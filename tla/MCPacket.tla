------------------------------ MODULE MCPacket ------------------------------
(***************************************************************************)
(* Packet for TLC: octets of 14 values, fields of one octet, and the       *)
(* datagrams that come from elsewhere.                                     *)
(***************************************************************************)
EXTENDS Packet

\* a hash that depends on each octet
SumSha(s) == <<FoldSeq(LAMBDA x, y : x + y, 1, s) % W>>

\* one TLV of each type, more than one where a packet takes several
SomeTLVs ==
  {[type |-> t, content |-> <<>>] :
     t \in {PAD1_NUM, NEIGHBOUR_REQUEST_NUM, NETWORK_STATE_REQUEST_NUM,
            CHANGE_MESSAGE_NUM, STOCK_NUM}}
  \cup {[type |-> PADN_NUM, content |-> <<0>>]}
  \cup {[type |-> NEIGHBOUR_NUM, content |-> <<a, 5>>] : a \in {2, 3}}
  \cup {[type |-> NETWORK_HASH_NUM, content |-> <<4>>]}
  \cup {[type |-> NODE_STATE_REQUEST_NUM, content |-> <<i>>] : i \in {1, 2}}
  \cup {[type |-> NODE_HASH_NUM, content |-> <<i, 0, 3>>] : i \in {1, 2}}
  \cup {[type |-> NODE_STATE_NUM, content |-> <<i, 0>> \o SumSha(<<i, 0>> \o d) \o d] :
          i \in {1, 2}, d \in {<<>>, <<6>>}}
  \cup {[type |-> WARNING_NUM, content |-> <<6>>]}

Header(body, claimed) ==
  [length |-> PACKAGE_HEAD_SIZE + Len(body), magic |-> 95, version |-> 1,
   size |-> claimed, octets |-> body]

Bodies(octets, max) == UNION {[1 .. n -> octets] : n \in 0 .. max}

\* datagrams that are not packets, or not of this version
NotPackets ==
  {[NoDatagram EXCEPT !.length = 3],
   [Header(<<>>, 0) EXCEPT !.magic = 94], [Header(<<>>, 0) EXCEPT !.version = 2]}

\* every body of at most 4 octets, without two of the types (Network State
\* Requests are like Neighbour Requests here, Node Hashes are in SomeTLVs), and
\* of 5 with the types of which a TLV may be as long; of at most 3 octets, with
\* other sizes claimed; two TLVs in either order
PairBodies ==
  {b \in {Encode(t) \o Encode(u) : t, u \in SomeTLVs} :
     PACKAGE_HEAD_SIZE + Len(b) <= MAX_PACKAGE_SIZE}
AnyDatagram ==
  NotPackets
    \cup {Header(b, Len(b)) : b \in Bodies(Octet \ {5, 6}, 4)
                                    \cup Bodies({0, 1, 2, 3, 7, 8, 12}, 5)}
    \cup {Header(b, Len(b)) : b \in PairBodies}
    \cup {Header(b, n) : b \in Bodies({0, 1, 2, 12}, 3), n \in 0 .. 4}

LocalAddress == {<<1, 5>>}
=============================================================================
