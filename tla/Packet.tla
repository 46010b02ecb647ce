------------------------------- MODULE Packet -------------------------------
(***************************************************************************)
(* package.c, with the part of tlv.c it stands on: a packet is filled with *)
(* TLVs (addTLV) and turned into a datagram (build); a datagram, our own   *)
(* or a foreign one, is turned into a packet (paquet).  The octets are in  *)
(* the model, as the parser finds a TLV where the one before says it ends; *)
(* an octet has W values instead of 256, and the fields of TLVs have fewer *)
(* octets.  Allocations are taken to succeed; who frees a TLV is left out. *)
(***************************************************************************)
EXTENDS Integers, SequencesExt

CONSTANTS
  W,          \* bound: values of an octet
  ID_SIZE, SEQNO_SIZE, HASH_SIZE,
  ADDRESS_SIZE,                      \* IP_SIZE + PORT_SIZE
  CHANGE_MESSAGE_NUM, STOCK_NUM,     \* 42 and 51
  MAX_DATA_SIZE, MAX_ERROR_SIZE, MAX_PACKAGE_SIZE,
  Local,      \* addresses local to the link or to the machine
  Sha(_),     \* SHA-256
  Offered,    \* bound: TLVs that the node puts in its packets
  Foreign,    \* bound: datagrams that come from elsewhere
  Past        \* bound: octets that memory may hold after a datagram

VARIABLES
  phase,      \* what the node is at; "ignored" and "refused" are the two ways
              \* of paquet to return NULL, without and with an error text
  pack,       \* the packet being filled, by the node or by paquet
  dgram,      \* the datagram built or received
  at, left,   \* current and contentsize: where paquet is, what remains
  warned,     \* is there a TLV Warning in warningPackage?
  sent        \* the TLVs of the packet that was built (ghost)

vars == <<phase, pack, dgram, at, left, warned, sent>>

Octet == 0 .. W - 1

\* the types of constants.h
PAD1_NUM == 0
PADN_NUM == 1
NEIGHBOUR_REQUEST_NUM == 2
NEIGHBOUR_NUM == 3
NETWORK_HASH_NUM == 4
NETWORK_STATE_REQUEST_NUM == 5
NODE_HASH_NUM == 6
NODE_STATE_REQUEST_NUM == 7
NODE_STATE_NUM == 8
WARNING_NUM == 9

HEAD_SIZE == 2
PACKAGE_HEAD_SIZE == 4
\* NODE_STATE_MIN_SIZE and NODE_HASH_SIZE, without the head
NODE_SIZE == ID_SIZE + SEQNO_SIZE + HASH_SIZE

TLV == [type : Octet, content : Seq(Octet)]

ASSUME OctetAssumption ==
  /\ W \in Nat /\ WARNING_NUM < W
  /\ {CHANGE_MESSAGE_NUM, STOCK_NUM} \subseteq Octet \ 0 .. WARNING_NUM
  /\ CHANGE_MESSAGE_NUM # STOCK_NUM
ASSUME SizeAssumption ==
  /\ {ID_SIZE, SEQNO_SIZE, HASH_SIZE} \subseteq Nat
  /\ MAX_PACKAGE_SIZE \in Nat /\ PACKAGE_HEAD_SIZE <= MAX_PACKAGE_SIZE
\* what memory holds
ASSUME PastAssumption == Past \subseteq Octet

\* size(tlv), of a type and a length: the sum is cut to an octet
size(type, length) ==
  IF type = PAD1_NUM THEN 1 ELSE (HEAD_SIZE + length) % W
sizeOf(t) == size(t.type, Len(t.content))

getID(t)    == SubSeq(t.content, 1, ID_SIZE)
getSeqno(t) == SubSeq(t.content, ID_SIZE + 1, ID_SIZE + SEQNO_SIZE)
getHash(t)  == SubSeq(t.content, ID_SIZE + SEQNO_SIZE + 1, NODE_SIZE)
getData(t)  == SubSeq(t.content, NODE_SIZE + 1, Len(t.content))

\* The hash verify compares with: of a fresh record that updateData changed,
\* or left as it was if the TLV has the marks of a fresh record.
ExpectedHash(t) ==
  IF (\A i \in 1 .. SEQNO_SIZE : getSeqno(t)[i] = W - 1) /\ getData(t) = <<>>
    THEN [i \in 1 .. HASH_SIZE |-> 0]
    ELSE Sha(getID(t) \o getSeqno(t) \o getData(t))

verifyNotEmpty(t) ==
  Len(t.content) > NODE_SIZE /\ getHash(t) = ExpectedHash(t)
\* verify, of a Node State
verifyNodeState(t) ==
  Len(t.content) >= NODE_SIZE /\ getHash(t) = ExpectedHash(t)

verify(t) ==
  LET length == Len(t.content) IN
  /\ t.type \in {NEIGHBOUR_REQUEST_NUM, NETWORK_STATE_REQUEST_NUM} => length = 0
  /\ t.type = PADN_NUM => \A i \in 1 .. length : t.content[i] = 0
  /\ t.type = NEIGHBOUR_NUM => length = ADDRESS_SIZE /\ t.content \notin Local
  /\ t.type = NETWORK_HASH_NUM => length = HASH_SIZE
  /\ t.type = NODE_HASH_NUM => length = NODE_SIZE
  /\ t.type = NODE_STATE_REQUEST_NUM => length = ID_SIZE
  /\ t.type = NODE_STATE_NUM => verifyNodeState(t)

stock == [type |-> STOCK_NUM, content |-> <<>>]

\* The constructors return NULL for a content that is too long.
WithinLimit(t) ==
  /\ t.type = NODE_STATE_NUM => Len(getData(t)) <= MAX_DATA_SIZE
  /\ t.type \in {WARNING_NUM, CHANGE_MESSAGE_NUM} =>
       Len(t.content) <= MAX_ERROR_SIZE

\* What the constructor of its type makes of a verified TLV; none, if it
\* returns NULL or there is no such type.
Copy(t) ==
  IF t.type = STOCK_NUM THEN {stock}
  ELSE {c \in {t} : t.type \in 0 .. WARNING_NUM \cup {CHANGE_MESSAGE_NUM}
                      /\ WithinLimit(t)}

\* What the constructors make of what the node gives them: the hash of a Node
\* State is that of its data.  Left out are the two TLVs that no other node
\* takes: a Neighbour at a local address, and a Node State with the last seqno
\* and no text.
Made(t) ==
  LET length == Len(t.content)
      data == getData(t)
  IN
  /\ t.type \in 0 .. WARNING_NUM \cup {CHANGE_MESSAGE_NUM, STOCK_NUM}
  /\ t.type \in {PAD1_NUM, NEIGHBOUR_REQUEST_NUM, NETWORK_STATE_REQUEST_NUM,
                 STOCK_NUM} => length = 0
  /\ t.type = PADN_NUM => \A i \in 1 .. length : t.content[i] = 0
  /\ t.type = NEIGHBOUR_NUM => length = ADDRESS_SIZE /\ t.content \notin Local
  /\ t.type = NETWORK_HASH_NUM => length = HASH_SIZE
  /\ t.type = NODE_HASH_NUM => length = NODE_SIZE
  /\ t.type = NODE_STATE_REQUEST_NUM => length = ID_SIZE
  /\ t.type = NODE_STATE_NUM =>
       /\ length >= NODE_SIZE
       /\ getHash(t) = Sha(getID(t) \o getSeqno(t) \o data)
       /\ data # <<>> \/ \E i \in 1 .. SEQNO_SIZE : getSeqno(t)[i] # W - 1
  /\ WithinLimit(t)
  /\ HEAD_SIZE + length < W

ASSUME OfferedAssumption == \A t \in Offered : t \in TLV /\ Made(t)

-----------------------------------------------------------------------------
(* addTLV and build.                                                       *)

new_paquet == [tlvs |-> <<>>, body_length |-> 0]

FullBody(p, t) == p.body_length + sizeOf(t) > MAX_PACKAGE_SIZE
Full(p, t) == p.body_length + sizeOf(t) > MAX_PACKAGE_SIZE - PACKAGE_HEAD_SIZE

SeveralOfOneType == {NODE_HASH_NUM, NODE_STATE_REQUEST_NUM, NODE_STATE_NUM}

InsideByType(p, t) == \E i \in 1 .. Len(p.tlvs) : p.tlvs[i].type = t.type
\* Some TLVs may be there once for each Id, the others once.
Inside(p, t) ==
  \E i \in 1 .. Len(p.tlvs) :
    /\ p.tlvs[i].type = t.type
    /\ t.type \in SeveralOfOneType => getID(p.tlvs[i]) = getID(t)

PosLast(p, t) == Len(p.tlvs)
\* pos: how many TLVs come before t, by descending type, t after its equals
Pos(p, t) ==
  CHOOSE pos \in 0 .. Len(p.tlvs) :
    /\ \A i \in 1 .. pos : p.tlvs[i].type >= t.type
    /\ pos < Len(p.tlvs) => p.tlvs[pos + 1].type < t.type

\* the packet after addTLV(p, t)
addTLV(p, t) ==
  IF Full(p, t) \/ Inside(p, t)
    THEN p
    ELSE [tlvs |-> InsertAt(p.tlvs, Pos(p, t) + 1, t),
          body_length |-> p.body_length + sizeOf(t)]

\* the octets that build copies of t
Encode(t) ==
  SubSeq(<<t.type>> \o <<Len(t.content)>> \o t.content, 1, sizeOf(t))
Body(p) == FlattenSeq([i \in 1 .. Len(p.tlvs) |-> Encode(p.tlvs[i])])

build(p) ==
  [length |-> PACKAGE_HEAD_SIZE + p.body_length,
   magic |-> 95, version |-> 1, size |-> p.body_length, octets |-> Body(p)]

NoDatagram ==
  [length |-> 0, magic |-> 0, version |-> 0, size |-> 0, octets |-> <<>>]

\* rc octets in the buffer, of which those after the header are octets
Datagram ==
  {d \in [length : 0 .. MAX_PACKAGE_SIZE, magic : Nat, version : Nat,
          size : Nat, octets : Seq(Octet)] :
     Len(d.octets) =
       IF d.length < PACKAGE_HEAD_SIZE THEN 0 ELSE d.length - PACKAGE_HEAD_SIZE}

ASSUME ForeignAssumption == Foreign \subseteq Datagram

-----------------------------------------------------------------------------
Init ==
  /\ phase = "idle"
  /\ pack = new_paquet
  /\ dgram = NoDatagram
  /\ at = 0
  /\ left = 0
  /\ warned = FALSE
  /\ sent = <<>>

\* The node puts a TLV in the packet it is about to send.
Fill ==
  /\ phase \in {"idle", "filling"}
  /\ \E t \in Offered : pack' = addTLV(pack, t)
  /\ phase' = "filling"
  /\ UNCHANGED <<dgram, at, left, warned, sent>>

\* sendPackage: build, which frees the packet
Send ==
  /\ phase = "filling"
  /\ pack.tlvs # <<>>
  /\ dgram' = build(pack)
  /\ sent' = pack.tlvs
  /\ pack' = new_paquet
  /\ phase' = "sent"
  /\ UNCHANGED <<at, left, warned>>

\* paquet(d), up to its loop
Paquet(d) ==
  /\ dgram' = d
  /\ IF d.length < PACKAGE_HEAD_SIZE \/ d.magic # 95 \/ d.version # 1
       THEN phase' = "ignored" /\ UNCHANGED left
     ELSE IF d.size + PACKAGE_HEAD_SIZE > d.length
       THEN phase' = "refused" /\ UNCHANGED left
     ELSE phase' = "parsing" /\ left' = d.size
  /\ UNCHANGED <<pack, at, warned, sent>>

Receive ==
  \/ phase = "sent" /\ Paquet(dgram)
  \/ phase = "idle" /\ \E d \in Foreign : Paquet(d)

(***************************************************************************)
(* The loop of paquet.  getType and getLengthTLV of the TLV at current:    *)
(***************************************************************************)
curType   == dgram.octets[at + 1]
curLength == IF curType = PAD1_NUM THEN 0 ELSE dgram.octets[at + 2]
siz       == size(curType, curLength)

\* The TLV at current.  Its last octets are those after the datagram (o) if
\* its length goes beyond the end.
Current(o) ==
  [type |-> curType,
   content |-> [i \in 1 .. curLength |->
     IF at + HEAD_SIZE + i <= Len(dgram.octets)
       THEN dgram.octets[at + HEAD_SIZE + i] ELSE o]]

LooseExceeds == siz > left + 1
Exceeds == siz > left

\* current += siz; contentsize -= siz
Advance == at' = at + siz /\ left' = left - siz

Return ==
  /\ left = 0
  /\ phase' = "returned"
  /\ UNCHANGED <<pack, dgram, at, left, warned, sent>>

\* destroyPackage; NULL, with an error text
Refuse ==
  /\ \/ left = 1 /\ curType # PAD1_NUM
     \/ left > 1 /\ Exceeds
  /\ phase' = "refused"
  /\ pack' = new_paquet
  /\ UNCHANGED <<dgram, at, left, warned, sent>>

\* A Pad1 in the last octet: only siz is set.
LastPad1 ==
  /\ left = 1
  /\ curType = PAD1_NUM
  /\ UNCHANGED vars

WarnInPlace(t) ==
  /\ ~ verify(t)
  /\ warned' = TRUE
  /\ UNCHANGED <<pack, at, left>>
\* verify fails: addTLV(warningPackage, last_warning())
Warn(t) ==
  /\ ~ verify(t)
  /\ warned' = TRUE
  /\ Advance
  /\ UNCHANGED pack

Take(t) ==
  /\ verify(t)
  /\ IF Copy(t) = {}
       THEN UNCHANGED pack
       ELSE \E c \in Copy(t) : pack' = addTLV(pack, c)
  /\ Advance
  /\ UNCHANGED warned

Iterate ==
  /\ left > 1
  /\ ~ Exceeds
  /\ \E o \in Past : Warn(Current(o)) \/ Take(Current(o))
  /\ UNCHANGED <<phase, dgram, sent>>

Parse == phase = "parsing" /\ (Return \/ Refuse \/ LastPad1 \/ Iterate)

\* destroyPackage, once the node has handled the TLVs
Destroy ==
  /\ phase \in {"returned", "ignored", "refused"}
  /\ phase' = "idle"
  /\ pack' = new_paquet
  /\ dgram' = NoDatagram
  /\ at' = 0
  /\ left' = 0
  /\ warned' = FALSE
  /\ sent' = <<>>

Next == Fill \/ Send \/ Receive \/ Parse \/ Destroy

Spec == Init /\ [][Next]_vars

\* The loop of paquet runs until it ends.
FairSpec == Spec /\ WF_vars(Parse)

-----------------------------------------------------------------------------
(* What paquet should do with a datagram, from the sizes as they are.      *)

\* The sequence of TLVs a body is, if it is one: all the ways to cut it.
Cut(body) ==
  LET from[a \in 0 .. Len(body)] ==
        IF a = Len(body) THEN {<<>>}
        ELSE IF body[a + 1] = PAD1_NUM
          THEN {<<[type |-> PAD1_NUM, content |-> <<>>]>> \o s : s \in from[a + 1]}
        ELSE IF a + 1 = Len(body) \/ a + HEAD_SIZE + body[a + 2] > Len(body)
          THEN {}
        ELSE LET b == a + HEAD_SIZE + body[a + 2]
             IN  {<<[type |-> body[a + 1],
                     content |-> SubSeq(body, a + HEAD_SIZE + 1, b)]>> \o s :
                    s \in from[b]}
  IN from[0]

\* What one packet may hold only once.
Key(t) == <<t.type, IF t.type \in SeveralOfOneType THEN getID(t) ELSE <<>> >>

\* Of a sequence of TLVs, those to be handled: correct, and first of their key.
Wanted(s) ==
  {t \in UNION {Copy(s[i]) : i \in {j \in 1 .. Len(s) : verify(s[j])}} :
     \E i \in 1 .. Len(s) :
       /\ verify(s[i]) /\ t \in Copy(s[i])
       /\ \A j \in 1 .. i - 1 :
            verify(s[j]) => \A u \in Copy(s[j]) : Key(u) # Key(t)}

SizeFits(s) == \A i \in 1 .. Len(s) : HEAD_SIZE + Len(s[i].content) < W

-----------------------------------------------------------------------------
Phase == {"idle", "filling", "sent", "parsing", "returned", "ignored", "refused"}

\* The types; what remains to be read never gets below 0, where contentsize,
\* which is unsigned, would start over, and current stays in the datagram.
TypeOK ==
  /\ phase \in Phase
  /\ pack.tlvs \in Seq(TLV)
  /\ pack.body_length \in Nat
  /\ dgram \in Datagram
  /\ at \in Nat /\ left \in Nat
  /\ phase = "parsing" => at + left = dgram.size
                            /\ dgram.size <= Len(dgram.octets)
  /\ warned \in BOOLEAN
  /\ sent \in Seq(TLV)

\* The TLVs of a packet go by descending type, which package.c:92 relies on for
\* the lifetime of TLVs, and no two have the same key, in whatever order they
\* were added or received.
Ordered ==
  \A i, j \in 1 .. Len(pack.tlvs) :
    i < j => /\ pack.tlvs[i].type >= pack.tlvs[j].type
             /\ Key(pack.tlvs[i]) # Key(pack.tlvs[j])

\* build allocates body_length octets and copies the TLVs into them: they are
\* exactly that many, and what is sent is not longer than a packet may be.
BuildFits ==
  /\ Len(Body(pack)) = pack.body_length
  /\ PACKAGE_HEAD_SIZE + pack.body_length <= MAX_PACKAGE_SIZE

\* The packet one node built is the packet another gets from paquet, without
\* a Warning (and if it gets one, the loop does not end).
RoundTrip ==
  sent # <<>> =>
    /\ phase \notin {"ignored", "refused"}
    /\ ~ warned
    /\ phase = "returned" => pack.tlvs = sent

\* A datagram that is a sequence of TLVs, of sizes that an octet can hold, is
\* never refused: paquet keeps each correct TLV, the first of each key, and
\* warns if there was an incorrect one.
KeepsWanted ==
  (phase \in {"returned", "refused"} /\ dgram.size <= Len(dgram.octets)) =>
    \A s \in Cut(SubSeq(dgram.octets, 1, dgram.size)) :
      SizeFits(s) =>
        /\ phase = "returned"
        /\ ToSet(pack.tlvs) = Wanted(s)
        /\ warned <=> \E i \in 1 .. Len(s) : ~ verify(s[i])

\* The two places where the loop of paquet does not advance.
Stuck ==
  \/ left = 1 /\ curType = PAD1_NUM
  \/ left > 1 /\ siz = 0

\* Anywhere else, whatever is received, the loop ends.
EndsUnlessStuck == phase = "parsing" ~> (phase # "parsing" \/ Stuck)
=============================================================================
