------------------------------ MODULE Flooding ------------------------------
(***************************************************************************)
(* The dazibao nodes and the datagrams between them (inondation.c with     *)
(* history.c and the neighbour table of node.c).                           *)
(*                                                                         *)
(* A node is single-threaded, so what it does between two calls of select  *)
(* is one step: handle a datagram, or run every20seconds.  A datagram      *)
(* carries one TLV here.  The code puts together in one datagram what it   *)
(* has at hand for a neighbour, and handles the TLVs of a datagram by      *)
(* descending type: one of the orders in which those of this module can    *)
(* arrive.                                                                 *)
(***************************************************************************)
EXTENDS Table

CONSTANTS
  Permanent,    \* [Node -> SUBSET Node]: neighbours given on the command line
  Recognised,   \* the nodes whose address as the others see it is one that
                \* mySelf finds: of an AF_INET6 interface, or told by a STUN server
  StartSeqno,   \* option -s
  OptD,         \* the nodes run with option -d
  MAX_VOISINS, MIN_VOISINS,
  Unreliable,   \* may the network lose, duplicate and (always) reorder?
  Overlap,      \* bound: types of TLVs that may be in flight for over 20 s
  NetCap,       \* bound: datagrams in flight, if Unreliable
  Active,       \* bound: the nodes whose users act, and that crash
  MaxChange,    \* bound: messages changed by the users, per behaviour
  MaxRestart    \* bound: crashes and restarts, per behaviour

ASSUME PermanentAssumption ==
  /\ Permanent \in [Node -> SUBSET Node]
  /\ \A n \in Recognised : n \notin Permanent[n]
ASSUME RecognisedAssumption == Recognised \subseteq Node
ASSUME UnreliableAssumption == Unreliable \in BOOLEAN
ASSUME StartSeqnoAssumption == StartSeqno \in Seqno \ {UNSET}
ASSUME OptDAssumption == OptD \subseteq Node
ASSUME ActiveAssumption == Active \subseteq Node

VARIABLES
  table,      \* n -> table:   the data n knows, its own included
  voisins,    \* n -> voisins: addresses n talks to
  history,    \* n -> history: the requests n has sent and remembers
  net,        \* datagrams in flight
  said,       \* n -> the text n's user last chose (ghost)
  published,  \* n -> every (seqno, text) n ever had for itself (ghost)
  changes, restarts

vars == <<table, voisins, history, net, said, published, changes, restarts>>

-----------------------------------------------------------------------------
(* TLVs in flight and TLVs remembered in the history.                      *)

Plain  == {"NeighbourRequest", "NetworkStateRequest", "Warning"}

Datagram ==
  [src : Node, dst : Node, type : Plain]
    \cup [src : Node, dst : Node, type : {"Neighbour"}, addr : Node]
    \cup [src : Node, dst : Node, type : {"NetworkHash"}, hash : DataTable]
    \cup [src : Node, dst : Node, type : {"NodeStateRequest"}, id : Node]
    \cup [src : Node, dst : Node, type : {"NodeHash", "NodeState"},
          id : Node, data : Data]

Request ==
  [type : {"NeighbourRequest", "NetworkStateRequest"}, pair : Node]
    \cup [type : {"NodeStateRequest"}, pair : Node, id : Node]

SendPlain(s, d, t) == [src |-> s, dst |-> d, type |-> t]
SendNeighbour(s, d, a) ==
  [src |-> s, dst |-> d, type |-> "Neighbour", addr |-> a]
SendNetworkHash(s, d, tab) ==
  [src |-> s, dst |-> d, type |-> "NetworkHash", hash |-> tab]
SendNodeStateRequest(s, d, i) ==
  [src |-> s, dst |-> d, type |-> "NodeStateRequest", id |-> i]
SendData(s, d, t, i, x) ==
  [src |-> s, dst |-> d, type |-> t, id |-> i, data |-> x]

Asked(t, p)      == [type |-> t, pair |-> p]
AskedState(p, i) == [type |-> "NodeStateRequest", pair |-> p, id |-> i]

KeepPair(h, gone) == h
\* removeInHistory(h, -1, -1, -1, v, 1) for each neighbour v that is gone
ForgetPair(h, gone) == {r \in h : r.pair \notin gone}

KeepAnswered(h, r) == h
\* removeInHistory(h, type, SENT, id, pair, 0)
RemoveInHistory(h, r) == h \ {r}

(***************************************************************************)
(* The network takes the datagrams got out of flight and puts sent in.     *)
(* Unreliable, it may deliver got again later and drop any of sent.        *)
(***************************************************************************)
Transmit(got, sent) ==
  \E again \in (IF Unreliable THEN {{}, got} ELSE {{}}),
     put \in (IF Unreliable THEN SUBSET sent ELSE {sent}) :
       /\ net' = (net \ got) \cup again \cup put
       /\ Unreliable => Cardinality(net') <= NetCap

\* Bound: 20 s are long enough for the TLVs of other types to arrive.
RoundOver == \A m \in net : m.type \in Overlap

-----------------------------------------------------------------------------
Init ==
  /\ table = [n \in Node |-> [i \in Node |->
       IF i = n THEN [seqno |-> StartSeqno, text |-> Empty] ELSE None]]
  /\ voisins = Permanent
  /\ history = [n \in Node |-> {}]
  /\ net = {}
  /\ said = [n \in Node |-> Empty]
  /\ published = [n \in Node |-> {[seqno |-> StartSeqno, text |-> Empty]}]
  /\ changes = 0
  /\ restarts = 0

\* Ghost: remember what n says of itself after the step.
Publish(n) == published' = [published EXCEPT ![n] = @ \cup {table'[n][n]}]

(***************************************************************************)
(* every20seconds(n): with -d publish the size of the table; send again    *)
(* the pending Node State Requests (reask); send the Network Hash to every *)
(* neighbour; forget neighbours silent for 70 s; short of neighbours, ask  *)
(* one of those left for another.  Time is abstracted: any neighbour that  *)
(* is not permanent may have been silent.                                  *)
(***************************************************************************)
DefaultOnce(n) ==
  IF n \in OptD /\ table[n][n].text = Empty
    THEN UpdateMyData(table[n], n, ISee(Cardinality(Known(table[n]))))
    ELSE table[n]
DefaultValue(n) ==
  IF n \in OptD
    THEN UpdateMyData(table[n], n, ISee(Cardinality(Known(table[n]))))
    ELSE table[n]

Reask(n) == {SendNodeStateRequest(n, r.pair, r.id) :
               r \in {q \in history[n] : q.type = "NodeStateRequest"}}

Lacking(left) ==
  IF left # {} /\ Cardinality(left) < MIN_VOISINS
    THEN {{x} : x \in left}
    ELSE {{}}

Every20Seconds(n) ==
  \E gone \in SUBSET (voisins[n] \ Permanent[n]) :
  \E asked \in Lacking(voisins[n] \ gone) :
    /\ RoundOver
    /\ table' = [table EXCEPT ![n] = DefaultValue(n)]
    /\ said' = [said EXCEPT ![n] = table'[n][n].text]
    /\ voisins' = [voisins EXCEPT ![n] = @ \ gone]
    /\ history' = [history EXCEPT ![n] =
         ForgetPair(@, gone)
           \cup {Asked("NeighbourRequest", x) : x \in asked}]
    /\ Transmit({}, Reask(n)
         \cup {SendNetworkHash(n, v, table'[n]) : v \in voisins[n]}
         \cup {SendPlain(n, x, "NeighbourRequest") : x \in asked})
    /\ Publish(n)
    /\ UNCHANGED <<changes, restarts>>

-----------------------------------------------------------------------------
(* Handling one datagram m.                                                *)

\* Is the address a, of the node n itself, one that n knows of?
mySelf(n, a) == a = n /\ n \in Recognised

\* isVoisin, else not mySelf and addVoisin with room left
Admitted(m) ==
  \/ m.src \in voisins[m.dst]
  \/ /\ ~ mySelf(m.dst, m.src)
     /\ Cardinality(voisins[m.dst]) < MAX_VOISINS

\* A known sender or a new neighbour: the TLV is for its handler.
Receive(m, t) ==
  /\ m.type = t
  /\ Admitted(m)
  /\ voisins' = [voisins EXCEPT ![m.dst] = @ \cup {m.src}]
  /\ UNCHANGED <<changes, restarts>>

KeepTable == UNCHANGED <<table, said, published>>

\* The datagram is dropped (table of neighbours full), or none of its TLVs
\* is handled (it comes from ourselves).
Ignore(m) ==
  /\ ~ Admitted(m)
  /\ Transmit({m}, {})
  /\ KeepTable
  /\ UNCHANGED <<voisins, history, changes, restarts>>

ReceiveTLVWarning(m) ==
  /\ Receive(m, "Warning")
  /\ Transmit({m}, {})
  /\ KeepTable
  /\ UNCHANGED history

\* Answer with a neighbour drawn from the table the sender now is in.
ReceiveTLVNeighbourRequest(m) ==
  /\ Receive(m, "NeighbourRequest")
  /\ \E x \in voisins'[m.dst] : Transmit({m}, {SendNeighbour(m.dst, m.src, x)})
  /\ KeepTable
  /\ UNCHANGED history

\* Only a Neighbour we asked for counts.  One we do not know gets our Network
\* Hash, and the request stays in the history; one we know ends the request.
ReceiveTLVNeighbour(m) ==
  LET n == m.dst
      r == Asked("NeighbourRequest", m.src)
  IN /\ Receive(m, "Neighbour")
     /\ IF r \in history[n] /\ m.addr \notin voisins'[n]
          THEN /\ Transmit({m}, {SendNetworkHash(n, m.addr, table[n])})
               /\ UNCHANGED history
          ELSE /\ Transmit({m}, {})
               /\ history' = [history EXCEPT ![n] = RemoveInHistory(@, r)]
     /\ KeepTable

ReceiveTLVNetworkHash(m) ==
  LET n == m.dst IN
  /\ Receive(m, "NetworkHash")
  /\ IF m.hash # table[n]
       THEN /\ history' = [history EXCEPT ![n] =
                 @ \cup {Asked("NetworkStateRequest", m.src)}]
            /\ Transmit({m}, {SendPlain(n, m.src, "NetworkStateRequest")})
       ELSE /\ Transmit({m}, {})
            /\ UNCHANGED history
  /\ KeepTable

ReceiveTLVNetworkStateRequest(m) ==
  LET n == m.dst IN
  /\ Receive(m, "NetworkStateRequest")
  /\ Transmit({m}, {SendData(n, m.src, "NodeHash", i, table[n][i]) :
                      i \in Known(table[n])})
  /\ KeepTable
  /\ UNCHANGED history

NewerSwapped(mine, d) ==
  mine # None /\ mine.seqno # d.seqno /\ Preceq(mine.seqno, d.seqno)
NewerOnTie(mine, d) == mine # None /\ Preceq(d.seqno, mine.seqno)
\* d2 != NULL && d2 -> seqno != seqno && ((d2 -> seqno - seqno) & 32768) == 0
Newer(mine, d) ==
  mine # None /\ mine.seqno # d.seqno /\ Preceq(d.seqno, mine.seqno)

\* The Node Hashes of a node we sent a Network State Request: send our data
\* if it is newer, ask for theirs if it differs.
ReceiveTLVNodeHash(m) ==
  LET n == m.dst
      mine == table[n][m.id]
  IN /\ Receive(m, "NodeHash")
     /\ IF Asked("NetworkStateRequest", m.src) \notin history[n]
             \/ mine = m.data
          THEN Transmit({m}, {}) /\ UNCHANGED history
        ELSE IF Newer(mine, m.data)
          THEN /\ Transmit({m}, {SendData(n, m.src, "NodeState", m.id, mine)})
               /\ UNCHANGED history
        ELSE /\ Transmit({m}, {SendNodeStateRequest(n, m.src, m.id)})
             /\ history' = [history EXCEPT ![n] =
                  @ \cup {AskedState(m.src, m.id)}]
     /\ KeepTable

ReceiveTLVNodeStateRequest(m) ==
  LET n == m.dst IN
  /\ Receive(m, "NodeStateRequest")
  /\ Transmit({m}, {SendData(n, m.src, "NodeState", i, table[n][i]) :
                      i \in {m.id} \cap Known(table[n])})
  /\ KeepTable
  /\ UNCHANGED history

Unasked(h, r) == FALSE
\* searchInHistory(h, NODE_STATE_REQUEST_NUM, SENT, id, pair)
Solicited(h, r) == r \in h

\* A Node State that verifies and was asked for goes to the data base; one
\* that does not verify is answered with a Warning.
ReceiveTLVNodeState(m) ==
  LET n == m.dst
      r == AskedState(m.src, m.id)
  IN /\ Receive(m, "NodeState")
     /\ IF Verify(m.data) /\ Solicited(history[n], r)
          THEN /\ history' = [history EXCEPT ![n] = RemoveInHistory(@, r)]
               /\ table' = [table EXCEPT ![n] =
                    UpdateDataBase(@, n, m.id, m.data)]
               /\ Publish(n)
               /\ UNCHANGED said
          ELSE KeepTable /\ UNCHANGED history
     /\ Transmit({m}, IF Verify(m.data) THEN {}
                      ELSE {SendPlain(n, m.src, "Warning")})

-----------------------------------------------------------------------------
\* A TLV Change Message from the node's own machine, correctly encrypted
\* (receiveTLVChangeMessage).  An empty text changes nothing: updateData on
\* the fresh record returns 0.
ChangeMessage(n, c) ==
  /\ changes < MaxChange
  /\ changes' = changes + 1
  /\ table' = [table EXCEPT ![n] =
       IF UpdatesFresh([seqno |-> UNSET, text |-> c])
         THEN UpdateMyData(@, n, c) ELSE @]
  /\ said' = [said EXCEPT ![n] = IF c = Empty THEN @ ELSE c]
  /\ Publish(n)
  /\ UNCHANGED <<voisins, history, net, restarts>>

\* The process dies and is run again with the same Id and the same options;
\* nothing is kept on disk.
Restart(n) ==
  /\ restarts < MaxRestart
  /\ restarts' = restarts + 1
  /\ table' = [table EXCEPT ![n] = [i \in Node |->
       IF i = n THEN [seqno |-> StartSeqno, text |-> Empty] ELSE None]]
  /\ voisins' = [voisins EXCEPT ![n] = Permanent[n]]
  /\ history' = [history EXCEPT ![n] = {}]
  /\ said' = [said EXCEPT ![n] = Empty]
  /\ Publish(n)
  /\ UNCHANGED <<net, changes>>

Handle(m) ==
  \/ Ignore(m)
  \/ ReceiveTLVWarning(m)
  \/ ReceiveTLVNeighbourRequest(m)
  \/ ReceiveTLVNeighbour(m)
  \/ ReceiveTLVNetworkHash(m)
  \/ ReceiveTLVNetworkStateRequest(m)
  \/ ReceiveTLVNodeHash(m)
  \/ ReceiveTLVNodeStateRequest(m)
  \/ ReceiveTLVNodeState(m)

Next ==
  \/ \E n \in Node : Every20Seconds(n)
  \/ \E m \in net : Handle(m)
  \/ \E n \in Active, c \in Text \cup {Empty} : ChangeMessage(n, c)
  \/ \E n \in Active : Restart(n)

Spec == Init /\ [][Next]_vars

(***************************************************************************)
(* Fairness.  The event loop runs every20seconds again and again, and a    *)
(* TLV of each kind that is in flight is eventually handled: with          *)
(* Unreliable = FALSE nothing is lost, and the loop handles what arrives.  *)
(* Datagrams of one kind may still overtake each other without end.        *)
(***************************************************************************)
Kind(m) == <<m.type, IF m.type \in {"NodeHash", "NodeStateRequest", "NodeState"}
                       THEN m.id ELSE None>>

Kinds == ((Plain \cup {"Neighbour", "NetworkHash"}) \X {None})
           \cup ({"NodeHash", "NodeStateRequest", "NodeState"} \X Node)

HandleKind(s, d, k) ==
  \E m \in net : m.src = s /\ m.dst = d /\ Kind(m) = k /\ Handle(m)

Fairness ==
  /\ \A n \in Node : SF_vars(Every20Seconds(n))
  /\ \A s \in Node, d \in Node, k \in Kinds : WF_vars(HandleKind(s, d, k))

FairSpec == Spec /\ Fairness

-----------------------------------------------------------------------------
(* Properties.                                                             *)

\* The type of the variables; a node always has data of its own.
TypeOK ==
  /\ table \in [Node -> DataTable]
  /\ \A n \in Node : table[n][n] # None
  /\ voisins \in [Node -> SUBSET Node]
  /\ history \in [Node -> SUBSET Request]
  /\ net \subseteq Datagram
  /\ said \in [Node -> Content]
  /\ published \in [Node -> SUBSET Data]
  /\ changes \in Nat
  /\ restarts \in Nat

\* What a node publishes under its Id is what its own user said last: old
\* data of its own that comes back from the network after a restart changes
\* the seqno at most (updateDataBase on the own Id).
OwnContent == \A n \in Node : table[n][n].text = said[n]

\* A record under the Id of i, known to a node or in flight, pairs a seqno and
\* a text that i had together at some time: no node mixes an old text with a
\* new seqno, or publishes for another.
Authentic ==
  /\ \A n \in Node, i \in Node :
       table[n][i] # None => table[n][i] \in published[i]
  /\ \A m \in net :
       /\ m.type \in {"NodeHash", "NodeState"} => m.data \in published[m.id]
       /\ m.type = "NetworkHash" =>
            \A i \in Node : m.hash[i] # None => m.hash[i] \in published[i]

\* Every request the history remembers is of a present neighbour.  The history
\* points to the struct voisin that removeVoisinsInactifs frees, and
\* searchInHistory follows that pointer.
HistoryNeighbours ==
  \A n \in Node : \A r \in history[n] : r.pair \in voisins[n]

\* As long as no node has restarted and i has published less than half the seqno
\* space, the circular order of seqnos is the order of publication.
InOrder(i) == restarts = 0 /\ Cardinality(published[i]) <= HALF

\* One record per seqno, and none ahead of its owner's: nodes that have the
\* same seqno for an Id have the same text, so comparing seqnos is enough to
\* find the newer data (receiveTLVNodeHash, updateDataBase).
OwnerAhead ==
  \A n \in Node, i \in Node :
    InOrder(i) /\ table[n][i] # None =>
      /\ Preceq(table[n][i].seqno, table[i][i].seqno)
      /\ \A o \in Node :
           table[o][i] # None /\ table[o][i].seqno = table[n][i].seqno =>
             table[o][i] = table[n][i]

\* Late, duplicated or reordered TLVs never bring back data older than what a
\* node already had.
NeverOlder ==
  [][\A n \in Node, i \in Node :
       InOrder(i)' /\ table[n][i] # None =>
         /\ table'[n][i] # None
         /\ Preceq(table[n][i].seqno, table'[n][i].seqno)]_vars

\* As long as it has not restarted, a node takes a new seqno for a new text
\* only, so that the others fetch its record once per text: its own data comes
\* back in Node Hashes, late ones too, but it never asks for it, which would make
\* updateDataBase outbid it though it is the same (database.c:129).
SeqnoForText ==
  [][\A n \in Node :
       InOrder(n)' /\ table'[n][n].seqno # table[n][n].seqno =>
         table'[n][n].text # table[n][n].text]_vars

\* Once the users stop changing messages and nodes stop restarting, all nodes
\* come to have the same table, for good.
Converges == <>[](\A n \in Node, o \in Node : table[n] = table[o])

\* And then no TLV but Neighbour Requests, Neighbours and Network Hashes is
\* sent: no request is asked again for ever.
Quiescent ==
  <>[](\A m \in net :
         m.type \in {"NeighbourRequest", "Neighbour", "NetworkHash"})

\* A node run with -d ends up saying how many records there are: publishing the
\* count changes the table, which is flooded, which must not change the count again.
CountsRight ==
  <>[](\A n \in OptD : table[n][n].text = ISee(Cardinality(Known(table[n]))))
=============================================================================
