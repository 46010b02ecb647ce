--------------------------- MODULE FloodingProofs ---------------------------
(***************************************************************************)
(* What the runs of MCFlooding show of small instances, proved for all     *)
(* nodes, texts, sizes of the seqno space, bounds and permanent neighbours.*)
(***************************************************************************)
EXTENDS Flooding, FiniteSetTheorems, TLAPS

USE DEF Seqno, UNSET

-----------------------------------------------------------------------------
(* The table of one node.                                                 *)

\* A seqno has a successor among the seqnos.
LEMMA SuccType ==
  ASSUME NEW s \in Seqno
  PROVE  Succ(s) \in Seqno
BY HALFAssumption DEF Succ

\* What lies less than a turn below or above a remainder has it, or is one
\* turn from it.
LEMMA Remainder ==
  ASSUME NEW M \in Nat \ {0}, NEW x \in 0 .. M - 1
  PROVE  x % M = x /\ (x + M) % M = x /\ (x - M) % M = x
<1>1. x % M = x
  OBVIOUS
<1>2. (x + M) % M = x
  OBVIOUS
<1>3. (x - M) % M = x
  OBVIOUS
<1>. QED
  BY <1>1, <1>2, <1>3

\* The way from a seqno to another, forwards.
LEMMA Forwards ==
  ASSUME NEW s \in Seqno, NEW t \in Seqno
  PROVE  (t - s) % (2 * HALF) = IF s <= t THEN t - s ELSE t - s + 2 * HALF
<1>. DEFINE M == 2 * HALF
<1>1. M \in Nat \ {0} /\ s \in 0 .. M - 1 /\ t \in 0 .. M - 1
  BY HALFAssumption
<1>. HIDE DEF M
<1>2. CASE s <= t
  <2>1. t - s \in 0 .. M - 1
    BY <1>1, <1>2
  <2>. QED
    BY <1>1, <1>2, <2>1, Remainder DEF M
<1>3. CASE ~ (s <= t)
  <2>1. t - s + M \in 0 .. M - 1 /\ (t - s + M) - M = t - s
    BY <1>1, <1>3
  <2>2. ((t - s + M) - M) % M = t - s + M
    BY <1>1, <2>1, Remainder
  <2>. QED
    BY <1>3, <2>1, <2>2 DEF M
<1>. QED
  BY <1>2, <1>3

\* The seqno after the last one is 0.
LEMMA SuccWraps ==
  ASSUME NEW s \in Seqno
  PROVE  Succ(s) = IF s = UNSET THEN 0 ELSE s + 1
<1>. DEFINE M == 2 * HALF
<1>1. M \in Nat \ {0} /\ s \in 0 .. M - 1
  BY HALFAssumption
<1>2. Succ(s) = (s + 1) % M /\ UNSET = M - 1
  BY DEF Succ
<1>. HIDE DEF M
<1>3. CASE s = M - 1
  <2>1. 0 \in 0 .. M - 1 /\ s + 1 = 0 + M
    BY <1>1, <1>3
  <2>. QED
    BY <1>1, <1>2, <1>3, <2>1, Remainder
<1>4. CASE s # M - 1
  <2>1. s + 1 \in 0 .. M - 1
    BY <1>1, <1>4
  <2>. QED
    BY <1>1, <1>2, <1>4, <2>1, Remainder
<1>. QED
  BY <1>3, <1>4

\* A record is not the absence of a record.
LEMMA DataFields ==
  ASSUME NEW d \in Data
  PROVE  /\ d # None
         /\ d.seqno \in Seqno
         /\ d.text \in Content
         /\ d = [seqno |-> d.seqno, text |-> d.text]
BY NoneAssumption DEF Data

\* An Id at which a table has something has a record.
LEMMA KnownData ==
  ASSUME NEW tab \in DataTable, NEW i \in Node, tab[i] # None
  PROVE  tab[i] \in Data
BY DEF DataTable

\* The texts a node can publish by itself.
LEMMA ContentFacts ==
  /\ Text \cup {Empty} \subseteq Content
  /\ \A tab \in DataTable : ISee(Cardinality(Known(tab))) \in Content
BY DEF Content, Known, DataTable

\* UpdateMyData publishes the text it is given, and touches nothing else.
LEMMA UpdateMyDataFacts ==
  ASSUME NEW tab \in DataTable, NEW me \in Node, NEW c \in Content,
         tab[me] # None
  PROVE  /\ UpdateMyData(tab, me, c) \in DataTable
         /\ UpdateMyData(tab, me, c)[me] \in Data
         /\ UpdateMyData(tab, me, c)[me].text = c
         /\ \A i \in Node : i # me => UpdateMyData(tab, me, c)[i] = tab[i]
<1>1. tab[me] \in Data
  BY KnownData
<1>2. Succ(tab[me].seqno) \in Seqno
  BY <1>1, SuccType, DataFields
<1>3. [seqno |-> Succ(tab[me].seqno), text |-> c] \in Data
  BY <1>2 DEF Data
<1>. QED
  BY <1>1, <1>3 DEF UpdateMyData, DataTable

\* UpdateDataBase keeps a table a table; what it does to our own record keeps
\* its text; what it puts elsewhere is the data it was given.
LEMMA UpdateDataBaseFacts ==
  ASSUME NEW tab \in DataTable, NEW me \in Node, NEW i \in Node,
         NEW d \in Data, tab[me] # None
  PROVE  /\ UpdateDataBase(tab, me, i, d) \in DataTable
         /\ UpdateDataBase(tab, me, i, d)[me] \in Data
         /\ UpdateDataBase(tab, me, i, d)[me].text = tab[me].text
         /\ \A j \in Node : j # me =>
              UpdateDataBase(tab, me, i, d)[j] \in {tab[j], d}
         /\ \A j \in Node : j # i =>
              UpdateDataBase(tab, me, i, d)[j] = tab[j]
<1>1. tab[me] \in Data
  BY KnownData
<1>2. Succ(d.seqno) \in Seqno
  BY SuccType, DataFields
<1>3. CASE i = me
  <2>1. /\ [tab[me] EXCEPT !.seqno = Succ(d.seqno)] \in Data
        /\ [tab[me] EXCEPT !.seqno = Succ(d.seqno)].text = tab[me].text
    BY <1>1, <1>2 DEF Data
  <2>. QED
    BY <1>1, <1>3, <2>1 DEF UpdateDataBase, Bump, DataTable
<1>4. CASE i # me
  BY <1>1, <1>4 DEF UpdateDataBase, Replace, DataTable
<1>. QED
  BY <1>3, <1>4

-----------------------------------------------------------------------------
(* The type invariant.                                                     *)

\* What the default value publishes is a table, with data of our own.
LEMMA DefaultValueFacts ==
  ASSUME TypeOK, NEW n \in Node
  PROVE  /\ DefaultValue(n) \in DataTable
         /\ DefaultValue(n)[n] \in Data
         /\ \A i \in Node : i # n => DefaultValue(n)[i] = table[n][i]
<1>1. /\ table[n] \in DataTable
      /\ table[n][n] # None
      /\ table[n][n] \in Data
  BY KnownData DEF TypeOK
<1>2. ISee(Cardinality(Known(table[n]))) \in Content
  BY <1>1, ContentFacts
<1>. QED
  BY <1>1, <1>2, UpdateMyDataFacts DEF DefaultValue

\* The records of a table that a node sends are datagrams.
LEMMA SendTypes ==
  ASSUME NEW s \in Node, NEW d \in Node
  PROVE  /\ \A t \in Plain : SendPlain(s, d, t) \in Datagram
         /\ \A x \in Node : SendNeighbour(s, d, x) \in Datagram
         /\ \A tab \in DataTable : SendNetworkHash(s, d, tab) \in Datagram
         /\ \A i \in Node : SendNodeStateRequest(s, d, i) \in Datagram
         /\ \A t \in {"NodeHash", "NodeState"}, i \in Node, x \in Data :
              SendData(s, d, t, i, x) \in Datagram
BY DEF SendPlain, SendNeighbour, SendNetworkHash, SendNodeStateRequest,
       SendData, Datagram

\* What is asked can be remembered.
LEMMA AskedTypes ==
  ASSUME NEW p \in Node
  PROVE  /\ Asked("NeighbourRequest", p) \in Request
         /\ Asked("NetworkStateRequest", p) \in Request
         /\ \A i \in Node : AskedState(p, i) \in Request
BY DEF Asked, AskedState, Request

\* The fields of a datagram that its handler reads.
LEMMA DatagramFields ==
  ASSUME NEW m \in Datagram
  PROVE  /\ m.src \in Node
         /\ m.dst \in Node
         /\ m.type = "Neighbour" => m.addr \in Node
         /\ m.type = "NetworkHash" => m.hash \in DataTable
         /\ m.type = "NodeStateRequest" => m.id \in Node
         /\ m.type \in {"NodeHash", "NodeState"} => m.id \in Node /\ m.data \in Data
BY DEF Datagram, Plain

\* The fields of a request in the history that reask reads.
LEMMA RequestFields ==
  ASSUME NEW r \in Request
  PROVE  /\ r.pair \in Node
         /\ r.type = "NodeStateRequest" => r.id \in Node
BY DEF Request

LEMMA InitTypeOK == Init => TypeOK
<1>. SUFFICES ASSUME Init PROVE TypeOK
  OBVIOUS
<1>1. [seqno |-> StartSeqno, text |-> Empty] \in Data
  BY StartSeqnoAssumption, ContentFacts DEF Data
<1>2. table \in [Node -> DataTable]
  BY <1>1 DEF Init, DataTable
<1>3. \A n \in Node : table[n][n] # None
  BY <1>1, DataFields DEF Init
<1>4. said \in [Node -> Content] /\ published \in [Node -> SUBSET Data]
  BY <1>1, ContentFacts DEF Init
<1>. QED
  BY <1>2, <1>3, <1>4, PermanentAssumption DEF Init, TypeOK

\* The 20 s timer keeps the types.
LEMMA Every20SecondsTypeOK ==
  ASSUME TypeOK, NEW n \in Node, Every20Seconds(n)
  PROVE  TypeOK'
<1>1. PICK gone \in SUBSET (voisins[n] \ Permanent[n]) :
      \E asked \in Lacking(voisins[n] \ gone) :
        /\ table' = [table EXCEPT ![n] = DefaultValue(n)]
        /\ said' = [said EXCEPT ![n] = table'[n][n].text]
        /\ voisins' = [voisins EXCEPT ![n] = @ \ gone]
        /\ history' = [history EXCEPT ![n] = ForgetPair(@, gone)
             \cup {Asked("NeighbourRequest", x) : x \in asked}]
        /\ Transmit({}, Reask(n)
             \cup {SendNetworkHash(n, v, table'[n]) : v \in voisins[n]}
             \cup {SendPlain(n, x, "NeighbourRequest") : x \in asked})
        /\ Publish(n)
        /\ UNCHANGED <<changes, restarts>>
  BY DEF Every20Seconds
<1>2. PICK asked \in Lacking(voisins[n] \ gone) :
        /\ table' = [table EXCEPT ![n] = DefaultValue(n)]
        /\ said' = [said EXCEPT ![n] = table'[n][n].text]
        /\ voisins' = [voisins EXCEPT ![n] = @ \ gone]
        /\ history' = [history EXCEPT ![n] = ForgetPair(@, gone)
             \cup {Asked("NeighbourRequest", x) : x \in asked}]
        /\ Transmit({}, Reask(n)
             \cup {SendNetworkHash(n, v, table'[n]) : v \in voisins[n]}
             \cup {SendPlain(n, x, "NeighbourRequest") : x \in asked})
        /\ Publish(n)
        /\ UNCHANGED <<changes, restarts>>
  BY <1>1
<1>3. asked \subseteq voisins[n] /\ voisins[n] \subseteq Node
  BY DEF Lacking, TypeOK
<1>4. /\ table' \in [Node -> DataTable]
      /\ table'[n] = DefaultValue(n)
      /\ table'[n][n] \in Data
      /\ \A o \in Node : table'[o][o] # None
  BY <1>2, DefaultValueFacts, DataFields DEF TypeOK
<1>5. said' \in [Node -> Content]
  BY <1>2, <1>4, DataFields DEF TypeOK
<1>6. published' \in [Node -> SUBSET Data]
  BY <1>2, <1>4 DEF TypeOK, Publish
<1>7. history' \in [Node -> SUBSET Request]
  BY <1>2, <1>3, AskedTypes DEF TypeOK, ForgetPair
<1>8. Reask(n) \subseteq Datagram
  BY RequestFields, SendTypes DEF TypeOK, Reask
<1>9. net' \subseteq Datagram
  <2>1. {SendNetworkHash(n, v, table'[n]) : v \in voisins[n]} \subseteq Datagram
    BY <1>3, <1>4, SendTypes
  <2>2. {SendPlain(n, x, "NeighbourRequest") : x \in asked} \subseteq Datagram
    BY <1>3, SendTypes DEF Plain
  <2>. QED
    BY <1>2, <1>8, <2>1, <2>2 DEF Transmit, TypeOK
<1>. QED
  BY <1>2, <1>4, <1>5, <1>6, <1>7, <1>9 DEF TypeOK

\* Handling a datagram keeps the types.
LEMMA HandleTypeOK ==
  ASSUME TypeOK, NEW m \in net, Handle(m)
  PROVE  TypeOK'
<1>. DEFINE n == m.dst
<1>1. /\ m \in Datagram
      /\ m.src \in Node
      /\ n \in Node
  BY DatagramFields DEF TypeOK
<1>2. /\ table[n] \in DataTable
      /\ table[n][n] # None
      /\ \A i \in Node : table[n][i] # None => table[n][i] \in Data
  BY <1>1, KnownData DEF TypeOK
<1>3. CASE Ignore(m)
  BY <1>3 DEF Ignore, Transmit, KeepTable, TypeOK
<1>4. ASSUME Receive(m, m.type)
      PROVE  /\ voisins' \in [Node -> SUBSET Node]
             /\ voisins'[n] \subseteq Node
             /\ UNCHANGED <<changes, restarts>>
  BY <1>1, <1>4 DEF Receive, TypeOK
<1>5. CASE ReceiveTLVWarning(m)
  BY <1>4, <1>5 DEF ReceiveTLVWarning, Receive, Transmit, KeepTable, TypeOK
<1>6. CASE ReceiveTLVNeighbourRequest(m)
  <2>1. PICK x \in voisins'[n] : Transmit({m}, {SendNeighbour(n, m.src, x)})
    BY <1>6 DEF ReceiveTLVNeighbourRequest
  <2>2. SendNeighbour(n, m.src, x) \in Datagram
    BY <1>1, <1>4, <1>6, <2>1, SendTypes DEF ReceiveTLVNeighbourRequest, Receive
  <2>3. net' \subseteq Datagram
    BY <2>1, <2>2 DEF Transmit, TypeOK
  <2>. QED
    BY <1>4, <1>6, <2>3 DEF ReceiveTLVNeighbourRequest, Receive, KeepTable, TypeOK
<1>7. CASE ReceiveTLVNeighbour(m)
  <2>1. SendNetworkHash(n, m.addr, table[n]) \in Datagram
    BY <1>1, <1>2, <1>7, DatagramFields, SendTypes DEF ReceiveTLVNeighbour, Receive
  <2>2. net' \subseteq Datagram
    BY <1>7, <2>1 DEF ReceiveTLVNeighbour, Transmit, TypeOK
  <2>3. history' \in [Node -> SUBSET Request]
    BY <1>1, <1>7 DEF ReceiveTLVNeighbour, RemoveInHistory, TypeOK
  <2>. QED
    BY <1>4, <1>7, <2>2, <2>3 DEF ReceiveTLVNeighbour, Receive, KeepTable, TypeOK
<1>8. CASE ReceiveTLVNetworkHash(m)
  <2>1. SendPlain(n, m.src, "NetworkStateRequest") \in Datagram
    BY <1>1, SendTypes DEF Plain
  <2>2. net' \subseteq Datagram
    BY <1>8, <2>1 DEF ReceiveTLVNetworkHash, Transmit, TypeOK
  <2>3. history' \in [Node -> SUBSET Request]
    BY <1>1, <1>8, AskedTypes DEF ReceiveTLVNetworkHash, TypeOK
  <2>. QED
    BY <1>4, <1>8, <2>2, <2>3 DEF ReceiveTLVNetworkHash, Receive, KeepTable, TypeOK
<1>9. CASE ReceiveTLVNetworkStateRequest(m)
  <2>1. {SendData(n, m.src, "NodeHash", i, table[n][i]) : i \in Known(table[n])}
          \subseteq Datagram
    BY <1>1, <1>2, SendTypes DEF Known, DataTable
  <2>2. net' \subseteq Datagram
    BY <1>9, <2>1 DEF ReceiveTLVNetworkStateRequest, Transmit, TypeOK
  <2>. QED
    BY <1>4, <1>9, <2>2
    DEF ReceiveTLVNetworkStateRequest, Receive, KeepTable, TypeOK
<1>10. CASE ReceiveTLVNodeHash(m)
  <2>1. m.id \in Node
    BY <1>1, <1>10, DatagramFields DEF ReceiveTLVNodeHash, Receive
  <2>2. Newer(table[n][m.id], m.data) =>
          SendData(n, m.src, "NodeState", m.id, table[n][m.id]) \in Datagram
    BY <1>1, <1>2, <2>1, SendTypes DEF Newer
  <2>3. SendNodeStateRequest(n, m.src, m.id) \in Datagram
    BY <1>1, <2>1, SendTypes
  <2>4. net' \subseteq Datagram
    BY <1>10, <2>2, <2>3 DEF ReceiveTLVNodeHash, Transmit, TypeOK
  <2>5. history' \in [Node -> SUBSET Request]
    BY <1>1, <1>10, <2>1, AskedTypes DEF ReceiveTLVNodeHash, TypeOK
  <2>. QED
    BY <1>4, <1>10, <2>4, <2>5 DEF ReceiveTLVNodeHash, Receive, KeepTable, TypeOK
<1>11. CASE ReceiveTLVNodeStateRequest(m)
  <2>1. {SendData(n, m.src, "NodeState", i, table[n][i]) :
           i \in {m.id} \cap Known(table[n])} \subseteq Datagram
    BY <1>1, <1>2, SendTypes DEF Known, DataTable
  <2>2. net' \subseteq Datagram
    BY <1>11, <2>1 DEF ReceiveTLVNodeStateRequest, Transmit, TypeOK
  <2>. QED
    BY <1>4, <1>11, <2>2
    DEF ReceiveTLVNodeStateRequest, Receive, KeepTable, TypeOK
<1>12. CASE ReceiveTLVNodeState(m)
  <2>1. m.id \in Node /\ m.data \in Data
    BY <1>1, <1>12, DatagramFields DEF ReceiveTLVNodeState, Receive
  <2>2. SendPlain(n, m.src, "Warning") \in Datagram
    BY <1>1, SendTypes DEF Plain
  <2>3. net' \subseteq Datagram
    BY <1>12, <2>2 DEF ReceiveTLVNodeState, Transmit, TypeOK
  <2>4. history' \in [Node -> SUBSET Request]
    BY <1>1, <1>12 DEF ReceiveTLVNodeState, RemoveInHistory, TypeOK
  <2>5. /\ UpdateDataBase(table[n], n, m.id, m.data) \in DataTable
        /\ UpdateDataBase(table[n], n, m.id, m.data)[n] \in Data
    BY <1>1, <1>2, <2>1, UpdateDataBaseFacts
  <2>6. /\ table' \in [Node -> DataTable]
        /\ \A o \in Node : table'[o][o] # None
        /\ published' \in [Node -> SUBSET Data]
        /\ said' \in [Node -> Content]
    BY <1>1, <1>12, <2>5, DataFields
    DEF ReceiveTLVNodeState, KeepTable, Publish, TypeOK
  <2>. QED
    BY <1>4, <1>12, <2>3, <2>4, <2>6 DEF ReceiveTLVNodeState, Receive, TypeOK
<1>. QED
  BY <1>3, <1>5, <1>6, <1>7, <1>8, <1>9, <1>10, <1>11, <1>12 DEF Handle

\* What ChangeMessage does to the table: the text the user gave, if it is one.
LEMMA ChangeMessageFacts ==
  ASSUME TypeOK, NEW n \in Node, NEW c \in Text \cup {Empty},
         ChangeMessage(n, c)
  PROVE  /\ table' \in [Node -> DataTable]
         /\ table'[n][n] \in Data
         /\ table'[n][n].text = IF c = Empty THEN table[n][n].text ELSE c
         /\ \A o \in Node, i \in Node :
              o # n \/ i # n => table'[o][i] = table[o][i]
<1>1. /\ table[n] \in DataTable
      /\ table[n][n] # None
      /\ table[n][n] \in Data
  BY KnownData DEF TypeOK
<1>2. c \in Content
  BY ContentFacts
<1>3. table' = [table EXCEPT ![n] =
        IF c # Empty THEN UpdateMyData(table[n], n, c) ELSE table[n]]
  BY DEF ChangeMessage, UpdatesFresh, TypeOK
<1>. QED
  BY <1>1, <1>2, <1>3, UpdateMyDataFacts DEF TypeOK

\* A node that starts again has a table of one record.
LEMMA RestartFacts ==
  ASSUME TypeOK, NEW n \in Node, Restart(n)
  PROVE  /\ table' \in [Node -> DataTable]
         /\ table'[n][n] = [seqno |-> StartSeqno, text |-> Empty]
         /\ table'[n][n] \in Data
         /\ \A i \in Node : i # n => table'[n][i] = None
         /\ \A o \in Node : o # n => table'[o] = table[o]
<1>1. [seqno |-> StartSeqno, text |-> Empty] \in Data
  BY StartSeqnoAssumption, ContentFacts DEF Data
<1>. QED
  BY <1>1 DEF Restart, TypeOK, DataTable

LEMMA NextTypeOK == TypeOK /\ [Next]_vars => TypeOK'
<1>. SUFFICES ASSUME TypeOK, [Next]_vars PROVE TypeOK'
  OBVIOUS
<1>1. ASSUME NEW n \in Node, Every20Seconds(n) PROVE TypeOK'
  BY <1>1, Every20SecondsTypeOK
<1>2. ASSUME NEW m \in net, Handle(m) PROVE TypeOK'
  BY <1>2, HandleTypeOK
<1>3. ASSUME NEW n \in Active, NEW c \in Text \cup {Empty}, ChangeMessage(n, c)
      PROVE  TypeOK'
  <2>1. n \in Node
    BY ActiveAssumption
  <2>2. /\ table' \in [Node -> DataTable]
        /\ table'[n][n] \in Data
        /\ \A o \in Node : table'[o][o] # None
    BY <1>3, <2>1, ChangeMessageFacts, DataFields DEF TypeOK
  <2>3. said' \in [Node -> Content] /\ published' \in [Node -> SUBSET Data]
    BY <1>3, <2>1, <2>2, ContentFacts DEF ChangeMessage, Publish, TypeOK
  <2>4. changes' \in Nat /\ UNCHANGED <<voisins, history, net, restarts>>
    BY <1>3 DEF ChangeMessage, TypeOK
  <2>. QED
    BY <2>2, <2>3, <2>4 DEF TypeOK
<1>4. ASSUME NEW n \in Active, Restart(n) PROVE TypeOK'
  <2>1. n \in Node
    BY ActiveAssumption
  <2>2. /\ table' \in [Node -> DataTable]
        /\ table'[n][n] \in Data
        /\ \A o \in Node : table'[o][o] # None
    BY <1>4, <2>1, RestartFacts, DataFields DEF TypeOK
  <2>3. said' \in [Node -> Content] /\ published' \in [Node -> SUBSET Data]
    BY <1>4, <2>1, <2>2, ContentFacts DEF Restart, Publish, TypeOK
  <2>4. voisins' \in [Node -> SUBSET Node]
    BY <1>4, <2>1, PermanentAssumption DEF Restart, TypeOK
  <2>5. history' \in [Node -> SUBSET Request]
    BY <1>4, <2>1 DEF Restart, TypeOK
  <2>6. restarts' \in Nat /\ UNCHANGED <<net, changes>>
    BY <1>4 DEF Restart, TypeOK
  <2>. QED
    BY <2>2, <2>3, <2>4, <2>5, <2>6 DEF TypeOK
<1>5. CASE UNCHANGED vars
  BY <1>5 DEF vars, TypeOK
<1>. QED
  BY <1>1, <1>2, <1>3, <1>4, <1>5 DEF Next

\* The variables keep their types, and a node always has data of its own.
THEOREM TypeCorrect == Spec => []TypeOK
BY InitTypeOK, NextTypeOK, PTL DEF Spec

-----------------------------------------------------------------------------
(* Properties that are inductive with the types.                           *)

LEMMA NextOwnContent == TypeOK /\ OwnContent /\ [Next]_vars => OwnContent'
<1>. SUFFICES ASSUME TypeOK, OwnContent, [Next]_vars,
                     NEW o \in Node
              PROVE  (table[o][o].text = said[o])'
  BY DEF OwnContent
<1>1. table[o][o].text = said[o]
  BY DEF OwnContent
<1>2. ASSUME NEW n \in Node, Every20Seconds(n)
      PROVE  table'[o][o].text = said'[o]
  <2>1. /\ table' = [table EXCEPT ![n] = DefaultValue(n)]
        /\ said' = [said EXCEPT ![n] = table'[n][n].text]
    BY <1>2 DEF Every20Seconds
  <2>. QED
    BY <1>1, <2>1 DEF TypeOK
<1>3. ASSUME NEW m \in net, Handle(m)
      PROVE  table'[o][o].text = said'[o]
  <2>1. CASE ReceiveTLVNodeState(m)
    <3>1. m \in Datagram /\ m.dst \in Node
      BY DatagramFields DEF TypeOK
    <3>2. m.id \in Node /\ m.data \in Data
      BY <2>1, <3>1, DatagramFields DEF ReceiveTLVNodeState, Receive
    <3>3. /\ table[m.dst] \in DataTable
          /\ table[m.dst][m.dst] # None
      BY <3>1 DEF TypeOK
    <3>4. UpdateDataBase(table[m.dst], m.dst, m.id, m.data)[m.dst].text
            = table[m.dst][m.dst].text
      BY <3>1, <3>2, <3>3, UpdateDataBaseFacts
    <3>5. /\ said' = said
          /\ \/ table' = table
             \/ table' = [table EXCEPT ![m.dst] =
                  UpdateDataBase(table[m.dst], m.dst, m.id, m.data)]
      BY <2>1 DEF ReceiveTLVNodeState, KeepTable
    <3>. QED
      BY <1>1, <3>1, <3>4, <3>5 DEF TypeOK
  <2>2. CASE ~ ReceiveTLVNodeState(m)
    <3>1. KeepTable
      BY <1>3, <2>2
      DEF Handle, Ignore, ReceiveTLVWarning, ReceiveTLVNeighbourRequest,
          ReceiveTLVNeighbour, ReceiveTLVNetworkHash,
          ReceiveTLVNetworkStateRequest, ReceiveTLVNodeHash,
          ReceiveTLVNodeStateRequest
    <3>. QED
      BY <1>1, <3>1 DEF KeepTable
  <2>. QED
    BY <2>1, <2>2
<1>4. ASSUME NEW n \in Active, NEW c \in Text \cup {Empty}, ChangeMessage(n, c)
      PROVE  table'[o][o].text = said'[o]
  <2>1. n \in Node
    BY ActiveAssumption
  <2>2. said' = [said EXCEPT ![n] = IF c = Empty THEN @ ELSE c]
    BY <1>4 DEF ChangeMessage
  <2>3. CASE o = n
    BY <1>1, <1>4, <2>1, <2>2, <2>3, ChangeMessageFacts DEF TypeOK
  <2>4. CASE o # n
    BY <1>1, <1>4, <2>1, <2>2, <2>4, ChangeMessageFacts DEF TypeOK
  <2>. QED
    BY <2>3, <2>4
<1>5. ASSUME NEW n \in Active, Restart(n)
      PROVE  table'[o][o].text = said'[o]
  <2>1. n \in Node
    BY ActiveAssumption
  <2>2. said' = [said EXCEPT ![n] = Empty]
    BY <1>5 DEF Restart
  <2>. QED
    BY <1>1, <1>5, <2>1, <2>2, RestartFacts DEF TypeOK
<1>6. CASE UNCHANGED vars
  BY <1>1, <1>6 DEF vars
<1>. QED
  BY <1>2, <1>3, <1>4, <1>5, <1>6 DEF Next

\* Whatever comes back from the network under a node's own Id, after any
\* number of restarts, the node goes on publishing what its user said last.
THEOREM OwnContentHolds == Spec => []OwnContent
<1>1. Init => OwnContent
  BY DEF Init, OwnContent
<1>. QED
  BY <1>1, NextOwnContent, TypeCorrect, PTL DEF Spec

\* The history never points to a neighbour that has been freed.
THEOREM HistoryNeighboursHolds == Spec => []HistoryNeighbours
<1>1. Init => HistoryNeighbours
  BY DEF Init, HistoryNeighbours
<1>2. TypeOK /\ HistoryNeighbours /\ [Next]_vars => HistoryNeighbours'
  <2>. SUFFICES ASSUME TypeOK, HistoryNeighbours, [Next]_vars,
                       NEW o \in Node, NEW r \in history'[o]
                PROVE  r.pair \in voisins'[o]
    BY DEF HistoryNeighbours
  <2>1. r \in history[o] => r.pair \in voisins[o]
    BY DEF HistoryNeighbours
  <2>2. ASSUME NEW n \in Node, Every20Seconds(n) PROVE r.pair \in voisins'[o]
    <3>1. PICK gone \in SUBSET (voisins[n] \ Permanent[n]) :
          \E asked \in Lacking(voisins[n] \ gone) :
            /\ voisins' = [voisins EXCEPT ![n] = @ \ gone]
            /\ history' = [history EXCEPT ![n] = ForgetPair(@, gone)
                 \cup {Asked("NeighbourRequest", x) : x \in asked}]
      BY <2>2 DEF Every20Seconds
    <3>2. PICK asked \in Lacking(voisins[n] \ gone) :
            /\ voisins' = [voisins EXCEPT ![n] = @ \ gone]
            /\ history' = [history EXCEPT ![n] = ForgetPair(@, gone)
                 \cup {Asked("NeighbourRequest", x) : x \in asked}]
      BY <3>1
    <3>3. asked \subseteq voisins[n] \ gone
      BY DEF Lacking
    <3>. QED
      BY <2>1, <3>2, <3>3 DEF TypeOK, ForgetPair, Asked
  <2>3. ASSUME NEW m \in net, Handle(m) PROVE r.pair \in voisins'[o]
    <3>1. m.dst \in Node
      BY DatagramFields DEF TypeOK
    <3>2. /\ voisins[o] \subseteq voisins'[o]
          /\ r \in history[o] \/ r.pair \in voisins'[o]
      <4>1. CASE Ignore(m)
        BY <4>1 DEF Ignore
      <4>2. CASE ReceiveTLVNetworkHash(m)
        BY <3>1, <4>2 DEF ReceiveTLVNetworkHash, Receive, Asked, TypeOK
      <4>3. CASE ReceiveTLVNodeHash(m)
        BY <3>1, <4>3 DEF ReceiveTLVNodeHash, Receive, AskedState, TypeOK
      <4>4. CASE ReceiveTLVNeighbour(m)
        BY <3>1, <4>4 DEF ReceiveTLVNeighbour, Receive, RemoveInHistory, TypeOK
      <4>5. CASE ReceiveTLVNodeState(m)
        BY <3>1, <4>5 DEF ReceiveTLVNodeState, Receive, RemoveInHistory, TypeOK
      <4>6. CASE ReceiveTLVWarning(m)
        BY <3>1, <4>6 DEF ReceiveTLVWarning, Receive, TypeOK
      <4>7. CASE ReceiveTLVNeighbourRequest(m)
        BY <3>1, <4>7 DEF ReceiveTLVNeighbourRequest, Receive, TypeOK
      <4>8. CASE ReceiveTLVNetworkStateRequest(m)
        BY <3>1, <4>8 DEF ReceiveTLVNetworkStateRequest, Receive, TypeOK
      <4>9. CASE ReceiveTLVNodeStateRequest(m)
        BY <3>1, <4>9 DEF ReceiveTLVNodeStateRequest, Receive, TypeOK
      <4>. QED
        BY <2>3, <4>1, <4>2, <4>3, <4>4, <4>5, <4>6, <4>7, <4>8, <4>9 DEF Handle
    <3>. QED
      BY <2>1, <3>2
  <2>4. ASSUME NEW n \in Active, NEW c \in Text \cup {Empty}, ChangeMessage(n, c)
        PROVE  r.pair \in voisins'[o]
    BY <2>1, <2>4 DEF ChangeMessage
  <2>5. ASSUME NEW n \in Active, Restart(n) PROVE r.pair \in voisins'[o]
    BY <2>1, <2>5, ActiveAssumption DEF Restart, TypeOK
  <2>6. CASE UNCHANGED vars
    BY <2>1, <2>6 DEF vars
  <2>. QED
    BY <2>2, <2>3, <2>4, <2>5, <2>6 DEF Next
<1>. QED
  BY <1>1, <1>2, TypeCorrect, PTL DEF Spec

-----------------------------------------------------------------------------
(* Authenticity.  A record reaches a table from a datagram, and a datagram *)
(* from a table, so the two halves of Authentic are inductive together;    *)
(* what a node says of itself is published in the same step.               *)

AuthTable(tab, pub) == \A i \in Node : tab[i] # None => tab[i] \in pub[i]

AuthDatagram(m, pub) ==
  /\ m.type \in {"NodeHash", "NodeState"} => m.data \in pub[m.id]
  /\ m.type = "NetworkHash" => AuthTable(m.hash, pub)

LEMMA AuthenticParts ==
  Authentic <=> /\ \A n \in Node : AuthTable(table[n], published)
                /\ \A m \in net : AuthDatagram(m, published)
BY DEF Authentic, AuthTable, AuthDatagram

\* What is authentic stays so when more is published.
LEMMA AuthGrows ==
  ASSUME NEW p, NEW q, \A i \in Node : p[i] \subseteq q[i]
  PROVE  /\ \A tab : AuthTable(tab, p) => AuthTable(tab, q)
         /\ \A m \in Datagram : AuthDatagram(m, p) => AuthDatagram(m, q)
<1>1. \A tab : AuthTable(tab, p) => AuthTable(tab, q)
  BY DEF AuthTable
<1>2. ASSUME NEW m \in Datagram, AuthDatagram(m, p) PROVE AuthDatagram(m, q)
  BY <1>1, <1>2, DatagramFields DEF AuthDatagram
<1>. QED
  BY <1>1, <1>2

\* The datagrams a node makes of an authentic table are authentic.
LEMMA SendAuth ==
  ASSUME NEW p, NEW tab, AuthTable(tab, p), NEW s, NEW d
  PROVE  /\ AuthDatagram(SendNetworkHash(s, d, tab), p)
         /\ \A t \in {"NodeHash", "NodeState"}, i \in Node :
              tab[i] # None => AuthDatagram(SendData(s, d, t, i, tab[i]), p)
         /\ \A t \in Plain : AuthDatagram(SendPlain(s, d, t), p)
         /\ \A x : AuthDatagram(SendNeighbour(s, d, x), p)
         /\ \A i : AuthDatagram(SendNodeStateRequest(s, d, i), p)
BY DEF AuthTable, AuthDatagram, SendNetworkHash, SendData, SendPlain,
       SendNeighbour, SendNodeStateRequest, Plain

\* A step that makes tables authentic, publishes more and sends authentic
\* datagrams keeps Authentic.
LEMMA AuthStep ==
  ASSUME TypeOK, Authentic,
         \A i \in Node : published[i] \subseteq published'[i],
         \A n \in Node : table'[n] = table[n] \/ AuthTable(table'[n], published'),
         \A m \in net' : m \in net \/ AuthDatagram(m, published')
  PROVE  Authentic'
<1>1. /\ \A tab : AuthTable(tab, published) => AuthTable(tab, published')
      /\ \A m \in Datagram : AuthDatagram(m, published)
           => AuthDatagram(m, published')
  BY AuthGrows
<1>2. \A n \in Node : AuthTable(table'[n], published')
  BY <1>1, AuthenticParts
<1>3. \A m \in net' : AuthDatagram(m, published')
  BY <1>1, AuthenticParts DEF TypeOK
<1>. QED
  BY <1>2, <1>3 DEF Authentic, AuthTable, AuthDatagram

\* Publishing is for the owner of the table, and takes nothing back.
LEMMA PublishFacts ==
  ASSUME TypeOK, NEW n \in Node, Publish(n)
  PROVE  /\ \A i \in Node : published[i] \subseteq published'[i]
         /\ table'[n][n] \in published'[n]
BY DEF Publish, TypeOK

LEMMA Every20SecondsAuthentic ==
  ASSUME TypeOK, Authentic, NEW n \in Node, Every20Seconds(n)
  PROVE  Authentic'
<1>1. /\ table' = [table EXCEPT ![n] = DefaultValue(n)]
      /\ Publish(n)
  BY DEF Every20Seconds
<1>2. AuthTable(table[n], published)
  BY AuthenticParts
<1>3. \A i \in Node : published[i] \subseteq published'[i]
  BY <1>1, PublishFacts
<1>4. AuthTable(table'[n], published')
  <2>1. table'[n] = DefaultValue(n)
    BY <1>1 DEF TypeOK
  <2>2. \A i \in Node : i # n => table'[n][i] = table[n][i]
    BY <2>1, DefaultValueFacts
  <2>. QED
    BY <1>1, <1>2, <1>3, <2>2, PublishFacts DEF AuthTable
<1>5. \A m \in net' : m \in net \/ AuthDatagram(m, published')
  <2>1. PICK gone \in SUBSET (voisins[n] \ Permanent[n]) :
        \E asked \in Lacking(voisins[n] \ gone) :
          Transmit({}, Reask(n)
            \cup {SendNetworkHash(n, v, table'[n]) : v \in voisins[n]}
            \cup {SendPlain(n, x, "NeighbourRequest") : x \in asked})
    BY DEF Every20Seconds
  <2>2. PICK asked \in Lacking(voisins[n] \ gone) :
          Transmit({}, Reask(n)
            \cup {SendNetworkHash(n, v, table'[n]) : v \in voisins[n]}
            \cup {SendPlain(n, x, "NeighbourRequest") : x \in asked})
    BY <2>1
  <2>3. \A m \in net' :
          \/ m \in net
          \/ m \in Reask(n)
          \/ \E v \in voisins[n] : m = SendNetworkHash(n, v, table'[n])
          \/ \E x \in asked : m = SendPlain(n, x, "NeighbourRequest")
    BY <2>2 DEF Transmit
  <2>4. \A v \in voisins[n] :
          AuthDatagram(SendNetworkHash(n, v, table'[n]), published')
    BY <1>4, SendAuth
  <2>5. \A m \in Reask(n) : AuthDatagram(m, published')
    BY DEF Reask, SendNodeStateRequest, AuthDatagram
  <2>6. \A x \in asked :
          AuthDatagram(SendPlain(n, x, "NeighbourRequest"), published')
    BY DEF SendPlain, AuthDatagram
  <2>. QED
    BY <2>3, <2>4, <2>5, <2>6
<1>. QED
  BY <1>1, <1>3, <1>4, <1>5, AuthStep DEF TypeOK

LEMMA HandleAuthentic ==
  ASSUME TypeOK, Authentic, NEW m \in net, Handle(m)
  PROVE  Authentic'
<1>. DEFINE n == m.dst
<1>1. m \in Datagram /\ n \in Node
  BY DatagramFields DEF TypeOK
<1>2. AuthTable(table[n], published) /\ AuthDatagram(m, published)
  BY <1>1, AuthenticParts
<1>3. CASE ReceiveTLVNodeState(m)
  <2>1. m.id \in Node /\ m.data \in Data /\ m.data \in published[m.id]
    BY <1>1, <1>2, <1>3, DatagramFields
    DEF ReceiveTLVNodeState, Receive, AuthDatagram
  <2>2. \/ UNCHANGED <<table, published>>
        \/ /\ table' = [table EXCEPT ![n] =
                UpdateDataBase(table[n], n, m.id, m.data)]
           /\ Publish(n)
    BY <1>3 DEF ReceiveTLVNodeState, KeepTable
  <2>3. \A i \in Node : published[i] \subseteq published'[i]
    BY <1>1, <2>2, PublishFacts
  <2>4. ASSUME table' = [table EXCEPT ![n] =
                 UpdateDataBase(table[n], n, m.id, m.data)],
               Publish(n)
        PROVE  AuthTable(table'[n], published')
    <3>1. table[n] \in DataTable /\ table[n][n] # None
      BY <1>1 DEF TypeOK
    <3>2. table'[n] = UpdateDataBase(table[n], n, m.id, m.data)
      BY <1>1, <2>4 DEF TypeOK
    <3>3. SUFFICES ASSUME NEW j \in Node, table'[n][j] # None
                   PROVE  table'[n][j] \in published'[j]
      BY DEF AuthTable
    <3>4. CASE j = n
      BY <1>1, <2>4, <3>4, PublishFacts
    <3>5. CASE j # n /\ j # m.id
      <4>1. table'[n][j] = table[n][j]
        BY <1>1, <2>1, <3>1, <3>2, <3>5, UpdateDataBaseFacts
      <4>. QED
        BY <1>2, <2>3, <3>3, <4>1 DEF AuthTable
    <3>6. CASE j # n /\ j = m.id
      <4>1. table'[n][j] \in {table[n][j], m.data}
        BY <1>1, <2>1, <3>1, <3>2, <3>6, UpdateDataBaseFacts
      <4>. QED
        BY <1>2, <2>1, <2>3, <3>3, <3>6, <4>1 DEF AuthTable
    <3>. QED
      BY <3>4, <3>5, <3>6
  <2>5. \A o \in Node : table'[o] = table[o] \/ AuthTable(table'[o], published')
    BY <1>1, <2>2, <2>4 DEF TypeOK
  <2>6. \A x \in net' : x \in net \/ AuthDatagram(x, published')
    BY <1>3 DEF ReceiveTLVNodeState, Transmit, AuthDatagram, SendPlain
  <2>. QED
    BY <2>3, <2>5, <2>6, AuthStep
<1>4. CASE ~ ReceiveTLVNodeState(m)
  <2>1. UNCHANGED <<table, published>>
    BY <1>4
    DEF Handle, Ignore, ReceiveTLVWarning, ReceiveTLVNeighbourRequest,
        ReceiveTLVNeighbour, ReceiveTLVNetworkHash,
        ReceiveTLVNetworkStateRequest, ReceiveTLVNodeHash,
        ReceiveTLVNodeStateRequest, KeepTable
  <2>2. \A x \in net' : x \in net \/ AuthDatagram(x, published)
    <3>1. CASE Ignore(m) \/ ReceiveTLVWarning(m)
      BY <3>1 DEF Ignore, ReceiveTLVWarning, Transmit
    <3>2. CASE ReceiveTLVNeighbourRequest(m)
      <4>1. PICK y : Transmit({m}, {SendNeighbour(n, m.src, y)})
        BY <3>2 DEF ReceiveTLVNeighbourRequest
      <4>. QED
        BY <4>1 DEF Transmit, SendNeighbour, AuthDatagram
    <3>3. CASE ReceiveTLVNeighbour(m)
      <4>1. net' \subseteq net \cup {SendNetworkHash(n, m.addr, table[n])}
        BY <3>3 DEF ReceiveTLVNeighbour, Transmit
      <4>. QED
        BY <1>2, <4>1, SendAuth
    <3>4. CASE ReceiveTLVNetworkHash(m)
      <4>1. net' \subseteq net \cup {SendPlain(n, m.src, "NetworkStateRequest")}
        BY <3>4 DEF ReceiveTLVNetworkHash, Transmit
      <4>. QED
        BY <4>1 DEF SendPlain, AuthDatagram
    <3>5. CASE ReceiveTLVNetworkStateRequest(m)
      <4>1. net' \subseteq net \cup
              {SendData(n, m.src, "NodeHash", i, table[n][i]) :
                 i \in Known(table[n])}
        BY <3>5 DEF ReceiveTLVNetworkStateRequest, Transmit
      <4>2. \A i \in Known(table[n]) : i \in Node /\ table[n][i] # None
        BY <1>1 DEF Known, TypeOK, DataTable
      <4>3. \A i \in Known(table[n]) :
              AuthDatagram(SendData(n, m.src, "NodeHash", i, table[n][i]), published)
        BY <1>2, <4>2, SendAuth
      <4>. QED
        BY <4>1, <4>3
    <3>6. CASE ReceiveTLVNodeHash(m)
      <4>1. m.id \in Node
        BY <1>1, <3>6, DatagramFields DEF ReceiveTLVNodeHash, Receive
      <4>2. \A x \in net' :
              \/ x \in net
              \/ /\ table[n][m.id] # None
                 /\ x = SendData(n, m.src, "NodeState", m.id, table[n][m.id])
              \/ x = SendNodeStateRequest(n, m.src, m.id)
        BY <3>6 DEF ReceiveTLVNodeHash, Transmit, Newer
      <4>3. table[n][m.id] # None =>
              AuthDatagram(SendData(n, m.src, "NodeState", m.id, table[n][m.id]),
                           published)
        BY <1>2, <4>1, SendAuth
      <4>4. AuthDatagram(SendNodeStateRequest(n, m.src, m.id), published)
        BY DEF SendNodeStateRequest, AuthDatagram
      <4>. QED
        BY <4>2, <4>3, <4>4
    <3>7. CASE ReceiveTLVNodeStateRequest(m)
      <4>1. net' \subseteq net \cup
              {SendData(n, m.src, "NodeState", i, table[n][i]) :
                 i \in {m.id} \cap Known(table[n])}
        BY <3>7 DEF ReceiveTLVNodeStateRequest, Transmit
      <4>2. \A i \in Known(table[n]) : i \in Node /\ table[n][i] # None
        BY <1>1 DEF Known, TypeOK, DataTable
      <4>3. \A i \in Known(table[n]) :
              AuthDatagram(SendData(n, m.src, "NodeState", i, table[n][i]), published)
        BY <1>2, <4>2, SendAuth
      <4>. QED
        BY <4>1, <4>3
    <3>. QED
      BY <1>4, <3>1, <3>2, <3>3, <3>4, <3>5, <3>6, <3>7 DEF Handle
  <2>. QED
    BY <2>1, <2>2, AuthStep
<1>. QED
  BY <1>3, <1>4

\* Nobody holds, or is sent, a record that its owner never published.
THEOREM AuthenticHolds == Spec => []Authentic
<1>1. Init => Authentic
  BY DEF Init, Authentic
<1>2. TypeOK /\ Authentic /\ [Next]_vars => Authentic'
  <2>. SUFFICES ASSUME TypeOK, Authentic, [Next]_vars PROVE Authentic'
    OBVIOUS
  <2>1. ASSUME NEW n \in Node, Every20Seconds(n) PROVE Authentic'
    BY <2>1, Every20SecondsAuthentic
  <2>2. ASSUME NEW m \in net, Handle(m) PROVE Authentic'
    BY <2>2, HandleAuthentic
  <2>3. ASSUME NEW n \in Active, NEW c \in Text \cup {Empty}, ChangeMessage(n, c)
        PROVE  Authentic'
    <3>1. n \in Node /\ Publish(n) /\ net' = net
      BY <2>3, ActiveAssumption DEF ChangeMessage
    <3>2. \A o \in Node, i \in Node :
            o # n \/ i # n => table'[o][i] = table[o][i]
      BY <2>3, <3>1, ChangeMessageFacts
    <3>3. AuthTable(table'[n], published')
      BY <3>1, <3>2, PublishFacts, AuthenticParts DEF AuthTable
    <3>4. \A o \in Node : table'[o] = table[o] \/ AuthTable(table'[o], published')
      BY <2>3, <3>3 DEF ChangeMessage, TypeOK
    <3>. QED
      BY <3>1, <3>4, PublishFacts, AuthStep
  <2>4. ASSUME NEW n \in Active, Restart(n) PROVE Authentic'
    <3>1. n \in Node /\ Publish(n) /\ net' = net
      BY <2>4, ActiveAssumption DEF Restart
    <3>2. /\ \A i \in Node : i # n => table'[n][i] = None
          /\ \A o \in Node : o # n => table'[o] = table[o]
      BY <2>4, <3>1, RestartFacts
    <3>3. AuthTable(table'[n], published')
      BY <3>1, <3>2, PublishFacts DEF AuthTable
    <3>. QED
      BY <3>1, <3>2, <3>3, PublishFacts, AuthStep
  <2>5. CASE UNCHANGED vars
    BY <2>5 DEF vars, Authentic
  <2>. QED
    BY <2>1, <2>2, <2>3, <2>4, <2>5 DEF Next
<1>. QED
  BY <1>1, <1>2, TypeCorrect, PTL DEF Spec

-----------------------------------------------------------------------------
(* The order of seqnos.  While InOrder(i), the seqnos of i run from        *)
(* StartSeqno onwards without a gap, one for each record i published, and  *)
(* stay within half a turn: so their circular order is that of their ages. *)

\* How many seqnos the program has gone through before seqno s.
Age(s) == (s - StartSeqno) % (2 * HALF)

\* What i published is one record for each age, up to that of its own.
Series(i) ==
  /\ IsFiniteSet(published[i])
  /\ table[i][i] \in published[i]
  /\ InOrder(i) =>
       /\ Age(table[i][i].seqno) + 1 = Cardinality(published[i])
       /\ \A d \in published[i] : Age(d.seqno) <= Age(table[i][i].seqno)
       /\ \A d \in published[i], e \in published[i] :
            d.seqno = e.seqno => d = e

LEMMA AgeType ==
  ASSUME NEW s \in Seqno
  PROVE  /\ Age(s) = IF StartSeqno <= s THEN s - StartSeqno
                                         ELSE s - StartSeqno + 2 * HALF
         /\ Age(s) \in Nat
         /\ Age(StartSeqno) = 0
BY Forwards, StartSeqnoAssumption, HALFAssumption DEF Age

\* The next seqno is one older, up to a full turn.
LEMMA AgeSucc ==
  ASSUME NEW s \in Seqno, Age(s) < HALF
  PROVE  Age(Succ(s)) = Age(s) + 1
<1>1. Succ(s) \in Seqno /\ StartSeqno \in Seqno
  BY SuccType, StartSeqnoAssumption
<1>2. Age(s) = IF StartSeqno <= s THEN s - StartSeqno
                                  ELSE s - StartSeqno + 2 * HALF
  BY AgeType
<1>3. Age(Succ(s)) = IF StartSeqno <= Succ(s)
                       THEN Succ(s) - StartSeqno
                       ELSE Succ(s) - StartSeqno + 2 * HALF
  BY <1>1, AgeType
<1>. QED
  BY <1>1, <1>2, <1>3, SuccWraps, HALFAssumption

\* Within half a turn, seqnos are compared as their ages are.
LEMMA AgeOrder ==
  ASSUME NEW s \in Seqno, NEW t \in Seqno, Age(s) < HALF, Age(t) < HALF
  PROVE  /\ Preceq(s, t) <=> Age(s) <= Age(t)
         /\ s = t <=> Age(s) = Age(t)
<1>1. /\ Age(s) = IF StartSeqno <= s THEN s - StartSeqno
                                     ELSE s - StartSeqno + 2 * HALF
      /\ Age(t) = IF StartSeqno <= t THEN t - StartSeqno
                                     ELSE t - StartSeqno + 2 * HALF
  BY AgeType
<1>2. Preceq(s, t) <=> (IF s <= t THEN t - s ELSE t - s + 2 * HALF) < HALF
  BY Forwards DEF Preceq
<1>. QED
  BY <1>1, <1>2, StartSeqnoAssumption, HALFAssumption

\* What Series says of the ages of a node's records.
LEMMA SeriesAges ==
  ASSUME TypeOK, NEW i \in Node, Series(i), InOrder(i)
  PROVE  /\ Age(table[i][i].seqno) < HALF
         /\ \A d \in published[i] :
              /\ d.seqno \in Seqno
              /\ Age(d.seqno) <= Age(table[i][i].seqno)
              /\ Age(d.seqno) < HALF
<1>1. \A d \in published[i] : d.seqno \in Seqno
  BY DataFields DEF TypeOK
<1>2. Age(table[i][i].seqno) \in Nat
  BY <1>1, AgeType DEF Series
<1>3. Age(table[i][i].seqno) < HALF
  BY <1>2, HALFAssumption DEF Series, InOrder
<1>4. \A d \in published[i] : Age(d.seqno) \in Nat
  BY <1>1, AgeType
<1>. QED
  BY <1>1, <1>2, <1>3, <1>4, HALFAssumption DEF Series

\* Outbidding data of our own moves our seqno by one at most.
LEMMA BumpNext ==
  ASSUME TypeOK, NEW i \in Node, Series(i), InOrder(i), NEW d \in published[i]
  PROVE  \/ Bump(table[i], i, d)[i] = table[i][i]
         \/ Bump(table[i], i, d)[i].seqno = Succ(table[i][i].seqno)
<1>1. table[i] \in DataTable /\ table[i][i] \in Data
  BY KnownData DEF TypeOK
<1>2. table[i][i].seqno \in Seqno /\ d.seqno \in Seqno
  BY <1>1, SeriesAges, DataFields
<1>3. CASE Preceq(table[i][i].seqno, d.seqno)
  <2>1. Age(table[i][i].seqno) <= Age(d.seqno)
    BY <1>2, <1>3, SeriesAges, AgeOrder
  <2>2. Age(table[i][i].seqno) = Age(d.seqno)
    BY <1>2, <2>1, SeriesAges, AgeType
  <2>3. table[i][i].seqno = d.seqno
    BY <1>2, <2>2, SeriesAges, AgeOrder
  <2>. QED
    BY <1>1, <1>3, <2>3 DEF Bump, DataTable, Data
<1>4. CASE ~ Preceq(table[i][i].seqno, d.seqno)
  BY <1>4 DEF Bump
<1>. QED
  BY <1>3, <1>4

\* What one step does to the record n holds of i, and to what n published:
\* our own record moves to the next seqno, another's is replaced by one of
\* its owner's that is newer.
Moves(n, i) ==
  \/ table'[n][i] = table[n][i]
  \/ n = i /\ (InOrder(i) => table'[n][i].seqno = Succ(table[n][i].seqno))
  \/ /\ n # i
     /\ table'[n][i] \in published[i]
     /\ table[n][i] = None \/ ~ Preceq(table'[n][i].seqno, table[n][i].seqno)

\* Publishing a text that is not ours yet takes the next seqno.
LEMMA UpdateMyDataMoves ==
  ASSUME NEW tab \in DataTable, NEW me \in Node, tab[me] # None, NEW c
  PROVE  \/ UpdateMyData(tab, me, c)[me] = tab[me]
         \/ UpdateMyData(tab, me, c)[me].seqno = Succ(tab[me].seqno)
BY DEF UpdateMyData, DataTable

LEMMA Every20SecondsMoves ==
  ASSUME TypeOK, NEW n \in Node, Every20Seconds(n), NEW o \in Node, NEW i \in Node
  PROVE  Moves(o, i)
<1>1. table' = [table EXCEPT ![n] = DefaultValue(n)]
  BY DEF Every20Seconds
<1>2. CASE o = n /\ i = n
  <2>1. table[n] \in DataTable /\ table[n][n] # None
    BY DEF TypeOK
  <2>2. \/ DefaultValue(n)[n] = table[n][n]
        \/ DefaultValue(n)[n].seqno = Succ(table[n][n].seqno)
    BY <2>1, UpdateMyDataMoves DEF DefaultValue
  <2>. QED
    BY <1>1, <1>2, <2>2 DEF Moves, TypeOK
<1>3. CASE o # n \/ i # n
  BY <1>1, <1>3, DefaultValueFacts DEF Moves, TypeOK
<1>. QED
  BY <1>2, <1>3

LEMMA ChangeMessageMoves ==
  ASSUME TypeOK, NEW n \in Node, NEW c \in Text \cup {Empty},
         ChangeMessage(n, c), NEW o \in Node, NEW i \in Node
  PROVE  Moves(o, i)
<1>1. CASE o = n /\ i = n
  <2>1. table[n] \in DataTable /\ table[n][n] # None
    BY DEF TypeOK
  <2>2. \/ table'[n] = table[n]
        \/ table'[n] = UpdateMyData(table[n], n, c)
    BY DEF ChangeMessage, TypeOK
  <2>. QED
    BY <1>1, <2>1, <2>2, UpdateMyDataMoves DEF Moves
<1>2. CASE o # n \/ i # n
  BY <1>2, ChangeMessageFacts DEF Moves
<1>. QED
  BY <1>1, <1>2

LEMMA HandleMoves ==
  ASSUME TypeOK, Authentic, \A x \in Node : Series(x),
         NEW m \in net, Handle(m), NEW o \in Node, NEW i \in Node
  PROVE  Moves(o, i)
<1>. DEFINE n == m.dst
<1>1. m \in Datagram /\ n \in Node
  BY DatagramFields DEF TypeOK
<1>2. CASE UNCHANGED table
  BY <1>2 DEF Moves
<1>3. CASE /\ ReceiveTLVNodeState(m)
           /\ table' = [table EXCEPT ![n] =
                UpdateDataBase(table[n], n, m.id, m.data)]
  <2>1. m.id \in Node /\ m.data \in Data /\ m.data \in published[m.id]
    BY <1>1, <1>3, AuthenticParts, DatagramFields
    DEF ReceiveTLVNodeState, Receive, AuthDatagram
  <2>2. /\ table[n] \in DataTable
        /\ table[n][n] # None
        /\ table'[n] = UpdateDataBase(table[n], n, m.id, m.data)
    BY <1>1, <1>3 DEF TypeOK
  <2>3. CASE o # n \/ i # m.id
    BY <1>1, <1>3, <2>1, <2>2, <2>3, UpdateDataBaseFacts DEF Moves, TypeOK
  <2>4. CASE o = n /\ i = m.id /\ m.id = n
    <3>1. table'[n] = Bump(table[n], n, m.data)
      BY <2>2, <2>4 DEF UpdateDataBase
    <3>. QED
      BY <1>1, <2>1, <2>4, <3>1, BumpNext DEF Moves
  <2>5. CASE o = n /\ i = m.id /\ m.id # n
    <3>1. \/ table'[n][i] = table[n][i]
          \/ /\ table'[n][i] = m.data
             /\ \/ table[n][i] = None
                \/ ~ Preceq(m.data.seqno, table[n][i].seqno)
      BY <2>2, <2>5 DEF UpdateDataBase, Replace, DataTable
    <3>. QED
      BY <2>1, <2>5, <3>1 DEF Moves
  <2>. QED
    BY <2>3, <2>4, <2>5
<1>. QED
  BY <1>2, <1>3
  DEF Handle, Ignore, ReceiveTLVWarning, ReceiveTLVNeighbourRequest,
      ReceiveTLVNeighbour, ReceiveTLVNetworkHash,
      ReceiveTLVNetworkStateRequest, ReceiveTLVNodeHash,
      ReceiveTLVNodeStateRequest, ReceiveTLVNodeState, KeepTable

\* What a step publishes is what the nodes say of themselves after it.
LEMMA StepPublishes ==
  ASSUME TypeOK, \A x \in Node : Series(x), [Next]_vars, NEW i \in Node
  PROVE  published'[i] = published[i] \cup {table'[i][i]}
<1>1. table[i][i] \in published[i]
  BY DEF Series
<1>2. ASSUME NEW n \in Node, Publish(n),
             \A o \in Node : o # n => table'[o] = table[o]
      PROVE  published'[i] = published[i] \cup {table'[i][i]}
  BY <1>1, <1>2 DEF Publish, TypeOK
<1>3. ASSUME NEW n \in Node, Every20Seconds(n)
      PROVE  published'[i] = published[i] \cup {table'[i][i]}
  BY <1>2, <1>3 DEF Every20Seconds, TypeOK
<1>4. ASSUME NEW m \in net, Handle(m)
      PROVE  published'[i] = published[i] \cup {table'[i][i]}
  <2>1. m.dst \in Node
    BY DatagramFields DEF TypeOK
  <2>2. CASE ReceiveTLVNodeState(m)
    BY <1>1, <1>2, <2>1, <2>2 DEF ReceiveTLVNodeState, KeepTable, TypeOK
  <2>3. CASE ~ ReceiveTLVNodeState(m)
    BY <1>1, <1>4, <2>3
    DEF Handle, Ignore, ReceiveTLVWarning, ReceiveTLVNeighbourRequest,
        ReceiveTLVNeighbour, ReceiveTLVNetworkHash,
        ReceiveTLVNetworkStateRequest, ReceiveTLVNodeHash,
        ReceiveTLVNodeStateRequest, KeepTable
  <2>. QED
    BY <2>2, <2>3
<1>5. ASSUME NEW n \in Active, NEW c \in Text \cup {Empty}, ChangeMessage(n, c)
      PROVE  published'[i] = published[i] \cup {table'[i][i]}
  BY <1>2, <1>5, ActiveAssumption DEF ChangeMessage, TypeOK
<1>6. ASSUME NEW n \in Active, Restart(n)
      PROVE  published'[i] = published[i] \cup {table'[i][i]}
  BY <1>2, <1>6, ActiveAssumption DEF Restart, TypeOK
<1>7. CASE UNCHANGED vars
  BY <1>1, <1>7 DEF vars
<1>. QED
  BY <1>3, <1>4, <1>5, <1>6, <1>7 DEF Next

\* A step is a restart, or moves records as Moves says.
LEMMA StepMoves ==
  ASSUME TypeOK, Authentic, \A x \in Node : Series(x), [Next]_vars,
         restarts' = 0
  PROVE  restarts = 0 /\ \A n \in Node, i \in Node : Moves(n, i)
<1>1. ASSUME NEW n \in Node, Every20Seconds(n)
      PROVE  restarts = 0 /\ \A o \in Node, i \in Node : Moves(o, i)
  BY <1>1, Every20SecondsMoves DEF Every20Seconds
<1>2. ASSUME NEW m \in net, Handle(m)
      PROVE  restarts = 0 /\ \A o \in Node, i \in Node : Moves(o, i)
  <2>1. UNCHANGED restarts
    BY <1>2
    DEF Handle, Ignore, ReceiveTLVWarning, ReceiveTLVNeighbourRequest,
        ReceiveTLVNeighbour, ReceiveTLVNetworkHash,
        ReceiveTLVNetworkStateRequest, ReceiveTLVNodeHash,
        ReceiveTLVNodeStateRequest, ReceiveTLVNodeState, Receive
  <2>. QED
    BY <1>2, <2>1, HandleMoves
<1>3. ASSUME NEW n \in Active, NEW c \in Text \cup {Empty}, ChangeMessage(n, c)
      PROVE  restarts = 0 /\ \A o \in Node, i \in Node : Moves(o, i)
  <2>1. UNCHANGED restarts
    BY <1>3 DEF ChangeMessage
  <2>. QED
    BY <1>3, <2>1, ActiveAssumption, ChangeMessageMoves
<1>4. ~ \E n \in Active : Restart(n)
  BY DEF Restart, TypeOK
<1>5. CASE UNCHANGED vars
  BY <1>5 DEF vars, Moves
<1>. QED
  BY <1>1, <1>2, <1>3, <1>4, <1>5 DEF Next

LEMMA InitSeries == Init => \A i \in Node : Series(i)
<1>. SUFFICES ASSUME Init, NEW i \in Node PROVE Series(i)
  OBVIOUS
<1>. DEFINE first == [seqno |-> StartSeqno, text |-> Empty]
<1>1. table[i][i] = first /\ published[i] = {first}
  BY DEF Init
<1>2. IsFiniteSet(published[i]) /\ Cardinality(published[i]) = 1
  <2>. HIDE DEF first
  <2>. QED
    BY <1>1, FS_Singleton
<1>3. Age(StartSeqno) = 0
  BY AgeType, StartSeqnoAssumption
<1>4. Age(first.seqno) = 0
  BY <1>3
<1>. QED
  BY <1>1, <1>2, <1>4 DEF Series

\* What i has published only grows, so what holds InOrder after a step was
\* so before it.
LEMMA InOrderBefore ==
  ASSUME TypeOK, Authentic, \A x \in Node : Series(x), [Next]_vars,
         NEW i \in Node, InOrder(i)'
  PROVE  InOrder(i) /\ \A n \in Node : Moves(n, i)
<1>1. restarts' = 0
  BY DEF InOrder
<1>2. restarts = 0 /\ \A n \in Node : Moves(n, i)
  BY <1>1, StepMoves
<1>3. published'[i] = published[i] \cup {table'[i][i]}
  BY StepPublishes
<1>4. IsFiniteSet(published[i])
  BY DEF Series
<1>5. IsFiniteSet(published'[i])
  BY <1>3, <1>4, FS_AddElement
<1>6. /\ Cardinality(published[i]) <= Cardinality(published'[i])
      /\ Cardinality(published[i]) \in Nat
      /\ Cardinality(published'[i]) \in Nat
  BY <1>3, <1>4, <1>5, FS_Subset, FS_CardinalityType
<1>7. Cardinality(published'[i]) <= HALF
  BY DEF InOrder
<1>. QED
  BY <1>2, <1>6, <1>7, HALFAssumption DEF InOrder

LEMMA NextSeries ==
  ASSUME TypeOK, TypeOK', Authentic, \A x \in Node : Series(x), [Next]_vars,
         NEW i \in Node
  PROVE  Series(i)'
<1>. DEFINE mine == table[i][i]
            next == table'[i][i]
<1>1. published'[i] = published[i] \cup {next}
  BY StepPublishes
<1>2. IsFiniteSet(published[i]) /\ mine \in published[i]
  BY DEF Series
<1>3. IsFiniteSet(published'[i]) /\ next \in published'[i]
  BY <1>1, <1>2, FS_AddElement
<1>4. ASSUME InOrder(i)'
      PROVE  /\ Age(next.seqno) + 1 = Cardinality(published'[i])
             /\ \A d \in published'[i] : Age(d.seqno) <= Age(next.seqno)
             /\ \A d \in published'[i], e \in published'[i] :
                  d.seqno = e.seqno => d = e
  <2>1. InOrder(i) /\ Moves(i, i)
    BY <1>4, InOrderBefore
  <2>2. /\ Age(mine.seqno) + 1 = Cardinality(published[i])
        /\ \A d \in published[i], e \in published[i] : d.seqno = e.seqno => d = e
    BY <2>1 DEF Series
  <2>3. /\ Age(mine.seqno) < HALF
        /\ mine.seqno \in Seqno
        /\ \A d \in published[i] :
             Age(d.seqno) <= Age(mine.seqno) /\ d.seqno \in Seqno
    BY <1>2, <2>1, SeriesAges
  <2>4. CASE next = mine
    <3>1. published'[i] = published[i]
      BY <1>1, <1>2, <2>4
    <3>. QED
      BY <2>2, <2>3, <2>4, <3>1
  <2>5. CASE next.seqno = Succ(mine.seqno)
    <3>1. Age(next.seqno) = Age(mine.seqno) + 1
      BY <2>3, <2>5, AgeSucc
    <3>2. \A d \in published[i] : Age(d.seqno) \in Nat
      BY <2>3, AgeType
    <3>3. Age(mine.seqno) \in Nat
      BY <1>2, <3>2
    <3>4. \A d \in published[i] : Age(d.seqno) < Age(next.seqno)
      BY <2>3, <3>1, <3>2, <3>3
    <3>5. \A d \in published[i] : d # next /\ d.seqno # next.seqno
      BY <3>1, <3>2, <3>3, <3>4
    <3>6. Cardinality(published'[i]) = Cardinality(published[i]) + 1
      <4>1. next \notin published[i]
        BY <3>5
      <4>2. Cardinality(published[i] \cup {next})
              = IF next \in published[i] THEN Cardinality(published[i])
                                         ELSE Cardinality(published[i]) + 1
        BY <1>2, FS_AddElement
      <4>. QED
        BY <1>1, <4>1, <4>2
    <3>7. Age(next.seqno) + 1 = Cardinality(published'[i])
      BY <2>2, <3>1, <3>3, <3>6
    <3>8. \A d \in published'[i] : Age(d.seqno) <= Age(next.seqno)
      BY <1>1, <3>1, <3>2, <3>3, <3>4
    <3>9. \A d \in published'[i], e \in published'[i] :
            d.seqno = e.seqno => d = e
      BY <1>1, <2>2, <3>5
    <3>. QED
      BY <3>7, <3>8, <3>9
  <2>. QED
    BY <2>1, <2>4, <2>5 DEF Moves
<1>. QED
  BY <1>3, <1>4 DEF Series, Age

\* Every node's records run through its seqnos in order, one for each.
THEOREM SeriesHolds == Spec => [](\A i \in Node : Series(i))
<1>1. /\ TypeOK /\ TypeOK' /\ Authentic /\ [Next]_vars
      /\ \A i \in Node : Series(i)
      => (\A i \in Node : Series(i))'
  BY NextSeries
<1>. QED
  BY <1>1, InitSeries, TypeCorrect, AuthenticHolds, PTL DEF Spec

\* Nodes that hold the same seqno for an Id hold the same text, and none is
\* ahead of the owner of the Id: so comparing seqnos finds the newer data.
THEOREM OwnerAheadHolds == Spec => []OwnerAhead
<1>1. TypeOK /\ Authentic /\ (\A i \in Node : Series(i)) => OwnerAhead
  <2>. SUFFICES ASSUME TypeOK, Authentic, \A i \in Node : Series(i),
                       NEW n \in Node, NEW i \in Node, InOrder(i),
                       table[n][i] # None
                PROVE  /\ Preceq(table[n][i].seqno, table[i][i].seqno)
                       /\ \A o \in Node :
                            table[o][i] # None
                              /\ table[o][i].seqno = table[n][i].seqno
                              => table[o][i] = table[n][i]
    BY DEF OwnerAhead
  <2>1. \A o \in Node : table[o][i] # None => table[o][i] \in published[i]
    BY DEF Authentic
  <2>2. table[i][i] \in published[i]
    BY DEF Series
  <2>3. Preceq(table[n][i].seqno, table[i][i].seqno)
    BY <2>1, <2>2, SeriesAges, AgeOrder
  <2>. QED
    BY <2>1, <2>3 DEF Series
<1>. QED
  BY <1>1, SeriesHolds, TypeCorrect, AuthenticHolds, PTL

\* Late, duplicated or reordered TLVs never bring back older data.
THEOREM NeverOlderHolds == Spec => NeverOlder
<1>1. /\ TypeOK /\ TypeOK' /\ Authentic /\ (\A i \in Node : Series(i))
      /\ [Next]_vars
      => \A n \in Node, i \in Node :
           InOrder(i)' /\ table[n][i] # None =>
             /\ table'[n][i] # None
             /\ Preceq(table[n][i].seqno, table'[n][i].seqno)
  <2>. SUFFICES ASSUME TypeOK, TypeOK', Authentic, \A i \in Node : Series(i),
                       [Next]_vars, NEW n \in Node, NEW i \in Node,
                       InOrder(i)', table[n][i] # None
                PROVE  /\ table'[n][i] # None
                       /\ Preceq(table[n][i].seqno, table'[n][i].seqno)
    OBVIOUS
  <2>1. InOrder(i) /\ Moves(n, i)
    BY InOrderBefore
  <2>2. /\ table[n][i] \in published[i]
        /\ table[n][i].seqno \in Seqno
        /\ Age(table[n][i].seqno) < HALF
    BY <2>1, SeriesAges DEF Authentic
  <2>3. CASE table'[n][i] = table[n][i]
    BY <2>2, <2>3, AgeOrder, AgeType
  <2>4. CASE n = i /\ table'[n][i].seqno = Succ(table[n][i].seqno)
    <3>1. table'[n][i] # None
      BY <2>4 DEF TypeOK
    <3>2. Succ(table[n][i].seqno) \in Seqno
      BY <2>2, SuccType
    <3>3. Preceq(table[n][i].seqno, Succ(table[n][i].seqno))
      BY <2>2, <3>2, SuccWraps, Forwards, HALFAssumption DEF Preceq
    <3>. QED
      BY <2>4, <3>1, <3>3
  <2>5. CASE /\ table'[n][i] \in published[i]
             /\ ~ Preceq(table'[n][i].seqno, table[n][i].seqno)
    <3>1. /\ table'[n][i] \in Data
          /\ table'[n][i].seqno \in Seqno
          /\ Age(table'[n][i].seqno) < HALF
      BY <2>1, <2>5, SeriesAges DEF TypeOK
    <3>2. Age(table[n][i].seqno) <= Age(table'[n][i].seqno)
      BY <2>2, <2>5, <3>1, AgeOrder, AgeType
    <3>. QED
      BY <2>2, <3>1, <3>2, AgeOrder, DataFields
  <2>. QED
    BY <2>1, <2>3, <2>4, <2>5 DEF Moves
<1>2. /\ TypeOK /\ TypeOK' /\ Authentic /\ (\A i \in Node : Series(i))
      /\ [Next]_vars
      => [\A n \in Node, i \in Node :
            InOrder(i)' /\ table[n][i] # None =>
              /\ table'[n][i] # None
              /\ Preceq(table[n][i].seqno, table'[n][i].seqno)]_vars
  BY <1>1
<1>. QED
  BY <1>2, SeriesHolds, TypeCorrect, AuthenticHolds, PTL DEF Spec, NeverOlder

\* A node that has not restarted asks nobody for its own data: what comes back
\* under its Id is what it has, or older, which it answers with what it has.
NotAsking(n) == InOrder(n) => \A p \in Node : AskedState(p, n) \notin history[n]

LEMMA NodeHashOfOwn ==
  ASSUME TypeOK, Authentic, NEW n \in Node, Series(n), InOrder(n),
         NEW m \in net, m.type = "NodeHash", m.id = n
  PROVE  table[n][n] = m.data \/ Newer(table[n][n], m.data)
<1>. DEFINE mine == table[n][n]
            d    == m.data
<1>1. d \in published[n] /\ mine \in published[n] /\ mine # None
  BY DEF Authentic, Series, TypeOK
<1>2. /\ mine.seqno \in Seqno /\ Age(mine.seqno) < HALF
      /\ d.seqno \in Seqno /\ Age(d.seqno) < HALF
      /\ Age(d.seqno) <= Age(mine.seqno)
  BY <1>1, SeriesAges
<1>3. Preceq(d.seqno, mine.seqno)
  BY <1>2, AgeOrder
<1>4. mine.seqno = d.seqno => mine = d
  BY <1>1 DEF Series
<1>. QED
  BY <1>1, <1>3, <1>4 DEF Newer

\* Only a Node Hash makes a node remember that it asked for a record.
LEMMA HandleAsks ==
  ASSUME TypeOK, NEW m \in net, Handle(m), NEW n \in Node, NEW p \in Node, NEW i,
         AskedState(p, i) \in history'[n], AskedState(p, i) \notin history[n]
  PROVE  /\ ReceiveTLVNodeHash(m)
         /\ m.dst = n /\ m.id = i
         /\ table[n][i] # m.data /\ ~ Newer(table[n][i], m.data)
<1>1. m.dst \in Node
  BY DatagramFields DEF TypeOK
<1>2. history \in [Node -> SUBSET Request]
  BY DEF TypeOK
<1>3. \A t \in Plain, q \in Node : AskedState(p, i) # Asked(t, q)
  BY DEF AskedState, Asked, Plain
<1>4. CASE ReceiveTLVNodeHash(m)
  <2>1. /\ history' = [history EXCEPT ![m.dst] =
               @ \cup {AskedState(m.src, m.id)}]
        /\ table[m.dst][m.id] # m.data
        /\ ~ Newer(table[m.dst][m.id], m.data)
    BY <1>4 DEF ReceiveTLVNodeHash
  <2>2. m.dst = n
    BY <1>2, <2>1
  <2>3. AskedState(p, i) = AskedState(m.src, m.id)
    BY <1>2, <2>1, <2>2
  <2>4. m.id = i
    BY <2>3 DEF AskedState
  <2>. QED
    BY <1>4, <2>1, <2>2, <2>4
<1>5. CASE ~ ReceiveTLVNodeHash(m)
  <2>1. CASE ReceiveTLVNetworkHash(m)
    <3>1. \/ history' = history
          \/ history' = [history EXCEPT ![m.dst] =
               @ \cup {Asked("NetworkStateRequest", m.src)}]
      BY <2>1 DEF ReceiveTLVNetworkHash
    <3>2. AskedState(p, i) # Asked("NetworkStateRequest", m.src)
      BY DEF AskedState, Asked
    <3>. QED
      BY <1>1, <1>2, <3>1, <3>2
  <2>2. CASE ~ ReceiveTLVNetworkHash(m)
    <3>1. \A o \in Node : history'[o] \subseteq history[o]
      BY <1>1, <1>2, <1>5, <2>2
      DEF Handle, Ignore, ReceiveTLVWarning, ReceiveTLVNeighbourRequest,
          ReceiveTLVNeighbour, ReceiveTLVNetworkStateRequest,
          ReceiveTLVNodeStateRequest, ReceiveTLVNodeState, RemoveInHistory
    <3>. QED
      BY <3>1
  <2>. QED
    BY <2>1, <2>2
<1>. QED
  BY <1>4, <1>5

LEMMA NextNotAsking ==
  ASSUME TypeOK, Authentic, \A i \in Node : Series(i), [Next]_vars,
         NEW n \in Node, NotAsking(n)
  PROVE  NotAsking(n)'
<1>. SUFFICES ASSUME InOrder(n)', NEW p \in Node,
                     AskedState(p, n) \in history'[n]
              PROVE  FALSE
  BY DEF NotAsking, AskedState
<1>1. InOrder(n) /\ AskedState(p, n) \notin history[n]
  BY InOrderBefore DEF NotAsking
<1>2. ASSUME NEW o \in Node, Every20Seconds(o) PROVE FALSE
  <2>1. PICK gone, asked :
          history' = [history EXCEPT ![o] = ForgetPair(@, gone)
            \cup {Asked("NeighbourRequest", x) : x \in asked}]
    BY <1>2 DEF Every20Seconds
  <2>2. \A x : AskedState(p, n) # Asked("NeighbourRequest", x)
    BY DEF AskedState, Asked
  <2>. QED
    BY <1>1, <2>1, <2>2 DEF ForgetPair, TypeOK
<1>3. ASSUME NEW m \in net, Handle(m) PROVE FALSE
  <2>1. /\ ReceiveTLVNodeHash(m)
        /\ m.id = n
        /\ table[n][n] # m.data /\ ~ Newer(table[n][n], m.data)
    BY <1>1, <1>3, HandleAsks
  <2>2. m.type = "NodeHash"
    BY <2>1 DEF ReceiveTLVNodeHash, Receive
  <2>. QED
    BY <1>1, <2>1, <2>2, NodeHashOfOwn
<1>4. ASSUME NEW o \in Active, NEW c \in Text \cup {Empty}, ChangeMessage(o, c)
      PROVE  FALSE
  BY <1>1, <1>4 DEF ChangeMessage
<1>5. ASSUME NEW o \in Active, Restart(o) PROVE FALSE
  BY <1>5 DEF Restart, InOrder, TypeOK
<1>6. CASE UNCHANGED vars
  BY <1>1, <1>6 DEF vars
<1>. QED
  BY <1>2, <1>3, <1>4, <1>5, <1>6 DEF Next

\* The seqno of a node that has not restarted changes with its text.
SeqnoFollowsText(n) ==
  InOrder(n)' /\ table'[n][n].seqno # table[n][n].seqno =>
    table'[n][n].text # table[n][n].text

LEMMA UpdateMyDataSeqno ==
  ASSUME NEW tab \in DataTable, NEW me \in Node, NEW c,
         UpdateMyData(tab, me, c)[me].seqno # tab[me].seqno
  PROVE  UpdateMyData(tab, me, c)[me].text # tab[me].text
BY DEF UpdateMyData, DataTable

LEMMA StepSeqnoFollowsText ==
  ASSUME TypeOK, Authentic, \A i \in Node : Series(i), [Next]_vars,
         NEW n \in Node, NotAsking(n)
  PROVE  SeqnoFollowsText(n)
<1>. SUFFICES ASSUME InOrder(n)', table'[n][n].seqno # table[n][n].seqno
              PROVE  table'[n][n].text # table[n][n].text
  BY DEF SeqnoFollowsText
<1>1. InOrder(n) /\ \A p \in Node : AskedState(p, n) \notin history[n]
  BY InOrderBefore DEF NotAsking
<1>2. table \in [Node -> DataTable] /\ table[n][n] # None
  BY DEF TypeOK
<1>3. ASSUME NEW o \in Node, Every20Seconds(o)
      PROVE  table'[n][n].text # table[n][n].text
  <2>1. table' = [table EXCEPT ![o] = DefaultValue(o)]
    BY <1>3 DEF Every20Seconds
  <2>2. o = n /\ n \in OptD
    BY <1>2, <2>1 DEF DefaultValue
  <2>3. table'[n] = UpdateMyData(table[n], n, ISee(Cardinality(Known(table[n]))))
    BY <1>2, <2>1, <2>2 DEF DefaultValue
  <2>. QED
    BY <1>2, <2>3, UpdateMyDataSeqno
<1>4. ASSUME NEW m \in net, Handle(m)
      PROVE  table'[n][n].text # table[n][n].text
  <2>1. m \in Datagram /\ m.src \in Node /\ m.dst \in Node
    BY DatagramFields DEF TypeOK
  <2>2. /\ ReceiveTLVNodeState(m)
        /\ AskedState(m.src, m.id) \in history[m.dst]
        /\ table' = [table EXCEPT ![m.dst] =
             UpdateDataBase(table[m.dst], m.dst, m.id, m.data)]
    BY <1>4
    DEF Handle, Ignore, ReceiveTLVWarning, ReceiveTLVNeighbourRequest,
        ReceiveTLVNeighbour, ReceiveTLVNetworkHash,
        ReceiveTLVNetworkStateRequest, ReceiveTLVNodeHash,
        ReceiveTLVNodeStateRequest, ReceiveTLVNodeState, KeepTable, Solicited
  <2>3. m.dst = n
    BY <1>2, <2>2
  <2>4. m.id # n
    BY <1>1, <2>1, <2>2, <2>3
  <2>5. m.id \in Node /\ m.data \in Data
    BY <2>1, <2>2, DatagramFields DEF ReceiveTLVNodeState, Receive
  <2>6. UpdateDataBase(table[n], n, m.id, m.data)[n] = table[n][n]
    BY <1>2, <2>4, <2>5, UpdateDataBaseFacts
  <2>7. table'[n] = UpdateDataBase(table[n], n, m.id, m.data)
    BY <1>2, <2>2, <2>3
  <2>. QED
    BY <2>6, <2>7
<1>5. ASSUME NEW o \in Active, NEW c \in Text \cup {Empty}, ChangeMessage(o, c)
      PROVE  table'[n][n].text # table[n][n].text
  <2>1. \/ table' = table
        \/ table' = [table EXCEPT ![o] = UpdateMyData(table[o], o, c)]
    BY <1>2, <1>5 DEF ChangeMessage
  <2>2. o = n /\ table'[n] = UpdateMyData(table[n], n, c)
    BY <1>2, <2>1
  <2>. QED
    BY <1>2, <2>2, UpdateMyDataSeqno
<1>6. ASSUME NEW o \in Active, Restart(o)
      PROVE  table'[n][n].text # table[n][n].text
  BY <1>6 DEF Restart, InOrder, TypeOK
<1>7. CASE UNCHANGED vars
  BY <1>7 DEF vars
<1>. QED
  BY <1>3, <1>4, <1>5, <1>6, <1>7 DEF Next

\* A node that has not restarted never outbids data of its own: its seqno goes on
\* only when its text does, whatever comes back from the network, and when.
THEOREM SeqnoForTextHolds == Spec => SeqnoForText
<1>1. Init => \A n \in Node : NotAsking(n)
  BY DEF Init, NotAsking
<1>2. /\ TypeOK /\ Authentic /\ (\A i \in Node : Series(i)) /\ [Next]_vars
      /\ \A n \in Node : NotAsking(n)
      => (\A n \in Node : NotAsking(n))'
  BY NextNotAsking
<1>3. /\ TypeOK /\ Authentic /\ (\A i \in Node : Series(i)) /\ [Next]_vars
      /\ \A n \in Node : NotAsking(n)
      => [\A n \in Node :
            InOrder(n)' /\ table'[n][n].seqno # table[n][n].seqno =>
              table'[n][n].text # table[n][n].text]_vars
  BY StepSeqnoFollowsText DEF SeqnoFollowsText
<1>. QED
  BY <1>1, <1>2, <1>3, SeriesHolds, TypeCorrect, AuthenticHolds, PTL
  DEF Spec, SeqnoForText

-----------------------------------------------------------------------------
(* What the rest of a node does with its data base.                        *)

\* What a call of database.c, or a start, makes of the table of n.
LegalCall(n) ==
  \/ table'[n] = table[n]
  \/ \E i \in Node, d \in Data :
       UpdatesFresh(d) /\ table'[n] = UpdateDataBase(table[n], n, i, d)
  \/ \E c \in Content \ {Empty} : table'[n] = UpdateMyData(table[n], n, c)
  \/ /\ restarts' > restarts
     /\ \E s \in Seqno \ {UNSET} :
          table'[n] = [i \in Node |->
            IF i = n THEN [seqno |-> s, text |-> Empty] ELSE None]

\* A node uses its data base only in the ways for which Database.tla shows what
\* database.c does, those of PublishedTable: whatever comes from the network or
\* from users, it puts no record in it that updateData leaves as it was, without
\* its hash (database.c:64), and only a start makes a table anew.
LegalCalls == [][\A n \in Node : LegalCall(n)]_vars

LEMMA HandleLegal ==
  ASSUME TypeOK, NEW m \in net, Handle(m), NEW n \in Node
  PROVE  LegalCall(n)
<1>1. m \in Datagram /\ m.dst \in Node
  BY DatagramFields DEF TypeOK
<1>2. CASE UNCHANGED table
  BY <1>2 DEF LegalCall
<1>3. CASE /\ ReceiveTLVNodeState(m) /\ Verify(m.data)
           /\ table' = [table EXCEPT ![m.dst] =
                UpdateDataBase(table[m.dst], m.dst, m.id, m.data)]
  <2>1. m.id \in Node /\ m.data \in Data
    BY <1>1, <1>3, DatagramFields DEF ReceiveTLVNodeState, Receive
  <2>2. UpdatesFresh(m.data)
    BY <1>3 DEF Verify
  <2>3. CASE n = m.dst
    <3>1. table'[n] = UpdateDataBase(table[n], n, m.id, m.data)
      BY <1>3, <2>3 DEF TypeOK
    <3>. QED
      BY <2>1, <2>2, <3>1 DEF LegalCall
  <2>4. CASE n # m.dst
    BY <1>3, <2>4 DEF LegalCall, TypeOK
  <2>. QED
    BY <2>3, <2>4
<1>. QED
  BY <1>2, <1>3
  DEF Handle, Ignore, ReceiveTLVWarning, ReceiveTLVNeighbourRequest,
      ReceiveTLVNeighbour, ReceiveTLVNetworkHash,
      ReceiveTLVNetworkStateRequest, ReceiveTLVNodeHash,
      ReceiveTLVNodeStateRequest, ReceiveTLVNodeState, KeepTable

\* The calls a node makes are those that Database.tla is verified for: only
\* verified data, only texts that are not empty, no matter what comes from the
\* network; and a table begins again only with its node.
THEOREM LegalCallsHolds == Spec => LegalCalls
<1>1. TypeOK /\ [Next]_vars => \A n \in Node : LegalCall(n)
  <2>. SUFFICES ASSUME TypeOK, [Next]_vars, NEW n \in Node PROVE LegalCall(n)
    OBVIOUS
  <2>1. ASSUME NEW o \in Node, Every20Seconds(o) PROVE LegalCall(n)
    <3>1. table' = [table EXCEPT ![o] = DefaultValue(o)]
      BY <2>1 DEF Every20Seconds
    <3>. DEFINE c == ISee(Cardinality(Known(table[n])))
    <3>2. CASE n = o /\ n \in OptD
      <4>1. table'[n] = UpdateMyData(table[n], n, c)
        BY <3>1, <3>2 DEF DefaultValue, TypeOK
      <4>2. c \in Content \ {Empty}
        <5>1. table[n] \in DataTable
          BY DEF TypeOK
        <5>2. Known(table[n]) \in SUBSET Node
          BY <5>1 DEF Known, DataTable
        <5>. QED
          BY <5>1, <5>2, ContentFacts, ISeeAssumption
      <4>. QED
        BY <4>1, <4>2 DEF LegalCall
    <3>3. CASE ~ (n = o /\ n \in OptD)
      BY <3>1, <3>3 DEF LegalCall, DefaultValue, TypeOK
    <3>. QED
      BY <3>2, <3>3
  <2>2. ASSUME NEW m \in net, Handle(m) PROVE LegalCall(n)
    BY <2>2, HandleLegal
  <2>3. ASSUME NEW o \in Active, NEW c \in Text \cup {Empty}, ChangeMessage(o, c)
        PROVE  LegalCall(n)
    <3>1. table' = [table EXCEPT ![o] =
            IF c # Empty THEN UpdateMyData(table[o], o, c) ELSE table[o]]
      BY <2>3 DEF ChangeMessage, UpdatesFresh, TypeOK
    <3>2. c \in Content
      BY ContentFacts
    <3>3. CASE n = o /\ c # Empty
      <4>1. table'[n] = UpdateMyData(table[n], n, c)
        BY <3>1, <3>3 DEF TypeOK
      <4>. QED
        BY <3>2, <3>3, <4>1 DEF LegalCall
    <3>4. CASE ~ (n = o /\ c # Empty)
      BY <3>1, <3>4 DEF LegalCall, TypeOK
    <3>. QED
      BY <3>3, <3>4
  <2>4. ASSUME NEW o \in Active, Restart(o) PROVE LegalCall(n)
    <3>1. /\ restarts' = restarts + 1 /\ restarts \in Nat
          /\ table' = [table EXCEPT ![o] = [i \in Node |->
               IF i = o THEN [seqno |-> StartSeqno, text |-> Empty] ELSE None]]
      BY <2>4 DEF Restart, TypeOK
    <3>2. CASE n = o
      <4>1. table'[n] = [i \in Node |->
              IF i = n THEN [seqno |-> StartSeqno, text |-> Empty] ELSE None]
        BY <3>1, <3>2 DEF TypeOK
      <4>2. StartSeqno \in Seqno \ {UNSET}
        BY StartSeqnoAssumption
      <4>. QED
        BY <3>1, <4>1, <4>2 DEF LegalCall
    <3>3. CASE n # o
      BY <3>1, <3>3 DEF LegalCall, TypeOK
    <3>. QED
      BY <3>2, <3>3
  <2>5. CASE UNCHANGED vars
    BY <2>5 DEF vars, LegalCall
  <2>. QED
    BY <2>1, <2>2, <2>3, <2>4, <2>5 DEF Next
<1>2. TypeOK /\ [Next]_vars => [\A n \in Node : LegalCall(n)]_vars
  BY <1>1
<1>. QED
  BY <1>2, TypeCorrect, PTL DEF Spec, LegalCalls
=============================================================================
