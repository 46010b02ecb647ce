----------------------------- MODULE KeysProofs -----------------------------
(***************************************************************************)
(* For any number of keys, clients and restarts: the two key files match   *)
(* while the node listens, and a public key serves for one change only.    *)
(***************************************************************************)
EXTENDS Keys, TLAPS

\* A node that generates keys has a pair that served for no change yet, and a
\* node that waits has such a pair in its files.
FreshPair ==
  /\ keypair # None => keypair \in current /\ opened[keypair] = 0
  /\ node = "public written" => public = keypair
  /\ node = "running" =>
       private \in current /\ public = private /\ opened[private] = 0

\* Whatever served for a change was generated.
UsedOnce ==
  \A k \in Key : opened[k] \in {0, 1} /\ (opened[k] = 1 => k \in generated)

\* A client that goes on has found the file, and then read a key in it.
ReadsKey ==
  \A c \in Changer :
    /\ changer[c].at \in {"found", "read"} => public # Missing
    /\ changer[c].at = "read" => changer[c].key \in Key

IInv == TypeOK /\ FreshPair /\ UsedOnce /\ ReadsKey

NodeTypes ==
  /\ node \in {"down", "generated", "public renamed", "private renamed",
               "public written", "running"}
  /\ keypair \in Key \cup {None}
  /\ keypair # None <=> node \notin {"down", "running"}
  /\ public \in File
  /\ private \in File
  /\ generated \subseteq Key
  /\ current \subseteq generated
  /\ opened \in [Key -> Nat]
ClientTypes ==
  /\ port \in Changer \cup {None}
  /\ changer \in [Changer ->
       [at : {"start", "bound", "found", "read"}, key : Key \cup {None}]]
NodeIInv == NodeTypes /\ FreshPair /\ UsedOnce

LEMMA TypeParts == TypeOK <=> NodeTypes /\ ClientTypes /\ net \subseteq Message
BY DEF TypeOK, NodeTypes, ClientTypes

-----------------------------------------------------------------------------
LEMMA InitIInv == Init => IInv
<1>. SUFFICES ASSUME Init PROVE IInv
  OBVIOUS
<1>1. TypeOK
  BY DEF Init, Idle, TypeOK, File
<1>2. FreshPair /\ UsedOnce /\ ReadsKey
  BY DEF Init, Idle, FreshPair, UsedOnce, ReadsKey
<1>. QED
  BY <1>1, <1>2 DEF IInv

\* A new pair, after a change made with the pair there was, or after a start.
LEMMA GenerateKeeps ==
  ASSUME NodeIInv, NEW since, since \subseteq generated, Generate(since),
         UNCHANGED <<public, private>>,
         \/ opened' = opened
         \/ /\ node = "running"
            /\ opened' = [opened EXCEPT ![private] = @ + 1]
  PROVE  NodeIInv'
<1>. USE DEF NodeIInv
<1>1. PICK k \in Key \ generated :
        /\ keypair' = k
        /\ generated' = generated \cup {k}
        /\ current' = since \cup {k}
  BY DEF Generate
<1>2. node' = "generated" /\ k # None
  BY FileAssumption DEF Generate
<1>3. UsedOnce' /\ opened' \in [Key -> Nat]
  <2>1. CASE opened' = opened
    BY <1>1, <2>1 DEF UsedOnce, NodeTypes
  <2>2. CASE node = "running" /\ opened' = [opened EXCEPT ![private] = @ + 1]
    <3>1. private \in generated /\ private \in Key /\ opened[private] = 0
      BY <2>2 DEF FreshPair, NodeTypes
    <3>2. \A j \in Key : opened'[j] = IF j = private THEN 1 ELSE opened[j]
      BY <2>2, <3>1 DEF NodeTypes
    <3>3. opened' \in [Key -> Nat]
      BY <2>2, <3>1 DEF NodeTypes
    <3>. QED
      BY <1>1, <3>1, <3>2, <3>3 DEF UsedOnce
  <2>. QED
    BY <2>1, <2>2
<1>4. opened'[k] = 0
  <2>1. opened[k] = 0
    BY <1>1 DEF UsedOnce
  <2>2. node = "running" => private # k
    BY <1>1 DEF FreshPair, NodeTypes
  <2>. QED
    BY <1>1, <2>1, <2>2 DEF NodeTypes
<1>5. FreshPair'
  BY <1>1, <1>2, <1>4 DEF FreshPair
<1>6. NodeTypes'
  BY <1>1, <1>2, <1>3 DEF NodeTypes
<1>. QED
  BY <1>3, <1>5, <1>6

LEMMA NodeKeeps ==
  ASSUME NodeIInv, NodeStep
  PROVE  NodeIInv' /\ opened' = opened /\ (public' = Missing => public = Missing)
<1>1. CASE Start
  <2>1. Generate({}) /\ UNCHANGED <<public, private, opened>>
    BY <1>1 DEF Start
  <2>. QED
    BY <2>1, GenerateKeeps
<1>2. CASE RenamePublic
  BY <1>2, FileAssumption DEF RenamePublic, NodeIInv, NodeTypes, FreshPair, UsedOnce, File
<1>3. CASE RenamePrivate
  BY <1>3 DEF RenamePrivate, NodeIInv, NodeTypes, FreshPair, UsedOnce, File
<1>4. CASE FlushPublic
  BY <1>4, FileAssumption DEF FlushPublic, NodeIInv, NodeTypes, FreshPair, UsedOnce, File
<1>5. CASE FlushPrivate
  BY <1>5 DEF FlushPrivate, NodeIInv, NodeTypes, FreshPair, UsedOnce, File
<1>6. CASE Crash
  BY <1>6 DEF Crash, NodeIInv, NodeTypes, FreshPair, UsedOnce, File
<1>. QED
  BY <1>1, <1>2, <1>3, <1>4, <1>5, <1>6 DEF NodeStep, GenerateKeys

LEMMA ReceiveKeeps ==
  ASSUME IInv, NEW m \in net, ReceiveTLVChangeMessage(m)
  PROVE  IInv'
<1>1. NodeIInv /\ ClientTypes /\ net \subseteq Message
  BY TypeParts DEF IInv, NodeIInv
<1>2. NodeIInv'
  <2>1. CASE Changes(m)
    <3>1. m.key = private /\ current \subseteq generated
      BY <1>1, <2>1 DEF Changes, NodeIInv, NodeTypes
    <3>. QED
      BY <1>1, <2>1, <3>1, GenerateKeeps DEF ReceiveTLVChangeMessage
  <2>2. CASE ~ Changes(m)
    BY <1>1, <2>2
    DEF ReceiveTLVChangeMessage, nodeVars, NodeIInv, NodeTypes, FreshPair, UsedOnce
  <2>. QED
    BY <2>1, <2>2
<1>3. ClientTypes' /\ net' \subseteq Message
  BY <1>1 DEF ReceiveTLVChangeMessage, clientVars, ClientTypes
<1>4. ReadsKey'
  <2>1. public' = public /\ changer' = changer
    BY DEF ReceiveTLVChangeMessage, nodeVars, clientVars
  <2>. QED
    BY <2>1 DEF IInv, ReadsKey
<1>. QED
  BY <1>2, <1>3, <1>4 DEF IInv, NodeIInv, NodeTypes, ClientTypes, TypeOK

LEMMA ClientKeeps ==
  ASSUME NodeIInv, ClientTypes, ReadsKey, net \subseteq Message,
         NEW c \in Changer, Bind(c) \/ ClientStep(c) \/ Kill(c), UNCHANGED nodeVars
  PROVE  ClientTypes' /\ ReadsKey' /\ net' \subseteq Message
<1>. USE DEF ClientTypes, ReadsKey, Moves, nodeVars
<1>1. CASE Bind(c)
  BY <1>1 DEF Bind
<1>2. CASE Find(c)
  <2>1. CASE public = Missing
    BY <1>2, <2>1 DEF Find, Exit, Idle
  <2>2. CASE public # Missing
    BY <1>2, <2>2 DEF Find
  <2>. QED
    BY <2>1, <2>2
<1>3. CASE Read(c)
  <2>1. CASE public = Unwritten
    BY <1>3, <2>1 DEF Read, Exit, Idle
  <2>2. CASE public # Unwritten
    <3>1. public \in Key
      BY <1>3, <2>2 DEF Read, NodeIInv, NodeTypes, File
    <3>. QED
      BY <1>3, <2>2, <3>1 DEF Read
  <2>. QED
    BY <2>1, <2>2
<1>4. CASE Send(c)
  <2>1. net' \subseteq Message
    <3>1. changer[c].key \in Key
      BY <1>4 DEF Send
    <3>2. PICK e \in BOOLEAN : net' = net \cup {[key |-> changer[c].key, empty |-> e]}
      BY <1>4 DEF Send
    <3>. QED
      BY <3>1, <3>2 DEF Message
  <2>2. CASE c \in Zoo
    <3>1. /\ changer' = [changer EXCEPT ![c].at = "bound"]
          /\ UNCHANGED <<port, public>>
      BY <1>4, <2>2 DEF Send
    <3>2. ClientTypes'
      BY <3>1
    <3>3. ReadsKey'
      BY <3>1
    <3>. QED
      BY <2>1, <3>2, <3>3
  <2>3. CASE c \notin Zoo
    BY <1>4, <2>1, <2>3 DEF Send, Exit, Idle
  <2>. QED
    BY <2>2, <2>3
<1>5. CASE Kill(c)
  BY <1>5 DEF Kill, Exit, Idle
<1>. QED
  BY <1>1, <1>2, <1>3, <1>4, <1>5 DEF ClientStep

LEMMA NextKeepsIInv == IInv /\ [Next]_vars => IInv'
<1>. SUFFICES ASSUME IInv, [Next]_vars PROVE IInv'
  OBVIOUS
<1>0. NodeIInv /\ ClientTypes /\ net \subseteq Message /\ ReadsKey
  BY TypeParts DEF IInv, NodeIInv
<1>. DEFINE Goal == NodeIInv' /\ ClientTypes' /\ net' \subseteq Message /\ ReadsKey'
<1>1. CASE NodeStep /\ UNCHANGED <<clientVars, net>>
  <2>1. NodeIInv' /\ (public' = Missing => public = Missing)
    BY <1>0, <1>1, NodeKeeps
  <2>. QED
    BY <1>0, <1>1, <2>1
    DEF clientVars, ClientTypes, ReadsKey, IInv, TypeOK, NodeIInv, NodeTypes
<1>2. CASE \E m \in net : ReceiveTLVChangeMessage(m)
  BY <1>2, ReceiveKeeps
<1>3. CASE \E c \in Changer : (Bind(c) \/ ClientStep(c) \/ Kill(c)) /\ UNCHANGED nodeVars
  <2>1. ClientTypes' /\ net' \subseteq Message /\ ReadsKey'
    BY <1>0, <1>3, ClientKeeps
  <2>. QED
    BY <1>0, <1>3, <2>1
    DEF nodeVars, IInv, TypeOK, ClientTypes, NodeIInv, NodeTypes, FreshPair, UsedOnce
<1>4. CASE ThirdPartySends
  <2>1. net' \subseteq Message
    <3>1. public \in Key => [key |-> public, empty |-> FALSE] \in Message
      BY DEF Message
    <3>. QED
      BY <1>0, <1>4, <3>1 DEF ThirdPartySends
  <2>. QED
    BY <1>4, <2>1
    DEF ThirdPartySends, nodeVars, clientVars, IInv, TypeOK, FreshPair, UsedOnce,
        ReadsKey
<1>5. CASE UNCHANGED vars
  BY <1>5 DEF vars, IInv, TypeOK, FreshPair, UsedOnce, ReadsKey
<1>. QED
  BY <1>1, <1>2, <1>3, <1>4, <1>5 DEF Next

-----------------------------------------------------------------------------
(* The theorems.                                                           *)

\* The invariant, for any number of keys.
THEOREM KeysInvariant == Spec => []IInv
<1>. QED
  BY InitIInv, NextKeepsIInv, PTL DEF Spec

\* Types of the key files, the clients and the messages.
THEOREM KeysTypeCorrect == Spec => []TypeOK
<1>1. IInv => TypeOK
  BY DEF IInv
<1>. QED
  BY <1>1, KeysInvariant, PTL

\* The node listens with two keys of one pair.
THEOREM PairMatchesHolds == Spec => []PairMatches
<1>1. IInv => PairMatches
  BY DEF IInv, TypeOK, FreshPair, PairMatches
<1>. QED
  BY <1>1, KeysInvariant, PTL

\* A public key serves for one change.
THEOREM OneChangePerKeyHolds == Spec => []OneChangePerKey
<1>1. IInv => OneChangePerKey
  <2>1. \A n \in {0, 1} : n <= 1
    OBVIOUS
  <2>. QED
    BY <2>1 DEF IInv, UsedOnce, OneChangePerKey
<1>. QED
  BY <1>1, KeysInvariant, PTL

\* What was encrypted before the node started changes nothing.
THEOREM NoReplayHolds == Spec => NoReplay
<1>. DEFINE Current == \A k \in Key : opened'[k] # opened[k] => k \in current
<1>1. ASSUME IInv, [Next]_vars
      PROVE  Current
  <2>1. CASE \E m \in net : ReceiveTLVChangeMessage(m)
    <3>1. PICK m \in net : ReceiveTLVChangeMessage(m)
      BY <2>1
    <3>2. CASE Changes(m)
      BY <1>1, <3>1, <3>2
      DEF ReceiveTLVChangeMessage, Changes, IInv, TypeOK, FreshPair
    <3>3. CASE ~ Changes(m)
      BY <3>1, <3>3 DEF ReceiveTLVChangeMessage, nodeVars
    <3>. QED
      BY <3>2, <3>3
  <2>2. CASE opened' = opened
    BY <2>2
  <2>3. NodeIInv
    BY <1>1, TypeParts DEF IInv, NodeIInv
  <2>. QED
    BY <1>1, <2>1, <2>2, <2>3, NodeKeeps DEF Next, nodeVars, ThirdPartySends, vars
<1>. QED
  BY <1>1, KeysInvariant, PTL DEF Spec, NoReplay
=============================================================================
