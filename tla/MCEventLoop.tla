---------------------------- MODULE MCEventLoop ----------------------------
(***************************************************************************)
(* EventLoop for TLC.                                                      *)
(***************************************************************************)
EXTENDS EventLoop

CONSTANTS x, y

\* The Id 2^64-1 is asked for in vain.
SomeKept == Peer \X {x, y}

\* Two Node State Requests fill a packet, as do two answers.
Sizes ==
  [NeighbourRequest |-> 1, Neighbour |-> 2, NetworkHash |-> 2,
   NetworkStateRequest |-> 1, NodeHash |-> 2, NodeStateRequest |-> 2,
   NodeState |-> 3, Warning |-> 2]

OneTlv == {<<t>> : t \in Tlv}

\* What a neighbour may put together, in any order and twice.
TwoTlvs ==
  LET X == {T("NetworkHash"), T("NeighbourRequest"), T("Neighbour")}
             \cup {TI("NodeHash", i) : i \in Id} \cup {TI("NodeState", i) : i \in Id}
  IN {<<t, u>> : t \in X, u \in X}

\* All its Node Hashes.
AllHashes == {SetToSeq({TI("NodeHash", i) : i \in Id})}

\* One that does not verify, alone or before another.
WithWrong ==
  {<<Wrong>>} \cup {<<Wrong, TI(t, i)>> : t \in WithId, i \in Id}

SomeBodies == OneTlv \cup TwoTlvs \cup AllHashes \cup WithWrong
=============================================================================
