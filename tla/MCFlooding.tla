----------------------------- MODULE MCFlooding -----------------------------
(***************************************************************************)
(* Instances of Flooding for TLC.                                          *)
(***************************************************************************)
EXTENDS Flooding, TLC

CONSTANTS a, b, c

\* Two nodes, each given the other on its command line.
PairPermanent == a :> {b} @@ b :> {a}

\* Three nodes, a given both others, which discover each other through a.
StarPermanent == a :> {b, c} @@ b :> {a} @@ c :> {a}

AllTypes == Plain \cup {"Neighbour", "NetworkHash", "NodeHash",
                       "NodeStateRequest", "NodeState"}

\* Only what is left of a round, after its Node Hashes.
LateTypes == {"NodeStateRequest", "NodeState", "Warning",
              "NeighbourRequest", "Neighbour"}

\* A line: a and c only hear of each other through b.
LinePermanent == a :> {b} @@ b :> {a, c} @@ c :> {b}

\* b and c can be exchanged in StarPermanent.
Leaves == Permutations({b, c})
=============================================================================
