---------------------------- MODULE MCNeighbours ----------------------------
(***************************************************************************)
(* Neighbours for TLC.                                                     *)
(***************************************************************************)
EXTENDS Neighbours, TLC

CONSTANTS a, b, c, d, me, public, link, host, alias, down

\* Two names of one host, the second of which has the node's own address too.
SomeResolves ==
  host :> <<b, link>> @@ alias :> <<public, me, b>> @@ down :> <<>>

SomeLists == {<<host>>, <<host, alias>>, <<alias>>, <<host, down>>}
=============================================================================
