---------------------------- MODULE NeighbourSet ----------------------------
(***************************************************************************)
(* What the table of neighbours promises Flooding: a set of at most        *)
(* MAX_VOISINS addresses, none of them an own one, that loses only         *)
(* neighbours that were silent long enough and are not permanent.          *)
(***************************************************************************)
EXTENDS Integers, FiniteSets

CONSTANTS Addr, MAX_VOISINS

VARIABLES
  voisins,     \* the neighbours
  permanent,   \* those given on the command line
  silent,      \* those that wrote nothing for 70 s
  self         \* the own addresses the node knows of

Init == voisins = {} /\ permanent = {} /\ silent = {} /\ self \subseteq Addr

\* The public address is found before there are neighbours.
Learn ==
  /\ voisins = {}
  /\ self \subseteq self'
  /\ UNCHANGED <<voisins, permanent, silent>>

Add ==
  /\ voisins \subseteq voisins'
  /\ voisins' \cap self \subseteq voisins
  /\ Cardinality(voisins') <= MAX_VOISINS
  /\ permanent \subseteq permanent'
  /\ permanent' \subseteq permanent \cup (voisins' \ voisins)
  /\ silent' \subseteq silent
  /\ UNCHANGED self

Wait ==
  /\ silent \subseteq silent'
  /\ UNCHANGED <<voisins, permanent, self>>

Forget ==
  /\ voisins' \subseteq voisins
  /\ voisins \ voisins' \subseteq silent \ permanent
  /\ silent' = silent \cap voisins'
  /\ UNCHANGED <<permanent, self>>

Next == Learn \/ Add \/ Wait \/ Forget

Spec == Init /\ [][Next]_<<voisins, permanent, silent, self>>
=============================================================================
