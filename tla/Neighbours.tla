----------------------------- MODULE Neighbours -----------------------------
(***************************************************************************)
(* The array of neighbours of a running node and its clock (node.c,        *)
(* inondation.c), after start-up.  Flooding has a set instead and lets any *)
(* neighbour have been silent; NeighbourSet says what it relies on.        *)
(***************************************************************************)
EXTENDS Startup

CONSTANTS
  ROUND,      \* 20 s
  SILENCE     \* 70 s, in the same unit

ASSUME ClockAssumption == ROUND \in Nat \ {0} /\ SILENCE \in Nat \ {0}

VARIABLE i    \* the place removeVoisinsInactifs looks at

allVars == <<vars, i>>

Init == StartInit /\ i = 1

\* One unit of time.  The loop is never late for every20seconds, as select waits
\* for a second at most.
Tick ==
  /\ at = "running"
  /\ elapsed < ROUND
  /\ elapsed' = elapsed + 1
  /\ voisins' = [k \in DOMAIN voisins |->
       [voisins[k] EXCEPT !.silent = IF @ < SILENCE THEN @ + 1 ELSE @]]
  /\ UNCHANGED <<startVars, i>>

Inactive(v) == ~ v.permanent /\ v.silent >= SILENCE

WithoutLast(v, k) == SubSeq(v, 1, Len(v) - 1)
\* The last neighbour takes the place of the one that is removed.
Without(v, k) == [j \in 1 .. Len(v) - 1 |-> IF j = k THEN v[Len(v)] ELSE v[j]]

StopAtFirst == i' = IF Inactive(voisins[i]) THEN Len(voisins) + 1 ELSE i + 1
NextPlace == i' = i + 1

\* removeVoisinsInactifs, in every20seconds.  i goes on, whoever was put in place.
RemoveVoisinsInactifs ==
  /\ at = "running"
  /\ elapsed = ROUND
  /\ i <= Len(voisins)
  /\ voisins' = IF Inactive(voisins[i]) THEN Without(voisins, i) ELSE voisins
  /\ NextPlace
  /\ UNCHANGED <<startVars, elapsed>>

\* The end of every20seconds.  Ghost: who should have been removed is counted.
EndRound ==
  /\ at = "running"
  /\ elapsed = ROUND
  /\ i > Len(voisins)
  /\ i' = 1
  /\ elapsed' = 0
  /\ voisins' = [k \in DOMAIN voisins |->
       [voisins[k] EXCEPT !.skipped = IF Inactive(voisins[k]) THEN @ + 1 ELSE @]]
  /\ UNCHANGED startVars

Renew(v, a) ==
  [k \in DOMAIN v |->
    IF v[k].addr = a THEN [v[k] EXCEPT !.silent = 0, !.skipped = 0] ELSE v[k]]

\* A datagram from a, whatever is in it: isVoisin, else addVoisin.
Receive(a) ==
  /\ at = "running"
  /\ i = 1
  /\ voisins' = IF a \in AddrIn(voisins) THEN Renew(voisins, a)
                ELSE AddVoisin(voisins, Voisin(a, FALSE))
  /\ UNCHANGED <<startVars, elapsed, i>>

\* exit, and an address that does not resolve
Ended ==
  /\ at \in {"exited", "crashed"} \/ Stuck
  /\ UNCHANGED allVars

Next ==
  \/ Starting /\ UNCHANGED i
  \/ Tick
  \/ RemoveVoisinsInactifs
  \/ EndRound
  \/ \E a \in Addr : Receive(a)
  \/ Ended

\* Fairness: the program goes on, and a name that can be resolved is at last.
Spec == Init /\ [][Next]_allVars /\ WF_allVars(StartStep /\ UNCHANGED i)

-----------------------------------------------------------------------------
(* Properties.                                                             *)

Neighbour ==
  [addr : Addr, permanent : BOOLEAN, silent : 0 .. SILENCE, skipped : Nat]

\* What addVoisin must not let happen: more neighbours than places, or an address
\* in two of them, which would be flooded to twice and removed once.
IsArray(v) ==
  /\ v \in Seq(Neighbour)
  /\ Len(v) <= MAX_VOISINS
  /\ \A j, k \in DOMAIN v : v[j].addr = v[k].addr => j = k

TypeOK ==
  /\ StartTypeOK
  /\ IsArray(voisins)
  /\ elapsed \in 0 .. ROUND
  /\ i \in Nat \ {0}

\* A neighbour that is silent, also one whose datagrams were no packets, gives
\* its place back.  A round misses those that are swapped into a place already
\* seen, but they come nearer to the first place each time.
GoneInTime == \A k \in DOMAIN voisins : k + voisins[k].skipped <= MAX_VOISINS

PermanentIn(v) == {v[k].addr : k \in {j \in DOMAIN v : v[j].permanent}}
SilentIn(v) == {v[k].addr : k \in {j \in DOMAIN v : v[j].silent = SILENCE}}

Table == INSTANCE NeighbourSet WITH
  voisins <- AddrIn(voisins),
  permanent <- PermanentIn(voisins),
  silent <- SilentIn(voisins),
  self <- mySelf

\* The array is the set of neighbours that Flooding has.
Implements == Table!Spec
=============================================================================
