-------------------------- MODULE NeighboursProofs --------------------------
(***************************************************************************)
(* For any number of places, addresses, servers and names: the array of    *)
(* neighbours is one, a neighbour that is due is not missed more often     *)
(* than there are places, and the array implements NeighbourSet.           *)
(***************************************************************************)
EXTENDS Neighbours, SequenceTheorems, FiniteSetTheorems, TLAPS

\* The places already seen hold no neighbour that is due, but those that the
\* swap has brought nearer to the first.
Places ==
  \A k \in DOMAIN voisins :
    /\ k + voisins[k].skipped <= MAX_VOISINS
    /\ k < i /\ Inactive(voisins[k]) => k + voisins[k].skipped < MAX_VOISINS

\* There are no neighbours before initVoisins, and no pass but in a round.
Calm ==
  /\ at \in {"main", "server", "send", "read"} => voisins = <<>>
  /\ i = 1 \/ (at = "running" /\ elapsed = ROUND)

IInv == TypeOK /\ Places /\ Calm

-----------------------------------------------------------------------------
(* The operations on the array.                                            *)

LEMMA ElementFacts ==
  ASSUME NEW v \in Seq(Neighbour), NEW k \in 1 .. Len(v)
  PROVE  /\ v[k] \in Neighbour
         /\ v[k].addr \in Addr
         /\ v[k].permanent \in BOOLEAN
         /\ v[k].silent \in 0 .. SILENCE
         /\ v[k].skipped \in Nat
<1>1. v[k] \in Neighbour
  BY ElementOfSeq
<1>. QED
  BY <1>1 DEF Neighbour

LEMMA RenewedFacts ==
  ASSUME NEW r \in Neighbour,
         NEW x, x = [r EXCEPT !.silent = 0, !.skipped = 0]
  PROVE  /\ x \in Neighbour
         /\ x.addr = r.addr
         /\ x.skipped = 0
<1>1. 0 \in 0 .. SILENCE
  BY ClockAssumption
<1>. QED
  BY <1>1 DEF Neighbour

\* addVoisin leaves the array alone, or appends an address that is new to it.
LEMMA AddVoisinFacts ==
  ASSUME NEW v, IsArray(v), NEW a \in Addr, NEW p \in BOOLEAN,
         NEW w, w = AddVoisin(v, Voisin(a, p))
  PROVE  /\ IsArray(w)
         /\ \/ w = v
            \/ /\ Len(w) = Len(v) + 1
               /\ \A k \in 1 .. Len(v) : w[k] = v[k]
               /\ w[Len(w)] = Voisin(a, p)
               /\ a \notin mySelf
<1>. DEFINE x == Voisin(a, p)
<1>1. /\ x \in Neighbour
      /\ x.addr = a
  BY ClockAssumption DEF Voisin, Neighbour
<1>. HIDE DEF x
<1>2. CASE w = v
  BY <1>2 DEF IsArray
<1>3. CASE w # v
  <2>1. /\ w = Append(v, x)
        /\ Len(v) # MAX_VOISINS
        /\ a \notin mySelf
        /\ a \notin AddrIn(v)
    BY <1>1, <1>3 DEF AddVoisin, x
  <2>2. /\ v \in Seq(Neighbour)
        /\ Len(v) \in Nat
        /\ Len(v) <= MAX_VOISINS
        /\ DOMAIN v = 1 .. Len(v)
    BY DEF IsArray
  <2>3. /\ w \in Seq(Neighbour)
        /\ Len(w) = Len(v) + 1
        /\ \A k \in 1 .. Len(v) : w[k] = v[k]
        /\ w[Len(v) + 1] = x
        /\ DOMAIN w = 1 .. Len(w)
    BY <1>1, <2>1, <2>2, AppendProperties
  <2>4. Len(w) <= MAX_VOISINS
    <3>1. Len(v) # MAX_VOISINS /\ Len(v) <= MAX_VOISINS /\ Len(v) \in Nat
      BY <2>1, <2>2
    <3>2. Len(w) = Len(v) + 1
      BY <2>3
    <3>. QED
      BY <3>1, <3>2, LimitAssumption
  <2>5. \A k \in 1 .. Len(v) : w[k].addr # a
    BY <2>1, <2>2, <2>3 DEF AddrIn
  <2>6. ASSUME NEW j \in DOMAIN w, NEW k \in DOMAIN w, w[j].addr = w[k].addr
        PROVE  j = k
    <3>1. CASE j = Len(w) \/ k = Len(w)
      BY <1>1, <2>2, <2>3, <2>5, <2>6, <3>1
    <3>2. CASE j # Len(w) /\ k # Len(w)
      <4>1. j \in DOMAIN v /\ k \in DOMAIN v
        BY <2>2, <2>3, <3>2
      <4>. QED
        BY <2>2, <2>3, <2>6, <4>1 DEF IsArray
    <3>. QED
      BY <3>1, <3>2
  <2>7. IsArray(w)
    BY <2>3, <2>4, <2>6 DEF IsArray
  <2>. QED
    BY <2>1, <2>3, <2>7 DEF x
<1>. QED
  BY <1>2, <1>3

\* Without takes out the neighbour at k and no other.
LEMMA WithoutFacts ==
  ASSUME NEW v, IsArray(v), NEW k \in 1 .. Len(v),
         NEW w, w = Without(v, k)
  PROVE  /\ IsArray(w)
         /\ Len(w) = Len(v) - 1
         /\ DOMAIN w = 1 .. Len(v) - 1
         /\ \A j \in DOMAIN w : w[j] = IF j = k THEN v[Len(v)] ELSE v[j]
<1>1. /\ v \in Seq(Neighbour)
      /\ Len(v) \in Nat
      /\ DOMAIN v = 1 .. Len(v)
      /\ Len(v) <= MAX_VOISINS
  BY DEF IsArray
<1>2. \A j \in 1 .. Len(v) : v[j] \in Neighbour
  BY <1>1, ElementFacts
<1>3. /\ DOMAIN w = 1 .. Len(v) - 1
      /\ \A j \in DOMAIN w : w[j] = IF j = k THEN v[Len(v)] ELSE v[j]
  BY DEF Without
<1>4. w \in [1 .. Len(v) - 1 -> Neighbour]
  BY <1>1, <1>2 DEF Without
<1>5. /\ w \in Seq(Neighbour)
      /\ Len(w) = Len(v) - 1
  <2>1. Len(v) - 1 \in Nat
    BY <1>1
  <2>. QED
    BY <1>4, <2>1, IsASeq
<1>6. ASSUME NEW m \in DOMAIN w, NEW n \in DOMAIN w, w[m].addr = w[n].addr
      PROVE  m = n
  BY <1>1, <1>3, <1>6 DEF IsArray
<1>. QED
  BY <1>1, <1>3, <1>5, <1>6, LimitAssumption DEF IsArray

\* A map that keeps addresses and types keeps the array one.
LEMMA SameArray ==
  ASSUME NEW v, IsArray(v), NEW w, DOMAIN w = DOMAIN v,
         w = [k \in DOMAIN v |-> w[k]],
         \A k \in DOMAIN v : w[k] \in Neighbour /\ w[k].addr = v[k].addr
  PROVE  IsArray(w) /\ Len(w) = Len(v)
<1>1. /\ v \in Seq(Neighbour)
      /\ Len(v) \in Nat
      /\ DOMAIN v = 1 .. Len(v)
      /\ Len(v) <= MAX_VOISINS
  BY DEF IsArray
<1>2. w \in [1 .. Len(v) -> Neighbour]
  BY <1>1
<1>3. w \in Seq(Neighbour) /\ Len(w) = Len(v)
  BY <1>1, <1>2, IsASeq
<1>. QED
  BY <1>1, <1>3 DEF IsArray

-----------------------------------------------------------------------------
(* Start-up.                                                               *)

\* Each step of start-up keeps its types, and says what it does to the rest.
LEMMA StartFacts ==
  ASSUME StartTypeOK, Starting
  PROVE  /\ StartTypeOK'
         /\ elapsed' = elapsed
         /\ at = "running" => at' = "running"
         /\ at' \in {"main", "server", "send", "read"} =>
              at \in {"main", "server", "send", "read"}
         /\ at' \in {"main", "server", "send", "read"} => voisins' = voisins
         /\ voisins' = voisins \/ AddResult
         /\ found' = found \/ (found' = TRUE /\ at = "read" /\ voisins' = voisins)
<1>. USE DEF StartTypeOK, STUNStep, NamesStep
<1>. USE LimitAssumption
<1>1. CASE Main
  BY <1>1, NameAssumption DEF Main
<1>2. CASE ResolveServer
  BY <1>2 DEF ResolveServer, LeaveSTUN, NextServer
<1>3. CASE SendRequest
  BY <1>3 DEF SendRequest, NextServer
<1>4. CASE ReadAnswer
  <2>1. CASE LeaveSTUN /\ found' = TRUE
    BY <1>4, <2>1 DEF ReadAnswer, LeaveSTUN
  <2>2. CASE NextAddress /\ inbox' = inbox - 1
    BY <1>4, <2>2 DEF ReadAnswer, NextAddress
  <2>3. CASE at' = "crashed" /\ UNCHANGED <<server, ip, flying, inbox, found>>
    BY <1>4, <2>3 DEF ReadAnswer
  <2>. QED
    BY <1>4, <2>1, <2>2, <2>3 DEF ReadAnswer
<1>5. CASE ReadTimeout
  BY <1>5 DEF ReadTimeout, NextAddress
<1>6. CASE ResolveName
  <2>1. Head(names) \in Name
    BY <1>6 DEF ResolveName
  <2>2. Resolves[Head(names)] \in Seq(Addr)
    BY <2>1, NameAssumption
  <2>. QED
    BY <1>6, <2>2 DEF ResolveName
<1>7. CASE AddResult
  <2>1. Tail(results) \in Seq(Addr)
    BY <1>7, HeadTailProperties DEF AddResult
  <2>. QED
    BY <1>7, <2>1 DEF AddResult
<1>8. CASE FreeResults
  <2>1. Tail(names) \in Seq(Name)
    BY <1>8, HeadTailProperties DEF FreeResults
  <2>. QED
    BY <1>8, <2>1 DEF FreeResults
<1>9. CASE StartCommunication
  <2>1. names' = <<>>
    BY <1>9 DEF StartCommunication
  <2>2. names' \in Seq(Name)
    BY <2>1, EmptySeq
  <2>3. at' \in {"running", "exited"}
    BY <1>9 DEF StartCommunication
  <2>. QED
    BY <1>9, <2>2, <2>3 DEF StartCommunication
<1>10. CASE Arrive
  BY <1>10 DEF Arrive
<1>. QED
  BY <1>1, <1>2, <1>3, <1>4, <1>5, <1>6, <1>7, <1>8, <1>9, <1>10
  DEF Starting, StartStep

-----------------------------------------------------------------------------
(* The invariant.                                                          *)

LEMMA InitIInv == Init => IInv
<1>. SUFFICES ASSUME Init PROVE IInv
  OBVIOUS
<1>. USE DEF Init, StartInit
<1>1. StartTypeOK
  <2>1. names \in Seq(Name) /\ results \in Seq(Addr)
    BY EmptySeq
  <2>2. 1 \in 1 .. NB_SERVERS + 1 /\ 1 \in 1 .. NbIps + 1
    BY LimitAssumption
  <2>. QED
    BY <2>1, <2>2 DEF StartTypeOK
<1>2. IsArray(voisins)
  BY EmptySeq, LimitAssumption DEF IsArray
<1>3. Places /\ Calm
  BY DEF Places, Calm
<1>. QED
  BY <1>1, <1>2, <1>3, ClockAssumption DEF IInv, TypeOK

\* Of an array, what the steps need.
LEMMA ArrayFacts ==
  ASSUME NEW v, IsArray(v)
  PROVE  /\ v \in Seq(Neighbour)
         /\ Len(v) \in Nat
         /\ Len(v) <= MAX_VOISINS
         /\ DOMAIN v = 1 .. Len(v)
         /\ \A k \in DOMAIN v :
              /\ v[k] \in Neighbour
              /\ v[k].addr \in Addr
              /\ v[k].permanent \in BOOLEAN
              /\ v[k].silent \in 0 .. SILENCE
              /\ v[k].skipped \in Nat
BY ElementFacts DEF IsArray

\* A neighbour that is appended, or none, leaves the places as they should be.
LEMMA AddKeepsPlaces ==
  ASSUME IInv, i = 1, i' = i, NEW a \in Addr, NEW p \in BOOLEAN,
         voisins' = AddVoisin(voisins, Voisin(a, p))
  PROVE  IsArray(voisins') /\ Places'
<1>1. IsArray(voisins)
  BY DEF IInv, TypeOK
<1>2. IsArray(voisins')
  BY <1>1, AddVoisinFacts
<1>3. ASSUME NEW k \in DOMAIN voisins'
      PROVE  k + voisins'[k].skipped <= MAX_VOISINS /\ ~ k < i'
  <2>1. k \in 1 .. Len(voisins') /\ Len(voisins') <= MAX_VOISINS /\ Len(voisins') \in Nat
    BY <1>2, <1>3, ArrayFacts
  <2>2. CASE voisins' = voisins
    BY <1>3, <2>1, <2>2 DEF IInv, Places
  <2>3. CASE /\ Len(voisins') = Len(voisins) + 1
             /\ \A j \in 1 .. Len(voisins) : voisins'[j] = voisins[j]
             /\ voisins'[Len(voisins')] = Voisin(a, p)
    <3>1. CASE k = Len(voisins')
      <4>1. voisins'[k].skipped = 0
        BY <2>3, <3>1 DEF Voisin
      <4>. QED
        BY <2>1, <4>1, LimitAssumption
    <3>2. CASE k # Len(voisins')
      <4>1. k \in 1 .. Len(voisins)
        BY <1>1, <2>1, <2>3, <3>2, ArrayFacts
      <4>2. k \in DOMAIN voisins /\ voisins'[k] = voisins[k]
        BY <1>1, <2>3, <4>1, ArrayFacts
      <4>3. k + voisins[k].skipped <= MAX_VOISINS
        BY <4>2 DEF IInv, Places
      <4>4. ~ k < i'
        BY <2>1
      <4>. QED
        BY <4>2, <4>3, <4>4
    <3>. QED
      BY <3>1, <3>2
  <2>. QED
    BY <1>1, <2>2, <2>3, AddVoisinFacts
<1>. QED
  BY <1>2, <1>3 DEF Places

\* A map over the array that keeps addresses.
LEMMA MapKeepsArray ==
  ASSUME IInv, NEW w, w = [k \in DOMAIN voisins |-> w[k]],
         \A k \in DOMAIN voisins :
           w[k] \in Neighbour /\ w[k].addr = voisins[k].addr
  PROVE  /\ IsArray(w)
         /\ Len(w) = Len(voisins)
         /\ DOMAIN w = DOMAIN voisins
BY SameArray DEF IInv, TypeOK

\* The invariant is kept by each action.

LEMMA StartKeepsIInv ==
  ASSUME IInv, Starting, i' = i
  PROVE  IInv'
<1>. USE DEF IInv, TypeOK
<1>1. StartTypeOK' /\ elapsed' = elapsed
  BY StartFacts
<1>2. Calm'
  BY StartFacts DEF Calm
<1>3. CASE voisins' = voisins
  <2>1. IsArray(voisins') /\ Places'
    BY <1>3 DEF Places, Inactive
  <2>. QED
    BY <1>1, <1>2, <2>1
<1>4. CASE AddResult
  <2>1. Head(results) \in Addr
    BY <1>4, HeadTailProperties DEF AddResult, StartTypeOK
  <2>2. i = 1
    BY <1>4 DEF AddResult, Calm
  <2>3. IsArray(voisins') /\ Places'
    BY <1>4, <2>1, <2>2, AddKeepsPlaces DEF AddResult
  <2>. QED
    BY <1>1, <1>2, <2>3
<1>. QED
  BY <1>3, <1>4, StartFacts

LEMMA TickKeepsIInv ==
  ASSUME IInv, Tick
  PROVE  IInv'
<1>1. /\ IsArray(voisins)
      /\ StartTypeOK'
      /\ elapsed' \in 0 .. ROUND
      /\ i' = i /\ i = 1
  BY ClockAssumption DEF IInv, TypeOK, Tick, startVars, StartTypeOK, Calm
<1>2. \A k \in DOMAIN voisins :
        /\ voisins'[k] \in Neighbour
        /\ voisins'[k].addr = voisins[k].addr
        /\ voisins'[k].skipped = voisins[k].skipped
  <2>1. SUFFICES ASSUME NEW k \in DOMAIN voisins
                 PROVE  /\ voisins'[k] \in Neighbour
                        /\ voisins'[k].addr = voisins[k].addr
                        /\ voisins'[k].skipped = voisins[k].skipped
    OBVIOUS
  <2>. DEFINE s == IF voisins[k].silent < SILENCE THEN voisins[k].silent + 1
                   ELSE voisins[k].silent
  <2>2. voisins[k] \in Neighbour /\ voisins[k].silent \in 0 .. SILENCE
    BY <1>1, ArrayFacts
  <2>3. s \in 0 .. SILENCE
    BY <2>2, ClockAssumption
  <2>4. voisins'[k] = [voisins[k] EXCEPT !.silent = s]
    BY DEF Tick
  <2>. HIDE DEF s
  <2>. QED
    BY <2>2, <2>3, <2>4 DEF Neighbour
<1>3. voisins' = [k \in DOMAIN voisins |-> voisins'[k]]
  BY DEF Tick
<1>4. IsArray(voisins') /\ DOMAIN voisins' = DOMAIN voisins
  BY <1>2, <1>3, MapKeepsArray
<1>5. Places'
  BY <1>1, <1>2, <1>4, ArrayFacts DEF IInv, Places
<1>6. Calm'
  BY <1>1 DEF Tick, startVars, Calm
<1>. QED
  BY <1>1, <1>4, <1>5, <1>6 DEF IInv, TypeOK

LEMMA RemoveKeepsIInv ==
  ASSUME IInv, RemoveVoisinsInactifs
  PROVE  IInv'
<1>1. /\ IsArray(voisins)
      /\ StartTypeOK'
      /\ elapsed' \in 0 .. ROUND
      /\ i' = i + 1
      /\ i \in 1 .. Len(voisins)
      /\ Calm'
  BY ArrayFacts
  DEF IInv, TypeOK, RemoveVoisinsInactifs, NextPlace, startVars, StartTypeOK, Calm
<1>2. CASE ~ Inactive(voisins[i])
  <2>1. voisins' = voisins
    BY <1>2 DEF RemoveVoisinsInactifs
  <2>2. Places'
    BY <1>1, <1>2, <2>1, ArrayFacts DEF IInv, Places, Inactive
  <2>. QED
    BY <1>1, <2>1, <2>2 DEF IInv, TypeOK
<1>3. CASE Inactive(voisins[i])
  <2>1. voisins' = Without(voisins, i)
    BY <1>3 DEF RemoveVoisinsInactifs
  <2>2. IsArray(voisins')
    BY <1>1, <2>1, WithoutFacts
  <2>3. ASSUME NEW k \in DOMAIN voisins'
        PROVE  /\ k + voisins'[k].skipped <= MAX_VOISINS
               /\ k < i' /\ Inactive(voisins'[k]) => k + voisins'[k].skipped < MAX_VOISINS
    <3>1. /\ k \in 1 .. Len(voisins) - 1
          /\ voisins'[k] = IF k = i THEN voisins[Len(voisins)] ELSE voisins[k]
      BY <1>1, <2>1, WithoutFacts
    <3>2. /\ Len(voisins) \in DOMAIN voisins /\ Len(voisins) \in Nat
          /\ k \in DOMAIN voisins
          /\ i \in Nat
          /\ voisins[Len(voisins)].skipped \in Nat
          /\ voisins[k].skipped \in Nat
      BY <1>1, <3>1, ArrayFacts
    <3>3. CASE k = i
      <4>1. Len(voisins) + voisins[Len(voisins)].skipped <= MAX_VOISINS
        BY <3>2 DEF IInv, Places
      <4>. QED
        BY <3>1, <3>2, <3>3, <4>1, LimitAssumption
    <3>4. CASE k # i
      <4>1. /\ k + voisins[k].skipped <= MAX_VOISINS
            /\ k < i /\ Inactive(voisins[k]) => k + voisins[k].skipped < MAX_VOISINS
        BY <3>2 DEF IInv, Places
      <4>2. k < i' => k < i
        BY <1>1, <3>1, <3>2, <3>4
      <4>. QED
        BY <3>1, <3>4, <4>1, <4>2
    <3>. QED
      BY <3>3, <3>4
  <2>4. Places'
    BY <2>3 DEF Places, Inactive
  <2>. QED
    BY <1>1, <2>2, <2>4 DEF IInv, TypeOK
<1>. QED
  BY <1>2, <1>3

LEMMA EndRoundKeepsIInv ==
  ASSUME IInv, EndRound
  PROVE  IInv'
<1>1. /\ IsArray(voisins)
      /\ StartTypeOK'
      /\ elapsed' \in 0 .. ROUND
      /\ i \in Nat /\ i' = 1
      /\ Calm'
  BY ClockAssumption
  DEF IInv, TypeOK, EndRound, startVars, StartTypeOK, Calm
<1>2. \A k \in DOMAIN voisins :
        /\ voisins'[k] \in Neighbour
        /\ voisins'[k].addr = voisins[k].addr
        /\ voisins'[k].skipped =
             IF Inactive(voisins[k]) THEN voisins[k].skipped + 1 ELSE voisins[k].skipped
  <2>. SUFFICES ASSUME NEW k \in DOMAIN voisins
                PROVE  /\ voisins'[k] \in Neighbour
                       /\ voisins'[k].addr = voisins[k].addr
                       /\ voisins'[k].skipped =
                            IF Inactive(voisins[k]) THEN voisins[k].skipped + 1
                                                    ELSE voisins[k].skipped
    OBVIOUS
  <2>1. voisins[k] \in Neighbour
    BY <1>1, ArrayFacts
  <2>2. voisins'[k] = [voisins[k] EXCEPT !.skipped =
                         IF Inactive(voisins[k]) THEN @ + 1 ELSE @]
    BY DEF EndRound
  <2>. QED
    BY <2>1, <2>2 DEF Neighbour
<1>3. voisins' = [k \in DOMAIN voisins |-> voisins'[k]]
  BY DEF EndRound
<1>4. IsArray(voisins') /\ DOMAIN voisins' = DOMAIN voisins
  BY <1>2, <1>3, MapKeepsArray
<1>5. ASSUME NEW k \in DOMAIN voisins'
      PROVE  k + voisins'[k].skipped <= MAX_VOISINS /\ ~ k < i'
  <2>1. /\ k \in DOMAIN voisins /\ k \in Nat \ {0}
        /\ k < i
        /\ voisins[k].skipped \in Nat
    BY <1>1, <1>4, ArrayFacts DEF EndRound
  <2>2. /\ k + voisins[k].skipped <= MAX_VOISINS
        /\ Inactive(voisins[k]) => k + voisins[k].skipped < MAX_VOISINS
    BY <2>1 DEF IInv, Places
  <2>. QED
    BY <1>1, <1>2, <2>1, <2>2, LimitAssumption
<1>6. Places'
  BY <1>5 DEF Places
<1>. QED
  BY <1>1, <1>4, <1>6 DEF IInv, TypeOK

LEMMA ReceiveKeepsIInv ==
  ASSUME IInv, NEW a \in Addr, Receive(a)
  PROVE  IInv'
<1>1. /\ IsArray(voisins)
      /\ StartTypeOK'
      /\ elapsed' \in 0 .. ROUND
      /\ i = 1 /\ i' = i
      /\ Calm'
  BY DEF IInv, TypeOK, Receive, startVars, StartTypeOK, Calm
<1>2. CASE a \in AddrIn(voisins)
  <2>1. voisins' = Renew(voisins, a)
    BY <1>2 DEF Receive
  <2>2. \A k \in DOMAIN voisins :
          /\ voisins'[k] \in Neighbour
          /\ voisins'[k].addr = voisins[k].addr
          /\ voisins'[k].skipped \in {0, voisins[k].skipped}
    <3>1. SUFFICES ASSUME NEW k \in DOMAIN voisins
                   PROVE  /\ voisins'[k] \in Neighbour
                          /\ voisins'[k].addr = voisins[k].addr
                          /\ voisins'[k].skipped \in {0, voisins[k].skipped}
      OBVIOUS
    <3>2. voisins[k] \in Neighbour
      BY <1>1, ArrayFacts
    <3>3. voisins'[k] \in {voisins[k], [voisins[k] EXCEPT !.silent = 0, !.skipped = 0]}
      BY <2>1 DEF Renew
    <3>5. CASE voisins'[k] = voisins[k]
      BY <3>2, <3>5
    <3>6. CASE voisins'[k] = [voisins[k] EXCEPT !.silent = 0, !.skipped = 0]
      BY <3>2, <3>6, RenewedFacts
    <3>. QED
      BY <3>3, <3>5, <3>6
  <2>3. voisins' = [k \in DOMAIN voisins |-> voisins'[k]]
    BY <2>1 DEF Renew
  <2>4. IsArray(voisins') /\ DOMAIN voisins' = DOMAIN voisins
    BY <2>2, <2>3, MapKeepsArray
  <2>5. Places'
    <3>1. ASSUME NEW k \in DOMAIN voisins'
          PROVE  k + voisins'[k].skipped <= MAX_VOISINS /\ ~ k < i'
      <4>1. /\ k \in DOMAIN voisins /\ k \in Nat \ {0} /\ k <= MAX_VOISINS
            /\ voisins[k].skipped \in Nat
        BY <1>1, <2>4, ArrayFacts, LimitAssumption
      <4>2. k + voisins[k].skipped <= MAX_VOISINS
        BY <4>1 DEF IInv, Places
      <4>. QED
        BY <1>1, <2>2, <4>1, <4>2, LimitAssumption
    <3>. QED
      BY <3>1 DEF Places
  <2>. QED
    BY <1>1, <2>4, <2>5 DEF IInv, TypeOK
<1>3. CASE a \notin AddrIn(voisins)
  <2>1. IsArray(voisins') /\ Places'
    BY <1>1, <1>3, AddKeepsPlaces DEF Receive
  <2>. QED
    BY <1>1, <2>1 DEF IInv, TypeOK
<1>. QED
  BY <1>2, <1>3

LEMMA NextKeepsIInv == IInv /\ [Next]_allVars => IInv'
<1>. SUFFICES ASSUME IInv, [Next]_allVars PROVE IInv'
  OBVIOUS
<1>1. CASE Starting /\ UNCHANGED i
  BY <1>1, StartKeepsIInv
<1>2. CASE Tick
  BY <1>2, TickKeepsIInv
<1>3. CASE RemoveVoisinsInactifs
  BY <1>3, RemoveKeepsIInv
<1>4. CASE EndRound
  BY <1>4, EndRoundKeepsIInv
<1>5. CASE \E a \in Addr : Receive(a)
  BY <1>5, ReceiveKeepsIInv
<1>6. CASE UNCHANGED allVars
  BY <1>6
  DEF IInv, TypeOK, StartTypeOK, Places, Calm, Inactive, allVars, vars, startVars
<1>. QED
  BY <1>1, <1>2, <1>3, <1>4, <1>5, <1>6 DEF Next, Ended

-----------------------------------------------------------------------------
(* The theorems.                                                           *)

\* The invariant, for any number of places.
THEOREM NeighboursInvariant == Spec => []IInv
<1>. QED
  BY InitIInv, NextKeepsIInv, PTL DEF Spec

\* The array has at most MAX_VOISINS neighbours, each at one place.
THEOREM ArrayTypeCorrect == Spec => []TypeOK
<1>1. IInv => TypeOK
  BY DEF IInv
<1>. QED
  BY <1>1, NeighboursInvariant, PTL

\* A neighbour that is due is missed at most MAX_VOISINS - 1 times.
THEOREM GoneInTimeHolds == Spec => []GoneInTime
<1>1. IInv => GoneInTime
  BY DEF IInv, Places, GoneInTime
<1>. QED
  BY <1>1, NeighboursInvariant, PTL

-----------------------------------------------------------------------------
(* The array implements the set.                                           *)

LEMMA SameCardinality ==
  ASSUME NEW S
  PROVE  Table!Cardinality(S) = Cardinality(S)
BY DEF Table!Cardinality, Cardinality

\* An array holds at most as many addresses as it has places.
LEMMA ArrayCardinality ==
  ASSUME NEW v, IsArray(v)
  PROVE  Table!Cardinality(AddrIn(v)) <= MAX_VOISINS
<1>. DEFINE f == [k \in 1 .. Len(v) |-> v[k].addr]
<1>1. f \in Surjection(1 .. Len(v), AddrIn(v))
  BY ArrayFacts DEF Surjection, AddrIn
<1>2. Cardinality(AddrIn(v)) <= Len(v)
  BY <1>1, ArrayFacts, FS_SurjCardinalityBound DEF ExistsSurjection
<1>3. Cardinality(AddrIn(v)) \in Nat
  <2>1. IsFiniteSet(AddrIn(v))
    BY <1>1, ArrayFacts, FS_Interval, FS_Surjection
  <2>. QED
    BY <2>1, FS_CardinalityType
<1>. QED
  BY <1>2, <1>3, SameCardinality, ArrayFacts, LimitAssumption

\* Neither the permanent nor the silent ones change, where all elements agree.
LEMMA SameSets ==
  ASSUME DOMAIN voisins' = DOMAIN voisins,
         \A k \in DOMAIN voisins :
           /\ voisins'[k].addr = voisins[k].addr
           /\ voisins'[k].permanent = voisins[k].permanent
  PROVE  /\ AddrIn(voisins') = AddrIn(voisins)
         /\ PermanentIn(voisins') = PermanentIn(voisins)
BY DEF AddrIn, PermanentIn

\* What one more element adds to the three sets.
LEMMA AppendSets ==
  ASSUME NEW v, NEW w, NEW n,
         DOMAIN w = DOMAIN v \cup {n},
         \A k \in DOMAIN v : w[k] = v[k],
         w[n].silent # SILENCE
  PROVE  /\ AddrIn(w) = AddrIn(v) \cup {w[n].addr}
         /\ PermanentIn(v) \subseteq PermanentIn(w)
         /\ PermanentIn(w) \subseteq PermanentIn(v) \cup {w[n].addr}
         /\ SilentIn(w) \subseteq SilentIn(v)
<1>1. AddrIn(w) = AddrIn(v) \cup {w[n].addr}
  BY DEF AddrIn
<1>2. PermanentIn(v) \subseteq PermanentIn(w)
  BY DEF PermanentIn
<1>3. PermanentIn(w) \subseteq PermanentIn(v) \cup {w[n].addr}
  BY DEF PermanentIn
<1>4. SilentIn(w) \subseteq SilentIn(v)
  BY DEF SilentIn
<1>. QED
  BY <1>1, <1>2, <1>3, <1>4

\* addVoisin is Add.
LEMMA AddImplements ==
  ASSUME IInv, UNCHANGED found, NEW a \in Addr, NEW p \in BOOLEAN,
         voisins' = AddVoisin(voisins, Voisin(a, p))
  PROVE  Table!Add
<1>1. /\ IsArray(voisins) /\ IsArray(voisins')
      /\ mySelf' = mySelf
  BY AddVoisinFacts DEF IInv, TypeOK, mySelf
<1>2. Table!Cardinality(AddrIn(voisins')) <= MAX_VOISINS
  BY <1>1, ArrayCardinality
<1>3. CASE voisins' = voisins
  <2>1. /\ AddrIn(voisins') = AddrIn(voisins)
        /\ PermanentIn(voisins') = PermanentIn(voisins)
        /\ SilentIn(voisins') = SilentIn(voisins)
    BY <1>3
  <2>. QED
    BY <1>1, <1>2, <2>1 DEF Table!Add
<1>4. CASE /\ Len(voisins') = Len(voisins) + 1
           /\ \A k \in 1 .. Len(voisins) : voisins'[k] = voisins[k]
           /\ voisins'[Len(voisins')] = Voisin(a, p)
           /\ a \notin mySelf
  <2>. DEFINE n == Len(voisins')
  <2>1. /\ DOMAIN voisins = 1 .. Len(voisins)
        /\ DOMAIN voisins' = 1 .. n
        /\ Len(voisins) \in Nat
        /\ n = Len(voisins) + 1
    BY <1>1, <1>4, ArrayFacts
  <2>2. /\ voisins'[n].addr = a
        /\ voisins'[n].silent # SILENCE
    BY <1>4, ClockAssumption DEF Voisin
  <2>3. \A k \in DOMAIN voisins : voisins'[k] = voisins[k]
    BY <1>4, <2>1
  <2>. HIDE DEF n
  <2>4. DOMAIN voisins' = DOMAIN voisins \cup {n} /\ n \notin DOMAIN voisins
    BY <2>1
  <2>5. /\ AddrIn(voisins') = AddrIn(voisins) \cup {a}
        /\ PermanentIn(voisins) \subseteq PermanentIn(voisins')
        /\ PermanentIn(voisins') \subseteq PermanentIn(voisins) \cup {a}
        /\ SilentIn(voisins') \subseteq SilentIn(voisins)
    BY <2>2, <2>3, <2>4, AppendSets
  <2>6. a \notin AddrIn(voisins)
    BY <1>1, <2>2, <2>3, <2>4 DEF AddrIn, IsArray
  <2>. QED
    BY <1>1, <1>2, <1>4, <2>5, <2>6 DEF Table!Add
<1>. QED
  BY <1>1, <1>3, <1>4, AddVoisinFacts

\* removeVoisinsInactifs, one place of it, is Forget.
LEMMA RemoveImplements ==
  ASSUME IInv, RemoveVoisinsInactifs, Inactive(voisins[i])
  PROVE  Table!Forget
<1>1. /\ IsArray(voisins)
      /\ i \in DOMAIN voisins
      /\ DOMAIN voisins = 1 .. Len(voisins)
      /\ Len(voisins) \in Nat
      /\ voisins' = Without(voisins, i)
      /\ mySelf' = mySelf
  BY ArrayFacts
  DEF IInv, TypeOK, RemoveVoisinsInactifs, startVars, mySelf
<1>2. /\ DOMAIN voisins' = 1 .. Len(voisins) - 1
      /\ \A j \in DOMAIN voisins' :
           voisins'[j] = IF j = i THEN voisins[Len(voisins)] ELSE voisins[j]
  <2>1. i \in 1 .. Len(voisins)
    BY <1>1
  <2>2. ASSUME NEW w, w = Without(voisins, i)
        PROVE  /\ DOMAIN w = 1 .. Len(voisins) - 1
               /\ \A j \in DOMAIN w :
                    w[j] = IF j = i THEN voisins[Len(voisins)] ELSE voisins[j]
    BY <1>1, <2>1, <2>2, WithoutFacts, SMTT(30)
  <2>. QED
    BY <1>1, <2>2
\* Who is left is who was there, but at i.
<1>3. \A j \in DOMAIN voisins' : \E k \in DOMAIN voisins : k # i /\ voisins'[j] = voisins[k]
  BY <1>1, <1>2
<1>4. \A k \in DOMAIN voisins : k # i => \E j \in DOMAIN voisins' : voisins'[j] = voisins[k]
  <2>1. SUFFICES ASSUME NEW k \in DOMAIN voisins, k # i
                 PROVE  \E j \in DOMAIN voisins' : voisins'[j] = voisins[k]
    OBVIOUS
  <2>2. CASE k = Len(voisins)
    <3>1. i \in DOMAIN voisins' /\ voisins'[i] = voisins[k]
      BY <1>1, <1>2, <2>1, <2>2
    <3>. QED
      BY <3>1
  <2>3. CASE k # Len(voisins)
    <3>1. k \in DOMAIN voisins' /\ voisins'[k] = voisins[k]
      BY <1>1, <1>2, <2>1, <2>3
    <3>. QED
      BY <3>1
  <2>. QED
    BY <2>2, <2>3
<1>5. \A j, k \in DOMAIN voisins : voisins[j].addr = voisins[k].addr => j = k
  BY <1>1 DEF IsArray
<1>6. ~ voisins[i].permanent /\ voisins[i].silent = SILENCE
  BY <1>1, ArrayFacts, ClockAssumption DEF Inactive
<1>. DEFINE gone == voisins[i].addr
<1>7. AddrIn(voisins') = AddrIn(voisins) \ {gone}
  BY <1>1, <1>3, <1>4, <1>5 DEF AddrIn
<1>8. PermanentIn(voisins') = PermanentIn(voisins) /\ gone \notin PermanentIn(voisins)
  BY <1>1, <1>3, <1>4, <1>5, <1>6 DEF PermanentIn
<1>9. SilentIn(voisins') = SilentIn(voisins) \ {gone} /\ gone \in SilentIn(voisins)
  BY <1>1, <1>3, <1>4, <1>5, <1>6 DEF SilentIn
<1>10. SilentIn(voisins) \subseteq AddrIn(voisins)
  BY DEF SilentIn, AddrIn
<1>. QED
  BY <1>1, <1>7, <1>8, <1>9, <1>10 DEF Table!Forget

abstractVars == <<AddrIn(voisins), PermanentIn(voisins), SilentIn(voisins), mySelf>>

LEMMA StepImplements ==
  ASSUME IInv, [Next]_allVars
  PROVE  Table!Next \/ UNCHANGED abstractVars
<1>. USE DEF Table!Next
<1>1. CASE Starting /\ UNCHANGED i
  <2>1. StartTypeOK
    BY DEF IInv, TypeOK
  <2>2. CASE AddResult
    <3>1. Head(results) \in Addr
      BY <2>1, <2>2, HeadTailProperties DEF AddResult, StartTypeOK
    <3>. QED
      BY <2>2, <3>1, AddImplements DEF AddResult, NamesStep
  <2>3. CASE voisins' = voisins /\ found' = found
    BY <2>3 DEF abstractVars, AddrIn, PermanentIn, SilentIn, mySelf
  <2>4. CASE voisins' = voisins /\ at = "read"
    <3>1. voisins = <<>>
      BY <2>4 DEF IInv, Calm
    <3>2. mySelf \subseteq mySelf'
      BY <1>1, <2>1, <2>4, StartFacts DEF mySelf, StartTypeOK
    <3>3. AddrIn(voisins) = {} /\ AddrIn(voisins') = {}
      BY <2>4, <3>1 DEF AddrIn
    <3>. QED
      BY <2>4, <3>2, <3>3 DEF Table!Learn, PermanentIn, SilentIn
  <2>5. AddResult => found' = found
    BY DEF AddResult, NamesStep
  <2>. QED
    BY <1>1, <2>1, <2>2, <2>3, <2>4, <2>5, StartFacts
<1>2. CASE Tick
  <2>1. IsArray(voisins) /\ mySelf' = mySelf
    BY <1>2 DEF IInv, TypeOK, Tick, startVars, mySelf
  <2>2. /\ DOMAIN voisins' = DOMAIN voisins
        /\ \A k \in DOMAIN voisins :
             /\ voisins'[k].addr = voisins[k].addr
             /\ voisins'[k].permanent = voisins[k].permanent
             /\ voisins[k].silent = SILENCE => voisins'[k].silent = SILENCE
    <3>1. \A k \in DOMAIN voisins : voisins[k] \in Neighbour
      BY <2>1, ArrayFacts
    <3>. QED
      BY <1>2, <3>1, ClockAssumption DEF Tick, Neighbour
  <2>3. SilentIn(voisins) \subseteq SilentIn(voisins')
    BY <2>2 DEF SilentIn
  <2>. QED
    BY <2>1, <2>2, <2>3, SameSets DEF Table!Wait
<1>3. CASE RemoveVoisinsInactifs
  <2>1. CASE Inactive(voisins[i])
    BY <1>3, <2>1, RemoveImplements
  <2>2. CASE ~ Inactive(voisins[i])
    BY <1>3, <2>2
    DEF RemoveVoisinsInactifs, startVars, abstractVars, AddrIn, PermanentIn, SilentIn, mySelf
  <2>. QED
    BY <2>1, <2>2
<1>4. CASE EndRound
  <2>1. IsArray(voisins) /\ mySelf' = mySelf
    BY <1>4 DEF IInv, TypeOK, EndRound, startVars, mySelf
  <2>2. /\ DOMAIN voisins' = DOMAIN voisins
        /\ \A k \in DOMAIN voisins :
             /\ voisins'[k].addr = voisins[k].addr
             /\ voisins'[k].permanent = voisins[k].permanent
             /\ voisins'[k].silent = voisins[k].silent
    <3>1. \A k \in DOMAIN voisins : voisins[k] \in Neighbour
      BY <2>1, ArrayFacts
    <3>. QED
      BY <1>4, <3>1 DEF EndRound, Neighbour
  <2>3. SilentIn(voisins') = SilentIn(voisins)
    BY <2>2 DEF SilentIn
  <2>. QED
    BY <2>1, <2>2, <2>3, SameSets DEF abstractVars
<1>5. ASSUME NEW a \in Addr, Receive(a)
      PROVE  Table!Next
  <2>1. CASE a \in AddrIn(voisins)
    <3>1. /\ IsArray(voisins) /\ mySelf' = mySelf
          /\ voisins' = Renew(voisins, a)
      BY <1>5, <2>1 DEF IInv, TypeOK, Receive, startVars, mySelf
    <3>2. /\ DOMAIN voisins' = DOMAIN voisins
          /\ \A k \in DOMAIN voisins :
               /\ voisins'[k].addr = voisins[k].addr
               /\ voisins'[k].permanent = voisins[k].permanent
               /\ voisins'[k].silent = SILENCE => voisins[k].silent = SILENCE
      <4>1. \A k \in DOMAIN voisins : voisins[k] \in Neighbour
        BY <3>1, ArrayFacts
      <4>. QED
        BY <3>1, <4>1, ClockAssumption DEF Renew, Neighbour
    <3>3. SilentIn(voisins') \subseteq SilentIn(voisins)
      BY <3>2 DEF SilentIn
    <3>4. Table!Cardinality(AddrIn(voisins)) <= MAX_VOISINS
      BY <3>1, ArrayCardinality
    <3>. QED
      BY <3>1, <3>2, <3>3, <3>4, SameSets DEF Table!Add
  <2>2. CASE a \notin AddrIn(voisins)
    <3>1. found' = found /\ voisins' = AddVoisin(voisins, Voisin(a, FALSE))
      BY <1>5, <2>2 DEF Receive, startVars
    <3>2. Table!Add
      BY <3>1, AddImplements
    <3>. QED
      BY <3>2
  <2>. QED
    BY <2>1, <2>2
<1>6. CASE UNCHANGED allVars
  BY <1>6
  DEF allVars, vars, startVars, abstractVars, AddrIn, PermanentIn, SilentIn, mySelf
<1>. QED
  BY <1>1, <1>2, <1>3, <1>4, <1>5, <1>6 DEF Next, Ended

\* What Flooding takes the neighbours to be is what the array is.
THEOREM ImplementsHolds == Spec => Implements
<1>1. Init => Table!Init
  BY AddrAssumption
  DEF Init, StartInit, Table!Init, AddrIn, PermanentIn, SilentIn, mySelf
<1>2. IInv /\ [Next]_allVars => Table!Next \/ UNCHANGED abstractVars
  BY StepImplements
<1>. QED
  BY <1>1, <1>2, NeighboursInvariant, PTL DEF Spec, Implements, Table!Spec, abstractVars
=============================================================================
