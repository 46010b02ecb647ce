-------------------------- MODULE EventLoopProofs --------------------------
(***************************************************************************)
(* What the run MCEventLoop shows of one neighbour and three Ids, proved   *)
(* for all neighbours, Ids, sizes of TLVs and datagrams.                   *)
(***************************************************************************)
EXTENDS EventLoop, SequenceLemmas, TLAPS

-----------------------------------------------------------------------------
(* The length of a packet.                                                 *)

\* A TLV has a type field and a size, and fits an empty packet.
LEMMA TlvFacts ==
  ASSUME NEW x \in Tlv
  PROVE  /\ x.type \in DOMAIN Number
         /\ Number[x.type] \in Nat
         /\ Size[x.type] \in Nat
         /\ Size[x.type] <= MAX_BODY
<1>1. x.type \in DOMAIN Number /\ Number[x.type] \in Nat
  BY DEF Tlv, Plain, WithId, Number
<1>. QED
  BY <1>1, SizeAssumption

LEMMA BodyLengthFacts ==
  ASSUME NEW c \in Seq(Entries)
  PROVE  \E sum \in [0 .. Len(c) -> Nat] :
           /\ sum[0] = 0
           /\ \A k \in 1 .. Len(c) : sum[k] = sum[k - 1] + Size[c[k].tlv.type]
           /\ BodyLength(c) = sum[Len(c)]
<1>. DEFINE n == Len(c)
            A == Nat
            F == [x \in A \X (1 .. n) |-> x[1] + Size[c[x[2]].tlv.type]]
<1>1. n \in Nat /\ \A k \in 1 .. n : Size[c[k].tlv.type] \in Nat
  <2>1. n \in Nat /\ \A k \in 1 .. n : c[k] \in Entries
    BY SeqFacts
  <2>2. \A e \in Entries : e.tlv \in Tlv
    BY DEF Entries
  <2>. QED
    BY <2>1, <2>2, TlvFacts
<1>. HIDE DEF n
<1>2. F \in [A \X (1 .. n) -> A]
  BY <1>1
<1>3. PICK f : Iterates(f, A, 0, n, F)
  <2>1. 0 \in A
    OBVIOUS
  <2>. HIDE DEF F, A
  <2>. QED
    BY <1>1, <1>2, <2>1, Recursion
<1>4. ASSUME NEW k \in 1 .. n PROVE f[k] = f[k - 1] + Size[c[k].tlv.type]
  <2>1. <<f[k - 1], k>> \in A \X (1 .. n)
    BY <1>1, <1>3 DEF Iterates
  <2>. QED
    BY <1>3, <2>1 DEF Iterates
<1>5. f = [k \in 0 .. n |->
             IF k = 0 THEN 0 ELSE f[k - 1] + Size[c[k].tlv.type]]
  <2>1. f \in [0 .. n -> A] /\ f[0] = 0
    BY <1>3 DEF Iterates
  <2>. QED
    BY <1>1, <1>4, <2>1
<1>. DEFINE sum == CHOOSE sum : sum = [k \in 0 .. n |->
                     IF k = 0 THEN 0 ELSE sum[k - 1] + Size[c[k].tlv.type]]
<1>6. sum = [k \in 0 .. n |->
               IF k = 0 THEN 0 ELSE sum[k - 1] + Size[c[k].tlv.type]]
  BY <1>5
<1>7. BodyLength(c) = sum[n]
  BY DEF BodyLength, n
<1>. HIDE DEF sum
<1>8. sum[0] = 0 /\ \A k \in 1 .. n : sum[k] = sum[k - 1] + Size[c[k].tlv.type]
  BY <1>1, <1>6
<1>9. \A k \in 0 .. n : sum[k] \in Nat
  <2>1. ASSUME NEW k \in 1 .. n, sum[k - 1] \in A PROVE sum[k] \in A
    <3>1. Size[c[k].tlv.type] \in Nat
      BY <1>1
    <3>. QED
      BY <1>8, <2>1, <3>1
  <2>2. sum[0] \in A
    BY <1>8
  <2>. HIDE DEF A
  <2>3. \A k \in 0 .. n : sum[k] \in A
    BY <1>1, <2>1, <2>2, StaysIn
  <2>. QED
    BY <2>3 DEF A
<1>10. sum \in [0 .. n -> Nat]
  BY <1>6, <1>9
<1>. QED
  BY <1>7, <1>8, <1>10 DEF n

LEMMA BodyLengthEmpty == BodyLength(<<>>) = 0
<1>1. <<>> \in Seq(Entries) /\ Len(<<>>) = 0
  OBVIOUS
<1>2. PICK sum \in [0 .. 0 -> Nat] : sum[0] = 0 /\ BodyLength(<<>>) = sum[0]
  BY <1>1, BodyLengthFacts
<1>. QED
  BY <1>2

LEMMA BodyLengthInsert ==
  ASSUME NEW c \in Seq(Entries), NEW e \in Entries, NEW i \in 1 .. Len(c) + 1
  PROVE  /\ BodyLength(InsertAt(c, i, e)) = BodyLength(c) + Size[e.tlv.type]
         /\ BodyLength(c) \in Nat
<1>. DEFINE d == InsertAt(c, i, e)
            z(x) == Size[x.tlv.type]
            sizes(x) == [k \in 1 .. Len(x) |-> z(x[k])]
<1>1. d \in Seq(Entries) /\ Inserted(d, c, i, e)
  BY InsertAtFacts
<1>2. \A x \in Entries : z(x) \in Nat
  BY TlvFacts DEF Entries
<1>. HIDE DEF d, z
<1>3. ASSUME NEW x \in Seq(Entries)
      PROVE  /\ sizes(x) \in Seq(Nat) /\ Len(sizes(x)) = Len(x)
             /\ \A k \in 1 .. Len(x) : sizes(x)[k] = z(x[k])
  <2>1. Len(x) \in Nat /\ \A k \in 1 .. Len(x) : x[k] \in Entries
    BY SeqFacts
  <2>. QED
    BY <1>2, <2>1
<1>4. ASSUME NEW x \in Seq(Entries)
      PROVE  \E s : IsSum(s, sizes(x)) /\ BodyLength(x) = s[Len(x)]
  <2>1. PICK s \in [0 .. Len(x) -> Nat] :
          /\ s[0] = 0
          /\ \A k \in 1 .. Len(x) : s[k] = s[k - 1] + z(x[k])
          /\ BodyLength(x) = s[Len(x)]
    BY BodyLengthFacts DEF z
  <2>. HIDE DEF sizes
  <2>. QED
    BY <1>3, <2>1 DEF IsSum
<1>5. Inserted(sizes(d), sizes(c), i, z(e))
  <2>1. /\ Len(d) = Len(c) + 1 /\ Len(c) \in Nat /\ i \in 1 .. Len(c) + 1
        /\ \A k \in 1 .. Len(c) + 1 : d[k] = IF k < i THEN c[k]
                                          ELSE IF k = i THEN e ELSE c[k - 1]
    BY <1>1, SeqFacts DEF Inserted
  <2>2. ASSUME NEW k \in 1 .. Len(c) + 1
        PROVE  sizes(d)[k] = IF k < i THEN sizes(c)[k]
                             ELSE IF k = i THEN z(e) ELSE sizes(c)[k - 1]
    <3>1. sizes(d)[k] = z(d[k])
      BY <2>1
    <3>2. CASE k < i
      BY <2>1, <3>1, <3>2
    <3>3. CASE k = i
      BY <2>1, <3>1, <3>3
    <3>4. CASE k > i
      <4>1. k - 1 \in 1 .. Len(c)
        BY <2>1, <3>4
      <4>. QED
        BY <2>1, <3>1, <3>4, <4>1
    <3>. QED
      BY <2>1, <3>2, <3>3, <3>4
  <2>3. Len(sizes(d)) = Len(sizes(c)) + 1 /\ Len(sizes(c)) = Len(c)
    BY <1>1, <1>3, <2>1
  <2>. HIDE DEF sizes
  <2>. QED
    BY <2>2, <2>3 DEF Inserted
<1>6. PICK s : IsSum(s, sizes(c)) /\ BodyLength(c) = s[Len(c)]
  BY <1>4
<1>7. PICK t : IsSum(t, sizes(d)) /\ BodyLength(d) = t[Len(d)]
  BY <1>1, <1>4
<1>8. /\ sizes(c) \in Seq(Nat) /\ Len(sizes(c)) = Len(c) /\ Len(c) \in Nat
      /\ sizes(d) \in Seq(Nat) /\ Len(sizes(d)) = Len(d)
      /\ z(e) \in Nat
  BY <1>1, <1>2, <1>3, SeqFacts
<1>. HIDE DEF sizes
<1>9. t[Len(d)] = s[Len(c)] + z(e)
  BY <1>5, <1>6, <1>7, <1>8, SumInserted
<1>10. s[Len(c)] \in Nat
  <2>1. s \in [0 .. Len(c) -> Nat]
    BY <1>6, <1>8 DEF IsSum
  <2>2. Len(c) \in 0 .. Len(c)
    BY <1>8
  <2>. QED
    BY <2>1, <2>2
<1>. QED
  BY <1>6, <1>7, <1>9, <1>10 DEF d, z

-----------------------------------------------------------------------------
(* addTLV.                                                                 *)

LEMMA PlaceFacts ==
  ASSUME NEW c \in Seq(Entries), NEW e \in Entries
  PROVE  /\ Place(c, e) \in 1 .. Len(c) + 1
         /\ Place(c, e) <= Len(c) =>
              Number[c[Place(c, e)].tlv.type] < Number[e.tlv.type]
         /\ \A k \in 1 .. Len(c) :
              k < Place(c, e) =>
                ~ (Number[c[k].tlv.type] < Number[e.tlv.type])
<1>. DEFINE S == {Len(c) + 1} \cup
       {k \in DOMAIN c : Number[c[k].tlv.type] < Number[e.tlv.type]}
<1>1. Len(c) \in Nat /\ DOMAIN c = 1 .. Len(c)
  BY SeqFacts
<1>. DEFINE less(k) == Number[c[k].tlv.type] < Number[e.tlv.type]
<1>. HIDE DEF less
<1>2. S \in SUBSET Nat /\ S # {}
  BY <1>1
<1>3. Min(S) \in S /\ \A y \in S : Min(S) <= y
  <2>. HIDE DEF S
  <2>. QED
    BY <1>2, MinFacts
<1>4. Place(c, e) = Min(S)
  BY DEF Place
<1>. DEFINE q == Min(S)
<1>. HIDE DEF q
<1>5. q \in S /\ \A y \in S : q <= y
  BY <1>3 DEF q
<1>6. S = {Len(c) + 1} \cup {k \in DOMAIN c : less(k)}
  BY DEF less
<1>. HIDE DEF S
<1>7. /\ q \in 1 .. Len(c) + 1
      /\ q <= Len(c) => less(q)
      /\ \A k \in 1 .. Len(c) : k < q => ~ less(k)
  BY <1>1, <1>5, <1>6
<1>. QED
  BY <1>4, <1>7 DEF q, less

LEMMA AddTLVFacts ==
  ASSUME NEW c \in Seq(Entries), NEW e \in Entries
  PROVE  /\ AddTLV(c, e) \in Seq(Entries)
         /\ \A k \in DOMAIN AddTLV(c, e) :
              \/ AddTLV(c, e)[k] = e
              \/ \E j \in DOMAIN c : AddTLV(c, e)[k] = c[j]
         /\ \A j \in DOMAIN c :
              \E k \in DOMAIN AddTLV(c, e) : AddTLV(c, e)[k] = c[j]
         /\ Has(AddTLV(c, e), e.tlv)
         /\ BodyLength(c) \in Nat
         /\ BodyLength(AddTLV(c, e)) \in Nat
         /\ BodyLength(AddTLV(c, e)) <= BodyLength(c) + Size[e.tlv.type]
<1>. DEFINE i == Place(c, e)
            d == InsertAt(c, i, e)
            n == Len(c)
<1>1. i \in 1 .. n + 1
  BY PlaceFacts
<1>2. n \in Nat /\ DOMAIN c = 1 .. n
  BY SeqFacts
<1>3. /\ BodyLength(d) = BodyLength(c) + Size[e.tlv.type]
      /\ BodyLength(c) \in Nat
      /\ Size[e.tlv.type] \in Nat
  BY <1>1, BodyLengthInsert, TlvFacts DEF Entries
<1>4. CASE Has(c, e.tlv)
  <2>1. AddTLV(c, e) = c
    BY <1>4 DEF AddTLV
  <2>. QED
    BY <1>3, <1>4, <2>1
<1>5. CASE ~ Has(c, e.tlv)
  <2>1. AddTLV(c, e) = d
    BY <1>5 DEF AddTLV, Insert
  <2>2. /\ d \in Seq(Entries)
        /\ Len(d) = n + 1
        /\ \A k \in 1 .. n + 1 : d[k] = IF k < i THEN c[k]
                                        ELSE IF k = i THEN e ELSE c[k - 1]
    <3>1. d \in Seq(Entries) /\ Inserted(d, c, i, e)
      BY <1>1, InsertAtFacts
    <3>. QED
      BY <3>1 DEF Inserted
  <2>3. DOMAIN d = 1 .. n + 1
    BY <2>2, SeqFacts
  <2>. HIDE DEF d, i, n
  <2>4. ASSUME NEW k \in DOMAIN d PROVE d[k] = e \/ \E j \in DOMAIN c : d[k] = c[j]
    <3>1. CASE k < i
      <4>1. k \in DOMAIN c /\ d[k] = c[k]
        BY <1>1, <1>2, <2>2, <2>3, <3>1
      <4>. QED
        BY <4>1
    <3>2. CASE k = i
      BY <2>2, <2>3, <3>2
    <3>3. CASE k > i
      <4>1. k - 1 \in DOMAIN c /\ d[k] = c[k - 1]
        BY <1>1, <1>2, <2>2, <2>3, <3>3
      <4>. QED
        BY <4>1
    <3>. QED
      BY <1>1, <1>2, <2>3, <3>1, <3>2, <3>3
  <2>5. ASSUME NEW j \in DOMAIN c PROVE \E k \in DOMAIN d : d[k] = c[j]
    <3>1. CASE j < i
      <4>1. j \in DOMAIN d /\ d[j] = c[j]
        BY <1>1, <1>2, <2>2, <2>3, <3>1
      <4>. QED
        BY <4>1
    <3>2. CASE j >= i
      <4>1. j + 1 \in DOMAIN d /\ d[j + 1] = c[j]
        BY <1>1, <1>2, <2>2, <2>3, <3>2
      <4>. QED
        BY <4>1
    <3>. QED
      BY <1>1, <1>2, <3>1, <3>2
  <2>6. i \in DOMAIN d /\ d[i].tlv = e.tlv
    BY <1>1, <1>2, <2>2, <2>3
  <2>7. Has(d, e.tlv)
    BY <2>6 DEF Has
  <2>. QED
    BY <1>3, <2>1, <2>2, <2>4, <2>5, <2>7
<1>. QED
  BY <1>4, <1>5

\* By descending type, and no TLV twice.
Ordered(c) ==
  \A j \in DOMAIN c, k \in DOMAIN c :
    j < k => /\ Number[c[j].tlv.type] >= Number[c[k].tlv.type]
             /\ c[j].tlv # c[k].tlv

LEMMA AddTLVOrdered ==
  ASSUME NEW c \in Seq(Entries), NEW e \in Entries, Ordered(c)
  PROVE  Ordered(AddTLV(c, e))
<1>. DEFINE i == Place(c, e)
            d == InsertAt(c, i, e)
            n == Len(c)
            z(x) == Number[x.tlv.type]
<1>1. n \in Nat /\ DOMAIN c = 1 .. n /\ i \in 1 .. n + 1
  BY SeqFacts, PlaceFacts
<1>2. z(e) \in Nat /\ \A k \in 1 .. n : c[k] \in Entries /\ z(c[k]) \in Nat
  <2>1. \A x \in Entries : z(x) \in Nat
    BY TlvFacts DEF Entries
  <2>2. \A k \in 1 .. n : c[k] \in Entries
    BY SeqFacts
  <2>. QED
    BY <2>1, <2>2
<1>3. /\ i <= n => z(c[i]) < z(e)
      /\ \A k \in 1 .. n : k < i => ~ (z(c[k]) < z(e))
  BY PlaceFacts
<1>4. CASE Has(c, e.tlv)
  BY <1>4 DEF AddTLV
<1>5. CASE ~ Has(c, e.tlv)
  <2>1. AddTLV(c, e) = d
    BY <1>5 DEF AddTLV, Insert
  <2>2. /\ d \in Seq(Entries)
        /\ Len(d) = n + 1
        /\ \A k \in 1 .. n + 1 : d[k] = IF k < i THEN c[k]
                                        ELSE IF k = i THEN e ELSE c[k - 1]
    <3>1. d \in Seq(Entries) /\ Inserted(d, c, i, e)
      BY <1>1, InsertAtFacts
    <3>. QED
      BY <3>1 DEF Inserted
  <2>3. DOMAIN d = 1 .. n + 1
    BY <2>2, SeqFacts
  <2>4. \A k \in 1 .. n : c[k].tlv # e.tlv
    BY <1>1, <1>5 DEF Has
  <2>5. \A j \in 1 .. n, k \in 1 .. n : j < k => z(c[j]) >= z(c[k]) /\ c[j].tlv # c[k].tlv
    BY <1>1 DEF Ordered
  <2>. HIDE DEF d, i, n, z
  <2>6. ASSUME NEW k \in 1 .. n PROVE IF k < i THEN z(c[k]) >= z(e) ELSE z(e) >= z(c[k])
    <3>1. CASE k < i
      BY <1>2, <1>3, <3>1
    <3>2. CASE k = i
      BY <1>1, <1>2, <1>3, <3>2
    <3>3. CASE k > i
      <4>1. i \in 1 .. n /\ z(c[i]) < z(e) /\ z(c[i]) >= z(c[k])
        BY <1>1, <1>3, <2>5, <3>3
      <4>. QED
        BY <1>1, <1>2, <3>3, <4>1
    <3>. QED
      BY <1>1, <3>1, <3>2, <3>3
  <2>7. ASSUME NEW j \in 1 .. n + 1, NEW k \in 1 .. n + 1, j < k
        PROVE  z(d[j]) >= z(d[k]) /\ d[j].tlv # d[k].tlv
    <3>1. CASE k < i
      BY <1>1, <2>2, <2>5, <2>7, <3>1
    <3>2. CASE k = i
      <4>1. j \in 1 .. n /\ j < i /\ d[j] = c[j] /\ d[k] = e
        BY <1>1, <2>2, <2>7, <3>2
      <4>. QED
        BY <2>4, <2>6, <4>1
    <3>3. CASE j = i
      <4>1. k - 1 \in 1 .. n /\ ~ (k - 1 < i) /\ d[k] = c[k - 1] /\ d[j] = e
        BY <1>1, <2>2, <2>7, <3>3
      <4>. QED
        BY <2>4, <2>6, <4>1
    <3>4. CASE j < i /\ k > i
      <4>1. j \in 1 .. n /\ k - 1 \in 1 .. n /\ j < k - 1 /\ d[j] = c[j] /\ d[k] = c[k - 1]
        BY <1>1, <2>2, <2>7, <3>4
      <4>. QED
        BY <2>5, <4>1
    <3>5. CASE j > i
      <4>1. j - 1 \in 1 .. n /\ k - 1 \in 1 .. n /\ j - 1 < k - 1
            /\ d[j] = c[j - 1] /\ d[k] = c[k - 1]
        BY <1>1, <2>2, <2>7, <3>5
      <4>. QED
        BY <2>5, <4>1
    <3>. QED
      BY <1>1, <2>7, <3>1, <3>2, <3>3, <3>4, <3>5
  <2>. QED
    BY <2>1, <2>3, <2>7 DEF Ordered, z
<1>. QED
  BY <1>4, <1>5

-----------------------------------------------------------------------------
(* The memory during a step.  Sound(m, p, A, lax) is what holds of it      *)
(* while a datagram from p is handled, the requests of A having been sent  *)
(* before; lax excuses the datagrams that have the Id AnyId in them.       *)

Mem ==
  [live : SUBSET (Nat \ {0}), answer : Seq(Entries), history : Seq(Entries),
   out : SUBSET [to : Peer, tlv : Tlv, alive : BOOLEAN]]

IsRequest(e) == e.tlv.type \in Requests

\* The history: requests to neighbours, each allocated, each once.
Distinct(h, live_) ==
  /\ \A k \in DOMAIN h :
       h[k].obj \in live_ /\ IsRequest(h[k]) /\ h[k].pair \in Peer
  /\ \A j \in DOMAIN h, k \in DOMAIN h : h[j].obj = h[k].obj => j = k
  /\ \A j \in DOMAIN h, k \in DOMAIN h :
       Request(h[j]) = Request(h[k]) => j = k \/ h[k].tlv.id = AnyId

\* What the history and the answer both point to is one TLV.
Shared(m) ==
  \A j \in DOMAIN m.answer, k \in DOMAIN m.history :
    m.answer[j].obj = m.history[k].obj => m.answer[j].tlv = m.history[k].tlv

MemOK(m) ==
  /\ m \in Mem
  /\ IsFiniteSet(m.live)
  /\ BodyLength(m.answer) <= MAX_BODY
  /\ Distinct(m.history, m.live)
  /\ Shared(m)

\* Nobody is asked if there is nobody to answer.
Quiet(m, p) == p = None => \A k \in DOMAIN m.answer : ~ IsRequest(m.answer[k])

Gone(m) == {[pair |-> s.to, tlv |-> s.tlv] : s \in m.out}

\* What is remembered has gone out, or goes out with the answer.
Remembered(m, p, A) ==
  \A k \in DOMAIN m.history :
    \/ Request(m.history[k]) \in A \cup Gone(m)
    \/ p # None /\ m.history[k].pair = p /\ Has(m.answer, m.history[k].tlv)

AnswerAlive(m) ==
  \A k \in DOMAIN m.answer : IsRequest(m.answer[k]) => m.answer[k].obj \in m.live

OutAlive(m) == \A s \in m.out : s.alive

Sound(m, p, A, lax) ==
  /\ MemOK(m)
  /\ Quiet(m, p)
  /\ Remembered(m, p, A)
  /\ lax \/ (AnswerAlive(m) /\ OutAlive(m))

LEMMA MemFields ==
  ASSUME NEW m \in Mem
  PROVE  /\ m = [live |-> m.live, answer |-> m.answer, history |-> m.history,
                 out |-> m.out]
         /\ m.live \subseteq Nat \ {0}
         /\ m.answer \in Seq(Entries)
         /\ m.history \in Seq(Entries)
         /\ m.out \subseteq [to : Peer, tlv : Tlv, alive : BOOLEAN]
BY DEF Mem

LEMMA EntryFields ==
  ASSUME NEW e \in Entries
  PROVE  /\ e.tlv \in Tlv
         /\ e.obj \in Nat
         /\ e.pair \in Peer \cup {None}
         /\ e.tlv.type \in DOMAIN Number
BY TlvFacts DEF Entries

LEMMA ObjectsFinite ==
  ASSUME NEW c \in Seq(Entries)
  PROVE  IsFiniteSet(Objects(c))
<1>1. Len(c) \in Nat /\ DOMAIN c = 1 .. Len(c)
  BY SeqFacts
<1>2. IsFiniteSet(1 .. Len(c))
  BY <1>1, FS_Interval
<1>. DEFINE f == [k \in 1 .. Len(c) |-> c[k].obj]
<1>3. f \in Surjection(1 .. Len(c), Objects(c))
  BY <1>1 DEF Surjection, Objects
<1>. HIDE DEF f
<1>4. ExistsSurjection(1 .. Len(c), Objects(c))
  BY <1>3 DEF ExistsSurjection
<1>. QED
  BY <1>1, <1>4, FS_NatSurjection

\* malloc gives memory that nobody has.
LEMMA NewFacts ==
  ASSUME NEW m \in Mem, IsFiniteSet(m.live)
  PROVE  New(m) \in Nat \ {0} /\ New(m) \notin m.live \cup Objects(m.answer)
<1>. DEFINE used == m.live \cup Objects(m.answer)
            n == Cardinality(used)
<1>1. IsFiniteSet(Objects(m.answer))
  BY MemFields, ObjectsFinite
<1>2. IsFiniteSet(used)
  BY <1>1, FS_Union
<1>. HIDE DEF used
<1>3. n \in Nat
  BY <1>2, FS_CardinalityType
<1>. HIDE DEF n
<1>4. IsFiniteSet(1 .. n + 1) /\ Cardinality(1 .. n + 1) = n + 1
  <2>1. 1 \in Int /\ n + 1 \in Int /\ (n + 1) - 1 + 1 = n + 1 /\ ~ (1 > n + 1)
    BY <1>3
  <2>. QED
    BY <2>1, FS_Interval
<1>5. \E o \in 1 .. n + 1 : o \notin used
  <2>. SUFFICES ASSUME 1 .. n + 1 \subseteq used PROVE FALSE
    OBVIOUS
  <2>1. Cardinality(1 .. n + 1) <= n
    BY <1>2, FS_Subset DEF n
  <2>. QED
    BY <1>3, <1>4, <2>1
<1>6. New(m) = CHOOSE o \in 1 .. n + 1 : o \notin used
  BY DEF New, n, used
<1>7. New(m) \in 1 .. n + 1 /\ New(m) \notin used
  BY <1>5, <1>6
<1>. QED
  BY <1>3, <1>7 DEF used

\* The number of units depends on the TLVs alone.
LEMMA BodyLengthSame ==
  ASSUME NEW c \in Seq(Entries), NEW d \in Seq(Entries), Len(c) = Len(d),
         \A k \in 1 .. Len(c) : c[k].tlv = d[k].tlv
  PROVE  BodyLength(c) = BodyLength(d)
<1>. DEFINE n == Len(c)
            z(x) == Size[x.tlv.type]
<1>1. n \in Nat /\ n = Len(d) /\ \A k \in 1 .. n : z(c[k]) = z(d[k])
  BY SeqFacts
<1>2. PICK s \in [0 .. n -> Nat] :
        /\ s[0] = 0
        /\ \A k \in 1 .. n : s[k] = s[k - 1] + z(c[k])
        /\ BodyLength(c) = s[n]
  BY BodyLengthFacts
<1>3. PICK t \in [0 .. n -> Nat] :
        /\ t[0] = 0
        /\ \A k \in 1 .. n : t[k] = t[k - 1] + z(d[k])
        /\ BodyLength(d) = t[n]
  BY <1>1, BodyLengthFacts
<1>. HIDE DEF n, z
<1>. DEFINE S == {k \in Nat : k <= n => s[k] = t[k]}
<1>4. 0 \in S
  BY <1>2, <1>3
<1>5. ASSUME NEW k \in S PROVE k + 1 \in S
  <2>. SUFFICES ASSUME k + 1 <= n PROVE s[k + 1] = t[k + 1]
    OBVIOUS
  <2>1. s[k] = t[k] /\ k + 1 \in 1 .. n /\ (k + 1) - 1 = k
    BY <1>1
  <2>. QED
    BY <1>1, <1>2, <1>3, <2>1
<1>6. S = Nat
  <2>. HIDE DEF S
  <2>1. S \in SUBSET Nat
    BY DEF S
  <2>. QED
    BY <1>4, <1>5, <2>1, Induction
<1>7. s[n] = t[n]
  BY <1>1, <1>6
<1>. QED
  BY <1>2, <1>3, <1>7

\* What a packet that is sent leaves behind: the requests are not freed.
LEMMA SendAnswerSound ==
  ASSUME NEW m, NEW p \in Peer \cup {None}, NEW A, NEW lax \in BOOLEAN,
         Sound(m, p, A, lax)
  PROVE  /\ Sound(SendAnswer(m, p), p, A, lax)
         /\ SendAnswer(m, p).answer = <<>>
         /\ SendAnswer(m, p).history = m.history
         /\ m.live \ Objects(m.answer) \subseteq SendAnswer(m, p).live
         /\ m.out \subseteq SendAnswer(m, p).out
<1>. DEFINE n == SendAnswer(m, p)
            c == m.answer
<1>1. /\ m \in Mem /\ IsFiniteSet(m.live)
      /\ Distinct(m.history, m.live) /\ Shared(m)
      /\ Quiet(m, p) /\ Remembered(m, p, A)
      /\ lax \/ (AnswerAlive(m) /\ OutAlive(m))
  BY DEF Sound, MemOK
<1>2. /\ m.live \subseteq Nat \ {0}
      /\ c \in Seq(Entries) /\ m.history \in Seq(Entries)
      /\ m.out \subseteq [to : Peer, tlv : Tlv, alive : BOOLEAN]
  BY <1>1, MemFields
<1>3. DOMAIN c = 1 .. Len(c) /\ \A k \in DOMAIN c : c[k] \in Entries
  BY <1>2, SeqFacts
<1>. DEFINE L == IF p = None THEN Freed(c, DOMAIN Number) ELSE Freed(c, Frees)
            O == IF p = None THEN {} ELSE Output(m, p, c)
<1>4. n = [live |-> m.live \ L, answer |-> <<>>, history |-> m.history,
           out |-> m.out \cup O]
  <2>1. /\ m = [live |-> m.live, answer |-> m.answer, history |-> m.history,
                 out |-> m.out]
        /\ SendAnswer(m, p) = [SendPackage(m, p, c) EXCEPT !.answer = <<>>]
    BY <1>1, MemFields DEF SendAnswer
  <2>2. CASE p = None
    <3>1. SendPackage(m, p, c) = [m EXCEPT !.live = @ \ L]
      BY <2>2 DEF SendPackage
    <3>. QED
      BY <2>1, <2>2, <3>1
  <2>3. CASE p # None
    <3>1. SendPackage(m, p, c) = [m EXCEPT !.live = @ \ L, !.out = @ \cup O]
      BY <2>3 DEF SendPackage
    <3>. HIDE DEF L, O
    <3>. QED
      BY <2>1, <2>3, <3>1
  <2>. QED
    BY <2>2, <2>3
<1>5. L \subseteq Objects(c)
  BY DEF Freed, Objects
<1>6. \A k \in DOMAIN m.history : m.history[k].obj \notin L
  <2>. SUFFICES ASSUME NEW k \in DOMAIN m.history, m.history[k].obj \in L
                PROVE  FALSE
    OBVIOUS
  <2>1. PICK j \in DOMAIN c :
          /\ c[j].obj = m.history[k].obj
          /\ p # None => c[j].tlv.type \in Frees
    BY DEF Freed
  <2>2. c[j].tlv = m.history[k].tlv /\ IsRequest(m.history[k])
    BY <1>1, <2>1 DEF Shared, Distinct
  <2>3. IsRequest(c[j])
    BY <2>2 DEF IsRequest
  <2>4. p # None
    BY <1>1, <2>3 DEF Quiet
  <2>. QED
    BY <2>1, <2>3, <2>4 DEF IsRequest, Frees
<1>7. O \subseteq [to : Peer, tlv : Tlv, alive : BOOLEAN]
  <2>. SUFFICES ASSUME p # None, NEW k \in DOMAIN c
                PROVE  [to |-> p, tlv |-> c[k].tlv, alive |-> c[k].obj \in m.live]
                         \in [to : Peer, tlv : Tlv, alive : BOOLEAN]
    BY DEF Output
  <2>1. c[k].tlv \in Tlv /\ p \in Peer
    BY <1>3, EntryFields
  <2>. QED
    BY <2>1
<1>. HIDE DEF L, O, n
<1>8. MemOK(n)
  <2>1. n \in Mem
    <3>1. <<>> \in Seq(Entries)
      OBVIOUS
    <3>. QED
      BY <1>2, <1>4, <1>7, <3>1 DEF Mem
  <2>2. IsFiniteSet(n.live)
    BY <1>1, <1>4, FS_Subset
  <2>3. BodyLength(n.answer) <= MAX_BODY
    BY <1>4, BodyLengthEmpty, SizeAssumption
  <2>4. Distinct(n.history, n.live)
    BY <1>1, <1>4, <1>6 DEF Distinct
  <2>5. Shared(n)
    BY <1>4 DEF Shared
  <2>. QED
    BY <2>1, <2>2, <2>3, <2>4, <2>5 DEF MemOK
<1>9. Quiet(n, p)
  BY <1>4 DEF Quiet
<1>10. Remembered(n, p, A)
  <2>. SUFFICES ASSUME NEW k \in DOMAIN m.history
                PROVE  Request(m.history[k]) \in A \cup Gone(n)
    BY <1>4 DEF Remembered
  <2>1. CASE Request(m.history[k]) \in A \cup Gone(m)
    BY <1>4, <2>1 DEF Gone
  <2>2. CASE p # None /\ m.history[k].pair = p /\ Has(c, m.history[k].tlv)
    <3>1. PICK j \in DOMAIN c : c[j].tlv = m.history[k].tlv
      BY <2>2 DEF Has
    <3>2. c[j].tlv.type \in Requests
      BY <1>1, <3>1 DEF Distinct, IsRequest
    <3>3. [to |-> p, tlv |-> c[j].tlv, alive |-> c[j].obj \in m.live] \in O
      BY <2>2, <3>2 DEF O, Output
    <3>4. [pair |-> p, tlv |-> c[j].tlv] \in Gone(n)
      BY <1>4, <3>3 DEF Gone
    <3>. QED
      BY <2>2, <3>1, <3>4 DEF Request
  <2>. QED
    BY <1>1, <2>1, <2>2 DEF Remembered
<1>11. lax \/ (AnswerAlive(n) /\ OutAlive(n))
  <2>. SUFFICES ASSUME AnswerAlive(m), OutAlive(m)
                PROVE  AnswerAlive(n) /\ OutAlive(n)
    BY <1>1
  <2>1. AnswerAlive(n)
    BY <1>4 DEF AnswerAlive
  <2>2. \A s \in O : s.alive
    <3>. SUFFICES ASSUME NEW s \in O PROVE s.alive
      OBVIOUS
    <3>1. PICK k \in {j \in DOMAIN c : c[j].tlv.type \in Requests} :
            s = [to |-> p, tlv |-> c[k].tlv, alive |-> c[k].obj \in m.live]
      BY DEF O, Output
    <3>2. c[k].obj \in m.live
      BY DEF AnswerAlive, IsRequest
    <3>. QED
      BY <3>1, <3>2
  <2>. QED
    BY <1>4, <2>1, <2>2 DEF OutAlive
<1>12. Sound(n, p, A, lax)
  BY <1>8, <1>9, <1>10, <1>11 DEF Sound
<1>. QED
  BY <1>4, <1>5, <1>12 DEF n

LEMMA AllocSound ==
  ASSUME NEW m, NEW p, NEW A, NEW lax \in BOOLEAN, NEW o \in Nat \ {0},
         Sound(m, p, A, lax)
  PROVE  /\ Sound(Alloc(m, o), p, A, lax)
         /\ Alloc(m, o).answer = m.answer
         /\ Alloc(m, o).history = m.history
         /\ Alloc(m, o).live = m.live \cup {o}
         /\ Alloc(m, o).out = m.out
<1>1. MemOK(m) /\ m \in Mem
  BY DEF Sound, MemOK
<1>2. Alloc(m, o) = [live |-> m.live \cup {o}, answer |-> m.answer,
                     history |-> m.history, out |-> m.out]
  <2>1. m = [live |-> m.live, answer |-> m.answer, history |-> m.history,
             out |-> m.out]
    BY <1>1, MemFields
  <2>. QED
    BY <2>1 DEF Alloc
<1>3. MemOK(Alloc(m, o))
  <2>1. Alloc(m, o) \in Mem
    BY <1>1, <1>2, MemFields DEF Mem
  <2>2. IsFiniteSet(m.live \cup {o})
    BY <1>1, FS_AddElement DEF MemOK
  <2>. QED
    BY <1>1, <1>2, <2>1, <2>2 DEF MemOK, Distinct, Shared
<1>4. Quiet(Alloc(m, o), p) /\ Remembered(Alloc(m, o), p, A)
  BY <1>2 DEF Sound, Quiet, Remembered, Gone
<1>5. lax \/ (AnswerAlive(Alloc(m, o)) /\ OutAlive(Alloc(m, o)))
  BY <1>2 DEF Sound, AnswerAlive, OutAlive
<1>. QED
  BY <1>2, <1>3, <1>4, <1>5 DEF Sound

\* May e be put in the answer of m?
Fits(m, p, e, lax) ==
  /\ e \in Entries
  /\ \A k \in DOMAIN m.history :
       e.obj = m.history[k].obj => e.tlv = m.history[k].tlv
  /\ IsRequest(e) => p # None /\ (lax \/ e.obj \in m.live)

\* With room for it, one more TLV in the answer.
LEMMA AddSound ==
  ASSUME NEW m, NEW p, NEW A, NEW lax \in BOOLEAN, NEW e,
         Sound(m, p, A, lax), Fits(m, p, e, lax), ~ Full(m.answer, e.tlv)
  PROVE  Sound([m EXCEPT !.answer = AddTLV(@, e)], p, A, lax)
<1>. DEFINE c == AddTLV(m.answer, e)
            n == [m EXCEPT !.answer = c]
<1>1. MemOK(m) /\ m \in Mem /\ m.answer \in Seq(Entries) /\ e \in Entries
  BY MemFields DEF Sound, MemOK, Fits
<1>2. n = [live |-> m.live, answer |-> c, history |-> m.history, out |-> m.out]
  BY <1>1, MemFields
<1>3. /\ c \in Seq(Entries)
      /\ \A k \in DOMAIN c : c[k] = e \/ \E j \in DOMAIN m.answer : c[k] = m.answer[j]
      /\ \A j \in DOMAIN m.answer : \E k \in DOMAIN c : c[k] = m.answer[j]
      /\ BodyLength(m.answer) \in Nat
      /\ BodyLength(c) \in Nat
      /\ BodyLength(c) <= BodyLength(m.answer) + Size[e.tlv.type]
  BY <1>1, AddTLVFacts
<1>. HIDE DEF c, n
<1>4. BodyLength(c) <= MAX_BODY
  <2>1. Size[e.tlv.type] \in Nat
    BY <1>1, EntryFields, TlvFacts
  <2>2. ~ (BodyLength(m.answer) + Size[e.tlv.type] > MAX_BODY)
    BY DEF Full
  <2>. QED
    BY <1>3, <2>1, <2>2, SizeAssumption
<1>5. MemOK(n)
  <2>1. n \in Mem
    BY <1>1, <1>2, <1>3, MemFields DEF Mem
  <2>2. Shared(n)
    <3>. SUFFICES ASSUME NEW j \in DOMAIN c, NEW k \in DOMAIN m.history,
                         c[j].obj = m.history[k].obj
                  PROVE  c[j].tlv = m.history[k].tlv
      BY <1>2 DEF Shared
    <3>1. CASE c[j] = e
      BY <3>1 DEF Fits
    <3>2. CASE \E i \in DOMAIN m.answer : c[j] = m.answer[i]
      BY <1>1, <3>2 DEF MemOK, Shared
    <3>. QED
      BY <1>3, <3>1, <3>2
  <2>. QED
    BY <1>1, <1>2, <1>4, <2>1, <2>2 DEF MemOK
<1>6. Quiet(n, p)
  <2>. SUFFICES ASSUME p = None, NEW k \in DOMAIN c PROVE ~ IsRequest(c[k])
    BY <1>2 DEF Quiet
  <2>1. CASE c[k] = e
    BY <2>1 DEF Fits
  <2>2. CASE \E i \in DOMAIN m.answer : c[k] = m.answer[i]
    BY <2>2 DEF Sound, Quiet
  <2>. QED
    BY <1>3, <2>1, <2>2
<1>7. Remembered(n, p, A)
  <2>1. \A x : Has(m.answer, x) => Has(c, x)
    BY <1>3 DEF Has
  <2>. QED
    BY <1>2, <2>1 DEF Sound, Remembered, Gone
<1>8. lax \/ (AnswerAlive(n) /\ OutAlive(n))
  <2>. SUFFICES ASSUME ~ lax PROVE AnswerAlive(n) /\ OutAlive(n)
    OBVIOUS
  <2>1. AnswerAlive(m) /\ OutAlive(m)
    BY DEF Sound
  <2>2. AnswerAlive(n)
    <3>. SUFFICES ASSUME NEW k \in DOMAIN c, IsRequest(c[k])
                  PROVE  c[k].obj \in m.live
      BY <1>2 DEF AnswerAlive
    <3>1. CASE c[k] = e
      BY <3>1 DEF Fits
    <3>2. CASE \E i \in DOMAIN m.answer : c[k] = m.answer[i]
      BY <2>1, <3>2 DEF AnswerAlive
    <3>. QED
      BY <1>3, <3>1, <3>2
  <2>. QED
    BY <1>2, <2>1, <2>2 DEF OutAlive
<1>. QED
  BY <1>5, <1>6, <1>7, <1>8 DEF Sound, n, c

\* The TLVs of the answer of n are those of m, and x.
Adds(n, m, x) ==
  \A k \in DOMAIN n.answer :
    n.answer[k].tlv = x \/ Has(m.answer, n.answer[k].tlv)

LEMMA AddAdds ==
  ASSUME NEW m, m.answer \in Seq(Entries), m \in Mem, NEW e \in Entries
  PROVE  /\ Adds([m EXCEPT !.answer = AddTLV(@, e)], m, e.tlv)
         /\ [m EXCEPT !.answer = AddTLV(@, e)] =
              [live |-> m.live, answer |-> AddTLV(m.answer, e),
               history |-> m.history, out |-> m.out]
         /\ Has(AddTLV(m.answer, e), e.tlv)
<1>. DEFINE c == AddTLV(m.answer, e)
<1>1. /\ \A k \in DOMAIN c : c[k] = e \/ \E j \in DOMAIN m.answer : c[k] = m.answer[j]
      /\ Has(c, e.tlv)
  BY AddTLVFacts
<1>2. [m EXCEPT !.answer = c] =
        [live |-> m.live, answer |-> c, history |-> m.history, out |-> m.out]
  BY MemFields
<1>. HIDE DEF c
<1>3. [m EXCEPT !.answer = c].answer = c
  BY <1>2
<1>4. \A k \in DOMAIN c : c[k].tlv = e.tlv \/ Has(m.answer, c[k].tlv)
  BY <1>1 DEF Has
<1>. QED
  BY <1>1, <1>2, <1>3, <1>4 DEF Adds, c

\* An empty packet has room for every TLV.
LEMMA EmptyNotFull ==
  ASSUME NEW x \in Tlv
  PROVE  ~ Full(<<>>, x)
BY TlvFacts, BodyLengthEmpty, SizeAssumption DEF Full

\* n is m with e in the answer, or in a new one.
Takes(n, m, e) ==
  /\ Has(n.answer, e.tlv)
  /\ Adds(n, m, e.tlv)
  /\ n.history = m.history
  /\ m.live \ Objects(m.answer) \subseteq n.live
  /\ \A k \in DOMAIN n.answer :
       n.answer[k] = e \/ \E j \in DOMAIN m.answer : n.answer[k] = m.answer[j]

LEMMA AnswerSound ==
  ASSUME NEW m, NEW p \in Peer \cup {None}, NEW A, NEW lax \in BOOLEAN, NEW e,
         Sound(m, p, A, lax), Fits(m, p, e, lax), e.obj \notin Objects(m.answer)
  PROVE  /\ Sound(Answer(m, p, e), p, A, lax)
         /\ Takes(Answer(m, p, e), m, e)
<1>. DEFINE n == IF Full(m.answer, e.tlv) THEN SendAnswer(m, p) ELSE m
<1>1. e \in Entries /\ e.tlv \in Tlv
  BY EntryFields DEF Fits
<1>2. /\ Sound(n, p, A, lax)
      /\ n.history = m.history
      /\ m.live \ Objects(m.answer) \subseteq n.live
      /\ ~ Full(n.answer, e.tlv)
      /\ n.answer = <<>> \/ n.answer = m.answer
  <2>1. CASE Full(m.answer, e.tlv)
    BY <1>1, <2>1, SendAnswerSound, EmptyNotFull
  <2>2. CASE ~ Full(m.answer, e.tlv)
    BY <2>2
  <2>. QED
    BY <2>1, <2>2
<1>3. Answer(m, p, e) = [n EXCEPT !.answer = AddTLV(@, e)]
  BY DEF Answer
<1>. HIDE DEF n
<1>4. n \in Mem /\ n.answer \in Seq(Entries)
  BY <1>2, MemFields DEF Sound, MemOK
<1>5. Fits(n, p, e, lax)
  BY <1>2 DEF Fits
<1>6. Sound(Answer(m, p, e), p, A, lax)
  BY <1>2, <1>3, <1>5, AddSound
<1>7. /\ Adds(Answer(m, p, e), n, e.tlv)
      /\ Answer(m, p, e) = [live |-> n.live, answer |-> AddTLV(n.answer, e),
                            history |-> n.history, out |-> n.out]
      /\ Has(AddTLV(n.answer, e), e.tlv)
  BY <1>1, <1>3, <1>4, AddAdds
<1>8. \A x : Has(n.answer, x) => Has(m.answer, x)
  BY <1>2 DEF Has
<1>9. Adds(Answer(m, p, e), m, e.tlv)
  BY <1>7, <1>8 DEF Adds
<1>10. \A k \in DOMAIN AddTLV(n.answer, e) :
         \/ AddTLV(n.answer, e)[k] = e
         \/ \E j \in DOMAIN m.answer : AddTLV(n.answer, e)[k] = m.answer[j]
  <2>1. \A k \in DOMAIN AddTLV(n.answer, e) :
          \/ AddTLV(n.answer, e)[k] = e
          \/ \E j \in DOMAIN n.answer : AddTLV(n.answer, e)[k] = n.answer[j]
    BY <1>1, <1>4, AddTLVFacts
  <2>. QED
    BY <1>2, <2>1
<1>11. Answer(m, p, e).answer = AddTLV(n.answer, e)
  BY <1>7
<1>. QED
  BY <1>2, <1>6, <1>7, <1>9, <1>10, <1>11 DEF Takes

\* tryToAddPackage of what is not a request.
LEMMA TryToAddPackageSound ==
  ASSUME NEW m, NEW p \in Peer \cup {None}, NEW A, NEW lax \in BOOLEAN,
         NEW x \in Tlv, Sound(m, p, A, lax), x.type \notin Requests
  PROVE  /\ Sound(TryToAddPackage(m, p, x), p, A, lax)
         /\ Adds(TryToAddPackage(m, p, x), m, x)
         /\ TryToAddPackage(m, p, x).history = m.history
<1>. DEFINE o == New(m)
            e == Entry(x, o, p)
<1>1. m \in Mem /\ IsFiniteSet(m.live) /\ Distinct(m.history, m.live)
  BY DEF Sound, MemOK
<1>2. o \in Nat \ {0} /\ o \notin m.live /\ o \notin Objects(m.answer)
  BY <1>1, NewFacts
<1>. HIDE DEF o
<1>3. /\ Sound(Alloc(m, o), p, A, lax)
      /\ Alloc(m, o).answer = m.answer
      /\ Alloc(m, o).history = m.history
  BY <1>2, AllocSound
<1>4. e \in Entries /\ e.tlv = x /\ e.obj = o /\ ~ IsRequest(e)
  BY <1>2 DEF Entry, Entries, IsRequest
<1>5. Fits(Alloc(m, o), p, e, lax)
  BY <1>1, <1>2, <1>3, <1>4 DEF Fits, Distinct
<1>. HIDE DEF e
<1>6. TryToAddPackage(m, p, x) = Answer(Alloc(m, o), p, e)
  BY DEF TryToAddPackage, o, e
<1>7. e.obj \notin Objects(Alloc(m, o).answer)
  BY <1>2, <1>3, <1>4
<1>8. /\ Sound(Answer(Alloc(m, o), p, e), p, A, lax)
      /\ Takes(Answer(Alloc(m, o), p, e), Alloc(m, o), e)
  BY <1>3, <1>5, <1>7, AnswerSound
<1>. QED
  BY <1>3, <1>4, <1>6, <1>8 DEF Adds, Takes

-----------------------------------------------------------------------------
(* The history.                                                            *)

\* d has entries of h, none twice.
PartOf(d, h) ==
  /\ d \in Seq(Entries)
  /\ \A j \in DOMAIN d : \E k \in DOMAIN h : d[j] = h[k]
  /\ \A j \in DOMAIN d, k \in DOMAIN d : d[j].obj = d[k].obj => j = k

\* Some entries leave the history and are freed.
LEMMA ShrinkSound ==
  ASSUME NEW m, NEW p, NEW A, NEW lax \in BOOLEAN, Sound(m, p, A, lax),
         NEW d, PartOf(d, m.history), NEW L,
         \A j \in DOMAIN d : d[j].obj \notin L,
         lax \/ \A k \in DOMAIN m.answer :
                  IsRequest(m.answer[k]) => m.answer[k].obj \notin L
  PROVE  Sound([m EXCEPT !.live = @ \ L, !.history = d], p, A, lax)
<1>. DEFINE n == [m EXCEPT !.live = @ \ L, !.history = d]
            h == m.history
<1>1. MemOK(m) /\ m \in Mem /\ h \in Seq(Entries)
  BY MemFields DEF Sound, MemOK
<1>2. n = [live |-> m.live \ L, answer |-> m.answer, history |-> d, out |-> m.out]
  <2>1. m = [live |-> m.live, answer |-> m.answer, history |-> m.history,
             out |-> m.out]
    BY <1>1, MemFields
  <2>. DEFINE l == m.live \ L
  <2>2. n = [m EXCEPT !.live = l, !.history = d]
    OBVIOUS
  <2>. HIDE DEF l, n
  <2>3. n = [live |-> l, answer |-> m.answer, history |-> d, out |-> m.out]
    BY <2>1, <2>2
  <2>. QED
    BY <2>3 DEF l
<1>. HIDE DEF n
<1>3. d \in Seq(Entries) /\ \A j \in DOMAIN d : \E k \in DOMAIN h : d[j] = h[k]
  BY DEF PartOf
<1>4. Distinct(d, m.live \ L)
  <2>1. Distinct(h, m.live)
    BY <1>1 DEF MemOK
  <2>2. \A j \in DOMAIN d :
          d[j].obj \in m.live \ L /\ IsRequest(d[j]) /\ d[j].pair \in Peer
    BY <1>3, <2>1 DEF Distinct
  <2>3. ASSUME NEW j \in DOMAIN d, NEW k \in DOMAIN d, Request(d[j]) = Request(d[k])
        PROVE  j = k \/ d[k].tlv.id = AnyId
    <3>1. PICK j1 \in DOMAIN h, k1 \in DOMAIN h : d[j] = h[j1] /\ d[k] = h[k1]
      BY <1>3
    <3>2. j1 = k1 \/ h[k1].tlv.id = AnyId
      BY <2>1, <2>3, <3>1 DEF Distinct
    <3>. QED
      BY <3>1, <3>2 DEF PartOf
  <2>. QED
    BY <2>2, <2>3 DEF Distinct, PartOf
<1>5. MemOK(n)
  <2>1. n \in Mem
    BY <1>1, <1>2, <1>3, MemFields DEF Mem
  <2>2. IsFiniteSet(m.live \ L)
    BY <1>1, FS_Subset DEF MemOK
  <2>3. Shared(n)
    <3>. SUFFICES ASSUME NEW j \in DOMAIN m.answer, NEW k \in DOMAIN d,
                         m.answer[j].obj = d[k].obj
                  PROVE  m.answer[j].tlv = d[k].tlv
      BY <1>2 DEF Shared
    <3>1. PICK i \in DOMAIN h : d[k] = h[i]
      BY <1>3
    <3>. QED
      BY <1>1, <3>1 DEF MemOK, Shared
  <2>. QED
    BY <1>1, <1>2, <1>4, <2>1, <2>2, <2>3 DEF MemOK
<1>6. Quiet(n, p)
  BY <1>2 DEF Sound, Quiet
<1>7. Remembered(n, p, A)
  <2>1. Gone(n) = Gone(m)
    BY <1>2 DEF Gone
  <2>. SUFFICES ASSUME NEW j \in DOMAIN d
                PROVE  \/ Request(d[j]) \in A \cup Gone(m)
                       \/ p # None /\ d[j].pair = p /\ Has(m.answer, d[j].tlv)
    BY <1>2, <2>1 DEF Remembered
  <2>2. PICK k \in DOMAIN h : d[j] = h[k]
    BY <1>3
  <2>. QED
    BY <2>2 DEF Sound, Remembered
<1>8. lax \/ (AnswerAlive(n) /\ OutAlive(n))
  BY <1>2 DEF Sound, AnswerAlive, OutAlive
<1>. QED
  BY <1>5, <1>6, <1>7, <1>8 DEF Sound, n

\* What a removal frees is not a request of the answer.
Apart(m, t, i, q) ==
  \A j \in DOMAIN m.answer, k \in DOMAIN m.history :
    IsRequest(m.answer[j]) /\ Matches(m.history[k], t, i, q) =>
      m.answer[j].obj # m.history[k].obj

\* n is m without the first request to q of type t with the Id i.
Removes(n, m, t, i, q) ==
  /\ n.answer = m.answer
  /\ n.out = m.out
  /\ \A o \in m.live \ Objects(m.history) : o \in n.live
  /\ Objects(n.history) \subseteq Objects(m.history)
  /\ i # AnyId /\ t \in Requests =>
       \A k \in DOMAIN n.history :
         Request(n.history[k]) # [pair |-> q, tlv |-> TI(t, i)]

\* One request of the history less.
LEMMA RemoveSound ==
  ASSUME NEW m, NEW p, NEW A, NEW lax \in BOOLEAN, Sound(m, p, A, lax),
         NEW t, NEW i, NEW q,
         lax \/ Apart(m, t, i, q)
  PROVE  /\ Sound(RemoveInHistory(m, t, i, q), p, A, lax)
         /\ Removes(RemoveInHistory(m, t, i, q), m, t, i, q)
<1>. DEFINE n == RemoveInHistory(m, t, i, q)
            h == m.history
            found == {k \in DOMAIN h : Matches(h[k], t, i, q)}
<1>1. MemOK(m) /\ m \in Mem /\ h \in Seq(Entries) /\ Distinct(h, m.live)
  BY MemFields DEF Sound, MemOK
<1>2. Len(h) \in Nat /\ DOMAIN h = 1 .. Len(h) /\ \A k \in DOMAIN h : h[k] \in Entries
  BY <1>1, SeqFacts
<1>3. ASSUME NEW k \in DOMAIN h, Request(h[k]) = [pair |-> q, tlv |-> TI(t, i)]
      PROVE  k \in found
  BY <1>3 DEF Request, TI, Matches
<1>4. CASE found = {}
  <2>1. n = m
    BY <1>4 DEF RemoveInHistory
  <2>2. \A k \in DOMAIN h : Request(h[k]) # [pair |-> q, tlv |-> TI(t, i)]
    BY <1>3, <1>4
  <2>. QED
    BY <2>1, <2>2 DEF Removes
<1>5. CASE found # {}
  <2>. DEFINE k0 == Min(found)
              d == RemoveAt(h, k0)
              L == {h[k0].obj}
  <2>1. k0 \in found
    <3>1. found \in SUBSET Nat
      BY <1>2
    <3>. HIDE DEF found
    <3>. QED
      BY <1>5, <3>1, MinFacts
  <2>2. n = [m EXCEPT !.live = @ \ L, !.history = d]
    <3>1. n = [Free(m, h[k0].obj) EXCEPT !.history = RemoveAt(@, k0)]
      BY <1>5 DEF RemoveInHistory
    <3>2. m = [live |-> m.live, answer |-> m.answer, history |-> m.history,
               out |-> m.out]
      BY <1>1, MemFields
    <3>. HIDE DEF k0
    <3>. QED
      BY <3>1, <3>2 DEF Free
  <2>. HIDE DEF k0, n
  <2>3. k0 \in 1 .. Len(h) /\ Matches(h[k0], t, i, q)
    BY <1>2, <2>1
  <2>4. /\ d \in Seq(Entries)
        /\ Len(d) = Len(h) - 1
        /\ \A k \in 1 .. Len(h) - 1 : d[k] = IF k < k0 THEN h[k] ELSE h[k + 1]
    <3>1. d \in Seq(Entries) /\ Removed(d, h, k0)
      BY <1>1, <2>3, RemoveAtFacts
    <3>. QED
      BY <3>1 DEF Removed
  <2>. HIDE DEF d
  <2>5. DOMAIN d = 1 .. Len(h) - 1
    BY <2>4, SeqFacts
  <2>. DEFINE g == [k \in DOMAIN d |-> IF k < k0 THEN k ELSE k + 1]
  <2>6. \A k \in DOMAIN d : g[k] \in DOMAIN h /\ d[k] = h[g[k]] /\ g[k] # k0
    <3>. SUFFICES ASSUME NEW k \in DOMAIN d
                  PROVE  g[k] \in DOMAIN h /\ d[k] = h[g[k]] /\ g[k] # k0
      OBVIOUS
    <3>1. k \in 1 .. Len(h) - 1 /\ g[k] = IF k < k0 THEN k ELSE k + 1
      BY <2>5
    <3>2. d[k] = IF k < k0 THEN h[k] ELSE h[k + 1]
      BY <2>4, <3>1
    <3>. HIDE DEF g
    <3>3. g[k] \in 1 .. Len(h) /\ g[k] # k0
      BY <1>2, <2>3, <3>1
    <3>. QED
      BY <1>2, <3>1, <3>2, <3>3
  <2>7. \A j \in DOMAIN d, k \in DOMAIN d : g[j] = g[k] => j = k
    BY <1>2, <2>3, <2>5
  <2>. HIDE DEF g
  <2>8. PartOf(d, h) /\ \A j \in DOMAIN d : d[j].obj \notin L
    <3>1. \A j \in DOMAIN h, k \in DOMAIN h : h[j].obj = h[k].obj => j = k
      BY <1>1 DEF Distinct
    <3>2. ASSUME NEW j \in DOMAIN d, NEW k \in DOMAIN d, d[j].obj = d[k].obj
          PROVE  j = k
      <4>1. g[j] = g[k]
        BY <2>6, <3>1, <3>2
      <4>. QED
        BY <2>7, <4>1
    <3>3. ASSUME NEW j \in DOMAIN d PROVE d[j].obj # h[k0].obj
      BY <1>2, <2>3, <2>6, <3>1
    <3>4. \A j \in DOMAIN d : \E k \in DOMAIN h : d[j] = h[k]
      BY <2>6
    <3>. QED
      BY <2>4, <3>2, <3>3, <3>4 DEF PartOf
  <2>9. lax \/ \A k \in DOMAIN m.answer :
                 IsRequest(m.answer[k]) => m.answer[k].obj \notin L
    BY <1>2, <2>3 DEF Apart
  <2>10. Sound(n, p, A, lax)
    <3>. HIDE DEF L, h
    <3>1. PartOf(d, m.history) /\ Sound(m, p, A, lax) /\ lax \in BOOLEAN
      BY <1>1, <2>8 DEF h
    <3>2. Sound([m EXCEPT !.live = @ \ L, !.history = d], p, A, lax)
      BY <2>8, <2>9, <3>1, ShrinkSound
    <3>. QED
      BY <2>2, <3>2
  <2>11. n = [live |-> m.live \ L, answer |-> m.answer, history |-> d, out |-> m.out]
    <3>1. m = [live |-> m.live, answer |-> m.answer, history |-> m.history,
               out |-> m.out]
      BY <1>1, MemFields
    <3>. HIDE DEF L
    <3>. QED
      BY <2>2, <3>1
  <2>12. Objects(n.history) \subseteq Objects(h) /\ h[k0].obj \in Objects(h)
    BY <1>2, <2>3, <2>6, <2>11 DEF Objects
  <2>13. ASSUME NEW k \in DOMAIN d, i # AnyId, t \in Requests,
                Request(d[k]) = [pair |-> q, tlv |-> TI(t, i)]
         PROVE  FALSE
    <3>1. Request(h[g[k]]) = [pair |-> q, tlv |-> TI(t, i)] /\ g[k] \in DOMAIN h
      BY <2>6, <2>13
    <3>2. h[g[k]].tlv = TI(t, i)
      BY <3>1 DEF Request
    <3>3. h[k0].tlv = TI(t, i)
      <4>1. h[k0].tlv.type = t /\ i \in {None, AnyId, h[k0].tlv.id}
        BY <2>3 DEF Matches
      <4>2. h[k0].tlv \in Tlv /\ TI(t, i) \in Tlv
        BY <1>2, <2>3, <3>1, <3>2, EntryFields
      <4>3. h[k0].tlv.id = i
        BY <2>13, <4>1, <4>2, IdAssumption DEF Tlv, TI, Plain, WithId
      <4>. QED
        BY <4>1, <4>2, <4>3 DEF Tlv, TI
    <3>4. Request(h[k0]) = Request(h[g[k]])
      BY <2>3, <3>1, <3>3 DEF Request, Matches
    <3>5. h[k0].tlv.id # AnyId
      BY <2>13, <3>3 DEF TI
    <3>. QED
      BY <1>1, <1>2, <2>3, <2>6, <3>1, <3>4, <3>5 DEF Distinct
  <2>. QED
    BY <2>10, <2>11, <2>12, <2>13 DEF n, Removes
<1>. QED
  BY <1>4, <1>5

\* The entries of neighbours that are not gone.
LEMMA KeptFacts ==
  ASSUME NEW h \in Seq(Entries), NEW gone,
         \A j \in DOMAIN h, k \in DOMAIN h : h[j].obj = h[k].obj => j = k
  PROVE  /\ PartOf(Kept(h, gone), h)
         /\ \A j \in DOMAIN Kept(h, gone) : Kept(h, gone)[j].pair \notin gone
<1>. DEFINE n == Len(h)
            A == Seq(Entries)
            more(c, k) == IF h[k].pair \in gone THEN c ELSE Append(c, h[k])
            F == [x \in A \X (1 .. n) |-> more(x[1], x[2])]
<1>1. n \in Nat /\ DOMAIN h = 1 .. n /\ \A k \in 1 .. n : h[k] \in Entries
  BY SeqFacts
<1>. HIDE DEF n
<1>2. F \in [A \X (1 .. n) -> A]
  BY <1>1
<1>3. PICK f : Iterates(f, A, <<>>, n, F)
  <2>1. <<>> \in A
    OBVIOUS
  <2>. HIDE DEF F, A
  <2>. QED
    BY <1>1, <1>2, <2>1, Recursion
<1>4. ASSUME NEW k \in 1 .. n
      PROVE  f[k] = more(f[k - 1], k)
  <2>. HIDE DEF A, more
  <2>1. <<f[k - 1], k>> \in A \X (1 .. n)
    BY <1>1, <1>3 DEF Iterates
  <2>. QED
    BY <1>3, <2>1 DEF Iterates
<1>. DEFINE Is(s) ==
              s = [k \in 0 .. n |-> IF k = 0 THEN <<>> ELSE more(s[k - 1], k)]
<1>5. Is(f)
  <2>. HIDE DEF A, F, more
  <2>1. f \in [0 .. n -> A] /\ f[0] = <<>>
    BY <1>3 DEF Iterates
  <2>. QED
    BY <1>1, <1>4, <2>1
<1>. DEFINE kept == CHOOSE s : Is(s)
<1>6. Is(kept)
  BY <1>5
<1>7. Kept(h, gone) = kept[n]
  BY DEF Kept, n
<1>. HIDE DEF kept
<1>8. kept[0] = <<>> /\ \A k \in 1 .. n : kept[k] = more(kept[k - 1], k)
  <2>. HIDE DEF more
  <2>. QED
    BY <1>1, <1>6
<1>. HIDE DEF Is, F, A
<1>. DEFINE Good(c, k) ==
              /\ c \in Seq(Entries)
              /\ \A j \in DOMAIN c : \E i \in 1 .. k : c[j] = h[i] /\ h[i].pair \notin gone
              /\ \A i \in DOMAIN c, j \in DOMAIN c : c[i].obj = c[j].obj => i = j
            S == {k \in Nat : k <= n => Good(kept[k], k)}
<1>9. 0 \in S
  <2>1. Good(<<>>, 0)
    OBVIOUS
  <2>2. kept[0] = <<>>
    BY <1>8
  <2>. HIDE DEF Good
  <2>. QED
    BY <2>1, <2>2
<1>10. ASSUME NEW k \in S PROVE k + 1 \in S
  <2>. SUFFICES ASSUME k + 1 <= n PROVE Good(kept[k + 1], k + 1)
    OBVIOUS
  <2>1. Good(kept[k], k) /\ k \in Nat /\ k + 1 \in 1 .. n /\ (k + 1) - 1 = k
    BY <1>1
  <2>. DEFINE c == kept[k]
              e == h[k + 1]
  <2>2. kept[k + 1] = IF e.pair \in gone THEN c ELSE Append(c, e)
    BY <1>8, <2>1
  <2>3. /\ c \in Seq(Entries) /\ e \in Entries
        /\ Len(c) \in Nat /\ DOMAIN c = 1 .. Len(c)
    BY <1>1, <2>1, SeqFacts
  <2>4. CASE e.pair \in gone
    BY <2>1, <2>2, <2>4
  <2>5. CASE e.pair \notin gone
    <3>. DEFINE d == Append(c, e)
    <3>1. /\ d \in Seq(Entries)
          /\ DOMAIN d = 1 .. Len(c) + 1
          /\ \A j \in 1 .. Len(c) : d[j] = c[j]
          /\ d[Len(c) + 1] = e
      BY <2>3, AppendProperties
    <3>2. kept[k + 1] = d
      BY <2>2, <2>5
    <3>. HIDE DEF d
    <3>3. ASSUME NEW i \in DOMAIN d
          PROVE  IF i \in DOMAIN c THEN d[i] = c[i] ELSE d[i] = e
      <4>. HIDE DEF c, e
      <4>1. CASE i = Len(c) + 1
        BY <2>3, <3>1, <4>1
      <4>2. CASE i # Len(c) + 1
        BY <2>3, <3>1, <4>2
      <4>. QED
        BY <4>1, <4>2
    <3>4. ASSUME NEW j \in DOMAIN d
          PROVE  \E i \in 1 .. k + 1 : d[j] = h[i] /\ h[i].pair \notin gone
      <4>1. CASE j = Len(c) + 1
        BY <2>1, <2>5, <3>1, <4>1
      <4>2. CASE j # Len(c) + 1
        <5>1. j \in DOMAIN c /\ d[j] = c[j]
          BY <2>3, <3>1, <4>2
        <5>2. PICK i \in 1 .. k : c[j] = h[i] /\ h[i].pair \notin gone
          BY <2>1, <5>1
        <5>3. i \in 1 .. k + 1
          BY <2>1, <5>2
        <5>. QED
          BY <5>1, <5>2, <5>3
      <4>. QED
        BY <4>1, <4>2
    <3>5. ASSUME NEW j \in DOMAIN c PROVE c[j].obj # e.obj
      <4>1. PICK i \in 1 .. k : c[j] = h[i]
        BY <2>1
      <4>2. i \in DOMAIN h /\ k + 1 \in DOMAIN h /\ i # k + 1
        BY <1>1, <2>1
      <4>. QED
        BY <4>1, <4>2
    <3>6. ASSUME NEW i \in DOMAIN d, NEW j \in DOMAIN d, d[i].obj = d[j].obj
          PROVE  i = j
      <4>1. CASE i \in DOMAIN c /\ j \in DOMAIN c
        BY <2>1, <2>3, <3>1, <3>6, <4>1
      <4>2. CASE i \in DOMAIN c /\ j \notin DOMAIN c
        <5>1. d[i] = c[i] /\ d[j] = e
          BY <3>3, <4>2
        <5>. QED
          BY <3>5, <3>6, <4>2, <5>1
      <4>3. CASE i \notin DOMAIN c /\ j \in DOMAIN c
        <5>1. d[i] = e /\ d[j] = c[j]
          BY <3>3, <4>3
        <5>. QED
          BY <3>5, <3>6, <4>3, <5>1
      <4>4. CASE i \notin DOMAIN c /\ j \notin DOMAIN c
        BY <2>3, <3>1, <4>4
      <4>. QED
        BY <4>1, <4>2, <4>3, <4>4
    <3>. QED
      BY <3>1, <3>2, <3>4, <3>6
  <2>. QED
    BY <2>4, <2>5
<1>11. S = Nat
  <2>. HIDE DEF S
  <2>1. S \in SUBSET Nat
    BY DEF S
  <2>. QED
    BY <1>9, <1>10, <2>1, Induction
<1>12. Good(kept[n], n)
  <2>1. n \in S
    BY <1>1, <1>11
  <2>. QED
    BY <1>1, <2>1
<1>. QED
  BY <1>1, <1>7, <1>12 DEF PartOf

LEMMA ForgetSound ==
  ASSUME NEW m, NEW p, NEW A, NEW lax \in BOOLEAN, Sound(m, p, A, lax),
         m.answer = <<>>, NEW gone
  PROVE  /\ Sound(ForgetNeighbours(m, gone), p, A, lax)
         /\ ForgetNeighbours(m, gone).answer = <<>>
<1>. DEFINE h == m.history
            L == {h[k].obj : k \in {j \in DOMAIN h : h[j].pair \in gone}}
            d == Kept(h, gone)
            n == ForgetNeighbours(m, gone)
<1>1. m \in Mem /\ h \in Seq(Entries) /\ Distinct(h, m.live)
  BY MemFields DEF Sound, MemOK
<1>2. \A j \in DOMAIN h, k \in DOMAIN h : h[j].obj = h[k].obj => j = k
  BY <1>1 DEF Distinct
<1>3. PartOf(d, h) /\ \A j \in DOMAIN d : d[j].pair \notin gone
  BY <1>1, <1>2, KeptFacts
<1>4. n = [m EXCEPT !.live = @ \ L, !.history = d]
  BY DEF ForgetNeighbours
<1>5. \A j \in DOMAIN d : d[j].obj \notin L
  <2>. HIDE DEF d
  <2>. SUFFICES ASSUME NEW j \in DOMAIN d, d[j].obj \in L PROVE FALSE
    OBVIOUS
  <2>1. PICK k \in DOMAIN h : h[k].pair \in gone /\ d[j].obj = h[k].obj
    OBVIOUS
  <2>2. PICK i \in DOMAIN h : d[j] = h[i]
    BY <1>3 DEF PartOf
  <2>. QED
    BY <1>2, <1>3, <2>1, <2>2
<1>. HIDE DEF L, d, n
<1>6. Sound(n, p, A, lax)
  <2>1. \A k \in DOMAIN m.answer : IsRequest(m.answer[k]) => m.answer[k].obj \notin L
    OBVIOUS
  <2>. QED
    BY <1>3, <1>4, <1>5, <2>1, ShrinkSound
<1>7. n.answer = <<>>
  <2>1. m = [live |-> m.live, answer |-> m.answer, history |-> m.history,
             out |-> m.out]
    BY <1>1, MemFields
  <2>. QED
    BY <1>4, <2>1
<1>. QED
  BY <1>6, <1>7 DEF n

\* May the request e be put in the history of m?
IsNew(m, e) ==
  /\ e \in Entries /\ IsRequest(e) /\ e.pair \in Peer
  /\ e.obj \in m.live /\ e.obj \notin Objects(m.history)
  /\ \A k \in DOMAIN m.history :
       e.tlv.id # AnyId => Request(m.history[k]) # Request(e)
  /\ \A j \in DOMAIN m.answer : m.answer[j].obj = e.obj => m.answer[j].tlv = e.tlv

\* n is m with the request e.
Remembers(n, m, e) ==
  /\ n.answer = m.answer /\ n.live = m.live /\ n.out = m.out
  /\ \E k \in DOMAIN n.history : n.history[k] = e

\* A request that is not in the history is put there.
LEMMA AddInHistorySound ==
  ASSUME NEW m, NEW p, NEW A, NEW lax \in BOOLEAN, Sound(m, p, A, lax),
         NEW e, IsNew(m, e)
  PROVE  /\ Sound(AddInHistory(m, e), p, A \cup {Request(e)}, lax)
         /\ Remembers(AddInHistory(m, e), m, e)
<1>. DEFINE n == AddInHistory(m, e)
            h == m.history
            d == Append(h, e)
<1>1. MemOK(m) /\ m \in Mem /\ h \in Seq(Entries) /\ Distinct(h, m.live)
  BY MemFields DEF Sound, MemOK
<1>0. /\ e \in Entries /\ IsRequest(e) /\ e.pair \in Peer
      /\ e.obj \in m.live /\ e.obj \notin Objects(m.history)
      /\ \A k \in DOMAIN h :
           e.tlv.id # AnyId => Request(h[k]) # Request(e)
      /\ \A j \in DOMAIN m.answer :
           m.answer[j].obj = e.obj => m.answer[j].tlv = e.tlv
  BY DEF IsNew
<1>2. n = [live |-> m.live, answer |-> m.answer, history |-> d, out |-> m.out]
  <2>1. m = [live |-> m.live, answer |-> m.answer, history |-> m.history,
             out |-> m.out]
    BY <1>1, MemFields
  <2>2. n = [m EXCEPT !.history = d]
    BY DEF AddInHistory
  <2>. HIDE DEF n, d
  <2>. QED
    BY <2>1, <2>2
<1>3. Len(h) \in Nat /\ DOMAIN h = 1 .. Len(h)
  BY <1>1, SeqFacts
<1>4. /\ d \in Seq(Entries)
      /\ DOMAIN d = 1 .. Len(h) + 1
      /\ \A j \in 1 .. Len(h) : d[j] = h[j]
      /\ d[Len(h) + 1] = e
  BY <1>0, <1>1, <1>3, AppendProperties
<1>. HIDE DEF n, d
<1>5. ASSUME NEW k \in DOMAIN d
      PROVE  (k = Len(h) + 1 /\ d[k] = e) \/ (k \in DOMAIN h /\ d[k] = h[k])
  BY <1>3, <1>4
<1>6. \A k \in DOMAIN h : h[k].obj # e.obj
  BY <1>0 DEF Objects
<1>7. Distinct(d, m.live)
  <2>1. \A k \in DOMAIN d : d[k].obj \in m.live /\ IsRequest(d[k]) /\ d[k].pair \in Peer
    BY <1>0, <1>1, <1>5 DEF Distinct
  <2>2. ASSUME NEW j \in DOMAIN d, NEW k \in DOMAIN d, d[j].obj = d[k].obj
        PROVE  j = k
    BY <1>1, <1>5, <1>6, <2>2 DEF Distinct
  <2>3. ASSUME NEW j \in DOMAIN d, NEW k \in DOMAIN d, Request(d[j]) = Request(d[k])
        PROVE  j = k \/ d[k].tlv.id = AnyId
    <3>1. d[j].tlv = d[k].tlv
      BY <2>3 DEF Request
    <3>. QED
      BY <1>0, <1>1, <1>5, <2>3, <3>1 DEF Distinct
  <2>. QED
    BY <2>1, <2>2, <2>3 DEF Distinct
<1>8. MemOK(n)
  <2>1. n \in Mem
    BY <1>1, <1>2, <1>4, MemFields DEF Mem
  <2>2. Shared(n)
    <3>. SUFFICES ASSUME NEW j \in DOMAIN m.answer, NEW k \in DOMAIN d,
                         m.answer[j].obj = d[k].obj
                  PROVE  m.answer[j].tlv = d[k].tlv
      BY <1>2 DEF Shared
    <3>. QED
      BY <1>0, <1>1, <1>5 DEF MemOK, Shared
  <2>. QED
    BY <1>1, <1>2, <1>7, <2>1, <2>2 DEF MemOK
<1>9. Quiet(n, p)
  BY <1>2 DEF Sound, Quiet
<1>10. Remembered(n, p, A \cup {Request(e)})
  <2>1. Gone(n) = Gone(m)
    BY <1>2 DEF Gone
  <2>. SUFFICES ASSUME NEW k \in DOMAIN d
                PROVE  \/ Request(d[k]) \in (A \cup {Request(e)}) \cup Gone(m)
                       \/ p # None /\ d[k].pair = p /\ Has(m.answer, d[k].tlv)
    BY <1>2, <2>1 DEF Remembered
  <2>. QED
    BY <1>5 DEF Sound, Remembered
<1>11. lax \/ (AnswerAlive(n) /\ OutAlive(n))
  BY <1>2 DEF Sound, AnswerAlive, OutAlive
<1>12. Sound(n, p, A \cup {Request(e)}, lax)
  BY <1>8, <1>9, <1>10, <1>11 DEF Sound
<1>13. Len(h) + 1 \in DOMAIN d /\ d[Len(h) + 1] = e
  BY <1>3, <1>4
<1>. QED
  BY <1>2, <1>12, <1>13 DEF n, Remembers

\* It is sent, or about to be.
LEMMA SentSound ==
  ASSUME NEW m, NEW p, NEW A, NEW lax \in BOOLEAN, NEW e,
         Sound(m, p, A \cup {Request(e)}, lax),
         \/ Request(e) \in Gone(m)
         \/ p # None /\ e.pair = p /\ Has(m.answer, e.tlv)
  PROVE  Sound(m, p, A, lax)
<1>1. Remembered(m, p, A)
  <2>. SUFFICES ASSUME NEW k \in DOMAIN m.history, Request(m.history[k]) = Request(e),
                       Request(e) \notin Gone(m)
                PROVE  p # None /\ m.history[k].pair = p
                         /\ Has(m.answer, m.history[k].tlv)
    BY DEF Sound, Remembered
  <2>1. m.history[k].pair = e.pair /\ m.history[k].tlv = e.tlv
    BY DEF Request
  <2>. QED
    BY <2>1
<1>. QED
  BY <1>1 DEF Sound

-----------------------------------------------------------------------------
(* What the loops of the code make of the memory.                          *)

LEMMA PaquetFacts ==
  ASSUME NEW b \in Seq(Tlv \cup {Wrong})
  PROVE  /\ Paquet(b) \in Seq(Entries)
         /\ Ordered(Paquet(b))
         /\ \A k \in DOMAIN Paquet(b) : \E j \in DOMAIN b : Paquet(b)[k].tlv = b[j]
<1>. DEFINE n == Len(b)
            A == {c \in Seq(Entries) :
                    /\ Ordered(c)
                    /\ \A k \in DOMAIN c : \E j \in DOMAIN b : c[k].tlv = b[j]}
            more(c, k) == IF b[k] = Wrong THEN c ELSE AddTLV(c, Entry(b[k], 0, None))
            F == [x \in A \X (1 .. n) |-> more(x[1], x[2])]
            Is(s) == s = [k \in 0 .. n |-> IF k = 0 THEN <<>> ELSE more(s[k - 1], k)]
            add == CHOOSE s : Is(s)
<1>1. n \in Nat /\ DOMAIN b = 1 .. n /\ \A k \in 1 .. n : b[k] \in Tlv \cup {Wrong}
  BY SeqFacts
<1>2. Paquet(b) = add[n]
  BY DEF Paquet
<1>. HIDE DEF n, add
<1>3. ASSUME NEW c \in A, NEW k \in 1 .. n PROVE more(c, k) \in A
  <2>1. CASE b[k] = Wrong
    BY <2>1
  <2>2. CASE b[k] # Wrong
    <3>. DEFINE e == Entry(b[k], 0, None)
                d == AddTLV(c, e)
    <3>1. e \in Entries /\ e.tlv = b[k]
      BY <1>1, <2>2 DEF Entry, Entries
    <3>. HIDE DEF e
    <3>2. d \in Seq(Entries) /\ Ordered(d)
      BY <3>1, AddTLVFacts, AddTLVOrdered
    <3>3. ASSUME NEW i \in DOMAIN d PROVE \E j \in DOMAIN b : d[i].tlv = b[j]
      <4>1. d[i] = e \/ \E j \in DOMAIN c : d[i] = c[j]
        BY <3>1, AddTLVFacts
      <4>. QED
        BY <1>1, <3>1, <4>1
    <3>4. d \in A
      <4>. HIDE DEF d
      <4>. QED
        BY <3>2, <3>3
    <3>. QED
      BY <2>2, <3>4 DEF e
  <2>. QED
    BY <2>1, <2>2
<1>4. <<>> \in A
  <2>1. <<>> \in Seq(Entries) /\ DOMAIN <<>> = {}
    OBVIOUS
  <2>2. Ordered(<<>>)
    BY <2>1 DEF Ordered
  <2>. QED
    BY <2>1, <2>2
<1>. HIDE DEF A, more
<1>5. F \in [A \X (1 .. n) -> A]
  BY <1>3
<1>6. PICK f : Iterates(f, A, <<>>, n, F)
  <2>. HIDE DEF F
  <2>. QED
    BY <1>1, <1>4, <1>5, Recursion
<1>7. Is(f)
  <2>1. f \in [0 .. n -> A] /\ f[0] = <<>>
    BY <1>6 DEF Iterates
  <2>2. ASSUME NEW k \in 1 .. n PROVE f[k] = more(f[k - 1], k)
    <3>1. <<f[k - 1], k>> \in A \X (1 .. n)
      BY <1>1, <2>1
    <3>. QED
      BY <1>6, <3>1 DEF Iterates
  <2>. HIDE DEF F
  <2>. QED
    BY <1>1, <2>1, <2>2
<1>8. Is(add)
  BY <1>7 DEF add
<1>9. add[0] = <<>> /\ \A k \in 1 .. n : add[k] = more(add[k - 1], k)
  BY <1>1, <1>8
<1>. HIDE DEF Is, F
<1>10. \A k \in 0 .. n : add[k] \in A
  <2>1. add[0] \in A /\ \A k \in 1 .. n : add[k - 1] \in A => add[k] \in A
    BY <1>3, <1>4, <1>9
  <2>. QED
    BY <1>1, <2>1, StaysIn
<1>11. add[n] \in A
  BY <1>1, <1>10
<1>. QED
  BY <1>2, <1>11 DEF A

\* reask, for one neighbour: what is put in the packet is allocated.
LEMMA ReaskSound ==
  ASSUME NEW m, NEW p \in Peer, NEW A0, NEW lax \in BOOLEAN, Sound(m, p, A0, lax)
  PROVE  /\ Sound(Reask(m, p), p, A0, lax)
         /\ Reask(m, p).answer = <<>>
<1>. DEFINE h == m.history
            n == Len(h)
            A == {x \in Mem : Sound(x, p, A0, lax) /\ x.history = h}
            more(x, k) == IF Pending(h[k], p) THEN AddPending(x, p, h[k]) ELSE x
            F == [x \in A \X (1 .. n) |-> more(x[1], x[2])]
            Is(s) == s = [k \in 0 .. n |-> IF k = 0 THEN m ELSE more(s[k - 1], k)]
            add == CHOOSE s : Is(s)
<1>1. m \in Mem /\ h \in Seq(Entries)
  BY MemFields DEF Sound, MemOK
<1>2. n \in Nat /\ DOMAIN h = 1 .. n /\ \A k \in 1 .. n : h[k] \in Entries
  BY <1>1, SeqFacts
<1>3. Reask(m, p) = SendAnswer(add[n], p)
  <2>1. \A s : Is(s) <=> s = [k \in 0 .. n |->
           IF k = 0 THEN m
           ELSE IF Pending(h[k], p) THEN AddPending(s[k - 1], p, h[k]) ELSE s[k - 1]]
    OBVIOUS
  <2>. QED
    BY DEF Reask
<1>13. p \in Peer \cup {None} /\ p # None
  BY IdAssumption
<1>. HIDE DEF n, add
<1>4. ASSUME NEW x \in A, NEW k \in 1 .. n PROVE more(x, k) \in A
  <2>1. CASE ~ Pending(h[k], p)
    BY <2>1
  <2>2. CASE Pending(h[k], p) /\ Full(x.answer, h[k].tlv)
    <3>1. more(x, k) = SendAnswer(x, p)
      BY <2>2 DEF AddPending
    <3>2. Sound(SendAnswer(x, p), p, A0, lax) /\ SendAnswer(x, p).history = h
      BY <1>13, SendAnswerSound
    <3>. QED
      BY <3>1, <3>2 DEF Sound, MemOK
  <2>3. CASE Pending(h[k], p) /\ ~ Full(x.answer, h[k].tlv)
    <3>. DEFINE e == h[k]
                y == [x EXCEPT !.answer = AddTLV(@, e)]
    <3>1. more(x, k) = y
      BY <2>3 DEF AddPending
    <3>2. x.answer \in Seq(Entries) /\ e \in Entries
      BY <1>2, MemFields
    <3>3. Fits(x, p, e, lax)
      <4>1. Distinct(h, x.live)
        BY DEF Sound, MemOK
      <4>. QED
        BY <1>2, <1>13, <3>2, <4>1 DEF Fits, Distinct
    <3>4. Sound(y, p, A0, lax)
      BY <2>3, <3>3, AddSound
    <3>5. y.history = h
      BY <3>2, AddAdds
    <3>. HIDE DEF y
    <3>. QED
      BY <3>1, <3>4, <3>5 DEF Sound, MemOK
  <2>. QED
    BY <2>1, <2>2, <2>3
<1>5. m \in A
  BY <1>1
<1>. HIDE DEF A, more
<1>6. F \in [A \X (1 .. n) -> A]
  BY <1>4
<1>7. PICK f : Iterates(f, A, m, n, F)
  <2>. HIDE DEF F
  <2>. QED
    BY <1>2, <1>5, <1>6, Recursion
<1>8. Is(f)
  <2>1. f \in [0 .. n -> A] /\ f[0] = m
    BY <1>7 DEF Iterates
  <2>2. ASSUME NEW k \in 1 .. n PROVE f[k] = more(f[k - 1], k)
    <3>1. <<f[k - 1], k>> \in A \X (1 .. n)
      BY <1>2, <2>1
    <3>. QED
      BY <1>7, <3>1 DEF Iterates
  <2>. HIDE DEF F
  <2>. QED
    BY <1>2, <2>1, <2>2
<1>9. Is(add)
  BY <1>8 DEF add
<1>10. add[0] = m /\ \A k \in 1 .. n : add[k] = more(add[k - 1], k)
  BY <1>2, <1>9
<1>. HIDE DEF Is, F
<1>11. \A k \in 0 .. n : add[k] \in A
  <2>1. add[0] \in A /\ \A k \in 1 .. n : add[k - 1] \in A => add[k] \in A
    BY <1>4, <1>5, <1>10
  <2>. QED
    BY <1>2, <2>1, StaysIn
<1>12. Sound(add[n], p, A0, lax)
  BY <1>2, <1>11 DEF A
<1>. QED
  BY <1>3, <1>13, <1>12, SendAnswerSound

\* With nothing to answer, it does not matter to whom.
LEMMA SoundEmpty ==
  ASSUME NEW m, NEW p, NEW q, NEW A, NEW lax \in BOOLEAN, Sound(m, p, A, lax),
         m.answer = <<>>
  PROVE  Sound(m, q, A, lax)
<1>1. DOMAIN m.answer = {}
  OBVIOUS
<1>2. Remembered(m, q, A)
  BY <1>1 DEF Sound, Remembered, Has
<1>3. Quiet(m, q)
  BY <1>1 DEF Quiet
<1>. QED
  BY <1>2, <1>3 DEF Sound

LEMMA ReaskAllSound ==
  ASSUME voisins \subseteq Peer, any \in BOOLEAN, answer = <<>>,
         NEW p, Sound(Memory, p, asked, any)
  PROVE  Sound(ReaskAll, p, asked, any) /\ ReaskAll.answer = <<>>
<1>. DEFINE tab == SetToSeq(voisins)
            n == Len(tab)
            m == Memory
            A == {x \in Mem : Sound(x, p, asked, any) /\ x.answer = <<>>}
            F == [x \in A \X (1 .. n) |-> Reask(x[1], tab[x[2]])]
            Is(s) == s = [k \in 0 .. n |->
                            IF k = 0 THEN m ELSE Reask(s[k - 1], tab[k])]
            round == CHOOSE s : Is(s)
<1>1. tab \in Seq(Peer)
  <2>1. IsFiniteSet(voisins)
    BY FS_Subset, FiniteAssumption
  <2>2. tab \in Seq(voisins)
    BY <2>1, SetToSeqFacts
  <2>. HIDE DEF tab
  <2>. QED
    BY <2>2
<1>2. n \in Nat /\ \A k \in 1 .. n : tab[k] \in Peer
  <2>. HIDE DEF tab
  <2>. QED
    BY <1>1, SeqFacts
<1>3. ReaskAll = round[n]
  BY DEF ReaskAll
<1>4. m \in A
  BY DEF Sound, MemOK, Memory
<1>. HIDE DEF n, tab, round, m
<1>5. ASSUME NEW x \in A, NEW q \in Peer PROVE Reask(x, q) \in A
  <2>1. Sound(x, q, asked, any)
    BY SoundEmpty
  <2>2. Sound(Reask(x, q), q, asked, any) /\ Reask(x, q).answer = <<>>
    BY <2>1, ReaskSound
  <2>3. Sound(Reask(x, q), p, asked, any)
    BY <2>2, SoundEmpty
  <2>. QED
    BY <2>2, <2>3 DEF Sound, MemOK
<1>. HIDE DEF A
<1>6. F \in [A \X (1 .. n) -> A]
  BY <1>2, <1>5
<1>7. PICK f : Iterates(f, A, m, n, F)
  <2>. HIDE DEF F
  <2>. QED
    BY <1>2, <1>4, <1>6, Recursion
<1>8. Is(f)
  <2>1. f \in [0 .. n -> A] /\ f[0] = m
    BY <1>7 DEF Iterates
  <2>2. ASSUME NEW k \in 1 .. n PROVE f[k] = Reask(f[k - 1], tab[k])
    <3>1. <<f[k - 1], k>> \in A \X (1 .. n)
      BY <1>2, <2>1
    <3>. QED
      BY <1>7, <3>1 DEF Iterates
  <2>. HIDE DEF F
  <2>. QED
    BY <1>2, <2>1, <2>2
<1>9. Is(round)
  BY <1>8 DEF round
<1>10. round[0] = m /\ \A k \in 1 .. n : round[k] = Reask(round[k - 1], tab[k])
  BY <1>2, <1>9
<1>. HIDE DEF Is, F
<1>11. \A k \in 0 .. n : round[k] \in A
  <2>1. round[0] \in A /\ \A k \in 1 .. n : round[k - 1] \in A => round[k] \in A
    BY <1>2, <1>4, <1>5, <1>10
  <2>. QED
    BY <1>2, <2>1, StaysIn
<1>12. round[n] \in A
  BY <1>2, <1>11
<1>. QED
  BY <1>3, <1>12 DEF A

\* The answer to a Network State Request: Node Hashes are put in it.
LEMMA AddHashesSound ==
  ASSUME NEW m, NEW p \in Peer \cup {None}, NEW A0, NEW lax \in BOOLEAN,
         Sound(m, p, A0, lax), NEW tab \in Seq(Id)
  PROVE  /\ Sound(AddHashes(m, p, tab), p, A0, lax)
         /\ \A k \in DOMAIN AddHashes(m, p, tab).answer :
              \/ AddHashes(m, p, tab).answer[k].tlv.type = "NodeHash"
              \/ Has(m.answer, AddHashes(m, p, tab).answer[k].tlv)
<1>. DEFINE n == Len(tab)
            Old(x) == \A k \in DOMAIN x.answer :
                        \/ x.answer[k].tlv.type = "NodeHash"
                        \/ Has(m.answer, x.answer[k].tlv)
            A == {x \in Mem : Sound(x, p, A0, lax) /\ Old(x)}
            more(x, k) == TryToAddPackage(x, p, TI("NodeHash", tab[k]))
            F == [x \in A \X (1 .. n) |-> more(x[1], x[2])]
            Is(s) == s = [k \in 0 .. n |-> IF k = 0 THEN m ELSE more(s[k - 1], k)]
            add == CHOOSE s : Is(s)
<1>1. n \in Nat /\ \A k \in 1 .. n : tab[k] \in Id
  BY SeqFacts
<1>2. AddHashes(m, p, tab) = add[n]
  BY DEF AddHashes
<1>. HIDE DEF n, add
<1>3. m \in A
  <2>1. Old(m)
    BY DEF Has
  <2>. QED
    BY <2>1 DEF Sound, MemOK
<1>4. ASSUME NEW x \in A, NEW k \in 1 .. n PROVE more(x, k) \in A
  <2>. DEFINE y == TI("NodeHash", tab[k])
              z == TryToAddPackage(x, p, y)
  <2>1. y \in Tlv /\ y.type = "NodeHash" /\ y.type \notin Requests
    BY <1>1 DEF TI, Tlv, WithId, Requests
  <2>. HIDE DEF y
  <2>2. Sound(z, p, A0, lax) /\ Adds(z, x, y)
    BY <2>1, TryToAddPackageSound
  <2>. HIDE DEF z
  <2>3. ASSUME NEW j \in DOMAIN z.answer
        PROVE  z.answer[j].tlv.type = "NodeHash" \/ Has(m.answer, z.answer[j].tlv)
    <3>1. CASE z.answer[j].tlv = y
      BY <2>1, <3>1
    <3>2. CASE Has(x.answer, z.answer[j].tlv)
      <4>1. PICK i \in DOMAIN x.answer : x.answer[i].tlv = z.answer[j].tlv
        BY <3>2 DEF Has
      <4>. QED
        BY <4>1
    <3>. QED
      BY <2>2, <3>1, <3>2 DEF Adds
  <2>4. Old(z)
    BY <2>3
  <2>5. z \in A
    BY <2>2, <2>4 DEF Sound, MemOK
  <2>. QED
    BY <2>5 DEF z, y
<1>. HIDE DEF A, more
<1>5. F \in [A \X (1 .. n) -> A]
  BY <1>4
<1>6. PICK f : Iterates(f, A, m, n, F)
  <2>. HIDE DEF F
  <2>. QED
    BY <1>1, <1>3, <1>5, Recursion
<1>7. Is(f)
  <2>1. f \in [0 .. n -> A] /\ f[0] = m
    BY <1>6 DEF Iterates
  <2>2. ASSUME NEW k \in 1 .. n PROVE f[k] = more(f[k - 1], k)
    <3>1. <<f[k - 1], k>> \in A \X (1 .. n)
      BY <1>1, <2>1
    <3>. QED
      BY <1>6, <3>1 DEF Iterates
  <2>. HIDE DEF F
  <2>. QED
    BY <1>1, <2>1, <2>2
<1>8. Is(add)
  BY <1>7 DEF add
<1>9. add[0] = m /\ \A k \in 1 .. n : add[k] = more(add[k - 1], k)
  BY <1>1, <1>8
<1>. HIDE DEF Is, F
<1>10. \A k \in 0 .. n : add[k] \in A
  <2>1. add[0] \in A /\ \A k \in 1 .. n : add[k - 1] \in A => add[k] \in A
    BY <1>3, <1>4, <1>9
  <2>. QED
    BY <1>1, <2>1, StaysIn
<1>11. add[n] \in A
  BY <1>1, <1>10
<1>. QED
  BY <1>2, <1>11 DEF A

\* A Neighbour Request is sent, and replaces the one remembered.
LEMMA AskNeighbourSound ==
  ASSUME NEW m, NEW A, NEW lax \in BOOLEAN, NEW p \in Peer, NEW q,
         Sound(m, q, A, lax), m.answer = <<>>
  PROVE  /\ Sound(AskNeighbour(m, p), q, A, lax)
         /\ AskNeighbour(m, p).answer = <<>>
<1>. DEFINE x == T("NeighbourRequest")
            o == New(m)
            e == Entry(x, o, p)
            a == Alloc(m, o)
            s == SendPackage(a, p, <<e>>)
            r == RemoveInHistory(s, "NeighbourRequest", None, p)
            O == Output(a, p, <<e>>)
<1>1. m \in Mem /\ IsFiniteSet(m.live) /\ Distinct(m.history, m.live)
      /\ m.history \in Seq(Entries)
  BY MemFields DEF Sound, MemOK
<1>2. o \in Nat \ {0} /\ o \notin m.live
  BY <1>1, NewFacts
<1>3. x \in Tlv /\ x.type = "NeighbourRequest" /\ x.id = None
      /\ x.type \in Requests /\ x = TI("NeighbourRequest", None)
  BY DEF T, TI, Tlv, Plain, WithId, Number, Requests
<1>. HIDE DEF x, o
<1>4. e \in Entries /\ e.tlv = x /\ e.obj = o /\ e.pair = p /\ IsRequest(e)
  BY <1>2, <1>3 DEF Entry, Entries, IsRequest
<1>. HIDE DEF e
<1>5. /\ Sound(a, q, A, lax)
      /\ a.answer = <<>> /\ a.history = m.history
      /\ a.live = m.live \cup {o} /\ a.out = m.out
  BY <1>2, AllocSound
<1>. HIDE DEF a
<1>6. O = {[to |-> p, tlv |-> x, alive |-> TRUE]} /\ Freed(<<e>>, Frees) = {}
  <2>1. DOMAIN <<e>> = {1} /\ <<e>>[1] = e
    OBVIOUS
  <2>2. e.obj \in a.live
    BY <1>4, <1>5
  <2>3. {j \in DOMAIN <<e>> : <<e>>[j].tlv.type \in Requests} = {1}
    BY <1>3, <1>4, <2>1
  <2>4. {j \in DOMAIN <<e>> : <<e>>[j].tlv.type \in Frees} = {}
    BY <1>3, <1>4, <2>1 DEF Frees
  <2>5. (e.obj \in a.live) = TRUE
    BY <2>2
  <2>6. O = {[to |-> p, tlv |-> <<e>>[k].tlv, alive |-> <<e>>[k].obj \in a.live] :
               k \in {1}}
    BY <2>3 DEF Output
  <2>7. O = {[to |-> p, tlv |-> x, alive |-> TRUE]}
    BY <1>4, <2>1, <2>5, <2>6
  <2>. QED
    BY <2>4, <2>7 DEF Freed
<1>. HIDE DEF O
<1>7. s = [live |-> a.live, answer |-> <<>>, history |-> m.history,
           out |-> a.out \cup O]
  <2>1. a = [live |-> a.live, answer |-> a.answer, history |-> a.history,
             out |-> a.out]
    BY <1>5, MemFields DEF Sound, MemOK
  <2>2. p # None
    BY IdAssumption
  <2>3. s = [a EXCEPT !.live = @ \ {}, !.out = @ \cup O]
    BY <1>6, <2>2 DEF SendPackage, O
  <2>. HIDE DEF s
  <2>. QED
    BY <1>5, <2>1, <2>3
<1>. HIDE DEF s
<1>8. Sound(s, q, A, lax) /\ Request(e) \in Gone(s)
  <2>1. MemOK(s)
    <3>1. O \subseteq [to : Peer, tlv : Tlv, alive : BOOLEAN]
      BY <1>3, <1>6
    <3>2. a \in Mem
      BY <1>5 DEF Sound, MemOK
    <3>3. s \in Mem
      BY <1>1, <1>5, <1>7, <3>1, <3>2, MemFields DEF Mem
    <3>. QED
      BY <1>5, <1>7, <3>3 DEF Sound, MemOK, Shared
  <2>2. Quiet(s, q) /\ AnswerAlive(s)
    BY <1>7 DEF Quiet, AnswerAlive
  <2>3. Gone(a) \subseteq Gone(s)
    BY <1>7 DEF Gone
  <2>4. Remembered(s, q, A)
    BY <1>5, <1>7, <2>3 DEF Sound, Remembered
  <2>5. lax \/ OutAlive(s)
    BY <1>5, <1>6, <1>7 DEF Sound, OutAlive
  <2>6. [to |-> p, tlv |-> x, alive |-> TRUE] \in s.out
    BY <1>6, <1>7
  <2>7. [pair |-> p, tlv |-> x] \in Gone(s)
    BY <2>6 DEF Gone
  <2>. QED
    BY <1>4, <2>1, <2>2, <2>4, <2>5, <2>7 DEF Sound, Request
<1>9. /\ Sound(r, q, A, lax)
      /\ r.answer = <<>>
      /\ r.out = s.out
      /\ \A y \in s.live \ Objects(s.history) : y \in r.live
      /\ Objects(r.history) \subseteq Objects(s.history)
      /\ \A k \in DOMAIN r.history :
           Request(r.history[k]) # [pair |-> p, tlv |-> TI("NeighbourRequest", None)]
  <2>1. s.answer = <<>>
    BY <1>7
  <2>2. Apart(s, "NeighbourRequest", None, p)
    BY <2>1 DEF Apart
  <2>. QED
    <3>1. Sound(r, q, A, lax) /\ Removes(r, s, "NeighbourRequest", None, p)
      BY <1>8, <2>2, RemoveSound
    <3>2. None # AnyId /\ "NeighbourRequest" \in Requests
      BY IdAssumption DEF Requests
    <3>. QED
      BY <2>1, <3>1, <3>2 DEF Removes
<1>. HIDE DEF r
<1>10. o \notin Objects(s.history) /\ o \in s.live
  BY <1>1, <1>2, <1>5, <1>7 DEF Objects, Distinct
<1>11. \A k \in DOMAIN r.history : Request(r.history[k]) # Request(e)
  <2>1. None # AnyId
    BY IdAssumption
  <2>. QED
    BY <1>3, <1>4, <1>9, <2>1 DEF Request
<1>12. /\ Sound(AddInHistory(r, e), q, A \cup {Request(e)}, lax)
       /\ AddInHistory(r, e).answer = <<>>
       /\ AddInHistory(r, e).out = s.out
  <2>1. e.obj \in r.live /\ e.obj \notin Objects(r.history) /\ e.pair \in Peer
    BY <1>4, <1>9, <1>10
  <2>2. \A j \in DOMAIN r.answer : r.answer[j].obj = e.obj => r.answer[j].tlv = e.tlv
    BY <1>9
  <2>3. IsNew(r, e)
    BY <1>4, <1>11, <2>1, <2>2 DEF IsNew
  <2>4. /\ Sound(AddInHistory(r, e), q, A \cup {Request(e)}, lax)
        /\ Remembers(AddInHistory(r, e), r, e)
    BY <1>9, <2>3, AddInHistorySound
  <2>. QED
    BY <1>9, <2>4 DEF Remembers
<1>13. Request(e) \in Gone(AddInHistory(r, e))
  BY <1>8, <1>12 DEF Gone
<1>14. AskNeighbour(m, p) = AddInHistory(r, e)
  BY DEF AskNeighbour, r, s, a, e, o, x
<1>. QED
  BY <1>12, <1>13, <1>14, SentSound

-----------------------------------------------------------------------------
(* The end of a step.                                                      *)

Used(m) == Objects(m.answer) \cup Objects(m.history)

\* What Ends leaves in memory, and what of A is remembered still.
Settled(m) ==
  [live |-> {Address(m, o) : o \in m.live \cap Used(m)},
   answer |-> Renumber(m, m.answer), history |-> Renumber(m, m.history),
   out |-> {}]

Recalled(m, A) ==
  {r \in A \cup Gone(m) : \E k \in DOMAIN m.history : Request(m.history[k]) = r}

\* The addresses are numbers up to n.
Addresses(m, n) ==
  /\ n \in Nat
  /\ \A o \in Used(m) : Address(m, o) \in 1 .. n
  /\ \A o, q \in Used(m) : Address(m, o) = Address(m, q) => o = q

\* No two TLVs get the same address.
LEMMA AddressFacts ==
  ASSUME NEW m \in Mem
  PROVE  \E n : Addresses(m, n)
<1>. DEFINE h == m.history
            c == m.answer
            u == h \o c
<1>1. h \in Seq(Entries) /\ c \in Seq(Entries)
  BY MemFields
<1>2. /\ Len(h) \in Nat /\ DOMAIN h = 1 .. Len(h)
      /\ Len(c) \in Nat /\ DOMAIN c = 1 .. Len(c)
  BY <1>1, SeqFacts
<1>3. /\ u \in Seq(Entries)
      /\ Len(u) = Len(h) + Len(c)
      /\ \A k \in 1 .. Len(u) : u[k] = IF k <= Len(h) THEN h[k] ELSE c[k - Len(h)]
  <2>. HIDE DEF h, c
  <2>. QED
    BY <1>1, <1>2, ConcatProperties
<1>4. DOMAIN u = 1 .. Len(u) /\ Len(u) \in Nat
  BY <1>3, SeqFacts
<1>5. \A o : Address(m, o) = CHOOSE k \in DOMAIN u : u[k].obj = o
  BY DEF Address
<1>. HIDE DEF u, h, c
<1>6. ASSUME NEW o \in Used(m) PROVE \E k \in DOMAIN u : u[k].obj = o
  <2>1. CASE o \in Objects(h)
    <3>1. PICK k \in DOMAIN h : h[k].obj = o
      BY <2>1 DEF Objects
    <3>2. k \in 1 .. Len(u) /\ u[k] = h[k]
      BY <1>2, <1>3, <3>1
    <3>. QED
      BY <1>4, <3>1, <3>2
  <2>2. CASE o \in Objects(c)
    <3>1. PICK k \in DOMAIN c : c[k].obj = o
      BY <2>2 DEF Objects
    <3>2. Len(h) + k \in 1 .. Len(u) /\ ~ (Len(h) + k <= Len(h))
          /\ (Len(h) + k) - Len(h) = k
      BY <1>2, <1>3, <3>1
    <3>3. u[Len(h) + k] = c[k]
      BY <1>3, <3>2
    <3>. QED
      BY <1>4, <3>1, <3>2, <3>3
  <2>. QED
    BY <2>1, <2>2 DEF Used, h, c
<1>7. \A o \in Used(m) : Address(m, o) \in DOMAIN u /\ u[Address(m, o)].obj = o
  BY <1>5, <1>6
<1>. QED
  BY <1>4, <1>7 DEF Addresses

LEMMA RenumberFacts ==
  ASSUME NEW m \in Mem, NEW c \in Seq(Entries), Objects(c) \subseteq Used(m)
  PROVE  /\ Renumber(m, c) \in Seq(Entries)
         /\ Len(Renumber(m, c)) = Len(c)
         /\ DOMAIN Renumber(m, c) = DOMAIN c
         /\ \A k \in DOMAIN c :
              /\ Renumber(m, c)[k].tlv = c[k].tlv
              /\ Renumber(m, c)[k].pair = c[k].pair
              /\ Renumber(m, c)[k].obj = Address(m, c[k].obj)
              /\ Request(Renumber(m, c)[k]) = Request(c[k])
<1>. DEFINE d == Renumber(m, c)
<1>1. Len(c) \in Nat /\ DOMAIN c = 1 .. Len(c) /\ \A k \in 1 .. Len(c) : c[k] \in Entries
  BY SeqFacts
<1>2. d = [k \in 1 .. Len(c) |-> [c[k] EXCEPT !.obj = Address(m, @)]]
  BY <1>1 DEF Renumber
<1>3. ASSUME NEW k \in 1 .. Len(c)
      PROVE  /\ d[k] = [tlv |-> c[k].tlv, obj |-> Address(m, c[k].obj),
                        pair |-> c[k].pair]
             /\ Address(m, c[k].obj) \in Nat
  <2>1. c[k] = [tlv |-> c[k].tlv, obj |-> c[k].obj, pair |-> c[k].pair]
    BY <1>1 DEF Entries
  <2>2. c[k].obj \in Used(m)
    BY <1>1 DEF Objects
  <2>3. Address(m, c[k].obj) \in Nat
    <3>1. PICK n : Addresses(m, n)
      BY AddressFacts
    <3>2. n \in Nat /\ Address(m, c[k].obj) \in 1 .. n
      BY <2>2, <3>1 DEF Addresses
    <3>. QED
      BY <3>2
  <2>. DEFINE a == Address(m, c[k].obj)
  <2>4. d[k] = [c[k] EXCEPT !.obj = a]
    BY <1>2
  <2>. HIDE DEF a, d
  <2>5. d[k] = [tlv |-> c[k].tlv, obj |-> a, pair |-> c[k].pair]
    BY <2>1, <2>4
  <2>. QED
    BY <2>3, <2>5 DEF a
<1>4. \A k \in 1 .. Len(c) : d[k] \in Entries
  <2>1. \A e \in Entries : e.tlv \in Tlv /\ e.pair \in Peer \cup {None}
    BY DEF Entries
  <2>. HIDE DEF d
  <2>. QED
    <3>. SUFFICES ASSUME NEW k \in 1 .. Len(c) PROVE d[k] \in Entries
      OBVIOUS
    <3>. DEFINE a == Address(m, c[k].obj)
                e == c[k]
    <3>1. d[k] = [tlv |-> e.tlv, obj |-> a, pair |-> e.pair] /\ a \in Nat
            /\ e \in Entries
      BY <1>1, <1>3
    <3>. HIDE DEF a, e
    <3>2. e.tlv \in Tlv /\ e.pair \in Peer \cup {None}
      BY <2>1, <3>1
    <3>. QED
      BY <3>1, <3>2 DEF Entries
<1>5. d \in Seq(Entries) /\ Len(d) = Len(c) /\ DOMAIN d = DOMAIN c
  <2>1. d = [k \in 1 .. Len(c) |-> d[k]]
    BY <1>2
  <2>. HIDE DEF d
  <2>2. d \in [1 .. Len(c) -> Entries]
    BY <1>4, <2>1
  <2>. QED
    BY <1>1, <2>2
<1>. HIDE DEF d
<1>6. \A k \in DOMAIN c :
        d[k].tlv = c[k].tlv /\ d[k].pair = c[k].pair /\ d[k].obj = Address(m, c[k].obj)
  <2>. SUFFICES ASSUME NEW k \in DOMAIN c
                PROVE  /\ d[k].tlv = c[k].tlv
                       /\ d[k].pair = c[k].pair
                       /\ d[k].obj = Address(m, c[k].obj)
    OBVIOUS
  <2>. DEFINE a == Address(m, c[k].obj)
              e == c[k]
  <2>1. d[k] = [tlv |-> e.tlv, obj |-> a, pair |-> e.pair]
    BY <1>1, <1>3
  <2>. HIDE DEF a, e
  <2>2. d[k].tlv = e.tlv /\ d[k].pair = e.pair /\ d[k].obj = a
    BY <2>1
  <2>. QED
    BY <2>2 DEF a, e
<1>. QED
  BY <1>5, <1>6 DEF d, Request

LEMMA SettledSound ==
  ASSUME NEW m, NEW p, NEW A, NEW lax \in BOOLEAN, Sound(m, p, A, lax)
  PROVE  /\ Sound(Settled(m), p, Recalled(m, A), lax)
         /\ Settled(m).live \subseteq Nat \ {0}
         /\ DOMAIN Settled(m).answer = DOMAIN m.answer
         /\ \A k \in DOMAIN m.answer : Settled(m).answer[k].tlv = m.answer[k].tlv
<1>. DEFINE n == Settled(m)
            l == {Address(m, o) : o \in m.live \cap Used(m)}
            c == Renumber(m, m.answer)
            h == Renumber(m, m.history)
            z(o) == Address(m, o)
<1>1. /\ m \in Mem /\ Distinct(m.history, m.live) /\ Shared(m)
      /\ m.answer \in Seq(Entries) /\ m.history \in Seq(Entries)
  BY MemFields DEF Sound, MemOK
<1>2. n = [live |-> l, answer |-> c, history |-> h, out |-> {}]
  BY DEF Settled
<1>3. /\ c \in Seq(Entries)
      /\ Len(c) = Len(m.answer)
      /\ DOMAIN c = DOMAIN m.answer
      /\ \A k \in DOMAIN m.answer :
           c[k].tlv = m.answer[k].tlv /\ c[k].obj = z(m.answer[k].obj)
  <2>1. Objects(m.answer) \subseteq Used(m)
    BY DEF Used
  <2>. QED
    BY <1>1, <2>1, RenumberFacts
<1>4. /\ h \in Seq(Entries)
      /\ DOMAIN h = DOMAIN m.history
      /\ \A k \in DOMAIN m.history :
           /\ h[k].tlv = m.history[k].tlv
           /\ h[k].pair = m.history[k].pair
           /\ h[k].obj = z(m.history[k].obj)
           /\ Request(h[k]) = Request(m.history[k])
  <2>1. Objects(m.history) \subseteq Used(m)
    BY DEF Used
  <2>. QED
    BY <1>1, <2>1, RenumberFacts
<1>5. PICK i : Addresses(m, i)
  BY <1>1, AddressFacts
<1>6. l \subseteq Nat \ {0} /\ IsFiniteSet(l)
  <2>1. i \in Nat /\ \A o \in Used(m) : Address(m, o) \in 1 .. i
    BY <1>5 DEF Addresses
  <2>2. IsFiniteSet(1 .. i)
    BY <2>1, FS_Interval
  <2>3. l \subseteq 1 .. i
    BY <2>1
  <2>. HIDE DEF l
  <2>4. IsFiniteSet(l)
    BY <2>2, <2>3, FS_Subset
  <2>. QED
    BY <2>1, <2>3, <2>4
<1>7. \A o, q \in Used(m) : z(o) = z(q) => o = q
  BY <1>5 DEF Addresses
<1>8. /\ \A k \in DOMAIN m.answer : m.answer[k].obj \in Used(m)
      /\ \A k \in DOMAIN m.history : m.history[k].obj \in Used(m)
  BY DEF Used, Objects
<1>9. \A o \in m.live \cap Used(m) : z(o) \in l
  OBVIOUS
<1>. HIDE DEF l, c, h, n, z
<1>10. Distinct(h, l)
  <2>1. \A k \in DOMAIN h : h[k].obj \in l /\ IsRequest(h[k]) /\ h[k].pair \in Peer
    <3>. SUFFICES ASSUME NEW k \in DOMAIN m.history
                  PROVE  h[k].obj \in l /\ IsRequest(h[k]) /\ h[k].pair \in Peer
      BY <1>4
    <3>1. m.history[k].obj \in m.live /\ IsRequest(m.history[k])
            /\ m.history[k].pair \in Peer
      BY <1>1 DEF Distinct
    <3>. QED
      BY <1>4, <1>8, <1>9, <3>1 DEF IsRequest
  <2>2. ASSUME NEW j \in DOMAIN h, NEW k \in DOMAIN h, h[j].obj = h[k].obj
        PROVE  j = k
    BY <1>1, <1>4, <1>7, <1>8, <2>2 DEF Distinct
  <2>3. ASSUME NEW j \in DOMAIN h, NEW k \in DOMAIN h, Request(h[j]) = Request(h[k])
        PROVE  j = k \/ h[k].tlv.id = AnyId
    <3>1. Request(m.history[j]) = Request(m.history[k])
      BY <1>4, <2>3
    <3>. QED
      BY <1>1, <1>4, <3>1 DEF Distinct
  <2>. QED
    BY <2>1, <2>2, <2>3 DEF Distinct
<1>11. MemOK(n)
  <2>1. n \in Mem
    BY <1>2, <1>3, <1>4, <1>6 DEF Mem
  <2>2. BodyLength(c) = BodyLength(m.answer)
    <3>1. \A k \in 1 .. Len(c) : c[k].tlv = m.answer[k].tlv
      BY <1>1, <1>3, SeqFacts
    <3>. QED
      BY <1>1, <1>3, <3>1, BodyLengthSame
  <2>3. Shared(n)
    <3>. SUFFICES ASSUME NEW j \in DOMAIN m.answer, NEW k \in DOMAIN m.history,
                         c[j].obj = h[k].obj
                  PROVE  c[j].tlv = h[k].tlv
      BY <1>2, <1>3, <1>4 DEF Shared
    <3>1. m.answer[j].obj = m.history[k].obj
      BY <1>3, <1>4, <1>7, <1>8
    <3>. QED
      BY <1>1, <1>3, <1>4, <3>1 DEF Shared
  <2>. QED
    BY <1>2, <1>6, <1>10, <2>1, <2>2, <2>3 DEF Sound, MemOK
<1>12. Quiet(n, p)
  BY <1>2, <1>3 DEF Sound, Quiet, IsRequest
<1>13. Remembered(n, p, Recalled(m, A))
  <2>. SUFFICES ASSUME NEW k \in DOMAIN m.history
                PROVE  \/ Request(h[k]) \in Recalled(m, A)
                       \/ p # None /\ h[k].pair = p /\ Has(c, h[k].tlv)
    BY <1>2, <1>4 DEF Remembered
  <2>1. CASE Request(m.history[k]) \in A \cup Gone(m)
    BY <1>4, <2>1 DEF Recalled
  <2>2. CASE p # None /\ m.history[k].pair = p /\ Has(m.answer, m.history[k].tlv)
    BY <1>3, <1>4, <2>2 DEF Has
  <2>. QED
    BY <2>1, <2>2 DEF Sound, Remembered
<1>14. lax \/ (AnswerAlive(n) /\ OutAlive(n))
  <2>. SUFFICES ASSUME AnswerAlive(m) PROVE AnswerAlive(n) /\ OutAlive(n)
    BY DEF Sound
  <2>1. ASSUME NEW k \in DOMAIN m.answer, IsRequest(c[k]) PROVE c[k].obj \in l
    <3>1. m.answer[k].obj \in m.live
      BY <1>3, <2>1 DEF AnswerAlive, IsRequest
    <3>. QED
      BY <1>3, <1>8, <1>9, <3>1
  <2>. QED
    BY <1>2, <1>3, <2>1 DEF AnswerAlive, OutAlive
<1>15. Sound(n, p, Recalled(m, A), lax)
  BY <1>11, <1>12, <1>13, <1>14 DEF Sound
<1>. QED
  BY <1>2, <1>3, <1>6, <1>15 DEF n

-----------------------------------------------------------------------------
(* The inductive invariant.                                                *)

Typed ==
  /\ at \in {"select", "handling"}
  /\ voisins \subseteq Peer
  /\ pair \in voisins \cup {None}
  /\ received \in Seq(Entries)
  /\ sent \subseteq [to : Peer, tlv : Tlv, alive : BOOLEAN]
  /\ asked \subseteq [pair : Peer, tlv : Tlv]
  /\ rounds \in BOOLEAN
  /\ any \in BOOLEAN
  /\ at = "select" => pair = None /\ received = <<>> /\ answer = <<>>

\* When y is handled, it does not end the request x that is in the answer.
Spares(y, x) ==
  /\ x.type = "NodeStateRequest" =>
       Number[y.type] <= 6 /\ y # TI("NodeHash", x.id)
  /\ x.type = "NetworkStateRequest" => Number[y.type] <= 3
  /\ x.type # "NeighbourRequest"

AllSpare(r, c) ==
  \A k \in DOMAIN c :
    /\ c[k].tlv.type # "NeighbourRequest"
    /\ \A j \in DOMAIN r : Spares(r[j].tlv, c[k].tlv)

Inv ==
  /\ Typed
  /\ Sound(Memory, pair, asked, any)
  /\ SentAlive
  /\ Ordered(received)
  /\ any \/ \A j \in DOMAIN received : received[j].tlv.id # AnyId
  /\ AllSpare(received, answer)

LEMMA MemoryFields ==
  /\ Memory.live = live
  /\ Memory.answer = answer
  /\ Memory.history = history
  /\ Memory.out = {}
BY DEF Memory

LEMMA EndsSound ==
  ASSUME NEW m, NEW p, NEW lax \in BOOLEAN, Sound(m, p, asked, lax),
         asked \subseteq [pair : Peer, tlv : Tlv], Ends(m)
  PROVE  /\ Sound(Memory', p, asked', lax)
         /\ sent' \subseteq [to : Peer, tlv : Tlv, alive : BOOLEAN]
         /\ asked' \subseteq [pair : Peer, tlv : Tlv]
         /\ lax \/ \A s \in sent' : s.alive
         /\ DOMAIN answer' = DOMAIN m.answer
         /\ \A k \in DOMAIN m.answer : answer'[k].tlv = m.answer[k].tlv
         /\ m.answer = <<>> => answer' = <<>>
<1>1. m \in Mem /\ m.out \subseteq [to : Peer, tlv : Tlv, alive : BOOLEAN]
  BY MemFields DEF Sound, MemOK
<1>2. /\ live' = Settled(m).live /\ answer' = Settled(m).answer
      /\ history' = Settled(m).history /\ Settled(m).out = {}
      /\ sent' = m.out /\ asked' = Recalled(m, asked)
  BY DEF Ends, Settled, Recalled, Gone, Used
<1>3. Memory' = Settled(m)
  <2>1. Memory' = [live |-> live', answer |-> answer', history |-> history',
                   out |-> {}]
    BY DEF Memory
  <2>2. Settled(m) = [live |-> Settled(m).live, answer |-> Settled(m).answer,
                      history |-> Settled(m).history, out |-> Settled(m).out]
    BY DEF Settled
  <2>. QED
    BY <1>2, <2>1, <2>2
<1>4. /\ Sound(Settled(m), p, Recalled(m, asked), lax)
      /\ DOMAIN Settled(m).answer = DOMAIN m.answer
      /\ \A k \in DOMAIN m.answer : Settled(m).answer[k].tlv = m.answer[k].tlv
  BY SettledSound
<1>5. Sound(Memory', p, asked', lax)
  BY <1>2, <1>3, <1>4
<1>6. asked' \subseteq [pair : Peer, tlv : Tlv]
  BY <1>1, <1>2 DEF Recalled, Gone
<1>7. lax \/ \A s \in sent' : s.alive
  BY <1>2 DEF Sound, OutAlive
<1>8. m.answer = <<>> => answer' = <<>>
  <2>. SUFFICES ASSUME m.answer = <<>> PROVE answer' = <<>>
    OBVIOUS
  <2>1. DOMAIN answer' = {}
    BY <1>2, <1>4
  <2>2. answer' = [k \in DOMAIN m.answer |-> [m.answer[k] EXCEPT !.obj = Address(m, @)]]
    BY <1>2 DEF Settled, Renumber
  <2>3. answer' \in Seq(Entries)
    <3>1. Settled(m) \in Mem
      BY <1>4 DEF Sound, MemOK
    <3>. QED
      BY <1>2, <3>1, MemFields
  <2>4. Len(answer') = 0
    BY <2>1, <2>3, SeqFacts
  <2>. QED
    BY <2>3, <2>4, EmptySeq
<1>. QED
  BY <1>1, <1>2, <1>4, <1>5, <1>6, <1>7, <1>8

\* The rest of a datagram, after its first TLV.
LEMMA TailFacts ==
  ASSUME NEW r \in Seq(Entries), r # <<>>
  PROVE  /\ Head(r) \in Entries
         /\ 1 \in DOMAIN r /\ Head(r) = r[1]
         /\ Tail(r) \in Seq(Entries)
         /\ \A j \in DOMAIN Tail(r) : j + 1 \in DOMAIN r /\ Tail(r)[j] = r[j + 1]
         /\ Ordered(r) =>
              /\ Ordered(Tail(r))
              /\ \A j \in DOMAIN Tail(r) :
                   /\ Number[Head(r).tlv.type] >= Number[Tail(r)[j].tlv.type]
                   /\ Tail(r)[j].tlv # Head(r).tlv
<1>. DEFINE n == Len(r)
            t == Tail(r)
<1>1. n \in Nat /\ DOMAIN r = 1 .. n /\ n # 0 /\ \A k \in 1 .. n : r[k] \in Entries
  BY SeqFacts, EmptySeq
<1>2. /\ t \in Seq(Entries) /\ Len(t) = n - 1
      /\ \A j \in 1 .. n - 1 : t[j] = r[j + 1]
  BY <1>1, HeadTailProperties
<1>3. DOMAIN t = 1 .. n - 1
  BY <1>2, SeqFacts
<1>4. Head(r) = r[1]
  BY <1>1
<1>. HIDE DEF n, t
<1>5. \A j \in DOMAIN t : j + 1 \in DOMAIN r /\ t[j] = r[j + 1]
  BY <1>1, <1>2, <1>3
<1>6. ASSUME Ordered(r)
      PROVE  /\ Ordered(t)
             /\ \A j \in DOMAIN t :
                  /\ Number[r[1].tlv.type] >= Number[t[j].tlv.type]
                  /\ t[j].tlv # r[1].tlv
  <2>1. ASSUME NEW j \in DOMAIN t
        PROVE  Number[r[1].tlv.type] >= Number[t[j].tlv.type] /\ t[j].tlv # r[1].tlv
    <3>1. 1 \in DOMAIN r /\ j + 1 \in DOMAIN r /\ 1 < j + 1 /\ t[j] = r[j + 1]
      BY <1>1, <1>3, <1>5
    <3>. QED
      BY <1>6, <3>1 DEF Ordered
  <2>2. ASSUME NEW j \in DOMAIN t, NEW k \in DOMAIN t, j < k
        PROVE  Number[t[j].tlv.type] >= Number[t[k].tlv.type] /\ t[j].tlv # t[k].tlv
    <3>1. j + 1 < k + 1
      BY <1>1, <1>3, <2>2
    <3>. QED
      BY <1>5, <1>6, <3>1 DEF Ordered
  <2>. QED
    BY <2>1, <2>2 DEF Ordered
<1>. QED
  BY <1>1, <1>2, <1>4, <1>5, <1>6 DEF t

\* A TLV is handled with the memory m as a result.
LEMMA HandledInv ==
  ASSUME Inv, at = "handling", received # <<>>, received' = Tail(received),
         UNCHANGED <<at, voisins, pair, rounds, any>>,
         NEW m, Sound(m, pair, asked, any), Ends(m),
         AllSpare(Tail(received), m.answer)
  PROVE  Inv'
<1>1. Typed /\ any \in BOOLEAN /\ received \in Seq(Entries)
      /\ asked \subseteq [pair : Peer, tlv : Tlv]
  BY DEF Inv, Typed
<1>2. /\ Sound(Memory', pair, asked', any)
      /\ sent' \subseteq [to : Peer, tlv : Tlv, alive : BOOLEAN]
      /\ asked' \subseteq [pair : Peer, tlv : Tlv]
      /\ any \/ \A s \in sent' : s.alive
      /\ DOMAIN answer' = DOMAIN m.answer
      /\ \A k \in DOMAIN m.answer : answer'[k].tlv = m.answer[k].tlv
  BY <1>1, EndsSound
<1>3. /\ received' \in Seq(Entries)
      /\ Ordered(received')
      /\ \A j \in DOMAIN received' : \E k \in DOMAIN received : received'[j] = received[k]
  BY <1>1, TailFacts DEF Inv
<1>4. Typed'
  BY <1>1, <1>2, <1>3 DEF Typed
<1>5. any' \/ \A j \in DOMAIN received' : received'[j].tlv.id # AnyId
  BY <1>3 DEF Inv
<1>6. AllSpare(received', answer')
  BY <1>2 DEF AllSpare
<1>7. SentAlive'
  BY <1>2 DEF SentAlive
<1>8. Sound(Memory', pair', asked', any')
  BY <1>2
<1>. QED
  BY <1>3, <1>4, <1>5, <1>6, <1>7, <1>8 DEF Inv

-----------------------------------------------------------------------------
(* Each TLV that is handled.                                               *)

\* What holds when a TLV is handled that is not from the node itself.
LEMMA Handling ==
  ASSUME Inv, at = "handling", received # <<>>
  PROVE  /\ Sound(Memory, pair, asked, any) /\ any \in BOOLEAN
         /\ pair \in Peer \cup {None}
         /\ AllSpare(Tail(received), answer)
         /\ Head(received) \in Entries /\ Head(received).tlv \in Tlv
         /\ any \/ receive_id # AnyId
         /\ \A k \in DOMAIN answer : Spares(Head(received).tlv, answer[k].tlv)
         /\ \A j \in DOMAIN Tail(received) :
              /\ Tail(received)[j].tlv \in Tlv
              /\ Number[Head(received).tlv.type] >= Number[Tail(received)[j].tlv.type]
              /\ Tail(received)[j].tlv # Head(received).tlv
         /\ Memory.answer = answer /\ Memory.history = history /\ Memory.live = live
<1>1. received \in Seq(Entries) /\ Ordered(received) /\ pair \in Peer \cup {None}
  BY DEF Inv, Typed
<1>2. /\ Head(received) \in Entries
      /\ 1 \in DOMAIN received /\ Head(received) = received[1]
      /\ Tail(received) \in Seq(Entries)
      /\ \A j \in DOMAIN Tail(received) :
           j + 1 \in DOMAIN received /\ Tail(received)[j] = received[j + 1]
      /\ \A j \in DOMAIN Tail(received) :
           /\ Number[Head(received).tlv.type] >= Number[Tail(received)[j].tlv.type]
           /\ Tail(received)[j].tlv # Head(received).tlv
  BY <1>1, TailFacts
<1>3. \A j \in DOMAIN Tail(received) : Tail(received)[j] \in Entries
  BY <1>2, SeqFacts
<1>4. \A e \in Entries : e.tlv \in Tlv
  BY EntryFields
<1>5. AllSpare(Tail(received), answer)
  BY <1>2 DEF Inv, AllSpare
<1>6. \A k \in DOMAIN answer : Spares(Head(received).tlv, answer[k].tlv)
  BY <1>2 DEF Inv, AllSpare
<1>7. any \/ receive_id # AnyId
  BY <1>2 DEF Inv, receive_id
<1>8. Sound(Memory, pair, asked, any) /\ any \in BOOLEAN
  BY DEF Inv, Typed
<1>. QED
  BY <1>1, <1>2, <1>3, <1>4, <1>5, <1>6, <1>7, <1>8, MemoryFields

\* What is not a request does no harm in the answer.
LEMMA AddsSpare ==
  ASSUME NEW r, NEW n, NEW m, NEW x, AllSpare(r, m.answer), Adds(n, m, x),
         x.type # "NeighbourRequest",
         \A j \in DOMAIN r : Spares(r[j].tlv, x)
  PROVE  AllSpare(r, n.answer)
<1>. SUFFICES ASSUME NEW k \in DOMAIN n.answer
              PROVE  /\ n.answer[k].tlv.type # "NeighbourRequest"
                     /\ \A j \in DOMAIN r : Spares(r[j].tlv, n.answer[k].tlv)
  BY DEF AllSpare
<1>1. CASE n.answer[k].tlv = x
  BY <1>1
<1>2. CASE Has(m.answer, n.answer[k].tlv)
  BY <1>2 DEF Has, AllSpare
<1>. QED
  BY <1>1, <1>2 DEF Adds

LEMMA HandledNothing ==
  ASSUME Inv, at = "handling", received # <<>>, received' = Tail(received),
         UNCHANGED <<at, voisins, pair, rounds, any>>, Ends(Memory)
  PROVE  Inv'
<1>1. Sound(Memory, pair, asked, any) /\ AllSpare(Tail(received), Memory.answer)
  BY Handling
<1>. QED
  BY <1>1, HandledInv

\* A TLV x that is not a request is the answer.
LEMMA HandledAnswer ==
  ASSUME Inv, at = "handling", received # <<>>, received' = Tail(received),
         UNCHANGED <<at, voisins, pair, rounds, any>>,
         NEW x \in Tlv, x.type \notin Requests, Ends(TryToAddPackage(Memory, pair, x))
  PROVE  Inv'
<1>. DEFINE n == TryToAddPackage(Memory, pair, x)
<1>1. Sound(n, pair, asked, any) /\ Adds(n, Memory, x)
  BY Handling, TryToAddPackageSound
<1>2. AllSpare(Tail(received), Memory.answer)
  BY Handling
<1>3. x.type # "NeighbourRequest" /\ \A y : Spares(y, x)
  BY DEF Requests, Spares
<1>4. Ends(n)
  OBVIOUS
<1>. HIDE DEF n
<1>5. AllSpare(Tail(received), n.answer)
  BY <1>1, <1>2, <1>3, AddsSpare
<1>. QED
  BY <1>1, <1>4, <1>5, HandledInv

\* The requests of type t to the sender are not in the answer: they can be freed.
LEMMA HandledRemoval ==
  ASSUME Inv, at = "handling", received # <<>>, received' = Tail(received),
         UNCHANGED <<at, voisins, pair, rounds, any>>,
         NEW t, NEW i, \A k \in DOMAIN answer : answer[k].tlv.type # t,
         Ends(RemoveInHistory(Memory, t, i, pair))
  PROVE  Inv'
<1>. DEFINE n == RemoveInHistory(Memory, t, i, pair)
<1>1. Sound(Memory, pair, asked, any) /\ any \in BOOLEAN
      /\ Memory.answer = answer /\ AllSpare(Tail(received), answer)
  BY Handling
<1>2. Apart(Memory, t, i, pair)
  BY <1>1 DEF Sound, MemOK, Shared, Matches, Apart
<1>3. Sound(n, pair, asked, any) /\ n.answer = Memory.answer
  <2>1. any \/ Apart(Memory, t, i, pair)
    BY <1>2
  <2>. QED
    <3>1. Sound(n, pair, asked, any) /\ Removes(n, Memory, t, i, pair)
      BY <1>1, <2>1, RemoveSound
    <3>. HIDE DEF n
    <3>. QED
      BY <3>1 DEF Removes
<1>4. Ends(n)
  OBVIOUS
<1>. HIDE DEF n
<1>. QED
  BY <1>1, <1>3, <1>4, HandledInv

LEMMA NeighbourInv ==
  ASSUME Inv, ReceiveTLVNeighbour
  PROVE  Inv'
<1>1. /\ at = "handling" /\ received # <<>> /\ received' = Tail(received)
      /\ UNCHANGED <<at, voisins, pair, rounds, any>>
  BY DEF ReceiveTLVNeighbour, Handles
<1>2. CASE Ends(Memory)
  BY <1>1, <1>2, HandledNothing
<1>3. CASE Ends(RemoveInHistory(Memory, "NeighbourRequest", None, pair))
  <2>1. \A k \in DOMAIN answer : answer[k].tlv.type # "NeighbourRequest"
    BY DEF Inv, AllSpare
  <2>. QED
    BY <1>1, <1>3, <2>1, HandledRemoval
<1>. QED
  BY <1>2, <1>3 DEF ReceiveTLVNeighbour

LEMMA NodeStateInv ==
  ASSUME Inv, ReceiveTLVNodeState
  PROVE  Inv'
<1>1. /\ at = "handling" /\ received # <<>> /\ received' = Tail(received)
      /\ UNCHANGED <<at, voisins, pair, rounds, any>>
      /\ Head(received).tlv.type = "NodeState"
      /\ Ends(RemoveInHistory(Memory, "NodeStateRequest", receive_id, pair))
  BY DEF ReceiveTLVNodeState, Handles
<1>2. \A k \in DOMAIN answer : answer[k].tlv.type # "NodeStateRequest"
  <2>1. Number["NodeState"] = 8
    BY DEF Number
  <2>2. \A k \in DOMAIN answer : Spares(Head(received).tlv, answer[k].tlv)
    BY <1>1, Handling
  <2>. QED
    BY <1>1, <2>1, <2>2 DEF Spares
<1>. QED
  BY <1>1, <1>2, HandledRemoval

LEMMA NetworkStateRequestInv ==
  ASSUME Inv, ReceiveTLVNetworkStateRequest
  PROVE  Inv'
<1>1. /\ at = "handling" /\ received # <<>> /\ received' = Tail(received)
      /\ UNCHANGED <<at, voisins, pair, rounds, any>>
  BY DEF ReceiveTLVNetworkStateRequest, Handles
<1>2. PICK known \in SUBSET Id : Ends(AddHashes(Memory, pair, SetToSeq(known)))
  BY DEF ReceiveTLVNetworkStateRequest
<1>. DEFINE tab == SetToSeq(known)
            n == AddHashes(Memory, pair, tab)
<1>3. Ends(n)
  BY <1>2
<1>4. tab \in Seq(Id)
  <2>1. IsFiniteSet(known)
    BY FS_Subset, FiniteAssumption
  <2>2. tab \in Seq(known)
    BY <2>1, SetToSeqFacts
  <2>. HIDE DEF tab
  <2>. QED
    BY <2>2
<1>. HIDE DEF tab
<1>5. /\ Sound(Memory, pair, asked, any) /\ any \in BOOLEAN
      /\ pair \in Peer \cup {None}
      /\ AllSpare(Tail(received), Memory.answer)
  BY <1>1, Handling
<1>6. /\ Sound(n, pair, asked, any)
      /\ \A k \in DOMAIN n.answer :
           n.answer[k].tlv.type = "NodeHash" \/ Has(Memory.answer, n.answer[k].tlv)
  BY <1>4, <1>5, AddHashesSound
<1>. HIDE DEF n
<1>7. AllSpare(Tail(received), n.answer)
  <2>. SUFFICES ASSUME NEW k \in DOMAIN n.answer
                PROVE  /\ n.answer[k].tlv.type # "NeighbourRequest"
                       /\ \A j \in DOMAIN Tail(received) :
                            Spares(Tail(received)[j].tlv, n.answer[k].tlv)
    BY DEF AllSpare
  <2>1. CASE n.answer[k].tlv.type = "NodeHash"
    BY <2>1 DEF Spares
  <2>2. CASE Has(Memory.answer, n.answer[k].tlv)
    BY <1>5, <2>2 DEF Has, AllSpare
  <2>. QED
    BY <1>6, <2>1, <2>2
<1>. QED
  BY <1>1, <1>3, <1>6, <1>7, HandledInv

\* A fresh TLV x, for the sender.
LEMMA Fresh ==
  ASSUME Inv, at = "handling", received # <<>>, pair # None,
         NEW x \in Tlv
  PROVE  LET o == New(Memory)
             e == Entry(x, o, pair)
             a == Alloc(Memory, o)
         IN /\ Sound(a, pair, asked, any)
            /\ a.answer = answer /\ a.history = history
            /\ o \in a.live /\ o \notin Objects(answer) /\ o \notin Objects(history)
            /\ e \in Entries /\ e.tlv = x /\ e.obj = o /\ e.pair = pair
            /\ Request(e) = [pair |-> pair, tlv |-> x]
<1>. DEFINE o == New(Memory)
            e == Entry(x, o, pair)
<1>1. /\ Sound(Memory, pair, asked, any) /\ any \in BOOLEAN
      /\ pair \in Peer \cup {None}
      /\ Memory.answer = answer /\ Memory.history = history /\ Memory.live = live
  BY Handling
<1>2. Memory \in Mem /\ IsFiniteSet(Memory.live) /\ Distinct(history, live)
  BY <1>1 DEF Sound, MemOK
<1>3. o \in Nat \ {0} /\ o \notin live \cup Objects(answer)
  BY <1>1, <1>2, NewFacts
<1>4. o \notin Objects(history)
  BY <1>2, <1>3 DEF Objects, Distinct
<1>5. e \in Entries /\ e.tlv = x /\ e.obj = o /\ e.pair = pair
        /\ Request(e) = [pair |-> pair, tlv |-> x]
  BY <1>1, <1>3 DEF Entry, Entries, Request
<1>. HIDE DEF o
<1>6. /\ Sound(Alloc(Memory, o), pair, asked, any)
      /\ Alloc(Memory, o).answer = answer
      /\ Alloc(Memory, o).history = history
      /\ o \in Alloc(Memory, o).live
  BY <1>1, <1>3, AllocSound
<1>. QED
  BY <1>3, <1>4, <1>5, <1>6 DEF o

LEMMA NetworkHashInv ==
  ASSUME Inv, ReceiveTLVNetworkHash
  PROVE  Inv'
<1>. DEFINE x == T("NetworkStateRequest")
            o == New(Memory)
            e == Entry(x, o, pair)
            a == Alloc(Memory, o)
            m == RemoveInHistory(a, "NetworkStateRequest", None, pair)
            h == AddInHistory(m, e)
            n == Answer(h, pair, e)
<1>1. /\ at = "handling" /\ received # <<>> /\ received' = Tail(received)
      /\ UNCHANGED <<at, voisins, pair, rounds, any>>
      /\ Head(received).tlv.type = "NetworkHash"
      /\ pair # None
      /\ Ends(Memory) \/ Ends(n)
  BY DEF ReceiveTLVNetworkHash, Handles
<1>2. x \in Tlv /\ x = TI("NetworkStateRequest", None) /\ x.id = None
        /\ x.type = "NetworkStateRequest" /\ x.type \in Requests
  BY DEF T, TI, Tlv, Plain, WithId, Number, Requests
<1>. HIDE DEF x
<1>3. /\ Sound(a, pair, asked, any)
      /\ a.answer = answer /\ a.history = history
      /\ o \in a.live /\ o \notin Objects(answer) /\ o \notin Objects(history)
      /\ e \in Entries /\ e.tlv = x /\ e.obj = o /\ e.pair = pair
      /\ Request(e) = [pair |-> pair, tlv |-> x]
  BY <1>1, <1>2, Fresh
<1>. HIDE DEF o, e, a
<1>4. /\ any \in BOOLEAN /\ pair \in Peer \cup {None}
      /\ AllSpare(Tail(received), answer)
      /\ \A k \in DOMAIN answer : Spares(Head(received).tlv, answer[k].tlv)
      /\ Head(received).tlv \in Tlv
      /\ \A j \in DOMAIN Tail(received) :
           /\ Tail(received)[j].tlv \in Tlv
           /\ Number[Head(received).tlv.type] >= Number[Tail(received)[j].tlv.type]
           /\ Tail(received)[j].tlv # Head(received).tlv
  BY <1>1, Handling
<1>5. Apart(a, "NetworkStateRequest", None, pair)
  <2>1. \A k \in DOMAIN answer : answer[k].tlv.type # "NetworkStateRequest"
    <3>1. Number["NetworkHash"] = 4
      BY DEF Number
    <3>. QED
      BY <1>1, <1>4, <3>1 DEF Spares
  <2>. QED
    BY <1>3, <2>1 DEF Sound, MemOK, Shared, Matches, Apart
<1>6. Sound(m, pair, asked, any) /\ Removes(m, a, "NetworkStateRequest", None, pair)
  BY <1>3, <1>4, <1>5, RemoveSound
<1>. HIDE DEF m
<1>7. /\ m.answer = answer
      /\ o \in m.live /\ o \notin Objects(m.history)
      /\ \A k \in DOMAIN m.history : Request(m.history[k]) # Request(e)
  <2>1. None # AnyId /\ "NetworkStateRequest" \in Requests
    BY IdAssumption DEF Requests
  <2>. QED
    BY <1>2, <1>3, <1>6, <2>1 DEF Removes
<1>8. /\ Sound(h, pair, asked \cup {Request(e)}, any)
      /\ h.answer = answer /\ h.live = m.live
      /\ \E k \in DOMAIN h.history : h.history[k] = e
  <2>1. IsRequest(e) /\ e.pair \in Peer /\ e.obj \in m.live
          /\ e.obj \notin Objects(m.history)
    BY <1>1, <1>2, <1>3, <1>4, <1>7 DEF IsRequest
  <2>2. \A k \in DOMAIN m.history :
          e.tlv.id # AnyId => Request(m.history[k]) # Request(e)
    BY <1>7
  <2>3. \A j \in DOMAIN m.answer : m.answer[j].obj = e.obj => m.answer[j].tlv = e.tlv
    BY <1>3, <1>7 DEF Objects
  <2>4. IsNew(m, e)
    BY <1>3, <2>1, <2>2, <2>3 DEF IsNew
  <2>5. Sound(h, pair, asked \cup {Request(e)}, any) /\ Remembers(h, m, e)
    BY <1>4, <1>6, <2>4, AddInHistorySound
  <2>. HIDE DEF h
  <2>. QED
    BY <1>7, <2>5 DEF Remembers
<1>. HIDE DEF h
<1>9. Fits(h, pair, e, any)
  <2>1. \A k \in DOMAIN h.history : e.obj = h.history[k].obj => e.tlv = h.history[k].tlv
    BY <1>8 DEF Sound, MemOK, Distinct
  <2>. QED
    BY <1>1, <1>3, <1>7, <1>8, <2>1 DEF Fits
<1>10. /\ Sound(n, pair, asked \cup {Request(e)}, any)
       /\ Has(n.answer, e.tlv) /\ Adds(n, h, e.tlv)
  <2>1. e.obj \notin Objects(h.answer)
    BY <1>3, <1>8
  <2>2. Sound(n, pair, asked \cup {Request(e)}, any) /\ Takes(n, h, e)
    BY <1>4, <1>8, <1>9, <2>1, AnswerSound
  <2>. HIDE DEF n
  <2>. QED
    BY <2>2 DEF Takes
<1>11. Sound(n, pair, asked, any)
  BY <1>1, <1>3, <1>4, <1>10, SentSound
<1>12. AllSpare(Tail(received), n.answer)
  <2>1. ASSUME NEW j \in DOMAIN Tail(received)
        PROVE  Spares(Tail(received)[j].tlv, x)
    <3>. DEFINE y == Tail(received)[j].tlv
    <3>1. /\ y \in Tlv /\ Number[y.type] <= 4 /\ y # Head(received).tlv
          /\ Number[y.type] \in Nat
      <4>1. Number["NetworkHash"] = 4
        BY DEF Number
      <4>. QED
        BY <1>1, <1>4, <4>1, TlvFacts
    <3>. HIDE DEF y
    <3>2. y.type # "NetworkHash"
      BY <1>1, <1>4, <3>1 DEF Tlv, WithId, Plain
    <3>3. Number[y.type] # 4
      BY <3>1, <3>2 DEF Tlv, WithId, Plain, Number
    <3>4. Number[y.type] <= 3
      BY <3>1, <3>3
    <3>. QED
      BY <1>2, <3>4 DEF Spares, y
  <2>2. x.type # "NeighbourRequest"
    BY <1>2
  <2>. QED
    BY <1>3, <1>4, <1>8, <1>10, <2>1, <2>2, AddsSpare
<1>. HIDE DEF n
<1>13. CASE Ends(Memory)
  BY <1>1, <1>13, HandledNothing
<1>14. CASE Ends(n)
  BY <1>1, <1>11, <1>12, <1>14, HandledInv
<1>. QED
  BY <1>1, <1>13, <1>14

\* The new request is in the packet when the one of before is freed: it is
\* another TLV, as no request for this Id was in the answer yet.
LEMMA NodeHashInv ==
  ASSUME Inv, ReceiveTLVNodeHash
  PROVE  Inv'
<1>. DEFINE i == receive_id
            x == TI("NodeStateRequest", i)
            o == New(Memory)
            e == Entry(x, o, pair)
            a == Alloc(Memory, o)
            m == Answer(a, pair, e)
            r == RemoveInHistory(m, "NodeStateRequest", i, pair)
            n == AddInHistory(r, e)
<1>1. /\ at = "handling" /\ received # <<>> /\ received' = Tail(received)
      /\ UNCHANGED <<at, voisins, pair, rounds, any>>
      /\ Head(received).tlv.type = "NodeHash"
      /\ pair # None
      /\ \/ Ends(Memory)
         \/ Ends(TryToAddPackage(Memory, pair, TI("NodeState", i)))
         \/ Ends(n)
  BY DEF ReceiveTLVNodeHash, Handles
<1>2. /\ any \in BOOLEAN /\ pair \in Peer \cup {None}
      /\ AllSpare(Tail(received), answer)
      /\ \A k \in DOMAIN answer : Spares(Head(received).tlv, answer[k].tlv)
      /\ Head(received).tlv \in Tlv
      /\ any \/ i # AnyId
      /\ \A j \in DOMAIN Tail(received) :
           /\ Tail(received)[j].tlv \in Tlv
           /\ Number[Head(received).tlv.type] >= Number[Tail(received)[j].tlv.type]
           /\ Tail(received)[j].tlv # Head(received).tlv
  BY <1>1, Handling
<1>3. i \in Id /\ Head(received).tlv = TI("NodeHash", i)
  BY <1>1, <1>2 DEF Tlv, WithId, Plain, TI, receive_id
<1>. HIDE DEF i
<1>4. x \in Tlv /\ x.type = "NodeStateRequest" /\ x.id = i /\ x.type \in Requests
  BY <1>3 DEF TI, Tlv, WithId, Requests
<1>. HIDE DEF x
<1>5. /\ Sound(a, pair, asked, any)
      /\ a.answer = answer /\ a.history = history
      /\ o \in a.live /\ o \notin Objects(answer) /\ o \notin Objects(history)
      /\ e \in Entries /\ e.tlv = x /\ e.obj = o /\ e.pair = pair
      /\ Request(e) = [pair |-> pair, tlv |-> x]
  BY <1>1, <1>4, Fresh
<1>. HIDE DEF o, e, a
<1>6. Fits(a, pair, e, any)
  BY <1>1, <1>5 DEF Fits, Objects
<1>7. /\ Sound(m, pair, asked, any)
      /\ Has(m.answer, x)
      /\ Adds(m, a, x)
      /\ m.history = history
      /\ o \in m.live
      /\ \A k \in DOMAIN m.answer :
           m.answer[k] = e \/ \E j \in DOMAIN answer : m.answer[k] = answer[j]
  <2>1. e.obj \notin Objects(a.answer)
    BY <1>5
  <2>2. /\ Sound(m, pair, asked, any)
        /\ Takes(m, a, e)
    BY <1>2, <1>5, <1>6, <2>1, AnswerSound
  <2>. HIDE DEF m
  <2>. QED
    BY <1>5, <2>2 DEF Takes
<1>. HIDE DEF m
<1>8. any \/ Apart(m, "NodeStateRequest", i, pair)
  <2>. SUFFICES ASSUME i # AnyId, NEW j \in DOMAIN m.answer, NEW k \in DOMAIN history,
                       Matches(history[k], "NodeStateRequest", i, pair),
                       m.answer[j].obj = history[k].obj
                PROVE  FALSE
    BY <1>2, <1>7 DEF Apart
  <2>1. m.answer[j].obj # o
    BY <1>5 DEF Objects
  <2>2. PICK l \in DOMAIN answer : answer[l].obj = history[k].obj
    BY <1>5, <1>7, <2>1
  <2>3. answer[l].tlv = history[k].tlv
    BY <1>5, <2>2 DEF Sound, MemOK, Shared
  <2>4. answer[l].tlv.type = "NodeStateRequest" /\ answer[l].tlv.id = i
    <3>1. None # i
      BY <1>3, IdAssumption
    <3>. QED
      BY <2>3, <3>1 DEF Matches
  <2>. QED
    BY <1>2, <1>3, <2>4 DEF Spares
<1>9. Sound(r, pair, asked, any) /\ Removes(r, m, "NodeStateRequest", i, pair)
  BY <1>2, <1>7, <1>8, RemoveSound
<1>. HIDE DEF r
<1>10. /\ r.answer = m.answer
       /\ o \in r.live /\ o \notin Objects(r.history)
       /\ i # AnyId => \A k \in DOMAIN r.history : Request(r.history[k]) # Request(e)
  <2>1. "NodeStateRequest" \in Requests
    BY DEF Requests
  <2>. QED
    BY <1>5, <1>7, <1>9, <2>1 DEF Removes, x
<1>11. /\ Sound(n, pair, asked \cup {Request(e)}, any)
       /\ n.answer = m.answer
  <2>1. IsRequest(e) /\ e.pair \in Peer /\ e.obj \in r.live
          /\ e.obj \notin Objects(r.history)
    BY <1>1, <1>2, <1>4, <1>5, <1>10 DEF IsRequest
  <2>2. \A k \in DOMAIN r.history :
          e.tlv.id # AnyId => Request(r.history[k]) # Request(e)
    BY <1>4, <1>5, <1>10
  <2>3. \A j \in DOMAIN r.answer : r.answer[j].obj = e.obj => r.answer[j].tlv = e.tlv
    BY <1>5, <1>7, <1>10 DEF Objects
  <2>4. IsNew(r, e)
    BY <1>5, <2>1, <2>2, <2>3 DEF IsNew
  <2>5. Sound(n, pair, asked \cup {Request(e)}, any) /\ Remembers(n, r, e)
    BY <1>2, <1>9, <2>4, AddInHistorySound
  <2>. HIDE DEF n
  <2>. QED
    BY <1>10, <2>5 DEF Remembers
<1>. HIDE DEF n
<1>12. Sound(n, pair, asked, any)
  BY <1>1, <1>2, <1>5, <1>7, <1>11, SentSound
<1>13. AllSpare(Tail(received), n.answer)
  <2>1. ASSUME NEW j \in DOMAIN Tail(received)
        PROVE  Spares(Tail(received)[j].tlv, x)
    <3>1. Number["NodeHash"] = 6
      BY DEF Number
    <3>2. Number[Tail(received)[j].tlv.type] \in Nat
      BY <1>2, TlvFacts
    <3>. QED
      BY <1>1, <1>2, <1>3, <1>4, <3>1, <3>2 DEF Spares
  <2>2. x.type # "NeighbourRequest"
    BY <1>4
  <2>3. Adds(n, a, x)
    BY <1>7, <1>11 DEF Adds
  <2>. QED
    BY <1>2, <1>5, <2>1, <2>2, <2>3, AddsSpare
<1>14. CASE Ends(Memory)
  BY <1>1, <1>14, HandledNothing
<1>15. CASE Ends(TryToAddPackage(Memory, pair, TI("NodeState", i)))
  <2>1. TI("NodeState", i) \in Tlv /\ TI("NodeState", i).type \notin Requests
    BY <1>3 DEF TI, Tlv, WithId, Requests
  <2>. QED
    BY <1>1, <1>15, <2>1, HandledAnswer
<1>16. CASE Ends(n)
  BY <1>1, <1>12, <1>13, <1>16, HandledInv
<1>. QED
  BY <1>1, <1>14, <1>15, <1>16

-----------------------------------------------------------------------------
(* From one datagram to the next.                                          *)

LEMMA InitInv == Init => Inv
<1>. SUFFICES ASSUME Init PROVE Inv
  OBVIOUS
<1>1. /\ at = "select" /\ voisins = {} /\ pair = None /\ received = <<>>
      /\ answer = <<>> /\ history = <<>> /\ live = {} /\ sent = {} /\ asked = {}
      /\ rounds = FALSE /\ any = FALSE
  BY DEF Init
<1>2. <<>> \in Seq(Entries) /\ DOMAIN <<>> = {}
  OBVIOUS
<1>3. Typed
  BY <1>1, <1>2 DEF Typed
<1>4. Memory = [live |-> {}, answer |-> <<>>, history |-> <<>>, out |-> {}]
  BY <1>1 DEF Memory
<1>5. MemOK(Memory)
  <2>1. Memory \in Mem
    BY <1>2, <1>4 DEF Mem
  <2>2. IsFiniteSet(Memory.live) /\ BodyLength(Memory.answer) <= MAX_BODY
    BY <1>4, FS_EmptySet, BodyLengthEmpty, SizeAssumption
  <2>3. Distinct(Memory.history, Memory.live) /\ Shared(Memory)
    BY <1>2, <1>4 DEF Distinct, Shared
  <2>. QED
    BY <2>1, <2>2, <2>3 DEF MemOK
<1>6. Sound(Memory, pair, asked, any)
  BY <1>2, <1>4, <1>5 DEF Sound, Quiet, Remembered, AnswerAlive, OutAlive
<1>7. SentAlive /\ Ordered(received) /\ AllSpare(received, answer)
  BY <1>1, <1>2 DEF SentAlive, Ordered, AllSpare
<1>8. \A j \in DOMAIN received : received[j].tlv.id # AnyId
  BY <1>1, <1>2
<1>. QED
  BY <1>3, <1>6, <1>7, <1>8 DEF Inv

\* Between two datagrams nothing is to be answered.
LEMMA SelectSound ==
  ASSUME Inv, at = "select", NEW p, NEW lax \in BOOLEAN
  PROVE  Sound(Memory, p, asked, lax) /\ Memory.answer = <<>>
<1>1. answer = <<>> /\ any \in BOOLEAN /\ Sound(Memory, pair, asked, any)
  BY DEF Inv, Typed
<1>2. Memory.answer = <<>> /\ Memory.out = {} /\ DOMAIN <<>> = {}
  BY <1>1, MemoryFields
<1>3. Sound(Memory, p, asked, any)
  BY <1>1, <1>2, SoundEmpty
<1>4. AnswerAlive(Memory) /\ OutAlive(Memory)
  BY <1>2 DEF AnswerAlive, OutAlive
<1>. QED
  BY <1>2, <1>3, <1>4 DEF Sound

\* A step that ends between two datagrams.
LEMMA SelectInv ==
  ASSUME Inv, at' = "select", pair' = None, received' = <<>>, voisins' \subseteq Peer,
         rounds' \in BOOLEAN, any' = any,
         NEW m, NEW p, Sound(m, p, asked, any), m.answer = <<>>, Ends(m)
  PROVE  Inv'
<1>1. Typed /\ any \in BOOLEAN /\ asked \subseteq [pair : Peer, tlv : Tlv]
  BY DEF Inv, Typed
<1>2. /\ Sound(Memory', p, asked', any)
      /\ sent' \subseteq [to : Peer, tlv : Tlv, alive : BOOLEAN]
      /\ asked' \subseteq [pair : Peer, tlv : Tlv]
      /\ any \/ \A s \in sent' : s.alive
      /\ answer' = <<>>
  BY <1>1, EndsSound
<1>3. Memory'.answer = <<>>
  BY <1>2 DEF Memory
<1>4. Sound(Memory', None, asked', any)
  BY <1>1, <1>2, <1>3, SoundEmpty
<1>5. <<>> \in Seq(Entries) /\ DOMAIN <<>> = {}
  OBVIOUS
<1>6. Typed'
  BY <1>1, <1>2, <1>5 DEF Typed
<1>7. SentAlive' /\ Ordered(received') /\ AllSpare(received', answer')
  BY <1>2, <1>5 DEF SentAlive, Ordered, AllSpare
<1>8. \A j \in DOMAIN received' : received'[j].tlv.id # AnyId
  BY <1>5
<1>9. Sound(Memory', pair', asked', any')
  BY <1>4
<1>. QED
  BY <1>6, <1>7, <1>8, <1>9 DEF Inv

LEMMA EndOfPacketInv ==
  ASSUME Inv, EndOfPacket
  PROVE  Inv'
<1>. DEFINE n == SendAnswer(Memory, pair)
<1>1. /\ at' = "select" /\ pair' = None /\ received' = <<>> /\ Ends(n)
      /\ UNCHANGED <<voisins, rounds, any>>
  BY DEF EndOfPacket
<1>2. /\ Sound(Memory, pair, asked, any) /\ any \in BOOLEAN
      /\ pair \in Peer \cup {None} /\ voisins \subseteq Peer /\ rounds \in BOOLEAN
  BY DEF Inv, Typed
<1>3. Sound(n, pair, asked, any) /\ n.answer = <<>>
  BY <1>2, SendAnswerSound
<1>. HIDE DEF n
<1>. QED
  BY <1>1, <1>2, <1>3, SelectInv

LEMMA WarningTlv ==
  /\ T("Warning") \in Tlv
  /\ T("Warning").type \notin Requests
  /\ \A y : Spares(y, T("Warning"))
BY DEF T, Tlv, Plain, WithId, Number, Requests, Spares

LEMMA ReceiveNoPacketInv ==
  ASSUME Inv, NEW p \in Peer \cup {None}, ReceiveNoPacket(p)
  PROVE  Inv'
<1>. DEFINE t == TryToAddPackage(Memory, p, T("Warning"))
            n == SendAnswer(t, p)
<1>1. /\ at = "select" /\ voisins' = voisins \cup ({p} \ {None})
      /\ UNCHANGED <<at, pair, received, rounds, any>>
      /\ Ends(n) \/ Ends(Memory)
  BY DEF ReceiveNoPacket, Admit
<1>2. /\ voisins' \subseteq Peer /\ rounds' \in BOOLEAN /\ any \in BOOLEAN
      /\ at' = "select" /\ pair' = None /\ received' = <<>> /\ any' = any
  BY <1>1 DEF Inv, Typed
<1>3. Sound(Memory, p, asked, any) /\ Memory.answer = <<>>
  BY <1>1, <1>2, SelectSound
<1>4. Sound(t, p, asked, any)
  BY <1>2, <1>3, WarningTlv, TryToAddPackageSound
<1>. HIDE DEF t
<1>5. Sound(n, p, asked, any) /\ n.answer = <<>>
  BY <1>2, <1>4, SendAnswerSound
<1>. HIDE DEF n
<1>6. CASE Ends(n)
  BY <1>2, <1>5, <1>6, SelectInv
<1>7. CASE Ends(Memory)
  BY <1>2, <1>3, <1>7, SelectInv
<1>. QED
  BY <1>1, <1>6, <1>7

LEMMA ReceiveInv ==
  ASSUME Inv, NEW p \in Peer \cup {None}, NEW b \in Bodies, Receive(p, b)
  PROVE  Inv'
<1>. DEFINE m == IF Wrong \in ToSet(b) THEN TryToAddPackage(Memory, p, T("Warning"))
                 ELSE Memory
<1>1. /\ at = "select" /\ at' = "handling" /\ voisins' = voisins \cup ({p} \ {None})
      /\ pair' = p /\ received' = Paquet(b) /\ rounds' = rounds
      /\ any' = \E k \in DOMAIN b : b[k].id = AnyId
      /\ Ends(m)
  BY DEF Receive, Admit
<1>2. Typed /\ asked \subseteq [pair : Peer, tlv : Tlv] /\ any' \in BOOLEAN
  BY <1>1 DEF Inv, Typed
<1>3. PICK l \in BOOLEAN : l = any'
  BY <1>2
<1>4. Sound(Memory, p, asked, l) /\ Memory.answer = <<>>
  BY <1>1, SelectSound
<1>5. Sound(m, p, asked, l) /\ \A k \in DOMAIN m.answer : m.answer[k].tlv = T("Warning")
  <2>1. CASE Wrong \in ToSet(b)
    <3>. DEFINE t == TryToAddPackage(Memory, p, T("Warning"))
    <3>1. Sound(t, p, asked, l) /\ Adds(t, Memory, T("Warning"))
      BY <1>4, WarningTlv, TryToAddPackageSound
    <3>. HIDE DEF t
    <3>2. \A x : ~ Has(Memory.answer, x)
      BY <1>4 DEF Has
    <3>3. \A k \in DOMAIN t.answer : t.answer[k].tlv = T("Warning")
      BY <3>1, <3>2 DEF Adds
    <3>. QED
      BY <2>1, <3>1, <3>3 DEF t
  <2>2. CASE Wrong \notin ToSet(b)
    BY <1>4, <2>2
  <2>. QED
    BY <2>1, <2>2
<1>. HIDE DEF m
<1>6. /\ Sound(Memory', p, asked', l)
      /\ sent' \subseteq [to : Peer, tlv : Tlv, alive : BOOLEAN]
      /\ asked' \subseteq [pair : Peer, tlv : Tlv]
      /\ l \/ \A s \in sent' : s.alive
      /\ DOMAIN answer' = DOMAIN m.answer
      /\ \A k \in DOMAIN m.answer : answer'[k].tlv = m.answer[k].tlv
  BY <1>1, <1>2, <1>5, EndsSound
<1>7. /\ received' \in Seq(Entries) /\ Ordered(received')
      /\ \A k \in DOMAIN received' : \E j \in DOMAIN b : received'[k].tlv = b[j]
  BY <1>1, BodiesAssumption, PaquetFacts
<1>8. Typed'
  BY <1>1, <1>2, <1>6, <1>7 DEF Typed
<1>9. any' \/ \A j \in DOMAIN received' : received'[j].tlv.id # AnyId
  BY <1>1, <1>7
<1>10. AllSpare(received', answer')
  <2>1. T("Warning").type # "NeighbourRequest"
    BY DEF T
  <2>. QED
    BY <1>5, <1>6, <2>1, WarningTlv DEF AllSpare
<1>11. SentAlive'
  BY <1>3, <1>6 DEF SentAlive
<1>12. Sound(Memory', pair', asked', any')
  BY <1>1, <1>3, <1>6
<1>. QED
  BY <1>7, <1>8, <1>9, <1>10, <1>11, <1>12 DEF Inv

LEMMA Every20SecondsInv ==
  ASSUME Inv, Every20Seconds
  PROVE  Inv'
<1>1. PICK gone \in SUBSET voisins :
        /\ voisins' = voisins \ gone
        /\ \/ Ends(ForgetNeighbours(ReaskAll, gone))
           \/ \E p \in voisins \ gone :
                Ends(AskNeighbour(ForgetNeighbours(ReaskAll, gone), p))
  BY DEF Every20Seconds
<1>. DEFINE m == ForgetNeighbours(ReaskAll, gone)
<1>2. /\ at = "select" /\ rounds' = ~ rounds /\ UNCHANGED <<at, pair, received, any>>
  BY DEF Every20Seconds
<1>3. /\ voisins \subseteq Peer /\ any \in BOOLEAN /\ answer = <<>>
      /\ at' = "select" /\ pair' = None /\ received' = <<>> /\ any' = any
      /\ voisins' \subseteq Peer /\ rounds' \in BOOLEAN
  BY <1>1, <1>2 DEF Inv, Typed
<1>4. Sound(Memory, None, asked, any)
  BY <1>2, <1>3, SelectSound
<1>5. Sound(ReaskAll, None, asked, any) /\ ReaskAll.answer = <<>>
  BY <1>3, <1>4, ReaskAllSound
<1>6. Sound(m, None, asked, any) /\ m.answer = <<>>
  BY <1>3, <1>5, ForgetSound
<1>7. CASE Ends(m)
  <2>. HIDE DEF m
  <2>. QED
    BY <1>3, <1>6, <1>7, SelectInv
<1>8. CASE \E p \in voisins \ gone : Ends(AskNeighbour(m, p))
  <2>. HIDE DEF m
  <2>1. PICK p \in Peer : Ends(AskNeighbour(m, p))
    BY <1>3, <1>8
  <2>2. Sound(AskNeighbour(m, p), None, asked, any) /\ AskNeighbour(m, p).answer = <<>>
    BY <1>3, <1>6, AskNeighbourSound
  <2>. QED
    BY <1>3, <2>1, <2>2, SelectInv
<1>. QED
  BY <1>1, <1>7, <1>8

LEMMA HandleInv ==
  ASSUME Inv, Handle
  PROVE  Inv'
<1>1. CASE ReceiveFromOneself
  BY <1>1, HandledNothing DEF ReceiveFromOneself
<1>2. CASE ReceiveTLVWarning
  BY <1>2, HandledNothing DEF ReceiveTLVWarning, Handles
<1>3. CASE ReceiveTLVNeighbourRequest
  <2>1. T("Neighbour") \in Tlv /\ T("Neighbour").type \notin Requests
    BY DEF T, Tlv, Plain, WithId, Number, Requests
  <2>. QED
    BY <1>3, <2>1, HandledAnswer DEF ReceiveTLVNeighbourRequest, Handles
<1>4. CASE ReceiveTLVNeighbour
  BY <1>4, NeighbourInv
<1>5. CASE ReceiveTLVNetworkHash
  BY <1>5, NetworkHashInv
<1>6. CASE ReceiveTLVNetworkStateRequest
  BY <1>6, NetworkStateRequestInv
<1>7. CASE ReceiveTLVNodeHash
  BY <1>7, NodeHashInv
<1>8. CASE ReceiveTLVNodeStateRequest
  <2>1. /\ at = "handling" /\ received # <<>> /\ received' = Tail(received)
        /\ UNCHANGED <<at, voisins, pair, rounds, any>>
        /\ Head(received).tlv.type = "NodeStateRequest"
        /\ \/ Ends(TryToAddPackage(Memory, pair, TI("NodeState", receive_id)))
           \/ Ends(Memory)
    BY <1>8 DEF ReceiveTLVNodeStateRequest, Handles
  <2>2. Head(received).tlv \in Tlv
    BY <2>1, Handling
  <2>3. receive_id \in Id
    BY <2>1, <2>2 DEF Tlv, WithId, Plain, receive_id
  <2>4. TI("NodeState", receive_id) \in Tlv
          /\ TI("NodeState", receive_id).type \notin Requests
    BY <2>3 DEF TI, Tlv, WithId, Requests
  <2>5. CASE Ends(Memory)
    BY <2>1, <2>5, HandledNothing
  <2>6. CASE Ends(TryToAddPackage(Memory, pair, TI("NodeState", receive_id)))
    BY <2>1, <2>4, <2>6, HandledAnswer
  <2>. QED
    BY <2>1, <2>5, <2>6
<1>9. CASE ReceiveTLVNodeState
  BY <1>9, NodeStateInv
<1>10. CASE EndOfPacket
  BY <1>10, EndOfPacketInv
<1>. QED
  BY <1>1, <1>2, <1>3, <1>4, <1>5, <1>6, <1>7, <1>8, <1>9, <1>10 DEF Handle

LEMMA StutterInv ==
  ASSUME Inv, UNCHANGED vars
  PROVE  Inv'
<1>1. Memory' = Memory
  BY DEF vars, Memory
<1>2. UNCHANGED <<at, voisins, pair, received, answer, sent, asked, rounds, any>>
  BY DEF vars
<1>3. Sound(Memory', pair', asked', any')
  BY <1>1, <1>2 DEF Inv
<1>. QED
  BY <1>2, <1>3 DEF Inv, Typed, SentAlive

LEMMA NextInv == Inv /\ [Next]_vars => Inv'
<1>. SUFFICES ASSUME Inv, [Next]_vars PROVE Inv'
  OBVIOUS
<1>1. CASE Every20Seconds
  BY <1>1, Every20SecondsInv
<1>2. ASSUME NEW p \in Peer \cup {None}, ReceiveNoPacket(p) PROVE Inv'
  BY <1>2, ReceiveNoPacketInv
<1>3. ASSUME NEW p \in Peer \cup {None}, NEW b \in Bodies, Receive(p, b) PROVE Inv'
  BY <1>3, ReceiveInv
<1>4. CASE Handle
  BY <1>4, HandleInv
<1>5. CASE UNCHANGED vars
  BY <1>5, StutterInv
<1>. QED
  BY <1>1, <1>2, <1>3, <1>4, <1>5 DEF Next

LEMMA InvHolds == Spec => []Inv
BY InitInv, NextInv, PTL DEF Spec

-----------------------------------------------------------------------------
(* What follows from it.                                                   *)

\* The state is well formed: between two datagrams nothing is left to answer, and
\* the answer being put together is never longer than a packet may be.
THEOREM EventLoopTypeCorrect == Spec => []TypeOK
<1>1. Inv => TypeOK
  <2>. SUFFICES ASSUME Inv PROVE TypeOK
    OBVIOUS
  <2>1. Typed /\ MemOK(Memory) /\ Memory \in Mem
    BY DEF Inv, Sound, MemOK
  <2>2. live \subseteq Nat \ {0} /\ answer \in Seq(Entries) /\ history \in Seq(Entries)
    BY <2>1, MemFields, MemoryFields
  <2>3. BodyLength(answer) <= MAX_BODY
    BY <2>1, MemoryFields DEF MemOK
  <2>. QED
    BY <2>1, <2>2, <2>3 DEF TypeOK, Typed
<1>. QED
  BY <1>1, InvHolds, PTL

\* build and destroyPackage free no TLV that the history still points to, and no
\* two entries of the history are one TLV.
THEOREM HistoryAliveHolds == Spec => []HistoryAlive
<1>1. Inv => HistoryAlive
  BY MemoryFields DEF Inv, Sound, MemOK, Distinct, HistoryAlive
<1>. QED
  BY <1>1, InvHolds, PTL

\* The same is not asked twice of one neighbour: each new request replaces the
\* one of before.
THEOREM OneRequestHolds == Spec => []OneRequest
<1>1. Inv => OneRequest
  BY MemoryFields DEF Inv, Sound, MemOK, Distinct, OneRequest
<1>. QED
  BY <1>1, InvHolds, PTL

\* No request gets lost between the history and the packets: what is remembered
\* has been sent when the datagram is dealt with.
THEOREM RememberedWasSentHolds == Spec => []RememberedWasSent
<1>1. Inv => RememberedWasSent
  <2>. SUFFICES ASSUME Inv, at = "select", NEW k \in DOMAIN history
                PROVE  Request(history[k]) \in asked
    BY DEF RememberedWasSent
  <2>1. Remembered(Memory, pair, asked) /\ Gone(Memory) = {} /\ pair = None
    BY MemoryFields DEF Inv, Sound, Typed, Gone
  <2>. QED
    BY <2>1, MemoryFields DEF Remembered
<1>. QED
  BY <1>1, InvHolds, PTL

\* A request is not freed between the moment it is put in the answer and the
\* moment the answer is sent, as TLVs are handled by descending type; only a
\* datagram that has the Id AnyId in it is excepted.
THEOREM SentAliveHolds == Spec => []SentAlive
<1>1. Inv => SentAlive
  BY DEF Inv
<1>. QED
  BY <1>1, InvHolds, PTL
=============================================================================
