--------------------------- MODULE SequenceLemmas ---------------------------
(***************************************************************************)
(* Lemmas about naturals and sequences that the proofs about packets need: *)
(* induction, functions defined by recursion, the operators of the         *)
(* community modules that put an element in a sequence or take it out.     *)
(***************************************************************************)
EXTENDS Integers, SequencesExt, FiniteSetTheorems, SequenceTheorems, TLAPS

-----------------------------------------------------------------------------
(* Induction over the naturals, from the theorem of the library that their *)
(* order is well-founded: what is shown by induction is put as a set.      *)

\* A set of naturals has a smallest one.
LEMMA Smallest ==
  ASSUME NEW S \in SUBSET Nat, S # {}
  PROVE  \E x \in S : \A y \in S : x <= y
<1>1. \A R, U : IsWellFoundedOn(R, U) =>
        \A V : V \subseteq U /\ V # {} =>
          \E x \in V : \A y \in V : ~ (<<y, x>> \in R)
  BY WFMin
<1>. DEFINE R == {r \in Nat \X Nat : r[1] < r[2]}
<1>2. IsWellFoundedOn(R, Nat)
  BY NatLessThanWellFounded, Zenon DEF OpToRel
<1>3. PICK x \in S : \A y \in S : ~ (<<y, x>> \in R)
  <2>. HIDE DEF R
  <2>. QED
    BY <1>1, <1>2
<1>4. \A y \in S : x <= y
  <2>. SUFFICES ASSUME NEW y \in S, ~ (x <= y) PROVE FALSE
    OBVIOUS
  <2>1. x \in Nat /\ y \in Nat /\ y < x
    OBVIOUS
  <2>2. <<y, x>> \in Nat \X Nat /\ <<y, x>>[1] < <<y, x>>[2]
    BY <2>1
  <2>3. <<y, x>> \in R
    BY <2>2, Zenon
  <2>. QED
    BY <1>3, <2>3
<1>. QED
  BY <1>4

LEMMA MinFacts ==
  ASSUME NEW S \in SUBSET Nat, S # {}
  PROVE  Min(S) \in S /\ \A y \in S : Min(S) <= y
BY Smallest DEF Min

LEMMA Induction ==
  ASSUME NEW S \in SUBSET Nat, 0 \in S, \A n \in S : n + 1 \in S
  PROVE  S = Nat
<1>. SUFFICES ASSUME Nat \ S # {} PROVE FALSE
  OBVIOUS
<1>1. PICK x \in Nat \ S : \A y \in Nat \ S : x <= y
  BY Smallest
<1>2. x - 1 \in S /\ (x - 1) + 1 = x
  BY <1>1
<1>. QED
  BY <1>1, <1>2

\* Induction along a function that starts in A and does not leave it.
LEMMA StaysIn ==
  ASSUME NEW A, NEW n \in Nat, NEW f, f[0] \in A,
         \A k \in 1 .. n : f[k - 1] \in A => f[k] \in A
  PROVE  \A k \in 0 .. n : f[k] \in A
<1>. DEFINE S == {k \in Nat : k <= n => f[k] \in A}
<1>1. 0 \in S
  OBVIOUS
<1>2. ASSUME NEW k \in S PROVE k + 1 \in S
  <2>. SUFFICES ASSUME k + 1 <= n PROVE f[k + 1] \in A
    OBVIOUS
  <2>1. f[k] \in A /\ k + 1 \in 1 .. n /\ (k + 1) - 1 = k
    OBVIOUS
  <2>. QED
    BY <2>1
<1>3. S = Nat
  <2>. HIDE DEF S
  <2>1. S \in SUBSET Nat
    BY DEF S
  <2>. QED
    BY <1>1, <1>2, <2>1, Induction
<1>. QED
  BY <1>3

\* f is what comes of a by n times F.
Iterates(f, A, a, n, F) ==
  /\ f \in [0 .. n -> A]
  /\ f[0] = a
  /\ \A k \in 1 .. n : f[k] = F[<<f[k - 1], k>>]

\* A function defined by recursion over 0 .. n exists.
LEMMA Recursion ==
  ASSUME NEW A, NEW a \in A, NEW n \in Nat, NEW F \in [A \X (1 .. n) -> A]
  PROVE  \E f : Iterates(f, A, a, n, F)
<1>. USE DEF Iterates
<1>. DEFINE Is(f, m) == Iterates(f, A, a, m, F)
            S == {m \in Nat : m <= n => \E f : Is(f, m)}
<1>1. 0 \in S
  <2>1. Is([k \in 0 .. 0 |-> a], 0)
    OBVIOUS
  <2>. QED
    BY <2>1
<1>2. ASSUME NEW m \in S PROVE m + 1 \in S
  <2>. SUFFICES ASSUME m + 1 <= n PROVE \E f : Is(f, m + 1)
    OBVIOUS
  <2>1. PICK f : Is(f, m)
    OBVIOUS
  <2>. DEFINE g == [k \in 0 .. m + 1 |->
                      IF k <= m THEN f[k] ELSE F[<<f[m], m + 1>>]]
  <2>2. F[<<f[m], m + 1>>] \in A
    <3>1. f[m] \in A /\ m + 1 \in 1 .. n
      BY <2>1
    <3>. QED
      BY <3>1
  <2>3. g \in [0 .. m + 1 -> A] /\ g[0] = a
    BY <2>1, <2>2
  <2>4. ASSUME NEW k \in 1 .. m + 1 PROVE g[k] = F[<<g[k - 1], k>>]
    <3>1. CASE k <= m
      BY <2>1, <3>1
    <3>2. CASE k = m + 1
      BY <2>1, <3>2
    <3>. QED
      BY <3>1, <3>2
  <2>5. Is(g, m + 1)
    BY <2>3, <2>4
  <2>. QED
    BY <2>5
<1>3. S = Nat
  <2>. HIDE DEF S
  <2>1. S \in SUBSET Nat
    BY DEF S
  <2>. QED
    BY <1>1, <1>2, <2>1, Induction
<1>. HIDE DEF Iterates
<1>4. n \in {m \in Nat : m <= n => \E f : Is(f, m)}
  BY <1>3
<1>. QED
  BY <1>4

-----------------------------------------------------------------------------
(* Sequences.                                                              *)

LEMMA SeqFacts ==
  ASSUME NEW S, NEW c \in Seq(S)
  PROVE  /\ Len(c) \in Nat
         /\ DOMAIN c = 1 .. Len(c)
         /\ \A k \in 1 .. Len(c) : c[k] \in S
         /\ c = [k \in 1 .. Len(c) |-> c[k]]
BY LenProperties

\* Two sequences, one after the other.
LEMMA ConcatFacts ==
  ASSUME NEW S, NEW a \in Seq(S), NEW b \in Seq(S)
  PROVE  /\ a \o b \in Seq(S)
         /\ Len(a \o b) = Len(a) + Len(b)
         /\ \A k \in 1 .. Len(a) : (a \o b)[k] = a[k]
         /\ \A k \in 1 .. Len(b) : (a \o b)[Len(a) + k] = b[k]
OBVIOUS

\* d is x, y and then c.
Headed(d, x, y, c) ==
  /\ Len(d) = 2 + Len(c)
  /\ \A k \in 1 .. 2 + Len(c) :
       d[k] = IF k = 1 THEN x ELSE IF k = 2 THEN y ELSE c[k - 2]

LEMMA HeadedFacts ==
  ASSUME NEW S, NEW x \in S, NEW y \in S, NEW c \in Seq(S)
  PROVE  /\ <<x>> \o <<y>> \o c \in Seq(S)
         /\ Headed(<<x>> \o <<y>> \o c, x, y, c)
<1>. DEFINE h == <<x>> \o <<y>>
            d == h \o c
<1>1. h \in Seq(S) /\ Len(h) = 2 /\ h[1] = x /\ h[2] = y
  OBVIOUS
<1>2. Len(c) \in Nat
  OBVIOUS
<1>. HIDE DEF h
<1>. HIDE DEF d
<1>3. /\ d \in Seq(S)
      /\ Len(d) = 2 + Len(c)
      /\ \A k \in 1 .. 2 : d[k] = h[k]
      /\ \A k \in 1 .. Len(c) : d[2 + k] = c[k]
  <2>1. /\ d \in Seq(S)
        /\ Len(d) = Len(h) + Len(c)
        /\ \A k \in 1 .. Len(h) : d[k] = h[k]
        /\ \A k \in 1 .. Len(c) : d[Len(h) + k] = c[k]
    <3>1. h \in Seq(S)
      BY <1>1
    <3>. QED
      BY <3>1, ConcatFacts DEF d
  <2>. QED
    BY <1>1, <2>1
<1>4. <<x>> \o <<y>> \o c = d
  BY DEF d, h
<1>5. ASSUME NEW k \in 1 .. 2 + Len(c)
      PROVE  d[k] = IF k = 1 THEN x ELSE IF k = 2 THEN y ELSE c[k - 2]
  <2>1. CASE k \in 1 .. 2
    BY <1>1, <1>3, <2>1
  <2>2. CASE k > 2
    <3>1. k - 2 \in 1 .. Len(c) /\ 2 + (k - 2) = k
      BY <1>2, <2>2
    <3>. QED
      BY <1>3, <2>2, <3>1
  <2>3. k \in 1 .. 2 \/ k > 2
    BY <1>2
  <2>. QED
    BY <2>1, <2>2, <2>3
<1>6. Headed(d, x, y, c)
  BY <1>3, <1>5 DEF Headed
<1>. QED
  BY <1>3, <1>4, <1>6

\* d is c with e put in at i.
Inserted(d, c, i, e) ==
  /\ Len(d) = Len(c) + 1
  /\ \A k \in 1 .. Len(c) + 1 :
       d[k] = IF k < i THEN c[k] ELSE IF k = i THEN e ELSE c[k - 1]

LEMMA InsertAtFacts ==
  ASSUME NEW S, NEW c \in Seq(S), NEW e \in S, NEW i \in 1 .. Len(c) + 1
  PROVE  /\ InsertAt(c, i, e) \in Seq(S)
         /\ Inserted(InsertAt(c, i, e), c, i, e)
<1>. DEFINE a == SubSeq(c, 1, i - 1)
            b == SubSeq(c, i, Len(c))
<1>1. /\ a \in Seq(S)
      /\ Len(a) = i - 1
      /\ \A k \in 1 .. i - 1 : a[k] = c[k]
  OBVIOUS
<1>2. /\ b \in Seq(S)
      /\ Len(b) = Len(c) + 1 - i
      /\ \A k \in 1 .. Len(c) + 1 - i : b[k] = c[i + k - 1]
  OBVIOUS
<1>3. InsertAt(c, i, e) = (a \o <<e>>) \o b
  BY DEF InsertAt
<1>. HIDE DEF a, b
<1>4. /\ a \o <<e>> \in Seq(S)
      /\ Len(a \o <<e>>) = i
      /\ \A k \in 1 .. i : (a \o <<e>>)[k] = IF k < i THEN c[k] ELSE e
  BY <1>1
<1>5. /\ InsertAt(c, i, e) \in Seq(S)
      /\ Len(InsertAt(c, i, e)) = Len(c) + 1
  <2>. DEFINE d == a \o <<e>>
  <2>1. d \in Seq(S) /\ Len(d) = i
    BY <1>4
  <2>. HIDE DEF d
  <2>2. d \o b \in Seq(S) /\ Len(d \o b) = Len(d) + Len(b)
    BY <1>2, <2>1, ConcatProperties
  <2>3. InsertAt(c, i, e) = d \o b
    BY <1>3 DEF d
  <2>4. Len(b) = Len(c) + 1 - i /\ Len(c) \in Nat
    BY <1>2
  <2>5. i + (Len(c) + 1 - i) = Len(c) + 1
    BY <2>4
  <2>. QED
    BY <2>1, <2>2, <2>3, <2>4, <2>5
<1>6. ASSUME NEW k \in 1 .. Len(c) + 1
      PROVE  InsertAt(c, i, e)[k] = IF k < i THEN c[k]
                                    ELSE IF k = i THEN e ELSE c[k - 1]
  <2>1. CASE k <= i
    BY <1>2, <1>3, <1>4, <2>1
  <2>2. CASE k > i
    <3>1. k - i \in 1 .. Len(c) + 1 - i /\ i + (k - i) - 1 = k - 1
      BY <2>2
    <3>2. InsertAt(c, i, e)[k] = b[k - i]
      BY <1>2, <1>3, <1>4, <2>2
    <3>. QED
      BY <1>2, <2>2, <3>1, <3>2
  <2>. QED
    BY <2>1, <2>2
<1>. QED
  BY <1>5, <1>6 DEF Inserted

\* d is c without its element at i.
Removed(d, c, i) ==
  /\ Len(d) = Len(c) - 1
  /\ \A k \in 1 .. Len(c) - 1 : d[k] = IF k < i THEN c[k] ELSE c[k + 1]

LEMMA RemoveAtFacts ==
  ASSUME NEW S, NEW c \in Seq(S), NEW i \in 1 .. Len(c)
  PROVE  RemoveAt(c, i) \in Seq(S) /\ Removed(RemoveAt(c, i), c, i)
<1>. DEFINE a == SubSeq(c, 1, i - 1)
            b == SubSeq(c, i + 1, Len(c))
<1>1. /\ a \in Seq(S)
      /\ Len(a) = i - 1
      /\ \A k \in 1 .. i - 1 : a[k] = c[k]
  OBVIOUS
<1>2. /\ b \in Seq(S)
      /\ Len(b) = Len(c) - i
      /\ \A k \in 1 .. Len(c) - i : b[k] = c[i + k]
  OBVIOUS
<1>3. RemoveAt(c, i) = a \o b
  BY DEF RemoveAt
<1>. HIDE DEF a, b
<1>4. /\ RemoveAt(c, i) \in Seq(S)
      /\ Len(RemoveAt(c, i)) = Len(c) - 1
  BY <1>1, <1>2, <1>3
<1>5. ASSUME NEW k \in 1 .. Len(c) - 1
      PROVE  RemoveAt(c, i)[k] = IF k < i THEN c[k] ELSE c[k + 1]
  <2>1. CASE k < i
    BY <1>1, <1>2, <1>3, <2>1
  <2>2. CASE k >= i
    <3>1. k - (i - 1) \in 1 .. Len(c) - i /\ i + (k - (i - 1)) = k + 1
      BY <2>2
    <3>2. RemoveAt(c, i)[k] = b[k - (i - 1)]
      BY <1>1, <1>2, <1>3, <2>2
    <3>. QED
      BY <1>2, <2>2, <3>1, <3>2
  <2>. QED
    BY <2>1, <2>2
<1>. QED
  BY <1>4, <1>5 DEF Removed

\* A finite set can be put in a sequence.
LEMMA SetToSeqFacts ==
  ASSUME NEW S, IsFiniteSet(S)
  PROVE  SetToSeq(S) \in Seq(S)
<1>1. Cardinality(S) \in Nat /\ ExistsBijection(1 .. Cardinality(S), S)
  BY FS_CardinalityType
<1>. DEFINE n == Cardinality(S)
<1>2. PICK f \in [1 .. n -> S] :
        /\ \A j \in 1 .. n, k \in 1 .. n : f[j] = f[k] => j = k
        /\ \A x \in S : \E k \in 1 .. n : f[k] = x
  BY <1>1 DEF ExistsBijection, Bijection, Injection, Surjection, IsInjective
<1>3. IsInjective(f)
  BY <1>2 DEF IsInjective
<1>4. SetToSeq(S) \in [1 .. n -> S] /\ IsInjective(SetToSeq(S))
  BY <1>2, <1>3 DEF SetToSeq
<1>5. SetToSeq(S) \in Seq(S) /\ Len(SetToSeq(S)) = n
  BY <1>1, <1>4
<1>. QED
  BY <1>5

-----------------------------------------------------------------------------
(* Sums, and sequences put one after the other.                            *)

\* s[k] is the sum of the first k of the naturals z.
IsSum(s, z) ==
  /\ s \in [0 .. Len(z) -> Nat]
  /\ s[0] = 0
  /\ \A k \in 1 .. Len(z) : s[k] = s[k - 1] + z[k]

LEMMA SumExists ==
  ASSUME NEW z \in Seq(Nat)
  PROVE  \E s : IsSum(s, z)
<1>. DEFINE n == Len(z)
            A == Nat
            F == [x \in A \X (1 .. n) |-> x[1] + z[x[2]]]
<1>1. n \in Nat /\ \A k \in 1 .. n : z[k] \in Nat
  BY SeqFacts
<1>2. F \in [A \X (1 .. n) -> A] /\ 0 \in A
  BY <1>1
<1>3. PICK s : Iterates(s, A, 0, n, F)
  <2>. HIDE DEF F, A, n
  <2>. QED
    BY <1>1, <1>2, Recursion
<1>. HIDE DEF n
<1>4. ASSUME NEW k \in 1 .. n PROVE s[k] = s[k - 1] + z[k]
  <2>1. <<s[k - 1], k>> \in A \X (1 .. n)
    BY <1>1, <1>3 DEF Iterates
  <2>. QED
    BY <1>3, <2>1 DEF Iterates
<1>5. s \in [0 .. n -> Nat] /\ s[0] = 0
  BY <1>3 DEF Iterates
<1>. QED
  BY <1>4, <1>5 DEF n, IsSum

\* Sums grow.
LEMMA SumGrows ==
  ASSUME NEW z \in Seq(Nat), NEW s, IsSum(s, z),
         NEW j \in 0 .. Len(z), NEW k \in j .. Len(z)
  PROVE  s[j] <= s[k]
<1>. DEFINE n == Len(z)
            S == {m \in Nat : m >= j /\ m <= n => s[j] <= s[m]}
<1>1. n \in Nat /\ \A m \in 1 .. n : z[m] \in Nat
  BY SeqFacts
<1>2. /\ s \in [0 .. n -> Nat] /\ s[0] = 0
      /\ \A m \in 1 .. n : s[m] = s[m - 1] + z[m]
  BY DEF IsSum
<1>3. j \in 0 .. n /\ k \in j .. n
  OBVIOUS
<1>. HIDE DEF n
<1>4. 0 \in S
  BY <1>2, <1>3
<1>5. ASSUME NEW m \in S PROVE m + 1 \in S
  <2>. SUFFICES ASSUME m + 1 >= j, m + 1 <= n PROVE s[j] <= s[m + 1]
    OBVIOUS
  <2>1. CASE m + 1 = j
    <3>1. s[j] \in Nat
      BY <1>2, <1>3
    <3>. QED
      BY <2>1, <3>1
  <2>2. CASE m >= j
    <3>1. m + 1 \in 1 .. n /\ (m + 1) - 1 = m /\ m \in 0 .. n
      BY <1>1
    <3>2. s[m + 1] = s[m] + z[m + 1] /\ z[m + 1] \in Nat /\ s[m] \in Nat
      BY <1>1, <1>2, <3>1
    <3>3. s[j] \in Nat
      BY <1>2, <1>3
    <3>4. s[j] <= s[m]
      BY <2>2, <3>1
    <3>. HIDE DEF S
    <3>. QED
      BY <3>2, <3>3, <3>4
  <2>. QED
    BY <1>3, <2>1, <2>2
<1>6. S = Nat
  <2>. HIDE DEF S
  <2>1. S \in SUBSET Nat
    BY DEF S
  <2>. QED
    BY <1>4, <1>5, <2>1, Induction
<1>. QED
  BY <1>1, <1>3, <1>6

\* One more natural, anywhere, adds to the sum of all.
LEMMA SumInserted ==
  ASSUME NEW c \in Seq(Nat), NEW d \in Seq(Nat), NEW e \in Nat,
         NEW i \in 1 .. Len(c) + 1, Inserted(d, c, i, e),
         NEW s, IsSum(s, c), NEW t, IsSum(t, d)
  PROVE  t[Len(d)] = s[Len(c)] + e
<1>. DEFINE n == Len(c)
<1>1. /\ Len(d) = n + 1
      /\ \A k \in 1 .. n + 1 : d[k] = IF k < i THEN c[k]
                                      ELSE IF k = i THEN e ELSE c[k - 1]
  BY DEF Inserted
<1>2. n \in Nat /\ i \in 1 .. n + 1 /\ \A k \in 1 .. n : c[k] \in Nat
  BY SeqFacts
<1>3. /\ s \in [0 .. n -> Nat]
      /\ s[0] = 0
      /\ \A k \in 1 .. n : s[k] = s[k - 1] + c[k]
  BY DEF IsSum
<1>4. /\ t \in [0 .. n + 1 -> Nat]
      /\ t[0] = 0
      /\ \A k \in 1 .. n + 1 : t[k] = t[k - 1] + d[k]
  BY <1>1 DEF IsSum
<1>. HIDE DEF n
<1>. DEFINE S == {k \in Nat : k <= n + 1 =>
                    t[k] = IF k < i THEN s[k] ELSE s[k - 1] + e}
<1>5. 0 \in S
  BY <1>2, <1>3, <1>4
<1>6. ASSUME NEW k \in S PROVE k + 1 \in S
  <2>. SUFFICES ASSUME k + 1 <= n + 1
                PROVE  t[k + 1] = IF k + 1 < i THEN s[k + 1] ELSE s[k] + e
    OBVIOUS
  <2>1. /\ t[k] = IF k < i THEN s[k] ELSE s[k - 1] + e
        /\ k + 1 \in 1 .. n + 1
        /\ k <= n
    BY <1>2
  <2>2. t[k + 1] = t[k] + d[k + 1]
    BY <1>4, <2>1
  <2>3. CASE k + 1 < i
    <3>1. k + 1 \in 1 .. n /\ d[k + 1] = c[k + 1] /\ k < i
      BY <1>1, <1>2, <2>1, <2>3
    <3>. QED
      BY <1>3, <2>1, <2>2, <2>3, <3>1
  <2>4. CASE k + 1 = i
    BY <1>1, <1>2, <2>1, <2>2, <2>4
  <2>5. CASE k + 1 > i
    <3>1. k \in 1 .. n /\ ~ (k < i) /\ ~ (k + 1 < i) /\ k + 1 # i
      BY <1>2, <2>1, <2>5
    <3>2. d[k + 1] = c[k]
      <4>1. (k + 1) - 1 = k
        OBVIOUS
      <4>. QED
        BY <1>1, <2>1, <3>1, <4>1
    <3>3. s[k] = s[k - 1] + c[k] /\ s[k - 1] \in Nat /\ c[k] \in Nat
      <4>1. k - 1 \in 0 .. n
        BY <1>2, <3>1
      <4>. QED
        BY <1>2, <1>3, <3>1, <4>1
    <3>. QED
      BY <2>1, <2>2, <3>1, <3>2, <3>3
  <2>. QED
    BY <1>2, <2>1, <2>3, <2>4, <2>5
<1>7. S = Nat
  <2>. HIDE DEF S
  <2>1. S \in SUBSET Nat
    BY DEF S
  <2>. QED
    BY <1>5, <1>6, <2>1, Induction
<1>8. n + 1 \in S
  <2>. HIDE DEF S
  <2>1. n + 1 \in Nat
    BY <1>2
  <2>. QED
    BY <1>7, <2>1
<1>9. t[n + 1] = s[n] + e
  BY <1>2, <1>8
<1>. QED
  BY <1>1, <1>9 DEF n

\* Where the first m of the sequences q are when put one after the other.
PlacedTo(body, q, s, m) ==
  /\ Len(body) = s[m]
  /\ \A k \in 1 .. m : \A j \in 1 .. Len(q[k]) :
       body[s[k - 1] + j] = q[k][j]

Lengths(q) == [k \in 1 .. Len(q) |-> Len(q[k])]

LEMMA LengthsFacts ==
  ASSUME NEW S, NEW q \in Seq(Seq(S)), NEW s, IsSum(s, Lengths(q))
  PROVE  /\ Lengths(q) \in Seq(Nat) /\ Len(Lengths(q)) = Len(q)
         /\ s \in [0 .. Len(q) -> Nat] /\ s[0] = 0
         /\ \A k \in 1 .. Len(q) : s[k] = s[k - 1] + Len(q[k])
<1>1. Len(q) \in Nat /\ \A k \in 1 .. Len(q) : Len(q[k]) \in Nat
  BY SeqFacts
<1>2. /\ Lengths(q) \in Seq(Nat) /\ Len(Lengths(q)) = Len(q)
      /\ \A k \in 1 .. Len(q) : Lengths(q)[k] = Len(q[k])
  BY <1>1 DEF Lengths
<1>. QED
  BY <1>2 DEF IsSum

LEMMA PlacedNext ==
  ASSUME NEW S, NEW q \in Seq(Seq(S)), NEW s, IsSum(s, Lengths(q)),
         NEW m \in Nat, m + 1 <= Len(q), NEW a \in Seq(S),
         PlacedTo(a, q, s, m)
  PROVE  a \o q[m + 1] \in Seq(S) /\ PlacedTo(a \o q[m + 1], q, s, m + 1)
<1>. DEFINE n == Len(q)
            b == q[m + 1]
<1>1. n \in Nat /\ \A k \in 1 .. n : q[k] \in Seq(S) /\ Len(q[k]) \in Nat
  BY SeqFacts
<1>2. /\ s \in [0 .. n -> Nat]
      /\ \A k \in 1 .. n : s[k] = s[k - 1] + Len(q[k])
  BY LengthsFacts
<1>3. \A k \in 0 .. n : k <= m => s[k] <= s[m]
  <2>. SUFFICES ASSUME NEW k \in 0 .. n, k <= m PROVE s[k] <= s[m]
    OBVIOUS
  <2>1. Lengths(q) \in Seq(Nat) /\ Len(Lengths(q)) = n
    BY LengthsFacts
  <2>2. k \in 0 .. n /\ m \in k .. n
    BY <1>1
  <2>. HIDE DEF n
  <2>. QED
    BY <2>1, <2>2, SumGrows
<1>4. /\ Len(a) = s[m]
      /\ \A k \in 1 .. m : \A j \in 1 .. Len(q[k]) :
           a[s[k - 1] + j] = q[k][j]
  BY DEF PlacedTo
<1>5. m + 1 \in 1 .. n /\ (m + 1) - 1 = m
  BY <1>1
<1>6. b \in Seq(S) /\ Len(b) \in Nat /\ s[m + 1] = s[m] + Len(b)
  BY <1>1, <1>2, <1>5
<1>7. Len(a) \in Nat
  BY SeqFacts
<1>8. ASSUME NEW k \in 1 .. m, NEW j \in 1 .. Len(q[k])
      PROVE  s[k - 1] + j \in 1 .. Len(a)
  <2>. HIDE DEF n
  <2>1. k \in 1 .. n /\ k \in 0 .. n /\ k - 1 \in 0 .. n /\ k <= m
    BY <1>1, <1>5
  <2>2. /\ s[k] = s[k - 1] + Len(q[k]) /\ s[k] <= s[m]
        /\ s[k - 1] \in Nat /\ Len(q[k]) \in Nat
    BY <1>1, <1>2, <1>3, <2>1
  <2>3. s[k - 1] + Len(q[k]) <= Len(a)
    BY <1>4, <2>2
  <2>4. \A x, l, N \in Nat : x + l <= N => x + j \in 1 .. N \/ ~ (j \in 1 .. l)
    OBVIOUS
  <2>. QED
    BY <1>7, <2>2, <2>3, <2>4
<1>. HIDE DEF b, n
<1>9. /\ a \o b \in Seq(S)
      /\ Len(a \o b) = Len(a) + Len(b)
      /\ \A x \in 1 .. Len(a) : (a \o b)[x] = a[x]
      /\ \A x \in 1 .. Len(b) : (a \o b)[Len(a) + x] = b[x]
  BY <1>6
<1>10. ASSUME NEW k \in 1 .. m + 1, NEW j \in 1 .. Len(q[k])
       PROVE  (a \o b)[s[k - 1] + j] = q[k][j]
  <2>1. CASE k \in 1 .. m
    <3>1. s[k - 1] + j \in 1 .. Len(a)
      BY <1>8, <2>1
    <3>2. a[s[k - 1] + j] = q[k][j]
      BY <1>4, <2>1
    <3>. QED
      BY <1>9, <3>1, <3>2
  <2>2. CASE k = m + 1
    <3>1. q[k] = b /\ s[k - 1] = Len(a)
      BY <1>4, <1>5, <2>2 DEF b
    <3>. QED
      BY <1>9, <3>1
  <2>3. k \in 1 .. m \/ k = m + 1
    OBVIOUS
  <2>. QED
    BY <2>1, <2>2, <2>3
<1>11. Len(a \o b) = s[m + 1]
  BY <1>4, <1>6, <1>9
<1>12. PlacedTo(a \o b, q, s, m + 1)
  BY <1>10, <1>11 DEF PlacedTo
<1>. QED
  BY <1>9, <1>12 DEF b

LEMMA FlattenSeqFacts ==
  ASSUME NEW S, NEW q \in Seq(Seq(S)), NEW s, IsSum(s, Lengths(q))
  PROVE  FlattenSeq(q) \in Seq(S) /\ PlacedTo(FlattenSeq(q), q, s, Len(q))
<1>. DEFINE n == Len(q)
<1>1. n \in Nat /\ \A k \in 1 .. n : q[k] \in Seq(S) /\ Len(q[k]) \in Nat
  BY SeqFacts
<1>2. s[0] = 0
  BY LengthsFacts
<1>3. CASE n = 0
  <2>1. FlattenSeq(q) = <<>>
    BY <1>3 DEF FlattenSeq
  <2>. QED
    BY <1>2, <1>3, <2>1 DEF PlacedTo
<1>4. CASE n > 0
  <2>. DEFINE A == Seq(S)
              F == [x \in A \X (1 .. n) |->
                      IF x[2] = 1 THEN q[1] ELSE x[1] \o q[x[2]]]
              Is(f) == f = [k \in 1 .. n |->
                              IF k = 1 THEN q[k] ELSE f[k - 1] \o q[k]]
              flatten == CHOOSE flatten : Is(flatten)
  <2>1. FlattenSeq(q) = flatten[n]
    BY <1>4 DEF FlattenSeq
  <2>. HIDE DEF n
  <2>2. F \in [A \X (1 .. n) -> A] /\ <<>> \in A
    BY <1>1, <1>4
  <2>3. PICK g : Iterates(g, A, <<>>, n, F)
    <3>. HIDE DEF F, A
    <3>. QED
      BY <1>1, <2>2, Recursion
  <2>4. ASSUME NEW k \in 1 .. n
        PROVE  g[k] = IF k = 1 THEN q[1] ELSE g[k - 1] \o q[k]
    <3>1. k - 1 \in 0 .. n
      BY <1>1
    <3>2. <<g[k - 1], k>> \in A \X (1 .. n)
      BY <2>3, <3>1 DEF Iterates
    <3>3. g[k] = F[<<g[k - 1], k>>]
      BY <2>3 DEF Iterates
    <3>. QED
      BY <3>2, <3>3
  <2>5. Is([k \in 1 .. n |-> g[k]])
    <3>. DEFINE h == [k \in 1 .. n |-> g[k]]
    <3>1. ASSUME NEW k \in 1 .. n
          PROVE  h[k] = IF k = 1 THEN q[k] ELSE h[k - 1] \o q[k]
      <4>1. CASE k = 1
        BY <2>4, <4>1
      <4>2. CASE k # 1
        <5>1. k - 1 \in 1 .. n
          BY <1>1, <4>2
        <5>. QED
          BY <2>4, <4>2, <5>1
      <4>. QED
        BY <4>1, <4>2
    <3>. QED
      BY <3>1
  <2>6. Is(flatten)
    <3>. HIDE DEF Is
    <3>. QED
      BY <2>5
  <2>7. \A k \in 1 .. n :
          flatten[k] = IF k = 1 THEN q[k] ELSE flatten[k - 1] \o q[k]
    BY <2>6
  <2>. HIDE DEF flatten, Is, F, A
  <2>. DEFINE Good(f, m) == f \in Seq(S) /\ PlacedTo(f, q, s, m)
              T == {m \in Nat : m + 1 <= n => Good(flatten[m + 1], m + 1)}
  <2>8. 0 \in T
    <3>1. flatten[1] = q[1] /\ 1 \in 1 .. n
      BY <1>1, <1>4, <2>7
    <3>2. <<>> \in Seq(S) /\ PlacedTo(<<>>, q, s, 0)
      BY <1>2 DEF PlacedTo
    <3>3. 0 + 1 <= Len(q)
      BY <1>1, <1>4 DEF n
    <3>4. Good(<<>> \o q[0 + 1], 0 + 1)
      BY <3>2, <3>3, PlacedNext
    <3>5. <<>> \o q[0 + 1] = q[1] /\ 0 + 1 = 1
      BY <1>1, <3>1
    <3>. QED
      BY <3>1, <3>4, <3>5
  <2>9. ASSUME NEW m \in T PROVE m + 1 \in T
    <3>. SUFFICES ASSUME (m + 1) + 1 <= n
                  PROVE  Good(flatten[(m + 1) + 1], (m + 1) + 1)
      OBVIOUS
    <3>1. /\ m + 1 \in Nat /\ (m + 1) + 1 \in 1 .. n /\ (m + 1) + 1 # 1
          /\ ((m + 1) + 1) - 1 = m + 1 /\ m + 1 <= n
      BY <1>1
    <3>2. Good(flatten[m + 1], m + 1)
      BY <3>1
    <3>3. flatten[(m + 1) + 1] = flatten[m + 1] \o q[(m + 1) + 1]
      BY <2>7, <3>1
    <3>. QED
      BY <3>1, <3>2, <3>3, PlacedNext DEF n
  <2>10. T = Nat
    <3>. HIDE DEF T
    <3>1. T \in SUBSET Nat
      BY DEF T
    <3>. QED
      BY <2>8, <2>9, <3>1, Induction
  <2>11. Good(flatten[n], n)
    <3>1. n - 1 \in Nat /\ (n - 1) + 1 = n
      BY <1>1, <1>4
    <3>2. n - 1 \in T
      BY <2>10, <3>1
    <3>. QED
      BY <3>1, <3>2
  <2>. QED
    BY <2>1, <2>11 DEF n
<1>. QED
  BY <1>1, <1>3, <1>4
=============================================================================
