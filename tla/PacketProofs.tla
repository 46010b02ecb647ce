---------------------------- MODULE PacketProofs ----------------------------
(***************************************************************************)
(* What the run MCPacket shows of short packets and octets of 14 values,   *)
(* proved for octets of any width, fields and packets of any size, and all *)
(* datagrams.                                                              *)
(***************************************************************************)
EXTENDS Packet, SequenceLemmas, TLAPS

USE DEF PAD1_NUM, WARNING_NUM, HEAD_SIZE, PACKAGE_HEAD_SIZE

-----------------------------------------------------------------------------
(* TLVs and their sizes.                                                   *)

\* The TLVs whose length an octet can hold, as all have that are in memory.
Stored == {t \in TLV : Len(t.content) < W}

LEMMA TlvFields ==
  ASSUME NEW t \in TLV
  PROVE  /\ t.type \in Octet /\ t.type \in Nat
         /\ t.content \in Seq(Octet)
         /\ Len(t.content) \in Nat
         /\ \A i \in 1 .. Len(t.content) : t.content[i] \in Octet
         /\ t = [type |-> t.type, content |-> t.content]
<1>1. t.type \in Octet /\ t.content \in Seq(Octet)
  BY DEF TLV
<1>2. t = [type |-> t.type, content |-> t.content]
  BY DEF TLV
<1>3. Octet \subseteq Nat
  BY OctetAssumption DEF Octet
<1>4. Len(t.content) \in Nat /\ \A i \in 1 .. Len(t.content) : t.content[i] \in Octet
  BY <1>1, SeqFacts
<1>. QED
  BY <1>1, <1>2, <1>3, <1>4

\* A sum that is cut to an octet: it starts over when it gets to W.
LEMMA Wraps ==
  ASSUME NEW length \in Octet
  PROVE  (2 + length) % W = IF 2 + length < W THEN 2 + length
                                              ELSE 2 + length - W
<1>1. W \in Nat /\ 9 < W /\ length \in 0 .. W - 1
  BY OctetAssumption DEF Octet
<1>2. CASE 2 + length < W
  BY <1>1, <1>2
<1>3. CASE ~ (2 + length < W)
  <2>. DEFINE x == 2 + length - W
  <2>1. x \in 0 .. W - 1 /\ 2 + length = x + W
    BY <1>1, <1>3
  <2>. HIDE DEF x
  <2>2. (x + W) % W = x
    BY <1>1, <2>1
  <2>. QED
    BY <1>3, <2>1, <2>2 DEF x
<1>. QED
  BY <1>2, <1>3

LEMMA SizeFacts ==
  ASSUME NEW type \in Octet, NEW length \in Octet
  PROVE  /\ size(type, length) \in Octet
         /\ size(type, length) <= 2 + length
         /\ type = PAD1_NUM => size(type, length) = 1
         /\ type # PAD1_NUM /\ 2 + length < W => size(type, length) = 2 + length
<1>1. W \in Nat /\ 9 < W /\ length \in 0 .. W - 1
  BY OctetAssumption DEF Octet
<1>2. CASE type = PAD1_NUM
  BY <1>1, <1>2 DEF size, Octet
<1>3. CASE type # PAD1_NUM
  <2>1. size(type, length) = IF 2 + length < W THEN 2 + length
                                               ELSE 2 + length - W
    BY <1>3, Wraps DEF size
  <2>. QED
    BY <1>1, <1>3, <2>1 DEF Octet
<1>. QED
  BY <1>2, <1>3

LEMMA SizeOfFacts ==
  ASSUME NEW t \in Stored
  PROVE  /\ Len(t.content) \in Octet
         /\ sizeOf(t) \in Nat
         /\ sizeOf(t) <= 2 + Len(t.content)
         /\ t.type = PAD1_NUM => sizeOf(t) = 1
         /\ t.type # PAD1_NUM /\ 2 + Len(t.content) < W =>
              sizeOf(t) = 2 + Len(t.content)
<1>1. t.type \in Octet /\ Len(t.content) \in Octet
  BY TlvFields, OctetAssumption DEF Stored, Octet
<1>. DEFINE z == size(t.type, Len(t.content))
<1>2. /\ z \in Octet
      /\ z <= 2 + Len(t.content)
      /\ t.type = PAD1_NUM => z = 1
      /\ t.type # PAD1_NUM /\ 2 + Len(t.content) < W => z = 2 + Len(t.content)
  BY <1>1, SizeFacts
<1>3. sizeOf(t) = z /\ z \in Nat
  BY <1>2, OctetAssumption DEF sizeOf, Octet
<1>. QED
  BY <1>1, <1>2, <1>3

\* The octets of a TLV.
LEMMA EncodeFacts ==
  ASSUME NEW t \in Stored
  PROVE  /\ Encode(t) \in Seq(Octet)
         /\ Len(Encode(t)) = sizeOf(t)
         /\ \A j \in 1 .. sizeOf(t) :
              Encode(t)[j] = IF j = 1 THEN t.type
                             ELSE IF j = 2 THEN Len(t.content)
                             ELSE t.content[j - 2]
<1>. DEFINE c == t.content
            n == Len(c)
            all == <<t.type>> \o <<n>> \o c
            z == sizeOf(t)
<1>1. t.type \in Octet /\ c \in Seq(Octet) /\ n \in Octet /\ n \in Nat
  BY TlvFields, SizeOfFacts DEF Stored
<1>2. z \in Nat /\ z <= 2 + n
  BY SizeOfFacts
<1>3. Encode(t) = SubSeq(all, 1, z)
  BY DEF Encode
<1>. HIDE DEF c, n, z
<1>4. all \in Seq(Octet) /\ Headed(all, t.type, n, c)
  BY <1>1, HeadedFacts
<1>5. /\ Len(all) = 2 + n
      /\ \A j \in 1 .. 2 + n : all[j] = IF j = 1 THEN t.type
                                        ELSE IF j = 2 THEN n ELSE c[j - 2]
  BY <1>4 DEF Headed, n
<1>. HIDE DEF all
<1>6. /\ SubSeq(all, 1, z) \in Seq(Octet)
      /\ Len(SubSeq(all, 1, z)) = z
      /\ \A j \in 1 .. z : SubSeq(all, 1, z)[j] = all[j]
  BY <1>1, <1>2, <1>4, <1>5
<1>. QED
  BY <1>1, <1>2, <1>3, <1>5, <1>6 DEF c, n, z

-----------------------------------------------------------------------------
(* The length of a packet.                                                 *)

Sizes(c) == [k \in 1 .. Len(c) |-> sizeOf(c[k])]
Codes(c) == [k \in 1 .. Len(c) |-> Encode(c[k])]

LEMMA SizesFacts ==
  ASSUME NEW c \in Seq(Stored)
  PROVE  /\ Sizes(c) \in Seq(Nat)
         /\ Len(Sizes(c)) = Len(c)
         /\ \A k \in 1 .. Len(c) : Sizes(c)[k] = sizeOf(c[k])
<1>1. Len(c) \in Nat /\ \A k \in 1 .. Len(c) : c[k] \in Stored
  BY SeqFacts
<1>2. \A k \in 1 .. Len(c) : sizeOf(c[k]) \in Nat
  BY <1>1, SizeOfFacts
<1>. QED
  BY <1>1, <1>2 DEF Sizes

\* The octets of a packet are those of its TLVs, each where the sizes of those
\* before it add up to.
LEMMA BodyFacts ==
  ASSUME NEW p, p.tlvs \in Seq(Stored), NEW s, IsSum(s, Sizes(p.tlvs))
  PROVE  /\ Body(p) \in Seq(Octet)
         /\ Len(Body(p)) = s[Len(p.tlvs)]
         /\ \A k \in 1 .. Len(p.tlvs) : \A j \in 1 .. sizeOf(p.tlvs[k]) :
              Body(p)[s[k - 1] + j] = Encode(p.tlvs[k])[j]
<1>. DEFINE c == p.tlvs
            q == Codes(c)
<1>1. /\ c \in Seq(Stored)
      /\ Len(c) \in Nat
      /\ \A k \in 1 .. Len(c) : c[k] \in Stored
  BY SeqFacts
<1>. HIDE DEF c
<1>2. \A k \in 1 .. Len(c) :
        Encode(c[k]) \in Seq(Octet) /\ Len(Encode(c[k])) = sizeOf(c[k])
  BY <1>1, EncodeFacts
<1>3. /\ q \in Seq(Seq(Octet))
      /\ Len(q) = Len(c)
      /\ \A k \in 1 .. Len(c) : q[k] = Encode(c[k])
  BY <1>1, <1>2 DEF Codes
<1>4. Lengths(q) = Sizes(c)
  BY <1>2, <1>3 DEF Lengths, Sizes
<1>5. FlattenSeq(q) \in Seq(Octet) /\ PlacedTo(FlattenSeq(q), q, s, Len(q))
  <2>. HIDE DEF q
  <2>1. IsSum(s, Lengths(q))
    BY <1>4 DEF c
  <2>. QED
    BY <1>3, <2>1, FlattenSeqFacts
<1>6. Body(p) = FlattenSeq(q)
  BY DEF Body, Codes, c
<1>. HIDE DEF q
<1>. QED
  BY <1>2, <1>3, <1>5, <1>6 DEF PlacedTo, c

-----------------------------------------------------------------------------
(* addTLV.                                                                 *)

\* By descending type, and no two of one key.
Descending(c) ==
  \A i, j \in 1 .. Len(c) :
    i < j => c[i].type >= c[j].type /\ Key(c[i]) # Key(c[j])

LEMMA KeyFacts ==
  ASSUME NEW t, NEW u
  PROVE  Key(t) = Key(u) <=>
           /\ t.type = u.type
           /\ u.type \in SeveralOfOneType => getID(t) = getID(u)
<1>. DEFINE k(x) == IF x.type \in SeveralOfOneType THEN getID(x) ELSE <<>>
<1>1. Key(t) = <<t.type, k(t)>> /\ Key(u) = <<u.type, k(u)>>
  BY DEF Key
<1>2. Key(t) = Key(u) <=> t.type = u.type /\ k(t) = k(u)
  <2>. HIDE DEF k
  <2>. QED
    BY <1>1
<1>3. t.type = u.type =>
        (k(t) = k(u) <=> (u.type \in SeveralOfOneType => getID(t) = getID(u)))
  <2>. HIDE DEF SeveralOfOneType, getID
  <2>. QED
    OBVIOUS
<1>. HIDE DEF k
<1>. QED
  BY <1>2, <1>3

\* A TLV is inside if there is one of its key.
LEMMA InsideFacts ==
  ASSUME NEW p, NEW t
  PROVE  Inside(p, t) <=> \E i \in 1 .. Len(p.tlvs) : Key(p.tlvs[i]) = Key(t)
<1>1. \A u : Key(u) = Key(t) <=>
               /\ u.type = t.type
               /\ t.type \in SeveralOfOneType => getID(u) = getID(t)
  BY KeyFacts
<1>. QED
  BY <1>1 DEF Inside

\* The place addTLV looks for exists.
LEMMA PosFacts ==
  ASSUME NEW p, p.tlvs \in Seq(Stored), NEW t \in Stored
  PROVE  /\ Pos(p, t) \in 0 .. Len(p.tlvs)
         /\ \A i \in 1 .. Pos(p, t) : p.tlvs[i].type >= t.type
         /\ Pos(p, t) < Len(p.tlvs) => p.tlvs[Pos(p, t) + 1].type < t.type
<1>. DEFINE c == p.tlvs
            n == Len(c)
            Is(q) == /\ \A i \in 1 .. q : c[i].type >= t.type
                     /\ q < n => c[q + 1].type < t.type
            S == {q \in Nat : q <= n /\ (q < n => c[q + 1].type < t.type)}
<1>1. n \in Nat /\ \A i \in 1 .. n : c[i].type \in Nat
  <2>1. n \in Nat /\ \A i \in 1 .. n : c[i] \in Stored
    BY SeqFacts
  <2>. QED
    BY <2>1, TlvFields DEF Stored
<1>2. t.type \in Nat
  BY TlvFields DEF Stored
<1>. HIDE DEF n, c
<1>3. PICK q \in S : \A y \in S : q <= y
  <2>1. n \in S
    BY <1>1
  <2>2. S \in SUBSET Nat
    OBVIOUS
  <2>. HIDE DEF S
  <2>. QED
    BY <2>1, <2>2, Smallest
<1>4. q \in 0 .. n
  BY <1>1, <1>3
<1>5. ASSUME NEW i \in 1 .. q PROVE c[i].type >= t.type
  <2>1. i - 1 \in Nat /\ ~ (q <= i - 1) /\ i - 1 < n /\ (i - 1) + 1 = i /\ i \in 1 .. n
    BY <1>1, <1>4
  <2>2. ~ (c[i].type < t.type)
    <3>. SUFFICES ASSUME c[i].type < t.type PROVE FALSE
      OBVIOUS
    <3>1. c[(i - 1) + 1].type < t.type /\ i - 1 <= n
      BY <1>1, <2>1
    <3>2. i - 1 \in S
      BY <2>1, <3>1
    <3>. QED
      BY <1>3, <2>1, <3>2
  <2>. QED
    BY <1>1, <1>2, <2>1, <2>2
<1>6. Is(q)
  BY <1>3, <1>5
<1>7. Pos(p, t) = CHOOSE pos \in 0 .. n : Is(pos)
  BY DEF Pos, c, n
<1>8. Pos(p, t) \in 0 .. n /\ Is(Pos(p, t))
  <2>. HIDE DEF Is
  <2>. QED
    BY <1>4, <1>6, <1>7
<1>. QED
  BY <1>8 DEF c, n

\* A packet as addTLV makes them.
Sound(p) ==
  /\ p.tlvs \in Seq(Stored)
  /\ p.body_length \in Nat
  /\ p = [tlvs |-> p.tlvs, body_length |-> p.body_length]
  /\ Len(Body(p)) = p.body_length
  /\ PACKAGE_HEAD_SIZE + p.body_length <= MAX_PACKAGE_SIZE
  /\ Descending(p.tlvs)

LEMMA NewSound == Sound(new_paquet)
<1>. DEFINE p == new_paquet
<1>1. p.tlvs = <<>> /\ p.body_length = 0
  BY DEF new_paquet
<1>2. p = [tlvs |-> p.tlvs, body_length |-> p.body_length]
  BY DEF new_paquet
<1>3. p.tlvs \in Seq(Stored)
  BY <1>1
<1>. HIDE DEF p
<1>4. PICK s : IsSum(s, Sizes(p.tlvs))
  BY <1>3, SizesFacts, SumExists
<1>5. Len(Body(p)) = s[0]
  <2>1. Len(Body(p)) = s[Len(p.tlvs)]
    BY <1>3, <1>4, BodyFacts
  <2>2. Len(p.tlvs) = 0
    BY <1>1
  <2>. QED
    BY <2>1, <2>2
<1>6. s[0] = 0
  BY <1>4 DEF IsSum
<1>7. Descending(p.tlvs)
  BY <1>1 DEF Descending
<1>. QED
  BY <1>1, <1>2, <1>3, <1>5, <1>6, <1>7, SizeAssumption DEF Sound, p

\* What addTLV puts in.
Adds(q, p, t) ==
  /\ q.tlvs = InsertAt(p.tlvs, Pos(p, t) + 1, t)
  /\ q.body_length = p.body_length + sizeOf(t)

LEMMA AddTLVCases ==
  ASSUME NEW p, NEW t
  PROVE  /\ Full(p, t) \/ Inside(p, t) => addTLV(p, t) = p
         /\ ~ Full(p, t) /\ ~ Inside(p, t) => Adds(addTLV(p, t), p, t)
BY DEF addTLV, Adds

LEMMA AddsInserted ==
  ASSUME NEW p, Sound(p), NEW t \in Stored, NEW q, Adds(q, p, t)
  PROVE  q.tlvs \in Seq(Stored) /\ Inserted(q.tlvs, p.tlvs, Pos(p, t) + 1, t)
<1>1. p.tlvs \in Seq(Stored) /\ Len(p.tlvs) \in Nat
  BY SeqFacts DEF Sound
<1>2. Pos(p, t) \in 0 .. Len(p.tlvs)
  BY <1>1, PosFacts
<1>3. Pos(p, t) + 1 \in 1 .. Len(p.tlvs) + 1
  BY <1>1, <1>2
<1>. QED
  BY <1>1, <1>3, InsertAtFacts DEF Adds

\* The octets of the packet are as many as body_length says, one TLV more.
LEMMA AddsLength ==
  ASSUME NEW p, Sound(p), NEW t \in Stored, NEW q, Adds(q, p, t)
  PROVE  Len(Body(q)) = q.body_length
<1>. DEFINE c == p.tlvs
            d == q.tlvs
            i == Pos(p, t) + 1
<1>1. c \in Seq(Stored) /\ d \in Seq(Stored) /\ Inserted(d, c, i, t)
  BY AddsInserted DEF Sound
<1>2. Len(c) \in Nat /\ i \in 1 .. Len(c) + 1
  <2>1. Len(c) \in Nat
    BY <1>1, SeqFacts
  <2>2. Pos(p, t) \in 0 .. Len(c)
    BY <1>1, PosFacts
  <2>. QED
    BY <2>1, <2>2
<1>3. PICK s : IsSum(s, Sizes(c))
  BY <1>1, SizesFacts, SumExists
<1>4. PICK r : IsSum(r, Sizes(d))
  BY <1>1, SizesFacts, SumExists
<1>5. Len(Body(p)) = s[Len(c)] /\ Len(Body(q)) = r[Len(d)]
  BY <1>1, <1>3, <1>4, BodyFacts
<1>6. p.body_length = s[Len(c)] /\ q.body_length = s[Len(c)] + sizeOf(t)
  BY <1>5 DEF Sound, Adds
<1>. HIDE DEF c, d, i
<1>7. /\ Sizes(c) \in Seq(Nat) /\ Len(Sizes(c)) = Len(c)
      /\ Sizes(d) \in Seq(Nat) /\ Len(Sizes(d)) = Len(d)
      /\ sizeOf(t) \in Nat
  BY <1>1, SizesFacts, SizeOfFacts
<1>8. Inserted(Sizes(d), Sizes(c), i, sizeOf(t))
  <2>1. /\ Len(d) = Len(c) + 1
        /\ \A k \in 1 .. Len(c) + 1 : d[k] = IF k < i THEN c[k]
                                        ELSE IF k = i THEN t ELSE c[k - 1]
    BY <1>1 DEF Inserted
  <2>2. /\ \A k \in 1 .. Len(c) : Sizes(c)[k] = sizeOf(c[k])
        /\ \A k \in 1 .. Len(c) + 1 : Sizes(d)[k] = sizeOf(d[k])
    BY <1>1, <2>1, SizesFacts
  <2>3. ASSUME NEW k \in 1 .. Len(c) + 1
        PROVE  Sizes(d)[k] = IF k < i THEN Sizes(c)[k]
                             ELSE IF k = i THEN sizeOf(t) ELSE Sizes(c)[k - 1]
    <3>1. CASE k < i
      BY <1>2, <2>1, <2>2, <3>1
    <3>2. CASE k = i
      BY <1>2, <2>1, <2>2, <3>2
    <3>3. CASE k > i
      <4>1. k - 1 \in 1 .. Len(c) /\ ~ (k < i) /\ k # i
        BY <1>2, <3>3
      <4>. QED
        BY <2>1, <2>2, <4>1
    <3>. QED
      BY <1>2, <3>1, <3>2, <3>3
  <2>. QED
    BY <1>7, <2>1, <2>3 DEF Inserted
<1>9. r[Len(d)] = s[Len(c)] + sizeOf(t)
  BY <1>2, <1>3, <1>4, <1>7, <1>8, SumInserted
<1>. QED
  BY <1>5, <1>6, <1>9

\* The place keeps the order of types, and there was none of the key.
LEMMA AddsDescending ==
  ASSUME NEW p, Sound(p), NEW t \in Stored, ~ Inside(p, t),
         NEW q, Adds(q, p, t)
  PROVE  Descending(q.tlvs)
<1>. DEFINE c == p.tlvs
            d == q.tlvs
            o == Pos(p, t)
<1>1. /\ c \in Seq(Stored) /\ Len(c) \in Nat
      /\ \A k \in 1 .. Len(c) : c[k].type \in Nat
  <2>1. c \in Seq(Stored) /\ Len(c) \in Nat /\ \A k \in 1 .. Len(c) : c[k] \in Stored
    BY SeqFacts DEF Sound
  <2>. QED
    BY <2>1, TlvFields DEF Stored
<1>2. t.type \in Nat
  BY TlvFields DEF Stored
<1>3. /\ Len(d) = Len(c) + 1
      /\ \A k \in 1 .. Len(c) + 1 : d[k] = IF k < o + 1 THEN c[k]
                                      ELSE IF k = o + 1 THEN t ELSE c[k - 1]
  BY AddsInserted DEF Inserted
<1>4. /\ o \in 0 .. Len(c)
      /\ \A k \in 1 .. o : c[k].type >= t.type
      /\ o < Len(c) => c[o + 1].type < t.type
  BY <1>1, PosFacts
<1>5. \A i, j \in 1 .. Len(c) :
        i < j => c[i].type >= c[j].type /\ Key(c[i]) # Key(c[j])
  BY DEF Sound, Descending
<1>6. \A k \in 1 .. Len(c) : Key(c[k]) # Key(t)
  BY InsideFacts
<1>. HIDE DEF c, d, o
<1>7. ASSUME NEW k \in 1 .. Len(c), k > o PROVE c[k].type <= t.type
  <2>1. o + 1 \in 1 .. Len(c) /\ c[o + 1].type < t.type
    BY <1>1, <1>4, <1>7
  <2>2. CASE k = o + 1
    BY <1>1, <1>2, <2>1, <2>2
  <2>3. CASE k # o + 1
    <3>1. o + 1 < k
      BY <1>4, <1>7, <2>3
    <3>2. c[o + 1].type >= c[k].type
      BY <1>5, <2>1, <3>1
    <3>. QED
      BY <1>1, <1>2, <2>1, <3>2
  <2>. QED
    BY <2>2, <2>3
<1>8. ASSUME NEW i \in 1 .. Len(d), NEW j \in 1 .. Len(d), i < j
      PROVE  d[i].type >= d[j].type /\ Key(d[i]) # Key(d[j])
  <2>1. i \in 1 .. Len(c) + 1 /\ j \in 1 .. Len(c) + 1 /\ o \in 0 .. Len(c)
    BY <1>3, <1>4
  <2>2. CASE i < o + 1 /\ j < o + 1
    <3>1. i \in 1 .. Len(c) /\ j \in 1 .. Len(c) /\ d[i] = c[i] /\ d[j] = c[j]
      BY <1>1, <1>3, <2>1, <2>2
    <3>. QED
      BY <1>5, <1>8, <3>1
  <2>3. CASE i < o + 1 /\ j = o + 1
    <3>1. i \in 1 .. o /\ i \in 1 .. Len(c) /\ d[i] = c[i] /\ d[j] = t
      BY <1>1, <1>3, <2>1, <2>3
    <3>. QED
      BY <1>4, <1>6, <3>1
  <2>4. CASE i < o + 1 /\ j > o + 1
    <3>1. /\ i \in 1 .. Len(c) /\ j - 1 \in 1 .. Len(c) /\ i < j - 1
          /\ ~ (j < o + 1) /\ j # o + 1
      BY <1>1, <2>1, <2>4
    <3>2. d[i] = c[i] /\ d[j] = c[j - 1]
      BY <1>3, <2>1, <2>4, <3>1
    <3>. QED
      BY <1>5, <3>1, <3>2
  <2>5. CASE i = o + 1 /\ j > o + 1
    <3>1. /\ j - 1 \in 1 .. Len(c) /\ j - 1 > o /\ ~ (i < o + 1)
          /\ ~ (j < o + 1) /\ j # o + 1
      BY <1>1, <2>1, <2>5
    <3>2. d[i] = t /\ d[j] = c[j - 1]
      BY <1>3, <2>1, <2>5, <3>1
    <3>3. c[j - 1].type <= t.type /\ Key(c[j - 1]) # Key(t)
      BY <1>6, <1>7, <3>1
    <3>. QED
      BY <1>1, <1>2, <3>1, <3>2, <3>3
  <2>6. CASE i > o + 1
    <3>1. /\ i - 1 \in 1 .. Len(c) /\ j - 1 \in 1 .. Len(c) /\ i - 1 < j - 1
          /\ ~ (i < o + 1) /\ i # o + 1 /\ ~ (j < o + 1) /\ j # o + 1
      BY <1>1, <1>8, <2>1, <2>6
    <3>2. d[i] = c[i - 1] /\ d[j] = c[j - 1]
      BY <1>3, <2>1, <3>1
    <3>. QED
      BY <1>5, <3>1, <3>2
  <2>7. \/ i < o + 1 /\ j < o + 1
        \/ i < o + 1 /\ j = o + 1
        \/ i < o + 1 /\ j > o + 1
        \/ i = o + 1 /\ j > o + 1
        \/ i > o + 1
    BY <1>8, <2>1
  <2>. QED
    BY <2>2, <2>3, <2>4, <2>5, <2>6, <2>7
<1>. QED
  BY <1>8 DEF Descending, d

LEMMA AddTLVSound ==
  ASSUME NEW p, Sound(p), NEW t \in Stored
  PROVE  Sound(addTLV(p, t))
<1>1. CASE Full(p, t) \/ Inside(p, t)
  BY <1>1, AddTLVCases
<1>2. CASE ~ Full(p, t) /\ ~ Inside(p, t)
  <2>. DEFINE q == addTLV(p, t)
  <2>1. Adds(q, p, t)
    BY <1>2, AddTLVCases
  <2>2. q = [tlvs |-> q.tlvs, body_length |-> q.body_length]
    BY <1>2 DEF addTLV
  <2>3. p.body_length \in Nat /\ sizeOf(t) \in Nat
    BY SizeOfFacts DEF Sound
  <2>4. ~ (p.body_length + sizeOf(t) > MAX_PACKAGE_SIZE - PACKAGE_HEAD_SIZE)
    BY <1>2 DEF Full
  <2>. HIDE DEF q
  <2>5. q.tlvs \in Seq(Stored) /\ Len(Body(q)) = q.body_length /\ Descending(q.tlvs)
    BY <1>2, <2>1, AddsInserted, AddsLength, AddsDescending
  <2>6. q.body_length = p.body_length + sizeOf(t)
    BY <2>1 DEF Adds
  <2>7. /\ q.body_length \in Nat
        /\ PACKAGE_HEAD_SIZE + q.body_length <= MAX_PACKAGE_SIZE
    BY <2>3, <2>4, <2>6, SizeAssumption
  <2>8. Sound(q)
    BY <2>2, <2>5, <2>7 DEF Sound
  <2>. QED
    BY <2>8 DEF q
<1>. QED
  BY <1>1, <1>2
-----------------------------------------------------------------------------
(* The TLV at current.                                                     *)

LEMMA DatagramFacts ==
  ASSUME NEW d \in Datagram
  PROVE  /\ d.octets \in Seq(Octet) /\ Len(d.octets) \in Nat
         /\ \A i \in 1 .. Len(d.octets) : d.octets[i] \in Octet
         /\ d.size \in Nat /\ d.length \in Nat
         /\ d.length <= MAX_PACKAGE_SIZE
         /\ Len(d.octets) = IF d.length < PACKAGE_HEAD_SIZE THEN 0
                                     ELSE d.length - PACKAGE_HEAD_SIZE
<1>1. /\ d.octets \in Seq(Octet) /\ d.size \in Nat
      /\ d.length \in 0 .. MAX_PACKAGE_SIZE
      /\ Len(d.octets) = IF d.length < PACKAGE_HEAD_SIZE THEN 0
                                     ELSE d.length - PACKAGE_HEAD_SIZE
  BY DEF Datagram
<1>2. Len(d.octets) \in Nat /\ \A i \in 1 .. Len(d.octets) : d.octets[i] \in Octet
  BY <1>1, SeqFacts
<1>. QED
  BY <1>1, <1>2, SizeAssumption

\* While there is something left, current is in the datagram.
LEMMA ParsingFacts ==
  ASSUME TypeOK, phase = "parsing"
  PROVE  /\ at \in Nat /\ left \in Nat
         /\ at + left = dgram.size
         /\ dgram.size <= Len(dgram.octets)
         /\ Len(dgram.octets) \in Nat
         /\ PACKAGE_HEAD_SIZE + Len(dgram.octets) <= MAX_PACKAGE_SIZE
         /\ \A i \in 1 .. Len(dgram.octets) : dgram.octets[i] \in Octet
         /\ left > 0 => curType \in Octet
         /\ left > 1 => curLength \in Octet
         /\ left > 1 => siz \in Nat
<1>1. /\ dgram \in Datagram /\ at \in Nat /\ left \in Nat
      /\ at + left = dgram.size /\ dgram.size <= Len(dgram.octets)
  BY DEF TypeOK
<1>2. /\ Len(dgram.octets) \in Nat
      /\ \A i \in 1 .. Len(dgram.octets) : dgram.octets[i] \in Octet
      /\ dgram.length \in Nat /\ dgram.length <= MAX_PACKAGE_SIZE
      /\ Len(dgram.octets) = IF dgram.length < PACKAGE_HEAD_SIZE THEN 0
                                     ELSE dgram.length - PACKAGE_HEAD_SIZE
  BY <1>1, DatagramFacts
<1>3. PACKAGE_HEAD_SIZE + Len(dgram.octets) <= MAX_PACKAGE_SIZE
  BY <1>2, SizeAssumption
<1>4. left > 0 => curType \in Octet
  <2>1. left > 0 => at + 1 \in 1 .. Len(dgram.octets)
    BY <1>1, <1>2
  <2>. QED
    BY <1>2, <2>1 DEF curType
<1>5. left > 1 => curLength \in Octet
  <2>1. left > 1 => at + 2 \in 1 .. Len(dgram.octets)
    BY <1>1, <1>2
  <2>2. 0 \in Octet
    BY OctetAssumption DEF Octet
  <2>. QED
    BY <1>2, <2>1, <2>2 DEF curLength
<1>6. left > 1 => siz \in Nat
  <2>1. left > 1 => siz \in Octet
    BY <1>1, <1>4, <1>5, SizeFacts DEF siz
  <2>. QED
    BY <2>1, OctetAssumption DEF Octet
<1>. QED
  BY <1>1, <1>2, <1>3, <1>4, <1>5, <1>6

LEMMA CurrentFacts ==
  ASSUME TypeOK, phase = "parsing", left > 1, NEW o \in Past
  PROVE  /\ Current(o) \in Stored
         /\ Current(o).type = curType
         /\ Len(Current(o).content) = curLength
         /\ sizeOf(Current(o)) = siz
<1>. DEFINE n == curLength
            c == Current(o).content
<1>1. /\ curType \in Octet /\ n \in Octet /\ n \in Nat /\ n < W
      /\ at \in Nat /\ Len(dgram.octets) \in Nat
      /\ \A i \in 1 .. Len(dgram.octets) : dgram.octets[i] \in Octet
  <2>1. \A m \in Octet : m \in Nat /\ m < W
    BY OctetAssumption DEF Octet
  <2>2. curType \in Octet /\ curLength \in Octet
    BY ParsingFacts
  <2>. QED
    BY <2>1, <2>2, ParsingFacts
<1>2. o \in Octet
  BY PastAssumption
<1>3. /\ Current(o).type = curType
      /\ c = [i \in 1 .. n |-> IF at + HEAD_SIZE + i <= Len(dgram.octets)
                                 THEN dgram.octets[at + HEAD_SIZE + i] ELSE o]
  BY DEF Current
<1>. HIDE DEF n
<1>4. c \in [1 .. n -> Octet]
  <2>1. ASSUME NEW i \in 1 .. n, at + HEAD_SIZE + i <= Len(dgram.octets)
        PROVE  dgram.octets[at + HEAD_SIZE + i] \in Octet
    <3>1. at + HEAD_SIZE + i \in 1 .. Len(dgram.octets)
      BY <1>1, <2>1
    <3>. QED
      BY <1>1, <3>1
  <2>. HIDE DEF c
  <2>. QED
    BY <1>2, <1>3, <2>1
<1>5. Current(o) = [type |-> curType, content |-> c]
  BY DEF Current
<1>. HIDE DEF c
<1>6. c \in Seq(Octet) /\ Len(c) = n
  BY <1>1, <1>4
<1>7. Current(o) \in Stored
  BY <1>1, <1>3, <1>5, <1>6 DEF Stored, TLV, c
<1>8. sizeOf(Current(o)) = siz
  BY <1>3, <1>6 DEF sizeOf, siz, c, n
<1>. QED
  BY <1>3, <1>6, <1>7, <1>8 DEF c, n

LEMMA CopyFacts ==
  ASSUME NEW t \in Stored, NEW c \in Copy(t)
  PROVE  /\ c \in Stored
         /\ Copy(t) = {c}
         /\ sizeOf(c) <= IF t.type = PAD1_NUM THEN 1 ELSE 2 + Len(t.content)
<1>1. Len(t.content) \in Nat /\ t.type \in Nat
  BY TlvFields DEF Stored
<1>2. CASE t.type = STOCK_NUM
  <2>1. c = stock /\ Copy(t) = {c}
    BY <1>2 DEF Copy
  <2>2. /\ STOCK_NUM \in Octet /\ STOCK_NUM # PAD1_NUM
        /\ W \in Nat /\ 9 < W
    BY OctetAssumption DEF Octet
  <2>3. stock.type = STOCK_NUM /\ stock.content = <<>> /\ Len(stock.content) = 0
    BY DEF stock
  <2>4. stock \in Stored
    BY <2>2, <2>3 DEF stock, Stored, TLV
  <2>5. sizeOf(stock) = 2
    BY <2>2, <2>3, <2>4, SizeOfFacts
  <2>. QED
    BY <1>1, <1>2, <2>1, <2>2, <2>4, <2>5
<1>3. CASE t.type # STOCK_NUM
  <2>1. c = t /\ Copy(t) = {c}
    BY <1>3 DEF Copy
  <2>2. /\ sizeOf(t) <= 2 + Len(t.content)
        /\ t.type = PAD1_NUM => sizeOf(t) = 1
    BY SizeOfFacts
  <2>. QED
    BY <2>1, <2>2
<1>. QED
  BY <1>2, <1>3

\* A TLV that is made is taken, as it is.
LEMMA MadeFacts ==
  ASSUME NEW t \in TLV, Made(t)
  PROVE  /\ verify(t)
         /\ Copy(t) = {t}
         /\ t \in Stored
         /\ 2 + Len(t.content) < W
         /\ t.type = PAD1_NUM => t.content = <<>>
<1>1. /\ t.type \in 0 .. WARNING_NUM \cup {CHANGE_MESSAGE_NUM, STOCK_NUM}
      /\ t.type \in {PAD1_NUM, STOCK_NUM} => Len(t.content) = 0
      /\ WithinLimit(t)
      /\ 2 + Len(t.content) < W
  BY DEF Made
<1>2. t.content \in Seq(Octet) /\ Len(t.content) \in Nat
  BY TlvFields
<1>3. Len(t.content) = 0 => t.content = <<>>
  BY <1>2
<1>4. t \in Stored
  BY <1>1, <1>2, OctetAssumption DEF Stored
<1>5. Copy(t) = {t}
  <2>1. CASE t.type = STOCK_NUM
    <3>1. t = stock
      BY <1>1, <1>3, <2>1, TlvFields DEF stock
    <3>. QED
      BY <2>1, <3>1 DEF Copy
  <2>2. CASE t.type # STOCK_NUM
    BY <1>1, <2>2 DEF Copy
  <2>. QED
    BY <2>1, <2>2
<1>6. t.type = NODE_STATE_NUM => verifyNodeState(t)
  <2>. SUFFICES ASSUME t.type = NODE_STATE_NUM PROVE verifyNodeState(t)
    OBVIOUS
  <2>1. /\ Len(t.content) >= NODE_SIZE
        /\ getHash(t) = Sha(getID(t) \o getSeqno(t) \o getData(t))
        /\ \/ getData(t) # <<>>
           \/ \E i \in 1 .. SEQNO_SIZE : getSeqno(t)[i] # W - 1
    BY DEF Made
  <2>2. ExpectedHash(t) = Sha(getID(t) \o getSeqno(t) \o getData(t))
    BY <2>1 DEF ExpectedHash
  <2>. QED
    BY <2>1, <2>2 DEF verifyNodeState
<1>7. verify(t)
  BY <1>6 DEF verify, Made
<1>. QED
  BY <1>1, <1>3, <1>4, <1>5, <1>7
-----------------------------------------------------------------------------
(* A body that is a sequence of TLVs, and what paquet has made of it.      *)

\* the octets a TLV takes, if its length is what it says
span(t) == IF t.type = PAD1_NUM THEN 1 ELSE HEAD_SIZE + Len(t.content)
Spans(s) == [k \in 1 .. Len(s) |-> span(s[k])]

\* t is what body has from a on.
Lies(t, body, a) ==
  /\ body[a + 1] = t.type
  /\ t.type = PAD1_NUM => t.content = <<>>
  /\ t.type # PAD1_NUM =>
       /\ body[a + 2] = Len(t.content)
       /\ \A j \in 1 .. Len(t.content) : body[a + 2 + j] = t.content[j]

\* body is the TLVs s, one after the other; off[k] is where the first k end.
Cuts(s, off, body) ==
  /\ s \in Seq(TLV)
  /\ IsSum(off, Spans(s))
  /\ off[Len(s)] = Len(body)
  /\ \A k \in 1 .. Len(s) : Lies(s[k], body, off[k - 1])

LEMMA SpanFacts ==
  ASSUME NEW s \in Seq(TLV)
  PROVE  /\ Len(s) \in Nat
         /\ Spans(s) \in Seq(Nat) /\ Len(Spans(s)) = Len(s)
         /\ \A k \in 1 .. Len(s) :
              s[k] \in TLV /\ Spans(s)[k] = span(s[k])
                           /\ span(s[k]) \in Nat \ {0}
<1>1. Len(s) \in Nat /\ \A k \in 1 .. Len(s) : s[k] \in TLV
  BY SeqFacts
<1>2. \A k \in 1 .. Len(s) : span(s[k]) \in Nat \ {0}
  <2>1. \A t \in TLV : Len(t.content) \in Nat
    BY TlvFields
  <2>. QED
    BY <1>1, <2>1 DEF span
<1>. QED
  BY <1>1, <1>2 DEF Spans

\* The places grow with each TLV.
LEMMA OffsetFacts ==
  ASSUME NEW s, NEW off, NEW body, Cuts(s, off, body), NEW k \in 0 .. Len(s)
  PROVE  /\ off[k] \in Nat
         /\ off[0] = 0
         /\ off[Len(s)] = Len(body)
         /\ off[k] <= Len(body)
         /\ k < Len(s) => /\ off[k + 1] = off[k] + span(s[k + 1])
                          /\ span(s[k + 1]) \in Nat \ {0}
                          /\ s[k + 1] \in TLV
                          /\ off[k + 1] <= Len(body)
                          /\ Lies(s[k + 1], body, off[k])
<1>1. /\ s \in Seq(TLV) /\ IsSum(off, Spans(s)) /\ off[Len(s)] = Len(body)
      /\ \A j \in 1 .. Len(s) : Lies(s[j], body, off[j - 1])
  BY DEF Cuts
<1>2. /\ Len(s) \in Nat
      /\ Spans(s) \in Seq(Nat) /\ Len(Spans(s)) = Len(s)
      /\ \A j \in 1 .. Len(s) : /\ s[j] \in TLV /\ Spans(s)[j] = span(s[j])
                                /\ span(s[j]) \in Nat \ {0}
  BY <1>1, SpanFacts
<1>3. /\ off \in [0 .. Len(s) -> Nat] /\ off[0] = 0
      /\ \A j \in 1 .. Len(s) : off[j] = off[j - 1] + span(s[j])
  BY <1>1, <1>2 DEF IsSum
<1>4. ASSUME NEW j \in 0 .. Len(s) PROVE off[j] <= Len(body)
  <2>1. Len(s) \in j .. Len(Spans(s)) /\ j \in 0 .. Len(Spans(s))
    BY <1>2
  <2>2. off[j] <= off[Len(s)]
    BY <1>1, <1>2, <2>1, SumGrows
  <2>. QED
    BY <1>1, <2>2
<1>5. off[k] \in Nat /\ off[k] <= Len(body)
  BY <1>3, <1>4
<1>6. ASSUME k < Len(s)
      PROVE  /\ off[k + 1] = off[k] + span(s[k + 1])
             /\ span(s[k + 1]) \in Nat \ {0}
             /\ s[k + 1] \in TLV
             /\ off[k + 1] <= Len(body)
             /\ Lies(s[k + 1], body, off[k])
  <2>1. k + 1 \in 1 .. Len(s) /\ k + 1 \in 0 .. Len(s) /\ (k + 1) - 1 = k
    BY <1>2, <1>6
  <2>2. /\ off[k + 1] = off[(k + 1) - 1] + span(s[k + 1])
        /\ Lies(s[k + 1], body, off[(k + 1) - 1])
    BY <1>1, <1>3, <2>1
  <2>. QED
    BY <1>2, <1>4, <2>1, <2>2
<1>. QED
  BY <1>1, <1>3, <1>5, <1>6

\* What paquet reads of a datagram.
Bytes(d) == SubSeq(d.octets, 1, d.size)

LEMMA BytesFacts ==
  ASSUME NEW d \in Datagram, d.size <= Len(d.octets)
  PROVE  /\ Bytes(d) \in Seq(Octet)
         /\ Len(Bytes(d)) = d.size
         /\ \A i \in 1 .. d.size : Bytes(d)[i] = d.octets[i]
<1>. DEFINE b == d.octets
            n == d.size
<1>1. b \in Seq(Octet) /\ n \in Nat /\ n <= Len(b) /\ Len(b) \in Nat
  BY DatagramFacts
<1>. HIDE DEF b, n
<1>2. /\ SubSeq(b, 1, n) \in Seq(Octet)
      /\ Len(SubSeq(b, 1, n)) = n
      /\ \A i \in 1 .. n : SubSeq(b, 1, n)[i] = b[i]
  BY <1>1
<1>. QED
  BY <1>2 DEF Bytes, b, n

\* What paquet reads next, where a TLV of s begins, is this TLV.
LEMMA Reads ==
  ASSUME TypeOK, phase = "parsing", left > 0,
         NEW s, NEW off, Cuts(s, off, Bytes(dgram)), SizeFits(s),
         NEW k \in 0 .. Len(s), at = off[k]
  PROVE  /\ k < Len(s)
         /\ s[k + 1] \in Stored
         /\ left = 1 => curType = PAD1_NUM
         /\ left > 1 => /\ siz = span(s[k + 1])
                        /\ siz <= left
                        /\ at + siz = off[k + 1]
                        /\ \A o \in Past : Current(o) = s[k + 1]
<1>1. /\ at \in Nat /\ left \in Nat /\ at + left = dgram.size
      /\ dgram.size <= Len(dgram.octets) /\ Len(dgram.octets) \in Nat
  BY ParsingFacts
<1>2. /\ Len(Bytes(dgram)) = dgram.size
      /\ \A i \in 1 .. dgram.size : Bytes(dgram)[i] = dgram.octets[i]
  BY <1>1, BytesFacts DEF TypeOK
<1>3. s \in Seq(TLV) /\ Len(s) \in Nat
  BY SeqFacts DEF Cuts
<1>4. k < Len(s)
  <2>1. off[Len(s)] = dgram.size
    BY <1>2 DEF Cuts
  <2>2. CASE k = Len(s)
    <3>1. off[k] = off[Len(s)]
      BY <2>2
    <3>2. at = dgram.size
      BY <2>1, <3>1
    <3>. QED
      BY <1>1, <3>2
  <2>. QED
    BY <1>3, <2>2
<1>. DEFINE t == s[k + 1]
            n == Len(t.content)
<1>5. /\ off[k + 1] = at + span(t)
      /\ span(t) \in Nat \ {0}
      /\ t \in TLV
      /\ off[k + 1] <= dgram.size
      /\ Lies(t, Bytes(dgram), at)
  BY <1>2, <1>4, OffsetFacts
<1>6. 2 + n < W /\ n \in Nat /\ t.type \in Octet
  <2>1. k + 1 \in 1 .. Len(s)
    BY <1>3, <1>4
  <2>. QED
    BY <1>5, <2>1, TlvFields DEF SizeFits
<1>. HIDE DEF t, n
<1>7. t \in Stored
  BY <1>5, <1>6, OctetAssumption DEF Stored, n
<1>8. at + span(t) <= dgram.size
  BY <1>5
<1>9. curType = t.type
  <2>1. at + 1 \in 1 .. dgram.size
    BY <1>1, <1>5, <1>8
  <2>. QED
    BY <1>2, <1>5, <2>1 DEF curType, Lies
<1>10. left = 1 => curType = PAD1_NUM
  <2>. SUFFICES ASSUME left = 1, t.type # PAD1_NUM PROVE FALSE
    BY <1>9
  <2>1. span(t) = 2 + n
    BY DEF span, n
  <2>. QED
    BY <1>1, <1>6, <1>8, <2>1
<1>11. ASSUME left > 1
       PROVE  /\ siz = span(t)
              /\ siz <= left
              /\ at + siz = off[k + 1]
              /\ \A o \in Past : Current(o) = t
  <2>1. t.type # PAD1_NUM => curLength = n
    <3>1. at + 2 \in 1 .. dgram.size
      BY <1>1, <1>11
    <3>. QED
      BY <1>2, <1>5, <1>9, <3>1 DEF curLength, Lies, n
  <2>2. t.type = PAD1_NUM => curLength = 0 /\ n = 0
    BY <1>5, <1>9 DEF curLength, Lies, n
  <2>3. curLength = n
    BY <2>1, <2>2
  <2>4. siz = span(t)
    <3>1. siz = size(t.type, n) /\ n \in Octet
      BY <1>6, <1>9, <2>3, OctetAssumption DEF siz, Octet
    <3>. QED
      BY <1>6, <3>1, SizeFacts DEF span, n
  <2>5. siz <= left /\ at + siz = off[k + 1]
    BY <1>1, <1>5, <1>8, <2>4
  <2>6. ASSUME NEW o \in Past PROVE Current(o) = t
    <3>. DEFINE c == [i \in 1 .. n |-> IF at + HEAD_SIZE + i <= Len(dgram.octets)
                                  THEN dgram.octets[at + HEAD_SIZE + i] ELSE o]
    <3>1. Current(o) = [type |-> t.type, content |-> c]
      BY <1>9, <2>3 DEF Current
    <3>2. t.content \in Seq(Octet) /\ t = [type |-> t.type, content |-> t.content]
      BY <1>5, TlvFields
    <3>3. ASSUME NEW i \in 1 .. n PROVE c[i] = t.content[i]
      <4>1. t.type # PAD1_NUM
        BY <2>2
      <4>2. span(t) = 2 + n
        BY <4>1 DEF span, n
      <4>3. at + 2 + i \in 1 .. dgram.size /\ at + 2 + i <= Len(dgram.octets)
        <5>1. at + (2 + n) <= dgram.size
          BY <1>8, <4>2
        <5>2. i \in Nat /\ 1 <= i /\ i <= n /\ dgram.size \in Nat
          BY <1>1, <1>6
        <5>3. \A a, z, l \in Nat : a + (2 + n) <= z /\ z <= l =>
                a + 2 + i \in 1 .. z /\ a + 2 + i <= l
          BY <1>6, <5>2
        <5>. QED
          BY <1>1, <5>1, <5>2, <5>3
      <4>4. Bytes(dgram)[at + 2 + i] = t.content[i]
        BY <1>5, <4>1 DEF Lies, n
      <4>5. c[i] = dgram.octets[at + 2 + i]
        BY <4>3
      <4>. QED
        BY <1>2, <4>3, <4>4, <4>5
    <3>4. t.content = [i \in 1 .. n |-> t.content[i]]
      BY <3>2, SeqFacts DEF n
    <3>5. c = t.content
      <4>1. c = [i \in 1 .. n |-> c[i]]
        OBVIOUS
      <4>. HIDE DEF c
      <4>. QED
        BY <3>3, <3>4, <4>1
    <3>. HIDE DEF c
    <3>. QED
      BY <3>1, <3>2, <3>5
  <2>. QED
    BY <2>4, <2>5, <2>6
<1>. QED
  BY <1>4, <1>7, <1>10, <1>11 DEF t

\* paquet is at the end where the last TLV ends.
LEMMA AtEnd ==
  ASSUME NEW s, NEW off, NEW body, Cuts(s, off, body),
         NEW k \in 0 .. Len(s), off[k] = Len(body)
  PROVE  k = Len(s)
<1>1. Len(s) \in Nat
  BY SeqFacts DEF Cuts
<1>2. CASE k < Len(s)
  <2>1. /\ off[k] \in Nat
        /\ off[k + 1] = off[k] + span(s[k + 1])
        /\ span(s[k + 1]) \in Nat \ {0}
        /\ off[k + 1] <= Len(body)
    BY <1>2, OffsetFacts
  <2>. QED
    BY <2>1
<1>. QED
  BY <1>1, <1>2
-----------------------------------------------------------------------------
(* What paquet has done with the first TLVs of a sequence.                 *)

Has(p, t) == \E i \in 1 .. Len(p.tlvs) : p.tlvs[i] = t

\* None of the first k of s, as far as they are correct, has the key of t.
NewKey(t, s, k) ==
  \A j \in 1 .. k : verify(s[j]) => \A u \in Copy(s[j]) : Key(u) # Key(t)

\* t is among the first k of s, correct and first of its key.
IsFirst(t, s, k) ==
  \E i \in 1 .. k : verify(s[i]) /\ t \in Copy(s[i]) /\ NewKey(t, s, i - 1)

\* p has the first k of s that it should have, and w tells of the others.
Handled(p, w, s, k) ==
  /\ \A t : Has(p, t) <=> IsFirst(t, s, k)
  /\ w <=> \E i \in 1 .. k : ~ verify(s[i])
  /\ \A i \in 1 .. k : verify(s[i]) =>
       \A u \in Copy(s[i]) : \E t : Has(p, t) /\ Key(t) = Key(u)

LEMMA FirstNext ==
  ASSUME NEW t, NEW s, NEW k \in Nat
  PROVE  IsFirst(t, s, k + 1) <=>
           \/ IsFirst(t, s, k)
           \/ verify(s[k + 1]) /\ t \in Copy(s[k + 1]) /\ NewKey(t, s, k)
<1>. DEFINE is(i) == verify(s[i]) /\ t \in Copy(s[i]) /\ NewKey(t, s, i - 1)
<1>1. \A m : IsFirst(t, s, m) <=> \E i \in 1 .. m : is(i)
  BY DEF IsFirst
<1>2. is(k + 1) <=> verify(s[k + 1]) /\ t \in Copy(s[k + 1]) /\ NewKey(t, s, k)
  <2>1. (k + 1) - 1 = k
    OBVIOUS
  <2>. QED
    BY <2>1
<1>. HIDE DEF is
<1>3. (\E i \in 1 .. k + 1 : is(i)) <=> (\E i \in 1 .. k : is(i)) \/ is(k + 1)
  OBVIOUS
<1>. QED
  BY <1>1, <1>2, <1>3

LEMMA HandledNone ==
  ASSUME NEW s
  PROVE  Handled(new_paquet, FALSE, s, 0)
<1>1. \A t : ~ Has(new_paquet, t)
  BY DEF Has, new_paquet
<1>2. \A t : ~ IsFirst(t, s, 0)
  BY DEF IsFirst
<1>. QED
  BY <1>1, <1>2 DEF Handled

LEMMA HasAdded ==
  ASSUME NEW p, Sound(p), NEW c \in Stored, NEW q, Adds(q, p, c), NEW t
  PROVE  Has(q, t) <=> Has(p, t) \/ t = c
<1>. DEFINE n == Len(p.tlvs)
            o == Pos(p, c) + 1
<1>1. /\ Len(q.tlvs) = n + 1
      /\ \A k \in 1 .. n + 1 :
           q.tlvs[k] = IF k < o THEN p.tlvs[k]
                       ELSE IF k = o THEN c ELSE p.tlvs[k - 1]
  BY AddsInserted DEF Inserted
<1>2. n \in Nat /\ o \in 1 .. n + 1
  <2>1. n \in Nat
    BY SeqFacts DEF Sound
  <2>2. Pos(p, c) \in 0 .. n
    BY PosFacts DEF Sound
  <2>. QED
    BY <2>1, <2>2
<1>. HIDE DEF n, o
<1>3. ASSUME NEW k \in 1 .. n + 1, q.tlvs[k] = t, t # c
      PROVE  \E i \in 1 .. n : p.tlvs[i] = t
  <2>1. CASE k < o
    BY <1>1, <1>2, <1>3, <2>1
  <2>2. CASE k > o
    <3>1. k - 1 \in 1 .. n /\ ~ (k < o) /\ k # o
      BY <1>2, <2>2
    <3>. QED
      BY <1>1, <1>3, <3>1
  <2>3. k # o
    BY <1>1, <1>2, <1>3
  <2>. QED
    BY <1>2, <2>1, <2>2, <2>3
<1>4. ASSUME NEW i \in 1 .. n
      PROVE  \E k \in 1 .. n + 1 : q.tlvs[k] = p.tlvs[i]
  <2>1. CASE i < o
    BY <1>1, <1>2, <2>1
  <2>2. CASE ~ (i < o)
    <3>1. i + 1 \in 1 .. n + 1 /\ ~ (i + 1 < o) /\ i + 1 # o /\ (i + 1) - 1 = i
      BY <1>2, <2>2
    <3>2. q.tlvs[i + 1] = p.tlvs[i]
      BY <1>1, <3>1
    <3>. QED
      BY <3>1, <3>2
  <2>. QED
    BY <2>1, <2>2
<1>5. o \in 1 .. n + 1 /\ q.tlvs[o] = c
  BY <1>1, <1>2
<1>6. /\ Has(q, t) <=> \E k \in 1 .. n + 1 : q.tlvs[k] = t
      /\ Has(p, t) <=> \E i \in 1 .. n : p.tlvs[i] = t
  BY <1>1 DEF Has, n
<1>. QED
  BY <1>3, <1>4, <1>5, <1>6

\* A TLV that is not correct, or of no type that has a constructor.
LEMMA HandledWithout ==
  ASSUME NEW p, NEW w \in BOOLEAN, NEW s, NEW k \in Nat, Handled(p, w, s, k)
  PROVE  /\ ~ verify(s[k + 1]) => Handled(p, TRUE, s, k + 1)
         /\ verify(s[k + 1]) /\ Copy(s[k + 1]) = {} => Handled(p, w, s, k + 1)
<1>1. \A i \in 1 .. k + 1 : i \in 1 .. k \/ i = k + 1
  OBVIOUS
<1>2. k + 1 \in 1 .. k + 1 /\ \A i \in 1 .. k : i \in 1 .. k + 1
  OBVIOUS
<1>3. /\ \A t : Has(p, t) <=> IsFirst(t, s, k)
      /\ w <=> \E i \in 1 .. k : ~ verify(s[i])
      /\ \A i \in 1 .. k : verify(s[i]) =>
           \A u \in Copy(s[i]) : \E t : Has(p, t) /\ Key(t) = Key(u)
  BY DEF Handled
<1>4. ASSUME ~ (verify(s[k + 1]) /\ Copy(s[k + 1]) # {})
      PROVE  /\ \A t : Has(p, t) <=> IsFirst(t, s, k + 1)
             /\ \A i \in 1 .. k + 1 : verify(s[i]) =>
                  \A u \in Copy(s[i]) : \E t : Has(p, t) /\ Key(t) = Key(u)
  <2>1. \A t : IsFirst(t, s, k + 1) <=> IsFirst(t, s, k)
    BY <1>4, FirstNext
  <2>. QED
    BY <1>1, <1>3, <1>4, <2>1
<1>5. ASSUME ~ verify(s[k + 1]) PROVE Handled(p, TRUE, s, k + 1)
  BY <1>2, <1>4, <1>5 DEF Handled
<1>6. ASSUME verify(s[k + 1]), Copy(s[k + 1]) = {}
      PROVE  Handled(p, w, s, k + 1)
  <2>1. w <=> \E i \in 1 .. k + 1 : ~ verify(s[i])
    BY <1>1, <1>2, <1>3, <1>6, Zenon
  <2>. QED
    BY <1>4, <1>6, <2>1 DEF Handled
<1>. QED
  BY <1>5, <1>6

LEMMA HandledWith ==
  ASSUME NEW p, Sound(p), NEW w \in BOOLEAN, NEW s, NEW k \in Nat,
         Handled(p, w, s, k), verify(s[k + 1]),
         NEW c \in Stored, Copy(s[k + 1]) = {c}, ~ Full(p, c)
  PROVE  Handled(addTLV(p, c), w, s, k + 1)
<1>. DEFINE q == addTLV(p, c)
<1>1. \A i \in 1 .. k + 1 : i \in 1 .. k \/ i = k + 1
  OBVIOUS
<1>2. k + 1 \in 1 .. k + 1 /\ \A i \in 1 .. k : i \in 1 .. k + 1
  OBVIOUS
<1>3. /\ \A t : Has(p, t) <=> IsFirst(t, s, k)
      /\ w <=> \E i \in 1 .. k : ~ verify(s[i])
      /\ \A i \in 1 .. k : verify(s[i]) =>
           \A u \in Copy(s[i]) : \E t : Has(p, t) /\ Key(t) = Key(u)
  BY DEF Handled
<1>4. Inside(p, c) <=> \E t : Has(p, t) /\ Key(t) = Key(c)
  BY InsideFacts DEF Has
<1>5. \A t : IsFirst(t, s, k + 1) <=> IsFirst(t, s, k) \/ (t = c /\ NewKey(c, s, k))
  BY FirstNext
<1>6. NewKey(c, s, k) <=> ~ Inside(p, c)
  <2>1. ASSUME Inside(p, c) PROVE ~ NewKey(c, s, k)
    <3>1. PICK t : IsFirst(t, s, k) /\ Key(t) = Key(c)
      BY <1>3, <1>4, <2>1
    <3>2. PICK i \in 1 .. k : verify(s[i]) /\ t \in Copy(s[i])
      BY <3>1 DEF IsFirst
    <3>. QED
      BY <3>1, <3>2 DEF NewKey
  <2>2. ASSUME ~ Inside(p, c) PROVE NewKey(c, s, k)
    BY <1>3, <1>4, <2>2 DEF NewKey
  <2>. QED
    BY <2>1, <2>2
<1>7. \A t : Has(q, t) <=> Has(p, t) \/ (t = c /\ ~ Inside(p, c))
  <2>1. CASE Inside(p, c)
    <3>1. q = p
      BY <2>1, AddTLVCases
    <3>. HIDE DEF q
    <3>. QED
      BY <2>1, <3>1
  <2>2. CASE ~ Inside(p, c)
    <3>1. Adds(q, p, c)
      BY <2>2, AddTLVCases
    <3>. HIDE DEF q
    <3>. QED
      BY <2>2, <3>1, HasAdded
  <2>. QED
    BY <2>1, <2>2
<1>. HIDE DEF q
<1>8. \A t : Has(q, t) <=> IsFirst(t, s, k + 1)
  BY <1>3, <1>5, <1>6, <1>7
<1>9. \E t : Has(q, t) /\ Key(t) = Key(c)
  <2>1. CASE Inside(p, c)
    BY <1>4, <1>7, <2>1
  <2>2. CASE ~ Inside(p, c)
    BY <1>7, <2>2
  <2>. QED
    BY <2>1, <2>2
<1>10. \A i \in 1 .. k + 1 : verify(s[i]) =>
         \A u \in Copy(s[i]) : \E t : Has(q, t) /\ Key(t) = Key(u)
  BY <1>1, <1>3, <1>7, <1>9
<1>11. w <=> \E i \in 1 .. k + 1 : ~ verify(s[i])
  BY <1>1, <1>2, <1>3, Zenon
<1>12. Handled(q, w, s, k + 1)
  BY <1>8, <1>10, <1>11 DEF Handled
<1>. QED
  BY <1>12 DEF q
-----------------------------------------------------------------------------
(* The types, the order of a packet and its length.                        *)

\* What build makes of a packet.
LEMMA BuildFacts ==
  ASSUME NEW p, Sound(p)
  PROVE  /\ build(p) \in Datagram
         /\ build(p).magic = 95 /\ build(p).version = 1
         /\ build(p).octets = Body(p)
         /\ build(p).size = Len(Body(p))
         /\ build(p).length = PACKAGE_HEAD_SIZE + build(p).size
<1>. DEFINE d == build(p)
<1>1. p.tlvs \in Seq(Stored)
  BY DEF Sound
<1>2. PICK s : IsSum(s, Sizes(p.tlvs))
  BY <1>1, SizesFacts, SumExists
<1>3. Body(p) \in Seq(Octet)
  BY <1>1, <1>2, BodyFacts
<1>4. /\ p.body_length \in Nat
      /\ Len(Body(p)) = p.body_length
      /\ PACKAGE_HEAD_SIZE + p.body_length <= MAX_PACKAGE_SIZE
  BY DEF Sound
<1>5. d = [length |-> PACKAGE_HEAD_SIZE + p.body_length, magic |-> 95,
           version |-> 1, size |-> p.body_length, octets |-> Body(p)]
  BY DEF build
<1>6. PACKAGE_HEAD_SIZE + p.body_length \in 0 .. MAX_PACKAGE_SIZE
  BY <1>4, SizeAssumption
<1>7. d \in [length : 0 .. MAX_PACKAGE_SIZE, magic : Nat, version : Nat,
             size : Nat, octets : Seq(Octet)]
  BY <1>3, <1>4, <1>5, <1>6
<1>8. /\ d.length = PACKAGE_HEAD_SIZE + p.body_length
      /\ d.magic = 95 /\ d.version = 1
      /\ d.size = p.body_length /\ d.octets = Body(p)
  BY <1>5
<1>. HIDE DEF d
<1>9. Len(d.octets) =
        IF d.length < PACKAGE_HEAD_SIZE THEN 0 ELSE d.length - PACKAGE_HEAD_SIZE
  BY <1>4, <1>8
<1>10. d \in Datagram
  BY <1>7, <1>9 DEF Datagram
<1>. QED
  BY <1>4, <1>8, <1>10 DEF d

LEMMA NoDatagramFacts == NoDatagram \in Datagram
<1>. DEFINE d == NoDatagram
<1>1. /\ d.length = 0 /\ d.octets = <<>>
      /\ d \in [length : 0 .. MAX_PACKAGE_SIZE, magic : Nat, version : Nat,
                size : Nat, octets : Seq(Octet)]
  <2>1. 0 \in 0 .. MAX_PACKAGE_SIZE
    BY SizeAssumption
  <2>2. <<>> \in Seq(Octet)
    OBVIOUS
  <2>. QED
    BY <2>1, <2>2 DEF NoDatagram
<1>. HIDE DEF d
<1>2. Len(d.octets) = 0 /\ d.length < 4
  BY <1>1
<1>3. d \in Datagram
  BY <1>1, <1>2 DEF Datagram
<1>. QED
  BY <1>3 DEF d

LEMMA SoundTypes ==
  ASSUME NEW p, Sound(p)
  PROVE  p.tlvs \in Seq(TLV) /\ p.body_length \in Nat
<1>1. Stored \subseteq TLV
  BY DEF Stored
<1>2. p.tlvs \in Seq(Stored)
  BY DEF Sound
<1>3. p.tlvs \in Seq(TLV)
  BY <1>1, <1>2
<1>. QED
  BY <1>3 DEF Sound

\* A datagram meets a packet without TLVs and paquet at its first octet.
Started ==
  /\ phase \in {"idle", "sent"} => pack = new_paquet
  /\ phase \in {"idle", "filling", "sent"} => at = 0 /\ warned = FALSE
  /\ phase \in {"idle", "filling"} => sent = <<>>

\* The packet, its TLVs and the types: inductive on their own.
Packed == TypeOK /\ Sound(pack) /\ Started

LEMMA PackedInit == Init => Packed
<1>. SUFFICES ASSUME Init PROVE Packed
  OBVIOUS
<1>1. Sound(pack) /\ pack.tlvs \in Seq(TLV) /\ pack.body_length \in Nat
  BY NewSound, SoundTypes DEF Init
<1>2. dgram \in Datagram
  BY NoDatagramFacts DEF Init
<1>3. <<>> \in Seq(TLV)
  OBVIOUS
<1>. QED
  BY <1>1, <1>2, <1>3 DEF Init, Packed, TypeOK, Started, Phase

\* It is enough that the packet is sound, and the rest as it should be.
LEMMA PackedEnough ==
  ASSUME Sound(pack'),
         phase' \in Phase, dgram' \in Datagram,
         at' \in Nat, left' \in Nat, warned' \in BOOLEAN,
         sent' \in Seq(TLV),
         phase' = "parsing" => at' + left' = dgram'.size
                                 /\ dgram'.size <= Len(dgram'.octets),
         phase' \in {"idle", "sent"} => pack' = new_paquet,
         phase' \in {"idle", "filling", "sent"} => at' = 0 /\ warned' = FALSE,
         phase' \in {"idle", "filling"} => sent' = <<>>
  PROVE  Packed'
<1>1. pack'.tlvs \in Seq(TLV) /\ pack'.body_length \in Nat
  BY SoundTypes
<1>. QED
  BY <1>1 DEF Packed, TypeOK, Started

LEMMA PackedNext == Packed /\ [Next]_vars => Packed'
<1>. SUFFICES ASSUME Packed, [Next]_vars PROVE Packed'
  OBVIOUS
<1>1. /\ phase \in Phase /\ dgram \in Datagram
      /\ at \in Nat /\ left \in Nat /\ warned \in BOOLEAN
      /\ sent \in Seq(TLV)
      /\ phase = "parsing" => at + left = dgram.size
                                /\ dgram.size <= Len(dgram.octets)
      /\ TypeOK /\ Sound(pack)
      /\ phase \in {"idle", "sent"} => pack = new_paquet
      /\ phase \in {"idle", "filling", "sent"} => at = 0 /\ warned = FALSE
      /\ phase \in {"idle", "filling"} => sent = <<>>
  BY DEF Packed, TypeOK, Started
<1>2. Sound(new_paquet)
  BY NewSound
<1>4. CASE Fill
  <2>1. PICK t \in Offered : pack' = addTLV(pack, t)
    BY <1>4 DEF Fill
  <2>2. t \in Stored
    BY OfferedAssumption, MadeFacts
  <2>3. Sound(pack')
    BY <1>1, <2>1, <2>2, AddTLVSound
  <2>. QED
    BY <1>1, <1>4, <2>3, PackedEnough DEF Fill, Phase
<1>5. CASE Send
  <2>1. build(pack) \in Datagram /\ pack.tlvs \in Seq(TLV)
    BY <1>1, BuildFacts, SoundTypes
  <2>. QED
    BY <1>1, <1>2, <1>5, <2>1, PackedEnough DEF Send, Phase
<1>6. CASE Receive
  <2>1. PICK d \in Datagram : Paquet(d) /\ phase \in {"sent", "idle"}
    BY <1>1, <1>6, ForeignAssumption DEF Receive
  <2>2. /\ UNCHANGED <<pack, at, warned, sent>> /\ at = 0
        /\ dgram' \in Datagram
        /\ phase' \in {"ignored", "refused", "parsing"}
    BY <1>1, <2>1 DEF Paquet
  <2>3. /\ d.size \in Nat /\ d.length \in Nat
        /\ Len(d.octets) = IF d.length < PACKAGE_HEAD_SIZE THEN 0
                                     ELSE d.length - PACKAGE_HEAD_SIZE
    BY DatagramFacts
  <2>4. left' \in Nat
    BY <1>1, <2>1, <2>3 DEF Paquet
  <2>5. phase' = "parsing" => at' + left' = dgram'.size
                                /\ dgram'.size <= Len(dgram'.octets)
    <3>. SUFFICES ASSUME phase' = "parsing"
                  PROVE  at' + left' = dgram'.size
                           /\ dgram'.size <= Len(dgram'.octets)
      OBVIOUS
    <3>1. /\ dgram' = d /\ left' = d.size
          /\ ~ (d.length < PACKAGE_HEAD_SIZE)
          /\ ~ (d.size + PACKAGE_HEAD_SIZE > d.length)
      BY <2>1 DEF Paquet
    <3>2. d.size <= Len(d.octets)
      BY <2>3, <3>1
    <3>. QED
      BY <2>2, <2>3, <3>1, <3>2
  <2>. QED
    BY <1>1, <2>2, <2>4, <2>5, PackedEnough DEF Phase
<1>7. CASE Parse
  <2>1. CASE Return
    BY <1>1, <1>7, <2>1, PackedEnough DEF Parse, Return, Phase
  <2>2. CASE Refuse
    BY <1>1, <1>2, <2>2, PackedEnough DEF Refuse, Phase
  <2>3. CASE LastPad1
    BY <1>1, <2>3, PackedEnough DEF LastPad1, vars
  <2>4. CASE Iterate
    <3>1. PICK o \in Past : Warn(Current(o)) \/ Take(Current(o))
      BY <2>4 DEF Iterate
    <3>2. /\ left > 1 /\ ~ (siz > left)
          /\ UNCHANGED <<phase, dgram, sent>>
          /\ phase = "parsing"
      BY <1>7, <2>4 DEF Iterate, Exceeds, Parse
    <3>3. Current(o) \in Stored /\ siz \in Nat
      BY <1>1, <3>2, ParsingFacts, CurrentFacts
    <3>4. at' = at + siz /\ left' = left - siz /\ warned' \in BOOLEAN
      BY <1>1, <3>1 DEF Warn, Take, Advance
    <3>5. Sound(pack')
      <4>1. pack' = pack \/ \E c \in Copy(Current(o)) : pack' = addTLV(pack, c)
        BY <3>1 DEF Warn, Take
      <4>. QED
        BY <1>1, <3>3, <4>1, CopyFacts, AddTLVSound
    <3>. QED
      BY <1>1, <3>2, <3>3, <3>4, <3>5, PackedEnough
  <2>. QED
    BY <1>7, <2>1, <2>2, <2>3, <2>4 DEF Parse
<1>8. CASE Destroy
  <2>1. <<>> \in Seq(TLV)
    OBVIOUS
  <2>. QED
    BY <1>2, <1>8, <2>1, NoDatagramFacts, PackedEnough DEF Destroy, Phase
<1>9. CASE UNCHANGED vars
  BY <1>1, <1>9, PackedEnough DEF vars
<1>. QED
  BY <1>4, <1>5, <1>6, <1>7, <1>8, <1>9 DEF Next

LEMMA PackedHolds == Spec => []Packed
<1>. QED
  BY PackedInit, PackedNext, PTL DEF Spec

\* What remains to be read never gets below 0, where contentsize, which is
\* unsigned, would start over, and current stays in the datagram, for every
\* datagram that comes.
THEOREM PacketTypeCorrect == Spec => []TypeOK
<1>1. Packed => TypeOK
  BY DEF Packed
<1>. QED
  BY <1>1, PackedHolds, PTL

\* addTLV keeps the TLVs of a packet by descending type, which package.c:92
\* relies on, and no two of one key, in whatever order they come.
THEOREM OrderedHolds == Spec => []Ordered
<1>1. Packed => Ordered
  BY DEF Packed, Sound, Descending, Ordered
<1>. QED
  BY <1>1, PackedHolds, PTL

\* build copies exactly the octets it allocates, and never more than a packet
\* may have.
THEOREM BuildFitsHolds == Spec => []BuildFits
<1>1. Packed => BuildFits
  BY DEF Packed, Sound, BuildFits
<1>. QED
  BY <1>1, PackedHolds, PTL
-----------------------------------------------------------------------------
(* The datagram that build makes is the TLVs of the packet.                *)

AllMade(c) == \A i \in 1 .. Len(c) : Made(c[i])

\* The octets of t are t, as long as its length is what it says.
LEMMA EncodeLies ==
  ASSUME NEW t \in TLV, Made(t), NEW body, NEW a \in Nat,
         \A j \in 1 .. sizeOf(t) : body[a + j] = Encode(t)[j]
  PROVE  sizeOf(t) = span(t) /\ Lies(t, body, a)
<1>. DEFINE n == Len(t.content)
            z == sizeOf(t)
<1>1. /\ t \in Stored /\ 2 + n < W
      /\ t.type = PAD1_NUM => t.content = <<>>
  BY MadeFacts
<1>2. n \in Nat
  BY TlvFields
<1>3. /\ t.type = PAD1_NUM => z = 1
      /\ t.type # PAD1_NUM => z = 2 + n
  BY <1>1, SizeOfFacts
<1>4. \A j \in 1 .. z :
        body[a + j] = IF j = 1 THEN t.type
                      ELSE IF j = 2 THEN n ELSE t.content[j - 2]
  BY <1>1, EncodeFacts
<1>5. z = span(t)
  BY <1>3 DEF span
<1>. HIDE DEF n, z
<1>6. body[a + 1] = t.type
  <2>1. 1 \in 1 .. z
    BY <1>2, <1>3
  <2>. QED
    BY <1>4, <2>1
<1>7. ASSUME t.type # PAD1_NUM
      PROVE  /\ body[a + 2] = n
             /\ \A j \in 1 .. n : body[a + 2 + j] = t.content[j]
  <2>1. z = 2 + n
    BY <1>3, <1>7
  <2>2. body[a + 2] = n
    <3>1. 2 \in 1 .. z
      BY <1>2, <2>1
    <3>. QED
      BY <1>4, <3>1
  <2>3. ASSUME NEW j \in 1 .. n PROVE body[a + 2 + j] = t.content[j]
    <3>1. /\ 2 + j \in 1 .. z /\ 2 + j # 1 /\ 2 + j # 2 /\ (2 + j) - 2 = j
          /\ a + (2 + j) = a + 2 + j
      BY <1>2, <2>1
    <3>2. body[a + (2 + j)] = t.content[(2 + j) - 2]
      BY <1>4, <3>1
    <3>. QED
      BY <3>1, <3>2
  <2>. QED
    BY <2>2, <2>3
<1>. QED
  BY <1>1, <1>5, <1>6, <1>7 DEF Lies, n, z

LEMMA BuildCuts ==
  ASSUME NEW p, Sound(p), AllMade(p.tlvs), NEW body, Len(body) = Len(Body(p)),
         \A i \in 1 .. Len(body) : body[i] = Body(p)[i]
  PROVE  \E off : Cuts(p.tlvs, off, body)
<1>. DEFINE c == p.tlvs
            n == Len(c)
<1>1. /\ c \in Seq(Stored) /\ c \in Seq(TLV) /\ n \in Nat
      /\ \A k \in 1 .. n : c[k] \in Stored /\ c[k] \in TLV /\ Made(c[k])
  <2>1. c \in Seq(Stored) /\ c \in Seq(TLV)
    BY SoundTypes DEF Sound
  <2>. QED
    BY <2>1, SeqFacts DEF AllMade
<1>2. PICK off : IsSum(off, Sizes(c))
  BY <1>1, SizesFacts, SumExists
<1>3. /\ Len(body) = off[n]
      /\ \A k \in 1 .. n : \A j \in 1 .. sizeOf(c[k]) :
           Body(p)[off[k - 1] + j] = Encode(c[k])[j]
  BY <1>1, <1>2, BodyFacts
<1>4. /\ Sizes(c) \in Seq(Nat) /\ Len(Sizes(c)) = n
      /\ \A k \in 1 .. n : Sizes(c)[k] = sizeOf(c[k])
  BY <1>1, SizesFacts
<1>. HIDE DEF c, n
<1>5. /\ off \in [0 .. n -> Nat]
      /\ \A k \in 1 .. n : off[k] = off[k - 1] + sizeOf(c[k])
  BY <1>2, <1>4 DEF IsSum
<1>6. ASSUME NEW k \in 1 .. n
      PROVE  sizeOf(c[k]) = span(c[k]) /\ Lies(c[k], body, off[k - 1])
  <2>1. /\ k - 1 \in 0 .. n /\ k \in 0 .. n
        /\ k \in 0 .. Len(Sizes(c)) /\ n \in k .. Len(Sizes(c))
    BY <1>1, <1>4
  <2>2. off[k - 1] \in Nat /\ off[k] = off[k - 1] + sizeOf(c[k]) /\ off[k] \in Nat
    BY <1>5, <2>1
  <2>3. off[k] <= Len(body)
    BY <1>2, <1>3, <1>4, <2>1, SumGrows
  <2>4. sizeOf(c[k]) \in Nat
    BY <1>1, SizeOfFacts
  <2>. DEFINE a == off[k - 1]
              z == sizeOf(c[k])
  <2>. HIDE DEF a, z
  <2>5. ASSUME NEW j \in 1 .. z PROVE body[a + j] = Encode(c[k])[j]
    <3>1. Len(body) \in Nat
      BY <1>1, <1>3, <1>5
    <3>2. a \in Nat /\ z \in Nat /\ a + z <= Len(body)
      BY <2>2, <2>3, <2>4 DEF a, z
    <3>3. a + j \in 1 .. Len(body)
      BY <3>1, <3>2
    <3>4. Body(p)[a + j] = Encode(c[k])[j]
      BY <1>3 DEF a, z
    <3>. QED
      BY <3>3, <3>4
  <2>6. a \in Nat
    BY <2>2 DEF a
  <2>. QED
    BY <1>1, <2>5, <2>6, EncodeLies DEF a, z
<1>7. Spans(c) = Sizes(c)
  BY <1>6 DEF Spans, Sizes, n
<1>8. Cuts(c, off, body)
  BY <1>1, <1>2, <1>3, <1>6, <1>7 DEF Cuts, n
<1>. QED
  BY <1>8 DEF c

\* A packet that came in the order of s, so far.
Prefix(p, s, k) ==
  Len(p.tlvs) = k /\ \A j \in 1 .. k : p.tlvs[j] = s[j]

LEMMA PrefixNext ==
  ASSUME NEW p, Sound(p), NEW s \in Seq(Stored), Descending(s),
         NEW k \in Nat, k < Len(s), Prefix(p, s, k), ~ Full(p, s[k + 1])
  PROVE  Prefix(addTLV(p, s[k + 1]), s, k + 1)
<1>. DEFINE t == s[k + 1]
            q == addTLV(p, t)
            o == Pos(p, t)
<1>1. /\ Len(s) \in Nat /\ k + 1 \in 1 .. Len(s) /\ t \in Stored
      /\ \A j \in 1 .. k : j \in 1 .. Len(s) /\ j < k + 1
  BY SeqFacts
<1>2. \A j \in 1 .. k : s[j].type >= t.type /\ Key(s[j]) # Key(t)
  BY <1>1 DEF Descending
<1>3. Len(p.tlvs) = k /\ \A j \in 1 .. k : p.tlvs[j] = s[j]
  BY DEF Prefix
<1>4. ~ Inside(p, t)
  <2>. HIDE DEF t
  <2>. QED
    BY <1>2, <1>3, InsideFacts
<1>5. Adds(q, p, t)
  BY <1>4, AddTLVCases
<1>6. \A j \in 1 .. k : s[j].type \in Nat
  <2>1. \A j \in 1 .. Len(s) : s[j] \in Stored
    BY SeqFacts
  <2>. QED
    BY <1>1, <2>1, TlvFields DEF Stored
<1>7. t.type \in Nat
  BY <1>1, TlvFields DEF Stored
<1>. HIDE DEF q, t
<1>8. o = k
  <2>1. o \in 0 .. k /\ (o < k => p.tlvs[o + 1].type < t.type)
    BY <1>1, <1>3, PosFacts DEF Sound
  <2>. HIDE DEF o
  <2>2. CASE o < k
    <3>1. o + 1 \in 1 .. k
      BY <2>1, <2>2
    <3>2. s[o + 1].type < t.type /\ s[o + 1].type >= t.type
      BY <1>2, <1>3, <2>1, <2>2, <3>1
    <3>. QED
      BY <1>6, <1>7, <3>1, <3>2
  <2>. QED
    BY <2>1, <2>2
<1>9. Inserted(q.tlvs, p.tlvs, o + 1, t)
  BY <1>1, <1>5, AddsInserted
<1>. HIDE DEF o
<1>10. /\ Len(q.tlvs) = k + 1
       /\ \A j \in 1 .. k + 1 :
            q.tlvs[j] = IF j < k + 1 THEN p.tlvs[j]
                        ELSE IF j = k + 1 THEN t ELSE p.tlvs[j - 1]
  BY <1>3, <1>8, <1>9 DEF Inserted
<1>11. ASSUME NEW j \in 1 .. k + 1 PROVE q.tlvs[j] = s[j]
  <2>1. CASE j = k + 1
    BY <1>10, <2>1 DEF t
  <2>2. CASE j # k + 1
    <3>1. j \in 1 .. k /\ j < k + 1
      BY <2>2
    <3>. QED
      BY <1>3, <1>10, <3>1
  <2>. QED
    BY <2>1, <2>2
<1>. QED
  BY <1>10, <1>11 DEF Prefix, q, t
-----------------------------------------------------------------------------
(* The loop of paquet, over the octets of a sequence of TLVs.              *)

\* Where paquet is, and what it has done, after the first k of s.
ReadTo(s, off, k) ==
  /\ at = off[k]
  /\ pack.body_length <= at
  /\ Handled(pack, warned, s, k)
  /\ s = sent => Prefix(pack, s, k)

\* paquet is always between two TLVs, if these are the octets of some.
Reading ==
  phase = "parsing" =>
    \A s, off : Cuts(s, off, Bytes(dgram)) /\ SizeFits(s) =>
      \E k \in 0 .. Len(s) : ReadTo(s, off, k)

\* It has not refused them, and has done what it should with each.
Read ==
  (phase \in {"returned", "refused"} /\ dgram.size <= Len(dgram.octets)) =>
    \A s, off : Cuts(s, off, Bytes(dgram)) /\ SizeFits(s) =>
      /\ phase = "returned"
      /\ Handled(pack, warned, s, Len(s))
      /\ s = sent => Prefix(pack, s, Len(s))

\* What was sent, and the datagram that it was made into.
Sending ==
  /\ sent \in Seq(Stored) /\ AllMade(sent) /\ Descending(sent)
  /\ phase = "filling" => AllMade(pack.tlvs)
  /\ sent # <<>> =>
       /\ phase \in {"sent", "parsing", "returned"}
       /\ dgram.magic = 95 /\ dgram.version = 1
       /\ dgram.length = PACKAGE_HEAD_SIZE + dgram.size
       /\ dgram.size = Len(dgram.octets)
       /\ \E off : Cuts(sent, off, Bytes(dgram))

Inv == Packed /\ Reading /\ Read /\ Sending

LEMMA IterateReads ==
  ASSUME Packed, Sending, phase = "parsing", Iterate,
         NEW s, NEW off, Cuts(s, off, Bytes(dgram)), SizeFits(s),
         NEW k \in 0 .. Len(s), ReadTo(s, off, k)
  PROVE  k + 1 \in 0 .. Len(s) /\ ReadTo(s, off, k + 1)'
<1>. DEFINE t == s[k + 1]
<1>1. /\ left > 1 /\ TypeOK /\ Sound(pack) /\ warned \in BOOLEAN
      /\ dgram \in Datagram /\ sent' = sent
      /\ at = off[k] /\ pack.body_length <= at
      /\ Handled(pack, warned, s, k)
      /\ s = sent => Prefix(pack, s, k)
  BY DEF Packed, TypeOK, Iterate, ReadTo
<1>2. /\ k < Len(s)
      /\ t \in Stored
      /\ siz = span(t)
      /\ at + siz = off[k + 1]
      /\ \A o \in Past : Current(o) = t
      /\ siz <= left
  <2>1. left > 0
    BY <1>1, ParsingFacts
  <2>. QED
    BY <1>1, <2>1, Reads
<1>3. Warn(t) \/ Take(t)
  BY <1>2 DEF Iterate
<1>4. Len(s) \in Nat /\ k \in Nat /\ k + 1 \in 0 .. Len(s) /\ k + 1 \in 1 .. Len(s)
  <2>1. Len(s) \in Nat
    BY SeqFacts DEF Cuts
  <2>. QED
    BY <1>2, <2>1
<1>5. /\ at \in Nat /\ left \in Nat /\ siz \in Nat
      /\ pack.body_length \in Nat
      /\ at + left <= Len(dgram.octets)
      /\ Len(dgram.octets) \in Nat
      /\ PACKAGE_HEAD_SIZE + Len(dgram.octets) <= MAX_PACKAGE_SIZE
  BY <1>1, ParsingFacts DEF TypeOK
<1>6. at' = at + siz
  BY <1>3 DEF Warn, Take, Advance
\* A TLV that was sent is correct, and its own copy.
<1>7. s = sent => /\ verify(t) /\ Copy(t) = {t}
                  /\ s \in Seq(Stored) /\ Descending(s)
  <2>. SUFFICES ASSUME s = sent
                PROVE  /\ verify(t) /\ Copy(t) = {t}
                       /\ s \in Seq(Stored) /\ Descending(s)
    OBVIOUS
  <2>1. s \in Seq(Stored) /\ Descending(s) /\ Made(t) /\ t \in TLV
    BY <1>2, <1>4 DEF Sending, AllMade, Stored
  <2>. HIDE DEF t
  <2>. QED
    BY <2>1, MadeFacts
<1>8. CASE Warn(t)
  <2>1. ~ verify(t) /\ warned' = TRUE /\ pack' = pack
    BY <1>8 DEF Warn
  <2>2. Handled(pack, TRUE, s, k + 1)
    BY <1>1, <1>4, <2>1, HandledWithout
  <2>3. pack.body_length <= at + siz
    BY <1>1, <1>5
  <2>4. s # sent
    BY <1>7, <2>1
  <2>. HIDE DEF t
  <2>. QED
    BY <1>1, <1>2, <1>4, <1>6, <2>1, <2>2, <2>3, <2>4 DEF ReadTo
<1>9. CASE Take(t) /\ Copy(t) = {}
  <2>1. verify(t) /\ warned' = warned /\ pack' = pack
    BY <1>9 DEF Take
  <2>2. Handled(pack, warned, s, k + 1)
    BY <1>1, <1>4, <1>9, <2>1, HandledWithout
  <2>3. pack.body_length <= at + siz
    BY <1>1, <1>5
  <2>4. s # sent
    BY <1>7, <1>9
  <2>. HIDE DEF t
  <2>. QED
    BY <1>1, <1>2, <1>4, <1>6, <2>1, <2>2, <2>3, <2>4 DEF ReadTo
<1>10. CASE Take(t) /\ Copy(t) # {}
  <2>1. PICK c \in Copy(t) : pack' = addTLV(pack, c)
    BY <1>10 DEF Take
  <2>2. verify(t) /\ warned' = warned
    BY <1>10 DEF Take
  <2>3. /\ c \in Stored /\ Copy(t) = {c}
        /\ sizeOf(c) <= siz
    <3>1. Len(t.content) \in Nat /\ t.type \in Nat
      BY <1>2, TlvFields DEF Stored
    <3>2. /\ c \in Stored /\ Copy(t) = {c}
          /\ sizeOf(c) <= IF t.type = PAD1_NUM THEN 1 ELSE 2 + Len(t.content)
      BY <1>2, CopyFacts
    <3>. QED
      BY <1>2, <3>2 DEF span
  <2>4. sizeOf(c) \in Nat
    BY <2>3, SizeOfFacts
  <2>5. ~ Full(pack, c)
    <3>1. pack.body_length + sizeOf(c) <= Len(dgram.octets)
      <4>1. \A b, z, a, y, l, m \in Nat :
              b <= a /\ z <= y /\ y <= l /\ a + l <= m => b + z <= m
        OBVIOUS
      <4>2. /\ pack.body_length <= at /\ siz <= left
            /\ at \in Nat /\ left \in Nat /\ siz \in Nat
        BY <1>1, <1>2, <1>5
      <4>. QED
        BY <1>5, <2>3, <2>4, <4>1, <4>2
    <3>2. PACKAGE_HEAD_SIZE \in Nat /\ MAX_PACKAGE_SIZE \in Nat
      BY SizeAssumption
    <3>3. \A b, l, h, m \in Nat : b <= l /\ h + l <= m => ~ b > m - h
      OBVIOUS
    <3>4. pack.body_length + sizeOf(c) \in Nat
      BY <1>5, <2>4
    <3>5. ~ pack.body_length + sizeOf(c) > MAX_PACKAGE_SIZE - PACKAGE_HEAD_SIZE
      BY <1>5, <3>1, <3>2, <3>3, <3>4
    <3>. QED
      BY <3>5 DEF Full
  <2>6. Handled(addTLV(pack, c), warned, s, k + 1)
    BY <1>1, <1>4, <2>2, <2>3, <2>5, HandledWith
  <2>7. addTLV(pack, c).body_length <= at + siz
    <3>1. addTLV(pack, c).body_length \in
            {pack.body_length, pack.body_length + sizeOf(c)}
      BY DEF addTLV
    <3>2. \A b, z, a, y \in Nat :
            b <= a /\ z <= y => b <= a + y /\ b + z <= a + y
      OBVIOUS
    <3>3. pack.body_length <= at /\ sizeOf(c) <= siz
      BY <1>1, <2>3
    <3>. QED
      BY <1>5, <2>4, <3>1, <3>2, <3>3
  <2>8. s = sent => Prefix(addTLV(pack, c), s, k + 1)
    <3>. SUFFICES ASSUME s = sent PROVE Prefix(addTLV(pack, c), s, k + 1)
      OBVIOUS
    <3>1. c = t
      BY <1>7, <2>3
    <3>2. Prefix(addTLV(pack, t), s, k + 1)
      BY <1>1, <1>2, <1>4, <1>7, <2>5, <3>1, PrefixNext
    <3>. QED
      BY <3>1, <3>2
  <2>. HIDE DEF t
  <2>. QED
    BY <1>1, <1>2, <1>4, <1>6, <2>1, <2>2, <2>6, <2>7, <2>8 DEF ReadTo
<1>. QED
  BY <1>3, <1>8, <1>9, <1>10

-----------------------------------------------------------------------------
(* The steps.                                                              *)

LEMMA NoTLVs ==
  /\ <<>> \in Seq(Stored) /\ AllMade(<<>>) /\ Descending(<<>>)
  /\ AllMade(new_paquet.tlvs)
  /\ \A s : Prefix(new_paquet, s, 0)
<1>1. new_paquet.tlvs = <<>>
  BY DEF new_paquet
<1>2. AllMade(<<>>) /\ Descending(<<>>)
  BY DEF AllMade, Descending
<1>3. \A s : Prefix(new_paquet, s, 0)
  BY <1>1 DEF Prefix
<1>. QED
  BY <1>1, <1>2, <1>3

LEMMA MadeAdded ==
  ASSUME NEW p, Sound(p), AllMade(p.tlvs), NEW t \in Stored, Made(t)
  PROVE  AllMade(addTLV(p, t).tlvs)
<1>1. CASE Full(p, t) \/ Inside(p, t)
  BY <1>1, AddTLVCases
<1>2. CASE ~ Full(p, t) /\ ~ Inside(p, t)
  <2>. DEFINE q == addTLV(p, t)
  <2>1. Adds(q, p, t)
    BY <1>2, AddTLVCases
  <2>. HIDE DEF q
  <2>2. \A u : Has(q, u) => Has(p, u) \/ u = t
    BY <2>1, HasAdded
  <2>3. AllMade(q.tlvs)
    BY <2>2 DEF AllMade, Has
  <2>. QED
    BY <2>3 DEF q
<1>. QED
  BY <1>1, <1>2

LEMMA FitsSent ==
  ASSUME Sending
  PROVE  SizeFits(sent)
<1>1. \A i \in 1 .. Len(sent) : sent[i] \in TLV /\ Made(sent[i])
  <2>1. \A i \in 1 .. Len(sent) : sent[i] \in Stored
    BY SeqFacts DEF Sending
  <2>. QED
    BY <2>1 DEF Sending, AllMade, Stored
<1>2. \A i \in 1 .. Len(sent) : 2 + Len(sent[i].content) < W
  BY <1>1, MadeFacts
<1>. QED
  BY <1>2 DEF SizeFits

\* What is made of TLVs is not refused, wherever paquet is.
LEMMA NotRefused ==
  ASSUME Inv, phase = "parsing", Refuse,
         NEW s, NEW off, Cuts(s, off, Bytes(dgram)), SizeFits(s)
  PROVE  FALSE
<1>1. TypeOK
  BY DEF Inv, Packed
<1>2. PICK k \in 0 .. Len(s) : ReadTo(s, off, k)
  BY DEF Inv, Reading
<1>3. at = off[k]
  BY <1>2 DEF ReadTo
<1>4. left \in Nat /\ (left > 1 => siz \in Nat)
  BY <1>1, ParsingFacts
<1>5. \/ left = 1 /\ curType # PAD1_NUM
      \/ left > 1 /\ siz > left
  BY DEF Refuse, Exceeds
<1>6. left > 0
  BY <1>4, <1>5
<1>7. /\ left = 1 => curType = PAD1_NUM
      /\ left > 1 => siz <= left
  BY <1>1, <1>3, <1>6, Reads
<1>. QED
  BY <1>4, <1>5, <1>7

LEMMA InvInit == Init => Inv
<1>. SUFFICES ASSUME Init PROVE Inv
  OBVIOUS
<1>1. Packed
  BY PackedInit
<1>2. phase = "idle" /\ sent = <<>>
  BY DEF Init
<1>. QED
  BY <1>1, <1>2, NoTLVs DEF Inv, Reading, Read, Sending

LEMMA FillKeeps == Inv /\ Fill => Reading' /\ Read' /\ Sending'
<1>. SUFFICES ASSUME Inv, Fill PROVE Reading' /\ Read' /\ Sending'
  OBVIOUS
<1>1. PICK t \in Offered : pack' = addTLV(pack, t)
  BY DEF Fill
<1>2. /\ phase' = "filling" /\ sent' = sent
      /\ phase \in {"idle", "filling"}
  BY DEF Fill
<1>3. sent = <<>> /\ Sound(pack) /\ (phase = "idle" => pack = new_paquet)
  BY <1>2 DEF Inv, Packed, Started
<1>4. AllMade(pack.tlvs)
  BY <1>2, <1>3, NoTLVs DEF Inv, Sending
<1>5. AllMade(pack'.tlvs)
  <2>1. t \in Stored /\ Made(t)
    BY OfferedAssumption, MadeFacts
  <2>. QED
    BY <1>1, <1>3, <1>4, <2>1, MadeAdded
<1>. QED
  BY <1>2, <1>3, <1>5, NoTLVs DEF Reading, Read, Sending

LEMMA SendKeeps == Inv /\ Send => Reading' /\ Read' /\ Sending'
<1>. SUFFICES ASSUME Inv, Send PROVE Reading' /\ Read' /\ Sending'
  OBVIOUS
<1>1. /\ phase = "filling" /\ phase' = "sent"
      /\ dgram' = build(pack) /\ sent' = pack.tlvs
  BY DEF Send
<1>2. Sound(pack) /\ AllMade(pack.tlvs)
  BY <1>1 DEF Inv, Packed, Sending
<1>. DEFINE d == build(pack)
<1>3. /\ d \in Datagram
      /\ d.magic = 95 /\ d.version = 1
      /\ d.octets = Body(pack)
      /\ d.size = Len(Body(pack))
      /\ d.length = PACKAGE_HEAD_SIZE + d.size
  BY <1>2, BuildFacts
<1>. HIDE DEF d
<1>4. PICK off : Cuts(pack.tlvs, off, Bytes(d))
  <2>1. d.size <= Len(d.octets)
    BY <1>3, DatagramFacts
  <2>2. /\ Len(Bytes(d)) = d.size
        /\ \A i \in 1 .. d.size : Bytes(d)[i] = d.octets[i]
    BY <1>3, <2>1, BytesFacts
  <2>. QED
    BY <1>2, <1>3, <2>2, BuildCuts
<1>5. pack.tlvs \in Seq(Stored) /\ Descending(pack.tlvs)
  BY <1>2 DEF Sound
<1>6. dgram' = d
  BY <1>1 DEF d
<1>. QED
  BY <1>1, <1>2, <1>3, <1>4, <1>5, <1>6 DEF Reading, Read, Sending

LEMMA ReceiveKeeps == Inv /\ Receive => Reading' /\ Read' /\ Sending'
<1>. SUFFICES ASSUME Inv, Receive PROVE Reading' /\ Read' /\ Sending'
  OBVIOUS
<1>1. PICK d \in Datagram : /\ Paquet(d) /\ phase \in {"sent", "idle"}
                            /\ phase = "sent" => d = dgram
  <2>1. dgram \in Datagram
    BY DEF Inv, Packed, TypeOK
  <2>. QED
    BY <2>1, ForeignAssumption DEF Receive
<1>2. /\ UNCHANGED <<pack, at, warned, sent>> /\ dgram' = d
      /\ pack = new_paquet /\ at = 0 /\ warned = FALSE
      /\ phase = "idle" => sent = <<>>
      /\ phase' \in {"ignored", "refused", "parsing"}
  BY <1>1 DEF Paquet, Inv, Packed, Started
<1>3. /\ d.size \in Nat /\ d.length \in Nat
      /\ Len(d.octets) = IF d.length < PACKAGE_HEAD_SIZE THEN 0
                                   ELSE d.length - PACKAGE_HEAD_SIZE
  BY DatagramFacts
<1>4. Reading'
  <2>1. ASSUME NEW s, NEW off, Cuts(s, off, Bytes(dgram'))
        PROVE  \E k \in 0 .. Len(s) : ReadTo(s, off, k)'
    <3>1. Len(s) \in Nat
      BY <2>1, SeqFacts DEF Cuts
    <3>2. 0 \in 0 .. Len(s)
      BY <3>1
    <3>3. off[0] = 0
      BY <2>1, <3>2, OffsetFacts
    <3>4. pack'.body_length = 0
      BY <1>2 DEF new_paquet
    <3>5. ReadTo(s, off, 0)'
      <4>1. pack' = new_paquet /\ warned' = FALSE /\ at' = 0
        BY <1>2
      <4>2. Handled(pack', warned', s, 0)
        BY <4>1, HandledNone
      <4>3. Prefix(pack', s, 0)
        BY <4>1, NoTLVs
      <4>4. at' = off[0] /\ pack'.body_length <= at'
        BY <3>3, <3>4, <4>1
      <4>. QED
        BY <4>2, <4>3, <4>4 DEF ReadTo
    <3>. QED
      BY <3>2, <3>5
  <2>. QED
    BY <2>1 DEF Reading
<1>5. Read'
  <2>1. phase' = "refused" => ~ (d.size <= Len(d.octets))
    <3>. SUFFICES ASSUME phase' = "refused" PROVE ~ (d.size <= Len(d.octets))
      OBVIOUS
    <3>1. ~ (d.length < PACKAGE_HEAD_SIZE) /\ d.size + PACKAGE_HEAD_SIZE > d.length
      BY <1>1 DEF Paquet
    <3>. QED
      BY <1>3, <3>1
  <2>. QED
    BY <1>2, <2>1 DEF Read
<1>6. Sending'
  <2>1. ASSUME sent # <<>>
        PROVE  /\ phase' = "parsing" /\ d = dgram
               /\ d.magic = 95 /\ d.version = 1
               /\ d.length = PACKAGE_HEAD_SIZE + d.size
               /\ d.size = Len(d.octets)
               /\ \E off : Cuts(sent, off, Bytes(d))
    <3>1. d = dgram
      BY <1>1, <1>2, <2>1
    <3>2. /\ d.magic = 95 /\ d.version = 1
          /\ d.length = PACKAGE_HEAD_SIZE + d.size
          /\ d.size = Len(d.octets)
          /\ \E off : Cuts(sent, off, Bytes(d))
      BY <2>1, <3>1 DEF Inv, Sending
    <3>3. ~ (d.length < PACKAGE_HEAD_SIZE) /\ ~ (d.size + PACKAGE_HEAD_SIZE > d.length)
      BY <1>3, <3>2
    <3>4. phase' = "parsing"
      BY <1>1, <3>2, <3>3 DEF Paquet
    <3>. QED
      BY <3>1, <3>2, <3>4
  <2>2. sent' = sent /\ phase' # "filling"
    BY <1>2
  <2>3. sent \in Seq(Stored) /\ AllMade(sent) /\ Descending(sent)
    BY DEF Inv, Sending
  <2>. QED
    BY <1>2, <2>1, <2>2, <2>3 DEF Sending
<1>. QED
  BY <1>4, <1>5, <1>6

LEMMA ParseKeeps == Inv /\ Parse => Reading' /\ Read' /\ Sending'
<1>. SUFFICES ASSUME Inv, Parse PROVE Reading' /\ Read' /\ Sending'
  OBVIOUS
<1>1. Packed /\ TypeOK /\ Reading /\ Sending /\ phase = "parsing"
  BY DEF Inv, Packed, Parse
<1>2. CASE Return
  <2>1. /\ left = 0 /\ phase' = "returned"
        /\ UNCHANGED <<pack, dgram, at, warned, sent>>
    BY <1>2 DEF Return
  <2>2. ASSUME NEW s, NEW off, Cuts(s, off, Bytes(dgram)), SizeFits(s)
        PROVE  /\ Handled(pack, warned, s, Len(s))
               /\ s = sent => Prefix(pack, s, Len(s))
    <3>1. PICK k \in 0 .. Len(s) : ReadTo(s, off, k)
      BY <1>1, <2>2 DEF Reading
    <3>2. /\ off[k] = at /\ Handled(pack, warned, s, k)
          /\ s = sent => Prefix(pack, s, k)
      BY <3>1 DEF ReadTo
    <3>3. at = Len(Bytes(dgram))
      <4>1. at \in Nat /\ at + left = dgram.size /\ dgram.size <= Len(dgram.octets)
        BY <1>1, ParsingFacts
      <4>2. Len(Bytes(dgram)) = dgram.size
        BY <1>1, <4>1, BytesFacts DEF TypeOK
      <4>. QED
        BY <2>1, <4>1, <4>2
    <3>4. k = Len(s)
      BY <2>2, <3>2, <3>3, AtEnd
    <3>. QED
      BY <3>2, <3>4
  <2>3. Read'
    BY <2>1, <2>2 DEF Read
  <2>. QED
    BY <1>1, <2>1, <2>3 DEF Reading, Sending
<1>3. CASE Refuse
  <2>1. /\ phase' = "refused" /\ UNCHANGED <<dgram, sent>>
    BY <1>3 DEF Refuse
  <2>2. \A s, off : ~ (Cuts(s, off, Bytes(dgram)) /\ SizeFits(s))
    BY <1>1, <1>3, NotRefused
  <2>3. sent = <<>>
    BY <1>1, <2>2, FitsSent DEF Sending
  <2>. QED
    BY <1>1, <2>1, <2>2, <2>3 DEF Reading, Read, Sending
<1>4. CASE LastPad1
  BY <1>1, <1>4 DEF LastPad1, vars, Inv, Reading, Read, Sending, ReadTo
<1>5. CASE Iterate
  <2>1. UNCHANGED <<phase, dgram, sent>>
    BY <1>5 DEF Iterate
  <2>2. ASSUME NEW s, NEW off, Cuts(s, off, Bytes(dgram)), SizeFits(s)
        PROVE  \E k \in 0 .. Len(s) : ReadTo(s, off, k)'
    <3>1. PICK k \in 0 .. Len(s) : ReadTo(s, off, k)
      BY <1>1, <2>2 DEF Reading
    <3>. QED
      BY <1>1, <1>5, <2>2, <3>1, IterateReads
  <2>. QED
    BY <1>1, <2>1, <2>2 DEF Reading, Read, Sending
<1>. QED
  BY <1>2, <1>3, <1>4, <1>5 DEF Parse

LEMMA InvNext == Inv /\ [Next]_vars => Inv'
<1>. SUFFICES ASSUME Inv, [Next]_vars PROVE Inv'
  OBVIOUS
<1>1. Packed'
  BY PackedNext DEF Inv
<1>2. CASE Fill
  BY <1>1, <1>2, FillKeeps DEF Inv
<1>3. CASE Send
  BY <1>1, <1>3, SendKeeps DEF Inv
<1>4. CASE Receive
  BY <1>1, <1>4, ReceiveKeeps DEF Inv
<1>5. CASE Parse
  BY <1>1, <1>5, ParseKeeps DEF Inv
<1>6. CASE Destroy
  <2>1. phase' = "idle" /\ sent' = <<>>
    BY <1>6 DEF Destroy
  <2>. QED
    BY <1>1, <2>1, NoTLVs DEF Inv, Reading, Read, Sending
<1>7. CASE UNCHANGED vars
  BY <1>1, <1>7 DEF vars, Inv, Reading, Read, Sending, ReadTo
<1>. QED
  BY <1>2, <1>3, <1>4, <1>5, <1>6, <1>7 DEF Next

LEMMA InvHolds == Spec => []Inv
<1>. QED
  BY InvInit, InvNext, PTL DEF Spec

\* The packet that one node builds, of whatever its constructors make, is the
\* packet that another gets from paquet: all its TLVs, in their order, and no
\* Warning.
THEOREM RoundTripHolds == Spec => []RoundTrip
<1>1. ASSUME Inv, sent # <<>>
      PROVE  /\ phase \notin {"ignored", "refused"}
             /\ ~ warned
             /\ phase = "returned" => pack.tlvs = sent
  <2>1. /\ Packed /\ Reading /\ Read /\ Sending
        /\ phase \in {"sent", "parsing", "returned"}
        /\ dgram.size = Len(dgram.octets) /\ dgram \in Datagram
    BY <1>1 DEF Inv, Sending, Packed, TypeOK
  <2>2. PICK off : Cuts(sent, off, Bytes(dgram))
    BY <1>1, <2>1 DEF Sending
  <2>3. SizeFits(sent)
    BY <2>1, FitsSent
  <2>4. ASSUME NEW k, Handled(pack, warned, sent, k), k \in 0 .. Len(sent)
        PROVE  ~ warned
    <3>1. Len(sent) \in Nat /\ \A i \in 1 .. Len(sent) : sent[i] \in Stored
      BY <2>1, SeqFacts DEF Sending
    <3>2. \A i \in 1 .. k : sent[i] \in TLV /\ Made(sent[i])
      BY <2>1, <2>4, <3>1 DEF Sending, AllMade, Stored
    <3>3. \A i \in 1 .. k : verify(sent[i])
      BY <3>2, MadeFacts
    <3>. QED
      BY <2>4, <3>3 DEF Handled
  <2>5. CASE phase = "sent"
    BY <2>1, <2>5 DEF Packed, Started
  <2>6. CASE phase = "parsing"
    <3>1. PICK k \in 0 .. Len(sent) : ReadTo(sent, off, k)
      BY <2>1, <2>2, <2>3, <2>6 DEF Reading
    <3>. QED
      BY <2>4, <2>6, <3>1 DEF ReadTo
  <2>7. CASE phase = "returned"
    <3>1. Len(dgram.octets) \in Nat
      BY <2>1, DatagramFacts
    <3>2. dgram.size <= Len(dgram.octets)
      BY <2>1, <3>1
    <3>3. Handled(pack, warned, sent, Len(sent)) /\ Prefix(pack, sent, Len(sent))
      BY <2>1, <2>2, <2>3, <2>7, <3>2 DEF Read
    <3>4. sent \in Seq(Stored) /\ pack.tlvs \in Seq(Stored)
      BY <2>1 DEF Sending, Packed, Sound
    <3>5. Len(sent) \in Nat /\ Len(sent) \in 0 .. Len(sent)
      BY <3>4, SeqFacts
    <3>6. Len(pack.tlvs) = Len(sent)
          /\ \A j \in 1 .. Len(sent) : pack.tlvs[j] = sent[j]
      BY <3>3 DEF Prefix
    <3>7. pack.tlvs = sent
      BY <3>4, <3>6, SeqFacts
    <3>. QED
      BY <2>4, <2>7, <3>3, <3>5, <3>7
  <2>. QED
    BY <2>1, <2>5, <2>6, <2>7
<1>2. Inv => RoundTrip
  BY <1>1 DEF RoundTrip
<1>. QED
  BY <1>2, InvHolds, PTL

-----------------------------------------------------------------------------
(* The ways to cut a body into TLVs.                                       *)

\* As Cuts, from a on.
CutsFrom(s, off, body, a) ==
  /\ s \in Seq(TLV)
  /\ off \in [0 .. Len(s) -> Nat]
  /\ off[0] = a
  /\ off[Len(s)] = Len(body)
  /\ \A k \in 1 .. Len(s) : /\ off[k] = off[k - 1] + span(s[k])
                            /\ Lies(s[k], body, off[k - 1])

LEMMA CutsFromStart ==
  ASSUME NEW s, NEW off, NEW body, CutsFrom(s, off, body, 0)
  PROVE  Cuts(s, off, body)
<1>1. /\ s \in Seq(TLV)
      /\ off \in [0 .. Len(s) -> Nat]
      /\ off[0] = 0
      /\ off[Len(s)] = Len(body)
      /\ \A k \in 1 .. Len(s) : /\ off[k] = off[k - 1] + span(s[k])
                                /\ Lies(s[k], body, off[k - 1])
  BY DEF CutsFrom
<1>2. /\ Len(Spans(s)) = Len(s)
      /\ \A k \in 1 .. Len(s) : Spans(s)[k] = span(s[k])
  BY <1>1, SpanFacts
<1>3. IsSum(off, Spans(s))
  BY <1>1, <1>2 DEF IsSum
<1>. QED
  BY <1>1, <1>3 DEF Cuts

LEMMA CutsFromHead ==
  ASSUME NEW t \in TLV, NEW body, NEW a \in Nat, Lies(t, body, a),
         NEW r, NEW off, CutsFrom(r, off, body, a + span(t))
  PROVE  \E o : CutsFrom(<<t>> \o r, o, body, a)
<1>. DEFINE n == Len(r)
            s == <<t>> \o r
            o == [k \in 0 .. n + 1 |-> IF k = 0 THEN a ELSE off[k - 1]]
<1>1. /\ r \in Seq(TLV) /\ n \in Nat
      /\ off \in [0 .. n -> Nat]
      /\ off[0] = a + span(t)
      /\ off[n] = Len(body)
      /\ \A k \in 1 .. n : /\ off[k] = off[k - 1] + span(r[k])
                           /\ Lies(r[k], body, off[k - 1])
  BY SeqFacts DEF CutsFrom
<1>2. /\ s \in Seq(TLV)
      /\ Len(s) = n + 1
      /\ s[1] = t
      /\ \A k \in 1 .. n : s[k + 1] = r[k]
  <2>1. /\ <<t>> \in Seq(TLV) /\ Len(<<t>>) = 1 /\ <<t>>[1] = t
    OBVIOUS
  <2>. DEFINE h == <<t>>
  <2>. HIDE DEF h
  <2>2. /\ h \o r \in Seq(TLV)
        /\ Len(h \o r) = Len(h) + n
        /\ \A k \in 1 .. Len(h) : (h \o r)[k] = h[k]
        /\ \A k \in 1 .. n : (h \o r)[Len(h) + k] = r[k]
    BY <1>1, <2>1, ConcatFacts DEF h
  <2>3. Len(h) = 1 /\ h[1] = t
    BY <2>1 DEF h
  <2>. DEFINE hr == h \o r
  <2>4. s = hr
    BY DEF h
  <2>. HIDE DEF hr, s, n
  <2>5. /\ hr \in Seq(TLV) /\ Len(hr) = Len(h) + n
        /\ \A k \in 1 .. Len(h) : hr[k] = h[k]
        /\ \A k \in 1 .. n : hr[Len(h) + k] = r[k]
    BY <2>2 DEF hr, n
  <2>6. /\ hr \in Seq(TLV) /\ Len(hr) = 1 + n
        /\ hr[1] = t
        /\ \A k \in 1 .. n : hr[1 + k] = r[k]
    BY <2>3, <2>5
  <2>7. \A k \in 1 .. n : 1 + k = k + 1
    OBVIOUS
  <2>8. \A k \in 1 .. n : hr[k + 1] = r[k]
    BY <2>6, <2>7
  <2>. QED
    BY <1>1, <2>4, <2>6, <2>8
<1>. HIDE DEF n, s
<1>3. /\ o[0] = a
      /\ \A k \in 0 .. n : o[k + 1] = off[k]
  <2>1. ASSUME NEW k \in 0 .. n PROVE o[k + 1] = off[k]
    <3>1. k + 1 \in 0 .. n + 1 /\ k + 1 # 0 /\ (k + 1) - 1 = k
      BY <1>1
    <3>. QED
      BY <3>1
  <2>2. 0 \in 0 .. n + 1
    BY <1>1
  <2>. QED
    BY <2>1, <2>2
<1>4. o \in [0 .. n + 1 -> Nat]
  <2>1. ASSUME NEW k \in 0 .. n + 1, k # 0 PROVE off[k - 1] \in Nat
    <3>1. k - 1 \in 0 .. n
      BY <1>1, <2>1
    <3>. QED
      BY <1>1, <3>1
  <2>. QED
    BY <2>1
<1>. HIDE DEF o
<1>5. ASSUME NEW k \in 1 .. n + 1
      PROVE  /\ o[k] = o[k - 1] + span(s[k])
             /\ Lies(s[k], body, o[k - 1])
  <2>1. CASE k = 1
    <3>1. o[1] = off[0] /\ 1 - 1 = 0
      <4>1. 0 \in 0 .. n /\ 0 + 1 = 1
        BY <1>1
      <4>. QED
        BY <1>3, <4>1
    <3>. QED
      BY <1>1, <1>2, <1>3, <2>1, <3>1
  <2>2. CASE k # 1
    <3>. DEFINE j == k - 1
    <3>1. /\ j \in 1 .. n /\ j \in 0 .. n /\ j - 1 \in 0 .. n
          /\ k = j + 1 /\ (j - 1) + 1 = j
      BY <1>1, <2>2
    <3>. HIDE DEF j
    <3>2. o[j + 1] = off[j] /\ o[(j - 1) + 1] = off[j - 1] /\ s[j + 1] = r[j]
      BY <1>2, <1>3, <3>1
    <3>3. off[j] = off[j - 1] + span(r[j]) /\ Lies(r[j], body, off[j - 1])
      BY <1>1, <3>1
    <3>. QED
      BY <3>1, <3>2, <3>3 DEF j
  <2>. QED
    BY <2>1, <2>2
<1>6. o[n + 1] = Len(body)
  <2>1. n \in 0 .. n
    BY <1>1
  <2>. QED
    BY <1>1, <1>3, <2>1
<1>7. CutsFrom(s, o, body, a)
  BY <1>2, <1>3, <1>4, <1>5, <1>6 DEF CutsFrom
<1>. QED
  BY <1>7 DEF s

\* A sequence that Cut finds is one of which these are the octets.
LEMMA CutFacts ==
  ASSUME NEW body \in Seq(Octet), NEW s \in Cut(body)
  PROVE  \E off : Cuts(s, off, body)
<1>. DEFINE n == Len(body)
            E(g, a) ==
              IF a = Len(body) THEN {<<>>}
              ELSE IF body[a + 1] = PAD1_NUM
                THEN {<<[type |-> PAD1_NUM, content |-> <<>>]>> \o r : r \in g[a + 1]}
              ELSE IF a + 1 = Len(body) \/ a + HEAD_SIZE + body[a + 2] > Len(body)
                THEN {}
              ELSE LET b == a + HEAD_SIZE + body[a + 2]
                   IN  {<<[type |-> body[a + 1],
                           content |-> SubSeq(body, a + HEAD_SIZE + 1, b)]>> \o r :
                          r \in g[b]}
            Is(f) == f = [a \in 0 .. Len(body) |-> E(f, a)]
            from == CHOOSE from : Is(from)
<1>1. Cut(body) = from[0]
  BY DEF Cut
<1>2. /\ n \in Nat
      /\ \A i \in 1 .. n : body[i] \in Octet /\ body[i] \in Nat
  <2>1. n \in Nat /\ \A i \in 1 .. n : body[i] \in Octet
    BY SeqFacts
  <2>2. Octet \subseteq Nat
    BY OctetAssumption DEF Octet
  <2>. HIDE DEF n
  <2>. QED
    BY <2>1, <2>2
<1>3. ASSUME NEW a \in 0 .. n, NEW g, NEW h, \A x \in a + 1 .. n : g[x] = h[x]
      PROVE  E(g, a) = E(h, a)
  <2>1. CASE a = n
    BY <2>1
  <2>2. CASE a # n /\ body[a + 1] = PAD1_NUM
    <3>1. a + 1 \in a + 1 .. n
      BY <1>2, <2>2
    <3>2. g[a + 1] = h[a + 1]
      BY <1>3, <3>1
    <3>. QED
      BY <2>2, <3>2
  <2>3. CASE /\ a # n /\ body[a + 1] # PAD1_NUM
             /\ a + 1 = n \/ a + HEAD_SIZE + body[a + 2] > n
    BY <2>3
  <2>4. CASE /\ a # n /\ body[a + 1] # PAD1_NUM
             /\ ~ (a + 1 = n \/ a + HEAD_SIZE + body[a + 2] > n)
    <3>1. a + 2 \in 1 .. n
      BY <1>2, <2>4
    <3>2. body[a + 2] \in Nat
      BY <1>2, <3>1
    <3>3. a + HEAD_SIZE + body[a + 2] \in a + 1 .. n
      BY <1>2, <2>4, <3>2
    <3>4. g[a + HEAD_SIZE + body[a + 2]] = h[a + HEAD_SIZE + body[a + 2]]
      BY <1>3, <3>3
    <3>. QED
      BY <2>4, <3>4
  <2>. QED
    BY <2>1, <2>2, <2>3, <2>4
<1>. HIDE DEF E, n
\* There is such a function: it is made from its end.
<1>4. \E f : Is(f)
  <2>. DEFINE Some(m) == \E g : \A x \in n - m .. n : g[x] = E(g, x)
              S == {m \in Nat : m <= n => Some(m)}
  <2>1. Some(0)
    <3>. DEFINE g == [x \in {n} |-> E(n, n)]
    <3>1. \A x \in n - 0 .. n : x = n
      BY <1>2
    <3>2. g[n] = E(n, n)
      OBVIOUS
    <3>. HIDE DEF g
    <3>3. E(n, n) = E(g, n)
      <4>1. n \in 0 .. n /\ \A x \in n + 1 .. n : FALSE
        BY <1>2
      <4>. QED
        BY <1>3, <4>1
    <3>. QED
      BY <3>1, <3>2, <3>3
  <2>2. ASSUME NEW m \in Nat, m + 1 <= n, Some(m) PROVE Some(m + 1)
    <3>1. PICK g : \A x \in n - m .. n : g[x] = E(g, x)
      BY <2>2
    <3>. DEFINE a == n - (m + 1)
                h == [x \in a .. n |-> IF x = a THEN E(g, a) ELSE g[x]]
    <3>2. /\ a \in 0 .. n
          /\ \A x \in a .. n : x = a \/ x \in a + 1 .. n
          /\ \A x \in a + 1 .. n : /\ x \in n - m .. n /\ x # a
                                   /\ x \in a .. n /\ x \in 0 .. n
          /\ a \in a .. n
      BY <1>2, <2>2
    <3>. HIDE DEF a
    <3>3. h[a] = E(g, a) /\ \A x \in a + 1 .. n : h[x] = g[x]
      BY <3>2
    <3>. HIDE DEF h
    <3>4. E(g, a) = E(h, a)
      BY <1>3, <3>2, <3>3
    <3>5. ASSUME NEW x \in a + 1 .. n PROVE h[x] = E(h, x)
      <4>1. \A y \in x + 1 .. n : y \in a + 1 .. n
        BY <1>2, <3>2
      <4>2. E(g, x) = E(h, x)
        BY <1>3, <3>2, <3>3, <4>1
      <4>. QED
        BY <3>1, <3>2, <3>3, <4>2
    <3>6. \A x \in a .. n : h[x] = E(h, x)
      BY <3>2, <3>3, <3>4, <3>5
    <3>. QED
      BY <3>6 DEF a
  <2>. HIDE DEF Some
  <2>3. 0 \in S
    BY <2>1
  <2>4. ASSUME NEW m \in S PROVE m + 1 \in S
    <3>1. m + 1 <= n => m <= n
      BY <1>2
    <3>. QED
      BY <2>2, <3>1
  <2>5. S = Nat
    <3>. HIDE DEF S
    <3>1. S \in SUBSET Nat
      BY DEF S
    <3>. QED
      BY <2>3, <2>4, <3>1, Induction
  <2>6. Some(n)
    BY <1>2, <2>5
  <2>7. PICK g : \A x \in n - n .. n : g[x] = E(g, x)
    BY <2>6 DEF Some
  <2>. DEFINE f == [x \in 0 .. n |-> g[x]]
  <2>8. /\ \A x \in 0 .. n : x \in n - n .. n
        /\ \A x \in 0 .. n : \A y \in x + 1 .. n : y \in 0 .. n
    BY <1>2
  <2>9. \A x \in 0 .. n : f[x] = g[x]
    OBVIOUS
  <2>10. f = [x \in 0 .. n |-> f[x]]
    OBVIOUS
  <2>. HIDE DEF f
  <2>11. ASSUME NEW x \in 0 .. n PROVE f[x] = E(f, x)
    <3>1. E(g, x) = E(f, x)
      BY <1>3, <2>8, <2>9
    <3>. QED
      BY <2>7, <2>8, <2>9, <3>1
  <2>12. f = [x \in 0 .. n |-> E(f, x)]
    BY <2>10, <2>11
  <2>. QED
    BY <2>12 DEF n
<1>5. Is(from)
  <2>. HIDE DEF Is
  <2>. QED
    BY <1>4
<1>6. \A a \in 0 .. n : from[a] = E(from, a)
  BY <1>5 DEF n
<1>. HIDE DEF Is, from
<1>. DEFINE Good(a) == \A r \in from[a] : \E off : CutsFrom(r, off, body, a)
<1>7. ASSUME NEW a \in 0 .. n, \A x \in a + 1 .. n : Good(x) PROVE Good(a)
  <2>. SUFFICES ASSUME NEW r \in from[a]
                PROVE  \E off : CutsFrom(r, off, body, a)
    OBVIOUS
  <2>1. r \in E(from, a)
    BY <1>6
  <2>2. CASE a = n
    <3>1. r = <<>>
      BY <2>1, <2>2 DEF E, n
    <3>. DEFINE o == [k \in 0 .. 0 |-> a]
    <3>2. /\ <<>> \in Seq(TLV) /\ Len(<<>>) = 0
          /\ o \in [0 .. 0 -> Nat] /\ o[0] = a
      BY <1>2
    <3>. HIDE DEF o
    <3>3. CutsFrom(<<>>, o, body, a)
      BY <2>2, <3>2 DEF CutsFrom, n
    <3>. QED
      BY <3>1, <3>3
  <2>3. CASE a # n /\ body[a + 1] = PAD1_NUM
    <3>. DEFINE t == [type |-> PAD1_NUM, content |-> <<>>]
    <3>1. PICK q \in from[a + 1] : r = <<t>> \o q
      BY <2>1, <2>3 DEF E, n
    <3>2. a + 1 \in a + 1 .. n /\ a \in Nat
      BY <1>2, <2>3
    <3>3. PICK off : CutsFrom(q, off, body, a + 1)
      BY <1>7, <3>1, <3>2
    <3>4. t \in TLV
      <4>1. 0 \in Octet /\ <<>> \in Seq(Octet)
        BY OctetAssumption DEF Octet
      <4>. QED
        BY <4>1 DEF TLV
    <3>5. span(t) = 1 /\ Lies(t, body, a)
      BY <2>3 DEF span, Lies
    <3>. HIDE DEF t
    <3>6. CutsFrom(q, off, body, a + span(t))
      BY <3>3, <3>5
    <3>. QED
      BY <3>1, <3>2, <3>4, <3>5, <3>6, CutsFromHead
  <2>4. CASE /\ a # n /\ body[a + 1] # PAD1_NUM
             /\ a + 1 = n \/ a + HEAD_SIZE + body[a + 2] > n
    BY <2>1, <2>4 DEF E, n
  <2>5. CASE /\ a # n /\ body[a + 1] # PAD1_NUM
             /\ ~ (a + 1 = n \/ a + HEAD_SIZE + body[a + 2] > n)
    <3>. DEFINE b == a + HEAD_SIZE + body[a + 2]
                c == SubSeq(body, a + HEAD_SIZE + 1, b)
                t == [type |-> body[a + 1], content |-> c]
    <3>1. PICK q \in from[b] : r = <<t>> \o q
      BY <2>1, <2>5 DEF E, n
    <3>2. a + 1 \in 1 .. n /\ a + 2 \in 1 .. n /\ a \in Nat
      BY <1>2, <2>5
    <3>. DEFINE l == body[a + 2]
    <3>3. l \in Nat /\ body[a + 1] \in Octet
      BY <1>2, <3>2
    <3>4. b \in a + 1 .. n /\ b = a + 2 + l /\ b <= n
      BY <1>2, <2>5, <3>3
    <3>5. PICK off : CutsFrom(q, off, body, b)
      BY <1>7, <3>1, <3>4
    <3>. HIDE DEF b, l
    <3>6. c = SubSeq(body, a + 3, b)
      <4>1. a + HEAD_SIZE + 1 = a + 3
        BY <3>2
      <4>2. \A x : x = a + 3 => SubSeq(body, x, b) = SubSeq(body, a + 3, b)
        OBVIOUS
      <4>. QED
        BY <4>1, <4>2
    <3>. HIDE DEF c
    <3>7. /\ c \in Seq(Octet) /\ Len(c) = l
          /\ \A j \in 1 .. l : c[j] = body[a + 2 + j]
      BY <1>2, <3>2, <3>3, <3>4, <3>6 DEF n
    <3>8. t \in TLV /\ t.type = body[a + 1] /\ t.content = c
      BY <3>3, <3>7 DEF TLV
    <3>. HIDE DEF t
    <3>9. Lies(t, body, a)
      BY <2>5, <3>7, <3>8 DEF Lies, l
    <3>10. span(t) = 2 + l
      BY <2>5, <3>7, <3>8 DEF span
    <3>11. a + span(t) = b
      BY <3>2, <3>3, <3>4, <3>10
    <3>12. CutsFrom(q, off, body, a + span(t))
      BY <3>5, <3>11
    <3>. QED
      BY <3>1, <3>2, <3>8, <3>9, <3>12, CutsFromHead
  <2>. QED
    BY <2>2, <2>3, <2>4, <2>5
<1>. HIDE DEF Good
<1>8. \A m \in Nat : m <= n => \A x \in n - m .. n : Good(x)
  <2>. DEFINE S == {m \in Nat : m <= n => \A x \in n - m .. n : Good(x)}
  <2>1. 0 \in S
    <3>1. Good(n)
      <4>1. n \in 0 .. n /\ \A x \in n + 1 .. n : FALSE
        BY <1>2
      <4>. QED
        BY <1>7, <4>1
    <3>2. \A x \in n - 0 .. n : x = n
      BY <1>2
    <3>. QED
      BY <3>1, <3>2
  <2>2. ASSUME NEW m \in S PROVE m + 1 \in S
    <3>. SUFFICES ASSUME m + 1 <= n PROVE \A x \in n - (m + 1) .. n : Good(x)
      OBVIOUS
    <3>. DEFINE a == n - (m + 1)
    <3>1. /\ a \in 0 .. n
          /\ \A x \in a .. n : x = a \/ x \in n - m .. n
          /\ \A x \in a + 1 .. n : x \in n - m .. n
          /\ m <= n
      BY <1>2
    <3>2. \A x \in n - m .. n : Good(x)
      BY <3>1
    <3>. HIDE DEF a
    <3>3. Good(a)
      BY <1>7, <3>1, <3>2
    <3>4. \A x \in a .. n : Good(x)
      BY <3>1, <3>2, <3>3
    <3>. QED
      BY <3>4 DEF a
  <2>3. S = Nat
    <3>. HIDE DEF S
    <3>1. S \in SUBSET Nat
      BY DEF S
    <3>. QED
      BY <2>1, <2>2, <3>1, Induction
  <2>. QED
    BY <2>3
<1>9. Good(0)
  <2>1. n \in Nat /\ n <= n /\ 0 \in n - n .. n
    BY <1>2
  <2>. QED
    BY <1>8, <2>1
<1>10. PICK off : CutsFrom(s, off, body, 0)
  BY <1>1, <1>9 DEF Good
<1>. QED
  BY <1>10, CutsFromStart

\* Those that are first of their key are those wanted.
LEMMA WantedFacts ==
  ASSUME NEW s \in Seq(TLV), NEW p, NEW w, Handled(p, w, s, Len(s)),
         p.tlvs \in Seq(TLV)
  PROVE  ToSet(p.tlvs) = Wanted(s)
<1>1. \A t : t \in Wanted(s) <=> IsFirst(t, s, Len(s))
  <2>. SUFFICES ASSUME NEW t PROVE t \in Wanted(s) <=> IsFirst(t, s, Len(s))
    OBVIOUS
  <2>. DEFINE Of(i) == verify(s[i]) /\ t \in Copy(s[i])
                         /\ \A j \in 1 .. i - 1 :
                              verify(s[j]) => \A u \in Copy(s[j]) : Key(u) # Key(t)
  <2>1. IsFirst(t, s, Len(s)) <=> \E i \in 1 .. Len(s) : Of(i)
    BY DEF IsFirst, NewKey
  <2>2. t \in Wanted(s) <=>
          /\ t \in UNION {Copy(s[i]) : i \in {j \in 1 .. Len(s) : verify(s[j])}}
          /\ \E i \in 1 .. Len(s) : Of(i)
    BY DEF Wanted
  <2>3. ASSUME NEW i \in 1 .. Len(s), Of(i)
        PROVE  t \in UNION {Copy(s[k]) : k \in {j \in 1 .. Len(s) : verify(s[j])}}
    <3>1. i \in {j \in 1 .. Len(s) : verify(s[j])}
      BY <2>3
    <3>2. t \in Copy(s[i])
      BY <2>3
    <3>. QED
      BY <3>1, <3>2
  <2>. HIDE DEF Of
  <2>. QED
    BY <2>1, <2>2, <2>3
<1>2. \A t : t \in ToSet(p.tlvs) <=> Has(p, t)
  BY SeqFacts DEF ToSet, Has
<1>3. \A t : Has(p, t) <=> IsFirst(t, s, Len(s))
  BY DEF Handled
<1>. QED
  BY <1>1, <1>2, <1>3

\* A datagram of whatever correct and incorrect TLVs is not refused, if an
\* octet can hold their sizes: paquet keeps each correct TLV, the first of its
\* key, and gives a Warning if there is an incorrect one.
THEOREM KeepsWantedHolds == Spec => []KeepsWanted
<1>1. ASSUME Inv, phase \in {"returned", "refused"},
             dgram.size <= Len(dgram.octets),
             NEW s \in Cut(SubSeq(dgram.octets, 1, dgram.size)), SizeFits(s)
      PROVE  /\ phase = "returned"
             /\ ToSet(pack.tlvs) = Wanted(s)
             /\ warned <=> \E i \in 1 .. Len(s) : ~ verify(s[i])
  <2>1. Packed /\ Read /\ dgram \in Datagram /\ pack.tlvs \in Seq(TLV)
    BY <1>1 DEF Inv, Packed, TypeOK
  <2>2. s \in Cut(Bytes(dgram)) /\ Bytes(dgram) \in Seq(Octet)
    BY <1>1, <2>1, BytesFacts DEF Bytes
  <2>3. PICK off : Cuts(s, off, Bytes(dgram))
    BY <2>2, CutFacts
  <2>4. phase = "returned" /\ Handled(pack, warned, s, Len(s))
    BY <1>1, <2>1, <2>3 DEF Read
  <2>5. s \in Seq(TLV)
    BY <2>3 DEF Cuts
  <2>6. ToSet(pack.tlvs) = Wanted(s)
    BY <2>1, <2>4, <2>5, WantedFacts
  <2>. QED
    BY <2>4, <2>6 DEF Handled
<1>2. Inv => KeepsWanted
  BY <1>1 DEF KeepsWanted
<1>. QED
  BY <1>2, InvHolds, PTL

-----------------------------------------------------------------------------
(* The step that EndsUnlessStuck takes again and again.                    *)

\* While paquet parses and is not stuck, it ends or what is left gets smaller.
Advances ==
  [][phase = "parsing" /\ ~ Stuck => phase' # "parsing" \/ left' < left]_vars

\* Each turn of the loop of paquet ends it or consumes octets, for every
\* datagram, but for the two places of Stuck (package.c:175, tlv.c:343): the
\* variant with which EndsUnlessStuck holds.
THEOREM AdvancesHolds == Spec => Advances
<1>1. ASSUME TypeOK, Next, phase = "parsing", ~ Stuck, phase' = "parsing"
      PROVE  left' < left
  <2>1. left \in Nat /\ (left > 1 => siz \in Nat /\ siz # 0)
    BY <1>1, ParsingFacts DEF Stuck
  <2>2. Parse
    BY <1>1 DEF Next, Fill, Send, Receive, Destroy, Parse
  <2>3. ~ Return /\ ~ Refuse /\ ~ LastPad1
    BY <1>1 DEF Return, Refuse, LastPad1, Stuck
  <2>4. left > 1 /\ left' = left - siz
    BY <2>2, <2>3 DEF Parse, Iterate, Warn, Take, Advance
  <2>. QED
    BY <2>1, <2>4
<1>2. TypeOK /\ [Next]_vars
      => [phase = "parsing" /\ ~ Stuck
            => phase' # "parsing" \/ left' < left]_vars
  BY <1>1
<1>. QED
  BY <1>2, PacketTypeCorrect, PTL DEF Spec, Advances
=============================================================================
