--------------------------- MODULE DatabaseProofs ---------------------------
(***************************************************************************)
(* The array of Database is sorted, its cached hashes are fresh, and it    *)
(* implements PublishedTable, for any set of Ids and any seqno space.      *)
(***************************************************************************)
EXTENDS Database, FiniteSetTheorems, TLAPS

USE IdAssumption DEF Seqno, UNSET

(***************************************************************************)
(* The place where updateDataBase inserts an Id exists: it is the p below  *)
(* which no Id is greater and from which on every Id is.  That is carried  *)
(* along as an invariant, one insertion at a time.                         *)
(***************************************************************************)
Splits(i, p) ==
  \A k \in 0 .. nbdata - 1 :
    IF k < p THEN content[k].id <= i ELSE content[k].id > i

Splittable == \A i \in Node : \E p \in 0 .. nbdata : Splits(i, p)

IInv == TypeOK /\ Sorted /\ HashesFresh /\ Splittable

-----------------------------------------------------------------------------
(* Lemmas about records.                                                   *)

\* A seqno has a successor among the seqnos.
LEMMA SuccType ==
  ASSUME NEW s \in Seqno
  PROVE  Succ(s) \in Seqno
BY HALFAssumption DEF Succ

\* A record is not the absence of a record.
LEMMA DataFields ==
  ASSUME NEW d \in Data
  PROVE  /\ d # None
         /\ d.seqno \in Seqno
         /\ d.text \in Content
         /\ d = [seqno |-> d.seqno, text |-> d.text]
BY NoneAssumption DEF Data

\* The texts a node can publish by itself.
LEMMA ContentFacts ==
  /\ Text \cup {Empty} \subseteq Content
  /\ \A tab \in DataTable : ISee(Cardinality(Known(tab))) \in Content
BY DEF Content, Known, DataTable

\* What updateData makes of a fresh record is a record with a fresh hash.
LEMMA FreshFacts ==
  ASSUME NEW i \in Node, NEW d \in Data
  PROVE  /\ Fresh(i, d) \in Record
         /\ Fresh(i, d).id = i
         /\ Fresh(i, d).seqno = d.seqno
         /\ Fresh(i, d).text = d.text
         /\ Fresh(i, d).hash_data = hash(i, d.seqno, d.text)
BY DataFields DEF Fresh, Record, Hash, hash

\* Setting the seqno of a record whose hash is fresh leaves it fresh.
LEMMA SetSeqnoFacts ==
  ASSUME NEW r \in Record, NEW s \in Seqno,
         r.hash_data = hash(r.id, r.seqno, r.text)
  PROVE  /\ SetSeqno(r, s) \in Record
         /\ SetSeqno(r, s).id = r.id
         /\ SetSeqno(r, s).seqno = s
         /\ SetSeqno(r, s).text = r.text
         /\ SetSeqno(r, s).hash_data = hash(r.id, s, r.text)
<1>1. CASE r.seqno = s
  BY <1>1 DEF SetSeqno, Record
<1>2. CASE r.seqno # s
  BY <1>2 DEF SetSeqno, Record, Hash, hash
<1>. QED
  BY <1>1, <1>2

\* The place where a new Id goes: all before it are at most i, all from it on
\* are greater.
LEMMA AfterFacts ==
  ASSUME TypeOK, Sorted, Splittable, NEW i \in Node
  PROVE  /\ After(i) \in 0 .. nbdata
         /\ \A k \in 0 .. nbdata - 1 :
              IF k < After(i) THEN content[k].id <= i ELSE content[k].id > i
<1>1. /\ nbdata \in Nat
      /\ i \in Nat
      /\ \A k \in 0 .. nbdata - 1 : content[k].id \in Nat
  BY DEF TypeOK, Record
<1>2. PICK p \in 0 .. nbdata : Splits(i, p)
  BY DEF Splittable
<1>3. /\ \A k \in 0 .. p - 1 : ~ (content[k].id > i)
      /\ p < nbdata => content[p].id > i
  BY <1>1, <1>2 DEF Splits
<1>4. /\ After(i) \in 0 .. nbdata
      /\ \A k \in 0 .. After(i) - 1 : ~ (content[k].id > i)
      /\ After(i) < nbdata => content[After(i)].id > i
  BY <1>3 DEF After
<1>5. ASSUME NEW k \in 0 .. nbdata - 1
      PROVE  IF k < After(i) THEN content[k].id <= i ELSE content[k].id > i
  <2>1. CASE k < After(i)
    BY <1>1, <1>4, <2>1
  <2>2. CASE k = After(i)
    BY <1>1, <1>4, <2>2
  <2>3. CASE k > After(i)
    <3>1. /\ After(i) \in 0 .. nbdata - 1
          /\ content[After(i)].id > i
      BY <1>1, <1>4, <2>3
    <3>2. content[After(i)].id < content[k].id
      BY <1>1, <1>4, <2>3, <3>1 DEF Sorted
    <3>. QED
      BY <1>1, <1>4, <2>3, <3>1, <3>2
  <2>. QED
    BY <1>1, <1>4, <2>1, <2>2, <2>3
<1>. QED
  BY <1>4, <1>5

-----------------------------------------------------------------------------
(* The array.                                                              *)

\* The array initDataBase makes is as it should be.
LEMMA InitIInv == Init => IInv
<1>. SUFFICES ASSUME Init PROVE IInv
  OBVIOUS
<1>1. PICK s \in Seqno \ {UNSET} :
        /\ nbdata = 1
        /\ content = [k \in {0} |-> Fresh(me, [seqno |-> s, text |-> Empty])]
        /\ network_hash = hashNetwork(content, 1)
  BY DEF Init
<1>2. [seqno |-> s, text |-> Empty] \in Data
  BY ContentFacts DEF Data
<1>3. /\ nbdata = 1
      /\ 0 .. nbdata - 1 = {0}
      /\ content[0] \in Record
      /\ content[0].id = me
      /\ content[0].hash_data
           = hash(content[0].id, content[0].seqno, content[0].text)
  BY <1>1, <1>2, FreshFacts
<1>4. network_hash = [k \in {0} |-> content[k].hash_data]
  BY <1>1, <1>3 DEF hashNetwork
<1>5. TypeOK
  BY <1>1, <1>3, <1>4 DEF TypeOK, At, Record
<1>6. Sorted
  BY <1>3 DEF Sorted
<1>7. HashesFresh
  BY <1>1, <1>3 DEF HashesFresh
<1>8. Splittable
  <2>. SUFFICES ASSUME NEW i \in Node PROVE \E p \in 0 .. nbdata : Splits(i, p)
    BY DEF Splittable
  <2>1. CASE me <= i
    BY <1>3, <2>1 DEF Splits
  <2>2. CASE me > i
    BY <1>3, <2>2 DEF Splits
  <2>. QED
    BY <2>1, <2>2
<1>. QED
  BY <1>5, <1>6, <1>7, <1>8 DEF IInv

\* Putting a record in the place of one of the same Id.
LEMMA StoreIInv ==
  ASSUME IInv, NEW k \in 0 .. nbdata - 1, NEW r \in Record,
         r.id = content[k].id, r.hash_data = hash(r.id, r.seqno, r.text),
         Store(k, r)
  PROVE  IInv'
<1>1. /\ nbdata \in Nat
      /\ content \in [0 .. nbdata - 1 -> Record]
  BY DEF IInv, TypeOK
<1>2. /\ nbdata' = nbdata
      /\ content' = [content EXCEPT ![k] = r]
      /\ network_hash' = hashNetwork(content', nbdata)
  BY DEF Store, Rehash
<1>3. /\ content' \in [0 .. nbdata - 1 -> Record]
      /\ \A j \in 0 .. nbdata - 1 : content'[j].id = content[j].id
  BY <1>1, <1>2
<1>4. TypeOK'
  <2>1. network_hash' \in [0 .. nbdata - 1 -> Hash]
    BY <1>2, <1>3 DEF hashNetwork, Record
  <2>2. (At(me) # {})'
    BY <1>2, <1>3 DEF IInv, TypeOK, At
  <2>. QED
    BY <1>1, <1>2, <1>3, <2>1, <2>2 DEF TypeOK
<1>5. Sorted'
  BY <1>2, <1>3 DEF IInv, Sorted
<1>6. HashesFresh'
  BY <1>1, <1>2 DEF IInv, HashesFresh
<1>7. Splittable'
  BY <1>2, <1>3 DEF IInv, Splittable, Splits
<1>. QED
  BY <1>4, <1>5, <1>6, <1>7 DEF IInv

\* The array with a record of a new Id inserted before the first greater Id.
LEMMA InsertIInv ==
  ASSUME IInv, NEW i \in Node, NEW d \in Data, At(i) = {}, Insert(i, d)
  PROVE  IInv'
<1>. DEFINE after == After(i)
<1>1. /\ nbdata \in Nat
      /\ content \in [0 .. nbdata - 1 -> Record]
      /\ \A k \in 0 .. nbdata - 1 : content[k].id \in Nat
      /\ i \in Nat
  BY DEF IInv, TypeOK, Record
<1>2. /\ after \in 0 .. nbdata
      /\ \A k \in 0 .. nbdata - 1 :
           IF k < after THEN content[k].id < i ELSE content[k].id > i
  <2>1. /\ after \in 0 .. nbdata
        /\ \A k \in 0 .. nbdata - 1 :
             IF k < after THEN content[k].id <= i ELSE content[k].id > i
    BY AfterFacts DEF IInv
  <2>2. \A k \in 0 .. nbdata - 1 : content[k].id # i
    BY DEF At
  <2>. HIDE DEF after
  <2>. QED
    BY <1>1, <2>1, <2>2
<1>3. /\ nbdata' = nbdata + 1
      /\ content' = [k \in 0 .. nbdata |->
           IF k < after THEN content[k]
           ELSE IF k = after THEN Fresh(i, d)
           ELSE content[k - 1]]
      /\ network_hash' = hashNetwork(content', nbdata + 1)
  BY DEF Insert, Rehash
<1>. HIDE DEF after
<1>4. /\ \A k \in 0 .. after - 1 :
           k \in 0 .. nbdata - 1 /\ content'[k] = content[k]
      /\ content'[after] = Fresh(i, d)
      /\ \A k \in after + 1 .. nbdata :
           k - 1 \in 0 .. nbdata - 1 /\ content'[k] = content[k - 1]
      /\ \A k \in 0 .. nbdata :
           k \in 0 .. after - 1 \/ k = after \/ k \in after + 1 .. nbdata
  BY <1>1, <1>2, <1>3
<1>5. /\ 0 .. nbdata' - 1 = 0 .. nbdata
      /\ nbdata' \in Nat
  BY <1>1, <1>3
<1>6. content' \in [0 .. nbdata -> Record]
  BY <1>1, <1>2, <1>3, FreshFacts
<1>7. TypeOK'
  <2>1. network_hash' \in [0 .. nbdata -> Hash]
    BY <1>3, <1>5, <1>6 DEF hashNetwork, Record
  <2>2. PICK k \in 0 .. nbdata - 1 : content[k].id = me
    BY DEF IInv, TypeOK, At
  <2>3. \E j \in 0 .. nbdata : content'[j].id = me
    <3>1. CASE k < after
      <4>1. k \in 0 .. after - 1 /\ k \in 0 .. nbdata
        BY <1>1, <1>2, <3>1
      <4>. QED
        BY <1>4, <2>2, <4>1
    <3>2. CASE ~ (k < after)
      <4>1. /\ k + 1 \in after + 1 .. nbdata
            /\ k + 1 \in 0 .. nbdata
            /\ (k + 1) - 1 = k
        BY <1>1, <1>2, <3>2
      <4>. QED
        BY <1>4, <2>2, <4>1
    <3>. QED
      BY <3>1, <3>2
  <2>4. (At(me) # {})'
    BY <1>5, <2>3 DEF At
  <2>. QED
    BY <1>5, <1>6, <2>1, <2>4 DEF TypeOK
<1>8. Sorted'
  <2>. SUFFICES ASSUME NEW j \in 0 .. nbdata, NEW k \in 0 .. nbdata, j < k
                PROVE  content'[j].id < content'[k].id
    BY <1>5 DEF Sorted
  <2>1. CASE k < after
    <3>1. j \in 0 .. after - 1 /\ k \in 0 .. after - 1
      BY <1>1, <1>2, <2>1
    <3>2. /\ j \in 0 .. nbdata - 1 /\ content'[j] = content[j]
          /\ k \in 0 .. nbdata - 1 /\ content'[k] = content[k]
      BY <1>4, <3>1
    <3>. QED
      BY <3>2 DEF IInv, Sorted
  <2>2. CASE k = after
    BY <1>1, <1>2, <1>4, <2>2, FreshFacts
  <2>3. CASE k > after
    <3>1. /\ k - 1 \in 0 .. nbdata - 1
          /\ ~ (k - 1 < after)
          /\ content'[k] = content[k - 1]
      BY <1>1, <1>2, <1>4, <2>3
    <3>2. CASE j < after
      <4>1. j \in 0 .. nbdata - 1 /\ j < k - 1 /\ content'[j] = content[j]
        BY <1>1, <1>2, <1>4, <2>3, <3>2
      <4>. QED
        BY <3>1, <4>1 DEF IInv, Sorted
    <3>3. CASE j = after
      BY <1>1, <1>2, <1>4, <3>1, <3>3, FreshFacts
    <3>4. CASE j > after
      <4>1. /\ j - 1 \in 0 .. nbdata - 1
            /\ j - 1 < k - 1
            /\ content'[j] = content[j - 1]
        BY <1>1, <1>2, <1>4, <3>4
      <4>. QED
        BY <3>1, <4>1 DEF IInv, Sorted
    <3>. QED
      BY <1>1, <1>2, <3>2, <3>3, <3>4
  <2>. QED
    BY <1>1, <1>2, <2>1, <2>2, <2>3
<1>9. HashesFresh'
  <2>1. \A k \in 0 .. nbdata :
          content'[k].hash_data
            = hash(content'[k].id, content'[k].seqno, content'[k].text)
    <3>. SUFFICES ASSUME NEW k \in 0 .. nbdata
                  PROVE  content'[k].hash_data = hash(content'[k].id,
                           content'[k].seqno, content'[k].text)
      OBVIOUS
    <3>1. CASE k \in 0 .. after - 1
      BY <1>4, <3>1 DEF IInv, HashesFresh
    <3>2. CASE k = after
      BY <1>4, <3>2, FreshFacts
    <3>3. CASE k \in after + 1 .. nbdata
      BY <1>4, <3>3 DEF IInv, HashesFresh
    <3>. QED
      BY <1>4, <3>1, <3>2, <3>3
  <2>. QED
    BY <1>3, <1>5, <2>1 DEF HashesFresh
<1>10. Splittable'
  <2>. SUFFICES ASSUME NEW x \in Node
                PROVE  \E p \in 0 .. nbdata + 1 : \A k \in 0 .. nbdata :
                         IF k < p THEN content'[k].id <= x
                                  ELSE content'[k].id > x
    BY <1>3, <1>5 DEF Splittable, Splits
  <2>1. PICK p \in 0 .. nbdata : \A k \in 0 .. nbdata - 1 :
          IF k < p THEN content[k].id <= x ELSE content[k].id > x
    BY DEF IInv, Splittable, Splits
  <2>2. x \in Nat
    OBVIOUS
  <2>3. CASE i <= x
    <3>1. after <= p
      <4>. SUFFICES ASSUME p < after PROVE FALSE
        BY <1>2, <2>1
      <4>1. p \in 0 .. nbdata - 1
        BY <1>1, <1>2, <2>1
      <4>2. content[p].id < i /\ content[p].id > x /\ content[p].id \in Nat
        BY <1>1, <1>2, <2>1, <4>1
      <4>. QED
        BY <1>1, <2>2, <2>3, <4>2
    <3>2. ASSUME NEW k \in 0 .. nbdata
          PROVE  IF k < p + 1 THEN content'[k].id <= x ELSE content'[k].id > x
      <4>1. CASE k \in 0 .. after - 1
        BY <1>1, <1>2, <1>4, <2>1, <2>2, <2>3, <3>1, <4>1
      <4>2. CASE k = after
        BY <1>1, <1>2, <1>4, <2>1, <2>2, <2>3, <3>1, <4>2, FreshFacts
      <4>3. CASE k \in after + 1 .. nbdata
        BY <1>1, <1>2, <1>4, <2>1, <2>2, <2>3, <3>1, <4>3
      <4>. QED
        BY <1>4, <4>1, <4>2, <4>3
    <3>3. p + 1 \in 0 .. nbdata + 1
      BY <1>1
    <3>. WITNESS p + 1 \in 0 .. nbdata + 1
    <3>. QED
      BY <3>2
  <2>4. CASE i > x
    <3>1. p <= after
      <4>. SUFFICES ASSUME after < p PROVE FALSE
        BY <1>2, <2>1
      <4>1. after \in 0 .. nbdata - 1
        BY <1>1, <1>2, <2>1
      <4>2. /\ content[after].id > i /\ content[after].id <= x
            /\ content[after].id \in Nat
        BY <1>1, <1>2, <2>1, <4>1
      <4>. QED
        BY <1>1, <2>2, <2>4, <4>2
    <3>2. ASSUME NEW k \in 0 .. nbdata
          PROVE  IF k < p THEN content'[k].id <= x ELSE content'[k].id > x
      <4>1. CASE k \in 0 .. after - 1
        BY <1>1, <1>2, <1>4, <2>1, <2>2, <2>4, <3>1, <4>1
      <4>2. CASE k = after
        BY <1>1, <1>2, <1>4, <2>1, <2>2, <2>4, <3>1, <4>2, FreshFacts
      <4>3. CASE k \in after + 1 .. nbdata
        BY <1>1, <1>2, <1>4, <2>1, <2>2, <2>4, <3>1, <4>3
      <4>. QED
        BY <1>4, <4>1, <4>2, <4>3
    <3>3. p \in 0 .. nbdata + 1
      BY <1>1
    <3>. WITNESS p \in 0 .. nbdata + 1
    <3>. QED
      BY <3>2
  <2>. QED
    BY <1>1, <2>2, <2>3, <2>4
<1>. QED
  BY <1>7, <1>8, <1>9, <1>10 DEF IInv

-----------------------------------------------------------------------------
(* The steps.                                                              *)

\* Every record of the array is the record of some Id.
LEMMA RecordFacts ==
  ASSUME IInv, NEW k \in 0 .. nbdata - 1
  PROVE  /\ content[k] \in Record
         /\ content[k].id \in Node
         /\ content[k].seqno \in Seqno
         /\ content[k].text \in Content
         /\ content[k].hash_data
              = hash(content[k].id, content[k].seqno, content[k].text)
BY DEF IInv, TypeOK, HashesFresh, Record

\* What updateMyData puts in the place of our own record.
LEMMA MyRecordFacts ==
  ASSUME NEW c \in Content, NEW s \in Seqno
  PROVE  LET r == SetSeqno(Fresh(me, [seqno |-> UNSET, text |-> c]), s)
         IN  /\ r \in Record
             /\ r.id = me
             /\ r.seqno = s
             /\ r.text = c
             /\ r.hash_data = hash(me, s, c)
<1>1. [seqno |-> UNSET, text |-> c] \in Data
  BY HALFAssumption DEF Data
<1>. QED
  BY <1>1, FreshFacts, SetSeqnoFacts

\* Each call keeps the array as it should be.
LEMMA NextIInv == IInv /\ [Next]_vars => IInv'
<1>. SUFFICES ASSUME IInv, [Next]_vars PROVE IInv'
  OBVIOUS
<1>1. ASSUME UNCHANGED vars PROVE IInv'
  BY <1>1 DEF vars, IInv, TypeOK, Sorted, HashesFresh, Splittable, Splits, At
<1>2. ASSUME NEW i \in Node, NEW d \in Data, updateDataBase(i, d)
      PROVE  IInv'
  <2>1. ASSUME NEW k \in At(i), Outbid(k, d) PROVE IInv'
    <3>1. CASE Preceq(content[k].seqno, d.seqno)
      <4>1. Succ(d.seqno) \in Seqno
        BY DataFields, SuccType
      <4>2. Store(k, SetSeqno(content[k], Succ(d.seqno)))
        BY <2>1, <3>1 DEF Outbid
      <4>. QED
        BY <4>1, <4>2, RecordFacts, SetSeqnoFacts, StoreIInv DEF At
    <3>2. CASE ~ Preceq(content[k].seqno, d.seqno)
      BY <1>1, <2>1, <3>2 DEF Outbid
    <3>. QED
      BY <3>1, <3>2
  <2>2. ASSUME NEW k \in At(i), Supersede(k, i, d) PROVE IInv'
    <3>1. CASE Preceq(d.seqno, content[k].seqno)
      BY <1>1, <2>2, <3>1 DEF Supersede
    <3>2. CASE ~ Preceq(d.seqno, content[k].seqno)
      <4>1. Store(k, Fresh(i, d))
        BY <2>2, <3>2 DEF Supersede
      <4>. QED
        BY <4>1, FreshFacts, StoreIInv DEF At
    <3>. QED
      BY <3>1, <3>2
  <2>. QED
    BY <1>2, <2>1, <2>2, InsertIInv DEF updateDataBase
<1>3. ASSUME NEW c \in Content, updateMyData(c) PROVE IInv'
  <2>1. PICK k \in At(me) :
          IF content[k].text # c
            THEN Store(k, SetSeqno(Fresh(me, [seqno |-> UNSET, text |-> c]),
                                   Succ(content[k].seqno)))
            ELSE UNCHANGED vars
    BY <1>3 DEF updateMyData
  <2>2. k \in 0 .. nbdata - 1 /\ content[k].id = me
    BY DEF At
  <2>3. Succ(content[k].seqno) \in Seqno
    BY <2>2, RecordFacts, SuccType
  <2>. QED
    BY <1>1, <2>1, <2>2, <2>3, MyRecordFacts, StoreIInv
<1>. QED
  BY <1>1, <1>2, <1>3 DEF Next

\* The array is always as it should be.
LEMMA SpecIInv == Spec => []IInv
  BY InitIInv, NextIInv, PTL DEF Spec

\* The variables have their types, and there is always a record of our own:
\* updateMyData and every20seconds count on finding it.
THEOREM ArrayTypeCorrect == Spec => []TypeOK
<1>1. IInv => TypeOK
  BY DEF IInv
<1>. QED
  BY <1>1, SpecIInv, PTL

\* The array is sorted by Id without two records of one Id, whatever came in,
\* in whatever order.
THEOREM SortedHolds == Spec => []Sorted
<1>1. IInv => Sorted
  BY DEF IInv
<1>. QED
  BY <1>1, SpecIInv, PTL

\* No call leaves a stale hash behind, of a record or of the network.
THEOREM HashesFreshHolds == Spec => []HashesFresh
<1>1. IInv => HashesFresh
  BY DEF IInv
<1>. QED
  BY <1>1, SpecIInv, PTL

-----------------------------------------------------------------------------
(* The refinement.                                                         *)

\* The table has the data of each record, and nothing else.
StoredIs ==
  /\ \A k \in 0 .. nbdata - 1 : Stored[content[k].id]
       = [seqno |-> content[k].seqno, text |-> content[k].text]
  /\ \A i \in Node : (\A k \in 0 .. nbdata - 1 : content[k].id # i)
                       => Stored[i] = None

\* Sorted, the array stands for one table.
LEMMA StoredFacts == IInv => StoredIs
<1>. SUFFICES ASSUME IInv PROVE StoredIs
  OBVIOUS
<1>1. ASSUME NEW k \in 0 .. nbdata - 1
      PROVE  Stored[content[k].id]
          = [seqno |-> content[k].seqno, text |-> content[k].text]
  <2>1. nbdata \in Nat /\ \A j \in 0 .. nbdata - 1 : content[j].id \in Nat
    BY RecordFacts DEF IInv, TypeOK
  <2>2. ASSUME NEW j \in 0 .. nbdata - 1, content[j].id = content[k].id
        PROVE  j = k
    BY <2>1, <2>2 DEF IInv, Sorted
  <2>3. At(content[k].id) = {k}
    BY <2>2 DEF At
  <2>4. content[k].id \in Node
    BY RecordFacts
  <2>. QED
    BY <2>3, <2>4 DEF Stored
<1>2. ASSUME NEW i \in Node, \A k \in 0 .. nbdata - 1 : content[k].id # i
      PROVE  Stored[i] = None
  BY <1>2 DEF Stored, At
<1>. QED
  BY <1>1, <1>2 DEF StoredIs

\* The table is a function of the Ids.
LEMMA StoredDomain ==
  /\ Stored = [i \in Node |-> Stored[i]]
  /\ Stored' = [i \in Node |-> Stored'[i]]
BY DEF Stored

\* Storing a record in the place of one of its Id changes one entry.
LEMMA StoreTable ==
  ASSUME IInv, NEW k \in 0 .. nbdata - 1, NEW r \in Record,
         r.id = content[k].id, r.hash_data = hash(r.id, r.seqno, r.text),
         Store(k, r)
  PROVE  Stored' = [Stored EXCEPT ![r.id] = [seqno |-> r.seqno,
                                             text |-> r.text]]
<1>1. StoredIs /\ (IInv => StoredIs)'
  BY StoredFacts, PTL
<1>2. StoredIs'
  BY <1>1, StoreIInv
<1>3. /\ content \in [0 .. nbdata - 1 -> Record]
      /\ nbdata' = nbdata
      /\ content' = [content EXCEPT ![k] = r]
      /\ r.id \in Node
  BY DEF Store, IInv, TypeOK, Record
<1>4. Stored'[r.id] = [seqno |-> r.seqno, text |-> r.text]
  BY <1>2, <1>3 DEF StoredIs
<1>5. ASSUME NEW i \in Node, i # r.id
      PROVE  Stored'[i] = Stored[i]
  <2>1. CASE \E j \in 0 .. nbdata - 1 : content[j].id = i
    <3>1. PICK j \in 0 .. nbdata - 1 : content[j].id = i
      BY <2>1
    <3>2. content'[j] = content[j]
      BY <1>3, <1>5, <3>1
    <3>3. Stored[i] = [seqno |-> content[j].seqno, text |-> content[j].text]
      BY <1>1, <3>1 DEF StoredIs
    <3>4. Stored'[i] = [seqno |-> content'[j].seqno,
                        text |-> content'[j].text]
      BY <1>2, <1>3, <3>1, <3>2 DEF StoredIs
    <3>. QED
      BY <3>2, <3>3, <3>4
  <2>2. CASE \A j \in 0 .. nbdata - 1 : content[j].id # i
    BY <1>1, <1>2, <1>3, <1>5, <2>2 DEF StoredIs
  <2>. QED
    BY <2>1, <2>2
<1>. QED
  BY <1>3, <1>4, <1>5, StoredDomain

\* Inserting a record of a new Id changes one entry.
LEMMA InsertTable ==
  ASSUME IInv, NEW i \in Node, NEW d \in Data, At(i) = {}, Insert(i, d)
  PROVE  Stored' = [Stored EXCEPT ![i] = d]
<1>. DEFINE after == After(i)
<1>1. StoredIs /\ (IInv => StoredIs)'
  BY StoredFacts, PTL
<1>2. StoredIs'
  BY <1>1, InsertIInv
<1>3. /\ nbdata \in Nat
      /\ after \in 0 .. nbdata
  BY AfterFacts DEF IInv, TypeOK
<1>4. /\ nbdata' = nbdata + 1
      /\ content' = [k \in 0 .. nbdata |->
           IF k < after THEN content[k]
           ELSE IF k = after THEN Fresh(i, d)
           ELSE content[k - 1]]
  BY DEF Insert
<1>. HIDE DEF after
<1>5. 0 .. nbdata' - 1 = 0 .. nbdata
  BY <1>3, <1>4
<1>6. Stored'[i] = d
  <2>1. content'[after] = Fresh(i, d)
    BY <1>3, <1>4
  <2>2. /\ [seqno |-> content'[after].seqno, text |-> content'[after].text] = d
        /\ content'[after].id = i
    BY <2>1, FreshFacts, DataFields
  <2>. QED
    BY <1>2, <1>3, <1>5, <2>2 DEF StoredIs
<1>7. ASSUME NEW j \in Node, j # i
      PROVE  Stored'[j] = Stored[j]
  <2>1. CASE \E k \in 0 .. nbdata - 1 : content[k].id = j
    <3>1. PICK k \in 0 .. nbdata - 1 : content[k].id = j
      BY <2>1
    <3>2. PICK q \in 0 .. nbdata : content'[q] = content[k]
      <4>1. CASE k < after
        BY <1>3, <1>4, <4>1
      <4>2. CASE ~ (k < after)
        <5>1. k + 1 \in 0 .. nbdata /\ content'[k + 1] = content[k]
          BY <1>3, <1>4, <4>2
        <5>. QED
          BY <5>1
      <4>. QED
        BY <4>1, <4>2
    <3>3. Stored[j] = [seqno |-> content[k].seqno, text |-> content[k].text]
      BY <1>1, <3>1 DEF StoredIs
    <3>4. Stored'[j] = [seqno |-> content'[q].seqno,
                        text |-> content'[q].text]
      BY <1>2, <1>5, <3>1, <3>2 DEF StoredIs
    <3>. QED
      BY <3>2, <3>3, <3>4
  <2>2. CASE \A k \in 0 .. nbdata - 1 : content[k].id # j
    <3>1. \A k \in 0 .. nbdata : content'[k].id # j
      BY <1>3, <1>4, <1>7, <2>2, FreshFacts
    <3>. QED
      BY <1>1, <1>2, <1>5, <2>2, <3>1 DEF StoredIs
  <2>. QED
    BY <2>1, <2>2
<1>. QED
  BY <1>6, <1>7, StoredDomain

\* The table is a table, and what it has for an Id is that Id's record.
LEMMA StoredType ==
  ASSUME IInv
  PROVE  /\ DOMAIN Stored = Node
         /\ \A i \in Node : At(i) = {} => Stored[i] = None
         /\ \A i \in Node : \A k \in At(i) :
              /\ Stored[i] = [seqno |-> content[k].seqno,
                              text |-> content[k].text]
              /\ Stored[i] # None
<1>1. StoredIs
  BY StoredFacts
<1>2. ASSUME NEW i \in Node, NEW k \in At(i)
      PROVE  /\ Stored[i] = [seqno |-> content[k].seqno,
                             text |-> content[k].text]
             /\ Stored[i] # None
  <2>1. k \in 0 .. nbdata - 1 /\ content[k].id = i
    BY DEF At
  <2>2. [seqno |-> content[k].seqno, text |-> content[k].text] \in Data
    BY <2>1, RecordFacts DEF Data
  <2>. QED
    BY <1>1, <2>1, <2>2, NoneAssumption DEF StoredIs
<1>3. ASSUME NEW i \in Node, At(i) = {} PROVE Stored[i] = None
  BY <1>3 DEF Stored
<1>. QED
  BY <1>2, <1>3, StoredDomain

\* What updateDataBase does to the array, UpdateDataBase does to the table.
LEMMA UpdateDataBaseTable ==
  ASSUME IInv, NEW i \in Node, NEW d \in Data, updateDataBase(i, d)
  PROVE  Stored' = UpdateDataBase(Stored, me, i, d)
<1>1. CASE i = me /\ \E k \in At(i) : Outbid(k, d)
  <2>1. PICK k \in At(me) : Outbid(k, d)
    BY <1>1
  <2>2. /\ k \in 0 .. nbdata - 1
        /\ content[k].id = me
        /\ Stored[me] = [seqno |-> content[k].seqno, text |-> content[k].text]
        /\ Stored[me] # None
    BY StoredType DEF At
  <2>3. CASE Preceq(content[k].seqno, d.seqno)
    <3>1. Succ(d.seqno) \in Seqno
      BY DataFields, SuccType
    <3>2. Store(k, SetSeqno(content[k], Succ(d.seqno)))
      BY <2>1, <2>3 DEF Outbid
    <3>3. PICK r \in Record :
            /\ r = SetSeqno(content[k], Succ(d.seqno))
            /\ r.id = content[k].id
            /\ r.seqno = Succ(d.seqno)
            /\ r.text = content[k].text
            /\ r.hash_data = hash(r.id, r.seqno, r.text)
      BY <2>2, <3>1, RecordFacts, SetSeqnoFacts
    <3>4. Stored' = [Stored EXCEPT ![me] =
                       [seqno |-> Succ(d.seqno), text |-> content[k].text]]
      BY <2>2, <3>2, <3>3, StoreTable
    <3>5. UpdateDataBase(Stored, me, i, d)
            = [Stored EXCEPT ![me].seqno = Succ(d.seqno)]
      BY <1>1, <2>2, <2>3 DEF UpdateDataBase, Bump
    <3>6. [Stored[me] EXCEPT !.seqno = Succ(d.seqno)]
            = [seqno |-> Succ(d.seqno), text |-> content[k].text]
      BY <2>2
    <3>7. [Stored EXCEPT ![me].seqno = Succ(d.seqno)]
            = [Stored EXCEPT ![me] = [Stored[me] EXCEPT !.seqno = Succ(d.seqno)]]
      BY StoredType
    <3>. QED
      BY <3>4, <3>5, <3>6, <3>7
  <2>4. CASE ~ Preceq(content[k].seqno, d.seqno)
    <3>1. Stored' = Stored
      BY <2>1, <2>4 DEF Outbid, vars, Stored, At
    <3>. QED
      BY <1>1, <2>2, <2>4, <3>1 DEF UpdateDataBase, Bump
  <2>. QED
    BY <2>3, <2>4
<1>2. CASE i # me /\ \E k \in At(i) : Supersede(k, i, d)
  <2>1. PICK k \in At(i) : Supersede(k, i, d)
    BY <1>2
  <2>2. /\ k \in 0 .. nbdata - 1
        /\ content[k].id = i
        /\ Stored[i] = [seqno |-> content[k].seqno, text |-> content[k].text]
        /\ Stored[i] # None
    BY StoredType DEF At
  <2>3. CASE Preceq(d.seqno, content[k].seqno)
    <3>1. Stored' = Stored
      BY <2>1, <2>3 DEF Supersede, vars, Stored, At
    <3>. QED
      BY <1>2, <2>2, <2>3, <3>1 DEF UpdateDataBase, Replace
  <2>4. CASE ~ Preceq(d.seqno, content[k].seqno)
    <3>1. Store(k, Fresh(i, d))
      BY <2>1, <2>4 DEF Supersede
    <3>2. Stored' = [Stored EXCEPT ![i] = d]
      BY <2>2, <3>1, FreshFacts, DataFields, StoreTable
    <3>. QED
      BY <1>2, <2>2, <2>4, <3>2 DEF UpdateDataBase, Replace
  <2>. QED
    BY <2>3, <2>4
<1>3. CASE At(i) = {} /\ Insert(i, d)
  BY <1>3, InsertTable, StoredType DEF UpdateDataBase, Replace
<1>. QED
  BY <1>1, <1>2, <1>3 DEF updateDataBase

\* What updateMyData does to the array, UpdateMyData does to the table.
LEMMA UpdateMyDataTable ==
  ASSUME IInv, NEW c \in Content, updateMyData(c)
  PROVE  Stored' = UpdateMyData(Stored, me, c)
<1>1. PICK k \in At(me) :
        IF content[k].text # c
          THEN Store(k, SetSeqno(Fresh(me, [seqno |-> UNSET, text |-> c]),
                                 Succ(content[k].seqno)))
          ELSE UNCHANGED vars
  BY DEF updateMyData
<1>2. /\ k \in 0 .. nbdata - 1
      /\ content[k].id = me
      /\ Stored[me] = [seqno |-> content[k].seqno, text |-> content[k].text]
  BY StoredType DEF At
<1>3. Succ(content[k].seqno) \in Seqno
  BY <1>2, RecordFacts, SuccType
<1>4. CASE content[k].text # c
  <2>1. PICK r \in Record :
          /\ r = SetSeqno(Fresh(me, [seqno |-> UNSET, text |-> c]),
                          Succ(content[k].seqno))
          /\ r.id = content[k].id
          /\ r.seqno = Succ(content[k].seqno)
          /\ r.text = c
          /\ r.hash_data = hash(r.id, r.seqno, r.text)
    BY <1>2, <1>3, MyRecordFacts
  <2>2. Stored' = [Stored EXCEPT ![me] =
                     [seqno |-> Succ(content[k].seqno), text |-> c]]
    BY <1>1, <1>2, <1>4, <2>1, StoreTable
  <2>. QED
    BY <1>2, <1>4, <2>2 DEF UpdateMyData
<1>5. CASE content[k].text = c
  <2>1. Stored' = Stored
    BY <1>1, <1>5 DEF vars, Stored, At
  <2>. QED
    BY <1>2, <1>5, <2>1 DEF UpdateMyData
<1>. QED
  BY <1>4, <1>5

\* The array starts as the table of our own data.
LEMMA InitTable == Init => Table0!Init
<1>. SUFFICES ASSUME Init PROVE Table0!Init
  OBVIOUS
<1>1. PICK s \in Seqno \ {UNSET} :
        /\ nbdata = 1
        /\ content = [k \in {0} |-> Fresh(me, [seqno |-> s, text |-> Empty])]
  BY DEF Init
<1>2. [seqno |-> s, text |-> Empty] \in Data
  BY ContentFacts DEF Data
<1>3. /\ 0 .. nbdata - 1 = {0}
      /\ content[0].id = me
      /\ content[0].seqno = s
      /\ content[0].text = Empty
  BY <1>1, <1>2, FreshFacts
<1>4. StoredIs
  BY InitIInv, StoredFacts
<1>5. \A i \in Node :
        Stored[i] = IF i = me THEN [seqno |-> s, text |-> Empty] ELSE None
  BY <1>3, <1>4 DEF StoredIs
<1>6. Stored = [i \in Node |->
        IF i = me THEN [seqno |-> s, text |-> Empty] ELSE None]
  BY <1>5, StoredDomain
<1>. QED
  BY <1>6 DEF Table0!Init, Table0!Seqno, Table0!UNSET

\* PublishedTable's operators, instantiated, are those of Table.
LEMMA SameTable ==
  /\ Table0!Data = Data
  /\ Table0!Content = Content
  /\ \A d \in Data : Table0!UpdatesFresh(d) = UpdatesFresh(d)
  /\ \A i \in Node, d \in Data :
       Table0!UpdateDataBase(Stored, me, i, d) = UpdateDataBase(Stored, me, i, d)
  /\ \A c \in Content :
       Table0!UpdateMyData(Stored, me, c) = UpdateMyData(Stored, me, c)
<1>1. Table0!Content = Content
  BY DEF Table0!Content, Table0!ISee, Table0!Cardinality,
         Content, ISee, Cardinality
<1>2. Table0!Data = Data
  BY <1>1 DEF Table0!Data, Table0!Seqno, Data
<1>3. /\ \A s : Table0!Succ(s) = Succ(s)
      /\ \A s, t : Table0!Preceq(s, t) = Preceq(s, t)
  BY DEF Table0!Succ, Succ, Table0!Preceq, Preceq
<1>4. \A d \in Data : Table0!UpdatesFresh(d) = UpdatesFresh(d)
  BY DEF Table0!UpdatesFresh, Table0!UNSET, UpdatesFresh
<1>5. \A i \in Node, d \in Data :
        Table0!UpdateDataBase(Stored, me, i, d)
          = UpdateDataBase(Stored, me, i, d)
  BY <1>3 DEF Table0!UpdateDataBase, Table0!Bump, Table0!Replace,
              UpdateDataBase, Bump, Replace
<1>6. \A c \in Content :
        Table0!UpdateMyData(Stored, me, c) = UpdateMyData(Stored, me, c)
  BY <1>3 DEF Table0!UpdateMyData, UpdateMyData
<1>. QED
  BY <1>1, <1>2, <1>4, <1>5, <1>6

\* Each call on the array is that call on the table, or leaves it alone.
LEMMA NextTable == IInv /\ [Next]_vars => [Table0!Next]_Stored
<1>. SUFFICES ASSUME IInv, [Next]_vars PROVE [Table0!Next]_Stored
  OBVIOUS
<1>1. ASSUME UNCHANGED vars PROVE Stored' = Stored
  BY <1>1 DEF vars, Stored, At
<1>2. ASSUME NEW i \in Node, NEW d \in Data, updateDataBase(i, d)
      PROVE  Table0!Receive(i, d)
  <2>1. UpdatesFresh(d)
    BY <1>2 DEF updateDataBase
  <2>2. Stored' = UpdateDataBase(Stored, me, i, d)
    BY <1>2, UpdateDataBaseTable
  <2>. QED
    BY <2>1, <2>2, SameTable DEF Table0!Receive
<1>3. ASSUME NEW c \in Content \ {Empty}, updateMyData(c)
      PROVE  Table0!Publish(c)
  BY <1>3, UpdateMyDataTable, SameTable DEF Table0!Publish
<1>. QED
  BY <1>1, <1>2, <1>3, SameTable DEF Next, Table0!Next

\* The sorted array with its cached hashes is, to its callers, the table of
\* PublishedTable: the one Flooding uses.
THEOREM ImplementsHolds == Spec => Implements
  BY InitTable, NextTable, SpecIInv, PTL DEF Spec, Implements, Table0!Spec

\* The Ids at the first m places of the sorted array are m Ids.
LEMMA IdsOfPlaces ==
  ASSUME IInv, NEW m \in 0 .. nbdata
  PROVE  LET S == {content[l].id : l \in 0 .. m - 1}
         IN  IsFiniteSet(S) /\ Cardinality(S) = m
<1>. DEFINE S == {content[l].id : l \in 0 .. m - 1}
            f == [l \in 0 .. m - 1 |-> content[l].id]
<1>1. nbdata \in Nat /\ 0 .. m - 1 \subseteq 0 .. nbdata - 1
  BY DEF IInv, TypeOK
<1>2. \A k \in 0 .. nbdata - 1 : content[k].id \in Nat
  BY RecordFacts
<1>3. ASSUME NEW j \in 0 .. m - 1, NEW k \in 0 .. m - 1, f[j] = f[k]
      PROVE  j = k
  BY <1>1, <1>2, <1>3 DEF IInv, Sorted
<1>4. f \in [0 .. m - 1 -> S] /\ \A t \in S : \E l \in 0 .. m - 1 : f[l] = t
  OBVIOUS
<1>5. f \in Bijection(0 .. m - 1, S)
  <2>1. IsInjective(f)
    BY <1>3 DEF IsInjective
  <2>. HIDE DEF f, S
  <2>. QED
    BY <1>4, <2>1 DEF Bijection, Injection, Surjection
<1>6. IsFiniteSet(0 .. m - 1) /\ Cardinality(0 .. m - 1) = m
  BY <1>1, FS_Interval
<1>. QED
  BY <1>5, <1>6, FS_Bijection DEF ExistsBijection

\* The network hash is made of the table in the order of the Ids, whatever the
\* order in which its data came: equal tables have equal network hashes.
THEOREM HashOfTableHolds == Spec => []HashOfTable
<1>1. ASSUME IInv PROVE HashOfTable
  <2>. DEFINE known == Known(Stored)
              Below(i) == {j \in known : j < i}
              Nth(k) == CHOOSE i \in known : Cardinality(Below(i)) = k
  <2>1. /\ nbdata \in Nat
        /\ \A k \in 0 .. nbdata - 1 : content[k].id \in Nat
    BY <1>1, RecordFacts DEF IInv, TypeOK
  <2>2. known = {content[l].id : l \in 0 .. nbdata - 1}
    <3>1. \A i \in Node : Stored[i] # None <=> At(i) # {}
      BY <1>1, StoredType
    <3>2. known = {i \in Node : At(i) # {}}
      BY <1>1, <3>1, StoredType DEF Known
    <3>3. \A l \in 0 .. nbdata - 1 : content[l].id \in Node
      BY <1>1, RecordFacts
    <3>. QED
      BY <3>2, <3>3 DEF At
  <2>3. Cardinality(known) = nbdata
    <3>1. nbdata \in 0 .. nbdata
      BY <2>1
    <3>. QED
      BY <1>1, <2>2, <3>1, IdsOfPlaces
  <2>4. ASSUME NEW k \in 0 .. nbdata - 1
        PROVE  Cardinality(Below(content[k].id)) = k
    <3>1. \A l \in 0 .. nbdata - 1 : content[l].id < content[k].id <=> l < k
      BY <1>1, <2>1 DEF IInv, Sorted
    <3>2. Below(content[k].id) = {content[l].id : l \in 0 .. k - 1}
      <4>1. \A l : l \in 0 .. k - 1 <=> l \in 0 .. nbdata - 1 /\ l < k
        BY <2>1
      <4>. QED
        BY <2>2, <3>1, <4>1
    <3>3. k \in 0 .. nbdata
      BY <2>1
    <3>. QED
      BY <1>1, <3>2, <3>3, IdsOfPlaces
  <2>5. ASSUME NEW k \in 0 .. nbdata - 1
        PROVE  Nth(k) = content[k].id
    <3>1. content[k].id \in known
      BY <2>2
    <3>2. ASSUME NEW i \in known, Cardinality(Below(i)) = k
          PROVE  i = content[k].id
      <4>1. PICK l \in 0 .. nbdata - 1 : i = content[l].id
        BY <2>2
      <4>. QED
        BY <2>4, <3>2, <4>1
    <3>. QED
      BY <2>4, <3>1, <3>2
  <2>6. /\ DOMAIN network_hash = 0 .. nbdata - 1
        /\ network_hash = [k \in 0 .. nbdata - 1 |-> network_hash[k]]
        /\ \A k \in 0 .. nbdata - 1 :
             network_hash[k]
               = <<content[k].id, content[k].seqno, content[k].text>>
    BY <1>1 DEF IInv, HashesFresh, hashNetwork, hash
  <2>7. ASSUME NEW k \in 0 .. nbdata - 1
        PROVE  network_hash[k]
                 = <<Nth(k), Stored[Nth(k)].seqno, Stored[Nth(k)].text>>
    <3>1. Stored[content[k].id]
            = [seqno |-> content[k].seqno, text |-> content[k].text]
      BY <1>1, StoredFacts DEF StoredIs
    <3>. HIDE DEF Nth
    <3>. QED
      BY <2>5, <2>6, <3>1
  <2>8. network_hash =
          [k \in 0 .. Cardinality(known) - 1 |->
             <<Nth(k), Stored[Nth(k)].seqno, Stored[Nth(k)].text>>]
    <3>. HIDE DEF Nth, known
    <3>. QED
      BY <2>3, <2>6, <2>7
  <2>. QED
    BY <2>8 DEF HashOfTable
<1>. QED
  BY <1>1, SpecIInv, PTL
=============================================================================
