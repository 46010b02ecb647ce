------------------------------ MODULE Database ------------------------------
(***************************************************************************)
(* database.c: the array of records, kept sorted by Id, each with the hash *)
(* of its data, and the network hash computed from those hashes.  Both     *)
(* kinds of hash are cached, and it is the cached ones that the TLVs       *)
(* Network Hash and Node Hash carry.  Allocations are taken to succeed.    *)
(***************************************************************************)
EXTENDS Table

CONSTANT me       \* the Id of the node that has the data base

ASSUME IdAssumption == Node \subseteq Nat /\ me \in Node

VARIABLES
  nbdata,         \* nbdata: number of records
  content,        \* content: the array, 0 .. nbdata - 1
  network_hash    \* network_hash: cached

vars == <<nbdata, content, network_hash>>

HashNoText(id, seqno, text) == <<id, seqno, Empty>>
\* hash(dt): of the Id, the seqno and the content, and no other field.
hash(id, seqno, text) == <<id, seqno, text>>

Hash   == Node \X Seqno \X Content
Record == [id : Node, seqno : Seqno, text : Content, hash_data : Hash]

\* A record that initData made and updateData then changed.
Fresh(i, d) ==
  [id |-> i, seqno |-> d.seqno, text |-> d.text,
   hash_data |-> hash(i, d.seqno, d.text)]

SetSeqnoNoHash(r, s) == [r EXCEPT !.seqno = s]
\* updateData(r, s, NULL, -1): the hash follows if the seqno changes.
SetSeqno(r, s) ==
  IF r.seqno # s
    THEN [r EXCEPT !.seqno = s, !.hash_data = hash(r.id, s, r.text)]
    ELSE r

\* hashNetwork(base), of an array of n records
hashNetwork(base, n) == [k \in 0 .. n - 1 |-> base[k].hash_data]

\* The records of Id i: none or one.
At(i) == {k \in 0 .. nbdata - 1 : content[k].id = i}

AfterLast(i) == nbdata
\* after: where a record of Id i is inserted, before the first greater Id
After(i) ==
  CHOOSE p \in 0 .. nbdata :
    /\ \A k \in 0 .. p - 1 : ~ (content[k].id > i)
    /\ p < nbdata => content[p].id > i

-----------------------------------------------------------------------------
\* initDataBase(d) of the record initNode made
Init ==
  \E s \in Seqno \ {UNSET} :
    /\ nbdata = 1
    /\ content = [k \in {0} |-> Fresh(me, [seqno |-> s, text |-> Empty])]
    /\ network_hash = hashNetwork(content, 1)

KeepNetworkHash(base, n) == network_hash' = network_hash
\* Each change of the array ends with the network hash of the new array.
Rehash(base, n) == network_hash' = hashNetwork(base, n)

Store(k, r) ==
  /\ content' = [content EXCEPT ![k] = r]
  /\ UNCHANGED nbdata
  /\ Rehash(content', nbdata)

\* updateDataBase, our own Id at k: outbid d unless our seqno is newer
Outbid(k, d) ==
  IF Preceq(content[k].seqno, d.seqno)
    THEN Store(k, SetSeqno(content[k], Succ(d.seqno)))
    ELSE UNCHANGED vars

SupersedeAlways(k, i, d) == Store(k, Fresh(i, d))
\* updateDataBase, another Id at k: keep the record unless d is newer
Supersede(k, i, d) ==
  IF Preceq(d.seqno, content[k].seqno)
    THEN UNCHANGED vars
    ELSE Store(k, Fresh(i, d))

\* updateDataBase, an Id the array does not have
Insert(i, d) ==
  LET after == After(i) IN
  /\ content' = [k \in 0 .. nbdata |->
       IF k < after THEN content[k]
       ELSE IF k = after THEN Fresh(i, d)
       ELSE content[k - 1]]
  /\ nbdata' = nbdata + 1
  /\ Rehash(content', nbdata + 1)

\* updateDataBase(base, d, me)
updateDataBase(i, d) ==
  /\ UpdatesFresh(d)
  /\ \/ i = me /\ \E k \in At(i) : Outbid(k, d)
     \/ i # me /\ \E k \in At(i) : Supersede(k, i, d)
     \/ At(i) = {} /\ Insert(i, d)

\* updateMyData(db, d), d being fresh with seqno UNSET and text c: on a text
\* that differs, d takes the next seqno and the record's place
updateMyData(c) ==
  \E k \in At(me) :
    IF content[k].text # c
      THEN Store(k, SetSeqno(Fresh(me, [seqno |-> UNSET, text |-> c]),
                             Succ(content[k].seqno)))
      ELSE UNCHANGED vars

Next ==
  \/ \E i \in Node, d \in Data : updateDataBase(i, d)
  \/ \E c \in Content \ {Empty} : updateMyData(c)

Spec == Init /\ [][Next]_vars

-----------------------------------------------------------------------------
\* The type of the variables; there is always a record of our own.
TypeOK ==
  /\ nbdata \in Nat
  /\ content \in [0 .. nbdata - 1 -> Record]
  /\ network_hash \in [0 .. nbdata - 1 -> Hash]
  /\ At(me) # {}

\* The array is sorted by Id, without two records of one Id, whatever the
\* order in which the data arrived: hashNetwork depends on that order.
Sorted ==
  \A j \in 0 .. nbdata - 1, k \in 0 .. nbdata - 1 :
    j < k => content[j].id < content[k].id

\* The cached hashes are those of the present records, and the cached network
\* hash that of the present array: updateData and updateDataBase each keep one
\* of the two up to date.
HashesFresh ==
  /\ \A k \in 0 .. nbdata - 1 :
       content[k].hash_data
         = hash(content[k].id, content[k].seqno, content[k].text)
  /\ network_hash = hashNetwork(content, nbdata)

\* The table the array stands for.
Stored ==
  [i \in Node |->
     IF At(i) = {} THEN None
     ELSE LET k == CHOOSE j \in At(i) : TRUE
          IN  [seqno |-> content[k].seqno, text |-> content[k].text]]

\* The array does to the table it stands for what PublishedTable promises.
Table0 == INSTANCE PublishedTable WITH tab <- Stored
Implements == Table0!Spec

\* Two nodes find each other's tables equal by their network hashes, and each
\* had its data in an order of its own: the network hash is made of the Ids,
\* seqnos and texts of the table, in the order of the Ids, and of nothing else.
HashOfTable ==
  LET known   == Known(Stored)
      Below(i) == {j \in known : j < i}
      Nth(k)   == CHOOSE i \in known : Cardinality(Below(i)) = k
  IN network_hash =
       [k \in 0 .. Cardinality(known) - 1 |->
          <<Nth(k), Stored[Nth(k)].seqno, Stored[Nth(k)].text>>]
=============================================================================
