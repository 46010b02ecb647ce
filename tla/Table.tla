------------------------------- MODULE Table -------------------------------
(***************************************************************************)
(* The table of published data one node keeps (database.c), as a function  *)
(* from node Ids to the data known for them.  The operators here are what  *)
(* one call of database.c does to the table; the array that stores it, its *)
(* sorting and its cached hashes are the subject of Database.tla.          *)
(*                                                                         *)
(* SHA-256 is taken to be injective, so a hash is represented by what it   *)
(* is computed from.                                                       *)
(***************************************************************************)
EXTENDS Integers, FiniteSets

CONSTANTS
  Node,    \* the nodes; a node's Id and its socket address are the node
  Text,    \* what the user of a node may publish
  Empty,   \* the text of length 0 a node starts with
  None,    \* no data known for an Id
  HALF     \* half of the seqno space: 32768 in the code

ASSUME HALFAssumption == HALF \in Nat /\ HALF >= 2
ASSUME EmptyAssumption == Empty \notin Text

\* The uint16_t seqnos, and -1 stored in a uint16_t.
Seqno  == 0 .. 2 * HALF - 1
UNSET  == 2 * HALF - 1

\* "I see %04d data in this database", what a node run with -d publishes.
ISee(k) == <<"I see", k>>

\* 32 octets are not an empty text.
ASSUME ISeeAssumption ==
  \A S \in SUBSET Node : ISee(Cardinality(S)) # Empty

Content == Text \cup {Empty} \cup {ISee(Cardinality(S)) : S \in SUBSET Node}
Data    == [seqno : Seqno, text : Content]

ASSUME NoneAssumption == None \notin Data

DataTable == [Node -> Data \cup {None}]

SuccPlain(s) == s + 1
\* (seqno + 1) & 65535
Succ(s) == (s + 1) % (2 * HALF)

\* ((t - s) & 32768) == 0
Preceq(s, t) == (t - s) % (2 * HALF) < HALF

Known(tab) == {i \in DOMAIN tab : tab[i] # None}

BumpInstalls(tab, i, d) == [tab EXCEPT ![i] = [d EXCEPT !.seqno = Succ(@)]]
\* Somebody floods data under our own Id: outbid its seqno, keep our text.
Bump(tab, i, d) ==
  IF Preceq(tab[i].seqno, d.seqno)
    THEN [tab EXCEPT ![i].seqno = Succ(d.seqno)]
    ELSE tab

ReplaceSeqnoOnly(tab, i, d) ==
  IF tab[i] # None /\ Preceq(d.seqno, tab[i].seqno) THEN tab
  ELSE IF tab[i] # None THEN [tab EXCEPT ![i].seqno = d.seqno]
  ELSE [tab EXCEPT ![i] = d]
ReplaceAlways(tab, i, d) == [tab EXCEPT ![i] = d]
\* Data under another node's Id: keep ours unless the seqno is newer.
Replace(tab, i, d) ==
  IF tab[i] # None /\ Preceq(d.seqno, tab[i].seqno)
    THEN tab
    ELSE [tab EXCEPT ![i] = d]

\* updateDataBase(base, d, myid): the table after data d for Id i came in.
UpdateDataBase(tab, me, i, d) ==
  IF i = me /\ tab[i] # None THEN Bump(tab, i, d) ELSE Replace(tab, i, d)

UpdateMyDataSameSeqno(tab, me, c) == [tab EXCEPT ![me].text = c]
\* updateMyData(db, d): publish text c under the next seqno, unless it is
\* already what we publish.
UpdateMyData(tab, me, c) ==
  IF tab[me].text # c
    THEN [tab EXCEPT ![me] = [seqno |-> Succ(tab[me].seqno), text |-> c]]
    ELSE tab

(***************************************************************************)
(* What updateData returns on a record fresh from initData, whose seqno is *)
(* (uint16_t)-1 and whose content is empty: 0, and the hash_data left at   *)
(* zero, when it is given exactly that seqno and an empty content.         *)
(***************************************************************************)
UpdatesFresh(d) == d.seqno # UNSET \/ d.text # Empty

\* verify() on a TLV Node State whose sender computed its hash correctly:
\* the hash is recomputed with updateData on a fresh record.
Verify(d) == UpdatesFresh(d)

=============================================================================
