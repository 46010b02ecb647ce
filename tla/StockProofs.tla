---------------------------- MODULE StockProofs ----------------------------
(***************************************************************************)
(* For any number of clients, children, files and dumps: no child writes   *)
(* to the file a client reads, and a client removes only what it has read. *)
(***************************************************************************)
EXTENDS Stock, SequenceTheorems, TLAPS

\* Only one client is past bind.
PortHeld == \A r \in Reader : reader[r].at # "start" => port = r

\* A client has no file open but DATA_FILE, which keeps its name until the client
\* itself removes it.
FilesHeld ==
  \A r \in Reader :
    /\ reader[r].fd # None => reader[r].fd = data_file
    /\ reader[r].f # None => reader[r].f = data_file

\* Who writes or reads has the lock.
LocksHeld ==
  /\ \A c \in Child : child[c].at = "writing" => lock[child[c].fd] = c
  /\ \A r \in Reader : reader[r].at = "reading" => lock[reader[r].fd] = r

ChildRecord ==
  [at : {"none", "forked", "opened", "writing"}, fd : Inode \cup {None},
   db : 1 .. Len(Dump), pos : Nat]
ReaderRecord ==
  [at : {"start", "bound", "waiting", "answered", "opened", "locking",
         "reading", "unlocked", "removed"},
   fd : Inode \cup {None}, f : Inode \cup {None}, out : Contents]

ChildOK(c) ==
  /\ child[c] \in ChildRecord
  /\ child[c].fd # None <=> child[c].at \in {"opened", "writing"}
ReaderOK(r) ==
  /\ reader[r] \in ReaderRecord
  /\ reader[r].fd # None <=>
       reader[r].at \in {"opened", "locking", "reading", "unlocked"}
  /\ reader[r].f # None <=> reader[r].at \in {"locking", "reading", "unlocked"}

ChildrenOK ==
  /\ child = [c \in Child |-> child[c]]
  /\ \A c \in Child : ChildOK(c)
ReadersOK ==
  /\ reader = [r \in Reader |-> reader[r]]
  /\ \A r \in Reader : ReaderOK(r)
NodeOK == table \in 1 .. Len(Dump) /\ asked \in Nat
PortOK == port \in Reader \cup Changer \cup {None} /\ ready \in BOOLEAN
FilesOK ==
  /\ data_file \in Inode \cup {None}
  /\ file \in [Inode -> Contents]
  /\ harm \in [Inode -> Harm]
LockOK == lock \in [Inode -> Reader \cup Child \cup {None}]

\* TypeOK, in parts.
Types == NodeOK /\ PortOK /\ FilesOK /\ LockOK /\ ChildrenOK /\ ReadersOK

IInv == Types /\ PortHeld /\ FilesHeld /\ LocksHeld

LEMMA TypeParts == TypeOK <=> Types
<1>1. TypeOK => NodeOK /\ PortOK /\ FilesOK /\ LockOK
  BY DEF TypeOK, NodeOK, PortOK, FilesOK, LockOK
<1>2. TypeOK => ChildrenOK
  BY DEF TypeOK, ChildrenOK, ChildOK, ChildRecord
<1>3. TypeOK => ReadersOK
  BY DEF TypeOK, ReadersOK, ReaderOK, ReaderRecord
<1>4. ChildrenOK => child \in [Child -> ChildRecord]
  BY DEF ChildrenOK, ChildOK
<1>5. ReadersOK => reader \in [Reader -> ReaderRecord]
  BY DEF ReadersOK, ReaderOK
<1>6. Types => TypeOK
  BY <1>4, <1>5
  DEF Types, TypeOK, NodeOK, PortOK, FilesOK, LockOK, ChildrenOK, ChildOK, ChildRecord,
      ReadersOK, ReaderOK, ReaderRecord
<1>. QED
  BY <1>1, <1>2, <1>3, <1>6 DEF Types

-----------------------------------------------------------------------------
(* What a step of one client, or of one child, must do to keep the         *)
(* invariant, whatever the others are at.                                  *)

ReaderMoved(r, x) ==
  /\ x \in ReaderRecord
  /\ x.fd # None <=> x.at \in {"opened", "locking", "reading", "unlocked"}
  /\ x.f # None <=> x.at \in {"locking", "reading", "unlocked"}
  /\ reader' = [reader EXCEPT ![r] = x]
  /\ child' = child
  /\ NodeOK' /\ PortOK' /\ FilesOK' /\ LockOK'
  /\ port \in {None, r}
  /\ x.at # "start" => port' = r
  /\ x.fd # None => x.fd = data_file'
  /\ x.f # None => x.f = data_file'
  /\ \A n \in Inode : lock'[n] = lock[n] \/ lock[n] \in {None, r}
  /\ x.at = "reading" => lock'[x.fd] = r

ChildMoved(c, x) ==
  /\ x \in ChildRecord
  /\ x.fd # None <=> x.at \in {"opened", "writing"}
  /\ child' = [child EXCEPT ![c] = x]
  /\ reader' = reader
  /\ NodeOK' /\ PortOK' /\ FilesOK' /\ LockOK'
  /\ port' = port
  /\ data_file' = data_file \/ data_file = None
  /\ \A n \in Inode : lock'[n] = lock[n] \/ lock[n] \in {None, c}
  /\ x.at = "writing" => lock'[x.fd] = c

LEMMA ReaderMovedKeeps ==
  ASSUME IInv, NEW r \in Reader, NEW x, ReaderMoved(r, x)
  PROVE  IInv'
<1>. USE DEF IInv, Types
<1>1. /\ reader'[r] = x
      /\ \A q \in Reader \ {r} : reader'[q] = reader[q]
  BY DEF ReaderMoved, ReadersOK
<1>2. ReadersOK'
  <2>1. reader' = [q \in Reader |-> reader'[q]]
    BY DEF ReaderMoved, ReadersOK
  <2>2. \A q \in Reader : ReaderOK(q)'
    BY <1>1 DEF ReaderMoved, ReadersOK, ReaderOK
  <2>. QED
    BY <2>1, <2>2 DEF ReadersOK
<1>3. ChildrenOK'
  BY DEF ReaderMoved, ChildrenOK, ChildOK
<1>4. Types'
  BY <1>2, <1>3 DEF ReaderMoved
\* The port tells that the other clients have nothing open.
<1>5. \A q \in Reader \ {r} : /\ reader[q].at = "start"
                              /\ reader[q].fd = None /\ reader[q].f = None
  BY NoneAssumption DEF ReaderMoved, PortHeld, ReadersOK, ReaderOK
<1>6. PortHeld'
  BY <1>1, <1>5 DEF ReaderMoved, PortHeld
<1>7. FilesHeld'
  BY <1>1, <1>5 DEF ReaderMoved, FilesHeld
<1>8. LocksHeld'
  <2>1. ASSUME NEW c \in Child, child'[c].at = "writing"
        PROVE  lock'[child'[c].fd] = c
    <3>1. child[c].fd \in Inode /\ lock[child[c].fd] = c
      BY <2>1 DEF ReaderMoved, LocksHeld, ChildrenOK, ChildOK, ChildRecord
    <3>2. c # None /\ c # r
      BY NoneAssumption, ProcessAssumption
    <3>. QED
      BY <3>1, <3>2 DEF ReaderMoved
  <2>2. ASSUME NEW q \in Reader, reader'[q].at = "reading"
        PROVE  lock'[reader'[q].fd] = q
    BY <1>1, <1>5, <2>2 DEF ReaderMoved
  <2>. QED
    BY <2>1, <2>2 DEF LocksHeld
<1>. QED
  BY <1>4, <1>6, <1>7, <1>8

LEMMA ChildMovedKeeps ==
  ASSUME IInv, NEW c \in Child, NEW x, ChildMoved(c, x)
  PROVE  IInv'
<1>. USE DEF IInv, Types
<1>1. /\ child'[c] = x
      /\ \A q \in Child \ {c} : child'[q] = child[q]
  BY DEF ChildMoved, ChildrenOK
<1>2. ChildrenOK'
  <2>1. child' = [q \in Child |-> child'[q]]
    BY DEF ChildMoved, ChildrenOK
  <2>2. \A q \in Child : ChildOK(q)'
    BY <1>1 DEF ChildMoved, ChildrenOK, ChildOK
  <2>. QED
    BY <2>1, <2>2 DEF ChildrenOK
<1>3. ReadersOK'
  BY DEF ChildMoved, ReadersOK, ReaderOK
<1>4. Types'
  BY <1>2, <1>3 DEF ChildMoved
<1>6. PortHeld'
  BY DEF ChildMoved, PortHeld
\* A child gives DATA_FILE another inode only if it has none.
<1>7. FilesHeld'
  <2>1. ASSUME NEW r \in Reader
        PROVE  /\ reader'[r].fd # None => reader'[r].fd = data_file'
               /\ reader'[r].f # None => reader'[r].f = data_file'
    BY DEF ChildMoved, FilesHeld
  <2>. QED
    BY <2>1 DEF FilesHeld
<1>8. LocksHeld'
  <2>1. ASSUME NEW q \in Child, child'[q].at = "writing"
        PROVE  lock'[child'[q].fd] = q
    <3>1. CASE q = c
      BY <1>1, <2>1, <3>1 DEF ChildMoved
    <3>2. CASE q # c
      <4>1. /\ child'[q] = child[q]
            /\ child[q].fd \in Inode /\ lock[child[q].fd] = q
        BY <1>1, <2>1, <3>2 DEF LocksHeld, ChildrenOK, ChildOK, ChildRecord
      <4>2. q # None
        BY NoneAssumption
      <4>. QED
        BY <3>2, <4>1, <4>2 DEF ChildMoved
    <3>. QED
      BY <3>1, <3>2
  <2>2. ASSUME NEW r \in Reader, reader'[r].at = "reading"
        PROVE  lock'[reader'[r].fd] = r
    <3>1. /\ reader' = reader
          /\ reader[r].fd \in Inode /\ lock[reader[r].fd] = r
      BY <2>2 DEF ChildMoved, LocksHeld, ReadersOK, ReaderOK, ReaderRecord
    <3>2. r # None /\ r # c
      BY NoneAssumption, ProcessAssumption
    <3>. QED
      BY <3>1, <3>2 DEF ChildMoved
  <2>. QED
    BY <2>1, <2>2 DEF LocksHeld
<1>. QED
  BY <1>4, <1>6, <1>7, <1>8

-----------------------------------------------------------------------------
(* The helpers of the actions.                                             *)

LEMMA ReclaimTypes ==
  ASSUME FilesOK, NEW S, Reclaim(S), data_file' \in Inode \cup {None}
  PROVE  FilesOK'
<1>1. <<>> \in Contents
  BY EmptySeq DEF Contents
<1>. QED
  BY <1>1 DEF FilesOK, Reclaim, Harm

\* A process that ends loses its locks, and no other loses one.
LEMMA ReleaseFacts ==
  ASSUME LockOK, NEW p, Release(p)
  PROVE  /\ LockOK'
         /\ \A n \in Inode : lock'[n] = lock[n] \/ lock[n] \in {None, p}
BY DEF LockOK, Release

LEMMA OverwriteTypes ==
  ASSUME NEW s \in Contents, NEW p \in Nat \ {0}, NEW x \in Piece
  PROVE  Overwrite(s, p, x) \in Contents
<1>. DEFINE n == IF p > Len(s) THEN p ELSE Len(s)
            E == Piece \cup {Hole}
<1>1. Len(s) \in Nat /\ s \in [1 .. Len(s) -> E]
  BY LenProperties DEF Contents
<1>2. n \in Nat
  BY <1>1
<1>3. Overwrite(s, p, x) \in [1 .. n -> E]
  BY <1>1 DEF Overwrite
<1>4. [1 .. n -> E] \subseteq Seq(E)
  BY <1>2
<1>. QED
  BY <1>3, <1>4 DEF Contents

\* A client that is past bind has the port.
LEMMA HasPort ==
  ASSUME IInv, NEW r \in Reader, reader[r].at # "start"
  PROVE  /\ port = r
         /\ reader[r] \in ReaderRecord
         /\ reader[r].fd # None <=>
              reader[r].at \in {"opened", "locking", "reading", "unlocked"}
         /\ reader[r].f # None <=> reader[r].at \in {"locking", "reading", "unlocked"}
         /\ reader[r].fd # None => reader[r].fd = data_file
         /\ reader[r].f # None => reader[r].f = data_file
BY DEF IInv, PortHeld, FilesHeld, Types, ReadersOK, ReaderOK

\* exit, wherever the client is.
LEMMA ExitKeeps ==
  ASSUME IInv, NEW r \in Reader, port = r, Exit(r),
         UNCHANGED <<table, child, file, harm>>
  PROVE  IInv'
<1>1. NoReader \in ReaderRecord
  BY EmptySeq DEF NoReader, ReaderRecord, Contents
<1>2. /\ LockOK'
      /\ \A n \in Inode : lock'[n] = lock[n] \/ lock[n] \in {None, r}
  BY ReleaseFacts DEF IInv, Types, Exit
<1>3. ReaderMoved(r, NoReader)
  BY <1>1, <1>2
  DEF ReaderMoved, NoReader, Exit, IInv, Types, NodeOK, PortOK, FilesOK
<1>. QED
  BY <1>3, ReaderMovedKeeps

-----------------------------------------------------------------------------
(* The client.                                                             *)

LEMMA BindKeeps ==
  ASSUME IInv, NEW r \in Reader, Bind(r)
  PROVE  IInv'
<1>. DEFINE x == [reader[r] EXCEPT !.at = "bound"]
<1>1. /\ reader[r] \in ReaderRecord
      /\ reader[r].fd = None /\ reader[r].f = None
  BY DEF Bind, ReaderMoves, IInv, Types, ReadersOK, ReaderOK
<1>2. ReaderMoved(r, x)
  BY <1>1
  DEF Bind, ReaderMoves, Goes, ReaderMoved, ReaderRecord, IInv, Types, NodeOK,
      PortOK, FilesOK, LockOK
<1>. QED
  BY <1>2, ReaderMovedKeeps

LEMMA AskKeeps ==
  ASSUME IInv, NEW r \in Reader, Ask(r)
  PROVE  IInv'
<1>1. ReaderMoved(r, [reader[r] EXCEPT !.at = "waiting"])
  BY HasPort
  DEF Ask, ReaderMoves, Goes, ReaderMoved, ReaderRecord, IInv, Types, NodeOK,
      PortOK, FilesOK, LockOK
<1>. QED
  BY <1>1, ReaderMovedKeeps

LEMMA WaitKeeps ==
  ASSUME IInv, NEW r \in Reader, Wait(r)
  PROVE  IInv'
<1>1. CASE ready
  <2>1. ReaderMoved(r, [reader[r] EXCEPT !.at = "answered"])
    BY <1>1, HasPort
    DEF Wait, ReaderMoves, Goes, ReaderMoved, ReaderRecord, IInv, Types, NodeOK,
        PortOK, FilesOK, LockOK
  <2>. QED
    BY <2>1, ReaderMovedKeeps
<1>2. CASE ~ ready
  BY <1>2, HasPort, ExitKeeps DEF Wait, ReaderMoves
<1>. QED
  BY <1>1, <1>2

LEMMA OpenKeeps ==
  ASSUME IInv, NEW r \in Reader, Open(r)
  PROVE  IInv'
<1>1. CASE data_file = None
  BY <1>1, HasPort, ExitKeeps DEF Open, ReaderMoves
<1>2. CASE data_file # None
  <2>1. data_file \in Inode
    BY <1>2 DEF IInv, Types, FilesOK
  <2>. DEFINE x == [reader[r] EXCEPT !.at = "opened", !.fd = data_file]
  <2>2. /\ reader[r].at = "answered"
        /\ port = r
        /\ reader[r] \in ReaderRecord
        /\ reader[r].f = None
    BY HasPort DEF Open, ReaderMoves
  <2>3. /\ x \in ReaderRecord
        /\ x.at = "opened" /\ x.fd = data_file /\ x.f = None
    BY <2>1, <2>2 DEF ReaderRecord
  <2>4. /\ reader' = [reader EXCEPT ![r] = x]
        /\ UNCHANGED <<table, child, file, harm, asked, port, ready, data_file, lock>>
    BY <1>2 DEF Open, ReaderMoves
  <2>5. NodeOK' /\ PortOK' /\ FilesOK' /\ LockOK'
    BY <2>4 DEF IInv, Types, NodeOK, PortOK, FilesOK, LockOK
  <2>. HIDE DEF x
  <2>6. ReaderMoved(r, x)
    BY <1>2, <2>2, <2>3, <2>4, <2>5 DEF ReaderMoved
  <2>. QED
    BY <2>6, ReaderMovedKeeps
<1>. QED
  BY <1>1, <1>2

LEMMA FOpenKeeps ==
  ASSUME IInv, NEW r \in Reader, FOpen(r)
  PROVE  IInv'
<1>1. CASE data_file = None
  BY <1>1, HasPort, ExitKeeps DEF FOpen, ReaderMoves
<1>2. CASE data_file # None
  <2>1. data_file \in Inode
    BY <1>2 DEF IInv, Types, FilesOK
  <2>2. ReaderMoved(r, [reader[r] EXCEPT !.at = "locking", !.f = data_file])
    BY <1>2, <2>1, HasPort
    DEF FOpen, ReaderMoves, ReaderMoved, ReaderRecord, IInv, Types, NodeOK,
        PortOK, FilesOK, LockOK
  <2>. QED
    BY <2>2, ReaderMovedKeeps
<1>. QED
  BY <1>1, <1>2

LEMMA LockKeeps ==
  ASSUME IInv, NEW r \in Reader, Lock(r)
  PROVE  IInv'
<1>1. /\ reader[r].fd \in Inode
      /\ lock[reader[r].fd] = None
  BY HasPort DEF Lock, ReaderMoves, ReaderRecord
<1>2. /\ LockOK'
      /\ lock'[reader[r].fd] = r
      /\ \A n \in Inode : lock'[n] = lock[n] \/ lock[n] \in {None, r}
  BY <1>1 DEF Lock, IInv, Types, LockOK
<1>3. ReaderMoved(r, [reader[r] EXCEPT !.at = "reading"])
  BY <1>1, <1>2, HasPort
  DEF Lock, ReaderMoves, Goes, ReaderMoved, ReaderRecord, IInv, Types, NodeOK,
      PortOK, FilesOK
<1>. QED
  BY <1>3, ReaderMovedKeeps

LEMMA ReadKeeps ==
  ASSUME IInv, NEW r \in Reader, Read(r)
  PROVE  IInv'
<1>. DEFINE n == Len(reader[r].out)
            s == file[reader[r].f]
            out == Append(reader[r].out, s[n + 1])
<1>1. /\ reader[r] \in ReaderRecord
      /\ reader[r].at = "reading"
      /\ reader[r].out \in Contents
      /\ reader[r].f \in Inode /\ reader[r].fd \in Inode
  BY HasPort DEF Read, ReaderMoves, ReaderRecord
<1>2. lock[reader[r].fd] = r
  BY <1>1 DEF IInv, LocksHeld
<1>3. s \in Contents
  BY <1>1 DEF IInv, Types, FilesOK
<1>4. n \in Nat /\ n + 1 \in 1 .. Len(s)
  BY <1>1, <1>3, LenProperties DEF Read, Contents
<1>5. s[n + 1] \in Piece \cup {Hole}
  BY <1>3, <1>4, ElementOfSeq DEF Contents
<1>6. out \in Contents
  BY <1>1, <1>5, AppendProperties DEF Contents
<1>7. reader' = [reader EXCEPT ![r] = [reader[r] EXCEPT !.out = out]]
  BY DEF Read
<1>. HIDE DEF n, s, out
<1>8. ReaderMoved(r, [reader[r] EXCEPT !.out = out])
  BY <1>1, <1>2, <1>6, <1>7, HasPort
  DEF Read, ReaderMoves, ReaderMoved, ReaderRecord, IInv, Types, NodeOK,
      PortOK, FilesOK, LockOK
<1>. QED
  BY <1>8, ReaderMovedKeeps

LEMMA UnlockKeeps ==
  ASSUME IInv, NEW r \in Reader, Unlock(r)
  PROVE  IInv'
<1>1. /\ LockOK'
      /\ \A n \in Inode : lock'[n] = lock[n] \/ lock[n] \in {None, r}
  BY ReleaseFacts DEF Unlock, IInv, Types
<1>2. ReaderMoved(r, [reader[r] EXCEPT !.at = "unlocked"])
  BY <1>1, HasPort
  DEF Unlock, ReaderMoves, Goes, ReaderMoved, ReaderRecord, IInv, Types, NodeOK,
      PortOK, FilesOK
<1>. QED
  BY <1>2, ReaderMovedKeeps

LEMMA RemoveKeeps ==
  ASSUME IInv, NEW r \in Reader, Remove(r)
  PROVE  IInv'
<1>. DEFINE x == [NoReader EXCEPT !.at = "removed"]
<1>1. /\ x \in ReaderRecord
      /\ x.at = "removed" /\ x.fd = None /\ x.f = None
  BY EmptySeq DEF NoReader, ReaderRecord, Contents
<1>2. FilesOK'
  BY ReclaimTypes DEF Remove, IInv, Types
<1>3. reader' = [reader EXCEPT ![r] = x]
  BY DEF Remove
<1>. HIDE DEF x
<1>4. port = r
  BY HasPort DEF Remove
<1>5. NodeOK' /\ PortOK' /\ LockOK' /\ child' = child /\ port' = port /\ lock' = lock
  BY DEF Remove, IInv, Types, NodeOK, PortOK, LockOK
<1>6. ReaderMoved(r, x)
  BY <1>1, <1>2, <1>3, <1>4, <1>5 DEF ReaderMoved
<1>. QED
  BY <1>6, ReaderMovedKeeps

LEMMA CloseKeeps ==
  ASSUME IInv, NEW r \in Reader, Close(r) \/ KillReader(r)
  PROVE  IInv'
BY HasPort, ExitKeeps DEF Close, KillReader, ReaderMoves

LEMMA ReaderKeeps ==
  ASSUME IInv, NEW r \in Reader, Bind(r) \/ ReaderStep(r) \/ KillReader(r)
  PROVE  IInv'
BY BindKeeps, AskKeeps, WaitKeeps, OpenKeeps, FOpenKeeps, LockKeeps, ReadKeeps,
   UnlockKeeps, RemoveKeeps, CloseKeeps
DEF ReaderStep

-----------------------------------------------------------------------------
(* The child.                                                              *)

LEMMA ForkKeeps ==
  ASSUME IInv, ReceiveTLVStock
  PROVE  IInv'
<1>1. PICK c \in Child :
        /\ child[c].at = "none"
        /\ child' = [child EXCEPT ![c].at = "forked", ![c].db = table]
  BY DEF ReceiveTLVStock
<1>2. child[c] \in ChildRecord /\ child[c].fd = None
  BY <1>1 DEF IInv, Types, ChildrenOK, ChildOK
<1>. DEFINE x == [child[c] EXCEPT !.at = "forked", !.db = table]
<1>3. /\ x \in ChildRecord
      /\ x.at = "forked" /\ x.fd = None
      /\ child' = [child EXCEPT ![c] = x]
  BY <1>1, <1>2 DEF ChildRecord, IInv, Types, NodeOK
<1>4. PortOK'
  <2>1. ready' \in BOOLEAN
    BY DEF ReceiveTLVStock
  <2>. QED
    BY <2>1 DEF ReceiveTLVStock, IInv, Types, PortOK
<1>5. NodeOK' /\ FilesOK' /\ LockOK'
  BY DEF ReceiveTLVStock, IInv, Types, NodeOK, FilesOK, LockOK
<1>. HIDE DEF x
<1>6. ChildMoved(c, x)
  BY <1>3, <1>4, <1>5 DEF ReceiveTLVStock, ChildMoved
<1>. QED
  BY <1>6, ChildMovedKeeps

LEMMA ChildOpensKeeps ==
  ASSUME IInv, NEW c \in Child, ChildOpens(c)
  PROVE  IInv'
<1>1. PICK n \in Inode :
        /\ data_file # None => n = data_file
        /\ data_file' = n
        /\ file' = [file EXCEPT ![n] = <<>>]
        /\ child' = [child EXCEPT ![c].at = "opened", ![c].fd = n, ![c].pos = 0]
        /\ harm' = [harm EXCEPT ![n] = Truncated(n)]
  BY DEF ChildOpens
<1>2. child[c] \in ChildRecord
  BY DEF IInv, Types, ChildrenOK, ChildOK
<1>3. <<>> \in Contents
  BY EmptySeq DEF Contents
<1>4. FilesOK'
  <2>1. Truncated(n) \in Harm
    BY DEF Truncated, Harm
  <2>. QED
    BY <1>1, <1>3, <2>1 DEF IInv, Types, FilesOK
<1>5. n # None
  BY NoneAssumption
<1>. DEFINE x == [child[c] EXCEPT !.at = "opened", !.fd = n, !.pos = 0]
<1>6. /\ x \in ChildRecord
      /\ x.at = "opened" /\ x.fd # None
      /\ child' = [child EXCEPT ![c] = x]
  BY <1>1, <1>2, <1>5 DEF ChildRecord
<1>7. NodeOK' /\ PortOK' /\ LockOK'
  BY DEF ChildOpens, ChildMoves, IInv, Types, NodeOK, PortOK, LockOK
<1>. HIDE DEF x
<1>8. ChildMoved(c, x)
  BY <1>1, <1>4, <1>6, <1>7 DEF ChildOpens, ChildMoves, ChildMoved
<1>. QED
  BY <1>8, ChildMovedKeeps

\* Of a child that has the file open.
LEMMA ChildHas ==
  ASSUME IInv, NEW c \in Child, child[c].at \in {"opened", "writing"}
  PROVE  /\ child[c] \in ChildRecord
         /\ child[c].fd \in Inode /\ child[c].fd # None
         /\ child[c].pos \in Nat
         /\ child[c].db \in 1 .. Len(Dump)
         /\ child[c].at = "writing" => lock[child[c].fd] = c
BY DEF IInv, Types, ChildrenOK, ChildOK, ChildRecord, LocksHeld

LEMMA ChildLocksKeeps ==
  ASSUME IInv, NEW c \in Child, ChildLocks(c)
  PROVE  IInv'
<1>1. child[c].at \in {"opened", "writing"}
  BY DEF ChildLocks, ChildMoves
<1>2. /\ LockOK'
      /\ lock'[child[c].fd] = c
      /\ \A n \in Inode : lock'[n] = lock[n] \/ lock[n] \in {None, c}
  BY <1>1, ChildHas DEF ChildLocks, IInv, Types, LockOK
<1>3. ChildMoved(c, [child[c] EXCEPT !.at = "writing"])
  BY <1>1, <1>2, ChildHas
  DEF ChildLocks, ChildMoves, ChildMoved, ChildRecord, IInv, Types, NodeOK,
      PortOK, FilesOK
<1>. QED
  BY <1>3, ChildMovedKeeps

LEMMA ChildWritesKeeps ==
  ASSUME IInv, NEW c \in Child, ChildWrites(c)
  PROVE  IInv'
<1>. DEFINE p == child[c].pos + 1
            n == child[c].fd
            d == Dump[child[c].db]
            s == Overwrite(file[n], p, d[p])
<1>1. /\ child[c].at = "writing"
      /\ p <= Len(d)
      /\ file' = [file EXCEPT ![n] = s]
      /\ child' = [child EXCEPT ![c].pos = p]
      /\ UNCHANGED <<data_file, lock, harm, table, asked, port, ready, reader>>
  BY DEF ChildWrites, ChildMoves
<1>2. /\ child[c] \in ChildRecord
      /\ n \in Inode /\ n # None
      /\ p \in Nat \ {0}
      /\ child[c].db \in 1 .. Len(Dump)
      /\ lock[n] = c
  BY <1>1, ChildHas
<1>3. d[p] \in Piece
  <2>1. p \in 1 .. Len(d)
    BY <1>1, <1>2, DumpAssumption
  <2>. QED
    BY <1>2, <2>1 DEF Piece
<1>4. s \in Contents
  BY <1>2, <1>3, OverwriteTypes DEF IInv, Types, FilesOK
<1>. HIDE DEF p, s
<1>5. FilesOK'
  BY <1>1, <1>2, <1>4 DEF IInv, Types, FilesOK
<1>6. ChildMoved(c, [child[c] EXCEPT !.pos = p])
  BY <1>1, <1>2, <1>5
  DEF ChildMoved, ChildRecord, IInv, Types, NodeOK, PortOK, LockOK
<1>. QED
  BY <1>6, ChildMovedKeeps

\* The child ends, or is killed.
LEMMA ChildGoneKeeps ==
  ASSUME IInv, NEW c \in Child, ChildEnds(c) \/ KillChild(c)
  PROVE  IInv'
<1>1. NoChild \in ChildRecord
  BY DumpAssumption DEF NoChild, ChildRecord
<1>2. /\ LockOK'
      /\ \A n \in Inode : lock'[n] = lock[n] \/ lock[n] \in {None, c}
  BY ReleaseFacts DEF ChildEnds, KillChild, IInv, Types
<1>3. FilesOK'
  BY ReclaimTypes
  DEF ChildEnds, ChildMoves, KillChild, IInv, Types, FilesOK
<1>4. ChildMoved(c, NoChild)
  BY <1>1, <1>2, <1>3
  DEF ChildEnds, ChildMoves, KillChild, ChildMoved, NoChild, IInv, Types, NodeOK,
      PortOK
<1>. QED
  BY <1>4, ChildMovedKeeps

LEMMA ChildKeeps ==
  ASSUME IInv, NEW c \in Child, ChildStep(c) \/ KillChild(c)
  PROVE  IInv'
BY ChildOpensKeeps, ChildLocksKeeps, ChildWritesKeeps, ChildGoneKeeps
DEF ChildStep

-----------------------------------------------------------------------------
(* The invariant and the theorems.                                         *)

LEMMA InitIInv == Init => IInv
<1>. SUFFICES ASSUME Init PROVE IInv
  OBVIOUS
<1>. USE DEF Init
<1>1. <<>> \in Contents
  BY EmptySeq DEF Contents
<1>2. NodeOK /\ PortOK /\ FilesOK /\ LockOK
  <2>1. NodeOK
    BY DumpAssumption DEF NodeOK
  <2>2. PortOK
    BY DEF PortOK
  <2>3. FilesOK
    BY <1>1 DEF FilesOK, Harm
  <2>4. LockOK
    BY DEF LockOK
  <2>. QED
    BY <2>1, <2>2, <2>3, <2>4
<1>3. ChildrenOK
  BY DumpAssumption DEF ChildrenOK, ChildOK, ChildRecord, NoChild
<1>4. ReadersOK
  BY <1>1 DEF ReadersOK, ReaderOK, ReaderRecord, NoReader
<1>5. PortHeld /\ FilesHeld /\ LocksHeld
  BY DEF PortHeld, FilesHeld, LocksHeld, NoReader, NoChild
<1>. QED
  BY <1>2, <1>3, <1>4, <1>5 DEF IInv, Types

\* The other clients are past bind only while no dazibao_read is.
LEMMA OtherClientKeeps ==
  ASSUME IInv, NEW k \in Changer, OtherClient(k)
  PROVE  IInv'
<1>1. \A r \in Reader : reader[r].at = "start"
  BY NoneAssumption, ProcessAssumption DEF OtherClient, IInv, PortHeld
<1>2. PortOK' /\ PortHeld'
  BY <1>1 DEF OtherClient, IInv, Types, PortOK, PortHeld
<1>. QED
  BY <1>2
  DEF OtherClient, IInv, Types, NodeOK, FilesOK, LockOK, ChildrenOK, ChildOK,
      ReadersOK, ReaderOK, FilesHeld, LocksHeld

LEMMA NextKeepsIInv == IInv /\ [Next]_vars => IInv'
<1>. SUFFICES ASSUME IInv, [Next]_vars PROVE IInv'
  OBVIOUS
<1>1. CASE TableChanges
  BY <1>1
  DEF TableChanges, IInv, Types, NodeOK, PortOK, FilesOK, LockOK, ChildrenOK,
      ChildOK, ReadersOK, ReaderOK, PortHeld, FilesHeld, LocksHeld
<1>2. CASE ReceiveTLVStock
  BY <1>2, ForkKeeps
<1>3. CASE \E c \in Child : ChildStep(c) \/ KillChild(c)
  BY <1>3, ChildKeeps
<1>4. CASE \E r \in Reader : Bind(r) \/ ReaderStep(r) \/ KillReader(r)
  BY <1>4, ReaderKeeps
<1>5. CASE \E k \in Changer : OtherClient(k)
  BY <1>5, OtherClientKeeps
<1>6. CASE UNCHANGED vars
  BY <1>6
  DEF vars, IInv, Types, NodeOK, PortOK, FilesOK, LockOK, ChildrenOK, ChildOK,
      ReadersOK, ReaderOK, PortHeld, FilesHeld, LocksHeld
<1>. QED
  BY <1>1, <1>2, <1>3, <1>4, <1>5, <1>6 DEF Next

\* The invariant, for any number of processes.
THEOREM StockInvariant == Spec => []IInv
<1>. QED
  BY InitIInv, NextKeepsIInv, PTL DEF Spec

\* A process has a file open from open to close and at no other time.
THEOREM StockTypeCorrect == Spec => []TypeOK
<1>1. IInv => TypeOK
  BY TypeParts DEF IInv
<1>. QED
  BY <1>1, StockInvariant, PTL

LEMMA IInvReadsLocked == IInv => ReadsLocked
<1>1. SUFFICES ASSUME IInv, NEW r \in Reader, reader[r].at = "reading",
                      NEW c \in Child, child[c].at = "writing",
                      child[c].fd = reader[r].f
               PROVE  FALSE
  BY DEF ReadsLocked
<1>2. reader[r].fd = reader[r].f
  BY <1>1, HasPort
<1>3. lock[reader[r].fd] = r /\ lock[child[c].fd] = c
  BY <1>1 DEF IInv, LocksHeld
<1>. QED
  BY <1>1, <1>2, <1>3, ProcessAssumption

\* No child writes to the file a client reads.
THEOREM ReadsLockedHolds == Spec => []ReadsLocked
<1>. QED
  BY IInvReadsLocked, StockInvariant, PTL

\* A client removes the file it has read.
THEOREM RemovesWhatItReadHolds == Spec => RemovesWhatItRead
<1>. DEFINE Removes == data_file # None /\ data_file' = None =>
       \E r \in Reader : reader[r].at = "unlocked" /\ reader[r].f = data_file
<1>1. ASSUME IInv, [Next]_vars
      PROVE  Removes
  <2>1. SUFFICES ASSUME data_file # None, data_file' = None
                 PROVE  \E r \in Reader : reader[r].at = "unlocked" /\ reader[r].f = data_file
    OBVIOUS
  <2>2. PICK r \in Reader : Remove(r)
    <3>1. \A c \in Child : ~ ChildOpens(c)
      BY <2>1, NoneAssumption DEF ChildOpens
    <3>. QED
      BY <1>1, <2>1, <3>1
      DEF Next, vars, TableChanges, ReceiveTLVStock, ChildStep, ChildLocks,
          ChildWrites, ChildEnds, KillChild, Bind, ReaderStep, Ask, Wait, Open,
          FOpen, Lock, Read, Unlock, Close, KillReader, Exit, OtherClient
  <2>3. reader[r].at = "unlocked" /\ reader[r].f = data_file
    BY <1>1, <2>2, HasPort DEF Remove
  <2>. QED
    BY <2>3
<1>2. Removes => [Removes]_vars
  OBVIOUS
<1>. QED
  BY <1>1, StockInvariant, PTL DEF Spec, RemovesWhatItRead

-----------------------------------------------------------------------------
(* What is in a file that two children did not have open at once, and what *)
(* a client has read of it.                                                *)

Whole(s) == s = <<>> \/ \E v \in 1 .. Len(Dump) : s = Dump[v]
Part(s) == \E v \in 1 .. Len(Dump) : Begins(s, Dump[v])

\* What the child has written so far.
Written(c) ==
  /\ child[c].pos = Len(file[child[c].fd])
  /\ Begins(file[child[c].fd], Dump[child[c].db])

Closed(i) == \A c \in Child : child[c].fd # i

\* One child at most writes to it, from its beginning.
FileSound(i) ==
  /\ harm[i] # "mixed" =>
       /\ \A c, d \in Child : child[c].fd = i /\ child[d].fd = i => c = d
       /\ \A c \in Child : child[c].fd = i => Written(c)
       /\ Closed(i) => Part(file[i])
  /\ harm[i] = "none" /\ Closed(i) => Whole(file[i])

\* What was read of a file that was then emptied is the beginning of a dump that
\* is nowhere any more.
ReadSoFar(r) ==
  LET i == reader[r].f IN
  /\ harm[i] # "mixed" =>
       \/ Begins(reader[r].out, file[i])
       \/ file[i] = <<>> /\ Part(reader[r].out)
  /\ harm[i] = "none" => Begins(reader[r].out, file[i])

ReadAll(r) ==
  LET i == reader[r].f IN
  /\ harm[i] # "mixed" => Part(reader[r].out)
  /\ harm[i] = "none" => Whole(reader[r].out)

ReaderSound(r) ==
  /\ reader[r].at \notin {"reading", "unlocked"} => reader[r].out = <<>>
  /\ reader[r].at = "reading" => ReadSoFar(r)
  /\ reader[r].at = "unlocked" => ReadAll(r)

Fresh == \A c \in Child : child[c].at = "opened" => child[c].pos = 0

Sound ==
  /\ \A i \in Inode : FileSound(i)
  /\ \A r \in Reader : ReaderSound(r)
  /\ Fresh

\* What has a file open, or reads it, is of the right type.
LEMMA ReaderTypes ==
  ASSUME IInv, NEW r \in Reader
  PROVE  /\ reader[r] \in ReaderRecord
         /\ reader[r].out \in Contents
         /\ reader[r].at \in {"locking", "reading", "unlocked"} => reader[r].f \in Inode
BY DEF IInv, Types, ReadersOK, ReaderOK, ReaderRecord

LEMMA ChildTypes ==
  ASSUME IInv, NEW c \in Child
  PROVE  /\ child[c] \in ChildRecord
         /\ child[c].fd # None => child[c].at \in {"opened", "writing"}
         /\ child[c].db \in 1 .. Len(Dump)
         /\ child[c].pos \in Nat
BY DEF IInv, Types, ChildrenOK, ChildOK, ChildRecord

LEMMA ContentsFacts ==
  ASSUME NEW s \in Contents
  PROVE  /\ Len(s) \in Nat
         /\ s = [k \in 1 .. Len(s) |-> s[k]]
         /\ Len(s) = 0 => s = <<>>
<1>1. /\ Len(s) \in Nat
      /\ s \in [1 .. Len(s) -> Piece \cup {Hole}]
      /\ s # <<>> => Len(s) \in Nat \ {0}
  BY LenProperties, EmptySeq DEF Contents
<1>. QED
  BY <1>1

\* A step of one client that writes to no file.
LEMMA ReaderKeepsSound ==
  ASSUME IInv, Sound, NEW r \in Reader, NEW x,
         reader' = [reader EXCEPT ![r] = x],
         UNCHANGED <<child, file, harm>>,
         ReaderSound(r)'
  PROVE  Sound'
<1>1. \A i \in Inode : FileSound(i)'
  BY DEF Sound, FileSound, Written, Closed
<1>2. \A q \in Reader : ReaderSound(q)'
  <2>. SUFFICES ASSUME NEW q \in Reader, q # r PROVE ReaderSound(q)'
    OBVIOUS
  <2>1. reader'[q] = reader[q]
    BY DEF IInv, Types, ReadersOK
  <2>. QED
    BY <2>1 DEF Sound, ReaderSound, ReadSoFar, ReadAll
<1>3. Fresh'
  BY DEF Sound, Fresh
<1>. QED
  BY <1>1, <1>2, <1>3 DEF Sound

LEMMA BeginsTransitive ==
  ASSUME NEW s, NEW t, NEW u, Begins(s, t), Begins(t, u),
         Len(s) \in Nat, Len(t) \in Nat, Len(u) \in Nat
  PROVE  Begins(s, u)
<1>1. /\ Len(s) <= Len(t) /\ Len(t) <= Len(u)
      /\ \A k \in 1 .. Len(s) : s[k] = t[k]
      /\ \A k \in 1 .. Len(t) : t[k] = u[k]
  BY DEF Begins
<1>2. \A k \in 1 .. Len(s) : k \in 1 .. Len(t)
  BY <1>1
<1>3. Len(s) <= Len(u)
  BY <1>1
<1>. QED
  BY <1>1, <1>2, <1>3 DEF Begins

LEMMA EmptyPart == Part(<<>>)
<1>1. 1 \in 1 .. Len(Dump) /\ Len(Dump[1]) \in Nat
  BY DumpAssumption
<1>2. Begins(<<>>, Dump[1])
  BY <1>1 DEF Begins
<1>. QED
  BY <1>1, <1>2 DEF Part

\* With a child or without, such a file is the beginning of a dump.
LEMMA FilePart ==
  ASSUME IInv, Sound, NEW i \in Inode, harm[i] # "mixed"
  PROVE  Part(file[i])
<1>1. CASE Closed(i)
  BY <1>1 DEF Sound, FileSound
<1>2. CASE ~ Closed(i)
  <2>1. PICK c \in Child : child[c].fd = i
    BY <1>2 DEF Closed
  <2>2. Begins(file[i], Dump[child[c].db]) /\ child[c].db \in 1 .. Len(Dump)
    BY <2>1, ChildTypes DEF Sound, FileSound, Written
  <2>. QED
    BY <2>2 DEF Part
<1>. QED
  BY <1>1, <1>2

\* So is what a client has read of it.
LEMMA OutPart ==
  ASSUME IInv, Sound, NEW r \in Reader, reader[r].at \in {"reading", "unlocked"},
         harm[reader[r].f] # "mixed"
  PROVE  Part(reader[r].out)
<1>1. /\ reader[r].f \in Inode /\ reader[r].out \in Contents
      /\ file[reader[r].f] \in Contents
  BY ReaderTypes DEF IInv, Types, FilesOK
<1>2. CASE reader[r].at = "reading" /\ Begins(reader[r].out, file[reader[r].f])
  <2>. DEFINE s == reader[r].out
              t == file[reader[r].f]
  <2>1. PICK v \in 1 .. Len(Dump) : Begins(t, Dump[v])
    BY <1>1, FilePart DEF Part
  <2>2. Len(s) \in Nat /\ Len(t) \in Nat /\ Len(Dump[v]) \in Nat
    BY <1>1, ContentsFacts, DumpAssumption
  <2>3. Begins(s, Dump[v])
    BY <1>2, <2>1, <2>2, BeginsTransitive
  <2>. QED
    BY <2>3 DEF Part
<1>3. CASE reader[r].at = "unlocked"
  BY <1>3 DEF Sound, ReaderSound, ReadAll
<1>. QED
  BY <1>2, <1>3 DEF Sound, ReaderSound, ReadSoFar

LEMMA ReadSound ==
  ASSUME IInv, Sound, NEW r \in Reader, Read(r)
  PROVE  Sound'
<1>. DEFINE s == file[reader[r].f]
            n == Len(reader[r].out)
            out == Append(reader[r].out, s[n + 1])
<1>1. /\ reader[r].at = "reading"
      /\ n < Len(s)
      /\ reader' = [reader EXCEPT ![r] = [reader[r] EXCEPT !.out = out]]
      /\ UNCHANGED <<child, file, harm>>
  BY DEF Read, ReaderMoves
<1>2. /\ reader[r] \in ReaderRecord /\ reader[r].f \in Inode
      /\ reader[r].out \in Contents
      /\ s \in Contents
  BY <1>1, ReaderTypes DEF IInv, Types, FilesOK
<1>3. n \in Nat /\ Len(s) \in Nat
  BY <1>2, ContentsFacts
<1>4. s[n + 1] \in Piece \cup {Hole}
  <2>1. n + 1 \in 1 .. Len(s)
    BY <1>1, <1>3
  <2>. QED
    BY <1>2, <2>1, ElementOfSeq DEF Contents
<1>5. /\ Len(out) = n + 1
      /\ \A k \in 1 .. n : out[k] = reader[r].out[k]
      /\ out[n + 1] = s[n + 1]
  BY <1>2, <1>4, AppendProperties DEF Contents
<1>6. reader'[r] = [reader[r] EXCEPT !.out = out]
  BY <1>1 DEF IInv, Types, ReadersOK
<1>. HIDE DEF out
<1>7. reader'[r].at = "reading" /\ reader'[r].out = out /\ reader'[r].f = reader[r].f
  BY <1>1, <1>2, <1>6 DEF ReaderRecord
<1>8. harm[reader[r].f] # "mixed" => Begins(out, s)
  <2>0. s # <<>>
    <3>1. Len(s) # 0
      BY <1>1, <1>3
    <3>. QED
      BY <3>1, EmptySeq
  <2>1. harm[reader[r].f] # "mixed" => Begins(reader[r].out, s)
    BY <1>1, <2>0 DEF Sound, ReaderSound, ReadSoFar
  <2>2. ASSUME harm[reader[r].f] # "mixed", NEW k \in 1 .. n + 1
        PROVE  out[k] = s[k]
    <3>1. CASE k \in 1 .. n
      BY <1>5, <2>1, <2>2, <3>1 DEF Begins
    <3>2. CASE k = n + 1
      BY <1>5, <3>2
    <3>. QED
      BY <1>3, <3>1, <3>2
  <2>3. Len(out) = n + 1 /\ n + 1 <= Len(s)
    BY <1>1, <1>3, <1>5
  <2>. HIDE DEF s, n
  <2>. QED
    BY <2>2, <2>3 DEF Begins
<1>9. ReaderSound(r)'
  BY <1>1, <1>7, <1>8 DEF ReaderSound, ReadSoFar
<1>. QED
  BY <1>1, <1>9, ReaderKeepsSound

\* At the end of the file, no child writes to it.
LEMMA UnlockSound ==
  ASSUME IInv, Sound, NEW r \in Reader, Unlock(r)
  PROVE  Sound'
<1>. DEFINE i == reader[r].f
            s == file[i]
            out == reader[r].out
<1>1. /\ reader[r].at = "reading"
      /\ Len(out) >= Len(s)
      /\ reader' = [reader EXCEPT ![r] = [reader[r] EXCEPT !.at = "unlocked"]]
      /\ UNCHANGED <<child, file, harm>>
  BY DEF Unlock, ReaderMoves, Goes
<1>2. /\ reader[r] \in ReaderRecord /\ i \in Inode
      /\ out \in Contents /\ s \in Contents
  BY <1>1, ReaderTypes DEF IInv, Types, FilesOK
<1>3. ASSUME harm[i] = "none" PROVE Whole(out)
  <2>1. Begins(out, s)
    BY <1>1, <1>3 DEF Sound, ReaderSound, ReadSoFar
  <2>2. out = s
    BY <1>1, <1>2, <2>1, ContentsFacts DEF Begins
  <2>3. CASE \E c \in Child : child[c].fd = i
    <3>1. PICK c \in Child : child[c].fd = i
      BY <2>3
    <3>2. child[c].at = "opened"
      BY <1>1, <1>2, <3>1, ChildTypes, IInvReadsLocked, NoneAssumption DEF ReadsLocked
    <3>3. Len(s) = 0
      BY <1>2, <1>3, <3>1, <3>2 DEF Sound, Fresh, FileSound, Written
    <3>. QED
      BY <1>2, <2>2, <3>3, ContentsFacts DEF Whole
  <2>4. CASE \A c \in Child : child[c].fd # i
    BY <1>2, <1>3, <2>2, <2>4 DEF Sound, FileSound, Closed
  <2>. QED
    BY <2>3, <2>4
<1>4. reader'[r] = [reader[r] EXCEPT !.at = "unlocked"]
  BY <1>1 DEF IInv, Types, ReadersOK
<1>5. reader'[r].at = "unlocked" /\ reader'[r].out = out /\ reader'[r].f = i
  BY <1>2, <1>4 DEF ReaderRecord
<1>6. harm[i] # "mixed" => Part(out)
  BY <1>1, OutPart
<1>7. ReaderSound(r)'
  BY <1>1, <1>3, <1>5, <1>6 DEF ReaderSound, ReadAll
<1>. QED
  BY <1>1, <1>7, ReaderKeepsSound

\* What the children leave in a file that is not freed.
Left(i) ==
  /\ \A c, d \in Child : child'[c].fd = i /\ child'[d].fd = i => c = d
  /\ \A c \in Child : child'[c].fd = i => Written(c) /\ child'[c] = child[c]
  /\ Closed(i)' => Part(file[i])

\* A file that is freed is as good as new, and nobody reads it.
LEMMA ReclaimSound ==
  ASSUME IInv, IInv', Sound, NEW S, Reclaim(S), Fresh',
         \A i \in Inode : ~ Freed(i) /\ harm[i] # "mixed" => Left(i),
         \A i \in Inode \ S : ~ Freed(i) /\ harm[i] = "none" /\ Closed(i)' =>
           Whole(file[i]),
         \A r \in Reader : reader'[r] = reader[r] \/ reader'[r].out = <<>>,
         \A r \in Reader : reader'[r] # reader[r] =>
           reader'[r].at \notin {"reading", "unlocked"}
  PROVE  Sound'
<1>1. ASSUME NEW i \in Inode PROVE FileSound(i)'
  <2>1. CASE Freed(i)
    <3>1. file'[i] = <<>> /\ \A c \in Child : child'[c].fd # i
      BY <2>1 DEF Reclaim, Freed, HasOpen
    <3>2. Part(<<>>)
      BY EmptyPart
    <3>. QED
      BY <3>1, <3>2 DEF FileSound, Whole, Part
  <2>2. CASE ~ Freed(i)
    <3>1. /\ file'[i] = file[i]
          /\ harm'[i] # "mixed" => harm[i] # "mixed"
          /\ harm'[i] = "none" => harm[i] = "none" /\ i \notin S
      BY <2>2 DEF Reclaim
    <3>2. harm'[i] # "mixed" => Left(i)
      BY <2>2, <3>1
    <3>3. harm'[i] = "none" /\ Closed(i)' => Whole(file[i])
      BY <2>2, <3>1
    <3>. QED
      BY <3>1, <3>2, <3>3 DEF FileSound, Written, Left, Part, Whole
  <2>. QED
    BY <2>1, <2>2
<1>2. ASSUME NEW r \in Reader PROVE ReaderSound(r)'
  <2>1. CASE reader'[r] # reader[r]
    BY <2>1 DEF ReaderSound
  <2>2. CASE reader'[r] = reader[r] /\ reader[r].at \in {"reading", "unlocked"}
    <3>1. reader[r].f \in Inode
      BY <2>2, ReaderTypes
    <3>2. ~ Freed(reader[r].f)
      BY <2>2 DEF Freed, HasOpen
    <3>3. /\ file'[reader[r].f] = file[reader[r].f]
          /\ harm'[reader[r].f] # "mixed" => harm[reader[r].f] # "mixed"
          /\ harm'[reader[r].f] = "none" => harm[reader[r].f] = "none"
      BY <3>1, <3>2 DEF Reclaim
    <3>. QED
      BY <2>2, <3>3 DEF Sound, ReaderSound, ReadSoFar, ReadAll, Part, Whole
  <2>3. CASE reader'[r] = reader[r] /\ reader[r].at \notin {"reading", "unlocked"}
    BY <2>3 DEF Sound, ReaderSound
  <2>. QED
    BY <2>1, <2>2, <2>3
<1>. QED
  BY <1>1, <1>2 DEF Sound

LEMMA RemoveSound ==
  ASSUME IInv, IInv', Sound, NEW r \in Reader, Remove(r)
  PROVE  Sound'
<1>1. /\ reader' = [reader EXCEPT ![r] = [NoReader EXCEPT !.at = "removed"]]
      /\ child' = child
      /\ Reclaim({})
  BY DEF Remove
<1>2. /\ reader'[r].at = "removed" /\ reader'[r].out = <<>>
      /\ \A q \in Reader \ {r} : reader'[q] = reader[q]
  BY <1>1 DEF IInv, Types, ReadersOK, NoReader
<1>3. Fresh'
  BY <1>1 DEF Sound, Fresh
<1>4. \A i \in Inode :
        /\ harm[i] # "mixed" => Left(i)
        /\ harm[i] = "none" /\ Closed(i)' => Whole(file[i])
  BY <1>1 DEF Sound, FileSound, Left, Closed
<1>. QED
  BY <1>1, <1>2, <1>3, <1>4, ReclaimSound

LEMMA ReaderStepSound ==
  ASSUME IInv, IInv', Sound, NEW r \in Reader, Bind(r) \/ ReaderStep(r) \/ KillReader(r)
  PROVE  Sound'
<1>1. CASE Read(r) \/ Unlock(r) \/ Remove(r)
  BY <1>1, ReadSound, UnlockSound, RemoveSound
<1>2. CASE Lock(r)
  <2>1. /\ reader[r].at = "locking"
        /\ reader' = [reader EXCEPT ![r] = [reader[r] EXCEPT !.at = "reading"]]
        /\ UNCHANGED <<child, file, harm>>
    BY <1>2 DEF Lock, ReaderMoves, Goes
  <2>2. reader'[r].at = "reading" /\ reader'[r].out = <<>>
    BY <2>1, ReaderTypes DEF Sound, ReaderSound, IInv, Types, ReadersOK, ReaderRecord
  <2>3. reader'[r].f \in Inode
    BY <2>1, ReaderTypes DEF IInv, Types, ReadersOK, ReaderRecord
  <2>4. ReaderSound(r)'
    <3>1. file'[reader'[r].f] \in Contents
      BY <2>3 DEF IInv, Types, FilesOK
    <3>2. Len(<<>>) = 0 /\ Len(file'[reader'[r].f]) \in Nat
      BY <3>1, ContentsFacts
    <3>. QED
      BY <2>2, <3>2 DEF ReaderSound, ReadSoFar, Begins
  <2>. QED
    BY <2>1, <2>4, ReaderKeepsSound
<1>3. CASE Bind(r) \/ Ask(r) \/ Wait(r) \/ Open(r) \/ FOpen(r) \/ Close(r)
             \/ KillReader(r)
  <2>. DEFINE x == reader'[r]
  <2>1. /\ reader = [q \in Reader |-> reader[q]]
        /\ reader[r] \in ReaderRecord
        /\ reader[r].at \notin {"reading", "unlocked"} => reader[r].out = <<>>
    BY ReaderTypes DEF Sound, ReaderSound, IInv, Types, ReadersOK
  <2>2. UNCHANGED <<child, file, harm>>
    BY <1>3
    DEF Bind, Ask, Wait, Open, FOpen, Close, KillReader, ReaderMoves
  <2>3. /\ reader' = [reader EXCEPT ![r] = x]
        /\ x.out = <<>> /\ x.at \notin {"reading", "unlocked"}
    <3>1. CASE Exit(r)
      BY <2>1, <3>1 DEF Exit, NoReader
    <3>2. CASE Bind(r) \/ Ask(r)
      BY <2>1, <3>2 DEF Bind, Ask, ReaderMoves, Goes, ReaderRecord
    <3>3. CASE Wait(r) /\ ~ Exit(r)
      BY <2>1, <3>3 DEF Wait, ReaderMoves, Goes, ReaderRecord
    <3>4. CASE Open(r) /\ ~ Exit(r)
      BY <2>1, <3>4 DEF Open, ReaderMoves, ReaderRecord
    <3>5. CASE FOpen(r) /\ ~ Exit(r)
      BY <2>1, <3>5 DEF FOpen, ReaderMoves, ReaderRecord
    <3>. QED
      BY <1>3, <3>1, <3>2, <3>3, <3>4, <3>5 DEF Close, KillReader
  <2>4. ReaderSound(r)'
    BY <2>3 DEF ReaderSound
  <2>. QED
    BY <2>2, <2>3, <2>4, ReaderKeepsSound
<1>. QED
  BY <1>1, <1>2, <1>3 DEF ReaderStep

\* A child that starts to write empties the file: it then holds what this child
\* has written, that is nothing, and no other child's if none had it open.
LEMMA ChildOpensSound ==
  ASSUME IInv, Sound, NEW c \in Child, ChildOpens(c)
  PROVE  Sound'
<1>1. PICK n \in Inode :
        /\ file' = [file EXCEPT ![n] = <<>>]
        /\ child' = [child EXCEPT ![c].at = "opened", ![c].fd = n, ![c].pos = 0]
        /\ harm' = [harm EXCEPT ![n] = Truncated(n)]
  BY DEF ChildOpens
<1>2. /\ child[c].at = "forked"
      /\ reader' = reader
  BY DEF ChildOpens, ChildMoves
<1>3. child[c] \in ChildRecord /\ child[c].fd = None
  BY <1>2, ChildTypes
<1>4. /\ child'[c].at = "opened" /\ child'[c].fd = n /\ child'[c].pos = 0
      /\ child'[c].db = child[c].db
      /\ \A d \in Child \ {c} : child'[d] = child[d]
  BY <1>1, <1>3 DEF IInv, Types, ChildrenOK, ChildRecord
<1>5. /\ file'[n] = <<>> /\ harm'[n] = Truncated(n)
      /\ \A i \in Inode \ {n} : file'[i] = file[i] /\ harm'[i] = harm[i]
  BY <1>1 DEF IInv, Types, FilesOK
<1>6. ASSUME NEW i \in Inode PROVE FileSound(i)'
  <2>1. CASE i = n
    <3>1. ~ Closed(n)'
      BY <1>4 DEF Closed
    <3>2. harm'[n] # "mixed" => \A d \in Child : child'[d].fd = n => d = c
      BY <1>4, <1>5 DEF Truncated
    <3>3. Len(Dump[child[c].db]) \in Nat
      BY <1>3, DumpAssumption DEF ChildRecord
    <3>4. Written(c)'
      BY <1>4, <1>5, <3>3 DEF Written, Begins
    <3>. QED
      BY <1>4, <2>1, <3>1, <3>2, <3>4 DEF FileSound
  <2>2. CASE i # n
    <3>1. \A d \in Child : (child'[d].fd = i <=> child[d].fd = i)
                           /\ (child[d].fd = i => child'[d] = child[d])
      BY <1>3, <1>4, <2>2, NoneAssumption
    <3>. QED
      BY <1>5, <2>2, <3>1 DEF Sound, FileSound, Written, Closed
  <2>. QED
    BY <2>1, <2>2
<1>7. ASSUME NEW r \in Reader PROVE ReaderSound(r)'
  <2>1. CASE reader[r].at \in {"reading", "unlocked"} /\ reader[r].f = n
    <3>1. harm'[n] # "none" /\ (harm'[n] # "mixed" => harm[n] # "mixed")
      BY <1>5, <2>1 DEF Truncated, HasRead
    <3>2. harm'[n] # "mixed" => Part(reader[r].out)
      BY <2>1, <3>1, OutPart
    <3>. QED
      BY <1>2, <1>5, <2>1, <3>1, <3>2 DEF ReaderSound, ReadSoFar, ReadAll, Part
  <2>2. CASE reader[r].at \in {"reading", "unlocked"} /\ reader[r].f # n
    BY <1>2, <1>5, <2>2, ReaderTypes
    DEF Sound, ReaderSound, ReadSoFar, ReadAll, Part, Whole
  <2>3. CASE reader[r].at \notin {"reading", "unlocked"}
    BY <1>2, <2>3 DEF Sound, ReaderSound
  <2>. QED
    BY <2>1, <2>2, <2>3
<1>8. Fresh'
  BY <1>4 DEF Sound, Fresh
<1>. QED
  BY <1>6, <1>7, <1>8 DEF Sound

\* What is written at the end is put behind what was there.
LEMMA OverwriteNext ==
  ASSUME NEW s, NEW p \in Nat \ {0}, Len(s) = p - 1, NEW x
  PROVE  /\ Len(Overwrite(s, p, x)) = p
         /\ \A k \in 1 .. p - 1 : Overwrite(s, p, x)[k] = s[k]
         /\ Overwrite(s, p, x)[p] = x
<1>1. Overwrite(s, p, x) = [k \in 1 .. p |-> IF k = p THEN x ELSE s[k]]
  BY DEF Overwrite
<1>. QED
  BY <1>1

LEMMA ChildWritesSound ==
  ASSUME IInv, Sound, NEW c \in Child, ChildWrites(c)
  PROVE  Sound'
<1>. DEFINE p == child[c].pos + 1
            n == child[c].fd
            d == Dump[child[c].db]
            s == Overwrite(file[n], p, d[p])
<1>1. /\ child[c].at = "writing"
      /\ p <= Len(d)
      /\ file' = [file EXCEPT ![n] = s]
      /\ child' = [child EXCEPT ![c].pos = p]
      /\ UNCHANGED <<harm, reader>>
  BY DEF ChildWrites, ChildMoves
<1>2. /\ child[c] \in ChildRecord
      /\ n \in Inode
      /\ p \in Nat \ {0} /\ child[c].pos = p - 1
      /\ file[n] \in Contents /\ Len(file[n]) \in Nat
      /\ Len(d) \in Nat
  <2>1. child[c] \in ChildRecord /\ n \in Inode /\ child[c].pos \in Nat
        /\ child[c].db \in 1 .. Len(Dump)
    BY <1>1, ChildHas
  <2>2. file[n] \in Contents
    BY <2>1 DEF IInv, Types, FilesOK
  <2>3. Len(d) \in Nat
    BY <2>1, DumpAssumption
  <2>4. p \in Nat \ {0} /\ child[c].pos = p - 1
    BY <2>1
  <2>5. Len(file[n]) \in Nat
    BY <2>2, ContentsFacts
  <2>. QED
    BY <2>1, <2>2, <2>3, <2>4, <2>5
<1>3. /\ child'[c] = [child[c] EXCEPT !.pos = p]
      /\ \A e \in Child \ {c} : child'[e] = child[e]
  BY <1>1 DEF IInv, Types, ChildrenOK
<1>4. /\ child'[c].at = "writing" /\ child'[c].fd = n /\ child'[c].pos = p
      /\ child'[c].db = child[c].db
  BY <1>1, <1>2, <1>3 DEF ChildRecord
<1>5. file'[n] = s /\ \A i \in Inode \ {n} : file'[i] = file[i]
  BY <1>1, <1>2 DEF IInv, Types, FilesOK
<1>6. ASSUME harm[n] # "mixed" PROVE Written(c)'
  <2>1. Len(file[n]) = p - 1 /\ \A k \in 1 .. p - 1 : file[n][k] = d[k]
    BY <1>2, <1>6 DEF Sound, FileSound, Written, Begins
  <2>. DEFINE old == file[n]
              x   == d[p]
  <2>. HIDE DEF p, d, n, old, x
  <2>2. /\ Len(s) = p
        /\ \A k \in 1 .. p - 1 : s[k] = old[k]
        /\ s[p] = x
    <3>1. p \in Nat \ {0} /\ Len(old) = p - 1
      BY <1>2, <2>1 DEF old
    <3>2. /\ Len(Overwrite(old, p, x)) = p
          /\ \A k \in 1 .. p - 1 : Overwrite(old, p, x)[k] = old[k]
          /\ Overwrite(old, p, x)[p] = x
      BY <3>1, OverwriteNext
    <3>3. s = Overwrite(old, p, x)
      BY DEF old, x
    <3>. HIDE DEF s
    <3>. QED
      BY <3>2, <3>3
  <2>. HIDE DEF s
  <2>3. Len(s) = p /\ \A k \in 1 .. p : s[k] = d[k]
    BY <1>2, <2>1, <2>2 DEF old, x
  <2>. QED
    BY <1>1, <1>4, <1>5, <2>3 DEF Written, Begins, d, n
<1>. HIDE DEF s, p
<1>7. ASSUME NEW i \in Inode PROVE FileSound(i)'
  <2>1. \A e \in Child : child'[e].fd = child[e].fd
    BY <1>3, <1>4
  <2>2. CASE i = n
    BY <1>1, <1>6, <2>1, <2>2 DEF Sound, FileSound, Closed
  <2>3. CASE i # n
    <3>1. \A e \in Child : child[e].fd = i => child'[e] = child[e]
      BY <1>3, <2>3
    <3>. QED
      BY <1>1, <1>5, <2>1, <2>3, <3>1 DEF Sound, FileSound, Written, Closed
  <2>. QED
    BY <2>2, <2>3
<1>8. ASSUME NEW r \in Reader PROVE ReaderSound(r)'
  <2>1. CASE reader[r].at = "reading"
    <3>1. reader[r].f # n /\ reader[r].f \in Inode
      BY <1>1, <2>1, ReaderTypes, IInvReadsLocked DEF ReadsLocked
    <3>. QED
      BY <1>1, <1>5, <2>1, <3>1 DEF Sound, ReaderSound, ReadSoFar, Part
  <2>2. CASE reader[r].at # "reading"
    BY <1>1, <2>2 DEF Sound, ReaderSound, ReadAll, Part, Whole
  <2>. QED
    BY <2>1, <2>2
<1>9. Fresh'
  BY <1>3, <1>4 DEF Sound, Fresh
<1>. QED
  BY <1>7, <1>8, <1>9 DEF Sound

\* The child ends, and the file is whole, or is killed, and it is what it wrote.
LEMMA ChildGoneSound ==
  ASSUME IInv, IInv', Sound, NEW c \in Child, ChildEnds(c) \/ KillChild(c)
  PROVE  Sound'
<1>1. /\ child' = [child EXCEPT ![c] = NoChild]
      /\ reader' = reader
  BY DEF ChildEnds, ChildMoves, KillChild
<1>2. /\ child'[c] = NoChild
      /\ \A d \in Child \ {c} : child'[d] = child[d]
  BY <1>1 DEF IInv, Types, ChildrenOK
<1>3. Fresh'
  BY <1>2 DEF Sound, Fresh, NoChild
<1>4. \A i \in Inode : child'[c].fd # i
  BY <1>2, NoneAssumption DEF NoChild
<1>5. ASSUME NEW i \in Inode, harm[i] # "mixed" PROVE Left(i)
  BY <1>2, <1>4, <1>5, FilePart DEF Sound, FileSound, Left
<1>6. ASSUME NEW i \in Inode, harm[i] = "none", child[c].fd # i, Closed(i)'
      PROVE  Whole(file[i])
  BY <1>2, <1>4, <1>6 DEF Sound, FileSound, Closed
<1>7. CASE ChildEnds(c)
  <2>1. /\ child[c].at = "writing"
        /\ child[c].pos = Len(Dump[child[c].db])
        /\ Reclaim({})
    BY <1>7 DEF ChildEnds, ChildMoves
  <2>2. ASSUME NEW i \in Inode, harm[i] = "none", child[c].fd = i
        PROVE  Whole(file[i])
    <3>1. /\ Len(file[i]) = Len(Dump[child[c].db])
          /\ Begins(file[i], Dump[child[c].db])
      BY <2>1, <2>2 DEF Sound, FileSound, Written
    <3>2. /\ child[c].db \in 1 .. Len(Dump)
          /\ file[i] \in Contents
          /\ Dump[child[c].db] \in Contents
      <4>1. child[c].db \in 1 .. Len(Dump)
        BY ChildTypes
      <4>2. Dump[child[c].db] \in Seq(Piece)
        BY <4>1, DumpAssumption
      <4>. QED
        BY <4>1, <4>2, SeqMonotonic DEF Contents, IInv, Types, FilesOK
    <3>3. file[i] = Dump[child[c].db]
      <4>. DEFINE f == file[i]
                  g == Dump[child[c].db]
      <4>1. f \in Contents /\ g \in Contents /\ Len(f) = Len(g)
        BY <3>1, <3>2
      <4>2. \A k \in 1 .. Len(f) : f[k] = g[k]
        BY <3>1 DEF Begins
      <4>. HIDE DEF f, g
      <4>3. f = [k \in 1 .. Len(f) |-> f[k]] /\ g = [k \in 1 .. Len(g) |-> g[k]]
        BY <4>1, ContentsFacts
      <4>4. f = g
        BY <4>1, <4>2, <4>3
      <4>. QED
        BY <4>4 DEF f, g
    <3>. QED
      BY <3>2, <3>3 DEF Whole
  <2>3. \A i \in Inode : harm[i] = "none" /\ Closed(i)' => Whole(file[i])
    BY <1>6, <2>2
  <2>. QED
    BY <1>1, <1>3, <1>5, <2>1, <2>3, ReclaimSound
<1>8. CASE KillChild(c)
  <2>1. Reclaim({child[c].fd})
    BY <1>8 DEF KillChild
  <2>. QED
    BY <1>1, <1>3, <1>5, <1>6, <2>1, ReclaimSound
<1>. QED
  BY <1>7, <1>8

\* A child that neither opens, writes to nor closes a file.
LEMMA ChildElseSound ==
  ASSUME IInv, Sound, NEW c \in Child, NEW x,
         child' = [child EXCEPT ![c] = x],
         UNCHANGED <<reader, file, harm>>,
         x.fd = child[c].fd,
         x.fd # None => x.pos = child[c].pos /\ x.db = child[c].db,
         x.at # "opened"
  PROVE  Sound'
<1>1. /\ child'[c] = x
      /\ \A d \in Child \ {c} : child'[d] = child[d]
  BY DEF IInv, Types, ChildrenOK
<1>2. ASSUME NEW i \in Inode PROVE FileSound(i)'
  <2>1. \A d \in Child : child'[d].fd = child[d].fd
    BY <1>1
  <2>2. \A d \in Child : child[d].fd = i =>
          child'[d].pos = child[d].pos /\ child'[d].db = child[d].db
    BY <1>1, NoneAssumption
  <2>. QED
    BY <2>1, <2>2 DEF Sound, FileSound, Written, Closed, Part, Whole
<1>3. \A r \in Reader : ReaderSound(r)'
  BY DEF Sound, ReaderSound, ReadSoFar, ReadAll, Part, Whole
<1>4. Fresh'
  BY <1>1 DEF Sound, Fresh
<1>. QED
  BY <1>2, <1>3, <1>4 DEF Sound

LEMMA NextKeepsSound == IInv /\ IInv' /\ Sound /\ [Next]_vars => Sound'
<1>. SUFFICES ASSUME IInv, IInv', Sound, [Next]_vars PROVE Sound'
  OBVIOUS
<1>1. CASE UNCHANGED <<child, reader, file, harm>>
  BY <1>1
  DEF Sound, FileSound, Written, Closed, ReaderSound, ReadSoFar, ReadAll, Fresh
<1>2. CASE ReceiveTLVStock
  <2>1. PICK c \in Child :
          /\ child[c].at = "none"
          /\ child' = [child EXCEPT ![c].at = "forked", ![c].db = table]
    BY <1>2 DEF ReceiveTLVStock
  <2>. DEFINE x == [child[c] EXCEPT !.at = "forked", !.db = table]
  <2>2. child[c] \in ChildRecord /\ child[c].fd = None
    BY <2>1, ChildTypes
  <2>3. x.at = "forked" /\ x.fd = None /\ child' = [child EXCEPT ![c] = x]
    BY <2>1, <2>2 DEF ChildRecord
  <2>. HIDE DEF x
  <2>. QED
    BY <1>2, <2>2, <2>3, ChildElseSound DEF ReceiveTLVStock
<1>3. ASSUME NEW c \in Child, ChildStep(c) \/ KillChild(c) PROVE Sound'
  <2>1. CASE ChildLocks(c)
    <3>. DEFINE x == [child[c] EXCEPT !.at = "writing"]
    <3>1. /\ child' = [child EXCEPT ![c] = x]
          /\ UNCHANGED <<reader, file, harm>>
      BY <2>1 DEF ChildLocks, ChildMoves
    <3>2. /\ x.at = "writing" /\ x.fd = child[c].fd /\ x.pos = child[c].pos
          /\ x.db = child[c].db
      BY ChildTypes DEF ChildRecord
    <3>. HIDE DEF x
    <3>. QED
      BY <3>1, <3>2, ChildElseSound
  <2>. QED
    BY <1>3, <2>1, ChildOpensSound, ChildWritesSound, ChildGoneSound DEF ChildStep
<1>4. CASE \E r \in Reader : Bind(r) \/ ReaderStep(r) \/ KillReader(r)
  BY <1>4, ReaderStepSound
<1>. QED
  BY <1>1, <1>2, <1>3, <1>4 DEF Next, vars, TableChanges, OtherClient

LEMMA InitSound == Init => Sound
BY NoneAssumption, EmptyPart
DEF Init, Sound, FileSound, Closed, ReaderSound, Fresh, Written, Whole, NoChild, NoReader

\* What a client prints is the beginning of one dump, whatever is done to the file
\* under it, unless two children had it open at once; and it is all of the dump
\* or nothing if no child emptied the file under it and none was killed.
THEOREM OneDumpHolds == Spec => []OneDump
<1>1. Sound => OneDump
  BY DEF Sound, ReaderSound, ReadAll, OneDump, Whole, Part
<1>. QED
  BY <1>1, InitIInv, NextKeepsIInv, InitSound, NextKeepsSound, StockInvariant, PTL DEF Spec
=============================================================================
