------------------------------- MODULE Stock -------------------------------
(***************************************************************************)
(* The dump of the data base.  On a TLV Stock the node forks a child that  *)
(* writes its copy of the table to DATA_FILE, and answers at once with a   *)
(* Pad1 (receiveTLVStock, stockDatabase).  The client dazibao_read asks    *)
(* for a dump, waits for the answer, reads the file and removes it         *)
(* (print_data.c).  They meet in a file, the lock on it and CHANGE_PORT,   *)
(* which each client of the node binds.                                    *)
(*                                                                         *)
(* A file is a sequence of pieces, one for what a child writes or a reader *)
(* reads in one step.  A process that ends has its files closed, its locks *)
(* released and its port free (the kernel, external).                      *)
(***************************************************************************)
EXTENDS Integers, Sequences

CONSTANTS
  Reader,     \* users of dazibao_read
  Changer,    \* users of the other clients, of change_msg.c and change_zoo.c
  Child,      \* bound: children that run at a time
  Inode,      \* bound: files that exist at a time, with a name or open
  Dump,       \* bound: the tables the node comes to have, in pieces
  MaxAsked,   \* bound: TLVs Stock that wait in the node's socket
  None, Hole

Piece == UNION {{Dump[v][k] : k \in 1 .. Len(Dump[v])} : v \in 1 .. Len(Dump)}

ASSUME DumpAssumption ==
  /\ Len(Dump) \in Nat \ {0}
  /\ \A v \in 1 .. Len(Dump) : Dump[v] \in Seq(Piece) /\ Len(Dump[v]) \in Nat \ {0}
ASSUME BoundAssumption == MaxAsked \in Nat
ASSUME NoneAssumption == None \notin Reader \cup Changer \cup Child \cup Inode
ASSUME ProcessAssumption == Reader \cap Child = {} /\ Reader \cap Changer = {}

VARIABLES
  table,      \* the node's table is Dump[table]
  asked,      \* TLVs Stock in the node's socket
  port,       \* who has bound CHANGE_PORT
  ready,      \* is there a datagram in the socket bound to it?
  data_file,  \* the file DATA_FILE names
  file,       \* inode -> what is in it
  lock,       \* inode -> who has the lock on it
  child, reader,
  harm        \* inode -> what befell what is in it, or what was read (ghost)

vars == <<table, asked, port, ready, data_file, file, lock, child, reader, harm>>

NoChild  == [at |-> "none", fd |-> None, db |-> 1, pos |-> 0]
NoReader == [at |-> "start", fd |-> None, f |-> None, out |-> <<>>]

\* "cut": emptied under a reader, or its writer killed; "mixed": emptied by a
\* child while another child had it open.
Harm == {"none", "cut", "mixed"}

HasOpen(i) ==
  {c \in Child : child[c].fd = i}
    \cup {r \in Reader : reader[r].fd = i \/ reader[r].f = i}

Init ==
  /\ table = 1
  /\ asked = 0
  /\ port = None
  /\ ready = FALSE
  /\ data_file = None
  /\ file = [i \in Inode |-> <<>>]
  /\ lock = [i \in Inode |-> None]
  /\ child = [c \in Child |-> NoChild]
  /\ reader = [r \in Reader |-> NoReader]
  /\ harm = [i \in Inode |-> "none"]

\* A file that has no name, and that nobody has open any more, is freed.
Freed(i) == i # data_file' /\ HasOpen(i)' = {}
Reclaim(cuts) ==
  /\ file' = [i \in Inode |-> IF Freed(i) THEN <<>> ELSE file[i]]
  /\ harm' = [i \in Inode |->
       IF Freed(i) THEN "none"
       ELSE IF i \in cuts /\ harm[i] = "none" THEN "cut"
       ELSE harm[i]]

Release(p) == lock' = [i \in Inode |-> IF lock[i] = p THEN None ELSE lock[i]]

-----------------------------------------------------------------------------
(* The node.                                                               *)

\* Flooding goes on.
TableChanges ==
  /\ table < Len(Dump)
  /\ table' = table + 1
  /\ UNCHANGED <<asked, port, ready, data_file, file, lock, child, reader, harm>>

\* receiveTLVStock: fork, and send a Pad1 to whoever has bound CHANGE_PORT.
ReceiveTLVStock ==
  /\ asked > 0
  /\ asked' = asked - 1
  /\ \E c \in Child :
       /\ child[c].at = "none"
       /\ child' = [child EXCEPT ![c].at = "forked", ![c].db = table]
  /\ ready' = (ready \/ port # None)
  /\ UNCHANGED <<table, port, data_file, file, lock, reader, harm>>

-----------------------------------------------------------------------------
(* stockDatabase, in the child.                                            *)

ChildMoves(c, from) ==
  /\ child[c].at = from
  /\ UNCHANGED <<table, asked, port, ready, reader>>

HasRead(r, i) == reader[r].at \in {"reading", "unlocked"} /\ reader[r].f = i

\* The harm O_TRUNC does, before any lock is asked for.
Truncated(i) ==
  IF \E c \in Child : child[c].fd = i THEN "mixed"
  ELSE IF \A r \in Reader : ~ HasRead(r, i) THEN "none"
  ELSE IF harm[i] = "mixed" THEN "mixed"
  ELSE "cut"

\* open(DATA_FILE, O_WRONLY | O_CREAT | O_TRUNC)
ChildOpens(c) ==
  /\ ChildMoves(c, "forked")
  /\ \E i \in Inode :
       /\ IF data_file = None THEN HasOpen(i) = {} ELSE i = data_file
       /\ data_file' = i
       /\ file' = [file EXCEPT ![i] = <<>>]
       /\ child' = [child EXCEPT ![c].at = "opened", ![c].fd = i, ![c].pos = 0]
       /\ harm' = [harm EXCEPT ![i] = Truncated(i)]
  /\ UNCHANGED lock

ChildSkipsLock(c) ==
  /\ ChildMoves(c, "opened")
  /\ child' = [child EXCEPT ![c].at = "writing"]
  /\ UNCHANGED <<data_file, file, lock, harm>>
\* flock(fd, LOCK_EX)
ChildLocks(c) ==
  /\ ChildMoves(c, "opened")
  /\ lock[child[c].fd] = None
  /\ lock' = [lock EXCEPT ![child[c].fd] = c]
  /\ child' = [child EXCEPT ![c].at = "writing"]
  /\ UNCHANGED <<data_file, file, harm>>

\* s, once x is written at position p, which may be beyond its end
Overwrite(s, p, x) ==
  [k \in 1 .. (IF p > Len(s) THEN p ELSE Len(s)) |->
     IF k = p THEN x ELSE IF k <= Len(s) THEN s[k] ELSE Hole]

ChildWrites(c) ==
  LET d == Dump[child[c].db]
      p == child[c].pos + 1
  IN /\ ChildMoves(c, "writing")
     /\ p <= Len(d)
     /\ file' = [file EXCEPT ![child[c].fd] = Overwrite(@, p, d[p])]
     /\ child' = [child EXCEPT ![c].pos = p]
     /\ UNCHANGED <<data_file, lock, harm>>

\* flock(fd, LOCK_UN), close and exit
ChildEnds(c) ==
  /\ ChildMoves(c, "writing")
  /\ child[c].pos = Len(Dump[child[c].db])
  /\ child' = [child EXCEPT ![c] = NoChild]
  /\ Release(c)
  /\ UNCHANGED data_file
  /\ Reclaim({})

KillChild(c) ==
  /\ child[c].at # "none"
  /\ child' = [child EXCEPT ![c] = NoChild]
  /\ Release(c)
  /\ UNCHANGED <<table, asked, port, ready, data_file, reader>>
  /\ Reclaim({child[c].fd})

-----------------------------------------------------------------------------
(* dazibao_read.                                                           *)

ReaderMoves(r, from) ==
  /\ reader[r].at = from
  /\ UNCHANGED <<table, child, file, harm>>

Goes(r, to) == reader' = [reader EXCEPT ![r].at = to]

\* bind; the client gives up if another has the port
Bind(r) ==
  /\ ReaderMoves(r, "start")
  /\ port = None
  /\ port' = r
  /\ ready' = FALSE
  /\ Goes(r, "bound")
  /\ UNCHANGED <<asked, data_file, lock>>

\* sendto: a TLV Stock, which is lost if there is no node on the port given
Ask(r) ==
  /\ ReaderMoves(r, "bound")
  /\ \/ asked < MaxAsked /\ asked' = asked + 1
     \/ UNCHANGED asked
  /\ Goes(r, "waiting")
  /\ UNCHANGED <<port, ready, data_file, lock>>

\* exit, and what the kernel does
Exit(r) ==
  /\ reader' = [reader EXCEPT ![r] = NoReader]
  /\ Release(r)
  /\ port' = None
  /\ ready' = FALSE
  /\ UNCHANGED <<asked, data_file>>

WaitForEver(r) ==
  /\ ReaderMoves(r, "waiting")
  /\ ready
  /\ Goes(r, "answered")
  /\ UNCHANGED <<asked, port, ready, data_file, lock>>
\* select, for at most TIME_TO_WAIT seconds; the datagram is not read
Wait(r) ==
  /\ ReaderMoves(r, "waiting")
  /\ \/ /\ ready
        /\ Goes(r, "answered")
        /\ UNCHANGED <<asked, port, ready, data_file, lock>>
     \/ ~ ready /\ Exit(r)

OpenUnchecked(r) ==
  /\ ReaderMoves(r, "answered")
  /\ reader' = [reader EXCEPT ![r].at = "opened", ![r].fd = data_file]
  /\ UNCHANGED <<asked, port, ready, data_file, lock>>
\* open(DATA_FILE, O_RDONLY)
Open(r) ==
  /\ ReaderMoves(r, "answered")
  /\ IF data_file = None THEN Exit(r)
     ELSE /\ reader' = [reader EXCEPT ![r].at = "opened", ![r].fd = data_file]
          /\ UNCHANGED <<asked, port, ready, data_file, lock>>

\* fopen(DATA_FILE, "r"): the file is read through f, and locked through fd
FOpen(r) ==
  /\ ReaderMoves(r, "opened")
  /\ IF data_file = None THEN Exit(r)
     ELSE /\ reader' = [reader EXCEPT ![r].at = "locking", ![r].f = data_file]
          /\ UNCHANGED <<asked, port, ready, data_file, lock>>

SkipLock(r) ==
  /\ ReaderMoves(r, "locking")
  /\ Goes(r, "reading")
  /\ UNCHANGED <<asked, port, ready, data_file, lock>>
\* flock(fd, LOCK_EX)
Lock(r) ==
  /\ ReaderMoves(r, "locking")
  /\ lock[reader[r].fd] = None
  /\ lock' = [lock EXCEPT ![reader[r].fd] = r]
  /\ Goes(r, "reading")
  /\ UNCHANGED <<asked, port, ready, data_file>>

\* fgets, until the end of the file
Read(r) ==
  LET n == Len(reader[r].out) IN
  /\ ReaderMoves(r, "reading")
  /\ n < Len(file[reader[r].f])
  /\ reader' = [reader EXCEPT ![r].out = Append(@, file[reader[r].f][n + 1])]
  /\ UNCHANGED <<asked, port, ready, data_file, lock>>

\* flock(fd, LOCK_UN)
Unlock(r) ==
  /\ ReaderMoves(r, "reading")
  /\ Len(reader[r].out) >= Len(file[reader[r].f])
  /\ Release(r)
  /\ Goes(r, "unlocked")
  /\ UNCHANGED <<asked, port, ready, data_file>>

\* the port given back first
RemoveAfterClose(r) ==
  /\ reader[r].at = "unlocked"
  /\ UNCHANGED <<table, asked, child, lock>>
  /\ \/ /\ port = r
        /\ port' = None
        /\ ready' = FALSE
        /\ UNCHANGED <<data_file, reader, file, harm>>
     \/ /\ port # r
        /\ data_file' = None
        /\ reader' = [reader EXCEPT ![r] = NoReader]
        /\ Reclaim({})
        /\ UNCHANGED <<port, ready>>
\* fclose(f), close(fd), remove(DATA_FILE); the port is still bound
Remove(r) ==
  /\ reader[r].at = "unlocked"
  /\ data_file' = None
  /\ reader' = [reader EXCEPT ![r] = [NoReader EXCEPT !.at = "removed"]]
  /\ UNCHANGED <<table, asked, child, port, ready, lock>>
  /\ Reclaim({})

\* close(s), exit
Close(r) == ReaderMoves(r, "removed") /\ Exit(r)

\* The user stops the client.
KillReader(r) ==
  /\ reader[r].at # "start"
  /\ ReaderMoves(r, reader[r].at)
  /\ Exit(r)

-----------------------------------------------------------------------------
\* Another client of the node: it has the port for a while and reads nothing.
OtherClient(k) ==
  /\ \/ port = None /\ port' = k
     \/ port = k /\ port' = None
  /\ ready' = FALSE
  /\ UNCHANGED <<table, asked, data_file, file, lock, child, reader, harm>>

ChildStep(c) == ChildOpens(c) \/ ChildLocks(c) \/ ChildWrites(c) \/ ChildEnds(c)
ReaderStep(r) ==
  \/ Ask(r) \/ Wait(r) \/ Open(r) \/ FOpen(r) \/ Lock(r) \/ Read(r)
  \/ Unlock(r) \/ Remove(r) \/ Close(r)

Next ==
  \/ TableChanges
  \/ ReceiveTLVStock
  \/ \E c \in Child : ChildStep(c) \/ KillChild(c)
  \/ \E r \in Reader : Bind(r) \/ ReaderStep(r) \/ KillReader(r)
  \/ \E k \in Changer : OtherClient(k)

Spec == Init /\ [][Next]_vars

(***************************************************************************)
(* Fairness: the node goes on handling what it receives, and a child or a  *)
(* client goes on unless it waits for a lock.  Nothing is assumed of the   *)
(* order in which the lock is given.                                       *)
(***************************************************************************)
Fairness ==
  /\ WF_vars(ReceiveTLVStock)
  /\ \A c \in Child : WF_vars(ChildStep(c))
  /\ \A r \in Reader : WF_vars(ReaderStep(r))

FairSpec == Spec /\ Fairness

-----------------------------------------------------------------------------
(* Properties.                                                             *)

Contents == Seq(Piece \cup {Hole})

\* The types; a process has a file open from the open that succeeded until it
\* closes it.
TypeOK ==
  /\ table \in 1 .. Len(Dump)
  /\ asked \in Nat
  /\ port \in Reader \cup Changer \cup {None}
  /\ ready \in BOOLEAN
  /\ data_file \in Inode \cup {None}
  /\ file \in [Inode -> Contents]
  /\ lock \in [Inode -> Reader \cup Child \cup {None}]
  /\ child \in [Child ->
       [at : {"none", "forked", "opened", "writing"}, fd : Inode \cup {None},
        db : 1 .. Len(Dump), pos : Nat]]
  /\ reader \in [Reader ->
       [at : {"start", "bound", "waiting", "answered", "opened", "locking",
              "reading", "unlocked", "removed"},
        fd : Inode \cup {None}, f : Inode \cup {None}, out : Contents]]
  /\ \A c \in Child : child[c].fd # None <=> child[c].at \in {"opened", "writing"}
  /\ \A r \in Reader :
       /\ reader[r].fd # None <=>
            reader[r].at \in {"opened", "locking", "reading", "unlocked"}
       /\ reader[r].f # None <=>
            reader[r].at \in {"locking", "reading", "unlocked"}
  /\ harm \in [Inode -> Harm]

\* While a reader reads f, which it opened after fd and did not lock, no child
\* is writing to the same file: the two are one file, as no other reader removes
\* DATA_FILE in between, and the lock is on it.
ReadsLocked ==
  \A r \in Reader : reader[r].at = "reading" =>
    \A c \in Child : child[c].at = "writing" => child[c].fd # reader[r].f

\* A reader only removes the file it has read: never one made after another reader
\* removed the first.  It is of files: a second dump written to the file that was read,
\* between the unlock and the removal, goes with it.
RemovesWhatItRead ==
  [][data_file # None /\ data_file' = None =>
       \E r \in Reader : reader[r].at = "unlocked" /\ reader[r].f = data_file]_vars

\* s is the beginning of t.
Begins(s, t) == Len(s) <= Len(t) /\ \A k \in 1 .. Len(s) : s[k] = t[k]

\* A reader prints no mixture of two dumps, though the file can be emptied under
\* it and DATA_FILE be given to another child while it reads: what it prints is
\* the beginning of one dump, and all of it or nothing if the file was not
\* emptied under it and no writer of it was killed.  The lock excludes no two
\* children between their open and their lock, and there nothing is promised.
OneDump ==
  \A r \in Reader : reader[r].at = "unlocked" =>
    LET out == reader[r].out
        h   == harm[reader[r].f]
    IN /\ h # "mixed" => \E v \in 1 .. Len(Dump) : Begins(out, Dump[v])
       /\ h = "none" => out = <<>> \/ \E v \in 1 .. Len(Dump) : out = Dump[v]

\* A client ends, whoever else wants the lock: as long as it holds CHANGE_PORT no
\* other client can ask for a dump, so the children it waits for are finitely many.
ReaderEnds ==
  \A r \in Reader : reader[r].at # "start" ~> reader[r].at = "start"
=============================================================================
