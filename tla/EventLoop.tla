----------------------------- MODULE EventLoop -----------------------------
(***************************************************************************)
(* One node from datagram to datagram: the packets it builds and the       *)
(* requests it remembers (inondation.c, history.c, package.c).             *)
(*                                                                         *)
(* Flooding has one TLV per datagram and a set of requests.  Here a        *)
(* datagram carries several, the answers are put together in packets of    *)
(* bounded size, and a TLV is memory that is allocated, pointed at by a    *)
(* packet, by the history or by both, and freed by either.  What the data  *)
(* base says of a TLV received (newer, different, the same) is left open.  *)
(***************************************************************************)
EXTENDS Integers, SequencesExt

CONSTANTS
  Peer,       \* the addresses of the other nodes
  Id,         \* the Ids of nodes
  AnyId,      \* the Id 2^64-1, that is -1 as an int64_t
  Size,       \* type -> size of a TLV, in units
  MAX_BODY,   \* units that fit a packet
  Bodies,     \* bound: the TLVs of a datagram received, in order of arrival
  MaxAny,     \* bound: requests for AnyId remembered at a time
  MIN_VOISINS,
  Keeps,      \* <<p, i>>: p keeps a record of i that it can send, and answers
  None

\* The type field of each TLV.
Number ==
  [NeighbourRequest |-> 2, Neighbour |-> 3, NetworkHash |-> 4,
   NetworkStateRequest |-> 5, NodeHash |-> 6, NodeStateRequest |-> 7,
   NodeState |-> 8, Warning |-> 9]

WithId == {"NodeHash", "NodeStateRequest", "NodeState"}
Plain  == DOMAIN Number \ WithId
Tlv    == [type : Plain, id : {None}] \cup [type : WithId, id : Id]
Wrong  == [type |-> "Wrong", id |-> None]    \* one that does not verify

ASSUME SizeAssumption ==
  /\ MAX_BODY \in Nat
  /\ Size \in [DOMAIN Number -> Nat]
  /\ \A t \in DOMAIN Number : Size[t] <= MAX_BODY
ASSUME IdAssumption == None \notin Id \cup Peer /\ AnyId \in Id
ASSUME FiniteAssumption == IsFiniteSet(Peer) /\ IsFiniteSet(Id)
ASSUME KeepsAssumption == Keeps \subseteq Peer \X Id
ASSUME BodiesAssumption == Bodies \subseteq Seq(Tlv \cup {Wrong})

VARIABLES
  at,         \* "select", or "handling" a datagram
  voisins,    \* the neighbours
  pair,       \* the sender of that datagram; None if it comes from the node
  received,   \* what is left of receive_pack
  answer,     \* answer_pack
  history,    \* what was asked of whom, oldest first
  live,       \* the TLVs that are allocated
  sent,       \* the requests the last step sent (ghost)
  asked,      \* the remembered requests that were sent (ghost)
  rounds,     \* flips with each every20seconds (ghost)
  any         \* does the last datagram have the Id AnyId in it? (ghost)

vars == <<at, voisins, pair, received, answer, history, live, sent,
          asked, rounds, any>>

T(t)     == [type |-> t, id |-> None]
TI(t, i) == [type |-> t, id |-> i]
Requests == {"NeighbourRequest", "NetworkStateRequest", "NodeStateRequest"}

\* An entry of a packet or of the history: a TLV, where it is in memory, and for
\* the history whom it was sent to.
Entry(x, o, p) == [tlv |-> x, obj |-> o, pair |-> p]

-----------------------------------------------------------------------------
(* addTLV.                                                                 *)

BodyLength(c) ==
  LET sum[k \in 0 .. Len(c)] ==
        IF k = 0 THEN 0 ELSE sum[k - 1] + Size[c[k].tlv.type]
  IN sum[Len(c)]
LooseFull(c, x) == BodyLength(c) > MAX_BODY
Full(c, x) == BodyLength(c) + Size[x.type] > MAX_BODY

Has(c, x) == \E k \in DOMAIN c : c[k].tlv = x

InsertAscending(c, e) ==
  InsertAt(c, Min({Len(c) + 1} \cup
    {k \in DOMAIN c : Number[c[k].tlv.type] > Number[e.tlv.type]}), e)
\* by descending type, after those of the same type
Place(c, e) ==
  Min({Len(c) + 1} \cup
        {k \in DOMAIN c : Number[c[k].tlv.type] < Number[e.tlv.type]})
Insert(c, e) == InsertAt(c, Place(c, e), e)

\* with room for it; a TLV that is there already is not added
AddTLV(c, e) == IF Has(c, e.tlv) THEN c ELSE Insert(c, e)

\* paquet: the correct TLVs of a datagram
Paquet(b) ==
  LET add[k \in 0 .. Len(b)] ==
        IF k = 0 THEN <<>>
        ELSE IF b[k] = Wrong THEN add[k - 1]
        ELSE AddTLV(add[k - 1], Entry(b[k], 0, None))
  IN add[Len(b)]

-----------------------------------------------------------------------------
(* The memory during a step: what is allocated, answer_pack, the history   *)
(* and the requests that have gone out.                                    *)

Objects(c) == {c[k].obj : k \in DOMAIN c}

Memory == [live |-> live, answer |-> answer, history |-> history, out |-> {}]

\* malloc gives memory that is free.
New(m) ==
  LET used == m.live \cup Objects(m.answer)
  IN CHOOSE o \in 1 .. Cardinality(used) + 1 : o \notin used
Alloc(m, o) == [m EXCEPT !.live = @ \cup {o}]
Free(m, o) == [m EXCEPT !.live = @ \ {o}]

FreesAll == DOMAIN Number
\* the types that build frees: the others are left to the history
Frees == DOMAIN Number \ Requests

\* The requests that leave with the packet c, and whether they had been freed.
Output(m, p, c) ==
  {[to |-> p, tlv |-> c[k].tlv, alive |-> c[k].obj \in m.live] :
     k \in {j \in DOMAIN c : c[j].tlv.type \in Requests}}
Freed(c, types) == {c[k].obj : k \in {j \in DOMAIN c : c[j].tlv.type \in types}}

\* sendPackage(p, c) with build, or with destroyPackage if there is no address
SendPackage(m, p, c) ==
  IF p = None
    THEN [m EXCEPT !.live = @ \ Freed(c, DOMAIN Number)]
    ELSE [m EXCEPT !.live = @ \ Freed(c, Frees), !.out = @ \cup Output(m, p, c)]

SendAnswer(m, p) == [SendPackage(m, p, m.answer) EXCEPT !.answer = <<>>]

DropsOnOverflow(m, p, e) ==
  IF Full(m.answer, e.tlv) THEN SendAnswer(m, p)
  ELSE [m EXCEPT !.answer = AddTLV(@, e)]
\* addTLV, on a new packet if it does not fit, as in tryToAddPackage
Answer(m, p, e) ==
  LET n == IF Full(m.answer, e.tlv) THEN SendAnswer(m, p) ELSE m
  IN [n EXCEPT !.answer = AddTLV(@, e)]

\* tryToAddPackage of a new TLV
TryToAddPackage(m, p, x) == Answer(Alloc(m, New(m)), p, Entry(x, New(m), p))

-----------------------------------------------------------------------------
(* history.c                                                               *)

\* Does the entry e match type t, Id i and neighbour p?  -1 matches every Id.
Matches(e, t, i, p) ==
  e.tlv.type = t /\ e.pair = p /\ i \in {None, AnyId, e.tlv.id}

SearchInHistory(t, i, p) ==
  \E k \in DOMAIN history : Matches(history[k], t, i, p)

KeepInHistory(m, t, i, p) == m
\* The first entry that matches is freed.
RemoveInHistory(m, t, i, p) ==
  LET found == {k \in DOMAIN m.history : Matches(m.history[k], t, i, p)}
  IN IF found = {} THEN m
     ELSE [Free(m, m.history[Min(found)].obj) EXCEPT
             !.history = RemoveAt(@, Min(found))]

Kept(h, gone) ==
  LET kept[k \in 0 .. Len(h)] ==
        IF k = 0 THEN <<>>
        ELSE IF h[k].pair \in gone THEN kept[k - 1] ELSE Append(kept[k - 1], h[k])
  IN kept[Len(h)]

\* removeInHistory(-1, -1, -1, v, 1) for each v that is gone
ForgetNeighbours(m, gone) ==
  [m EXCEPT
     !.live = @ \ {m.history[k].obj :
                     k \in {j \in DOMAIN m.history : m.history[j].pair \in gone}},
     !.history = Kept(@, gone)]

AddInHistory(m, e) == [m EXCEPT !.history = Append(@, e)]

-----------------------------------------------------------------------------
(* A step ends with the memory m.  TLVs that nothing points to any more    *)
(* (addTLV did not add them) are not freed by the code; they are forgotten *)
(* here.  The others are numbered anew, as their addresses do not matter.  *)

Request(e) == [pair |-> e.pair, tlv |-> e.tlv]

Address(m, o) ==
  LET used == m.history \o m.answer
  IN CHOOSE k \in DOMAIN used : used[k].obj = o
Renumber(m, c) == [k \in DOMAIN c |-> [c[k] EXCEPT !.obj = Address(m, @)]]

Ends(memory) ==
  \E m \in {memory} :
    /\ live' = {Address(m, o) :
                  o \in m.live \cap (Objects(m.answer) \cup Objects(m.history))}
    /\ answer' = Renumber(m, m.answer)
    /\ history' = Renumber(m, m.history)
    /\ sent' = m.out
    /\ asked' =
         {r \in asked \cup {[pair |-> s.to, tlv |-> s.tlv] : s \in m.out} :
            \E k \in DOMAIN m.history : Request(m.history[k]) = r}

Init ==
  /\ at = "select"
  /\ voisins = {}
  /\ pair = None
  /\ received = <<>>
  /\ answer = <<>>
  /\ history = <<>>
  /\ live = {}
  /\ sent = {}
  /\ asked = {}
  /\ rounds = FALSE
  /\ any = FALSE

-----------------------------------------------------------------------------
(* every20seconds.                                                         *)

Pending(e, p) == e.pair = p /\ e.tlv.type = "NodeStateRequest"

DropsFull(m, p, e) ==
  IF Full(m.answer, e.tlv) THEN [m EXCEPT !.answer = <<>>]
  ELSE [m EXCEPT !.answer = AddTLV(@, e)]
\* The TLV that does not fit is not put in the next packet.
AddPending(m, p, e) ==
  IF Full(m.answer, e.tlv) THEN SendAnswer(m, p)
  ELSE [m EXCEPT !.answer = AddTLV(@, e)]

\* reask, for one neighbour: the Node State Requests to it, oldest first
Reask(m, p) ==
  LET add[k \in 0 .. Len(m.history)] ==
        IF k = 0 THEN m
        ELSE IF Pending(m.history[k], p)
          THEN AddPending(add[k - 1], p, m.history[k])
        ELSE add[k - 1]
  IN SendAnswer(add[Len(m.history)], p)

ReaskAll ==
  LET tab == SetToSeq(voisins)
      round[k \in 0 .. Len(tab)] ==
        IF k = 0 THEN Memory ELSE Reask(round[k - 1], tab[k])
  IN round[Len(tab)]

\* A Neighbour Request to p is sent, then the one remembered is replaced.
AskNeighbour(m, p) ==
  LET e == Entry(T("NeighbourRequest"), New(m), p)
      s == SendPackage(Alloc(m, New(m)), p, <<e>>)
  IN AddInHistory(RemoveInHistory(s, "NeighbourRequest", None, p), e)

\* The Network Hash is sent to all, in packets of their own.  Those gone were
\* silent for 70 s.
Every20Seconds ==
  /\ at = "select"
  /\ \E gone \in SUBSET voisins :
       LET m == ForgetNeighbours(ReaskAll, gone)
           left == voisins \ gone
       IN /\ voisins' = left
          /\ IF left # {} /\ Cardinality(left) < MIN_VOISINS
               THEN \E p \in left : Ends(AskNeighbour(m, p))
               ELSE Ends(m)
  /\ rounds' = ~ rounds
  /\ UNCHANGED <<at, pair, received, any>>

-----------------------------------------------------------------------------
(* A datagram comes from p, a neighbour, somebody who becomes one, or the  *)
(* node itself (None).                                                     *)

Admit(p) == voisins' = voisins \cup ({p} \ {None})

\* Such requests pile up: each Node Hash with AnyId adds one, and removes the
\* oldest Node State Request, which may be another.
AnyRemembered ==
  Cardinality({k \in DOMAIN history : history[k].tlv.id = AnyId})

\* Its TLVs are b; those that do not verify are answered with one Warning.
Receive(p, b) ==
  /\ at = "select"
  /\ TI("NodeHash", AnyId) \in ToSet(b) => AnyRemembered < MaxAny
  /\ at' = "handling"
  /\ Admit(p)
  /\ pair' = p
  /\ received' = Paquet(b)
  /\ any' = \E k \in DOMAIN b : b[k].id = AnyId
  /\ Ends(IF Wrong \in ToSet(b) THEN TryToAddPackage(Memory, p, T("Warning"))
          ELSE Memory)
  /\ UNCHANGED rounds

\* It is no packet: it may be answered with a Warning.
ReceiveNoPacket(p) ==
  /\ at = "select"
  /\ Admit(p)
  /\ \E warn \in BOOLEAN :
       Ends(IF warn THEN SendAnswer(TryToAddPackage(Memory, p, T("Warning")), p)
            ELSE Memory)
  /\ UNCHANGED <<at, pair, received, rounds, any>>

\* receive_tlv is of type t: it is handled, if it has a sender.
Handles(t) ==
  /\ at = "handling"
  /\ received # <<>>
  /\ Head(received).tlv.type = t
  /\ received' = Tail(received)
  /\ UNCHANGED <<at, voisins, pair, rounds, any>>

receive_id == Head(received).tlv.id

ReceiveFromOneself ==
  /\ at = "handling"
  /\ received # <<>>
  /\ pair = None
  /\ received' = Tail(received)
  /\ Ends(Memory)
  /\ UNCHANGED <<at, voisins, pair, rounds, any>>

ReceiveTLVWarning == Handles("Warning") /\ pair # None /\ Ends(Memory)

ReceiveTLVNeighbourRequest ==
  /\ Handles("NeighbourRequest")
  /\ pair # None
  /\ Ends(TryToAddPackage(Memory, pair, T("Neighbour")))

\* An address that is not of a neighbour is sent our Network Hash, in a packet of
\* its own; else the request is answered.
ReceiveTLVNeighbour ==
  /\ Handles("Neighbour")
  /\ pair # None
  /\ \E new \in BOOLEAN :
       Ends(IF new \/ ~ SearchInHistory("NeighbourRequest", None, pair)
              THEN Memory
              ELSE RemoveInHistory(Memory, "NeighbourRequest", None, pair))

\* The request of before is freed, then the new one remembered and sent.
ReceiveTLVNetworkHash ==
  LET o == New(Memory)
      e == Entry(T("NetworkStateRequest"), o, pair)
      m == RemoveInHistory(Alloc(Memory, o), "NetworkStateRequest", None, pair)
  IN /\ Handles("NetworkHash")
     /\ pair # None
     /\ \E same \in BOOLEAN :
          Ends(IF same THEN Memory ELSE Answer(AddInHistory(m, e), pair, e))

\* A Node Hash for each of the Ids tab that we have.
AddHashes(m, p, tab) ==
  LET add[k \in 0 .. Len(tab)] ==
        IF k = 0 THEN m
        ELSE TryToAddPackage(add[k - 1], p, TI("NodeHash", tab[k]))
  IN add[Len(tab)]

ReceiveTLVNetworkStateRequest ==
  /\ Handles("NetworkStateRequest")
  /\ pair # None
  /\ \E known \in SUBSET Id : Ends(AddHashes(Memory, pair, SetToSeq(known)))

\* Our record if it is newer; a request if it differs, put in the packet before
\* the one of before is freed.
ReceiveTLVNodeHash ==
  LET i == receive_id
      o == New(Memory)
      e == Entry(TI("NodeStateRequest", i), o, pair)
      m == Answer(Alloc(Memory, o), pair, e)
  IN /\ Handles("NodeHash")
     /\ pair # None
     /\ IF SearchInHistory("NetworkStateRequest", None, pair)
          THEN \/ Ends(TryToAddPackage(Memory, pair, TI("NodeState", i)))
               \/ Ends(AddInHistory(
                         RemoveInHistory(m, "NodeStateRequest", i, pair), e))
               \/ Ends(Memory)
          ELSE Ends(Memory)

\* Our record, if we have one.
ReceiveTLVNodeStateRequest ==
  /\ Handles("NodeStateRequest")
  /\ pair # None
  /\ \/ Ends(TryToAddPackage(Memory, pair, TI("NodeState", receive_id)))
     \/ Ends(Memory)

\* One that was asked for ends the request.
ReceiveTLVNodeState ==
  /\ Handles("NodeState")
  /\ pair # None
  /\ Ends(RemoveInHistory(Memory, "NodeStateRequest", receive_id, pair))

\* No TLV is left: the answer is sent.
EndOfPacket ==
  /\ at = "handling"
  /\ received = <<>>
  /\ at' = "select"
  /\ pair' = None
  /\ Ends(SendAnswer(Memory, pair))
  /\ UNCHANGED <<voisins, received, rounds, any>>

Handle ==
  \/ ReceiveFromOneself \/ ReceiveTLVWarning \/ ReceiveTLVNeighbourRequest
  \/ ReceiveTLVNeighbour \/ ReceiveTLVNetworkHash
  \/ ReceiveTLVNetworkStateRequest \/ ReceiveTLVNodeHash
  \/ ReceiveTLVNodeStateRequest \/ ReceiveTLVNodeState \/ EndOfPacket

Next ==
  \/ Every20Seconds
  \/ \E p \in Peer \cup {None} :
       \/ ReceiveNoPacket(p)
       \/ \E b \in Bodies : Receive(p, b)
  \/ Handle

Spec == Init /\ [][Next]_vars

(***************************************************************************)
(* Fairness: the loop handles a datagram to its end, and runs              *)
(* every20seconds again and again, whatever comes in between.  A neighbour *)
(* that keeps a record and is sent requests for it again and again answers *)
(* one at last.  Nothing is assumed of the other requests: who has lost a  *)
(* record answers nothing (inondation.c:501), and a Node State without     *)
(* text whose seqno is (uint16_t)-1 is refused (tlv.c:427).                *)
(* Each is said of the few variables that tell the action from the others. *)
(***************************************************************************)
Continues ==
  /\ at = "handling"
  /\ \/ received # <<>> /\ received' = Tail(received) /\ at' = at
     \/ received = <<>> /\ at' = "select" /\ received' = received

NextRound == at = "select" /\ rounds' = ~ rounds

Answered(p, i) ==
  /\ at = "select"
  /\ \E s \in sent : s.to = p /\ s.tlv = TI("NodeStateRequest", i)
  /\ at' = "handling"
  /\ pair' = p
  /\ received' = Paquet(<<TI("NodeState", i)>>)

Fairness ==
  /\ WF_<<at, received>>(Continues)
  /\ SF_rounds(NextRound)
  /\ \A k \in Keeps : SF_<<at, pair, received>>(Answered(k[1], k[2]))

FairSpec == Spec /\ Fairness

-----------------------------------------------------------------------------
(* Properties.                                                             *)

Entries == [tlv : Tlv, obj : Nat, pair : Peer \cup {None}]

TypeOK ==
  /\ at \in {"select", "handling"}
  /\ voisins \subseteq Peer
  /\ pair \in voisins \cup {None}
  /\ received \in Seq(Entries)
  /\ answer \in Seq(Entries)
  /\ history \in Seq(Entries)
  /\ live \subseteq Nat \ {0}
  /\ sent \subseteq [to : Peer, tlv : Tlv, alive : BOOLEAN]
  /\ asked \subseteq [pair : Peer, tlv : Tlv]
  /\ rounds \in BOOLEAN
  /\ any \in BOOLEAN
  /\ BodyLength(answer) <= MAX_BODY
  /\ at = "select" => pair = None /\ received = <<>> /\ answer = <<>>

\* package.c:92: a TLV that was put in the answer is not freed, as TLVs are
\* handled by descending type, by an answer or a new request that removes it from
\* the history before it is sent.  The Id AnyId, which matches every other, is
\* the one exception.
SentAlive == \A s \in sent : s.alive \/ any

\* The history never points to a TLV that a packet has freed, nor twice to one.
HistoryAlive ==
  \A k \in DOMAIN history :
    /\ history[k].obj \in live
    /\ \A j \in DOMAIN history : history[j].obj = history[k].obj => j = k

\* The history is a set, as Flooding has it: the same is not asked twice of one
\* neighbour, or the second answer would leave a request behind.
OneRequest ==
  \A k, j \in DOMAIN history :
    Request(history[j]) = Request(history[k]) => j = k \/ history[k].tlv.id = AnyId

\* What the history says was asked was sent: no request is lost between the
\* packet that was full and the next.  A request is a neighbour and a TLV: one that is
\* asked again counts as sent from the first time on.
RememberedWasSent ==
  at = "select" => \A k \in DOMAIN history : Request(history[k]) \in asked

StillAsked(p, i) ==
  \E k \in DOMAIN history : history[k].pair = p /\ history[k].tlv = TI("NodeStateRequest", i)

\* The requests to p that nobody will answer leave no room for another in a packet:
\* reask, which starts from the oldest, may then leave out the same one each time.
Crowded(p) ==
  LET Lost(e) == Pending(e, p) /\ <<p, e.tlv.id>> \notin Keeps
  IN BodyLength(SelectSeq(history, Lost)) + Size["NodeStateRequest"] > MAX_BODY

\* A request for a record that the neighbour keeps is answered or given up at last,
\* though its datagrams get lost, those pending are more than fit a packet and others
\* are asked for ever; unless those alone fill a packet.
EachAnswered ==
  \A k \in Keeps :
    k[2] # AnyId =>
      (StillAsked(k[1], k[2]) ~> ~ StillAsked(k[1], k[2]) \/ Crowded(k[1]))

-----------------------------------------------------------------------------
\* inondation.c:160, "Réenvoie les données en suspend : TLV avec action SENT dans
\* l'historique".  This is not a property of the system: reask leaves out the
\* request that meets a full packet.
ReasksAll ==
  [][Every20Seconds =>
       \A k \in DOMAIN history : history[k].tlv.type = "NodeStateRequest" =>
         \E s \in sent' : s.to = history[k].pair /\ s.tlv = history[k].tlv]_vars
=============================================================================
