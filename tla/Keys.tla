-------------------------------- MODULE Keys --------------------------------
(***************************************************************************)
(* Who may change the message of a node: the pair of keys it keeps in      *)
(* .keys/ and renews after each change (crypt.c, main.c,                   *)
(* receiveTLVChangeMessage), the clients on its machine that encrypt with  *)
(* the public key they find there (change_msg.c, change_zoo.c), and third  *)
(* parties the user has given the public key.                              *)
(*                                                                         *)
(* One node runs in the directory.  OpenSSL and the disk do not fail; what *)
(* is encrypted with one key is decrypted by its own private key only      *)
(* (external).  A key is written through a buffer that reaches the file    *)
(* when its BIO is freed, after both files have been renamed.              *)
(***************************************************************************)
EXTENDS Integers

CONSTANTS
  Key,        \* bound: the pairs that may be generated
  Changer,    \* the clients dazibao_msg and dazibao_zoo
  Zoo,        \* those that are dazibao_zoo
  Missing, Unwritten,   \* the file is not there; nothing in it yet
  None

ASSUME ZooAssumption == Zoo \subseteq Changer
ASSUME FileAssumption ==
  /\ Missing # Unwritten
  /\ Missing \notin Key /\ Unwritten \notin Key /\ None \notin Key
ASSUME NobodyAssumption == None \notin Changer

VARIABLES
  node,             \* where the node is
  keypair,          \* the pair being generated
  public, private,  \* what is in .keys/public.pem and .keys/private.pem
  generated,        \* all pairs generated (ghost)
  current,          \* those generated since the node was started (ghost)
  opened,           \* how many changes were made with each pair (ghost)
  port,             \* the client that has bound CHANGE_PORT
  changer,          \* the clients: where they are, the key they have read
  net               \* TLVs Change Message on their way

vars == <<node, keypair, public, private, generated, current, opened,
          port, changer, net>>
nodeVars   == <<node, keypair, public, private, generated, current, opened>>
clientVars == <<port, changer>>

Message == [key : Key, empty : BOOLEAN]
Idle    == [at |-> "start", key |-> None]

Init ==
  /\ node = "down"
  /\ keypair = None
  /\ public = Missing
  /\ private = Missing
  /\ generated = {}
  /\ current = {}
  /\ opened = [k \in Key |-> 0]
  /\ port = None
  /\ changer = [c \in Changer |-> Idle]
  /\ net = {}

-----------------------------------------------------------------------------
(* generate_keys, from the pair to the return, in four steps.              *)

\* RSA_generate_key_ex gives a pair that never was; public.pem is opened, and
\* what is written to it buffered.
Generate(since) ==
  /\ node' = "generated"
  /\ \E k \in Key \ generated :
       /\ keypair' = k
       /\ generated' = generated \cup {k}
       /\ current' = since \cup {k}

\* rename("public.pem", ".keys/public.pem")
RenamePublic ==
  /\ node = "generated"
  /\ node' = "public renamed"
  /\ public' = Unwritten
  /\ UNCHANGED <<keypair, private, generated, current, opened>>

\* rename("private.pem", ".keys/private.pem")
RenamePrivate ==
  /\ node = "public renamed"
  /\ node' = "private renamed"
  /\ private' = Unwritten
  /\ UNCHANGED <<keypair, public, generated, current, opened>>

\* BIO_free(pub)
FlushPublic ==
  /\ node = "private renamed"
  /\ node' = "public written"
  /\ public' = keypair
  /\ UNCHANGED <<keypair, private, generated, current, opened>>

FlushPrivateNever ==
  /\ node = "public written"
  /\ node' = "running"
  /\ keypair' = None
  /\ UNCHANGED <<public, private, generated, current, opened>>
\* BIO_free(pri), and generate_keys returns
FlushPrivate ==
  /\ node = "public written"
  /\ node' = "running"
  /\ private' = keypair
  /\ keypair' = None
  /\ UNCHANGED <<public, generated, current, opened>>

GenerateKeys == RenamePublic \/ RenamePrivate \/ FlushPublic \/ FlushPrivate

StartWithOldKeys ==
  /\ node = "down"
  /\ IF private = Missing
       THEN Generate({}) /\ UNCHANGED <<public, private, opened>>
       ELSE node' = "running" /\ current' = {} /\ UNCHANGED <<keypair, public, private, generated, opened>>
\* main: new keys before anything else
Start ==
  /\ node = "down"
  /\ Generate({})
  /\ UNCHANGED <<public, private, opened>>

\* The process dies.  What was not written is lost.
Crash ==
  /\ node # "down"
  /\ node' = "down"
  /\ keypair' = None
  /\ UNCHANGED <<public, private, generated, current, opened>>

-----------------------------------------------------------------------------
\* decrypt_buffer gives a message, and updateData says it is one
Changes(m) == m.key = private /\ ~ m.empty

(***************************************************************************)
(* receiveTLVChangeMessage.  A message that does not decrypt, or is empty, *)
(* is ignored; another is published, and the keys are renewed.  The        *)
(* network may deliver m again later.                                      *)
(***************************************************************************)
ReceiveTLVChangeMessage(m) ==
  /\ node = "running"
  /\ net' \in {net, net \ {m}}
  /\ IF Changes(m)
       THEN /\ opened' = [opened EXCEPT ![m.key] = @ + 1]
            /\ Generate(current)
            /\ UNCHANGED <<public, private>>
       ELSE UNCHANGED nodeVars
  /\ UNCHANGED clientVars

-----------------------------------------------------------------------------
(* dazibao_msg and dazibao_zoo.                                            *)

Moves(c, from) == changer[c].at = from

\* exit: the port is free again
Exit(c) ==
  /\ changer' = [changer EXCEPT ![c] = Idle]
  /\ port' = None

Bind(c) ==
  /\ Moves(c, "start")
  /\ port = None
  /\ port' = c
  /\ changer' = [changer EXCEPT ![c].at = "bound"]
  /\ UNCHANGED net

\* encrypt_message, up to close(fd): is the file there?
Find(c) ==
  /\ Moves(c, "bound")
  /\ IF public = Missing
       THEN Exit(c)
       ELSE changer' = [changer EXCEPT ![c].at = "found"] /\ UNCHANGED port
  /\ UNCHANGED net

ReadOnce(c) ==
  /\ Moves(c, "found")
  /\ IF public = Unwritten /\ changer[c].key = None
       THEN Exit(c)
       ELSE /\ changer' = [changer EXCEPT ![c].at = "read",
                             ![c].key = IF @ = None THEN public ELSE @]
            /\ UNCHANGED port
  /\ UNCHANGED net
\* PEM_read_bio_RSAPublicKey.  With no key in the file the client dies in
\* RSA_size.
Read(c) ==
  /\ Moves(c, "found")
  /\ IF public = Unwritten
       THEN Exit(c)
       ELSE /\ changer' = [changer EXCEPT ![c].at = "read", ![c].key = public]
            /\ UNCHANGED port
  /\ UNCHANGED net

\* sendto.  The message of dazibao_zoo is never empty, and it starts over.
Send(c) ==
  /\ Moves(c, "read")
  /\ \E e \in (IF c \in Zoo THEN {FALSE} ELSE BOOLEAN) :
       net' = net \cup {[key |-> changer[c].key, empty |-> e]}
  /\ IF c \in Zoo
       THEN changer' = [changer EXCEPT ![c].at = "bound"] /\ UNCHANGED port
       ELSE Exit(c)

\* The user stops the client.
Kill(c) ==
  /\ changer[c].at # "start"
  /\ Exit(c)
  /\ UNCHANGED net

-----------------------------------------------------------------------------
\* The user gives away the public key, and who has it uses it once.  That it may
\* be used later, and again, is in what the network may do.
ThirdPartySends ==
  /\ public \in Key
  /\ net' = net \cup {[key |-> public, empty |-> FALSE]}
  /\ UNCHANGED <<nodeVars, clientVars>>

NodeStep == Start \/ GenerateKeys \/ Crash
ClientStep(c) == Find(c) \/ Read(c) \/ Send(c)

Next ==
  \/ NodeStep /\ UNCHANGED <<clientVars, net>>
  \/ \E m \in net : ReceiveTLVChangeMessage(m)
  \/ \E c \in Changer :
       (Bind(c) \/ ClientStep(c) \/ Kill(c)) /\ UNCHANGED nodeVars
  \/ ThirdPartySends

Spec == Init /\ [][Next]_vars

(***************************************************************************)
(* Fairness: the node ends what it does and handles each message that has  *)
(* arrived; dazibao_zoo goes on.  Nobody has to start the node or a client.*)
(***************************************************************************)
Fairness ==
  /\ WF_vars(GenerateKeys /\ UNCHANGED <<clientVars, net>>)
  /\ \A m \in Message : WF_vars(m \in net /\ ReceiveTLVChangeMessage(m))
  /\ \A c \in Zoo : WF_vars(ClientStep(c) /\ UNCHANGED nodeVars)

FairSpec == Spec /\ Fairness

-----------------------------------------------------------------------------
(* Properties.                                                             *)

File == Key \cup {Missing, Unwritten}

TypeOK ==
  /\ node \in {"down", "generated", "public renamed", "private renamed",
               "public written", "running"}
  /\ keypair \in Key \cup {None}
  /\ keypair # None <=> node \notin {"down", "running"}
  /\ public \in File
  /\ private \in File
  /\ generated \subseteq Key
  /\ current \subseteq generated
  /\ opened \in [Key -> Nat]
  /\ port \in Changer \cup {None}
  /\ changer \in [Changer ->
       [at : {"start", "bound", "found", "read"}, key : Key \cup {None}]]
  /\ net \subseteq Message

\* Whenever the node waits for messages, the two files hold the two keys of one
\* pair, in whatever step of generate_keys it died before, and however often:
\* otherwise no change would be possible any more, and no change renews the keys.
PairMatches == node = "running" => private \in Key /\ public = private

\* rapport.pdf p. 9: a public key given away serves for one change only, also if
\* the message comes twice or the node dies and starts again.
OneChangePerKey == \A k \in Key : opened[k] <= 1

\* A message from before the node was started changes nothing.
NoReplay ==
  [][\A k \in Key : opened'[k] # opened[k] => k \in current]_vars

\* dazibao_zoo changes the message again and again, though keys change under it,
\* unless it or the node dies, or no pair is left (the bound Key).
ZooChanges ==
  \A c \in Zoo, k \in Key :
    (node = "running" /\ private = k /\ changer[c].at # "start")
      ~> (node = "down" \/ changer[c].at = "start" \/ opened[k] > 0
          \/ generated = Key)
=============================================================================
