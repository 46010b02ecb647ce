------------------------------ MODULE Startup ------------------------------
(***************************************************************************)
(* From main to the event loop: the options, the node's public address     *)
(* asked of STUN servers (stun_gestion.c) and the first neighbours         *)
(* (initVoisins).  The resolver, the STUN servers and the sockets are      *)
(* external.                                                               *)
(***************************************************************************)
EXTENDS Integers, Sequences

CONSTANTS
  Addr,        \* IP addresses with a port
  Self,        \* loopback, and those of the node's AF_INET6 interfaces
  Public,      \* the node's public address, which a STUN server can tell
  Valid,       \* those verifyIP accepts
  Name,        \* names given on the command line
  Resolves,    \* name -> the addresses getaddrinfo gives
  Never,       \* the names it never resolves
  Lists,       \* bound: the lists of names on the command line
  NB_SERVERS,  \* STUN servers
  NbIps,       \* bound: IP addresses of a STUN server
  MAX_VOISINS

ASSUME AddrAssumption == Self \subseteq Addr /\ Valid \subseteq Addr /\ Public \in Addr
ASSUME NameAssumption ==
  /\ Never \subseteq Name
  /\ Resolves \in [Name -> Seq(Addr)]
  /\ Lists \subseteq Seq(Name)
ASSUME LimitAssumption == MAX_VOISINS \in Nat /\ NB_SERVERS \in Nat /\ NbIps \in Nat

VARIABLES
  at,          \* where the program is
  opt_n,       \* option -n
  names,       \* permanents, from addr on
  results,     \* the list getaddrinfo gave, from p on
  server,      \* the STUN server in use
  ip,          \* the address of it in use
  flying,      \* answers on their way to the socket
  inbox,       \* answers in the socket
  found,       \* is IPv4addr the public address?
  voisins,     \* the array of neighbours
  elapsed      \* time since the last every20seconds

startVars == <<at, opt_n, names, results, server, ip, flying, inbox, found>>
vars == <<startVars, voisins, elapsed>>

Voisin(a, permanent) ==
  [addr |-> a, permanent |-> permanent, silent |-> 0, skipped |-> 0]

StartInit ==
  /\ at = "main"
  /\ opt_n = FALSE
  /\ names = <<>>
  /\ results = <<>>
  /\ server = 1
  /\ ip = 1
  /\ flying = 0
  /\ inbox = 0
  /\ found = FALSE
  /\ voisins = <<>>
  /\ elapsed = 0

\* The addresses the node takes for its own: an IPv4 one, mapped into IPv6, only if
\* a STUN server has told it, whatever the interfaces have.
mySelf == IF found THEN Self \cup {Public} ELSE Self

AddrIn(v) == {v[k].addr : k \in DOMAIN v}

AddUnchecked(v, x) ==
  IF x.addr \notin Valid \/ x.addr \in mySelf THEN v ELSE Append(v, x)
\* addVoisin
AddVoisin(v, x) ==
  IF \/ Len(v) = MAX_VOISINS
     \/ x.addr \notin Valid
     \/ x.addr \in mySelf
     \/ x.addr \in AddrIn(v)
    THEN v
    ELSE Append(v, x)

-----------------------------------------------------------------------------
\* The options.  The port of the clients is refused.
Main ==
  /\ at = "main"
  /\ \/ at' = "exited"
     \/ at' = "server"
  /\ opt_n' \in BOOLEAN
  /\ names' \in Lists
  /\ UNCHANGED <<results, server, ip, flying, inbox, found, voisins, elapsed>>

-----------------------------------------------------------------------------
(* initNode: the STUN servers one after the other, until one has answered. *)

STUNStep == UNCHANGED <<opt_n, names, results, voisins, elapsed>>

SameServer == UNCHANGED server
NextServer == server' = server + 1

\* It is over: nothing of it is read again.
LeaveSTUN ==
  /\ at' = "neighbours"
  /\ server' = 1 /\ ip' = 1
  /\ flying' = 0 /\ inbox' = 0

\* The servers are used up; or the name of this one is resolved or not.
ResolveServer ==
  /\ at = "server"
  /\ STUNStep
  /\ UNCHANGED found
  /\ \/ server > NB_SERVERS /\ LeaveSTUN
     \/ server <= NB_SERVERS /\ NextServer /\ UNCHANGED <<at, ip, flying, inbox>>
     \/ server <= NB_SERVERS /\ at' = "send" /\ ip' = 1 /\ UNCHANGED <<server, flying, inbox>>

\* No address of it is left and its socket is closed; or the request cannot be
\* sent; or it is sent, and may be answered.
SendRequest ==
  /\ at = "send"
  /\ STUNStep
  /\ UNCHANGED found
  /\ \/ /\ ip > NbIps
        /\ at' = "server"
        /\ NextServer
        /\ flying' = 0 /\ inbox' = 0
        /\ UNCHANGED ip
     \/ /\ ip <= NbIps
        /\ ip' = ip + 1
        /\ UNCHANGED <<at, server, flying, inbox>>
     \/ /\ ip <= NbIps
        /\ at' = "read"
        /\ flying' \in {flying, flying + 1}
        /\ UNCHANGED <<server, ip, inbox>>

\* An answer comes, in time or after the second it was waited for.
Arrive ==
  /\ flying > 0
  /\ flying' = flying - 1
  /\ inbox' = inbox + 1
  /\ STUNStep
  /\ UNCHANGED <<at, server, ip, found>>

NextAddress == at' = "send" /\ ip' = ip + 1 /\ UNCHANGED <<server, flying, found>>

\* The answer gives the public address, or is of another kind.  An answer to an
\* earlier request (the continue after a wrong identifier is that of the loop
\* over its words) and an address that is not IPv4 free the buffer, which is used
\* and freed again: the same outcomes, or the allocator notices.
ReadAnswer ==
  /\ at = "read"
  /\ inbox > 0
  /\ STUNStep
  /\ \/ LeaveSTUN /\ found' = TRUE
     \/ NextAddress /\ inbox' = inbox - 1
     \/ at' = "crashed" /\ UNCHANGED <<server, ip, flying, inbox, found>>

\* SO_RCVTIMEO
ReadTimeout ==
  /\ at = "read"
  /\ inbox = 0
  /\ STUNStep
  /\ NextAddress
  /\ UNCHANGED inbox

-----------------------------------------------------------------------------
(* initVoisins.                                                            *)

NamesStep == UNCHANGED <<opt_n, server, ip, flying, inbox, found, elapsed>>

\* As long as a name does not resolve it is tried again.
ResolveName ==
  /\ at = "neighbours"
  /\ ~ opt_n
  /\ names # <<>>
  /\ Head(names) \notin Never
  /\ at' = "results"
  /\ results' = Resolves[Head(names)]
  /\ NamesStep
  /\ UNCHANGED <<names, voisins>>

\* A permanent neighbour, unless addVoisin refuses it.
AddResult ==
  /\ at = "results"
  /\ results # <<>>
  /\ results' = Tail(results)
  /\ voisins' = AddVoisin(voisins, Voisin(Head(results), TRUE))
  /\ NamesStep
  /\ UNCHANGED <<at, names>>

FreeResults ==
  /\ at = "results"
  /\ results = <<>>
  /\ at' = "neighbours"
  /\ names' = Tail(names)
  /\ NamesStep
  /\ UNCHANGED <<results, voisins>>

\* The end of initVoisins, which exits without a neighbour, and of initNode.  The
\* options are not read again.
StartCommunication ==
  /\ at = "neighbours"
  /\ opt_n \/ names = <<>>
  /\ at' = IF opt_n \/ voisins # <<>> THEN "running" ELSE "exited"
  /\ opt_n' = FALSE /\ names' = <<>>
  /\ UNCHANGED <<results, server, ip, flying, inbox, found, voisins, elapsed>>

StartStep ==
  \/ Main \/ ResolveServer \/ SendRequest \/ ReadAnswer \/ ReadTimeout
  \/ ResolveName \/ AddResult \/ FreeResults \/ StartCommunication

Starting == StartStep \/ Arrive

\* A name that does not resolve keeps the node from starting.
Stuck == at = "neighbours" /\ ~ opt_n /\ names # <<>> /\ Head(names) \in Never

StartTypeOK ==
  /\ at \in {"main", "server", "send", "read", "neighbours", "results",
             "running", "exited", "crashed"}
  /\ opt_n \in BOOLEAN
  /\ names \in Seq(Name)
  /\ results \in Seq(Addr)
  /\ server \in 1 .. NB_SERVERS + 1
  /\ ip \in 1 .. NbIps + 1
  /\ at \in {"send", "read"} => server <= NB_SERVERS
  /\ at = "read" => ip <= NbIps
  /\ at = "results" => names # <<>>
  /\ flying \in Nat /\ inbox \in Nat
  /\ found \in BOOLEAN

\* Start-up ends, whatever the STUN servers do, unless a name never resolves.
StartsUp == <>(at \in {"running", "exited", "crashed"} \/ Stuck)
=============================================================================
