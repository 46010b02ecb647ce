# A verification of dazibao_node

`dazibao_node` is a node of a distributed notice board: every node has an Id and
publishes one short text, and the nodes flood the texts to each other over UDP
until all of them have the same table. This directory holds TLA+ models of the
program, their instances for the model checker TLC, and proofs checked by TLAPS.

Source lines below are of `src/` in the repository, documents of `docs/`.

## 1. Inventory

A node is one process with one thread. Its event loop
(`inondation.c:startCommunication`) runs `every20seconds` when 20 seconds have
gone by, waits for a datagram at most one second, and handles it. So the steps
of one node do not interleave; the concurrency is between nodes, over a network
that loses, duplicates, delays and reorders, and on one machine between the
node, the children it forks and the client programs.

| component | state | operations | talks to |
|---|---|---|---|
| flooding (`inondation.c`) | none of its own | one handler per TLV, `every20seconds`, `reask`, `sendPackage` | all of the below; the other nodes |
| request history (`history.c`) | TLVs sent and not answered, each with the neighbour | add, search, remove one or all, iterate | keeps pointers to neighbours and to TLVs that are also in packets |
| neighbour table (`node.c`) | array of at most 15 neighbours, each permanent or with the time of its last message | `addVoisin`, `isVoisin`, `removeVoisinsInactifs`, `mySelf` | frees neighbours, and forgets their history |
| data base (`database.c`) | array of records sorted by Id; per record the hash; the network hash | `updateDataBase`, `updateMyData`, `initDataBase`, iterators, `stockDatabase` | its cached hashes go out in TLVs |
| TLVs (`tlv.c`) | the text of the last warning | constructors, accessors, `verify` | `verify` uses a fresh data base record |
| packets (`package.c`) | the TLVs of a packet, by descending type | `paquet` (parse), `addTLV`, `build` | the answer packet shares TLVs with the history |
| dump (`stockDatabase`, `print_data.c`) | a file, a lock on it | a forked child writes, a client reads and removes | the node answers the client at once with Pad1 |
| keys (`crypt.c`, `change_msg.c`) | two key files | new pair after each change of message; clients encrypt | clients read the public key at any time |
| start-up (`main.c`, `node.c`) | options, permanent addresses | `addPermanent`, `initVoisins`, `initNode` | |
| STUN (`stun_gestion.c`), `change_zoo.c` | | a blocking exchange; a loop of requests | |

### How the data gets across

Every 20 seconds a node sends its Network Hash to each neighbour. A neighbour
whose hash differs answers with a Network State Request, gets a Node Hash for
each record, and for each of them either sends its own newer record (Node
State) or asks for the other (Node State Request), whose answer is again a Node
State. A node treats a Node Hash or a Node State only if its history has the
request it answers. Records carry a 16-bit seqno compared in circular order;
only the owner of an Id chooses a new one. It also does so when it receives data under
its own Id whose seqno is not older than its own: it then takes the next seqno
and keeps its text, which is how a restarted node, back at its first seqno,
overtakes what the others remember of it.

### What is hard, and what makes each part correct

* flooding: reordering and loss must not bring old data back; restarts must not
  make a node publish its past; requests must be answered or given up; tables
  must converge, also when two texts share a seqno, and although a node may take
  itself for a neighbour; its own data that comes back must not make it raise its
  seqno for ever; publishing the size of the table (`-d`) must settle;
* history and neighbours: a request must not outlive the neighbour it points to;
* data base: sorted whatever the order of arrival, no stale cached hash, our own
  record always there;
* packets: the parser must end and stay in the buffer; a TLV must not be freed
  between the answer packet and its sending; what does not fit a packet must not
  be lost;
* dump: a client must not print a mixture of dumps, must remove the one it read, and
  end, though the file is emptied by one process while others have it open;
* keys: a running node must have a pair that matches, wherever it died before; one
  key must serve for one change, though messages come late and twice;
* start-up and neighbours: no address twice, whatever names and options; a
  silent neighbour must give its place back; start-up must end.

`PROJECT.json` lists these as hazards, each at its line, with the properties
that cover it or the reason why none does.

## 2. Modules

* `Table` - what one call of `database.c` does to the table of a node: the
  circular order of seqnos (`Preceq`, `Succ`), `UpdateDataBase` (`Bump` for our own
  Id, `Replace` for another), `UpdateMyData`, and what `updateData` says of a fresh record
  (`UpdatesFresh`, hence `Verify`). Constant level, no variables.
* `Flooding` - the nodes, their neighbours, histories and tables, and the
  datagrams in flight. One action per handler, named after it
  (`ReceiveTLVNodeHash` is `receiveTLVNodeHash`, ...), `Every20Seconds` with all it calls,
  `ChangeMessage`, `Restart`, and `Ignore` for a sender that is not admitted.
* `MCFlooding` - permanent neighbours, symmetry and sets of types for TLC.
* `PublishedTable` - the abstract specification of a data base: a table, and
  calls that do to it what `Table` says. `Flooding` uses the table in this form.
* `Database` - `database.c` as it is: the array, the insertion before the first
  greater Id, the hash cached in each record, the cached network hash. It
  implements `PublishedTable` under the refinement mapping `Stored`.
* `Packet` - `package.c` and the octets of `tlv.c`: a packet that is filled, built
  and sent; `paquet`, its loop one iteration a step, on our own and on foreign
  datagrams. `MCPacket` gives it octets of 14 values and the datagrams.
* `EventLoop` - one node from datagram to datagram: datagrams of several TLVs, the
  answer packet and its overflow, `reask`, the history as a list, and the TLVs as
  memory that packets and the history point to. `Flooding` has what goes on
  between nodes; here the other nodes send anything.
* `Startup` - from `main` to the loop: options, STUN servers, names. `Neighbours`
  extends it with the running node's array of neighbours and its clock.
  `NeighbourSet` is its abstract specification, the set that `Flooding` uses.
* `Stock` - the dump: the node, the children it forks, `dazibao_read`, the file, the
  lock and the port of the clients.
* `Keys` - the key files: `generate_keys` in steps, `dazibao_msg`, `dazibao_zoo`, third
  parties, crashes.
* `MCEventLoop`, `MCNeighbours`, `MCStock` - sizes, datagrams, names and dumps for TLC.
* `FloodingProofs`, `DatabaseProofs`, `PacketProofs`, `EventLoopProofs`,
  `NeighboursProofs`, `StockProofs`, `KeysProofs` - the theorems, each about the module
  it is named after. `SequenceLemmas` - induction over numbers, and what the operators
  of the library do to sequences, for several of them.

How they compose: `Database` implements `PublishedTable`, and `Flooding` makes no other
calls than those that `PublishedTable` has: this is the theorem `LegalCallsHolds`. `Neighbours` implements `NeighbourSet`, which is what
`Flooding` does to `voisins[n]`. `EventLoop` is the inside of a step of `Flooding` and
leaves the data base open. `Stock` and `Keys` are about processes on one machine that
`Flooding` does not have.

Operators whose definition is followed by no use in `Next` (`BumpInstalls`,
`KeepPair`, `SkipLock`, ...) are faulty variants of the definition below them,
kept to show that a property would notice the fault.

### State and code

| `Flooding` | code |
|---|---|
| `table[n]` | `n -> table`, as a function from Ids; `None` where there is no record |
| `voisins[n]` | `n -> voisins[0 .. nbvoisins-1]`, as a set of addresses |
| `history[n]` | `n -> history`: type, neighbour and, for a Node State Request, Id |
| `net` | datagrams sent and not received, one TLV each |
| `said`, `published` | not in the code: the user's last text, and every (seqno, text) a node had under its Id |

| `Packet` | code |
|---|---|
| `pack` | the `package` being filled, by the node or by `paquet`: `body` and `body_length` |
| `dgram` | `buffer` and `rc`: header fields, and the octets after them |
| `at`, `left` | `current`, from the end of the header, and `contentsize` |
| `warned` | whether `warningPackage` has its TLV Warning (`addTLV` lets in one) |
| `phase` | where the loop of `startCommunication` is; `"ignored"` and `"refused"`: `paquet` returned NULL without and with `package_construction_error` |
| `sent` | not in the code: the TLVs of the packet that was built |

| `EventLoop` | code |
|---|---|
| `pair`, `received`, `answer` | the variables of `startCommunication`, `received` as what `getNextTLV` has left |
| `history` | `h -> content`: TLV, its address and the neighbour, oldest first |
| `live` | the addresses that `malloc` gave and nobody freed |
| `sent`, `asked`, `rounds`, `any` | not in the code: the requests of the last packets, those remembered that were sent, a round, an Id 2^64-1 in the datagram |

| `Startup`, `Neighbours` | code |
|---|---|
| `names`, `results` | `permanents` from `addr` on, the list of `getaddrinfo` from `p` on |
| `server`, `ip`, `inbox` | `i` of `initNode`, `p` of `getPublicIPv4Address`, its socket |
| `found` | whether `IPv4addr` is set |
| `voisins` | `n -> voisins` in the order of the array; `silent` is the time since `last_message` |
| `i`, `elapsed` | `i` of `removeVoisinsInactifs`, the time since `last_send` |
| `skipped` | not in the code: rounds in which the neighbour was passed over |

| `Stock` | code |
|---|---|
| `data_file`, `file`, `lock` | the inode `DATA_FILE` names, what is in each, who has `flock` on it |
| `child[c]`, `reader[r]` | processes in `stockDatabase` and in `print_data.c`: where they are, `fd`, `f`, what was read |
| `port`, `ready` | who has bound `CHANGE_PORT`, a datagram in its socket |
| `harm` | not in the code: `"cut"` if the file was emptied under its reader or its writer was killed, `"mixed"` if one child emptied it while another had it open |

| `Keys` | code |
|---|---|
| `public`, `private` | what is in the two files: nothing yet, or a key |
| `node`, `keypair` | where `generate_keys` is, and its `keypair` |
| `changer[c]`, `net` | the clients, with the key they have read; Change Messages in flight |
| `generated`, `current`, `opened` | not in the code: pairs that were generated, since the last start, changes made with each |

A set does for the history of `Flooding` because each `addInHistory` follows the
removal of an equal entry: `OneRequest` of `EventLoop` says so of the list. In
`RemoveInHistory`, type, Id and neighbour are those of the one entry that can match.

### Abstractions

* Time: in `Flooding` a neighbour that is not permanent may at any `every20seconds`
  have been silent for 70 seconds. This includes every behaviour of the clock, and
  that the neighbour swapped into a free place is looked at one round later;
  `Neighbours` has the clock and the array.
* In `Flooding`, one TLV per datagram. The code puts several together and handles
  those of one packet by descending type; this is one of the orders the model
  allows, and a lost packet loses several TLVs, which the unreliable network can do
  too. `EventLoop` has the packets.
* A node's Id and its address are one value. A node does not change address. It is
  recognised by `mySelf` (`node.c:193`) if it is one of `Recognised`: its address, as
  the others see it, is that of an AF_INET6 interface or was told by a STUN server. Any
  other node - on IPv4 when no STUN server answers, say - admits itself when it hears of its address
  in a TLV Neighbour, and from then on exchanges TLVs with itself.
* SHA-256 is injective: a hash is represented by what is hashed.
* Memory allocation and `sendmsg` succeed.
* After start or restart a node may handle datagrams before its first
  `every20seconds`; the code always runs it first, so the model has more behaviours.
* A Change Message is decrypted; it can only come with `MaxChange` left.
* In `Packet` an octet has `W` values and each field is one or two octets long, so
  that `size`, whose sum is cut to an octet, meets its limit in short bodies. A Pad1
  record has no content. The text of a Warning is left out, and so is who frees
  a TLV (`EventLoop`).
* `Offered`, the TLVs a node puts in its packets, are those its constructors make
  (`Made`). Two are left out, as no other node takes them: a Neighbour at a local address,
  and a Node State with the last seqno and no text (see below). `Foreign` are datagrams
  of at most `MAX_PACKAGE_SIZE` octets, as `recvmsg` cuts them (`Datagram`).
* If a length goes beyond the end of the datagram, which `size` lets happen when it
  wraps, `verify` and the constructors read octets of `Past`.
* `net` is a set: two equal datagrams in flight count as one. With `Unreliable`,
  either may still be delivered again.
* `EventLoop` leaves open what the data base says of a TLV, so it has more behaviours
  than the code: a Node Hash may be newer, different or the same. Sizes are a few
  units. A TLV that nothing points to any more is forgotten: the code loses the memory
  of some (`addTLV` drops a duplicate without freeing it), which no property is about.
  Addresses are numbers. Every `malloc` takes a free one that is at most one more than
  there are in use, so memory is used again at once, which is the worst case for a
  pointer that is stale.
* Requests for the Id 2^64-1, which is -1 as the `int64_t` of `history.c:38` and matches
  every request, pile up in the history: each Node Hash with it adds one and removes
  the oldest Node State Request, which may be another. `MaxAny` bounds this, and
  `SentAlive` and `OneRequest` except it: no node has chosen that Id unless its user
  asked for it (-i).
* `Stock`: a dump is a few pieces, each written or read in one step, though `write` and
  the buffer of `fgets` cut it elsewhere; a reader finds what is in the file at each
  read. Flushing is not modelled, as `write` has no buffer. `open`, `fopen` and `flock`
  fail only where the code and the other processes can make them (no file, lock
  taken). The client does not read the Pad1.
* `Keys`: a key reaches its file when its BIO is freed, as PEM keys are shorter than the
  buffer. OpenSSL does not fail, `decrypt_buffer` gives a text only for a message
  encrypted with the public key of the pair, and `.keys/` is used by one node.
  `KillReader`, `Kill`, `KillChild` and `Crash` may come at any step.
* `Startup`: a name resolves to given addresses or never does. The double free of
  `stun_gestion.c:142` (see below) either goes on as if nothing had been or ends the
  program. The node's interfaces do not change.
* `Neighbours`: `every20seconds` is not late, as `select` waits one second at most and
  time is in units of `ROUND`; datagrams come between rounds.

## 3. Runs

| run | instance | shows |
|---|---|---|
| `MCLossy` | 2 nodes, lossy network, 2 texts, 2 changes, 1 restart, seqnos from 5 of 8 so that they wrap | `TypeOK`, `OwnContent`, `Authentic`, `OwnerAhead`, `NeverOlder`, `SeqnoForText` |
| `MCDiscovery` | 3 nodes, lossy, nodes find and lose each other, two of them also themselves | `HistoryNeighbours` |
| `MCRounds` | 2 nodes, rounds overlap, 1 change, 1 restart | `Quiescent` |
| `MCTie` | 2 nodes; 2 texts of one of them meet under one seqno, and it becomes its own neighbour | `Converges` |
| `MCLine` | 3 nodes in a line, one end with `-d` | `Converges` and `CountsRight` through a node in the middle |
| `MCDatabase` | 3 Ids, ours the middle one, 4 seqnos, every text | `TypeOK`, `Sorted`, `HashesFresh`, `HashOfTable`, `Implements` |
| `MCPacket` | every packet of at most 9 octets that TLVs of each type fill; every foreign body of at most 4 octets, and some longer ones | `TypeOK`, `Ordered`, `BuildFits`, `RoundTrip`, `KeepsWanted`, `EndsUnlessStuck` |
| `MCEventLoop` | 1 neighbour, which keeps 2 of 3 Ids, packets of 5 units, datagrams of 1 to 3 TLVs | `TypeOK`, `SentAlive`, `HistoryAlive`, `OneRequest`, `RememberedWasSent`, `EachAnswered` |
| `MCNeighbours` | 3 names of hosts, 2 STUN servers with 2 addresses, 4 places, 7 addresses | `TypeOK`, `GoneInTime`, `Implements`, `StartsUp` |
| `MCStock` | 2 readers, 1 other client, 2 children, 2 files, a long dump and a short one | `TypeOK`, `ReadsLocked`, `OneDump`, `RemovesWhatItRead`, `ReaderEnds` |
| `MCKeys` | 1 client of each kind, third parties, 3 pairs | `PairMatches`, `OneChangePerKey`, `ZooChanges` |
| `MCReask` | as `MCEventLoop` | a violation of `ReasksAll` |

What the properties say:

* `OwnContent` - a node publishes the text its user last chose since it started,
  whatever comes back from the network.
* `Authentic` - a record, in any table or TLV, pairs a seqno and a text its owner had together.
* `OwnerAhead` - while no node has restarted and an owner has used at most half the
  seqno space, nobody is ahead of it, and equal seqnos mean equal texts.
* `NeverOlder` - under the same condition no step takes a table back.
* `SeqnoForText` - under the same condition a node takes a new seqno with a new text
  only: `updateDataBase` would raise it for identical data too (`database.c:129`), but
  late Node Hashes of its own record never make the node ask for it.
* `HistoryNeighbours` - the history points at present neighbours only.
* `Converges` - once users and crashes stop, all tables become equal for good. In
  `MCTie` also with a node that is its own neighbour.
* `Quiescent` - and then only Network Hashes and the search for neighbours are sent.
* `CountsRight` - with `-d` the number published ends up right.
* `Sorted`, `HashesFresh`, `HashOfTable`, `Implements` - the array of `Database` is
  sorted without duplicates, its caches are fresh, the network hash is that of the
  records of the table by ascending Id, in whatever order they came, and the array
  behaves as `PublishedTable`.

* `Ordered` - the TLVs of a packet go by descending type without duplicates.
* `BuildFits` - `build` copies as many octets as it allocated, and no packet is too long.
* `RoundTrip` - what one node builds, `paquet` gives back at another.
* `KeepsWanted` - of a datagram that is a sequence of TLVs, `paquet` keeps each
  correct one, the first of its key, and warns if one is incorrect. The reference
  (`Cut`, `Wanted`) cuts the body by the sizes as they are, not as `size` says.
* `EndsUnlessStuck` - the loop of `paquet` ends, but for the two places where it
  does not advance: a Pad1 alone in the last octet, and a size that wraps to 0.

* `SentAlive` - a request goes out before anything frees it: the comment at
  `package.c:92` gives the order of TLVs as the reason, and the property says it is one.
* `HistoryAlive` - the history points to memory nobody freed, once to each TLV.
* `OneRequest` - the history is a set. `RememberedWasSent` - it remembers nothing that
  was not sent, whatever packet was full. A request is a neighbour and a TLV: one asked
  again counts as sent from the first time.
* `EachAnswered` - each request for a record that the neighbour keeps is answered or
  given up, though its datagrams get lost, more are pending than fit a packet, and
  some are asked for ever; unless those alone fill a packet (`Crowded`).
* `GoneInTime` - place and rounds missed of a silent neighbour add up to at most
  `MAX_VOISINS`: it goes after at most 14 rounds more. `Implements` - the array is the
  set of `Flooding`. `StartsUp` - start-up ends, unless a name never resolves.
* `ReadsLocked` - a reader, which locks `fd` and reads `f`, never reads while a child
  writes. `OneDump` - it prints the beginning of one dump, never a mixture, though
  `open` empties the file while it reads (`database.c:219`) or a writer is killed; if
  neither happened, the whole of it or nothing. It says nothing of a file that two
  children had open at once. `RemovesWhatItRead` - the reader removes the file it read,
  after the lock is released; a second dump written to that file in between goes too.
  `ReaderEnds` - and ends, whoever else wants the lock.
* `PairMatches` - a node that waits for messages has both keys of one pair.
  `OneChangePerKey` - a key changes the message once (`rapport.pdf` p. 9).
  `ZooChanges` - `dazibao_zoo`, as long as it runs, gets through, though the key is
  renewed under it; it dies if it meets a file without a key (`crypt.c:73`).

One run shows a disagreement between the code and its comments, a finding in
`PROJECT.json`: `MCReask` - `reask`, which "resends the data pending"
(`inondation.c:160`), leaves out the request that meets a full packet
(`inondation.c:178`). `EachAnswered` shows that it is asked at last, once others are
answered, if those that never are leave room for it.

Other disagreements are in the models, where the properties above hold in spite
of them, and have no run:

* `receiveTLVNeighbour` compares the address with the neighbours and not with the
  node's own, so a node told its own address sends itself a Network Hash
  (`inondation.c:334`), which `rapport.pdf` p. 11 says it avoids. If `mySelf` does not
  recognise it, the node becomes its own neighbour, which `rapport.pdf` p. 8 says is no
  problem for the protocol: `Converges` of `MCTie` agrees;
* a request for a record that the neighbour no longer has gets no answer
  (`inondation.c:501`), and one whose answer is refused (`tlv.c:427`) stays as well: both
  are asked again every 20 seconds until the neighbour is forgotten or its record
  comes. If such requests fill a packet, `reask` leaves out the one after them each time,
  and it is never asked again: `Crowded`, which `EachAnswered` excepts. In `MCEventLoop`
  there is one Id of this kind, two requests fill a packet, and `Crowded` is never so;
* `verify` refuses a correct Node State with seqno 65535 and no text (`tlv.c:427`,
  `database.c:64`) and has its sender warned of its hash: `Verify` of `Table`. A node that is
  started again gets to that seqno by outbidding 65534, and then the others do not get
  its record until its text is changed. `Converges` does not hold of these seqnos, so
  the runs that check it have seqnos that start at 0 and do not get there;
* `paquet` does not return from a packet that ends with a Pad1 (`package.c:175`), a TLV
  that `projet.pdf` 3.3 says is ignored: the place `EndsUnlessStuck` excepts;
* an unknown TLV of length 254 or 255 makes `paquet` lose another (`tlv.c:343`), which
  `projet.pdf` 3.3 says is handled as usual: `SizeFits` of `Packet`, which
  `KeepsWanted` excepts;
* our own, identical data makes us raise our seqno (`database.c:129`; `projet.pdf` 4.3
  asks for nothing to be done). `SeqnoForText` shows that without a restart this never
  comes to it;
* a Neighbour Request answered with an unknown address stays in the history
  (`inondation.c:352`; `rapport.pdf` p. 10 has every answered request removed);
* the `continue` after a wrong identifier (`stun_gestion.c:143`) is that of the loop over
  the words of the identifier, so the buffer is used after it is freed; the one after
  a wrong family (`:155`) is that of the loop over attributes;
* a name that does not resolve is tried for ever (`node.c:71`): `Stuck`, which `StartsUp`
  excepts;
* `database.c:219` empties the dump before it has the lock. So a reader may print part
  of a dump (`"cut"`); and when two children are between `open` and the end, a mixture of
  two (`"mixed"`, of which `OneDump` says nothing);
* a reader may have the lock before the child has, find the file empty and print
  nothing, where the comment at `print_data.c:130` has it wait for the end of the
  modification: `OneDump` allows nothing to be printed.

### Bounds

Each bound is a constant of the module the run is about.

* `HALF` is half the seqno space (32768 in the code). In `MCLossy` it is 4 and seqnos
  start at 5, so that they wrap within a few steps, over (uint16_t)-1; 4 or 8 leaves
  room for the changes a run allows without leaving the half space in which the order
  means something.
* `MaxChange`, `MaxRestart` count what users and crashes do, `Active` names the
  nodes they do it to. One restart is what it takes for a node to meet its own past,
  and one change more for its new seqno to tie with an old one.
* `NetCap` bounds the datagrams in flight when the network is lossy. A lossy
  network may drop what does not fit, so the bound takes no fault away: three
  at a time let an old Node State, its newer one and a hash overtake each
  other, two a duplicate and a new one; `MCDiscovery`, about neighbours and history only, has one.
* `Overlap` are the types of TLVs that may be in flight for more than 20
  seconds; the others arrive before their sender's next round (`RoundOver`). The
  run `MCLossy` has all types in it, `MCRounds` and `MCDiscovery`
  those that end a round (requests for a Node State, their answers, and the
  search for neighbours).
  In runs with `Overlap = {}` a round ends before the next begins.
* `MAX_VOISINS` is 1 or 2 so that the table of neighbours fills; `MIN_VOISINS` of the
  same size keeps nodes with a free place asking for neighbours. In `MCTie` the second place
  is the one that the node that is not recognised comes to take itself.

* In `MCPacket`, `W = 14` leaves room for every type and two unknown ones; lengths 12
  and 13 are then those for which `size` wraps, as 254 and 255 are for octets.
  The shortest Node State has 5 octets, so bodies of 5 octets hold each kind of
  TLV, or two or more of the shorter ones; bodies of two TLVs of up to 9 octets
  are in `PairBodies`. Packets fill up at 9 octets.

* In `MCEventLoop` two requests, or two answers, fill a packet, so three Ids overflow
  it both ways. One neighbour is enough, as the history keeps those of each apart.
  The datagrams are each TLV alone, every pair of those that ask or answer, in both
  orders and twice the same, a table of Node Hashes, and one TLV that does not verify.
* In `MCNeighbours`, four places let two neighbours be swapped past the place looked at
  in one round. `ROUND` and `SILENCE` are 1 and 3 for 20 and 70 seconds, so a neighbour
  is due after more than three rounds, as in the code.
* In `MCStock`, two children and two readers are what it takes for one to open, lock or
  remove what another has; a second dump shorter than the first shows what is
  left of it. `Inode` bounds the files open at a time: two are in use when a child
  makes a new one while a reader still has the old. One TLV Stock waits at a time.
* In `MCKeys`, three pairs allow a change and two restarts, or two changes and one.

### Fairness

`FairSpec` is used with a reliable network only. `every20seconds` is called from
the loop again and again, whatever else arrives (the test of the clock comes
before each `select`, which waits at most a second). It is given strong fairness,
as the bound `RoundOver` disables it for a time that the program does not know.
A datagram in flight arrives and is handled: weak fairness for each sender,
receiver, type and Id. Nothing says which of two datagrams of one kind is first.

In `Packet`, the loop of `paquet` goes on until it ends: weak fairness of `Parse`, which
nothing interrupts in a program of one thread.

In `EventLoop`, a datagram is handled to its end and `every20seconds` comes again and
again; and for each pair of `Keeps`, a neighbour and the Id of a record that it keeps and
that no test of the receiver refuses, if the request is sent again and again, an answer
arrives at last (strong fairness: most of the datagrams may be lost). Nothing of the kind is
assumed of other requests: `receiveTLVNodeStateRequest` answers none for a record it does
not have (`inondation.c:501`), and an answer with seqno 65535 and no text is refused (`tlv.c:427`).
In `Neighbours`,
start-up goes on, also when no STUN answer comes, as the code waits for each a second
only. In `Stock`, the node handles what it has received, and each child and client
goes on unless it waits for the lock; nothing is assumed of the order in which the
lock is given. In `Keys`, the node ends `generate_keys` and handles what has arrived,
and `dazibao_zoo` goes on; nobody has to start the node again.

`Converges`, `Quiescent` and `CountsRight` are checked without loss: a network
that loses for ever defeats them, and no scheduling of the program excludes it.

## 4. Proofs

TLC checks small instances; the theorems hold for every value of the constants that the
assumptions of the modules allow. Every safety invariant and every action property that
a run checks is a theorem.

The assumptions, each named in the module that declares the constant:

* `Table`, `Flooding`: `HALF >= 2`; `Empty` is not one of `Text`, nor is what `-d` publishes,
  which has 32 octets; `None` is not a record; `Recognised` is a set of
  nodes, to which `Permanent` gives other nodes; the first seqno is not (uint16_t)-1 (with which `initNode` fails); `OptD` and `Active` are sets
  of nodes. `Database`: Ids are naturals.
* `Packet`: an octet has room for every type, and sizes of fields are naturals; a packet
  has room for its header; `Offered` are TLVs of the constructors, and `Foreign`
  datagrams of any content. In the code `W` is 256.
* `EventLoop`: a TLV fits an empty packet; neighbours and Ids are finitely many, and the
  datagrams that come are sequences of TLVs; `Keeps` are pairs of the two.
* `Stock`, `Keys`, `Startup`, `Neighbours`: limits are naturals, a silence and a round longer
  than zero, dumps not empty, values that stand for nothing distinct from those that
  stand for something.

No set is assumed finite but those of `EventLoop`.

`SequenceLemmas`: the library states induction with an operator as a parameter, which
the provers cannot instantiate, but it also proves that the order of the naturals is
well-founded, as a fact about sets. From it come `Induction`, over a set of numbers, and
`Recursion`, by which a recursive function over numbers is what its definition says. So
the models' folds and recursive functions can be reasoned about: the sum of the sizes of
TLVs, the octets of a packet, the loop of the handlers, all the ways to cut a body.

`FloodingProofs`:

* `TypeCorrect` - `TypeOK` is inductive as it stands: besides the types it says
  that each node has data of its own, which `UpdateMyData` relies on.
* `OwnContentHolds` - inductive with `TypeOK`. The one step that could break it is a
  Node State under our own Id, where `UpdateDataBaseFacts` says the text stays.
* `HistoryNeighboursHolds` - by itself: a request is added only for a sender that
  is a neighbour after the step, or for a neighbour left after the removal.
* `AuthenticHolds` - inductive with `TypeOK`, since `published` only grows and each
  TLV carries a record of the table of its sender (`AuthStep`, `SendAuth`).
* `OwnerAheadHolds` - the strengthening is `Series(i)`: `published[i]` is finite and, while
  `InOrder(i)`, the age of the owner's seqno (its distance from the first) plus one is the number
  of records published, none of them is older or has the seqno of another. So a record
  under a new seqno is one more, and the owner's age stays below `HALF`, where the circular
  order is that of the ages (`AgeOrder`). The seqno of a bump is that of the owner's
  own record plus one, since nobody is ahead of it.
* `NeverOlderHolds` - from the same invariant, by what a step may do to one record (`Moves`).
* `SeqnoForTextHolds` - from the same invariant and `NotAsking(n)`: while it is in order,
  a node remembers no request for its own record. A Node Hash of it pairs what it
  published once, so the record is the same or the node's is newer (`NodeHashOfOwn`), and
  the node does not ask (`HandleAsks`); so it takes no Node State of its own, and what is
  left, `updateMyData`, raises the seqno for another text only (`StepSeqnoFollowsText`).
* `LegalCallsHolds` - a step changes a table only by `updateDataBase` with data that
  `updateData` accepts, by `updateMyData` with a text that is not empty, or by a start:
  what `Database` needs so that no record is without its hash. From `TypeOK`, handler by
  handler.

`DatabaseProofs`: the inductive invariant is `IInv == TypeOK /\ Sorted /\
HashesFresh /\ Splittable`. `Splittable` says that for every Id there is a place in
the array below which no Id is greater and from which on every one is. This is
what the choice in `After` needs, and it follows from `Sorted` only by induction
on the length of the array; carried as an invariant, one insertion keeps it.
From `IInv` follow `ArrayTypeCorrect`, `SortedHolds`, `HashesFreshHolds`,
`HashOfTableHolds` and the refinement `ImplementsHolds`. For the first, the place of a record
in the array is the number of smaller Ids in the table, as the places below it and
those Ids are as many (`IdsOfPlaces`). For the second,
`UpdateDataBaseTable` and `UpdateMyDataTable` show more than the theorem says: each call on the
array is the same call, with the same data, on the table.

`NeighboursProofs`: the inductive invariant is `IInv == TypeOK /\ Places /\ Calm`.
`Places` strengthens `GoneInTime` by where `removeVoisinsInactifs` is: a neighbour
that is due and whose place was already passed in this round must be one place
nearer to the first than its count says, as it came there by a swap. `Calm` says
that there are no neighbours before `initVoisins`, and that a pass is under way only in
a round, so no clock runs in the middle of one. `ImplementsHolds` maps each step to one of `NeighbourSet`: the
removal to `Forget`, `addVoisin` to `Add`, the STUN answer to `Learn`, the clock to `Wait`.

`StockProofs`: the inductive invariant is `IInv == Types /\ PortHeld /\ FilesHeld /\
LocksHeld`. `PortHeld`: a client that has begun has `CHANGE_PORT`, so there is one.
`FilesHeld`: while it is between `open` and `remove`, `DATA_FILE` names the file it has
opened, as only a client removes it; so `fd` and `f` are one file. `LocksHeld`: who
reads or writes has the lock on `fd`. `ReadsLocked` follows from the three, and
`RemovesWhatItRead` from the second.

`KeysProofs`: the inductive invariant is `IInv == TypeOK /\ FreshPair /\ UsedOnce /\
ReadsKey`. `FreshPair`: the pair that `generate_keys` is putting in place, and the one in
the files of a node that waits, is of this start and has served for no change; the two
files agree once the node waits. `UsedOnce`: a pair has served at most once, and only if
it was generated, so a new pair was never used. `ReadsKey`: a client that goes on has
found the file and read a key in it. From it follow `PairMatchesHolds`,
`OneChangePerKeyHolds` and `NoReplayHolds`: after a start no older key decrypts anything.

`OneDumpHolds` adds `Sound`, which says of a file that no child emptied while another had it
open: at most one child writes to it, from its beginning, and what is there is what it
has written so far of its dump (`FileSound`); without a child it is the beginning of one,
and the whole or nothing if no child was killed. What a reader has read is the
beginning of what is in the file, or of a dump that was there before the file was
emptied, and then nobody has written to it since (`ReadSoFar`): this needs `IInv`, as the reader
has the lock that a child must take before it writes.

`EventLoopProofs`: the inductive invariant is `Inv`, which says of the memory (`Sound`) that
the history has allocated TLVs only, each once and no request twice (`Distinct`), that
history and answer packet agree on what is at an address (`Shared`), that what is
remembered was sent or is in the answer (`Remembered`), and that each request in the answer
is allocated. The last is what `package.c:92` relies on, and it is kept because of
the order of TLVs: `AllSpare` says that no TLV that is still to be handled ends a
request that is in the answer, and is kept as `received` is ordered. From it follow
`EventLoopTypeCorrect`, `SentAliveHolds`, `HistoryAliveHolds`, `OneRequestHolds` and
`RememberedWasSentHolds`.

`PacketProofs`: `Packed == TypeOK /\ Sound(pack) /\ Started` is inductive and gives
`PacketTypeCorrect`, `OrderedHolds` and `BuildFitsHolds`: `addTLV` puts a TLV at the place that
keeps the order, and adds its size to `body_length` and as many octets to what `build`
copies. `Inv` adds what `paquet` has done: while it parses a body that is a sequence of TLVs
(`Cuts`), it is between two of them, has taken the first of each key of those before, and
warned if one was incorrect (`Reading`); at the end it has done so for all (`Read`); and
the datagram of a packet that was sent is such a sequence (`Sending`), so that all of
them fit the packet again, in their order. `RoundTripHolds` and `KeepsWantedHolds` follow,
the latter with `CutFacts`: the sequences that `Cut` computes are those the octets
encode, by induction from the end of the body. `AdvancesHolds` is the step of
`EndsUnlessStuck`: each turn of the loop that is not `Stuck` ends it or consumes octets.

Not proved: the liveness properties, which are out of reach of the prover and stay with
TLC: `Converges`, `Quiescent`, `CountsRight`, `EndsUnlessStuck`, `ReaderEnds`, `ZooChanges`,
`StartsUp` and `EachAnswered`.

## 5. Plan

Everything in the plan of modules is done: `Table`, `Flooding`, `PublishedTable`,
`Database`, `Packet`, `EventLoop`, `Neighbours`, `Stock`, `Keys`, `Startup`.

Every safety property is proved. Left, were the project to go on: the steps that the
liveness properties repeat, as `AdvancesHolds` is for the parser; a composition of
`EventLoop` with several nodes in place of the open data base, which is beyond what TLC
explores.

## 6. Not modelled

The Makefile. Of the modelled parts: the creation and binding of the socket of the
node, and the source address that answers to a neighbour are sent from
(`updateReceiveWith`), which only matters to routers; the logging of Warnings, a file
the program never reads; failures of `malloc` and `sendmsg`; option `-f`, which only
forks before the loop; the texts that are printed, and the hexadecimal form of the
dump. OpenSSL, the resolver, the STUN servers and the kernel are external, modelled by
what the code uses of them.
