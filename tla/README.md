# KayakNet in TLA+

Specifications of the KayakNet daemon: what its parts do, checked with TLC on
small instances, and what of that is proved with TLAPS for every instance.
Every definition is translated from the Go source; `PROJECT.json` names the
lines each one stands for. Paths below are relative to the repository, and
`main.go` is `cmd/kayakd/main.go`, `market.go` is `internal/market/market.go`,
and so on.

## 1. The system

A KayakNet node is one process, `kayakd`. It talks UDP to other nodes, serves
HTTP to its user's browser, and keeps its state in memory and in one JSON file
per manager. Everything meets in `cmd/kayakd/main.go`.

| Component | Source | State | Operations | What makes it correct |
|---|---|---|---|---|
| Node and message pipeline | `cmd/kayakd/main.go` | `connections`, `seenMessages`, `running` | `handleMessage` and the handler per message type, `sendDirect`, `broadcast`, `broadcastGossip`, `forwardMessage`, `maintenance`, `Stop` | a message is handled once; it reaches every node; neighbours are forgotten when they are gone and not before; no datagram of a node that follows the program ends the process or its author's welcome |
| Nonces and signatures | `internal/security/crypto.go` | `NonceTracker.seen` | `Check`, `evictOldest`, `cleanup` | no nonce is accepted twice inside its window |
| Rate limiter, bans, scores | `internal/security/ratelimit.go` | buckets, ban entries, counters per peer | `Allow`, `Ban`, `IsBanned`, `Record...`, cleaners, files | nobody exceeds the rate; a ban ends |
| Proof of work | `internal/security/pow.go` | pending challenges, verified nodes | `GenerateChallenge`, `VerifyProof`, `IsVerified`, `cleanup` | a node that answers is verified, again and again |
| Escrow manager and wallet | `internal/escrow/` | escrows, addresses, payments, `escrows.json` | create, check, confirm, ship, release, refund, dispute, resolve, cancel, two maintenance passes | an order is settled once, for one party; the money follows the state; nobody waits for ever |
| Name service | `internal/names/names.go` | registrations, names per owner | register, update, renew, transfer, receive, import, clean | the newer registration wins at every node; a name is listed for its owner; a term is not cut short |
| Persistence | `Save` and `loadData` of every manager | one file and its temporary name | two protocols, section 3.2 | what was saved is there after a restart |
| Generic store | `internal/persist` | none of its own | `Save`, `Load` under a mutex | nothing calls it, section 8 |
| Marketplace: orders | `internal/market/market.go` | orders, their indexes, conversations, disputes, escrow records, reviews, `market.json` | order, pay, ship, complete, dispute, resolve, review, write | the indexes agree with the maps, also after a restart; one dispute at a time; what is paid is not cancelled |
| Marketplace: listings | `market.go`, `main.go` | `listings`, `myListings` at every node | create, announce, receive, fetch and import the bootstrap's page, remove, clean | what is for sale comes to every node; a signed copy is not lost to an unsigned one |
| Chat rooms | `internal/chat/chat.go` | rooms, users, two kinds of locks | send, receive, import, join, edit, list | no message twice, none lost, no lock held for ever |
| Direct messages | `internal/chat/chat.go` | conversations, block list, `chat.json` | send, receive, read, clear, delete, block | a message is listed once, under its peer; the badge counts messages that are there |
| Onion, DHT, peer tables | `internal/onion`, `internal/dht`, `main.go` | relays, circuits, buckets, `connections`, `mixer.peers` | enter, sweep, find, choose hops, wrap, unwrap | the tables agree; a circuit has its hops and they can open their layers |
| End-to-end encryption | `internal/e2e/e2e.go` | known keys and their file | derive, seal, open | what is sealed for a peer that peer can open |
| Mixer | `internal/mix/mix.go` | peers of cover traffic, queues | queue, batch, send, start, stop | what is queued is sent; stopping is safe |
| Kayaker feed | `internal/kayaker` | SQLite tables and counters | post, follow, like, import | counters agree with rows |
| Publish and subscribe | `internal/pubsub/pubsub.go` | topics, bounded channels | subscribe, publish, deliver, close | no message lost or handled after the end |
| Capabilities, peer store | `internal/cap`, `internal/peer` | capabilities, known peers | store, check, revoke, evict | nothing revoked or expired gives access |
| Browser proxy, updater, hardware keys, configuration, identity, command line, mobile binding | the rest | little or none | straight-line I/O | not modelled, see section 8 |

How they interact: a datagram becomes a goroutine running `handleMessage`,
which takes the locks of the ban list, the rate limiter, the scorer, the nonce
tracker, the connection table, `seenMessages`, the router and the DHT one after
the other and then calls one manager. HTTP handlers call the same managers from
goroutines of their own. Each manager has one lock, the chat manager one more
for every room and conversation. `go Save()` after a change, `maintenance`
every 30 seconds and `Stop` all write the manager's file. `periodicSync` fetches
names, chats and listings from the bootstrap node's pages every 10 seconds. The
escrow manager calls the wallet, which calls two chain daemons over RPC; a
separate goroutine runs the two escrow passes every minute.

What is hard: the stages of two datagrams interleave between locks; forwarding
goroutines read tables later than the message that spawned them; copies come
late, twice and by other ways; an object is found under one lock and used under
another; a file is encoded from live maps while calls change them; two saves
share a temporary name; a process may end between two writes; wallet state is
not persisted and escrow state is; timers race with users; clocks disagree.
`PROJECT.json` lists the most important places under `hazards` with the
properties that cover them.

## 2. Modules

    EscrowCustody <-- refined by -- Escrow <- MCEscrow         EscrowProofs
                                    Names <- MCNames           NamesProofs
                                    Gossip <- MCGossip         GossipProofs
                                    Overlay <- MCOverlay       OverlayProofs
                         RWMutex <- Chat <- MCChat             ChatProofs
                    DirectMessages <- MCDirectMessages         DirectMessagesProofs
                                    SaveFile <- MCSaveFile   } NodeProofs
                                    Admission <- MCAdmission }
                                    Orders <- MCOrders       } MarketProofs
                                    Listings <- MCListings   }

Each component module declares its parameters as CONSTANTS with named
assumptions, has one action per operation under the name the source gives it,
and ends with its properties. `MC...` modules only name the values of the
constants. `...Proofs` modules extend the component and TLAPS; `NodeProofs` and
`MarketProofs` extend two, which is why `SaveFile` and `Listings` say `SaveSpec`,
`SaveInit`, `ListingsSpec`, `ListingsTypeOK` and so on where the others say
`Spec`, `Init`, `TypeOK`. An operator
whose comment begins with "Variant:" is not part of the specification: it is
the operation with a plausible mistake in it, and `PROJECT.json` says which
property tells the two apart.

`Admission`, `Gossip` and `Overlay` are three views of one path, that of a
datagram through `handleMessage`: what lets it in, who gets it, and whom the
node knows by it. Where one of them abstracts from another's part, it allows
all that part can do: a datagram that `Admission` refuses is one that `Gossip`
and `Overlay` never see, which is a lost one there.

## 3. What is modelled

### 3.1 Escrow (`Escrow`, abstract specification `EscrowCustody`)

One `EscrowManager` with its `CryptoWallet`, its file and the chain.

| In the module | In the code |
|---|---|
| `escrows[o]` (state, currency, payment id, auto-release armed, time left) | `EscrowManager.escrows`; an escrow is identified with its order, since both ids are random |
| `addresses`, `payments` | `CryptoWallet.addresses`, `.payments`, in memory only |
| `deposit`, `conf` | what is on the chain: external, driven by `Deposit` and `Confirm` |
| `disk`, `snapshot`, `saving` | `escrows.json` and a `Save` between its start and its end |
| `moved` | history: what the wallet settled |
| one action per method, under the method's name | each holds `m.mu`, so each is one step |
| `SaveStart`, `SaveFinish` | `Save` gives the lock back before it encodes live records (`escrow.go:150`): what it writes may mix old and new field by field (`Torn`) |
| `Restart` | end of the process and `loadData`: the wallet starts empty |
| `ProcessAutoReleases`, `ProcessExpiredEscrows` | the two passes of `main.go`'s minute ticker, each over all escrows in one step |

`EscrowCustody` is what an escrow service promises, without wallet, timer and
file: an order is open, then held, then ends once, and the money moves in that
very step. `EscrowRefinement` maps states to phases and the payment's status
to where the money is.

### 3.2 Persistence (`SaveFile`)

Every manager rewrites its file in one of two ways: `shared` (names, chat,
market, escrow: a temporary file that is renamed, with no lock held) and
`inplace` (bans, scores, keys, peers: the file itself is truncated and written
under the read lock). What a file holds is a version number. Files are inodes,
so that a renamed or removed file is still the one its writer has open. Actions
are the call of `Save` (`Begin`), the system calls (`Create`, `Encode`,
`Truncate`, `Write`, `Rename`), a refused call (`Fail`: opening, writing or
renaming), a change of the state (`Mutate`) and `Restart`. `Save` takes
references under the lock and the encoder reads what they refer to later:
`Encode` finds the state as it is then or, where a reference is a slice, as it
was when `Save` was called. Only the process fails, not the machine: the code
never calls `Sync`, and nothing is said about power loss. What a version holds
when the encoder reads maps that change is the matter of `Escrow`, `Orders`,
`Listings`, `DirectMessages`.

`began`, `alone`, `acked` and `crossed` are histories. `crossed` is set when a
save is called while another one runs, since all of them have the same
temporary name, and reset by a save that ran alone from its call to its rename:
this one has written the newest state over whatever the others left.

### 3.3 Names (`Names`)

The `NameService` of every node, the registrations on the network, the console
commands and pages that change a registration, and the import of the bootstrap
node's list. `sent` is every registration ever put on the network, and any node
may receive any of it at any time, any number of times or never: that covers
gossip and the replies to `handleNameLookup`. `heard` is a history of what each
node was given. Time is a counter; operations that stamp a registration advance
it, as no two calls of `time.Now` in the code return equal times at nanosecond
resolution. `listed[n][o][d]` counts the entries of `byNodeID`, since
`AddRegistration` appends without looking and `removeFromOwnership` removes one.

### 3.4 Gossip (`Gossip`)

Flooding between all nodes: `broadcastGossip`, the middle of `handleMessage`
(nonce, connection table, `seenMessages`, forwarding), `forwardMessage` as a
goroutine of its own (`forwarding`), and both cleaners. `Receive` takes a copy
from the network, `Again` receives it once more. A node is its own address;
`connections[n][p]` is the address stored under a peer's id, which
`handleMessage` overwrites with wherever the message came from, also when that
was a forwarder (`main.go:820`). Every node's clock may be ahead by its
`Ahead[n]`.

`handleMessage` takes three locks one after the other and is three steps of one
of the `Goroutines`: `Check` (the nonce tracker, `main.go:811`),
`EnterConnection` (`:818`) and `EnterSeen` (`:837`), with time, cleaners and
other copies between them. `broadcastGossip` is two: `MarkSeen` enters the
MsgID with one reading of the clock (`:1554`), and the message is dated with a
later one (`:1562`). Its own nonce the sender never records. `marked` and
`stamp` are the two readings; `evicted` is a history of the nonces a full
tracker has dropped.

### 3.5 Admission (`Admission`)

One daemon and peers that follow the program: the stages of `handleMessage`
before the handler (ban check, rate limiter, validation, signature), each a
step, since each takes its lock and gives it back; the penalties; ping, pong
and proof of work; direct messages (straight, relayed, too large); the bucket
and proof cleaners. `net` is a bag of datagrams with the stage each one has
reached. Bans, proofs and idle buckets are kept as time left or gone by, so
that time need not be bounded; counters stop at the last threshold the code
compares them with. `level` is a history variable: the reference leaky bucket
that `RateBound` speaks of.

### 3.6 Chat rooms (`Chat`, over `RWMutex`)

One room of the `ChatManager` and the goroutines that call its methods: HTTP
handlers, datagram handlers, the 10-second sync with the bootstrap node, the
command line and the saves they start. Every method takes the manager's lock,
the room's lock, or both, one inside the other or one after the other. A call
is a sequence of stages: it asks for a lock (`Ask`), does what the section does
once it holds it (one step), and gives it back (`UnlockMgr`, `UnlockRoom`).
`RWMutex` is Go's lock, modelled from how it is used: not re-entrant, and a
writer that waits keeps out readers that come later.

| In the module | In the code |
|---|---|
| `lock` | `ChatManager.mu` and the `mu` of each `Room` |
| `room`, `messages`, `online`, `member` | the entry of `cm.rooms` and the fields of the room objects; an object that was made and lost its place would stay in `messages` |
| `users` | the keys of `cm.users` |
| `call[p]` | the method a goroutine is in, and where |
| `known`, `sent`, `kept` | what may be delivered, what was sent here, and what was stored and not trimmed (history) |

Messages are ids with a sender and a time. Methods that differ only in what
they do to a message or profile share a name, listed above `Operations`. What
several rooms would add is left out: methods that go through all rooms take
their locks one at a time.

### 3.7 Direct messages (`DirectMessages`)

The conversations of the same manager. A call looks its conversation up under
`cm.mu` and goes on under the lock of the object it found; the two sections are
two steps, and between them `DeleteConversation` may take the object out of the
map, and another call may make a new one. As no call here holds one lock while
it asks for the other, sections can be steps and the locks themselves need not
be modelled.

| In the module | In the code |
|---|---|
| `conversations`, `msgs`, `unread` | `cm.conversations` and the fields of the `DirectConversation` objects |
| `users`, `blocked` | the keys of `cm.users`, `localUser.BlockedIDs` |
| `held` | a handler ended in a panic with `cm.mu` locked (`Panic`, `chat.go:597`) |
| `save`, `file` | `Save` and `chat.json`: `BeginSave` takes references under the lock; the encoder then takes the objects it finds (`BeginEncode`) and writes of each the messages first and the counter later |
| `Restart` | `loadData` |

### 3.8 Orders (`Orders`)

What one `Marketplace` keeps of its purchases, and its file. Each operation
holds `m.mu`; `Save` does not while it encodes (`market.go:338`), and the
encoder walks the live maps one after another in the order of the fields of
`MarketData` (`EncodeFields`). `CreateOrder` and `AddDetailedReview`, which
enter something in several of these maps, are therefore as many steps as they
write maps (`EnterMyOrders`, `EnterSellerOrders`, `createOrderConversation`;
`EnterSellerReviews`, `CountReview`), and the others are one. `Restart` loads
the file. A map that is read while it is written may also make Go end the
process; that is a `Restart` in the middle of a save. The daemon itself calls
none of these operations; the package offers them, so the model calls them in
any order.

### 3.9 Listings (`Listings`)

The listings of every node: `CreateListingFull` from the page (30 days) and from
the console (7 days), announcements that may be lost, delayed, reordered and
repeated, the page of the bootstrap node, fetched as a whole and imported entry
by entry (`Fetch`, `ImportEntry`), `RemoveListing` and `CleanExpired`. A copy is
signed, with the seller's key and a signature that `verifyListing` accepts, or
made from a page, without both. The signature covers id, title, description,
price and seller id (`market.go:734`), neither the wallet addresses nor the key,
and a signed copy may come without addresses (`market.go:444`): `signed` says
nothing about them. `myListings` is what a node may remove.

`Save` encodes `Listings` as the first field of `MarketData` and `MyListings` as
the last one, without the lock (`market.go:324`, `:335`): it is two steps, and
between them (`halfway`) the node makes, receives, removes and cleans. `loadData`
ends the process of one node at any moment, also halfway, and starts it from its
file (`stored`); announcements on the network stay. `overtaken` is a history of
what was made while its node's `Save` was halfway.

### 3.10 Overlay (`Overlay`)

Whom one node knows: `connections` with the time each was last heard and the
address it is reached at, the router's relays, the DHT's buckets with their
limit, the mixer's peers and `e2e`'s keys. A datagram enters its author in one
table after the other, each under a lock of its own (`Register`, `AddRelay`,
`Handle`); `maintenance` pings who has been silent and then removes who has been
silent too long, first from the connections and then from the router
(`PingPeers`, `Forget`, `RemoveRelay`), holding `n.mu` all the while
(`sweep`). `SendAnonymous`, `CanRoute`, `BuildCircuit` are a direct message on
its way: the relays are counted under one lock and chosen under another.
`Circuits(p)` are the routes `BuildCircuit` may choose. Keys are terms, so
that the model tells which keys the two ends derive: `DerivedKey`, `SealKey`,
`OpenKey`. `tries` is a history: pings since a peer was last heard.

## 4. Runs

| Run | Instance | Distinct states | Checks |
|---|---|---|---|
| `EscrowRun` | 2 orders, 3 payment ids, both currencies, arbitration, windows of 1 tick, no restart; orders and ids symmetric | 138 000 | `ArmedWhileHeld`, `EscrowRefinement` |
| `EscrowRestart` | 1 order, 3 payment ids, 2 restarts with torn saves, fair | 163 000 | `SettledOnce`, `LedgerAgrees`, `OpenIsClosed`, `HeldIsDecided` |
| `SaveRun` | both protocols, 2 savers, 3 files, 2 versions, 1 restart, 1 refusal, fair | 444 000 | `KeepsAcked`, `NeverOlder`, `SavedInTheEnd` |
| `NamesRun` | 2 nodes, both claiming 1 name, one the bootstrap; 4 ticks, term 1; import, transfer | 381 000 | `Agreement`, `OwnedIsListed`, `NeverOlder`, `RegistrationLasts` |
| `GossipRun` | 3 nodes on a path, 2 messages from its ends, 2 goroutines; TTL 1, window 1, 2 ticks, nonce table of 1, one clock ahead, prompt network, fair | 394 000 | `DeliverOnce`, `OnceByNonce`, `RoutesInTree`, `ReachesTree` |
| `AdmissionRun` | 1 peer, burst 2, rate 1, bans at 1 to 3 offences, 2 datagrams under way, 1 direct message, fair | 57 000 | `RateBound`, `BanLapses`, `VerifiedAgain` |
| `ChatRun` | 2 goroutines, 4 calls, 3 messages, limit 2, 2 room objects, fair | 277 000 | `NoDuplicates`, `NothingLost`, `OnlineAreKnown`, `CircleHasLister`, `CallsReturn` |
| `DirectRun` | 2 goroutines, 4 calls, 2 peers, the id of one typed short, 4 messages, limit 2, 3 objects, 1 save, 1 restart; goroutines and objects symmetric | 1 373 000 | `TypeOK`, `DMsOnce`, `UnreadFits` |
| `OrdersRun` | 1 listing of the local user, 2 parties, 4 ids, 1 save, 1 restart | 1 503 000 | `OrdersIndexed`, `OneOpenDispute`, `ReviewsFiled`, `PaidNotCancelled` |
| `ListingsRun` | 2 nodes, one the bootstrap, a listing of each; terms 1 and 0, 1 tick, 1 save, 1 restart, fair | 793 000 | `ListingsTypeOK`, `MineAreMine`, `SignedStays`, `PageArrives` |
| `OverlayRun` | 2 peers in one bucket of size 1, one of them may stop; 2 goroutines; pings after 0 ticks, removal after 1, circuits of 2 hops, 1 unasked message a tick, restarts, fair | 838 000 | `TablesAgree`, `OnionHasRelays`, `PingedBeforeForgotten`, `SilentForgotten` |
| `OverlaySealed` | the same | violated | `SealedOpens`, section 6 |

Why these bounds are enough to meet the interesting cases:

- *Escrow.* Two orders let one maintenance pass settle one escrow and close
  another, and let payments of different orders be mixed up; three payment
  ids allow a second recording of one transfer, which is what repeated polls
  do. Windows of one tick make every race of a timer with a user possible; a
  longer window only adds steps in which nothing expires. Two restarts cover a
  record saved by one process, loaded by the next, and saved torn again.
- *SaveFile.* Two savers and three files give every way one can rename,
  truncate or remove the other's; a third saver repeats the part of one of them.
- *Names.* Rival owners, imports, transfers, repeated and late registrations
  all fit two nodes; four ticks with a term of one give register, expire,
  clean and register again.
- *Gossip.* A path of three is the smallest network with a forwarder, and TTL 1
  the smallest number that its far end is reached with; two goroutines let two
  copies be between the same two locks. With a nonce table of one, the second
  message evicts the first, and its copies pass `Check` again; two ticks with a
  window of one let a goroutine or a cleaner straddle the end of the window.
  Each restriction in `DeliverOnce` and `OnceByNonce` (the time, `NotBehind`,
  `evicted`) is needed in this instance: without it TLC finds a second delivery.
  On a path nothing comes back to its author, so the run does not put to the
  test what `DeliverOnce` says of the author's own node: that rests on the
  theorem, which holds for cycles too.
- *Admission.* The limiter and the tables are per peer, so one peer is all
  that can matter to it; the real numbers (burst 50, rate 10, five minutes)
  satisfy the same inequality `Rate * (Window + 1) >= Burst`.
- *Chat.* Two goroutines are enough for every pair of methods to meet between
  any two of their locks, and four calls for one to come before and one after;
  three messages fill a room of two. `ChatProofs` has the invariants for any
  number of each.
- *DirectMessages.* Four calls let a message be received, its conversation
  deleted and made again, and a copy of the message arrive by the old object,
  with a save going on between any two sections; a limit of two is passed by
  the third message.
- *Orders.* Four ids are two orders with their conversations, or one order with
  a dispute, a review or a second escrow; one save and one restart show each
  place at which the encoder can be overtaken. The bound that `OrdersIndexed`
  and `ReviewsFiled` state per restart is met with equality.
- *Listings.* Nodes do not influence each other's copies but by announcements
  and the bootstrap's page, so the bootstrap and one more are enough; a term of
  none and one of one tick let an import outlive the listing it was made from.
  One save and one restart, of either node, show every place at which the
  encoder can be overtaken; without what `MineAreMine` and `SignedStays` except
  both are violated in this instance.
- *Overlay.* Two peers in a bucket of one make the DHT refuse one of them;
  removal after one tick and pings at once leave room for a lost ping between;
  with relays as many as `MinHops` the sweep may take one between count and
  choice. The invariants are proved for any numbers.

`NamesRun`, `GossipRun`, `ChatRun`, `DirectRun`, `OrdersRun`, `ListingsRun`,
`OverlayRun` and `OverlaySealed` do not check for deadlock. In the first six
time, calls or identifiers are bounded, and a behaviour ends with them; of
`Chat`, `CircleHasLister` says which calls may really stop, and `DirectMessages`
stops after `Panic`. `Overlay` always has a next step, as it can restart.

**Fairness.** `Escrow`: weak fairness of time and of the two passes, which a
ticker of the daemon runs every minute; no user is obliged to do anything.
`SaveFile`: weak fairness of each saver's next step: the periodic save never
stops, and a call that has begun goes on. `Gossip`: weak fairness of
goroutines that handle or forward; strong fairness of receipt, since in the code
a datagram has a goroutine of its own and does not wait for one of the
`Goroutines` of the instance; `Prompt` says that the network delivers inside the
five-minute window, and that a goroutine which is the first to have a message at
its node does not sleep longer. `Admission`: weak fairness of time, cleaners, pings from
maintenance and running goroutines; strong fairness of receipt per kind of
datagram and of solving challenges, the usual assumption of a network that
does not lose everything. `Chat`: weak fairness of every
goroutine: the scheduler runs those that can run, and a lock that is given
back goes to those who wait. `Listings`: weak fairness of `periodicSync`'s fetch
and of the import of what was fetched: the page is assumed to be reached again
and again; announcements and time are owed nothing. `Overlay`: weak fairness of
the ticker, of each step of the sweep, of goroutines that handle a datagram,
and of a ping's end: it is answered or lost. `Names`, `Orders` and
`DirectMessages` assume none.

## 5. What the passing runs show

- Without restarts the escrow manager and its wallet implement
  `EscrowCustody`: custody ends once, and the payment moves in the step in
  which the order is said to be settled, in the favour it says, however polls,
  manual confirmations, disputes and timers interleave. This rests on the
  wallet's own threshold not exceeding the manager's (`ConfirmedXMR <=
  RequiredXMR`, 10 and 10 in the code).
- Across restarts with torn files no order is settled twice or for both
  parties, and whatever payment the wallet still knows agrees with its escrow.
- An escrow nobody pays is closed, and one whose buyer is silent leaves
  `funded` and `shipped` while the process lives.
- As long as no two saves of a manager run at a time, the file of names, chat,
  market and escrow never goes back and a restart finds what was acknowledged,
  whatever was refused or interrupted; after two have crossed, the next save
  that runs alone mends it. However they cross, and under both protocols, the
  newest state is on disk in the end if the process lives on.
- Nodes that heard the same of a name only its owner claims answer alike,
  whatever the order; no node goes back to an older registration; a resolvable
  name stays so for its term unless another owner takes it, there or at its
  owner's.
- At every node whose clock is not behind the sender's, a message is handled at
  most once from when its author entered it until the window has passed, though
  the nonce tracker may have evicted it, and not at all at its author's; and ever
  if the tracker kept its nonce. In a tree, learned addresses are routes, and
  everyone is reached.
- No peer exceeds its rate; bans end, whatever the banned peer sends; a peer
  that keeps to its rate is verified again and again.
- A chat room lists no message twice and loses none to a second room of the
  same name, whether messages come by gossip, by the sync or from here;
  whoever appears in it is known; and calls always return unless somebody
  lists the room's users.
- A conversation lists each direct message once and none of another peer, even
  if it is deleted while a message is on its way into it and saved meanwhile;
  while the process lives no call leaves the badge counting more messages than
  there are.
- A save of the marketplace tears at most one order and one review apart,
  because the fields of `MarketData` come in the order in which orders and
  reviews are entered; each restart keeps what was torn. No sequence of calls
  opens two disputes about one order, or cancels one that was paid.
- While a node runs, a signed copy of a listing gives way to nothing but its
  seller's removal or its expiry; a restart loses it only if no finished save
  has it. What a node may remove are signed copies of its own listings, after
  restarts too, but for a listing that was made while a save was between its two
  maps. What the bootstrap goes on showing reaches every node, though all
  announcements be lost.
- The router's relays are the peers with a connection, but for the moment in
  which one is being entered or removed; nobody loses its connection without
  having been pinged in vain; who is gone for good disappears for good; and a
  circuit has at least `MinHops - 1` relays before its end, all different,
  whatever the sweep removes while they are chosen.

## 6. Where code and documentation disagree

`OverlaySealed` is violated by what the code does. `main.go:1626` says of
`sendE2EEncryptedDM` "Only the recipient can decrypt". `e2e.go:436` turns a
public Ed25519 key into an X25519 key by copying its bytes, while the private
key is converted properly, so the sender of an envelope derives a key that the
recipient does not (`SealKey`, `OpenKey`): nobody can open it. TLC's behaviour
is a peer that writes in a room, whose key the node then knows, and a direct
message to it.

Met on the way and part of the models, without a run of their own:

- *Escrow.* The amount of a transfer is never compared with the amount asked
  for (`crypto.go:258`; `main.go:3190` says otherwise): `Deposit(o, "short")`
  funds an escrow. A Zcash transfer nobody has mined funds one: `crypto.go:298`
  lists transfers from 0 confirmations and reports 6 for each, while
  `escrow.go:27` calls a funded escrow "received and confirmed". After a restart
  the auto-release completes an escrow
  without paying, since the wallet knows no payment and its error is dropped
  (`escrow.go:620`). A dispute answered with success is lost if the process
  ends before the periodic save (`escrow.go:465`). A torn save can leave a
  record that is funded and not armed (`escrow.go:150`), which no pass ever
  picks up: `ArmedWhileHeld` is therefore stated for one run of the process and
  `HeldIsDecided` up to the first restart. (`Torn` mixes two versions of a
  record, and one `Save` runs at a time; in the code several may, and a slow
  encoder may meet a third version.)
- *SaveFile.* Of two saves of `market.json` that overlap, one renames the file
  the other has just truncated (`market.go:316`, `:341`), and if the process
  ends there, an acknowledged save is gone; a slow one may also put an older
  state over a newer one. `KeepsAcked` and `NeverOlder` are stated for saves
  that do not cross, and for those TLC and the proofs confirm them; without that
  both are violated. Handlers start a save with every change, so that saves do
  cross. A process that ends between the truncation and the write of an in-place
  save leaves nothing of what was acknowledged before (`ratelimit.go:247`).
- *Names.* A name lost to another owner stays in what `names.go:348` calls the
  "domains owned by the local node" (`names.go:422`). Renewals and updates made
  in the browser are not announced (`main.go:4316`): copies elsewhere run out.
  The import reads times in a format
  the list is not written in (`main.go:1822`, `main.go:4145`), so each copy
  starts a fresh term and counts as newer than the registration it was made
  from. `AddRegistration` asks neither who owns the name nor whether it has
  expired (`names.go:416`). An owner who has lost a name and whose rival's
  registration has run out may be given a late copy of an older registration of
  his own; when he updates that, the new stamp goes with the old expiry and
  replaces longer-lived copies elsewhere. `Agreement` and `RegistrationLasts`
  are therefore stated for names that nobody disputes, to the node or to the
  owner.
- *Gossip.* Forwarded copies that overtake the direct ones leave the
  forwarder's address under the author's id (`main.go:820`, read at
  `main.go:1545`): in a triangle of nodes that all know each other the next
  message may then reach only one of them, which is why `ReachesTree` and
  `RoutesInTree` speak of trees. The nonce tracker accepts messages five minutes
  ahead and behind, and both memories last five minutes: a message from a node
  whose clock is ahead outlives them and is handled again (`crypto.go:140`).
  `DeliverOnce` and `OnceByNonce` therefore exclude receivers whose clock is
  behind the sender's. A goroutine that has passed `Check` just before the end of
  the window and comes to `seenMessages` after it may find the MsgID cleaned
  (`main.go:811`, `:837`): if the nonce had been evicted, the message is handled
  a second time. And the sender's MsgID is entered before the message is dated
  (`main.go:1554`, `:1562`), while its own nonce is never recorded: an echo that
  arrives when the first is forgotten and the second still in the window is
  handled by its own author. `DeliverOnce` ends with the window from the first
  reading, and `OnceByNonce` is what holds after it.
- *Admission.* A handler that passed the ban check before a ban may replace it
  by a shorter one (`ratelimit.go:133`). Every ping before the first proof
  brings a challenge, and every proof after the first counts as a bad message
  (`main.go:1182`); the counters are never set back, so an honest node is banned
  in the end, for a while. Bans are also entered under the address, and
  nothing reads those entries.
- *Direct messages between nodes.* None arrives in this version. Sent straight,
  it has no `MsgID`, and `handleChat` slices it (`main.go:1038`): the receiving
  process panics (`handleChat` in `Admission`). Sent by a relay, the inner
  message is passed on with the outer signature (`main.go:1261`), refused, and
  its honest author banned (`RefuseSignature`). Sent as an onion, no hop opens
  its layer: `deriveSharedKey` uses an Ed25519 key as a point of Curve25519
  (`onion.go:304`; `Unwraps` in `Overlay`). Sealed, nobody opens it (above).
- *Chat rooms.* `GetOnlineUsers` asks for the manager's lock inside the room's
  (`chat.go:1317`), and the sync asks for the room's inside the manager's
  (`main.go:1891`): a request for `/api/chat/users` and the sync may wait for
  each other for ever, and all chat with them. `CircleHasLister` says that
  every such circle has a lister in it, and `CallsReturn` that there is no other
  way to stop. A message that comes by the sync first has no media attachment,
  and the full one that arrives by gossip later is dropped as already there. One
  that was trimmed is stored and announced again. `GetMessages` hands out the
  room's slice (`chat.go:855`), which `ImportMessage` sorts in place while it
  is encoded, as `Save` encodes it and the map of users after giving the locks
  back (`chat.go:290`): in `Chat` a section is one step, and what is read
  after it is not followed.
- *Direct messages at one node.* `SendDM` cuts the id of an unknown receiver to
  eight characters with `cm.mu` locked (`chat.go:597`): of a shorter id the
  handler panics, `net/http` goes on, the lock stays, and no later call of the
  chat manager returns (`Panic`). Blocks are kept in `localUser` only and lost
  with a restart. After a save that a message overtook, the badge may count a
  message that is not there: `UnreadFits` speaks of one run of the process. A
  message that is delivered again after it was cleared is new again.
- *Orders.* `UpdateOrderStatus` completes and refunds without touching the
  escrow record; a second `MarkPaid` orphans the first escrow; escrow records
  and purchase requests are not in `MarketData` and end with the process; stock
  is compared and never taken down, and is 0 in every listing that
  `CreateListingFull` makes. No operation saves.
- *Listings.* A removed listing comes back with any late announcement or with
  the next import, and as it is no longer in `myListings` its seller cannot
  remove it again. An imported copy has no wallet address to pay to, and lasts
  30 days where `cmdSell` said 7. `cmdBuy` sends nothing. A listing that was
  made between the two maps of a save is in the file's `my_listings` and not
  among its `listings` (`market.go:324`, `:335`): after a restart its seller may
  remove what he does not have, and the bootstrap's page then gives it to him
  unsigned (`MineAreMine`). A restart from a file that is older than a signed copy
  loses the copy in the same way, unless a late announcement brings it once more
  (`SignedStays`); no seller announces a listing twice.
- *Circuits.* `onion.go:22` calls `MinHops` the "minimum relay hops", `onion.go:141`
  asks for "at least MinHops relays (excluding destination)", and `README.md:205`
  draws three relays before the destination and promises "3-hop circuits
  minimum". `BuildCircuit` is content with `MinHops - 1` relays (`:142`, `:154`)
  and has the destination among the `numHops` hops (`:177`): a message passes two
  relays where three are promised, also when more are known, unless four others
  are and the die says 4. `OnionHasRelays` states what the code does keep.
- *Overlay.* `handleFindNode` looks for connections by the hex of a 20-byte DHT
  id, where they are kept by the full key (`main.go:963`-`1000`): it always
  answers with an empty list, so no node is ever discovered by another
  (`FindNode`). The address in `connections` may be a forwarder's, and pings and
  direct messages then go to the forwarder. Nodes that were removed stay in the
  buckets, which evict nobody (`dht.go:202`), and among the mixer's peers.
  `bootstrap` pings once and never again.

## 7. Proofs

All in `...Proofs` modules, for every value of the constants that satisfies
the named assumptions; `tlapm` checks every leaf.

| Theorem | Statement | Inductive invariant and why it is needed |
|---|---|---|
| `EscrowProofs!TypeCorrect` | `Spec => []TypeOK` | itself |
| `EscrowProofs!SettlesOnce`, `LedgerIsRight` | `Spec => []SettledOnce`, `[]LedgerAgrees` | `LedgerInv`. `LedgerAgrees` alone does not survive a restart: a record on disk may be older than a settlement. What saves it is that the wallet starts empty (`KnownPayments`: only orders addressed by this process have payments), ids do not come back (`PidsDrawn`), and an order that was settled is settled in memory or no longer addressed (`SettledIsFinal`) |
| `EscrowProofs!ArmedInOneRun` | `OneRun => []ArmedWhileHeld` | `RunInv`: `LedgerInv`, `ArmedWhileHeld` and `Tracked` (the wallet knows the payment each escrow names). Every step is first shown to be a `Turn` of each escrow: one of seven changes of its state, with what happens to the payment id and the timer's flag |
| `EscrowProofs!ManagerIsCustody` | `OneRun => EscrowRefinement` | the same. `Placed`: as all payments are known and agree with their escrows, where the money is can be read off the escrow itself; so each `Turn` is a move of `EscrowCustody` or changes neither phase nor purse |
| `NodeProofs!SaveInvariant`, `SavesAreKept`, `NeverGoesBack` | `[]SharedInv`, `KeepsAcked`, `NeverOlder` | `SaveInv`: a save encodes nothing older than it was called for and nothing newer than there is, and the temporary file is never the live one nor from the future (`Sound`); a save that is alone has the temporary file for itself and was called for the newest that is acknowledged or on disk (`Undisturbed`); unless saves have crossed, what is acknowledged is on disk and every save is alone |
| `NamesProofs!NamesTypes`, `OwnersAreListed`, `NeverGoesBack` | `[]TypeOK`, `[]OwnedIsListed`, `NeverOlder` | `NamesInv`: an owner is listed at least once, and no stamp is later than now, so a fresh stamp is never older |
| `NamesProofs!NamesAgree`, `TermsLast` | `[]Agreement`, `RegistrationLasts` | `HistoryInv`: what was heard was stamped before now (`HeardBefore`); a node has heard of what it has (`HasHeard`), and the owner of all he signed (`OwnerHeard`); of what an undisputed owner signed, the newer does not run out before the older (`Ordered`); until something heard of runs out, the node has that or newer (`HasNewest`) |
| `GossipProofs!GossipTypes`, `DeliversOnce` | `[]TypeOK`, `[]DeliverOnce` | `GossipInv`: a copy, also one in the hands of a goroutine, exists only of a sent message; a message is entered before it is dated, and nobody has seen it earlier (`StampsArePast`, `SeenSinceMarked`); what was handled, or entered by its author, is in `seenMessages` until its window has passed (`Remembered`) |
| `GossipProofs!OnceByItsNonce` | `[]OnceByNonce` | `NonceInv`: of a nonce that was not evicted, at most one goroutine is between `Check` and `seenMessages`, none if the message was handled, and the nonce is in the tracker until the message has left its window |
| `GossipProofs!RoutesLead` | `[]RoutesInTree` | `RoutesInv`: that learned addresses are routes rests on the way each copy has come, so the same is said of the sources of all copies and forwarding goroutines. What is behind a neighbour is the least set closed under edges that do not go back through the node (`BehindIsClosed`), and a copy forwarded from one node of a tree to the next, whose sender is behind the former, finds its sender behind it there (`FurtherOn`) |
| `NodeProofs!RateIsBounded` | `Spec => []RateBound` | `LimiterInv`: `level[p] + Tokens(buckets[p]) <= Burst`. A removed bucket comes back full; that it was full already is where `LimiterAssumption` is used |
| `NodeProofs!AdmissionTypes` | `Spec => []TypeOK` | itself; the datagrams under way are a bag, whose facts are lemmas |
| `ChatProofs!ChatTypes`, `ListsDistinct`, `StoredIsFound`, `OnlineKnown` | `[]TypeOK`, `[]NoDuplicates`, `[]NothingLost`, `[]OnlineAreKnown` | `Typed`, `FreshOK`, `PlaceOK`, `KnownOK`: what a call has found out in its last section still holds in its next one: the room it works on is the one in the table, its sender is registered |
| `ChatProofs!ListerInEveryCircle` | `Spec => []CircleHasLister` | `OrderOK`: where in its stages a call may hold or wait for which lock. All calls but listers hold no room's lock while they ask for one. So in a circle without lister nobody holds a room's lock; whoever waits for a room waits for the writer announced there, who in turn waits for somebody of the circle who holds it: so all wait for the manager's lock, none holds it, and the same argument applies |
| `DirectMessagesProofs!DirectTypes`, `DirectOnce`, `DirectFits` | `[]TypeOK`, `[]DMsOnce`, `UnreadFits` | `DirectInv`: a message that `SendDM` has yet to store is in no list and is stored by no other call (`Pending`), an object that left the map is not given to another peer while a call or the save refers to it (`Apart`), and what a restart reads was good when it was encoded (`RowsGood`) |
| `MarketProofs!OrdersTypes`, `OneDispute` | `[]TypeOK`, `[]OneOpenDispute` | `OrdersInv`: what holds of the disputes in memory must hold of those being encoded and of those in the file too, as a restart brings them back; and an id that is in use was generated (`Used`), so that a new one overwrites nothing |
| `MarketProofs!PaidStays` | `Spec => PaidNotCancelled` | from `OrdersInv`: no status that an operation sets takes a paid order back |
| `MarketProofs!MapsAgree`, `ReviewsAgree` | `[]OrdersIndexed`, `[]ReviewsFiled` | `MapsInv`: `OrdersInv`, `OpEntered` (which of its maps the operation in progress has written, and that nobody else has its id), and `SavedMaps`, which says of a save what the two properties will say of its file. It compares the maps that are encoded with the present values of those still to come: that bound holds from the moment the orders are encoded, with the one in progress as the exception, and lasts because the maps only grow. The bound counts restarts, so the lemmas count too |
| `MarketProofs!ListingsTypes`, `OwnListings`, `NeverUnsigned` | `[]ListingsTypeOK`, `[]MineAreMine`, `SignedStays` | `ListingsInv`: what is announced is signed (`SentSigned`), so unsigned copies come only by import, and `ImportListing` leaves alone what is there; and `FilesAreMine`, since a restart continues from the file: `Listings` are encoded first, so what is in `MyListings` and not signed among them was made in between |
| `OverlayProofs!OverlayTypes`, `OverlayAgrees`, `OnionsHaveRelays` | `[]TypeOK`, `[]TablesAgree`, `[]OnionHasRelays` | `OverlayInv`: with them `Gone` (a peer the sweep is about to take out of the router has lost its connection, and `n.mu` is held), `Busy` (what a goroutine's record says at each stage) and `Pinged` (a peer's age exceeds the pings it has had by `PingAfter` at most) |
| `OverlayProofs!PingedFirst` | `Spec => PingedBeforeForgotten` | from `Pinged` |

Assumed: the modules' named assumptions (thresholds and windows are naturals,
the wallet's threshold is not above the manager's, `Rate * (Window + 1) >=
Burst`, senders are nodes, connections are mutual at first, the absent value is
not a record, `PingAfter < DropAfter`, `1 < MinHops < MaxHops`) and the standard
theorems of finite sets and functions where cited. Nothing else.

Every invariant and every action property that a passing run checks is proved,
and so is the refinement. Only model-checked are the liveness properties, as
TLAPS has no reasoning about fairness here: `OpenIsClosed`, `HeldIsDecided`,
`SavedInTheEnd`, `ReachesTree`, `BanLapses`, `VerifiedAgain`, `CallsReturn`,
`PageArrives`, `SilentForgotten`; and of course what `OverlaySealed` refutes.

`Gossip` says of a tree that it is connected and that what is behind two
neighbours of a node is disjoint, rather than that it has one edge less than
nodes. That is the same of every graph of four nodes (checked with TLC), and a
proof needs no induction over the number of edges.

## 8. What is not modelled

- *Cryptography.* Signatures verify what was signed, hashes find solutions; of
  encryption only which key each end derives.
- *Escrow:* getters, `AddMessage`, the callback, rates and QR strings; the
  forwarding to the bootstrap node's API when a node has no wallet, and a reply
  lost on that way (`main.go:3028`).
- *Names:* the text of names, search and statistics; restarts. `Resolve` hands
  out the live record (`names.go:263`), which is encoded while `Update` changes
  it; here it is read in one step.
- *Gossip:* the sweep of silent connections, which `Overlay` has, and restarts.
  The connections a message goes to are read in the step in which it is dated;
  `cleanSeenMessages` reads the clock before it waits for its lock, here in one
  step, which only lets it forget less.
- *`persist.Store`:* nothing in the daemon or the managers calls it. Its mutex
  would not order its callers: `data` is evaluated before `Save` waits for it
  (`persist.go:30`), so an older value may be written over a newer one.
- *Admission:* restarts (a panic ends the behaviour; bans and scores that have
  not run out would be loaded again), the score, which decides nothing, and
  `SetDifficulty`, which has no caller.
- *Chat:* what is inside a message (edits, reactions, pins), private rooms,
  `LeaveRoom` and `CleanOldMessages`, which have no caller
  in the daemon, and signatures that do not verify, which change nothing.
- *Direct messages:* texts, typing indicators (gossiped as a chat message that
  fails verification), nicknames; the callback `onDM`, which the daemon never
  registers; `UnblockUser`, `ReceiveDMTyping`, `SendDMWithReply`, without caller.
  The encoder walks the messages of a conversation; here it has them in one step.
- *Orders:* prices, shipping data, evidence, read marks, favourites, views,
  profiles of others, purchase requests and the escrow form of the browser
  (which is `Escrow`); `ReplyToReview`, which after a restart reaches only the
  copy of a review that is found under its listing.
- *Listings:* favourites, views and ratings; that an encoder walks a map entry by
  entry, and that two saves cross (`SaveFile`).
- *Overlay:* copies of what a stopped peer said that are forwarded later, and
  echoes of the node's own messages, which would enter connections and relays
  too (`main.go:818`-`832`): `Arrive` has authors that are up, and others;
  the gap between the pings and the removals of one sweep (`main.go:1936`-`1939`),
  in which a peer may be heard: `PingPeers` goes on with the lock held;
  the mixer's queue (nothing is ever put in it: `QueueMessage` has
  no caller, only dummies go out), `PadMessage`, which panics for 4095 bytes;
  stored values and iterative lookups of the DHT, without caller; the table of
  circuits, which is only written to; rotation of keys and group messages.
- *Kayaker:* in this version a column that is never set makes `GetProfile` fail
  on every row it finds, so that posting and following always refuse: there is
  no behaviour to check. Counters that rise when an insert was ignored
  (`kayaker/store.go:412`) would be the first property once that works.
- *Publish and subscribe, capabilities, peer store:* the daemon makes them and
  closes, cleans or saves them; nothing subscribes, publishes, grants or adds.
- *Updater, proxy, configuration, identity, hardware keys, command line, pages:*
  straight-line I/O or no state to interleave. The mobile binding calls
  `SendDM` with the wrong number of arguments and does not compile.

## 9. What could come next

1. A composition of `Overlay` and `Gossip`, with neighbours that come and go
   while messages are flooded.
2. `Names` and `Admission` with restarts from their files.
3. Purchase requests and profiles in `Orders`; `Kayaker`, publish and subscribe
   and capabilities when the daemon begins to use them.
