------------------------------- MODULE Overlay -------------------------------
(***************************************************************************)
(* The tables in which a node keeps the peers it hears from, and the way   *)
(* it sends by them (src/cmd/kayakd/main.go, internal/onion, internal/dht, *)
(* internal/mix, internal/e2e).                                            *)
(*                                                                         *)
(* Each datagram has a goroutine, which enters its author into one table   *)
(* after the other; a thread pings who is silent and forgets who stays so; *)
(* and direct messages read the tables one by one meanwhile.  A section    *)
(* under a lock is a step.                                                 *)
(*                                                                         *)
(* Time goes by in ticks of the thread, 30 seconds.  A datagram is handled *)
(* within a tick, and a ping is answered within a tick or not at all.      *)
(* Whether a datagram is admitted is the subject of Admission: here arrive *)
(* those that are.                                                         *)
(***************************************************************************)
EXTENDS Integers, Sequences, FiniteSets, Functions

CONSTANTS
  Peers,      \* the other nodes; a peer also stands for its UDP address
  Self,       \* this node
  Bootstrap,  \* those of the configuration
  Mortal,     \* those that may stop for good; any may be silent for as long as it likes
  NoPeer,
  Workers,    \* goroutines
  PingAfter,  \* silence after which a peer is pinged, in ticks: 2
  DropAfter,  \* silence after which it is forgotten: 10
  BucketOf,   \* the bucket of each peer's id
  K,          \* size of a bucket
  MinHops, MaxHops, \* of a circuit, its end included
  MaxHeard    \* bound on the messages that arrive unasked in a tick

ASSUME OverlayAssumption ==
  /\ Self \notin Peers /\ NoPeer \notin Peers /\ Bootstrap \subseteq Peers /\ Mortal \subseteq Peers
  /\ IsFiniteSet(Peers)
  /\ {PingAfter, DropAfter, MinHops, MaxHops, MaxHeard} \subseteq Nat /\ K \in Nat \ {0}
  /\ PingAfter < DropAfter /\ 1 < MinHops /\ MinHops < MaxHops
  /\ \A p \in Peers : BucketOf[p] \in Nat

VARIABLES
  conn,    \* n.connections: ticks since LastSeen, and Address
  relays,  \* onionRouter.relays
  table,   \* the nodes in the buckets of the DHT
  dummies, \* mixer.peers
  keys,    \* e2e.knownKeys
  task,    \* what each goroutine does
  sweep,   \* maintenance: its place, and the peer it is about to remove from relays
  up,      \* the peers that have not stopped
  asked,   \* addresses with a ping of ours on its way
  heard,   \* messages that came unasked in this tick, for their bound
  tries    \* history: pings to each peer since it was last heard

tables == <<conn, relays, table, dummies, keys>>
vars == <<tables, task, sweep, up, asked, heard, tries>>

None == [age |-> 0, at |-> NoPeer]
Connected == {p \in Peers : conn[p] # None}
Stale(ticks) == {p \in Connected : conn[p].age > ticks}

(***************************************************************************)
(* The ids: a node's is its key in full, the DHT's the first 20 bytes.     *)
(***************************************************************************)
NodeID(p)  == <<"key", p>>
ShortID(p) == <<"key[:20]", p>>

\* Which of the nodes of a table a query is told of, by a node with these
\* connections: it looks the short id up where the others are.
FindNode(nodes, connections) ==
  {p \in connections : \E q \in nodes : ShortID(q) = NodeID(p)}

Bucket(p) == {q \in table : BucketOf[q] = BucketOf[p]}
AddNode(p) == IF Cardinality(Bucket(p)) < K THEN table \cup {p} ELSE table

(***************************************************************************)
(* Keys.  The onion router and e2e use the bytes of an Ed25519 key as if   *)
(* they were an X25519 one: the key a derives for b is not the one that b  *)
(* derives for a.                                                          *)
(***************************************************************************)
DerivedKey(a, b) == <<a, b>>

\* The packet for a circuit: a layer for each hop, outermost first.
Layer(s, hops, i) ==
  [key |-> DerivedKey(s, hops[i]), final |-> i = Len(hops),
   next |-> IF i = Len(hops) THEN NoPeer ELSE hops[i + 1]]
WrapMessage(s, hops) == [i \in 1..Len(hops) |-> Layer(s, hops, i)]
Unwraps(r, s, packet) == packet[1].key = DerivedKey(r, s)

\* The key of an envelope for p with ephemeral key e: Encrypt takes the bytes of
\* p's Ed25519 key, the other end the scalar that belongs to p's true X25519 key.
SealKey(e, p) == <<e, "bytes of Ed25519 key", p>>
OpenKey(e, p) == <<e, "X25519 key", p>>

(***************************************************************************)
(* Goroutines: one handles a message of author from that came out of       *)
(* address at, which is a chat or not and has a list of nodes; or sends a  *)
(* direct message to from, sealed or not, over hops.                       *)
(***************************************************************************)
Kinds == {"ping", "pong", "find", "nodes", "onion", "chat"}
Idle  == [stage |-> "idle", from |-> NoPeer, at |-> NoPeer, chat |-> FALSE,
          list |-> {}, sealed |-> FALSE, hops |-> <<>>]
Doing(w, stage) == task[w].stage = stage
Goto(w, stage) == task' = [task EXCEPT ![w].stage = stage]
Return(w) == task' = [task EXCEPT ![w] = Idle]
Handling == {"register", "relay", "handle"}
Task == [stage : Handling \cup {"idle", "route", "build", "sent"},
         from : Peers \cup {NoPeer}, at : Peers \cup {NoPeer},
         chat : BOOLEAN, list : SUBSET Peers, sealed : BOOLEAN, hops : Seq(Peers)]

\* A list of nodes is what FindNode gives at its author.  An onion packet has a
\* chat in it, for those whom it opens to.
Message(p, q, kind) ==
  [Idle EXCEPT !.stage = "register", !.from = p, !.at = q,
     !.chat = \/ kind = "chat"
              \/ kind = "onion" /\ Unwraps(Self, p, WrapMessage(p, <<Self>>)),
     !.list = IF kind = "nodes" THEN FindNode(Peers, Peers) ELSE {}]

\* bootstrap sends one ping to each, once.
JoinPings == Bootstrap

\* NewNode and Start: nobody is known.
Init ==
  /\ conn = [p \in Peers |-> None]
  /\ relays = {} /\ table = {} /\ dummies = {} /\ keys = {}
  /\ task = [w \in Workers |-> Idle]
  /\ sweep = [at |-> "idle", gone |-> NoPeer]
  /\ up = Peers
  /\ asked = JoinPings
  /\ heard = 0 /\ tries = [p \in Peers |-> 0]
-----------------------------------------------------------------------------
(* A datagram. *)

\* Chats are gossip: the copy that comes first may come from another peer.
Arrive(w, p, q, kind) ==
  /\ Doing(w, "idle") /\ heard < MaxHeard /\ {p, q} \subseteq up
  /\ q # p => kind = "chat"
  /\ task' = [task EXCEPT ![w] = Message(p, q, kind)]
  /\ heard' = heard + 1
  /\ UNCHANGED <<tables, sweep, up, asked, tries>>

\* Whoever is at the address answers a ping, for itself.
Answer(w, q) ==
  /\ Doing(w, "idle") /\ q \in asked \cap up
  /\ task' = [task EXCEPT ![w] = Message(q, q, "pong")]
  /\ asked' = asked \ {q}
  /\ UNCHANGED <<tables, sweep, up, heard, tries>>

Lose(q) ==
  /\ q \in asked /\ asked' = asked \ {q}
  /\ UNCHANGED <<tables, task, sweep, up, heard, tries>>

\* Variant: the entry is made without waiting for the lock.
RegisterUnlocked(w) ==
  LET p == task[w].from
  IN /\ Doing(w, "register")
     /\ conn' = [conn EXCEPT ![p] = [age |-> 0, at |-> task[w].at]]
     /\ tries' = [tries EXCEPT ![p] = 0]
     /\ Goto(w, "relay")
     /\ UNCHANGED <<relays, table, dummies, keys, sweep, up, asked, heard>>

\* handleMessage, its section under n.mu.
Register(w) ==
  LET p == task[w].from
  IN /\ Doing(w, "register") /\ sweep.at # "clean"
     /\ conn' = [conn EXCEPT ![p] = [age |-> 0, at |-> task[w].at]]
     /\ tries' = [tries EXCEPT ![p] = 0]
     /\ Goto(w, "relay")
     /\ UNCHANGED <<relays, table, dummies, keys, sweep, up, asked, heard>>

\* The other tables.  A handler that changes nothing here is no step: a pong, for
\* one, finds its author just entered.
AddRelay(w) ==
  LET p == task[w].from
  IN /\ Doing(w, "relay")
     /\ table' = AddNode(p) /\ relays' = relays \cup {p} /\ dummies' = dummies \cup {p}
     /\ IF task[w].chat \/ task[w].list # {} THEN Goto(w, "handle") ELSE Return(w)
     /\ UNCHANGED <<conn, keys, sweep, up, asked, heard, tries>>

\* handleNodes makes relays of a list and pings it; handleChat keeps the key.
Handle(w) ==
  LET list == task[w].list
  IN /\ Doing(w, "handle")
     /\ relays' = relays \cup list /\ asked' = asked \cup list
     /\ keys' = keys \cup list \cup (IF task[w].chat THEN {task[w].from} ELSE {})
     /\ Return(w)
     /\ UNCHANGED <<conn, table, dummies, sweep, up, heard, tries>>
-----------------------------------------------------------------------------
(* maintenance *)

\* The ticker fires.
Tick ==
  /\ sweep.at = "idle" /\ asked = {}
  /\ \A w \in Workers : task[w].stage \notin Handling
  /\ conn' = [p \in Peers |-> IF p \in Connected /\ conn[p].age <= DropAfter
                              THEN [conn[p] EXCEPT !.age = @ + 1] ELSE conn[p]]
  /\ sweep' = [sweep EXCEPT !.at = "ping"] /\ heard' = 0
  /\ UNCHANGED <<relays, table, dummies, keys, task, up, asked, tries>>

\* Counted as far as it matters.
Again(n) == IF n > DropAfter - PingAfter THEN n ELSE n + 1

\* Variant: a ping that is sent counts as a sign of life.
PingPeersTouch ==
  /\ sweep.at = "ping"
  /\ asked' = asked \cup {conn[p].at : p \in Stale(PingAfter)}
  /\ tries' = [p \in Peers |-> IF p \in Stale(PingAfter) THEN Again(tries[p]) ELSE tries[p]]
  /\ conn' = [p \in Peers |-> IF p \in Stale(PingAfter) THEN [conn[p] EXCEPT !.age = 0] ELSE conn[p]]
  /\ sweep' = [sweep EXCEPT !.at = "clean"]
  /\ UNCHANGED <<relays, table, dummies, keys, task, up, heard>>

PingPeers ==
  /\ sweep.at = "ping"
  /\ asked' = asked \cup {conn[p].at : p \in Stale(PingAfter)}
  /\ tries' = [p \in Peers |-> IF p \in Stale(PingAfter) THEN Again(tries[p]) ELSE tries[p]]
  /\ sweep' = [sweep EXCEPT !.at = "clean"]
  /\ UNCHANGED <<tables, task, up, heard>>

\* Variant: whoever the node pings is forgotten as well.
TooOldEarly == Stale(PingAfter)

\* Who is forgotten.
TooOld == Stale(DropAfter)

\* n.mu is held from here to Unlock.
Forget(p) ==
  /\ sweep.at = "clean" /\ sweep.gone = NoPeer /\ p \in TooOld
  /\ conn' = [conn EXCEPT ![p] = None]
  /\ sweep' = [sweep EXCEPT !.gone = p]
  /\ UNCHANGED <<relays, table, dummies, keys, task, up, asked, heard, tries>>

RemoveRelay ==
  /\ sweep.gone # NoPeer
  /\ relays' = relays \ {sweep.gone}
  /\ sweep' = [sweep EXCEPT !.gone = NoPeer]
  /\ UNCHANGED <<conn, table, dummies, keys, task, up, asked, heard, tries>>

Unlock ==
  /\ sweep.at = "clean" /\ sweep.gone = NoPeer /\ TooOld = {}
  /\ sweep' = [sweep EXCEPT !.at = "idle"]
  /\ UNCHANGED <<tables, task, up, asked, heard, tries>>
-----------------------------------------------------------------------------
(* A direct message. *)

\* sendE2EEncryptedDM: for a peer with a key the message is sealed.
Sealing(p) == p \in keys

\* A peer that has no connection gets its message by any that has, if there is one.
SendAnonymous(w, p) ==
  /\ Doing(w, "idle") /\ sweep.at # "clean"
  /\ task' = [task EXCEPT ![w] =
       IF p \in Connected THEN [Idle EXCEPT !.stage = "route", !.from = p, !.sealed = Sealing(p)]
       ELSE Idle]
  /\ UNCHANGED <<tables, sweep, up, asked, heard, tries>>

\* Without relays enough, directly.
CanRoute(w) ==
  /\ Doing(w, "route")
  /\ IF Cardinality(relays) >= MinHops THEN Goto(w, "build") ELSE Return(w)
  /\ UNCHANGED <<tables, sweep, up, asked, heard, tries>>

\* How many hops a circuit may have that n relays can carry besides its end.
NumHops(n) ==
  {IF h > n + 1 THEN n + 1 ELSE h :
    h \in IF n >= MaxHops - 1 THEN MinHops..(MaxHops - 1) ELSE {MinHops}}

\* Variant: CanRoute has counted the relays.
CircuitsUnchecked(p) ==
  LET others == relays \ {p}
      n == Cardinality(others)
  IN UNION {{Append(s, p) : s \in Injection(1..(h - 1), others)} : h \in NumHops(n)}

\* The circuits to p: relays in any order, and p.
Circuits(p) ==
  LET others == relays \ {p}
      n == Cardinality(others)
  IN IF Cardinality(relays) < MinHops - 1 \/ n < MinHops - 1 THEN {}
     ELSE UNION {{Append(s, p) : s \in Injection(1..(h - 1), others)} : h \in NumHops(n)}

\* sendViaOnion: if there is no circuit, directly.
BuildCircuit(w) ==
  LET p == task[w].from
  IN /\ Doing(w, "build")
     /\ IF Circuits(p) = {} THEN Return(w)
        ELSE \E c \in Circuits(p) : task' = [task EXCEPT ![w].stage = "sent", ![w].hops = c]
     /\ UNCHANGED <<tables, sweep, up, asked, heard, tries>>

WriteTo(w) ==
  /\ Doing(w, "sent") /\ Return(w)
  /\ UNCHANGED <<tables, sweep, up, asked, heard, tries>>
-----------------------------------------------------------------------------
(* The peers. *)

Leave(p) ==
  /\ p \in up \cap Mortal /\ up' = up \ {p}
  /\ UNCHANGED <<tables, task, sweep, asked, heard, tries>>

\* Of the tables only e2e's keys have a file, which Save may not have brought up
\* to date.
LoadKeys == \E saved \in SUBSET keys : keys' = saved

\* The node stops and starts again.
Restart ==
  /\ LoadKeys
  /\ conn' = [p \in Peers |-> None]
  /\ relays' = {} /\ table' = {} /\ dummies' = {}
  /\ task' = [w \in Workers |-> Idle]
  /\ sweep' = [at |-> "idle", gone |-> NoPeer]
  /\ asked' = JoinPings
  /\ tries' = [p \in Peers |-> 0]
  /\ UNCHANGED <<up, heard>>

Receive(w) == \/ \E p, q \in Peers, kind \in Kinds : Arrive(w, p, q, kind)
              \/ \E q \in Peers : Answer(w, q)
              \/ Register(w) \/ AddRelay(w) \/ Handle(w)
Maintain   == Tick \/ PingPeers \/ (\E p \in Peers : Forget(p)) \/ RemoveRelay \/ Unlock
\* broadcast sends so to one connection after the other.
SendDM(w)  == (\E p \in Peers : SendAnonymous(w, p)) \/ CanRoute(w)
              \/ BuildCircuit(w) \/ WriteTo(w)
World      == (\E p \in Peers : Leave(p) \/ Lose(p)) \/ Restart

Next == (\E w \in Workers : Receive(w) \/ SendDM(w)) \/ Maintain \/ World

(***************************************************************************)
(* Goroutines are scheduled, locks are given up, time goes by, and a ping  *)
(* is answered or lost.                                                    *)
(***************************************************************************)
Fairness ==
  /\ WF_vars(Tick) /\ WF_vars(PingPeers) /\ WF_vars(RemoveRelay) /\ WF_vars(Unlock)
  /\ WF_vars(\E p \in Peers : Forget(p))
  /\ \A w \in Workers : WF_vars(Register(w)) /\ WF_vars(AddRelay(w)) /\ WF_vars(Handle(w))
  /\ \A p \in Peers : WF_vars(Lose(p))

Spec == Init /\ [][Next]_vars /\ Fairness
-----------------------------------------------------------------------------
\* The tables hold peers, ages and counts stay within what decides by them.
TypeOK ==
  /\ conn \in [Peers -> [age : 0..(DropAfter + 1), at : Peers] \cup {None}]
  /\ {relays, table, dummies, keys, up, asked} \subseteq SUBSET Peers
  /\ task \in [Workers -> Task]
  /\ sweep \in [at : {"idle", "ping", "clean"}, gone : Peers \cup {NoPeer}]
  /\ heard \in 0..MaxHeard
  /\ tries \in [Peers -> 0..(DropAfter - PingAfter + 1)]

\* p is being entered, or being removed.
Between(p) ==
  \/ sweep.gone = p
  \/ \E w \in Workers : Doing(w, "relay") /\ task[w].from = p

\* Apart from such moments the router's relays are the peers with a connection,
\* no more (a circuit through a peer that is gone) and no fewer (a neighbour
\* that carries nothing); and for each of them there is cover traffic, and a
\* place in the DHT unless its bucket is full.
TablesAgree ==
  \A p \in Peers :
    \/ Between(p)
    \/ /\ p \in Connected <=> p \in relays
       /\ p \in Connected => /\ p \in dummies
                             /\ p \in table \/ Cardinality(Bucket(p)) >= K

\* A peer loses its connection only after it has had DropAfter - PingAfter
\* pings, each with a tick's time to answer, and has not been heard since the
\* first of them: maintenance has no other reason to forget one.
PingedBeforeForgotten ==
  [][\A p \in Peers : sweep.gone # p /\ sweep'.gone = p => tries[p] > DropAfter - PingAfter]_vars

\* Before the last of the hops, which is p, come MinHops - 1 relays at least,
\* all different and none of them p.
Relayed(hops, p) ==
  LET n == Len(hops) - 1
  IN  /\ n >= MinHops - 1 /\ hops[n + 1] = p
      /\ \A i \in 1..n : hops[i] # p
      /\ \A i, j \in 1..n : hops[i] = hops[j] => i = j

(* A message that leaves by a circuit goes through MinHops - 1 relays at   *)
(* least before it comes to the peer that it is for, although maintenance  *)
(* may remove relays between the count and the choice of them.  That is    *)
(* one relay fewer than the comments ask for, which count without the      *)
(* destination (onion.go:22, 141): BuildCircuit has it among the MinHops.  *)
OnionHasRelays ==
  \A w \in Workers : Doing(w, "sent") => Relayed(task[w].hops, task[w].from)

\* What is sealed for a peer it can open ("Only the recipient can decrypt").
SealedOpens ==
  \A w \in Workers : Doing(w, "route") /\ task[w].sealed =>
    SealKey(w, task[w].from) = OpenKey(w, task[w].from)

\* A peer that is gone for good is forgotten for good, by the router too,
\* whatever was sent to it and whoever has passed on what it said.
SilentForgotten ==
  \A p \in Peers : <>[](p \notin up) => <>[](p \notin Connected \cup relays)
=============================================================================
