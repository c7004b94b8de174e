------------------------------- MODULE Gossip -------------------------------
(***************************************************************************)
(* Flooding of chat messages, listings and name registrations between      *)
(* daemons (src/cmd/kayakd/main.go): broadcastGossip, the part of          *)
(* handleMessage that every message passes, forwardMessage and the two     *)
(* cleaners that forget what has been seen.                                *)
(*                                                                         *)
(* Every datagram is handled by a goroutine of its own, and forwarding is  *)
(* another one that looks at the connections when it runs.  handleMessage  *)
(* takes the locks of the nonce tracker, of the connections and of         *)
(* seenMessages one after the other, and time may pass between them, as it *)
(* may between the two readings of the clock in broadcastGossip: each of   *)
(* these sections is a step.  Bans, rate limits, validation and signatures *)
(* come first in handleMessage and can only drop a copy, which is a copy   *)
(* that is never received here.                                            *)
(*                                                                         *)
(* The network keeps, delays, reorders and repeats datagrams.  Every node  *)
(* has a clock of its own; they run at one speed but need not agree.  A    *)
(* node is its own address.                                                *)
(***************************************************************************)
EXTENDS Integers, FiniteSets

CONSTANTS
  Nodes, Messages,
  Sender,      \* the node each message comes from
  Topologies,  \* sets of pairs of nodes that know each other at first
  NoAddress,   \* no connection
  Goroutines,  \* bound: datagrams being handled at a time, at all nodes
  TTL,         \* hops a message may take after the first
  Window,      \* nonce window and time to remember a message, in ticks
  MaxNonces,   \* size of the nonce table
  MaxTime,     \* bound on the clock
  Ahead,       \* by how much each node's clock is ahead of now
  Prompt       \* does the network deliver within the window?

ASSUME GossipAssumption ==
  /\ Sender \in [Messages -> Nodes] /\ NoAddress \notin Nodes
  /\ TTL \in Nat /\ Window \in Nat /\ MaxTime \in Nat /\ MaxNonces \in Nat
  /\ Ahead \in [Nodes -> Nat] /\ Prompt \in BOOLEAN

\* Connections are mutual: a node that is pinged knows who pinged.
ASSUME TopologyAssumption ==
  \A t \in Topologies : /\ t \subseteq Nodes \X Nodes
                        /\ \A e \in t : <<e[2], e[1]>> \in t /\ e[1] # e[2]

VARIABLES
  now,
  topology,      \* the connections at first
  connections,   \* Node.connections: the address under each peer's id
  seenMessages,  \* when each node has seen a MsgID
  nonces,        \* NonceTracker.seen: when each node has met a nonce
  marked,        \* when broadcastGossip entered the MsgID in seenMessages
  stamp,         \* P2PMessage.Timestamp, once the message is sent
  net,           \* copies on their way
  late,          \* copies that were received and may be received again
  handling,      \* goroutines in handleMessage, past the nonce tracker
  forwarding,    \* goroutines that are about to forward
  delivered,     \* history: how often the message reached its handler
  evicted        \* history: nonces that have left a table that was too large

Clock(n) == now + Ahead[n]

tables == <<connections, seenMessages, nonces>>
sending == <<marked, stamp>>
network == <<net, late>>
vars == <<now, topology, tables, sending, network, handling, forwarding,
          delivered, evicted>>

Absent == -1
Time == Nat \cup {Absent}

Copy == [msg : Messages, ttl : Nat, src : Nodes, to : Nodes]
Job  == [msg : Messages, ttl : Nat, src : Nodes]

\* A goroutine that has nothing to do, or which lock it takes next, and for what.
Idle == [at |-> "idle"]
Task == {Idle} \cup [at : {"connections", "seenMessages"}, copy : Copy]

Init ==
  /\ now = 0
  /\ topology \in Topologies
  /\ connections = [n \in Nodes |-> [p \in Nodes |->
                      IF <<n, p>> \in topology THEN p ELSE NoAddress]]
  /\ seenMessages = [n \in Nodes |-> [m \in Messages |-> Absent]]
  /\ nonces = [n \in Nodes |-> [m \in Messages |-> Absent]]
  /\ marked = [m \in Messages |-> Absent]
  /\ stamp = [m \in Messages |-> Absent]
  /\ net = {} /\ late = {}
  /\ handling = [g \in Goroutines |-> Idle]
  /\ forwarding = [n \in Nodes |-> {}]
  /\ delivered = [n \in Nodes |-> [m \in Messages |-> 0]]
  /\ evicted = [n \in Nodes |-> {}]

\* One entry of a table of tables.
Set(table, n, k, v) == [table EXCEPT ![n] = [table[n] EXCEPT ![k] = v]]

Peers(n) == {p \in Nodes : connections[n][p] # NoAddress}

-----------------------------------------------------------------------------
\* broadcastGossip begins: the sender remembers its message, to prevent echo.
MarkSeen(m) ==
  LET n == Sender[m]
  IN  /\ marked[m] = Absent
      /\ marked' = [marked EXCEPT ![m] = Clock(n)]
      /\ seenMessages' = Set(seenMessages, n, m, Clock(n))
      /\ UNCHANGED <<now, topology, connections, nonces, stamp, network,
                     handling, forwarding, delivered, evicted>>

\* It goes on, later: the message is dated and sent, one datagram for each
\* connection, even when two have the same address.  Its own nonce the sender
\* does not record.
broadcastGossip(m) ==
  LET n == Sender[m]
  IN  /\ marked[m] # Absent /\ stamp[m] = Absent
      /\ stamp' = [stamp EXCEPT ![m] = Clock(n)]
      /\ net' = net \cup {[msg |-> m, ttl |-> TTL, src |-> n,
                           to |-> connections[n][p]] : p \in Peers(n)}
      /\ UNCHANGED <<now, topology, tables, marked, late, handling, forwarding,
                     delivered, evicted>>

\* Variant: everyone.
RecipientsEveryone(n, job) == {connections[n][p] : p \in Peers(n)}

\* Everyone but the node the message comes from and the address it came by.
Recipients(n, job) ==
  {connections[n][p] : p \in Peers(n) \ {Sender[job.msg]}} \ {job.src}

forwardMessage(n, job) ==
  /\ forwarding' = [forwarding EXCEPT ![n] = @ \ {job}]
  /\ net' = net \cup {[msg |-> job.msg, ttl |-> job.ttl - 1, src |-> n,
                       to |-> q] : q \in Recipients(n, job)}
  /\ UNCHANGED <<now, topology, tables, sending, late, handling, delivered,
                 evicted>>

\* Variant: the time is not looked at.
FreshAnyTime(n, m) == nonces[n][m] = Absent

\* NonceTracker.Check: in time, and not met before.
Fresh(n, m) ==
  /\ Clock(n) <= stamp[m] + Window /\ stamp[m] <= Clock(n) + Window
  /\ nonces[n][m] = Absent

\* The nonce is recorded, and an oldest one leaves a table that is too large.
\* Of two that are equally old, either may go.
Recorded(n, m) ==
  LET table == [nonces[n] EXCEPT ![m] = Clock(n)]
      met   == {k \in Messages : table[k] # Absent}
  IN  IF Cardinality(met) <= MaxNonces THEN {table}
      ELSE {[table EXCEPT ![k] = Absent] :
              k \in {o \in met : \A x \in met : table[o] <= table[x]}}

\* Variant: the last hop is not taken.
ForwardsEarly(copy) == copy.ttl > 1

Forwards(copy) == copy.ttl > 0

\* The nonces that left the table when that of m was recorded.
Evicted(n, m, table) ==
  {k \in Messages : (k = m \/ nonces[n][k] # Absent) /\ table[k] = Absent}

(* handleMessage.  A copy whose nonce is new...                            *)
Check(g, copy) ==
  LET n == copy.to
      m == copy.msg
  IN  /\ handling[g] = Idle /\ Fresh(n, m)
      /\ \E table \in Recorded(n, m) :
           /\ nonces' = [nonces EXCEPT ![n] = table]
           /\ evicted' = [evicted EXCEPT ![n] = @ \cup Evicted(n, m, table)]
      /\ handling' = [handling EXCEPT ![g] = [at |-> "connections", copy |-> copy]]
      /\ UNCHANGED <<now, topology, connections, seenMessages, sending,
                     forwarding, delivered>>

\* ... puts the address it came from, whoever forwarded it, under its author's
\* id...
EnterConnection(g) ==
  LET copy == handling[g].copy
  IN  /\ handling[g].at = "connections"
      /\ connections' = Set(connections, copy.to, Sender[copy.msg], copy.src)
      /\ handling' = [handling EXCEPT ![g].at = "seenMessages"]
      /\ UNCHANGED <<now, topology, seenMessages, nonces, sending, network,
                     forwarding, delivered, evicted>>

\* ... and is forwarded and given to its handler unless its MsgID is known.
EnterSeen(g) ==
  LET copy == handling[g].copy
      n == copy.to
      m == copy.msg
  IN  /\ handling[g].at = "seenMessages"
      /\ handling' = [handling EXCEPT ![g] = Idle]
      /\ IF seenMessages[n][m] # Absent
         THEN UNCHANGED <<seenMessages, delivered, forwarding>>
         ELSE /\ seenMessages' = Set(seenMessages, n, m, Clock(n))
              /\ delivered' = Set(delivered, n, m, delivered[n][m] + 1)
              /\ forwarding' =
                   IF Forwards(copy)
                   THEN [forwarding EXCEPT ![n] = @ \cup
                          {[msg |-> m, ttl |-> copy.ttl, src |-> copy.src]}]
                   ELSE forwarding
      /\ UNCHANGED <<now, topology, connections, nonces, sending, network, evicted>>

handleMessage(g) == EnterConnection(g) \/ EnterSeen(g)

\* A copy arrives for the first time.
Receive(copy) ==
  /\ net' = net \ {copy}
  /\ late' = late \cup {copy}
  /\ \/ \E g \in Goroutines : Check(g, copy)
     \/ /\ ~Fresh(copy.to, copy.msg)
        /\ UNCHANGED <<now, topology, tables, sending, handling, forwarding,
                       delivered, evicted>>

\* It arrives once more.
Again(copy) == UNCHANGED network /\ \E g \in Goroutines : Check(g, copy)

-----------------------------------------------------------------------------
\* Variant: nothing is subtracted from the clock.
CutoffNow(n) == Clock(n)

\* time.Now().Add(-5 * time.Minute), in both cleaners.
Cutoff(n) == Clock(n) - Window

\* A table without the times before the cutoff.
Old(n, t)        == t # Absent /\ t < Cutoff(n)
Cleaned(n, table) ==
  [m \in Messages |-> IF Old(n, table[m]) THEN Absent ELSE table[m]]

cleanSeenMessages(n) ==
  /\ \E m \in Messages : Old(n, seenMessages[n][m])
  /\ seenMessages' = [seenMessages EXCEPT ![n] = Cleaned(n, seenMessages[n])]
  /\ UNCHANGED <<now, topology, connections, nonces, sending, network, handling,
                 forwarding, delivered, evicted>>

cleanNonces(n) ==
  /\ \E m \in Messages : Old(n, nonces[n][m])
  /\ nonces' = [nonces EXCEPT ![n] = Cleaned(n, nonces[n])]
  /\ UNCHANGED <<now, topology, connections, seenMessages, sending, network,
                 handling, forwarding, delivered, evicted>>

\* Under Prompt no copy outlives the window on its way, by anyone's clock, nor
\* in the hands of the goroutine that is the first to have it at a node.
InTime(m) == \A n \in Nodes : Clock(n) < stamp[m] + Window

First(copy) == delivered[copy.to][copy.msg] = 0 /\ copy.to # Sender[copy.msg]

Tick ==
  /\ now < MaxTime
  /\ Prompt =>
       /\ \A copy \in net : InTime(copy.msg)
       /\ \A g \in Goroutines : handling[g] # Idle /\ First(handling[g].copy)
                                  => InTime(handling[g].copy.msg)
       /\ \A n \in Nodes : \A job \in forwarding[n] : InTime(job.msg)
  /\ now' = now + 1
  /\ UNCHANGED <<topology, tables, sending, network, handling, forwarding,
                 delivered, evicted>>

Next ==
  \/ \E m \in Messages : MarkSeen(m) \/ broadcastGossip(m)
  \/ \E g \in Goroutines : handleMessage(g)
  \/ \E n \in Nodes : \E job \in forwarding[n] : forwardMessage(n, job)
  \/ \E copy \in net : Receive(copy)
  \/ \E copy \in late : Again(copy)
  \/ \E n \in Nodes : cleanSeenMessages(n) \/ cleanNonces(n)
  \/ Tick

Spec == Init /\ [][Next]_vars

\* Goroutines run, and a network that is prompt delivers: strongly fair, since
\* in the code a datagram has a goroutine of its own and never waits for one.
Delivery == \E copy \in net : Receive(copy)
Forwarding(n) == \E job \in forwarding[n] : forwardMessage(n, job)

FairSpec == /\ Spec
            /\ SF_vars(Delivery)
            /\ \A g \in Goroutines : WF_vars(handleMessage(g))
            /\ \A n \in Nodes : WF_vars(Forwarding(n))

-----------------------------------------------------------------------------
TypeOK ==
  /\ now \in Nat /\ topology \in Topologies
  /\ connections \in [Nodes -> [Nodes -> Nodes \cup {NoAddress}]]
  /\ seenMessages \in [Nodes -> [Messages -> Time]]
  /\ nonces \in [Nodes -> [Messages -> Time]]
  /\ marked \in [Messages -> Time] /\ stamp \in [Messages -> Time]
  /\ handling \in [Goroutines -> Task]
  /\ net \subseteq Copy /\ late \subseteq Copy
  /\ forwarding \in [Nodes -> SUBSET Job]
  /\ delivered \in [Nodes -> [Messages -> Nat]]
  /\ evicted \in [Nodes -> SUBSET Messages]

\* The clock of n is not behind the clock of the message's sender.  Where it is,
\* neither property below holds: the message is in the window of Check for
\* longer than anything is remembered.
NotBehind(n, m) == Ahead[Sender[m]] <= Ahead[n]

\* From when its author has entered a message in seenMessages until the window
\* has passed, no handler sees it twice, and none at its own node sees it at
\* all: what the nonce tracker evicts, or never knew, seenMessages still knows,
\* and in that time it forgets nothing (cleanSeenMessages against
\* NonceTracker.Check).  A copy that Check let in just before the end, and that
\* comes to seenMessages after it, may be handled again, and so may an echo be
\* at its author when the message was dated later than it was entered.
DeliverOnce ==
  \A n \in Nodes, m \in Messages :
    NotBehind(n, m) /\ Clock(n) <= marked[m] + Window
      => delivered[n][m] <= (IF Sender[m] = n THEN 0 ELSE 1)

\* Nor does a handler ever see a message twice, after whatever time, at a node
\* whose nonce tracker was never too full to keep the nonce: the tracker forgets
\* a nonce only when the message has become too old for it.
OnceByNonce ==
  \A n \in Nodes, m \in Messages :
    NotBehind(n, m) /\ m \notin evicted[n] => delivered[n][m] <= 1

\* Behind[t][n][q]: where a message from n can come to by way of its neighbour
\* q, namely what is in every set that has q, not n, and its nodes' neighbours.
Behind ==
  [t \in Topologies |-> [n \in Nodes |-> [q \in Nodes |->
     {p \in Nodes : \A S \in SUBSET (Nodes \ {n}) :
        (q \in S /\ \A e \in t : e[1] \in S /\ e[2] # n => e[2] \in S)
          => p \in S}]]]

\* Connected, and no way leads from a node through one of its neighbours to
\* where it leads through another.
Trees == {t \in Topologies :
            /\ \A n, p \in Nodes : n # p =>
                  \E q \in Nodes : <<n, q>> \in t /\ p \in Behind[t][n][q]
            /\ \A n, q, x \in Nodes :
                  <<n, q>> \in t /\ <<n, x>> \in t /\ q # x
                    => Behind[t][n][q] \cap Behind[t][n][x] = {}}

IsTree == topology \in Trees

\* In a tree, what a node learns from forwarded messages are routes: the
\* address under a peer's id is the neighbour the peer is behind, and no node
\* has an entry for itself (the assignment in handleMessage).
RoutesInTree ==
  IsTree => \A n, p \in Nodes : connections[n][p] # NoAddress =>
              p # n /\ p \in Behind[topology][n][connections[n][p]]

\* In a tree that is not deeper than the TTL, a prompt network brings every
\* message to everyone, as main.go:1545 says it does ("This ensures messages
\* reach all nodes even if they're not directly connected").
Everywhere(m) == \A n \in Nodes : n = Sender[m] \/ delivered[n][m] > 0

ReachesTree ==
  \A m \in Messages : (IsTree /\ stamp[m] # Absent) ~> Everywhere(m)
=============================================================================
