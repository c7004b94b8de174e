---------------------------- MODULE OverlayProofs ----------------------------
(***************************************************************************)
(* For any number of peers and goroutines, any buckets and any lengths of  *)
(* circuits: the tables of Overlay are well formed and agree, a peer is    *)
(* pinged before it is forgotten, and a circuit has the relays it needs.   *)
(***************************************************************************)
EXTENDS Overlay, FiniteSetTheorems, SequenceTheorems, TLAPS

\* The peer maintenance is about to take from the relays has no connection.
Gone == sweep.gone # NoPeer => sweep.at = "clean" /\ sweep.gone \notin Connected

\* What a goroutine works for is a peer; one that was just entered is connected.
Busy ==
  \A w \in Workers :
    /\ task[w].list = {}
    /\ task[w].stage \in Handling => task[w].from \in Peers /\ task[w].at \in Peers
    /\ task[w].stage \in {"route", "build"} => task[w].from \in Peers
    /\ Doing(w, "relay") => task[w].from \in Connected /\ conn[task[w].from].age = 0

\* Every tick of silence after the first PingAfter has brought a ping.
Pinged ==
  \A p \in Connected :
    \/ conn[p].age <= PingAfter
    \/ tries[p] + (IF sweep.at = "ping" THEN 1 ELSE 0) >= conn[p].age - PingAfter

\* TablesAgree, of one peer.
Agrees(p) ==
  /\ p \in Connected <=> p \in relays
  /\ p \in Connected => p \in dummies /\ (p \in table \/ Cardinality(Bucket(p)) >= K)

OverlayInv == TypeOK /\ Gone /\ Busy /\ Pinged /\ TablesAgree /\ OnionHasRelays

USE OverlayAssumption

LEMMA NumberFacts ==
  /\ PingAfter \in Nat /\ DropAfter \in Nat /\ MinHops \in Nat /\ MaxHops \in Nat
  /\ MaxHeard \in Nat /\ PingAfter < DropAfter
  OBVIOUS

LEMMA NoneFacts ==
  /\ None.age = 0 /\ None.at = NoPeer
  /\ None \notin [age : 0..(DropAfter + 1), at : Peers]
  /\ Connected \subseteq Peers
  BY DEF None, Connected

LEMMA AgreesAll ==
  /\ TablesAgree <=> \A p \in Peers : Between(p) \/ Agrees(p)
  /\ TablesAgree' <=> \A p \in Peers : Between(p)' \/ Agrees(p)'
  BY DEF TablesAgree, Agrees

LEMMA IdleFacts ==
  /\ Idle \in Task /\ Idle.stage = "idle" /\ Idle.list = {} /\ Idle.hops = <<>>
  BY DEF Idle, Task, Handling

\* A query is never told of a node: the ids it compares differ in length.
LEMMA FoundNone == FindNode(Peers, Peers) = {}
  BY DEF FindNode, ShortID, NodeID

LEMMA MessageFacts ==
  ASSUME NEW p \in Peers, NEW q \in Peers, NEW kind
  PROVE  /\ Message(p, q, kind) \in Task
         /\ Message(p, q, kind).stage = "register"
         /\ Message(p, q, kind).from = p /\ Message(p, q, kind).at = q
         /\ Message(p, q, kind).list = {}
<1> DEFINE c == \/ kind = "chat"
                \/ kind = "onion" /\ Unwraps(Self, p, WrapMessage(p, <<Self>>))
           l == IF kind = "nodes" THEN FindNode(Peers, Peers) ELSE {}
<1>1. l = {}
  BY FoundNone
<1>2. c \in BOOLEAN
  OBVIOUS
<1>3. Message(p, q, kind) =
        [Idle EXCEPT !.stage = "register", !.from = p, !.at = q, !.chat = c,
                     !.list = l]
  BY DEF Message
<1> HIDE DEF c, l
<1>4. PICK b \in BOOLEAN : b = c
  BY <1>2, Zenon
<1>5. Message(p, q, kind) =
        [Idle EXCEPT !.stage = "register", !.from = p, !.at = q, !.chat = b,
                     !.list = {}]
  BY <1>1, <1>3, <1>4, Zenon
<1>6. Message(p, q, kind) =
        [stage |-> "register", from |-> p, at |-> q, chat |-> b,
         list |-> {}, sealed |-> FALSE, hops |-> <<>>]
  BY <1>5 DEF Idle
<1>7. QED
  BY <1>6 DEF Task, Handling

LEMMA InitOverlay == Init => OverlayInv
<1> SUFFICES ASSUME Init PROVE OverlayInv
  OBVIOUS
<1>1. Connected = {}
  BY DEF Init, Connected
<1>2. TypeOK
  BY NumberFacts, IdleFacts DEF Init, TypeOK, JoinPings
<1>3. Busy /\ OnionHasRelays
  BY IdleFacts DEF Init, Busy, OnionHasRelays, Doing, Handling
<1>4. QED
  BY <1>1, <1>2, <1>3 DEF Init, OverlayInv, Gone, Pinged, TablesAgree
-----------------------------------------------------------------------------
(* Steps of goroutines. *)

LEMMA GotoStep ==
  ASSUME TypeOK, NEW w \in Workers,
         NEW stage \in Handling \cup {"idle", "route", "build", "sent"},
         Goto(w, stage)
  PROVE  /\ task' \in [Workers -> Task]
         /\ task'[w].stage = stage
         /\ task'[w].from = task[w].from /\ task'[w].at = task[w].at
         /\ task'[w].list = task[w].list /\ task'[w].hops = task[w].hops
         /\ \A v \in Workers : v # w => task'[v] = task[v]
<1>1. task[w] \in Task
  BY DEF TypeOK
<1>2. task' = [task EXCEPT ![w] = [task[w] EXCEPT !.stage = stage]]
  BY DEF Goto
<1>3. [task[w] EXCEPT !.stage = stage] \in Task
  BY <1>1 DEF Task
<1>4. QED
  BY <1>1, <1>2, <1>3 DEF TypeOK, Task

LEMMA TaskPut ==
  ASSUME TypeOK, NEW w \in Workers, NEW t \in Task, task' = [task EXCEPT ![w] = t]
  PROVE  /\ task' \in [Workers -> Task]
         /\ task'[w] = t
         /\ \A v \in Workers : v # w => task'[v] = task[v]
<1>1. task \in [Workers -> Task]
  BY DEF TypeOK
<1>2. QED
  BY <1>1

LEMMA ReturnStep ==
  ASSUME TypeOK, NEW w \in Workers, Return(w)
  PROVE  /\ task' \in [Workers -> Task]
         /\ task'[w] = Idle
         /\ \A v \in Workers : v # w => task'[v] = task[v]
  BY IdleFacts, TaskPut DEF Return

\* A step in which w takes up t, and nobody is entered or removed.
LEMMA TaskStep ==
  ASSUME OverlayInv, NEW w \in Workers,
         UNCHANGED <<conn, relays, table, dummies, sweep, tries>>,
         task' \in [Workers -> Task],
         \A v \in Workers : v # w => task'[v] = task[v],
         task[w].stage # "relay", task'[w].stage \notin {"relay", "sent"},
         task'[w].list = {},
         task'[w].stage \in Handling => task'[w].from \in Peers /\ task'[w].at \in Peers,
         task'[w].stage \in {"route", "build"} => task'[w].from \in Peers
  PROVE  Gone' /\ Busy' /\ Pinged' /\ TablesAgree' /\ OnionHasRelays'
<1>1. Connected' = Connected
  BY DEF Connected
<1>2. Gone' /\ Pinged'
  BY <1>1 DEF OverlayInv, Gone, Pinged
<1>3. Busy'
  BY <1>1 DEF OverlayInv, Busy, Doing
<1>4. \A p \in Peers : Between(p) => Between(p)'
  BY DEF Between, Doing
<1>5. TablesAgree'
  BY <1>1, <1>4 DEF OverlayInv, TablesAgree, Bucket
<1>6. OnionHasRelays'
  BY DEF OverlayInv, OnionHasRelays, Doing
<1>7. QED
  BY <1>2, <1>3, <1>5, <1>6

LEMMA ArriveStep ==
  ASSUME OverlayInv, NEW w \in Workers, NEW p \in Peers, NEW q \in Peers,
         NEW kind \in Kinds,
         Arrive(w, p, q, kind) \/ Answer(w, q)
  PROVE  OverlayInv'
<1>1. PICK a \in Peers, b \in Peers, k \in Kinds :
        task' = [task EXCEPT ![w] = Message(a, b, k)]
  BY DEF Arrive, Answer, Kinds
<1>2. /\ task' \in [Workers -> Task] /\ task'[w] = Message(a, b, k)
      /\ \A v \in Workers : v # w => task'[v] = task[v]
  BY <1>1, MessageFacts DEF OverlayInv, TypeOK
<1>3. heard' \in 0..MaxHeard
  BY NumberFacts DEF OverlayInv, TypeOK, Arrive, Answer
<1>4. /\ UNCHANGED <<tables, sweep, up, tries>> /\ asked' \subseteq Peers
      /\ task[w].stage = "idle"
  BY DEF Arrive, Answer, OverlayInv, TypeOK, Doing
<1>5. TypeOK'
  BY <1>2, <1>3, <1>4 DEF OverlayInv, TypeOK, tables
<1>6. Gone' /\ Busy' /\ Pinged' /\ TablesAgree' /\ OnionHasRelays'
  BY <1>2, <1>4, MessageFacts, TaskStep DEF tables
<1>7. QED
  BY <1>5, <1>6 DEF OverlayInv

LEMMA HandleStep ==
  ASSUME OverlayInv, NEW w \in Workers, Handle(w)
  PROVE  OverlayInv'
<1>1. task[w].list = {} /\ task[w].stage = "handle" /\ task[w].from \in Peers
  BY DEF OverlayInv, Busy, Handle, Doing, Handling
<1>2. /\ UNCHANGED <<conn, relays, table, dummies, asked, sweep, up, heard, tries>>
      /\ keys' \subseteq Peers
  BY <1>1 DEF Handle, OverlayInv, TypeOK
<1>3. /\ task' \in [Workers -> Task] /\ task'[w] = Idle
      /\ \A v \in Workers : v # w => task'[v] = task[v]
  BY ReturnStep DEF Handle, OverlayInv
<1>4. TypeOK'
  BY <1>2, <1>3 DEF OverlayInv, TypeOK
<1>5. Gone' /\ Busy' /\ Pinged' /\ TablesAgree' /\ OnionHasRelays'
  BY <1>1, <1>2, <1>3, IdleFacts, TaskStep DEF Handling
<1>6. QED
  BY <1>4, <1>5 DEF OverlayInv

\* Whoever is being entered has a connection at once and the rest before long.
LEMMA RegisterStep ==
  ASSUME OverlayInv, NEW w \in Workers, Register(w)
  PROVE  OverlayInv'
<1> PICK p \in Peers : p = task[w].from
  BY DEF OverlayInv, Busy, Register, Doing, Handling
<1>1. p \in Peers /\ task[w].at \in Peers /\ task[w].stage = "register"
  BY DEF OverlayInv, Busy, Register, Doing, Handling
<1> DEFINE new == [age |-> 0, at |-> task[w].at]
<1>2. new \in [age : 0..(DropAfter + 1), at : Peers] /\ new # None /\ new.age = 0
  BY <1>1, NumberFacts, NoneFacts
<1>3. conn' = [conn EXCEPT ![p] = new] /\ tries' = [tries EXCEPT ![p] = 0]
  BY DEF Register
<1> HIDE DEF new
<1>4. /\ conn' \in [Peers -> [age : 0..(DropAfter + 1), at : Peers] \cup {None}]
      /\ tries' \in [Peers -> 0..(DropAfter - PingAfter + 1)]
      /\ conn'[p] = new /\ \A q \in Peers : q # p => conn'[q] = conn[q]
      /\ \A q \in Peers : q # p => tries'[q] = tries[q]
  BY <1>1, <1>2, <1>3, NumberFacts DEF OverlayInv, TypeOK
<1>5. /\ task' \in [Workers -> Task] /\ task'[w].stage = "relay"
      /\ task'[w].from = p /\ task'[w].at = task[w].at
      /\ task'[w].list = task[w].list
      /\ \A v \in Workers : v # w => task'[v] = task[v]
  BY GotoStep DEF Register, OverlayInv, Handling
<1>6. UNCHANGED <<relays, table, dummies, keys, sweep, up, asked, heard>>
  BY DEF Register
<1>7. TypeOK'
  BY <1>4, <1>5, <1>6 DEF OverlayInv, TypeOK
<1>8. Connected' = Connected \cup {p}
  BY <1>1, <1>2, <1>4 DEF Connected
<1>9. Gone'
  BY <1>6 DEF Register, OverlayInv, Gone
<1>10. Busy'
  <2> SUFFICES ASSUME NEW v \in Workers
               PROVE  /\ task'[v].list = {}
                      /\ task'[v].stage \in Handling =>
                           task'[v].from \in Peers /\ task'[v].at \in Peers
                      /\ task'[v].stage \in {"route", "build"} => task'[v].from \in Peers
                      /\ task'[v].stage = "relay" =>
                           task'[v].from \in Connected' /\ conn'[task'[v].from].age = 0
    BY DEF Busy, Doing
  <2>1. CASE v = w
    BY <1>1, <1>2, <1>4, <1>5, <1>8, <2>1 DEF OverlayInv, Busy
  <2>2. CASE v # w
    <3>1. task'[v] = task[v]
      BY <1>5, <2>2
    <3>2. task[v].stage = "relay" =>
            task[v].from \in Connected' /\ conn'[task[v].from].age = 0
      BY <1>2, <1>4, <1>8, NoneFacts DEF OverlayInv, Busy, Doing
    <3>3. QED
      BY <3>1, <3>2 DEF OverlayInv, Busy
  <2>3. QED
    BY <2>1, <2>2
<1>11. Pinged'
  BY <1>1, <1>2, <1>4, <1>6, <1>8, NumberFacts, NoneFacts DEF OverlayInv, Pinged
<1>12. TablesAgree'
  <2>1. Between(p)'
    BY <1>5 DEF Between, Doing
  <2>2. ASSUME NEW q \in Peers, q # p, Between(q) PROVE Between(q)'
    BY <1>1, <1>5, <1>6, <2>2 DEF Between, Doing
  <2>3. ASSUME NEW q \in Peers, q # p, Agrees(q) PROVE Agrees(q)'
    BY <1>6, <1>8, <2>3 DEF Agrees, Bucket
  <2>4. QED
    BY <2>1, <2>2, <2>3, AgreesAll DEF OverlayInv
<1>13. OnionHasRelays'
  BY <1>5 DEF OverlayInv, OnionHasRelays, Doing
<1>14. QED
  BY <1>7, <1>9, <1>10, <1>11, <1>12, <1>13 DEF OverlayInv

\* A bucket that only gains nodes stays full.
LEMMA BucketGrows ==
  ASSUME TypeOK, NEW p, table' \subseteq Peers, table \subseteq table'
  PROVE  /\ Cardinality(Bucket(p)) \in Nat
         /\ Cardinality(Bucket(p)) >= K => Cardinality(Bucket(p)') >= K
<1>1. /\ Bucket(p) \subseteq Peers /\ Bucket(p)' \subseteq Peers
      /\ Bucket(p) \subseteq Bucket(p)'
  BY DEF TypeOK, Bucket
<1>2. IsFiniteSet(Bucket(p)) /\ IsFiniteSet(Bucket(p)')
  BY <1>1, FS_Subset
<1>3. /\ Cardinality(Bucket(p)) \in Nat /\ Cardinality(Bucket(p)') \in Nat
      /\ Cardinality(Bucket(p)) <= Cardinality(Bucket(p)')
  BY <1>1, <1>2, FS_CardinalityType, FS_Subset
<1>4. K \in Nat
  OBVIOUS
<1>5. QED
  BY <1>3, <1>4

LEMMA AddRelayStep ==
  ASSUME OverlayInv, NEW w \in Workers, AddRelay(w)
  PROVE  OverlayInv'
<1> PICK p \in Peers : p = task[w].from
  BY DEF OverlayInv, Busy, AddRelay, Doing, Handling
<1>1. /\ task[w].stage = "relay" /\ p \in Connected
      /\ relays' = relays \cup {p} /\ dummies' = dummies \cup {p}
      /\ table' = AddNode(p)
      /\ UNCHANGED <<conn, keys, sweep, up, asked, heard, tries>>
  BY DEF OverlayInv, Busy, AddRelay, Doing
<1>2. table' \subseteq Peers /\ table \subseteq table'
  BY <1>1 DEF AddNode, OverlayInv, TypeOK
<1>3. /\ task' \in [Workers -> Task]
      /\ task'[w].stage \notin {"relay", "sent", "route", "build"}
      /\ task'[w].list = {}
      /\ task'[w].stage \in Handling =>
           task'[w].from \in Peers /\ task'[w].at \in Peers
      /\ \A v \in Workers : v # w => task'[v] = task[v]
  <2>1. CASE Goto(w, "handle")
    BY <1>1, <2>1, GotoStep DEF OverlayInv, Busy, Handling
  <2>2. CASE Return(w)
    BY <2>2, ReturnStep, IdleFacts DEF OverlayInv, Handling
  <2>3. QED
    BY <2>1, <2>2 DEF AddRelay
<1>4. TypeOK'
  BY <1>1, <1>2, <1>3 DEF OverlayInv, TypeOK
<1>5. Connected' = Connected
  BY <1>1 DEF Connected
<1>6. Gone' /\ Pinged'
  BY <1>1, <1>5 DEF OverlayInv, Gone, Pinged
<1>7. Busy'
  BY <1>1, <1>3, <1>5 DEF OverlayInv, Busy, Doing
<1>8. OnionHasRelays'
  BY <1>3 DEF OverlayInv, OnionHasRelays, Doing
<1>9. TablesAgree'
  <2>1. Agrees(p)'
    <3>1. p \in table' \/ Cardinality(Bucket(p)) >= K
      <4>1. Cardinality(Bucket(p)) \in Nat /\ K \in Nat
        BY <1>2, BucketGrows DEF OverlayInv
      <4>2. QED
        BY <1>1, <4>1 DEF AddNode
    <3>2. p \in table' \/ Cardinality(Bucket(p)') >= K
      BY <1>2, <3>1, BucketGrows DEF OverlayInv
    <3>3. QED
      BY <1>1, <1>5, <3>2 DEF Agrees
  <2>2. ASSUME NEW q \in Peers, q # p, Between(q) PROVE Between(q)'
    BY <1>1, <1>3, <2>2 DEF Between, Doing
  <2>3. ASSUME NEW q \in Peers, q # p, Agrees(q) PROVE Agrees(q)'
    <3>1. Cardinality(Bucket(q)) >= K => Cardinality(Bucket(q)') >= K
      BY <1>2, BucketGrows DEF OverlayInv
    <3>2. QED
      BY <1>1, <1>2, <1>5, <2>3, <3>1 DEF Agrees
  <2>4. QED
    BY <2>1, <2>2, <2>3, AgreesAll DEF OverlayInv
<1>10. QED
  BY <1>4, <1>6, <1>7, <1>8, <1>9 DEF OverlayInv
-----------------------------------------------------------------------------
(* Steps of maintenance, which leave the goroutines alone. *)

LEMMA TickStep == ASSUME OverlayInv, Tick PROVE OverlayInv'
<1>1. /\ UNCHANGED <<relays, table, dummies, keys, task, up, asked, tries>>
      /\ sweep.gone = NoPeer /\ sweep' = [at |-> "ping", gone |-> NoPeer]
      /\ \A w \in Workers : task[w].stage \notin Handling
      /\ heard' = 0 /\ sweep.at = "idle"
  BY DEF Tick, OverlayInv, TypeOK, Gone
<1>2. ASSUME NEW p \in Peers
      PROVE  /\ conn'[p] \in [age : 0..(DropAfter + 1), at : Peers] \cup {None}
             /\ conn'[p] # None <=> conn[p] # None
             /\ conn[p] # None => conn'[p].age <= conn[p].age + 1
  <2>1. CASE p \in Connected /\ conn[p].age <= DropAfter
    <3>1. conn[p] \in [age : 0..(DropAfter + 1), at : Peers]
      BY <2>1 DEF OverlayInv, TypeOK, Connected
    <3>2. conn'[p] = [conn[p] EXCEPT !.age = conn[p].age + 1]
      BY <2>1 DEF Tick
    <3>3. conn'[p] \in [age : 0..(DropAfter + 1), at : Peers]
      BY <2>1, <3>1, <3>2, NumberFacts
    <3>4. QED
      BY <2>1, <3>1, <3>2, <3>3, NoneFacts DEF Connected
  <2>2. CASE ~ (p \in Connected /\ conn[p].age <= DropAfter)
    <3>1. conn'[p] = conn[p]
      BY <2>2 DEF Tick
    <3>2. conn[p] # None => conn[p].age \in Nat
      BY DEF OverlayInv, TypeOK
    <3>3. QED
      BY <3>1, <3>2 DEF OverlayInv, TypeOK
  <2>3. QED
    BY <2>1, <2>2
<1>3. conn' \in [Peers -> [age : 0..(DropAfter + 1), at : Peers] \cup {None}]
  BY <1>2 DEF Tick
<1>4. TypeOK'
  BY <1>1, <1>3, NumberFacts DEF OverlayInv, TypeOK
<1>5. Connected' = Connected
  BY <1>2 DEF Connected
<1>6. Gone' /\ Busy' /\ OnionHasRelays'
  BY <1>1 DEF OverlayInv, Gone, Busy, OnionHasRelays, Doing, Handling
<1>7. Pinged'
  <2> SUFFICES ASSUME NEW p \in Connected
               PROVE  \/ conn'[p].age <= PingAfter
                      \/ tries[p] + 1 >= conn'[p].age - PingAfter
    BY <1>1, <1>5 DEF Pinged
  <2>1. /\ p \in Peers /\ conn[p].age \in Nat /\ conn'[p].age \in Nat
        /\ conn'[p].age <= conn[p].age + 1 /\ tries[p] \in Nat
    BY <1>2, NumberFacts DEF Connected, OverlayInv, TypeOK
  <2>2. conn[p].age <= PingAfter \/ tries[p] >= conn[p].age - PingAfter
    BY <1>1, <2>1, NumberFacts DEF OverlayInv, Pinged
  <2>3. QED
    BY <2>1, <2>2, NumberFacts
<1>8. TablesAgree'
  <2>1. \A p \in Peers : Between(p) => Between(p)'
    BY <1>1 DEF Between, Doing
  <2>2. \A p \in Peers : Agrees(p) => Agrees(p)'
    BY <1>1, <1>5 DEF Agrees, Bucket
  <2>3. QED
    BY <2>1, <2>2, AgreesAll DEF OverlayInv
<1>9. QED
  BY <1>4, <1>6, <1>7, <1>8 DEF OverlayInv

LEMMA PingStep == ASSUME OverlayInv, PingPeers PROVE OverlayInv'
<1>1. /\ UNCHANGED <<tables, task, up, heard>>
      /\ sweep.at = "ping" /\ sweep'.at = "clean" /\ sweep'.gone = sweep.gone
      /\ sweep.gone = NoPeer
      /\ sweep' \in [at : {"idle", "ping", "clean"}, gone : Peers \cup {NoPeer}]
  BY DEF PingPeers, OverlayInv, TypeOK, Gone
<1>2. asked' \subseteq Peers
  BY DEF PingPeers, OverlayInv, TypeOK, Stale, Connected
<1>3. /\ tries' \in [Peers -> 0..(DropAfter - PingAfter + 1)]
      /\ \A p \in Peers : tries'[p] = IF p \in Stale(PingAfter)
                                      THEN Again(tries[p]) ELSE tries[p]
  BY NumberFacts DEF PingPeers, OverlayInv, TypeOK, Again
<1>4. TypeOK'
  BY <1>1, <1>2, <1>3 DEF OverlayInv, TypeOK, tables
<1>5. Connected' = Connected
  BY <1>1 DEF Connected, tables
<1>6. Gone' /\ Busy' /\ OnionHasRelays'
  BY <1>1, <1>5 DEF OverlayInv, Gone, Busy, OnionHasRelays, Doing, tables
<1>7. Pinged'
  <2> SUFFICES ASSUME NEW p \in Connected
               PROVE  \/ conn[p].age <= PingAfter
                      \/ tries'[p] >= conn[p].age - PingAfter
    BY <1>1, <1>3, <1>5, NumberFacts DEF Pinged, tables, Connected
  <2>1. p \in Peers /\ conn[p].age \in 0..(DropAfter + 1) /\ tries[p] \in Nat
    BY NumberFacts DEF Connected, OverlayInv, TypeOK
  <2>2. conn[p].age <= PingAfter \/ tries[p] + 1 >= conn[p].age - PingAfter
    BY <1>1 DEF OverlayInv, Pinged
  <2>3. conn[p].age > PingAfter => tries'[p] = Again(tries[p])
    BY <1>3, <2>1 DEF Stale
  <2>4. QED
    BY <2>1, <2>2, <2>3, NumberFacts DEF Again
<1>8. TablesAgree'
  <2>1. \A p \in Peers : Between(p) => Between(p)'
    BY <1>1 DEF Between, Doing
  <2>2. \A p \in Peers : Agrees(p) => Agrees(p)'
    BY <1>1, <1>5 DEF Agrees, Bucket, tables
  <2>3. QED
    BY <2>1, <2>2, AgreesAll DEF OverlayInv
<1>9. QED
  BY <1>4, <1>6, <1>7, <1>8 DEF OverlayInv

\* Nobody who is being entered is forgotten: his silence has just begun.
LEMMA ForgetStep ==
  ASSUME OverlayInv, NEW p \in Peers, Forget(p)
  PROVE  OverlayInv'
<1>1. /\ UNCHANGED <<relays, table, dummies, keys, task, up, asked, heard, tries>>
      /\ sweep.at = "clean" /\ sweep' = [at |-> "clean", gone |-> p]
      /\ sweep.gone = NoPeer /\ p \in Connected /\ conn[p].age > DropAfter
  BY DEF Forget, OverlayInv, TypeOK, TooOld, Stale
<1>2. /\ conn' \in [Peers -> [age : 0..(DropAfter + 1), at : Peers] \cup {None}]
      /\ conn'[p] = None /\ \A q \in Peers : q # p => conn'[q] = conn[q]
  BY DEF Forget, OverlayInv, TypeOK
<1>3. TypeOK'
  BY <1>1, <1>2 DEF OverlayInv, TypeOK
<1>4. Connected' = Connected \ {p}
  BY <1>2 DEF Connected
<1>5. Gone' /\ OnionHasRelays'
  BY <1>1, <1>4 DEF OverlayInv, Gone, OnionHasRelays, Doing
<1>6. Busy'
  <2>1. \A w \in Workers : Doing(w, "relay") => task[w].from # p
    BY <1>1, NumberFacts DEF OverlayInv, Busy
  <2>2. QED
    BY <1>1, <1>2, <1>4, <2>1, NoneFacts DEF OverlayInv, Busy, Doing
<1>7. Pinged'
  BY <1>1, <1>2, <1>4, NoneFacts DEF OverlayInv, Pinged
<1>8. TablesAgree'
  <2>1. Between(p)'
    BY <1>1 DEF Between
  <2>2. ASSUME NEW q \in Peers, q # p, Between(q) PROVE Between(q)'
    BY <1>1, <2>2 DEF Between, Doing
  <2>3. ASSUME NEW q \in Peers, q # p, Agrees(q) PROVE Agrees(q)'
    BY <1>1, <1>4, <2>3 DEF Agrees, Bucket
  <2>4. QED
    BY <2>1, <2>2, <2>3, AgreesAll DEF OverlayInv
<1>9. QED
  BY <1>3, <1>5, <1>6, <1>7, <1>8 DEF OverlayInv

LEMMA RemoveStep == ASSUME OverlayInv, RemoveRelay PROVE OverlayInv'
<1> PICK p \in Peers : p = sweep.gone
  BY DEF RemoveRelay, OverlayInv, TypeOK
<1>1. /\ UNCHANGED <<conn, table, dummies, keys, task, up, asked, heard, tries>>
      /\ relays' = relays \ {p} /\ p \notin Connected
      /\ sweep' = [at |-> "clean", gone |-> NoPeer] /\ sweep.at = "clean"
  BY DEF RemoveRelay, OverlayInv, TypeOK, Gone
<1>2. TypeOK'
  BY <1>1 DEF OverlayInv, TypeOK
<1>3. Connected' = Connected
  BY <1>1 DEF Connected
<1>4. Gone' /\ Busy' /\ Pinged' /\ OnionHasRelays'
  BY <1>1, <1>3 DEF OverlayInv, Gone, Busy, Pinged, OnionHasRelays, Doing
<1>5. TablesAgree'
  <2>1. Agrees(p)'
    BY <1>1, <1>3 DEF Agrees
  <2>2. ASSUME NEW q \in Peers, q # p, Between(q) PROVE Between(q)'
    BY <1>1, <2>2 DEF Between, Doing
  <2>3. ASSUME NEW q \in Peers, q # p, Agrees(q) PROVE Agrees(q)'
    BY <1>1, <1>3, <2>3 DEF Agrees, Bucket
  <2>4. QED
    BY <2>1, <2>2, <2>3, AgreesAll DEF OverlayInv
<1>6. QED
  BY <1>2, <1>4, <1>5 DEF OverlayInv
-----------------------------------------------------------------------------
(* Circuits. *)

\* How many hops there may be: never fewer than MinHops, never more than the
\* relays and the end.
LEMMA HopsFacts ==
  ASSUME NEW n \in Nat, n >= MinHops - 1, NEW h \in NumHops(n)
  PROVE  h \in Nat /\ h >= MinHops /\ h <= n + 1
  BY NumberFacts DEF NumHops

\* A circuit is long enough, visits nobody twice and ends where it should.
LEMMA CircuitFacts ==
  ASSUME TypeOK, NEW p \in Peers, NEW c \in Circuits(p)
  PROVE  c \in Seq(Peers) /\ Relayed(c, p)
<1> DEFINE others == relays \ {p}
           n == Cardinality(others)
<1>1. others \subseteq Peers /\ n \in Nat
  <2>1. others \subseteq Peers
    BY DEF TypeOK
  <2>2. QED
    BY <2>1, FS_Subset, FS_CardinalityType
<1>2. n >= MinHops - 1
  BY <1>1, NumberFacts DEF Circuits
<1>3. PICK h \in NumHops(n) :
        c \in {Append(s, p) : s \in Injection(1..(h - 1), others)}
  BY DEF Circuits
<1>4. PICK s \in Injection(1..(h - 1), others) : c = Append(s, p)
  BY <1>3
<1>5. h \in Nat /\ h >= MinHops /\ h >= 1
  BY <1>1, <1>2, HopsFacts, NumberFacts
<1>6. /\ s \in [1..(h - 1) -> others]
      /\ \A i, j \in 1..(h - 1) : s[i] = s[j] => i = j
  BY DEF Injection, IsInjective
<1> HIDE DEF n, others
<1>7. s \in Seq(Peers) /\ Len(s) = h - 1
  <2>1. h - 1 \in Nat /\ s \in [1..(h - 1) -> Peers]
    BY <1>1, <1>5, <1>6
  <2>2. s \in Seq(Peers)
    BY <2>1, SeqDef
  <2>3. QED
    BY <2>1, <2>2
<1>8. /\ c \in Seq(Peers) /\ Len(c) = h /\ c[h] = p
      /\ \A i \in 1..(h - 1) : c[i] = s[i]
  BY <1>4, <1>5, <1>7
<1>9. \A i \in 1..(h - 1) : c[i] # p
  BY <1>6, <1>8 DEF others
<1>10. \A i, j \in 1..(h - 1) : c[i] = c[j] => i = j
  BY <1>6, <1>8
<1>11. Len(c) - 1 = h - 1 /\ (h - 1) + 1 = h /\ h - 1 >= MinHops - 1
  BY <1>5, <1>8, NumberFacts
<1>12. QED
  BY <1>8, <1>9, <1>10, <1>11 DEF Relayed

LEMMA BuildStep ==
  ASSUME OverlayInv, NEW w \in Workers, BuildCircuit(w)
  PROVE  OverlayInv'
<1> PICK p \in Peers : p = task[w].from
  BY DEF OverlayInv, Busy, BuildCircuit, Doing
<1>1. /\ UNCHANGED <<tables, sweep, up, asked, heard, tries>>
      /\ task[w].stage = "build" /\ task[w].list = {} /\ task[w] \in Task
  BY DEF BuildCircuit, Doing, OverlayInv, Busy, TypeOK
<1>2. CASE Return(w)
  <2>1. /\ task' \in [Workers -> Task] /\ task'[w] = Idle
        /\ \A v \in Workers : v # w => task'[v] = task[v]
    BY <1>2, ReturnStep DEF OverlayInv
  <2>2. TypeOK'
    BY <1>1, <2>1 DEF OverlayInv, TypeOK, tables
  <2>3. QED
    BY <1>1, <2>1, <2>2, IdleFacts, TaskStep DEF OverlayInv, tables, Handling
<1>3. CASE \E c \in Circuits(p) :
             task' = [task EXCEPT ![w].stage = "sent", ![w].hops = c]
  <2> PICK c \in Circuits(p) :
         task' = [task EXCEPT ![w].stage = "sent", ![w].hops = c]
    BY <1>3
  <2>1. c \in Seq(Peers) /\ Relayed(c, p)
    BY CircuitFacts DEF OverlayInv
  <2> DEFINE t == [[task[w] EXCEPT !.stage = "sent"] EXCEPT !.hops = c]
  <2>2. /\ t \in Task /\ t.stage = "sent" /\ t.hops = c /\ t.from = p
        /\ t.list = {}
    BY <1>1, <2>1 DEF Task
  <2>3. task' = [task EXCEPT ![w] = t]
    BY DEF OverlayInv, TypeOK
  <2> HIDE DEF t
  <2>4. /\ task' \in [Workers -> Task] /\ task'[w] = t
        /\ \A v \in Workers : v # w => task'[v] = task[v]
    BY <2>2, <2>3, TaskPut DEF OverlayInv
  <2>5. TypeOK'
    BY <1>1, <2>4 DEF OverlayInv, TypeOK, tables
  <2>6. Connected' = Connected
    BY <1>1 DEF Connected, tables
  <2>7. Gone' /\ Pinged'
    BY <1>1, <2>6 DEF OverlayInv, Gone, Pinged, tables
  <2>8. Busy'
    BY <1>1, <2>2, <2>4, <2>6 DEF OverlayInv, Busy, Doing, Handling, tables
  <2>9. TablesAgree'
    <3>1. \A q \in Peers : Between(q) => Between(q)'
      BY <1>1, <2>4 DEF Between, Doing
    <3>2. \A q \in Peers : Agrees(q) => Agrees(q)'
      BY <1>1, <2>6 DEF Agrees, Bucket, tables
    <3>3. QED
      BY <3>1, <3>2, AgreesAll DEF OverlayInv
  <2>10. OnionHasRelays'
    <3> SUFFICES ASSUME NEW v \in Workers, task'[v].stage = "sent"
                 PROVE  Relayed(task'[v].hops, task'[v].from)
      BY DEF OnionHasRelays, Doing
    <3>1. CASE v = w
      BY <2>1, <2>2, <2>4, <3>1
    <3>2. CASE v # w
      BY <2>4, <3>2 DEF OverlayInv, OnionHasRelays, Doing
    <3>3. QED
      BY <3>1, <3>2
  <2>11. QED
    BY <2>5, <2>7, <2>8, <2>9, <2>10 DEF OverlayInv
<1>4. QED
  BY <1>2, <1>3 DEF BuildCircuit

\* The other steps of a direct message.
LEMMA SendStep ==
  ASSUME OverlayInv, NEW w \in Workers,
         \/ \E p \in Peers : SendAnonymous(w, p)
         \/ CanRoute(w) \/ WriteTo(w)
  PROVE  OverlayInv'
<1>1. /\ UNCHANGED <<tables, sweep, up, asked, heard, tries>>
      /\ task[w].stage # "relay" /\ task[w] \in Task
  BY DEF SendAnonymous, CanRoute, WriteTo, Doing, OverlayInv, TypeOK
<1>2. /\ task' \in [Workers -> Task]
      /\ task'[w].stage \in {"idle", "route", "build"} /\ task'[w].list = {}
      /\ task'[w].stage \in {"route", "build"} => task'[w].from \in Peers
      /\ \A v \in Workers : v # w => task'[v] = task[v]
  <2>1. CASE \E p \in Peers : SendAnonymous(w, p)
    <3> PICK p \in Peers : SendAnonymous(w, p)
      BY <2>1
    <3>0. Sealing(p) \in BOOLEAN
      BY DEF Sealing
    <3> PICK b \in BOOLEAN : b = Sealing(p)
      BY <3>0, Zenon
    <3> DEFINE t == [Idle EXCEPT !.stage = "route", !.from = p, !.sealed = b]
    <3>1. t \in Task /\ t.stage = "route" /\ t.list = {} /\ t.from = p
      BY IdleFacts DEF Task
    <3>2. \/ task' = [task EXCEPT ![w] = t]
          \/ task' = [task EXCEPT ![w] = Idle]
      BY Zenon DEF SendAnonymous
    <3> HIDE DEF t
    <3>3. CASE task' = [task EXCEPT ![w] = t]
      <4>1. /\ task' \in [Workers -> Task] /\ task'[w] = t
            /\ \A v \in Workers : v # w => task'[v] = task[v]
        BY <3>1, <3>3, TaskPut DEF OverlayInv
      <4>2. QED
        BY <3>1, <4>1
    <3>4. CASE task' = [task EXCEPT ![w] = Idle]
      BY <3>4, ReturnStep, IdleFacts DEF OverlayInv, Return
    <3>5. QED
      BY <3>2, <3>3, <3>4
  <2>2. CASE CanRoute(w)
    <3>1. task[w].from \in Peers /\ task[w].list = {}
      BY <2>2 DEF CanRoute, OverlayInv, Busy, Doing
    <3>2. CASE Goto(w, "build")
      BY <3>1, <3>2, GotoStep DEF OverlayInv
    <3>3. CASE Return(w)
      BY <3>3, ReturnStep, IdleFacts DEF OverlayInv
    <3>4. QED
      BY <2>2, <3>2, <3>3 DEF CanRoute
  <2>3. CASE WriteTo(w)
    BY <2>3, ReturnStep, IdleFacts DEF WriteTo, OverlayInv
  <2>4. QED
    BY <2>1, <2>2, <2>3
<1>3. TypeOK'
  BY <1>1, <1>2 DEF OverlayInv, TypeOK, tables
<1>4. QED
  BY <1>1, <1>2, <1>3, TaskStep DEF OverlayInv, tables, Handling
-----------------------------------------------------------------------------
(* The rest. *)

LEMMA OtherStep ==
  ASSUME OverlayInv, Unlock \/ \E p \in Peers : Leave(p) \/ Lose(p)
  PROVE  OverlayInv'
<1>1. /\ UNCHANGED <<tables, task, heard, tries>>
      /\ sweep'.gone = sweep.gone /\ (sweep.at = "ping" <=> sweep'.at = "ping")
      /\ sweep' \in [at : {"idle", "ping", "clean"}, gone : Peers \cup {NoPeer}]
      /\ sweep.gone # NoPeer => sweep'.at = sweep.at
      /\ up' \subseteq Peers /\ asked' \subseteq Peers
  BY DEF Unlock, Leave, Lose, OverlayInv, TypeOK
<1>2. TypeOK'
  BY <1>1 DEF OverlayInv, TypeOK, tables
<1>3. Connected' = Connected
  BY <1>1 DEF Connected, tables
<1>4. Gone' /\ Busy' /\ Pinged' /\ OnionHasRelays'
  BY <1>1, <1>3 DEF OverlayInv, Gone, Busy, Pinged, OnionHasRelays, Doing, tables
<1>5. TablesAgree'
  <2>1. \A q \in Peers : Between(q) => Between(q)'
    BY <1>1 DEF Between, Doing
  <2>2. \A q \in Peers : Agrees(q) => Agrees(q)'
    BY <1>1, <1>3 DEF Agrees, Bucket, tables
  <2>3. QED
    BY <2>1, <2>2, AgreesAll DEF OverlayInv
<1>6. QED
  BY <1>2, <1>4, <1>5 DEF OverlayInv

LEMMA RestartStep == ASSUME OverlayInv, Restart PROVE OverlayInv'
<1>1. Connected' = {}
  BY DEF Restart, Connected
<1>2. keys' \subseteq Peers
  BY DEF Restart, LoadKeys, OverlayInv, TypeOK
<1>3. TypeOK'
  BY <1>2, IdleFacts, NumberFacts DEF Restart, OverlayInv, TypeOK, JoinPings
<1>4. \A w \in Workers : task'[w] = Idle
  BY DEF Restart
<1>5. Busy' /\ OnionHasRelays'
  BY <1>4, IdleFacts DEF Busy, OnionHasRelays, Doing, Handling
<1>6. QED
  BY <1>1, <1>3, <1>5 DEF Restart, OverlayInv, Gone, Pinged, TablesAgree

LEMMA OverlayStep == OverlayInv /\ [Next]_vars => OverlayInv'
<1> SUFFICES ASSUME OverlayInv, [Next]_vars PROVE OverlayInv'
  OBVIOUS
<1>1. CASE \E w \in Workers : Receive(w)
  BY <1>1, ArriveStep, RegisterStep, AddRelayStep, HandleStep DEF Receive, Kinds
<1>2. CASE \E w \in Workers : SendDM(w)
  BY <1>2, SendStep, BuildStep DEF SendDM
<1>3. CASE Maintain
  BY <1>3, TickStep, PingStep, ForgetStep, RemoveStep, OtherStep DEF Maintain
<1>4. CASE World
  BY <1>4, OtherStep, RestartStep DEF World
<1>5. CASE UNCHANGED vars
  <2>1. TypeOK'
    BY <1>5 DEF vars, tables, OverlayInv, TypeOK
  <2>2. Connected' = Connected
    BY <1>5 DEF vars, tables, Connected
  <2>3. Gone' /\ Pinged' /\ OnionHasRelays'
    BY <1>5, <2>2 DEF vars, tables, OverlayInv, Gone, Pinged, OnionHasRelays, Doing
  <2>4. Busy'
    BY <1>5, <2>2 DEF vars, tables, OverlayInv, Busy, Doing
  <2>5. TablesAgree'
    <3>1. \A q \in Peers : Between(q) => Between(q)'
      BY <1>5 DEF vars, tables, Between, Doing
    <3>2. \A q \in Peers : Agrees(q) => Agrees(q)'
      BY <1>5, <2>2 DEF vars, Agrees, Bucket, tables
    <3>3. QED
      BY <3>1, <3>2, AgreesAll DEF OverlayInv
  <2>6. QED
    BY <2>1, <2>3, <2>4, <2>5 DEF OverlayInv
<1>6. QED
  BY <1>1, <1>2, <1>3, <1>4, <1>5 DEF Next

\* For any instance, the tables hold peers, the ages and counts keep within
\* their bounds, and every goroutine is where it can be.
THEOREM OverlayTypes == Spec => []TypeOK
<1>1. OverlayInv => TypeOK
  BY DEF OverlayInv
<1>2. QED
  BY <1>1, InitOverlay, OverlayStep, PTL DEF Spec

\* However datagrams, maintenance and restarts interleave, relays, cover
\* traffic and DHT have the peers that are connected.
THEOREM OverlayAgrees == Spec => []TablesAgree
<1>1. OverlayInv => TablesAgree
  BY DEF OverlayInv
<1>2. QED
  BY <1>1, InitOverlay, OverlayStep, PTL DEF Spec

\* Whatever maintenance removes between the count of the relays and their
\* choice, no circuit has fewer than MinHops - 1 relays before its end, one of
\* them twice, or its end among them (BuildCircuit).
THEOREM OnionsHaveRelays == Spec => []OnionHasRelays
<1>1. OverlayInv => OnionHasRelays
  BY DEF OverlayInv
<1>2. QED
  BY <1>1, InitOverlay, OverlayStep, PTL DEF Spec

\* Only Forget names a peer to be removed.
LEMMA ForgottenWas ==
  ASSUME OverlayInv, [Next]_vars, NEW p \in Peers, sweep.gone # p, sweep'.gone = p
  PROVE  Forget(p)
<1>1. p # NoPeer
  OBVIOUS
<1>2. CASE \E w \in Workers : Receive(w) \/ SendDM(w)
  BY <1>2 DEF Receive, SendDM, Arrive, Answer, Register, AddRelay, Handle,
              SendAnonymous, CanRoute, BuildCircuit, WriteTo
<1>3. CASE Maintain
  <2>1. ASSUME NEW q \in Peers, Forget(q) PROVE Forget(p)
    BY <2>1 DEF Forget, OverlayInv, TypeOK
  <2>2. QED
    BY <1>1, <1>3, <2>1
    DEF Maintain, Tick, PingPeers, RemoveRelay, Unlock, OverlayInv, TypeOK
<1>4. CASE World
  BY <1>1, <1>4 DEF World, Leave, Lose, Restart
<1>5. CASE UNCHANGED vars
  BY <1>5 DEF vars
<1>6. QED
  BY <1>2, <1>3, <1>4, <1>5 DEF Next

\* For any two periods, a peer is forgotten only after it has been pinged in
\* each of the ticks between them and did not answer.
THEOREM PingedFirst == Spec => PingedBeforeForgotten
<1>1. ASSUME OverlayInv, [Next]_vars, NEW p \in Peers,
             sweep.gone # p /\ sweep'.gone = p
      PROVE  tries[p] > DropAfter - PingAfter
  <2>1. Forget(p)
    BY <1>1, ForgottenWas
  <2>2. p \in Connected /\ conn[p].age > DropAfter /\ sweep.at = "clean"
    BY <2>1 DEF Forget, TooOld, Stale
  <2>3. conn[p].age \in Nat /\ tries[p] \in Nat
    BY <1>1, <2>2, NumberFacts DEF OverlayInv, TypeOK, Connected
  <2>4. conn[p].age <= PingAfter \/ tries[p] >= conn[p].age - PingAfter
    BY <1>1, <2>2, <2>3, NumberFacts DEF OverlayInv, Pinged
  <2>5. QED
    BY <2>2, <2>3, <2>4, NumberFacts
<1>2. OverlayInv /\ [Next]_vars =>
        [\A p \in Peers : sweep.gone # p /\ sweep'.gone = p =>
            tries[p] > DropAfter - PingAfter]_vars
  BY <1>1
<1>3. QED
  BY <1>2, InitOverlay, OverlayStep, PTL DEF Spec, PingedBeforeForgotten
=============================================================================
