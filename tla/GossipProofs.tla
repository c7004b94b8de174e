---------------------------- MODULE GossipProofs ----------------------------
(***************************************************************************)
(* For any nodes, messages, goroutines, topologies, TTL, windows, table    *)
(* sizes and clocks: the state is well formed; a node whose clock is not   *)
(* behind the sender's hands a message to its handler at most once while   *)
(* the message is remembered, and ever if its nonce was not evicted; and   *)
(* in a tree the addresses that nodes learn from forwarded messages are    *)
(* routes.                                                                 *)
(***************************************************************************)
EXTENDS Gossip, TLAPS

\* The copies that goroutines have in hand.
Busy   == {g \in Goroutines : handling[g] # Idle}
InHand == {handling[g].copy : g \in Busy}

\* What travels, or is handled, or was, was sent.
CopiesAreSent ==
  /\ \A copy \in net \cup late \cup InHand : stamp[copy.msg] # Absent
  /\ \A n \in Nodes : \A job \in forwarding[n] :
       stamp[job.msg] # Absent /\ job.ttl > 0
  /\ \A n \in Nodes, m \in Messages : delivered[n][m] > 0 => stamp[m] # Absent

\* A message is entered first and dated then, never in the sender's future.
StampsArePast ==
  \A m \in Messages :
    /\ marked[m] <= Clock(Sender[m]) /\ stamp[m] <= Clock(Sender[m])
    /\ stamp[m] # Absent => marked[m] # Absent /\ marked[m] <= stamp[m]

\* No message is seen before its sender has entered it.
SeenSinceMarked ==
  \A n \in Nodes, m \in Messages : seenMessages[n][m] # Absent =>
    /\ marked[m] # Absent
    /\ NotBehind(n, m) => marked[m] <= seenMessages[n][m]

\* What was handled, or entered, is remembered until it is out of the window.
Remembered ==
  \A n \in Nodes, m \in Messages :
    /\ NotBehind(n, m)
    /\ delivered[n][m] > 0 \/ (Sender[m] = n /\ marked[m] # Absent)
    => seenMessages[n][m] # Absent \/ marked[m] + Window < Clock(n)

GossipInv == /\ TypeOK /\ CopiesAreSent /\ StampsArePast
             /\ SeenSinceMarked /\ Remembered /\ DeliverOnce

\* No nonce is met before the message is dated.
MetSinceStamped ==
  \A n \in Nodes, m \in Messages : nonces[n][m] # Absent =>
    /\ stamp[m] # Absent
    /\ NotBehind(n, m) => stamp[m] <= nonces[n][m]

\* Goroutine g is about to handle m at n.
Has(g, n, m) ==
  handling[g] # Idle /\ handling[g].copy.to = n /\ handling[g].copy.msg = m

\* Where the nonce of m was not evicted, m is handled by one goroutine, and only
\* once; and the nonce is known as long as a copy could still be in time.
KnownByNonce ==
  \A n \in Nodes, m \in Messages : NotBehind(n, m) /\ m \notin evicted[n] =>
    /\ delivered[n][m] <= 1
    /\ \A g \in Goroutines : Has(g, n, m) =>
         delivered[n][m] = 0 /\ \A h \in Goroutines : Has(h, n, m) => h = g
    /\ delivered[n][m] > 0 \/ (\E g \in Goroutines : Has(g, n, m))
         => nonces[n][m] # Absent \/ stamp[m] + Window < Clock(n)

NonceInv == MetSinceStamped /\ KnownByNonce

LEMMA Clocks == \A n \in Nodes : TypeOK => Clock(n) \in Nat
  BY GossipAssumption DEF TypeOK, Clock

\* What goroutines have in hand are copies.
LEMMA CopiesInHand == TypeOK => InHand \subseteq Copy
<1> SUFFICES ASSUME TypeOK, NEW g \in Busy PROVE handling[g].copy \in Copy
  BY DEF InHand
<1>1. handling[g] \in [at : {"connections", "seenMessages"}, copy : Copy]
  BY DEF Busy, TypeOK, Task
<1> QED BY <1>1

\* One goroutine goes on: what the others have stays.
LEMMA HandOn ==
  ASSUME TypeOK, NEW g \in Goroutines, NEW task \in Task,
         handling' = [handling EXCEPT ![g] = task]
  PROVE  /\ handling' \in [Goroutines -> Task]
         /\ \A h \in Goroutines : h # g => handling'[h] = handling[h]
         /\ handling'[g] = task
         /\ \A copy \in InHand' :
              copy \in InHand \/ (task # Idle /\ copy = task.copy)
  BY DEF TypeOK, InHand, Busy

\* The facts about the constants and tables that the steps use.
LEMMA Facts ==
  ASSUME TypeOK
  PROVE  /\ Window \in Nat /\ TTL \in Nat /\ Ahead \in [Nodes -> Nat]
         /\ Sender \in [Messages -> Nodes] /\ now \in Nat
         /\ \A m \in Messages :
              /\ marked[m] \in Int /\ stamp[m] \in Int /\ Sender[m] \in Nodes
              /\ marked[m] # Absent => marked[m] \in Nat
              /\ stamp[m] # Absent => stamp[m] \in Nat
         /\ \A n \in Nodes, m \in Messages :
              /\ seenMessages[n][m] \in Int /\ nonces[n][m] \in Int
              /\ delivered[n][m] \in Nat
         /\ \A n \in Nodes : Clock(n) \in Nat /\ Clock(n) = now + Ahead[n]
         /\ \A n \in Nodes, m \in Messages :
              NotBehind(n, m) => Clock(Sender[m]) <= Clock(n)
<1>1. /\ Window \in Nat /\ TTL \in Nat /\ Ahead \in [Nodes -> Nat]
      /\ Sender \in [Messages -> Nodes] /\ now \in Nat
  BY GossipAssumption DEF TypeOK
<1>2. \A m \in Messages :
        /\ marked[m] \in Int /\ stamp[m] \in Int /\ Sender[m] \in Nodes
        /\ marked[m] # Absent => marked[m] \in Nat
        /\ stamp[m] # Absent => stamp[m] \in Nat
  BY <1>1 DEF TypeOK, Time, Absent
<1>3. \A n \in Nodes, m \in Messages :
        /\ seenMessages[n][m] \in Int /\ nonces[n][m] \in Int
        /\ delivered[n][m] \in Nat
  BY DEF TypeOK, Time, Absent
<1>4. \A n \in Nodes : Clock(n) \in Nat /\ Clock(n) = now + Ahead[n]
  BY <1>1 DEF Clock
<1>5. \A n \in Nodes, m \in Messages :
        NotBehind(n, m) => Clock(Sender[m]) <= Clock(n)
  BY <1>1, <1>2 DEF NotBehind, Clock
<1> QED BY <1>1, <1>2, <1>3, <1>4, <1>5

LEMMA InitGossip == Init => GossipInv
<1> SUFFICES ASSUME Init PROVE GossipInv
  OBVIOUS
<1>1. TypeOK
  BY GossipAssumption DEF Init, TypeOK, Time, Absent, Task
<1>2. CopiesAreSent
  BY DEF Init, CopiesAreSent, InHand, Busy
<1>3. StampsArePast
  BY GossipAssumption DEF Init, StampsArePast, Clock, Absent
<1>4. SeenSinceMarked /\ Remembered /\ DeliverOnce
  BY DEF Init, SeenSinceMarked, Remembered, DeliverOnce, Absent
<1> QED
  BY <1>1, <1>2, <1>3, <1>4 DEF GossipInv

\* A step that leaves times, seenMessages and handlers alone.
LEMMA Undisturbed ==
  ASSUME GossipInv, TypeOK', CopiesAreSent',
         UNCHANGED <<now, marked, stamp, seenMessages, delivered>>
  PROVE  GossipInv'
  BY DEF GossipInv, StampsArePast, SeenSinceMarked, Remembered, DeliverOnce,
         Clock, NotBehind

LEMMA MarkGossip ==
  ASSUME GossipInv, NEW m \in Messages, MarkSeen(m)
  PROVE  GossipInv'
<1> DEFINE n == Sender[m]
<1>1. TypeOK /\ CopiesAreSent /\ marked[m] = Absent
  BY DEF GossipInv, MarkSeen
<1>2. /\ n \in Nodes /\ Clock(n) \in Time /\ Clock(n) # Absent
      /\ Clock(n) \in Nat
  BY <1>1, Facts DEF Time, Absent
<1>3. /\ marked' \in [Messages -> Time] /\ marked'[m] = Clock(n)
      /\ \A o \in Messages : o # m => marked'[o] = marked[o]
  BY <1>1, <1>2 DEF MarkSeen, TypeOK
<1>4. /\ seenMessages' \in [Nodes -> [Messages -> Time]]
      /\ seenMessages'[n][m] = Clock(n)
      /\ \A k \in Nodes, o \in Messages :
           (k # n \/ o # m) => seenMessages'[k][o] = seenMessages[k][o]
  <2>1. /\ seenMessages' = Set(seenMessages, n, m, Clock(n))
        /\ seenMessages \in [Nodes -> [Messages -> Time]]
    BY <1>1 DEF MarkSeen, TypeOK
  <2> HIDE DEF n
  <2> QED BY <1>2, <2>1 DEF Set
<1>5. UNCHANGED <<now, topology, connections, nonces, stamp, net, late, handling,
                  forwarding, delivered, evicted>>
  BY DEF MarkSeen, network
<1>6. TypeOK'
  BY <1>1, <1>3, <1>4, <1>5 DEF TypeOK
<1>7. CopiesAreSent'
  BY <1>1, <1>5 DEF CopiesAreSent, InHand, Busy
<1>8. stamp[m] = Absent /\ \A k \in Nodes : ~(delivered[k][m] > 0)
  BY <1>1 DEF GossipInv, StampsArePast, CopiesAreSent
<1>9. StampsArePast'
  BY <1>2, <1>3, <1>5, <1>8 DEF StampsArePast, GossipInv, Clock
<1>10. SeenSinceMarked'
  BY <1>1, <1>2, <1>3, <1>4, <1>5 DEF SeenSinceMarked, GossipInv, NotBehind
<1>11. Remembered'
  <2> SUFFICES ASSUME NEW k \in Nodes, NEW o \in Messages, NotBehind(k, o),
                 delivered[k][o] > 0 \/ (Sender[o] = k /\ marked'[o] # Absent)
               PROVE  \/ seenMessages'[k][o] # Absent
                      \/ marked'[o] + Window < Clock(k)
    BY <1>5 DEF Remembered, NotBehind, Clock
  <2>1. CASE o # m
    BY <1>3, <1>4, <2>1 DEF Remembered, GossipInv
  <2>2. CASE o = m
    BY <1>2, <1>4, <1>8, <2>2
  <2> QED
    BY <2>1, <2>2
<1>12. DeliverOnce'
  <2> SUFFICES ASSUME NEW k \in Nodes, NEW o \in Messages, NotBehind(k, o),
                      Clock(k) <= marked'[o] + Window
               PROVE  delivered[k][o] <= (IF Sender[o] = k THEN 0 ELSE 1)
    BY <1>5 DEF DeliverOnce, NotBehind, Clock
  <2>1. CASE o # m
    BY <1>3, <2>1 DEF DeliverOnce, GossipInv
  <2>2. CASE o = m
    BY <1>1, <1>8, <2>2, Facts
  <2> QED
    BY <2>1, <2>2
<1> QED
  BY <1>6, <1>7, <1>9, <1>10, <1>11, <1>12 DEF GossipInv

LEMMA SendGossip ==
  ASSUME GossipInv, NEW m \in Messages, broadcastGossip(m)
  PROVE  GossipInv'
<1> DEFINE n == Sender[m]
<1>1. TypeOK /\ CopiesAreSent /\ marked[m] # Absent /\ stamp[m] = Absent
  BY DEF GossipInv, broadcastGossip
<1>2. /\ n \in Nodes /\ Clock(n) \in Time /\ Clock(n) # Absent
      /\ Clock(n) \in Nat /\ TTL \in Nat
  BY <1>1, Facts DEF Time, Absent
<1>3. /\ stamp' \in [Messages -> Time] /\ stamp'[m] = Clock(n)
      /\ \A o \in Messages : o # m => stamp'[o] = stamp[o]
  BY <1>1, <1>2 DEF broadcastGossip, TypeOK
<1>4. /\ net' \subseteq Copy
      /\ \A copy \in net' : copy \in net \/ copy.msg = m
  <2>1. \A p \in Peers(n) : connections[n][p] \in Nodes
    BY <1>1, <1>2 DEF Peers, TypeOK
  <2> QED
    BY <1>1, <1>2, <2>1 DEF broadcastGossip, Copy, TypeOK
<1>5. UNCHANGED <<now, topology, connections, seenMessages, nonces, marked, late,
                  handling, forwarding, delivered, evicted>>
  BY DEF broadcastGossip, tables
<1>6. TypeOK'
  BY <1>1, <1>3, <1>4, <1>5 DEF TypeOK
<1>7. CopiesAreSent'
  <2>1. \A o \in Messages : stamp[o] # Absent => stamp'[o] # Absent
    BY <1>2, <1>3
  <2>2. /\ \A copy \in net \cup late \cup InHand : copy.msg \in Messages
        /\ \A k \in Nodes : \A job \in forwarding[k] : job.msg \in Messages
    BY <1>1, CopiesInHand DEF TypeOK, Copy, Job
  <2>3. InHand' = InHand
    BY <1>5 DEF InHand, Busy
  <2> QED
    BY <1>1, <1>2, <1>3, <1>4, <1>5, <2>1, <2>2, <2>3 DEF CopiesAreSent
<1>8. StampsArePast'
  BY <1>1, <1>2, <1>3, <1>5 DEF StampsArePast, GossipInv, Clock
<1>9. SeenSinceMarked' /\ Remembered' /\ DeliverOnce'
  BY <1>5
  DEF GossipInv, SeenSinceMarked, Remembered, DeliverOnce, NotBehind, Clock
<1> QED
  BY <1>6, <1>7, <1>8, <1>9 DEF GossipInv

LEMMA Forward ==
  ASSUME GossipInv, NEW n \in Nodes, NEW job \in forwarding[n],
         forwardMessage(n, job)
  PROVE  GossipInv'
<1>1. TypeOK /\ CopiesAreSent
  BY DEF GossipInv
<1>2. job \in Job /\ job.ttl - 1 \in Nat /\ stamp[job.msg] # Absent
  BY <1>1 DEF TypeOK, CopiesAreSent, Job
<1>3. Recipients(n, job) \subseteq Nodes
  BY <1>1 DEF Recipients, Peers, TypeOK
<1>4. /\ net' \subseteq Copy
      /\ \A copy \in net' : copy \in net \/ copy.msg = job.msg
  BY <1>1, <1>2, <1>3 DEF forwardMessage, TypeOK, Copy, Job
<1>5. /\ forwarding' \in [Nodes -> SUBSET Job]
      /\ \A k \in Nodes : forwarding'[k] \subseteq forwarding[k]
  BY <1>1 DEF forwardMessage, TypeOK
<1>6. UNCHANGED <<now, topology, connections, seenMessages, nonces, marked,
                  stamp, late, handling, delivered, evicted>>
  BY DEF forwardMessage, tables, sending
<1>7. TypeOK'
  BY <1>1, <1>4, <1>5, <1>6 DEF TypeOK
<1>8. CopiesAreSent'
  BY <1>1, <1>2, <1>4, <1>5, <1>6 DEF CopiesAreSent, InHand, Busy
<1> QED
  BY <1>6, <1>7, <1>8, Undisturbed

\* What the nonce tracker may have recorded.
LEMMA RecordedStep ==
  ASSUME TypeOK, NEW n \in Nodes, NEW m \in Messages, NEW table \in Recorded(n, m)
  PROVE  /\ table \in [Messages -> Time]
         /\ table[m] = Absent \/ table[m] = Clock(n)
         /\ \A k \in Messages : k # m =>
              table[k] = nonces[n][k] \/ table[k] = Absent
<1> DEFINE full == [nonces[n] EXCEPT ![m] = Clock(n)]
<1>1. /\ full \in [Messages -> Time] /\ full[m] = Clock(n)
      /\ \A k \in Messages : k # m => full[k] = nonces[n][k]
  BY Facts DEF TypeOK, Time
<1>2. \/ table = full
      \/ \E k \in Messages : table = [full EXCEPT ![k] = Absent]
  BY DEF Recorded
<1> HIDE DEF full
<1> QED BY <1>1, <1>2 DEF Time

\* The nonce tracker lets a copy in, whatever becomes of the copy itself.
LEMMA CheckGossip ==
  ASSUME GossipInv, NEW g \in Goroutines, NEW copy \in net \cup late,
         Check(g, copy), net' \subseteq net, late' \subseteq late \cup {copy}
  PROVE  GossipInv'
<1> DEFINE task == [at |-> "connections", copy |-> copy]
<1>1. TypeOK /\ CopiesAreSent
  BY DEF GossipInv
<1>2. /\ copy \in Copy /\ copy.to \in Nodes /\ copy.msg \in Messages
      /\ stamp[copy.msg] # Absent
  BY <1>1 DEF TypeOK, CopiesAreSent, Copy
<1>3. task \in Task /\ task.copy = copy /\ handling' = [handling EXCEPT ![g] = task]
  BY <1>2 DEF Check, Task
<1> HIDE DEF task
<1>4. /\ handling' \in [Goroutines -> Task]
      /\ \A c \in InHand' : c \in InHand \/ c = copy
  <2>1. TypeOK /\ task \in Task /\ handling' = [handling EXCEPT ![g] = task]
    BY <1>1, <1>3
  <2>2. /\ handling' \in [Goroutines -> Task]
        /\ \A c \in InHand' : c \in InHand \/ c = task.copy
    BY <2>1, HandOn
  <2> QED BY <1>3, <2>2
<1>5. /\ nonces' \in [Nodes -> [Messages -> Time]]
      /\ evicted' \in [Nodes -> SUBSET Messages]
  <2>1. PICK table \in Recorded(copy.to, copy.msg) :
          /\ nonces' = [nonces EXCEPT ![copy.to] = table]
          /\ evicted' = [evicted EXCEPT ![copy.to] =
                           @ \cup Evicted(copy.to, copy.msg, table)]
    BY DEF Check
  <2>2. table \in [Messages -> Time]
    BY <1>1, <1>2, <2>1, RecordedStep
  <2> QED BY <1>1, <2>1, <2>2 DEF TypeOK, Evicted
<1>6. UNCHANGED <<now, topology, connections, seenMessages, marked, stamp,
                  forwarding, delivered>>
  BY DEF Check, sending
<1>7. TypeOK'
  BY <1>1, <1>2, <1>4, <1>5, <1>6 DEF TypeOK
<1>8. CopiesAreSent'
  BY <1>1, <1>2, <1>4, <1>6 DEF CopiesAreSent
<1> QED
  BY <1>6, <1>7, <1>8, Undisturbed

\* A goroutine that has a copy has a copy of a message that was sent.
LEMMA CopyInHand ==
  ASSUME GossipInv, NEW g \in Goroutines, handling[g] # Idle
  PROVE  LET copy == handling[g].copy IN
         /\ copy \in InHand /\ copy \in Copy /\ stamp[copy.msg] # Absent
         /\ copy.to \in Nodes /\ copy.msg \in Messages /\ copy.src \in Nodes
         /\ copy.ttl \in Nat /\ Sender[copy.msg] \in Nodes
         /\ handling[g] \in [at : {"connections", "seenMessages"}, copy : Copy]
<1>1. TypeOK /\ CopiesAreSent
  BY DEF GossipInv
<1>2. handling[g].copy \in InHand
  BY DEF InHand, Busy
<1>3. handling[g].copy \in Copy
  BY <1>1, <1>2, CopiesInHand
<1>4. handling[g] \in [at : {"connections", "seenMessages"}, copy : Copy]
  BY <1>1 DEF TypeOK, Task
<1> QED BY <1>1, <1>2, <1>3, <1>4, GossipAssumption DEF CopiesAreSent, Copy

LEMMA ConnectGossip ==
  ASSUME GossipInv, NEW g \in Goroutines, EnterConnection(g)
  PROVE  GossipInv'
<1> DEFINE copy == handling[g].copy
           task == [handling[g] EXCEPT !.at = "seenMessages"]
<1>1. TypeOK /\ CopiesAreSent /\ handling[g] # Idle
  BY DEF GossipInv, EnterConnection, Idle
<1>2. /\ copy.to \in Nodes /\ Sender[copy.msg] \in Nodes /\ copy.src \in Nodes
      /\ copy \in InHand
      /\ handling[g] \in [at : {"connections", "seenMessages"}, copy : Copy]
  BY <1>1, CopyInHand
<1>3. /\ task \in Task /\ task.copy = copy
      /\ handling' = [handling EXCEPT ![g] = task]
  BY <1>2 DEF EnterConnection, Task
<1>4. connections' \in [Nodes -> [Nodes -> Nodes \cup {NoAddress}]]
  <2>1. connections' = Set(connections, copy.to, Sender[copy.msg], copy.src)
    BY DEF EnterConnection
  <2>2. connections \in [Nodes -> [Nodes -> Nodes \cup {NoAddress}]]
    BY <1>1 DEF TypeOK
  <2> HIDE DEF copy
  <2> QED BY <1>2, <2>1, <2>2 DEF Set
<1> HIDE DEF copy, task
<1>5. /\ handling' \in [Goroutines -> Task]
      /\ \A c \in InHand' : c \in InHand
  <2>1. /\ handling' \in [Goroutines -> Task]
        /\ \A c \in InHand' : c \in InHand \/ c = task.copy
    <3>1. TypeOK /\ task \in Task /\ handling' = [handling EXCEPT ![g] = task]
      BY <1>1, <1>3
    <3> QED BY <3>1, HandOn
  <2> QED BY <1>2, <1>3, <2>1
<1>6. UNCHANGED <<now, topology, seenMessages, nonces, marked, stamp, net, late,
                  forwarding, delivered, evicted>>
  BY DEF EnterConnection, sending, network
<1>7. TypeOK'
  BY <1>1, <1>4, <1>5, <1>6 DEF TypeOK
<1>8. CopiesAreSent'
  BY <1>1, <1>5, <1>6 DEF CopiesAreSent
<1> QED
  BY <1>6, <1>7, <1>8, Undisturbed

LEMMA SeenGossip ==
  ASSUME GossipInv, NEW g \in Goroutines, EnterSeen(g)
  PROVE  GossipInv'
<1> DEFINE copy == handling[g].copy
           n == copy.to
           m == copy.msg
<1>1. TypeOK /\ CopiesAreSent /\ handling[g] # Idle
  BY DEF GossipInv, EnterSeen, Idle
<1>2. /\ n \in Nodes /\ m \in Messages /\ copy.src \in Nodes /\ copy.ttl \in Nat
      /\ stamp[m] # Absent
  BY <1>1, CopyInHand
<1>3. /\ handling' \in [Goroutines -> Task]
      /\ \A c \in InHand' : c \in InHand
  <2>1. Idle \in Task /\ handling' = [handling EXCEPT ![g] = Idle]
    BY DEF EnterSeen, Task
  <2> QED BY <1>1, <2>1, HandOn
<1>4. UNCHANGED <<now, topology, connections, nonces, marked, stamp, net, late,
                  evicted>>
  BY DEF EnterSeen, sending, network
<1>5. CASE seenMessages[n][m] # Absent
  <2>1. UNCHANGED <<seenMessages, delivered, forwarding>>
    BY <1>5 DEF EnterSeen
  <2>2. TypeOK' /\ CopiesAreSent'
    BY <1>1, <1>3, <1>4, <2>1 DEF TypeOK, CopiesAreSent
  <2> QED
    BY <1>4, <2>1, <2>2, Undisturbed
<1>6. CASE seenMessages[n][m] = Absent
  <2>1. /\ seenMessages' \in [Nodes -> [Messages -> Time]]
        /\ seenMessages'[n][m] = Clock(n)
        /\ \A k \in Nodes, o \in Messages :
             (k # n \/ o # m) => seenMessages'[k][o] = seenMessages[k][o]
    <3>1. /\ seenMessages' = Set(seenMessages, n, m, Clock(n)) /\ Clock(n) \in Time
          /\ seenMessages \in [Nodes -> [Messages -> Time]]
      BY <1>1, <1>2, <1>6, Facts DEF EnterSeen, Time, TypeOK
    <3> HIDE DEF n, m
    <3> QED
      BY <1>2, <3>1 DEF Set
  <2>2. /\ delivered' \in [Nodes -> [Messages -> Nat]]
        /\ delivered'[n][m] = delivered[n][m] + 1
        /\ \A k \in Nodes, o \in Messages :
             (k # n \/ o # m) => delivered'[k][o] = delivered[k][o]
    <3>1. delivered' = Set(delivered, n, m, delivered[n][m] + 1)
      BY <1>6 DEF EnterSeen
    <3> HIDE DEF n, m
    <3>2. delivered[n][m] + 1 \in Nat /\ delivered \in [Nodes -> [Messages -> Nat]]
      BY <1>1, <1>2 DEF TypeOK
    <3> QED
      BY <1>2, <3>1, <3>2 DEF Set
  <2>3. /\ forwarding' \in [Nodes -> SUBSET Job]
        /\ \A k \in Nodes : \A job \in forwarding'[k] :
             stamp[job.msg] # Absent /\ job.ttl > 0
    <3>1. CASE Forwards(copy)
      <4> DEFINE job == [msg |-> m, ttl |-> copy.ttl, src |-> copy.src]
      <4>1. job \in Job /\ job.ttl > 0 /\ job.msg = m
        BY <1>2, <3>1 DEF Job, Forwards
      <4>2. forwarding' = [forwarding EXCEPT ![n] = @ \cup {job}]
        BY <1>6, <3>1 DEF EnterSeen
      <4> HIDE DEF job
      <4>3. /\ forwarding' \in [Nodes -> SUBSET Job]
            /\ \A k \in Nodes : \A j \in forwarding'[k] :
                 j \in forwarding[k] \/ j = job
        BY <1>1, <1>2, <4>1, <4>2 DEF TypeOK
      <4> QED
        BY <1>1, <1>2, <4>1, <4>3 DEF CopiesAreSent
    <3>2. CASE ~Forwards(copy)
      <4>1. forwarding' = forwarding
        BY <1>6, <3>2 DEF EnterSeen
      <4> QED
        BY <1>1, <4>1 DEF TypeOK, CopiesAreSent
    <3> QED
      BY <3>1, <3>2
  <2>4. TypeOK'
    BY <1>1, <1>3, <1>4, <2>1, <2>2, <2>3 DEF TypeOK
  <2>5. CopiesAreSent'
    <3> HIDE DEF n, m, copy
    <3> QED BY <1>1, <1>2, <1>3, <1>4, <2>2, <2>3 DEF CopiesAreSent
  <2>6. StampsArePast'
    BY <1>4 DEF GossipInv, StampsArePast, Clock
  <2> HIDE DEF copy, n, m
  <2>7. marked[m] # Absent /\ (NotBehind(n, m) => marked[m] <= Clock(n))
    <3>1. marked[m] # Absent /\ marked[m] <= Clock(Sender[m])
      BY <1>2 DEF GossipInv, StampsArePast
    <3>2. NotBehind(n, m) => Clock(Sender[m]) <= Clock(n)
      BY <1>1, <1>2, Facts
    <3>3. marked[m] \in Int /\ Clock(Sender[m]) \in Int /\ Clock(n) \in Int
      BY <1>1, <1>2, Facts
    <3> QED BY <3>1, <3>2, <3>3
  <2>8. SeenSinceMarked'
    BY <1>2, <1>4, <2>1, <2>7 DEF GossipInv, SeenSinceMarked, NotBehind
  <2>9. Remembered'
    <3> SUFFICES ASSUME NEW k \in Nodes, NEW o \in Messages, NotBehind(k, o),
                   delivered'[k][o] > 0 \/ (Sender[o] = k /\ marked[o] # Absent)
                 PROVE  \/ seenMessages'[k][o] # Absent
                        \/ marked[o] + Window < Clock(k)
      BY <1>4 DEF Remembered, NotBehind, Clock
    <3>1. CASE k = n /\ o = m
      <4>1. Clock(n) # Absent
        BY <1>1, <1>2, Facts DEF Absent
      <4> QED BY <2>1, <3>1, <4>1
    <3>2. CASE k # n \/ o # m
      BY <2>1, <2>2, <3>2 DEF GossipInv, Remembered
    <3> QED
      BY <3>1, <3>2
  <2>10. DeliverOnce'
    <3> SUFFICES ASSUME NEW k \in Nodes, NEW o \in Messages, NotBehind(k, o),
                        Clock(k) <= marked[o] + Window
                 PROVE  delivered'[k][o] <= (IF Sender[o] = k THEN 0 ELSE 1)
      BY <1>4 DEF DeliverOnce, NotBehind, Clock
    \* Nothing was handled here before, for it would be remembered still.
    <3>1. CASE k = n /\ o = m
      <4>1. ~ (marked[m] + Window < Clock(n))
        <5>1. marked[m] \in Int /\ Window \in Int /\ Clock(n) \in Int
          BY <1>1, <1>2, Facts
        <5> QED BY <3>1, <5>1
      <4>2. ~ (delivered[n][m] > 0) /\ Sender[m] # n
        BY <1>2, <1>6, <2>7, <3>1, <4>1 DEF GossipInv, Remembered, m, n
      <4>3. delivered[n][m] \in Nat
        BY <1>1, <1>2, Facts
      <4> QED
        BY <2>2, <3>1, <4>2, <4>3
    <3>2. CASE k # n \/ o # m
      BY <2>2, <3>2 DEF GossipInv, DeliverOnce
    <3> QED
      BY <3>1, <3>2
  <2> QED
    BY <2>4, <2>5, <2>6, <2>8, <2>9, <2>10 DEF GossipInv
<1> QED
  BY <1>5, <1>6

\* A table without the entries before the cutoff.
LEMMA CleanedStep ==
  ASSUME TypeOK, NEW n \in Nodes, NEW table \in [Messages -> Time]
  PROVE  /\ Cleaned(n, table) \in [Messages -> Time]
         /\ \A m \in Messages : \/ Cleaned(n, table)[m] = table[m]
                                \/ /\ Cleaned(n, table)[m] = Absent
                                   /\ table[m] # Absent
                                   /\ table[m] < Clock(n) - Window
  BY DEF Cleaned, Old, Cutoff, Time

\* A table of tables, one of which was cleaned.
LEMMA CleanedTable ==
  ASSUME TypeOK, NEW n \in Nodes, NEW table \in [Nodes -> [Messages -> Time]],
         NEW new, new = [table EXCEPT ![n] = Cleaned(n, table[n])]
  PROVE  /\ new \in [Nodes -> [Messages -> Time]]
         /\ \A k \in Nodes, o \in Messages :
              \/ new[k][o] = table[k][o]
              \/ /\ new[k][o] = Absent /\ table[k][o] # Absent
                 /\ table[k][o] < Clock(k) - Window
<1> DEFINE row == Cleaned(n, table[n])
<1>1. /\ row \in [Messages -> Time]
      /\ \A o \in Messages : \/ row[o] = table[n][o]
                             \/ /\ row[o] = Absent /\ table[n][o] # Absent
                                /\ table[n][o] < Clock(n) - Window
  BY CleanedStep
<1>2. new = [table EXCEPT ![n] = row]
  OBVIOUS
<1> HIDE DEF row
<1> QED
  BY <1>1, <1>2

LEMMA CleanSeen ==
  ASSUME GossipInv, NEW n \in Nodes, cleanSeenMessages(n)
  PROVE  GossipInv'
<1>1. TypeOK
  BY DEF GossipInv
<1>2. UNCHANGED <<now, topology, connections, nonces, marked, stamp, net, late,
                  handling, forwarding, delivered, evicted>>
  BY DEF cleanSeenMessages, sending, network
<1>3. /\ seenMessages' \in [Nodes -> [Messages -> Time]]
      /\ \A k \in Nodes, o \in Messages :
           \/ seenMessages'[k][o] = seenMessages[k][o]
           \/ /\ seenMessages'[k][o] = Absent /\ seenMessages[k][o] # Absent
              /\ seenMessages[k][o] < Clock(k) - Window
  <2>1. /\ seenMessages \in [Nodes -> [Messages -> Time]]
        /\ seenMessages' =
             [seenMessages EXCEPT ![n] = Cleaned(n, seenMessages[n])]
    BY <1>1 DEF cleanSeenMessages, TypeOK
  <2> QED BY <1>1, <2>1, CleanedTable
<1>4. TypeOK' /\ CopiesAreSent' /\ StampsArePast' /\ DeliverOnce'
  BY <1>2, <1>3
  DEF GossipInv, TypeOK, CopiesAreSent, InHand, Busy, StampsArePast, DeliverOnce,
      Clock, NotBehind
<1>5. SeenSinceMarked'
  BY <1>2, <1>3 DEF GossipInv, SeenSinceMarked, NotBehind
<1>6. Remembered'
  <2> SUFFICES ASSUME NEW k \in Nodes, NEW o \in Messages, NotBehind(k, o),
                 delivered[k][o] > 0 \/ (Sender[o] = k /\ marked[o] # Absent)
               PROVE  \/ seenMessages'[k][o] # Absent
                      \/ marked[o] + Window < Clock(k)
    BY <1>2 DEF Remembered, NotBehind, Clock
  <2>1. CASE seenMessages'[k][o] = seenMessages[k][o]
    BY <2>1 DEF GossipInv, Remembered
  <2>2. CASE /\ seenMessages[k][o] # Absent
             /\ seenMessages[k][o] < Clock(k) - Window
    <3>1. marked[o] <= seenMessages[k][o]
      BY <2>2 DEF GossipInv, SeenSinceMarked
    <3>2. /\ seenMessages[k][o] \in Int /\ Clock(k) \in Int /\ Window \in Int
          /\ marked[o] \in Int
      BY <1>1, Facts
    <3> QED
      BY <2>2, <3>1, <3>2
  <2> QED
    BY <1>3, <2>1, <2>2
<1> QED
  BY <1>4, <1>5, <1>6 DEF GossipInv

LEMMA CleanNonces ==
  ASSUME GossipInv, NEW n \in Nodes, cleanNonces(n)
  PROVE  GossipInv'
<1>1. TypeOK /\ CopiesAreSent
  BY DEF GossipInv
<1>2. nonces' \in [Nodes -> [Messages -> Time]]
  <2>1. /\ nonces \in [Nodes -> [Messages -> Time]]
        /\ nonces' = [nonces EXCEPT ![n] = Cleaned(n, nonces[n])]
    BY <1>1 DEF cleanNonces, TypeOK
  <2> QED BY <1>1, <2>1, CleanedTable
<1>3. UNCHANGED <<now, topology, connections, seenMessages, marked, stamp, net,
                  late, handling, forwarding, delivered, evicted>>
  BY DEF cleanNonces, sending, network
<1>4. TypeOK' /\ CopiesAreSent'
  BY <1>1, <1>2, <1>3 DEF TypeOK, CopiesAreSent, InHand, Busy
<1> QED
  BY <1>3, <1>4, Undisturbed

LEMMA ClockTicks ==
  ASSUME GossipInv, Tick
  PROVE  GossipInv'
<1>1. TypeOK /\ now' = now + 1
  BY DEF GossipInv, Tick
<1>2. UNCHANGED <<topology, connections, seenMessages, nonces, marked, stamp, net,
                  late, handling, forwarding, delivered, evicted>>
  BY DEF Tick, tables, sending, network
<1>3. \A n \in Nodes : Clock(n) \in Nat /\ Clock(n)' = Clock(n) + 1
  BY <1>1, Facts DEF Clock
<1>4. TypeOK' /\ CopiesAreSent' /\ SeenSinceMarked'
  BY <1>1, <1>2, Facts
  DEF GossipInv, TypeOK, CopiesAreSent, InHand, Busy, SeenSinceMarked, NotBehind
<1>5. StampsArePast'
  <2> SUFFICES ASSUME NEW m \in Messages
               PROVE  /\ marked[m] <= Clock(Sender[m])'
                      /\ stamp[m] <= Clock(Sender[m])'
    BY <1>2 DEF GossipInv, StampsArePast
  <2>1. /\ stamp[m] <= Clock(Sender[m]) /\ marked[m] <= Clock(Sender[m])
        /\ stamp[m] \in Int /\ marked[m] \in Int /\ Sender[m] \in Nodes
    BY <1>1, Facts DEF GossipInv, StampsArePast
  <2> QED
    BY <1>3, <2>1
<1>6. Remembered'
  <2> SUFFICES ASSUME NEW k \in Nodes, NEW o \in Messages, NotBehind(k, o),
                 delivered[k][o] > 0 \/ (Sender[o] = k /\ marked[o] # Absent)
               PROVE  \/ seenMessages[k][o] # Absent
                      \/ marked[o] + Window < Clock(k)'
    BY <1>2 DEF Remembered, NotBehind
  <2>1. seenMessages[k][o] # Absent \/ marked[o] + Window < Clock(k)
    BY DEF GossipInv, Remembered
  <2>2. marked[o] \in Int /\ Window \in Int
    BY <1>1, Facts
  <2> QED
    BY <1>3, <2>1, <2>2
<1>7. DeliverOnce'
  <2> SUFFICES ASSUME NEW k \in Nodes, NEW o \in Messages, NotBehind(k, o),
                      Clock(k)' <= marked[o] + Window
               PROVE  delivered[k][o] <= (IF Sender[o] = k THEN 0 ELSE 1)
    BY <1>2 DEF DeliverOnce, NotBehind
  <2>1. Clock(k) <= marked[o] + Window
    <3>1. marked[o] \in Int /\ Window \in Int
      BY <1>1, Facts
    <3> QED BY <1>3, <3>1
  <2> QED BY <2>1 DEF GossipInv, DeliverOnce
<1> QED
  BY <1>4, <1>5, <1>6, <1>7 DEF GossipInv

\* A copy that the nonce tracker refuses is gone, or comes again.
Refuse(copy) ==
  /\ net' = net \ {copy} /\ late' = late \cup {copy}
  /\ UNCHANGED <<now, topology, tables, sending, handling, forwarding, delivered,
                 evicted>>

LEMMA RefuseGossip ==
  ASSUME GossipInv, NEW copy \in net, Refuse(copy)
  PROVE  GossipInv'
<1>1. TypeOK /\ CopiesAreSent
  BY DEF GossipInv
<1>2. /\ net' \subseteq Copy /\ late' \subseteq Copy
      /\ \A c \in net' \cup late' : c \in net \cup late
  BY <1>1 DEF TypeOK, Refuse
<1>3. UNCHANGED <<now, topology, connections, seenMessages, nonces, marked, stamp,
                  handling, forwarding, delivered, evicted>>
  BY DEF Refuse, tables, sending
<1>4. TypeOK' /\ CopiesAreSent'
  BY <1>1, <1>2, <1>3 DEF TypeOK, CopiesAreSent, InHand, Busy
<1> QED
  BY <1>3, <1>4, Undisturbed

\* The cases of a step.
LEMMA Cases ==
  ASSUME [Next]_vars
  PROVE  \/ \E m \in Messages : MarkSeen(m) \/ broadcastGossip(m)
         \/ \E n \in Nodes : \E job \in forwarding[n] : forwardMessage(n, job)
         \/ \E g \in Goroutines : \E copy \in net \cup late :
              /\ Check(g, copy)
              /\ net' \subseteq net /\ late' \subseteq late \cup {copy}
         \/ \E copy \in net : Refuse(copy)
         \/ \E g \in Goroutines : EnterConnection(g) \/ EnterSeen(g)
         \/ \E n \in Nodes : cleanSeenMessages(n) \/ cleanNonces(n)
         \/ Tick \/ UNCHANGED vars
<1>1. ASSUME NEW copy \in net, Receive(copy)
      PROVE  \/ Refuse(copy)
             \/ \E g \in Goroutines :
                  /\ Check(g, copy)
                  /\ net' \subseteq net /\ late' \subseteq late \cup {copy}
  BY <1>1 DEF Receive, Refuse
<1>2. ASSUME NEW copy \in late, Again(copy)
      PROVE  \E g \in Goroutines :
               /\ Check(g, copy)
               /\ net' \subseteq net /\ late' \subseteq late \cup {copy}
  BY <1>2 DEF Again, network
<1> QED BY <1>1, <1>2 DEF Next, handleMessage

LEMMA StepGossip == GossipInv /\ [Next]_vars => GossipInv'
<1> SUFFICES ASSUME GossipInv, [Next]_vars PROVE GossipInv'
  OBVIOUS
<1>1. CASE UNCHANGED vars
  <2>1. TypeOK' /\ CopiesAreSent'
    BY <1>1 DEF GossipInv, vars, tables, sending, network, TypeOK, CopiesAreSent,
                InHand, Busy
  <2> QED BY <1>1, <2>1, Undisturbed DEF vars, tables, sending
<1> QED
  BY <1>1, Cases, MarkGossip, SendGossip, Forward, CheckGossip, RefuseGossip,
     ConnectGossip, SeenGossip, CleanSeen, CleanNonces, ClockTicks

\* GossipInv is an invariant: what has been handled, or entered by its author, is
\* remembered for as long as a copy of it is in the window.
THEOREM GossipInvariant == Spec => []GossipInv
  BY InitGossip, StepGossip, PTL DEF Spec

\* The tables, copies and goroutines stay well formed: nothing is forwarded
\* with a negative TTL, or to a peer without an address.
THEOREM GossipTypes == Spec => []TypeOK
<1>1. GossipInv => TypeOK
  BY DEF GossipInv
<1> QED
  BY GossipInvariant, <1>1, PTL

\* However often and however late copies of a message arrive, by whatever
\* routes, and whenever the nonce table is full or the cleaners run, handleChat,
\* handleListing and handleNameReg get it at most once at a node whose clock is
\* not behind the sender's, and not at all at the sender, from when the sender
\* entered it in seenMessages until the window has passed.
THEOREM DeliversOnce == Spec => []DeliverOnce
<1>1. GossipInv => DeliverOnce
  BY DEF GossipInv
<1> QED
  BY GossipInvariant, <1>1, PTL

-----------------------------------------------------------------------------
(* Nonces. *)

LEMMA InitNonces == Init => NonceInv
  BY DEF Init, NonceInv, MetSinceStamped, KnownByNonce, Has, Absent

\* A step that leaves the nonce tracker, the stamps and what is handled alone.
LEMMA SameNonces ==
  ASSUME NonceInv, UNCHANGED <<now, nonces, stamp, delivered, evicted>>,
         \A g \in Goroutines, n \in Nodes, m \in Messages :
           Has(g, n, m)' <=> Has(g, n, m)
  PROVE  NonceInv'
  BY DEF NonceInv, MetSinceStamped, KnownByNonce, NotBehind, Clock

LEMMA SendNonces ==
  ASSUME GossipInv, NonceInv, NEW m \in Messages, broadcastGossip(m)
  PROVE  NonceInv'
<1>1. TypeOK /\ CopiesAreSent /\ stamp[m] = Absent
  BY DEF GossipInv, broadcastGossip
<1>2. /\ UNCHANGED <<now, nonces, handling, delivered, evicted>>
      /\ \A o \in Messages : o # m => stamp'[o] = stamp[o]
      /\ stamp'[m] = Clock(Sender[m])
  BY <1>1 DEF broadcastGossip, tables, TypeOK
\* Nobody has met the nonce of a message that is only now dated.
<1>3. ASSUME NEW n \in Nodes
      PROVE  /\ nonces[n][m] = Absent /\ delivered[n][m] = 0
             /\ \A g \in Goroutines : ~Has(g, n, m)
  <2>1. nonces[n][m] = Absent
    BY <1>1 DEF NonceInv, MetSinceStamped
  <2>2. delivered[n][m] = 0
    <3>1. ~(delivered[n][m] > 0) /\ delivered[n][m] \in Nat
      BY <1>1, Facts DEF CopiesAreSent
    <3> QED BY <3>1
  <2>3. ASSUME NEW g \in Goroutines, Has(g, n, m) PROVE FALSE
    BY <1>1, <2>3, CopyInHand DEF Has
  <2> QED BY <2>1, <2>2, <2>3
<1>4. MetSinceStamped'
  BY <1>2, <1>3 DEF NonceInv, MetSinceStamped, NotBehind
<1>5. KnownByNonce'
  <2> SUFFICES ASSUME NEW n \in Nodes, NEW o \in Messages, NotBehind(n, o),
                      o \notin evicted[n]
               PROVE
                 /\ delivered[n][o] <= 1
                 /\ \A g \in Goroutines : Has(g, n, o) =>
                      /\ delivered[n][o] = 0
                      /\ \A h \in Goroutines : Has(h, n, o) => h = g
                 /\ delivered[n][o] > 0 \/ (\E g \in Goroutines : Has(g, n, o))
                      => \/ nonces[n][o] # Absent
                         \/ stamp'[o] + Window < Clock(n)
    BY <1>2 DEF KnownByNonce, NotBehind, Clock, Has
  <2>1. CASE o = m
    BY <1>3, <2>1
  <2>2. CASE o # m
    <3>1. stamp'[o] = stamp[o]
      BY <1>2, <2>2
    <3> QED BY <3>1 DEF NonceInv, KnownByNonce
  <2> QED BY <2>1, <2>2
<1> QED BY <1>4, <1>5 DEF NonceInv

LEMMA CheckNonces ==
  ASSUME GossipInv, NonceInv, NEW g \in Goroutines, NEW copy \in net \cup late,
         Check(g, copy)
  PROVE  NonceInv'
<1> DEFINE n == copy.to
           m == copy.msg
<1>1. TypeOK /\ CopiesAreSent /\ StampsArePast /\ MetSinceStamped /\ KnownByNonce
  BY DEF GossipInv, NonceInv
<1>2. n \in Nodes /\ m \in Messages /\ stamp[m] # Absent /\ copy \in Copy
  BY <1>1 DEF TypeOK, CopiesAreSent, Copy
<1>3. /\ handling[g] = Idle
      /\ handling' = [handling EXCEPT ![g] = [at |-> "connections", copy |-> copy]]
      /\ UNCHANGED <<now, stamp, delivered>>
  BY DEF Check, sending
<1>4. nonces[n][m] = Absent /\ ~(stamp[m] + Window < Clock(n))
  <2>1. /\ Clock(n) \in Int /\ stamp[m] \in Int /\ Window \in Int
    BY <1>1, <1>2, Facts
  <2> QED BY <2>1 DEF Check, Fresh
<1>5. PICK table \in Recorded(n, m) :
        /\ nonces' = [nonces EXCEPT ![n] = table]
        /\ evicted' = [evicted EXCEPT ![n] = @ \cup Evicted(n, m, table)]
  BY DEF Check
<1>6. /\ table[m] = Absent \/ table[m] = Clock(n)
      /\ \A k \in Messages : k # m => table[k] = nonces[n][k] \/ table[k] = Absent
  BY <1>1, <1>2, RecordedStep
<1>7. \A h \in Goroutines, k \in Nodes, o \in Messages :
        Has(h, k, o)' <=> Has(h, k, o) \/ (h = g /\ k = n /\ o = m)
  <2>1. ~(\E k \in Nodes, o \in Messages : Has(g, k, o))
    BY <1>3 DEF Has
  <2>2. /\ handling'[g] # Idle /\ handling'[g].copy = copy
        /\ \A h \in Goroutines : h # g => handling'[h] = handling[h]
    BY <1>1, <1>3 DEF TypeOK, Idle
  <2> QED BY <2>1, <2>2 DEF Has
<1>8. \A k \in Nodes, o \in Messages :
        (k # n \/ o # m) /\ o \notin evicted'[k] =>
          nonces'[k][o] = nonces[k][o] /\ o \notin evicted[k]
  BY <1>1, <1>2, <1>5, <1>6 DEF Evicted, TypeOK
<1>9. m \notin evicted'[n] => nonces'[n][m] = Clock(n) /\ m \notin evicted[n]
  BY <1>1, <1>2, <1>5, <1>6 DEF Evicted, TypeOK
<1>10. MetSinceStamped'
  <2> SUFFICES ASSUME NEW k \in Nodes, NEW o \in Messages, nonces'[k][o] # Absent
               PROVE  /\ stamp[o] # Absent
                      /\ NotBehind(k, o) => stamp[o] <= nonces'[k][o]
    BY <1>3 DEF MetSinceStamped, NotBehind
  <2>1. CASE k = n /\ o = m
    <3>1. nonces'[n][m] = Clock(n)
      BY <1>1, <1>2, <1>5, <1>6, <2>1 DEF TypeOK
    <3>2. NotBehind(n, m) => stamp[m] <= Clock(n)
      <4>1. stamp[m] <= Clock(Sender[m]) /\ stamp[m] \in Int
            /\ Clock(Sender[m]) \in Int /\ Clock(n) \in Int
            /\ (NotBehind(n, m) => Clock(Sender[m]) <= Clock(n))
        BY <1>1, <1>2, Facts DEF StampsArePast
      <4> QED BY <4>1
    <3> QED BY <1>2, <2>1, <3>1, <3>2
  <2>2. CASE k # n \/ o # m
    <3>1. nonces'[k][o] = nonces[k][o]
      BY <1>1, <1>2, <1>5, <1>6, <2>2 DEF TypeOK
    <3> QED BY <1>1, <3>1 DEF MetSinceStamped
  <2> QED BY <2>1, <2>2
<1> HIDE DEF n, m
<1>11. KnownByNonce'
  <2> SUFFICES ASSUME NEW k \in Nodes, NEW o \in Messages, NotBehind(k, o),
                      o \notin evicted'[k]
               PROVE
                 /\ delivered[k][o] <= 1
                 /\ \A h \in Goroutines : Has(h, k, o)' =>
                      /\ delivered[k][o] = 0
                      /\ \A i \in Goroutines : Has(i, k, o)' => i = h
                 /\ delivered[k][o] > 0 \/ (\E h \in Goroutines : Has(h, k, o)')
                      => \/ nonces'[k][o] # Absent
                         \/ stamp[o] + Window < Clock(k)
    BY <1>3 DEF KnownByNonce, NotBehind, Clock
  <2>1. CASE k # n \/ o # m
    BY <1>1, <1>7, <1>8, <2>1 DEF KnownByNonce
  <2>2. CASE k = n /\ o = m
    <3>1. /\ nonces'[n][m] = Clock(n) /\ Clock(n) # Absent
          /\ m \notin evicted[n] /\ NotBehind(n, m)
      BY <1>1, <1>2, <1>9, <2>2, Facts DEF Absent
    \* Nobody has it, for its nonce would be known still.
    <3>2. ~(delivered[n][m] > 0) /\ ~(\E h \in Goroutines : Has(h, n, m))
      BY <1>1, <1>2, <1>4, <3>1 DEF KnownByNonce
    <3>3. delivered[n][m] = 0
      BY <1>1, <1>2, <3>2, Facts
    <3> QED BY <1>7, <2>2, <3>1, <3>2, <3>3
  <2> QED BY <2>1, <2>2
<1> QED BY <1>10, <1>11 DEF NonceInv

LEMMA ConnectNonces ==
  ASSUME GossipInv, NonceInv, NEW g \in Goroutines, EnterConnection(g)
  PROVE  NonceInv'
<1>1. TypeOK /\ handling[g] # Idle
  BY DEF GossipInv, EnterConnection, Idle
<1>2. handling[g] \in [at : {"connections", "seenMessages"}, copy : Copy]
  BY <1>1, CopyInHand
<1>3. /\ handling'[g] # Idle /\ handling'[g].copy = handling[g].copy
      /\ \A h \in Goroutines : h # g => handling'[h] = handling[h]
  BY <1>1, <1>2 DEF EnterConnection, TypeOK, Idle
<1>4. UNCHANGED <<now, nonces, stamp, delivered, evicted>>
  BY DEF EnterConnection, sending
<1> QED BY <1>1, <1>3, <1>4, SameNonces DEF Has

LEMMA SeenNonces ==
  ASSUME GossipInv, NonceInv, NEW g \in Goroutines, EnterSeen(g)
  PROVE  NonceInv'
<1> DEFINE n == handling[g].copy.to
           m == handling[g].copy.msg
<1>1. TypeOK /\ handling[g] # Idle /\ MetSinceStamped /\ KnownByNonce
  BY DEF GossipInv, NonceInv, EnterSeen, Idle
<1>2. n \in Nodes /\ m \in Messages /\ Has(g, n, m)
  BY <1>1, CopyInHand DEF Has
<1>3. UNCHANGED <<now, nonces, stamp, evicted>>
  BY DEF EnterSeen, sending
<1>4. /\ delivered'[n][m] = delivered[n][m] \/ delivered'[n][m] = delivered[n][m] + 1
      /\ \A k \in Nodes, o \in Messages :
           (k # n \/ o # m) => delivered'[k][o] = delivered[k][o]
  <2>1. \/ delivered' = delivered
        \/ delivered' = Set(delivered, n, m, delivered[n][m] + 1)
    BY DEF EnterSeen
  <2>2. delivered \in [Nodes -> [Messages -> Nat]]
    BY <1>1 DEF TypeOK
  <2> HIDE DEF n, m
  <2> QED BY <1>2, <2>1, <2>2 DEF Set
<1>5. \A h \in Goroutines, k \in Nodes, o \in Messages :
        Has(h, k, o)' <=> Has(h, k, o) /\ h # g
  <2>1. handling' = [handling EXCEPT ![g] = Idle]
    BY DEF EnterSeen
  <2>2. /\ handling'[g] = Idle
        /\ \A h \in Goroutines : h # g => handling'[h] = handling[h]
    BY <1>1, <2>1 DEF TypeOK
  <2> QED BY <2>2 DEF Has
<1>6. \A k \in Nodes, o \in Messages : (k # n \/ o # m) => ~Has(g, k, o)
  BY DEF Has
<1>7. MetSinceStamped'
  BY <1>1, <1>3 DEF MetSinceStamped, NotBehind
<1> HIDE DEF n, m
<1>8. KnownByNonce'
  <2> SUFFICES ASSUME NEW k \in Nodes, NEW o \in Messages, NotBehind(k, o),
                      o \notin evicted[k]
               PROVE
                 /\ delivered'[k][o] <= 1
                 /\ \A h \in Goroutines : Has(h, k, o)' =>
                      /\ delivered'[k][o] = 0
                      /\ \A i \in Goroutines : Has(i, k, o)' => i = h
                 /\ delivered'[k][o] > 0 \/ (\E h \in Goroutines : Has(h, k, o)')
                      => \/ nonces[k][o] # Absent
                         \/ stamp[o] + Window < Clock(k)
    BY <1>3 DEF KnownByNonce, NotBehind, Clock
  <2>1. CASE k # n \/ o # m
    BY <1>1, <1>4, <1>5, <1>6, <2>1 DEF KnownByNonce
  <2>2. CASE k = n /\ o = m
    <3>1. /\ delivered[n][m] = 0
          /\ \A h \in Goroutines : Has(h, n, m) => h = g
          /\ nonces[n][m] # Absent \/ stamp[m] + Window < Clock(n)
      BY <1>1, <1>2, <2>2 DEF KnownByNonce
    <3> QED BY <1>4, <1>5, <2>2, <3>1
  <2> QED BY <2>1, <2>2
<1> QED BY <1>7, <1>8 DEF NonceInv

LEMMA CleanedNonces ==
  ASSUME GossipInv, NonceInv, NEW n \in Nodes, cleanNonces(n)
  PROVE  NonceInv'
<1>1. TypeOK /\ MetSinceStamped /\ KnownByNonce
  BY DEF GossipInv, NonceInv
<1>2. UNCHANGED <<now, stamp, handling, delivered, evicted>>
  BY DEF cleanNonces, sending
<1>3. \A k \in Nodes, o \in Messages :
        \/ nonces'[k][o] = nonces[k][o]
        \/ /\ nonces'[k][o] = Absent /\ nonces[k][o] # Absent
           /\ nonces[k][o] < Clock(k) - Window
  <2>1. /\ nonces \in [Nodes -> [Messages -> Time]]
        /\ nonces' = [nonces EXCEPT ![n] = Cleaned(n, nonces[n])]
    BY <1>1 DEF cleanNonces, TypeOK
  <2> QED BY <1>1, <2>1, CleanedTable
<1>4. MetSinceStamped'
  BY <1>1, <1>2, <1>3 DEF MetSinceStamped, NotBehind
<1>5. KnownByNonce'
  <2> SUFFICES ASSUME NEW k \in Nodes, NEW o \in Messages, NotBehind(k, o),
                      nonces[k][o] # Absent \/ stamp[o] + Window < Clock(k)
               PROVE  nonces'[k][o] # Absent \/ stamp[o] + Window < Clock(k)
    BY <1>1, <1>2 DEF KnownByNonce, NotBehind, Clock, Has
  <2>1. CASE nonces'[k][o] = nonces[k][o]
    BY <2>1
  <2>2. CASE nonces[k][o] # Absent /\ nonces[k][o] < Clock(k) - Window
    <3>1. stamp[o] <= nonces[k][o]
      BY <1>1, <2>2 DEF MetSinceStamped
    <3>2. /\ nonces[k][o] \in Int /\ Clock(k) \in Int /\ Window \in Int
          /\ stamp[o] \in Int
      BY <1>1, Facts
    <3> QED BY <2>2, <3>1, <3>2
  <2> QED BY <1>3, <2>1, <2>2
<1> QED BY <1>4, <1>5 DEF NonceInv

LEMMA TickNonces ==
  ASSUME GossipInv, NonceInv, Tick
  PROVE  NonceInv'
<1>1. TypeOK /\ MetSinceStamped /\ KnownByNonce /\ now' = now + 1
  BY DEF GossipInv, NonceInv, Tick
<1>2. UNCHANGED <<nonces, stamp, handling, delivered, evicted>>
  BY DEF Tick, tables, sending
<1>3. MetSinceStamped'
  BY <1>1, <1>2 DEF MetSinceStamped, NotBehind
<1>4. KnownByNonce'
  <2> SUFFICES ASSUME NEW k \in Nodes, NEW o \in Messages,
                      stamp[o] + Window < Clock(k)
               PROVE  stamp[o] + Window < Clock(k)'
    BY <1>1, <1>2 DEF KnownByNonce, NotBehind, Has
  <2>1. /\ Clock(k) \in Int /\ Clock(k)' = Clock(k) + 1
        /\ stamp[o] \in Int /\ Window \in Int
    BY <1>1, Facts DEF Clock
  <2> QED BY <2>1
<1> QED BY <1>3, <1>4 DEF NonceInv

LEMMA StepNonces == GossipInv /\ NonceInv /\ [Next]_vars => NonceInv'
<1> SUFFICES ASSUME GossipInv, NonceInv, [Next]_vars PROVE NonceInv'
  OBVIOUS
<1>1. ASSUME \/ \E m \in Messages : MarkSeen(m)
             \/ \E n \in Nodes : \E job \in forwarding[n] : forwardMessage(n, job)
             \/ \E copy \in net : Refuse(copy)
             \/ \E n \in Nodes : cleanSeenMessages(n)
             \/ UNCHANGED vars
      PROVE  NonceInv'
  <2>1. UNCHANGED <<now, nonces, stamp, handling, delivered, evicted>>
    BY <1>1 DEF MarkSeen, forwardMessage, Refuse, cleanSeenMessages, vars, tables,
                sending
  <2> QED BY <2>1, SameNonces DEF Has
<1> QED
  BY <1>1, Cases, SendNonces, CheckNonces, ConnectNonces, SeenNonces,
     CleanedNonces, TickNonces

\* Whatever is late or repeated, and however the goroutines of handleMessage
\* interleave, the handlers get a message at most once, ever, at a node whose
\* clock is not behind the sender's and whose NonceTracker had room for the nonce.
THEOREM OnceByItsNonce == Spec => []OnceByNonce
<1>1. NonceInv => OnceByNonce
  BY DEF NonceInv, KnownByNonce, OnceByNonce
<1>2. Init => GossipInv /\ NonceInv
  BY InitGossip, InitNonces
<1>3. GossipInv /\ NonceInv /\ [Next]_vars => (GossipInv /\ NonceInv)'
  BY StepGossip, StepNonces
<1> QED BY <1>1, <1>2, <1>3, PTL DEF Spec

-----------------------------------------------------------------------------
(* Routes. *)

\* From n, the neighbour q leads to p.
Leads(n, p, q) ==
  p # n /\ <<n, q>> \in topology /\ p \in Behind[topology][n][q]

\* RoutesInTree is not inductive: what a node learns depends on the way each
\* copy has come, and that on where it was forwarded to.
RoutesInv ==
  IsTree =>
    /\ \A n, p \in Nodes : connections[n][p] # NoAddress =>
         Leads(n, p, connections[n][p])
    /\ \A copy \in net \cup late \cup InHand :
         Leads(copy.to, Sender[copy.msg], copy.src)
    /\ \A n \in Nodes : \A job \in forwarding[n] :
         Leads(n, Sender[job.msg], job.src)

\* What is behind a neighbour is closed, but for the node itself.
LEMMA BehindIsClosed ==
  ASSUME NEW t \in Topologies, NEW n \in Nodes, NEW q \in Nodes, n # q
  PROVE  /\ Behind[t][n][q] \subseteq Nodes \ {n} /\ q \in Behind[t][n][q]
         /\ \A e \in t : e[1] \in Behind[t][n][q] /\ e[2] # n
                           => e[2] \in Behind[t][n][q]
<1>1. Behind[t][n][q] =
        {p \in Nodes : \A S \in SUBSET (Nodes \ {n}) :
           (q \in S /\ \A e \in t : e[1] \in S /\ e[2] # n => e[2] \in S)
             => p \in S}
  BY DEF Behind
<1>2. \A e \in t : e[1] \in Nodes /\ e[2] \in Nodes
  BY TopologyAssumption
<1>3. n \notin Behind[t][n][q]
  <2>1. Nodes \ {n} \in SUBSET (Nodes \ {n}) /\ q \in Nodes \ {n}
    OBVIOUS
  <2>2. \A e \in t : e[1] \in Nodes \ {n} /\ e[2] # n => e[2] \in Nodes \ {n}
    BY <1>2
  <2> QED BY <1>1, <2>1, <2>2
<1>4. q \in Behind[t][n][q]
  BY <1>1
<1>5. ASSUME NEW e \in t, e[1] \in Behind[t][n][q], e[2] # n
      PROVE  e[2] \in Behind[t][n][q]
  BY <1>1, <1>2, <1>5
<1> QED BY <1>1, <1>3, <1>4, <1>5

\* A neighbour is behind itself.
LEMMA NeighbourLeads ==
  ASSUME TypeOK, NEW n \in Nodes, NEW q \in Nodes, <<n, q>> \in topology
  PROVE  Leads(n, q, q) /\ Leads(q, n, n)
<1>1. topology \in Topologies
  BY DEF TypeOK
<1>2. n # q /\ <<q, n>> \in topology
  BY <1>1, TopologyAssumption
<1> QED BY <1>1, <1>2, BehindIsClosed DEF Leads

\* In a tree, what one neighbour leads to is, seen from another neighbour,
\* behind the node between the two.
LEMMA FurtherOn ==
  ASSUME TypeOK, IsTree, NEW n \in Nodes, NEW s \in Nodes, NEW x \in Nodes,
         NEW q \in Nodes, Leads(n, s, x), <<n, q>> \in topology, q # x
  PROVE  Leads(q, s, n)
<1> DEFINE B == Behind[topology][n][x]
<1>1. /\ topology \in Topologies /\ n # x /\ n # q /\ <<q, n>> \in topology
      /\ <<n, x>> \in topology /\ s \in B
  BY TopologyAssumption DEF TypeOK, Leads
<1>2. q \notin B
  <2>1. q \in Behind[topology][n][q]
    BY <1>1, BehindIsClosed
  <2>2. Behind[topology][n][q] \cap B = {}
    BY <1>1 DEF IsTree, Trees
  <2> QED BY <2>1, <2>2
<1>3. /\ B \subseteq Nodes \ {n} /\ x \in B
      /\ \A e \in topology : e[1] \in B /\ e[2] # n => e[2] \in B
  BY <1>1, BehindIsClosed
<1>4. \A S \in SUBSET (Nodes \ {n}) :
        (x \in S /\ \A e \in topology : e[1] \in S /\ e[2] # n => e[2] \in S)
          => s \in S
  BY <1>1 DEF Behind
<1> HIDE DEF B
<1>5. ASSUME NEW S \in SUBSET (Nodes \ {q}), n \in S,
             \A e \in topology : e[1] \in S /\ e[2] # q => e[2] \in S
      PROVE  s \in S
  <2>1. x \in S
    <3>1. <<n, x>>[1] = n /\ <<n, x>>[2] = x
      OBVIOUS
    <3> QED BY <1>1, <1>5, <3>1
  <2>2. S \cap B \in SUBSET (Nodes \ {n}) /\ x \in S \cap B
    BY <1>3, <2>1
  <2>3. ASSUME NEW e \in topology, e[1] \in S \cap B, e[2] # n
        PROVE  e[2] \in S \cap B
    <3>1. e[2] \in B
      BY <1>3, <2>3
    <3>2. e[2] # q
      BY <1>2, <3>1
    <3> QED BY <1>5, <2>3, <3>1, <3>2
  <2>4. s \in S \cap B
    BY <1>4, <2>2, <2>3
  <2> QED BY <2>4
<1>6. s \in Behind[topology][q][n]
  BY <1>1, <1>5 DEF Behind
<1>7. s # q
  BY <1>1, <1>2 DEF B
<1> QED BY <1>1, <1>6, <1>7 DEF Leads

LEMMA InitRoutes == Init => RoutesInv
<1> SUFFICES ASSUME Init PROVE RoutesInv
  OBVIOUS
<1>1. TypeOK
  BY InitGossip DEF GossipInv
<1>2. ASSUME NEW n \in Nodes, NEW p \in Nodes, connections[n][p] # NoAddress
      PROVE  Leads(n, p, connections[n][p])
  <2>1. <<n, p>> \in topology /\ connections[n][p] = p
    BY <1>2 DEF Init
  <2> QED BY <1>1, <2>1, NeighbourLeads
<1> QED BY <1>2 DEF RoutesInv, Init, InHand, Busy

LEMMA SendRoutes ==
  ASSUME GossipInv, RoutesInv, NEW m \in Messages, broadcastGossip(m)
  PROVE  RoutesInv'
<1> SUFFICES ASSUME IsTree PROVE RoutesInv'
  BY DEF RoutesInv, IsTree, broadcastGossip
<1> DEFINE n == Sender[m]
<1>1. TypeOK /\ n \in Nodes /\ TTL \in Nat
  BY GossipAssumption DEF GossipInv
<1>2. UNCHANGED <<topology, connections, late, InHand, forwarding>>
  BY DEF broadcastGossip, tables, InHand, Busy
<1>3. ASSUME NEW copy \in net' PROVE Leads(copy.to, Sender[copy.msg], copy.src)
  <2>1. CASE copy \in net
    BY <2>1 DEF RoutesInv
  <2>2. CASE copy \notin net
    <3>1. PICK p \in Peers(n) : copy = [msg |-> m, ttl |-> TTL, src |-> n,
                                        to |-> connections[n][p]]
      BY <1>3, <2>2 DEF broadcastGossip
    <3>2. connections[n][p] \in Nodes /\ <<n, connections[n][p]>> \in topology
      BY <1>1 DEF RoutesInv, Peers, Leads, TypeOK
    <3>3. Leads(connections[n][p], n, n)
      BY <1>1, <3>2, NeighbourLeads
    <3> QED BY <3>1, <3>3
  <2> QED BY <2>1, <2>2
<1> QED BY <1>2, <1>3 DEF RoutesInv, Leads, IsTree

LEMMA ForwardRoutes ==
  ASSUME GossipInv, RoutesInv, NEW n \in Nodes, NEW job \in forwarding[n],
         forwardMessage(n, job)
  PROVE  RoutesInv'
<1> SUFFICES ASSUME IsTree PROVE RoutesInv'
  BY DEF RoutesInv, IsTree, forwardMessage
<1>1. /\ TypeOK /\ job \in Job /\ job.src \in Nodes /\ Sender[job.msg] \in Nodes
      /\ Leads(n, Sender[job.msg], job.src)
  BY GossipAssumption DEF GossipInv, TypeOK, Job, RoutesInv
<1>2. /\ UNCHANGED <<topology, connections, late, InHand>>
      /\ \A k \in Nodes : forwarding'[k] \subseteq forwarding[k]
  BY <1>1 DEF forwardMessage, tables, InHand, Busy, TypeOK
<1>3. ASSUME NEW copy \in net' PROVE Leads(copy.to, Sender[copy.msg], copy.src)
  <2>1. CASE copy \in net
    BY <2>1 DEF RoutesInv
  <2>2. CASE copy \notin net
    <3>1. PICK q \in Recipients(n, job) :
            copy = [msg |-> job.msg, ttl |-> job.ttl - 1, src |-> n, to |-> q]
      BY <1>3, <2>2 DEF forwardMessage
    <3>2. q \in Nodes /\ <<n, q>> \in topology /\ q # job.src
      BY <1>1 DEF Recipients, RoutesInv, Peers, Leads, TypeOK
    <3>3. Leads(q, Sender[job.msg], n)
      BY <1>1, <3>2, FurtherOn
    <3> QED BY <3>1, <3>3
  <2> QED BY <2>1, <2>2
<1> QED BY <1>2, <1>3 DEF RoutesInv, Leads, IsTree

LEMMA CheckRoutes ==
  ASSUME GossipInv, RoutesInv, NEW g \in Goroutines, NEW copy \in net \cup late,
         Check(g, copy), net' \subseteq net, late' \subseteq late \cup {copy}
  PROVE  RoutesInv'
<1> DEFINE task == [at |-> "connections", copy |-> copy]
<1>1. TypeOK /\ copy \in Copy
  BY DEF GossipInv, TypeOK
<1>2. task \in Task /\ task.copy = copy /\ handling' = [handling EXCEPT ![g] = task]
  BY <1>1 DEF Check, Task
<1> HIDE DEF task
<1>3. \A c \in InHand' : c \in InHand \/ c = copy
  <2>1. TypeOK /\ task \in Task /\ handling' = [handling EXCEPT ![g] = task]
    BY <1>1, <1>2
  <2>2. \A c \in InHand' : c \in InHand \/ c = task.copy
    BY <2>1, HandOn
  <2> QED BY <1>2, <2>2
<1>4. UNCHANGED <<topology, connections, forwarding>>
  BY DEF Check
<1> QED BY <1>3, <1>4 DEF RoutesInv, Leads, IsTree

LEMMA ConnectRoutes ==
  ASSUME GossipInv, RoutesInv, NEW g \in Goroutines, EnterConnection(g)
  PROVE  RoutesInv'
<1> SUFFICES ASSUME IsTree PROVE RoutesInv'
  BY DEF RoutesInv, IsTree, EnterConnection
<1> DEFINE copy == handling[g].copy
           task == [handling[g] EXCEPT !.at = "seenMessages"]
<1>1. TypeOK /\ handling[g] # Idle
  BY DEF GossipInv, EnterConnection, Idle
<1>2. /\ copy.to \in Nodes /\ Sender[copy.msg] \in Nodes /\ copy.src \in Nodes
      /\ copy \in InHand
      /\ handling[g] \in [at : {"connections", "seenMessages"}, copy : Copy]
  BY <1>1, CopyInHand
<1>3. Leads(copy.to, Sender[copy.msg], copy.src)
  BY <1>2 DEF RoutesInv
<1>4. /\ UNCHANGED <<topology, net, late, forwarding>>
      /\ connections' = Set(connections, copy.to, Sender[copy.msg], copy.src)
  BY DEF EnterConnection, network
<1>5. task \in Task /\ task.copy = copy /\ handling' = [handling EXCEPT ![g] = task]
  BY <1>2 DEF EnterConnection, Task
<1> HIDE DEF copy, task
<1>6. \A c \in InHand' : c \in InHand
  <2>1. TypeOK /\ task \in Task /\ handling' = [handling EXCEPT ![g] = task]
    BY <1>1, <1>5
  <2>2. \A c \in InHand' : c \in InHand \/ c = task.copy
    BY <2>1, HandOn
  <2> QED BY <1>2, <1>5, <2>2
<1>7. ASSUME NEW n \in Nodes, NEW p \in Nodes, connections'[n][p] # NoAddress
      PROVE  Leads(n, p, connections'[n][p])
  <2>1. CASE n = copy.to /\ p = Sender[copy.msg]
    <3>1. connections'[n][p] = copy.src
      BY <1>1, <1>2, <1>4, <2>1 DEF Set, TypeOK
    <3> QED BY <1>3, <2>1, <3>1
  <2>2. CASE n # copy.to \/ p # Sender[copy.msg]
    <3>1. connections'[n][p] = connections[n][p]
      BY <1>1, <1>2, <1>4, <2>2 DEF Set, TypeOK
    <3> QED BY <1>7, <3>1 DEF RoutesInv
  <2> QED BY <2>1, <2>2
<1> QED BY <1>4, <1>6, <1>7 DEF RoutesInv, Leads, IsTree

LEMMA SeenRoutes ==
  ASSUME GossipInv, RoutesInv, NEW g \in Goroutines, EnterSeen(g)
  PROVE  RoutesInv'
<1> SUFFICES ASSUME IsTree PROVE RoutesInv'
  BY DEF RoutesInv, IsTree, EnterSeen
<1> DEFINE copy == handling[g].copy
<1>1. TypeOK /\ handling[g] # Idle
  BY DEF GossipInv, EnterSeen, Idle
<1>2. /\ copy \in InHand /\ copy.to \in Nodes
      /\ Leads(copy.to, Sender[copy.msg], copy.src)
  BY <1>1, CopyInHand DEF RoutesInv
<1>3. UNCHANGED <<topology, connections, net, late>>
  BY DEF EnterSeen, network
<1>4. \A c \in InHand' : c \in InHand
  <2>1. Idle \in Task /\ handling' = [handling EXCEPT ![g] = Idle]
    BY DEF EnterSeen, Task
  <2> QED BY <1>1, <2>1, HandOn
<1>5. ASSUME NEW n \in Nodes, NEW job \in forwarding'[n]
      PROVE  Leads(n, Sender[job.msg], job.src)
  <2>1. CASE job \in forwarding[n]
    BY <2>1 DEF RoutesInv
  <2>2. CASE job \notin forwarding[n]
    <3>1. n = copy.to /\ job = [msg |-> copy.msg, ttl |-> copy.ttl, src |-> copy.src]
      BY <1>1, <1>2, <1>5, <2>2 DEF EnterSeen, TypeOK
    <3> QED BY <1>2, <3>1
  <2> QED BY <2>1, <2>2
<1> QED BY <1>3, <1>4, <1>5 DEF RoutesInv, Leads, IsTree

LEMMA StepRoutes == GossipInv /\ RoutesInv /\ [Next]_vars => RoutesInv'
<1> SUFFICES ASSUME GossipInv, RoutesInv, [Next]_vars PROVE RoutesInv'
  OBVIOUS
<1>1. ASSUME NEW copy \in net, Refuse(copy) PROVE RoutesInv'
  <2>1. UNCHANGED <<topology, connections, handling, forwarding>>
    BY <1>1 DEF Refuse, tables
  <2>2. \A c \in net' \cup late' : c \in net \cup late
    BY <1>1 DEF Refuse
  <2> QED BY <2>1, <2>2 DEF RoutesInv, Leads, IsTree, InHand, Busy
<1>2. ASSUME \/ \E m \in Messages : MarkSeen(m)
             \/ \E n \in Nodes : cleanSeenMessages(n) \/ cleanNonces(n)
             \/ Tick \/ UNCHANGED vars
      PROVE  RoutesInv'
  <2>1. UNCHANGED <<topology, connections, net, late, handling, forwarding>>
    BY <1>2 DEF MarkSeen, cleanSeenMessages, cleanNonces, Tick, vars, tables,
                network
  <2> QED BY <2>1 DEF RoutesInv, Leads, IsTree, InHand, Busy
<1> QED
  BY <1>1, <1>2, Cases, SendRoutes, ForwardRoutes, CheckRoutes, ConnectRoutes,
     SeenRoutes

\* In every tree, however copies are delayed and repeated, the address a node
\* keeps under a peer's id (the assignment in handleMessage) is the neighbour
\* the peer is behind: no route turns back, and none is to the node itself.
THEOREM RoutesLead == Spec => []RoutesInTree
<1>1. GossipInv /\ RoutesInv => RoutesInTree
  BY DEF RoutesInv, RoutesInTree, Leads
<1>2. Init => GossipInv /\ RoutesInv
  BY InitGossip, InitRoutes
<1>3. GossipInv /\ RoutesInv /\ [Next]_vars => (GossipInv /\ RoutesInv)'
  BY StepGossip, StepRoutes
<1> QED BY <1>1, <1>2, <1>3, PTL DEF Spec
=============================================================================
