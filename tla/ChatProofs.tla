----------------------------- MODULE ChatProofs -----------------------------
(***************************************************************************)
(* Theorems about Chat, for any goroutines, messages, limits and numbers   *)
(* of calls.                                                               *)
(***************************************************************************)
EXTENDS Chat, SequenceTheorems, TLAPS

-----------------------------------------------------------------------------
(* Calls begin: one shape for the four kinds. *)

Begun(p, op, m) ==
  /\ Begin(p, op, m)
  /\ CASE op = "SendMessage" -> m \in Own \ sent /\ sent' = sent \cup {m}
       [] op \in Deliveries  -> m \in known /\ UNCHANGED sent
       [] OTHER              -> m = NoId /\ UNCHANGED sent

Begins(p) == PostChat(p) \/ handleChat(p) \/ syncChatRoom(p) \/ Request(p)

\* What begins is a call of some operation with the message it is about.
LEMMA CallBegins ==
  ASSUME known \subseteq Ids, NEW p \in Procs, Begins(p)
  PROVE  \E op \in Operations, m \in Ids \cup {NoId} : Begun(p, op, m)
<1>1. CASE PostChat(p)
  <2>1. PICK m \in Own \ sent : Begin(p, "SendMessage", m) /\ sent' = sent \cup {m}
    BY <1>1 DEF PostChat
  <2>2. Begun(p, "SendMessage", m)
    BY <2>1 DEF Begun, Deliveries
  <2> QED BY <2>2, ChatAssumption DEF Operations
<1>2. CASE handleChat(p)
  <2>1. PICK m \in known : Begin(p, "ReceiveMessage", m) /\ UNCHANGED sent
    BY <1>2 DEF handleChat
  <2>2. Begun(p, "ReceiveMessage", m)
    BY <2>1 DEF Begun, Deliveries
  <2> QED BY <2>2 DEF Operations, Deliveries
<1>3. CASE syncChatRoom(p)
  <2>1. PICK m \in known : Begin(p, "ImportMessage", m) /\ UNCHANGED sent
    BY <1>3 DEF syncChatRoom
  <2>2. Begun(p, "ImportMessage", m)
    BY <2>1 DEF Begun, Deliveries
  <2> QED BY <2>2 DEF Operations, Deliveries
<1>4. CASE Request(p)
  <2>1. PICK op \in Requests : Begin(p, op, NoId) /\ UNCHANGED sent
    BY <1>4 DEF Request
  <2>2. op \in Operations /\ op # "SendMessage" /\ op \notin Deliveries
    BY DEF Requests
  <2>3. Begun(p, op, NoId)
    BY <2>1, <2>2 DEF Begun
  <2> QED BY <2>2, <2>3
<1> QED BY <1>1, <1>2, <1>3, <1>4 DEF Begins

-----------------------------------------------------------------------------
(* Types *)

\* A lock stays a lock, whoever asks for it or gives it back (sync.RWMutex).
LEMMA LockTypes ==
  ASSUME NEW l \in Lock(Procs), NEW p \in Procs
  PROVE  /\ AskToRead(l, p) \in Lock(Procs)
         /\ AskToWrite(l, p) \in Lock(Procs)
         /\ Release(l, p) \in Lock(Procs)
<1>1. AskToRead(l, p) \in Lock(Procs)
  BY DEF AskToRead, Lock
<1>2. AskToWrite(l, p) \in Lock(Procs)
  BY DEF AskToWrite, Lock
<1>3. Release(l, p) \in Lock(Procs)
  BY DEF Release, WUnlock, RUnlock, Lock
<1> QED BY <1>1, <1>2, <1>3

\* What both ways of trimming make of a list: nothing new, and short enough.
LEMMA TrimTypes ==
  ASSUME NEW s \in Seq(Ids), Len(s) <= MaxMessages + 1
  PROVE  /\ DropFirst(s) \in Seq(Ids) /\ Len(DropFirst(s)) <= MaxMessages
         /\ KeepLast(s) \in Seq(Ids) /\ Len(KeepLast(s)) <= MaxMessages
<1> USE ChatAssumption
<1>1. CASE Len(s) <= MaxMessages
  BY <1>1 DEF DropFirst, KeepLast
<1>2. CASE Len(s) > MaxMessages
  <2>1. s # <<>> /\ Len(s) = MaxMessages + 1 /\ DropFirst(s) = Tail(s)
        /\ KeepLast(s) = SubSeq(s, 2, Len(s))
    BY <1>2 DEF DropFirst, KeepLast
  <2>2. Tail(s) \in Seq(Ids) /\ Len(Tail(s)) = Len(s) - 1
    BY <2>1, HeadTailProperties
  <2>3. SubSeq(s, 2, Len(s)) \in Seq(Ids) /\ Len(SubSeq(s, 2, Len(s))) = Len(s) - 1
    BY <2>1, SubSeqProperties
  <2> QED BY <2>1, <2>2, <2>3
<1> QED BY <1>1, <1>2

\* Sorting keeps the length and the messages (sort.Slice in ImportMessage).
LEMMA SortTypes ==
  ASSUME NEW s \in Seq(Ids), NEW t \in ByTime(s)
  PROVE  /\ t \in Seq(Ids) /\ Len(t) = Len(s)
         /\ Distinct(s) => Distinct(t)
<1>1. PICK f \in [DOMAIN s -> DOMAIN s] :
        Distinct(f) /\ t = [i \in DOMAIN s |-> s[f[i]]]
  BY DEF ByTime
<1>2. DOMAIN s = 1..Len(s) /\ Len(s) \in Nat /\ \A i \in DOMAIN s : s[i] \in Ids
  OBVIOUS
<1>3. t \in [1..Len(s) -> Ids]
  BY <1>1, <1>2
<1>4. t \in Seq(Ids) /\ Len(t) = Len(s)
  BY <1>2, <1>3, SeqDef
<1>5. ASSUME Distinct(s) PROVE Distinct(t)
  BY <1>1, <1>2, <1>5 DEF Distinct
<1> QED BY <1>4, <1>5

\* One more message.
LEMMA AppendTypes ==
  ASSUME NEW s \in Seq(Ids), NEW m \in Ids
  PROVE  /\ Append(s, m) \in Seq(Ids) /\ Len(Append(s, m)) = Len(s) + 1
         /\ Distinct(s) /\ m \notin Listed(s) => Distinct(Append(s, m))
<1>1. Append(s, m) \in Seq(Ids) /\ Len(Append(s, m)) = Len(s) + 1
  OBVIOUS
<1>2. \A i \in 1..Len(s) : Append(s, m)[i] = s[i]
  OBVIOUS
<1>3. Append(s, m)[Len(s) + 1] = m
  OBVIOUS
<1>4. ASSUME Distinct(s), m \notin Listed(s) PROVE Distinct(Append(s, m))
  <2>1. SUFFICES ASSUME NEW i \in 1..(Len(s) + 1), NEW j \in 1..(Len(s) + 1),
                        Append(s, m)[i] = Append(s, m)[j]
                 PROVE  i = j
    BY <1>1 DEF Distinct
  <2>2. DOMAIN s = 1..Len(s) /\ \A k \in 1..Len(s) : s[k] # m
    BY <1>4 DEF Listed
  <2> QED BY <1>2, <1>3, <1>4, <2>1, <2>2 DEF Distinct
<1> QED BY <1>1, <1>4

\* Where a call may be, and what it knows there.
StageOK ==
  \A p \in Procs :
    /\ Stage(p) \in {"enter", "inside", "visit", "visited"} => call[p].obj \in Rooms
    /\ Stage(p) \in {"visit", "visited"} => Op(p) = "GetOnlineUsers"
    /\ Stage(p) \in {"open", "count", "counted"} => Op(p) = "SendMessage"
    /\ Op(p) \in Deliveries \cup {"SendMessage"} => call[p].id \in Ids

Typed == TypeOK /\ StageOK

\* A section of p changes no other call, and p's call only so far.
LEMMA CallTypes ==
  ASSUME Typed, NEW p \in Procs,
         NEW c \in Calls, call' = [call EXCEPT ![p] = c],
         c.stage \in {"enter", "inside", "visit", "visited"} => c.obj \in Rooms,
         c.stage \in {"visit", "visited"} => c.op = "GetOnlineUsers",
         c.stage \in {"open", "count", "counted"} => c.op = "SendMessage",
         c.op \in Deliveries \cup {"SendMessage"} => c.id \in Ids
  PROVE  call' \in [Procs -> Calls] /\ StageOK'
<1>1. call \in [Procs -> Calls] /\ StageOK
  BY DEF Typed, TypeOK
<1>2. call'[p] = c /\ \A q \in Procs : q # p => call'[q] = call[q]
  BY <1>1
<1> QED BY <1>1, <1>2 DEF StageOK, Stage, Op

THEOREM InitTyped == Init => Typed
<1> SUFFICES ASSUME Init PROVE Typed
  OBVIOUS
<1> USE ChatAssumption, LoadedAssumption
<1>1. Unlocked \in Lock(Procs)
  BY DEF Unlocked, Lock
<1>2. Idle \in Calls
  BY DEF Idle, Calls, Operations, Stages, Nested, MgrOnly, Deliveries
<1>3. /\ room \in Rooms \cup {NoRoom} /\ messages \in [Rooms -> Seq(Ids)]
      /\ \A r \in Rooms : Len(messages[r]) <= MaxMessages
      /\ kept \subseteq Ids
  <2>1. CASE /\ room = NoRoom /\ kept = {} /\ messages = [r \in Rooms |-> <<>>]
    BY <2>1
  <2>2. CASE \E s \in Loaded : /\ room = CHOOSE r \in Rooms : TRUE
                               /\ messages = [r \in Rooms |-> IF r = room THEN s ELSE <<>>]
                               /\ kept = Listed(s)
    <3>1. PICK s \in Loaded : /\ messages = [r \in Rooms |-> IF r = room THEN s ELSE <<>>]
                              /\ kept = Listed(s)
      BY <2>2
    <3>2. room \in Rooms
      BY <2>2
    <3>3. s \in Seq(Ids) /\ Len(s) <= MaxMessages /\ Listed(s) \subseteq Ids
      BY DEF Listed
    <3> QED BY <3>1, <3>2, <3>3
  <2> QED BY <2>1, <2>2 DEF Init
<1>m. member \in [Rooms -> BOOLEAN]
  <2>1. CASE member = [r \in Rooms |-> r = room]
    <3>1. \A r \in Rooms : (r = room) \in BOOLEAN
      OBVIOUS
    <3> QED BY <2>1, <3>1, Zenon
  <2>2. CASE member = [r \in Rooms |-> FALSE]
    BY <2>2, Zenon
  <2> QED BY <2>1, <2>2 DEF Init
<1>4. TypeOK
  BY <1>1, <1>2, <1>3, <1>m DEF Init, TypeOK, Users
<1>5. StageOK
  BY DEF Init, StageOK, Stage, Op, Idle, Deliveries
<1> QED BY <1>4, <1>5 DEF Typed

\* A call that only moves on, within the same operation.
LEMMA GotoTypes ==
  ASSUME Typed, NEW p \in Procs, NEW st \in Stages, Goto(p, st),
         st \in {"enter", "inside"} => call[p].obj \in Rooms,
         st \in {"visit", "visited"} => call[p].obj \in Rooms /\ Op(p) = "GetOnlineUsers",
         st \in {"open", "count", "counted"} => Op(p) = "SendMessage"
  PROVE  call' \in [Procs -> Calls] /\ StageOK'
<1> DEFINE c == [call[p] EXCEPT !.stage = st]
<1>1. call[p] \in Calls /\ (Op(p) \in Deliveries \cup {"SendMessage"} => call[p].id \in Ids)
  BY DEF Typed, TypeOK, StageOK
<1>2. c \in Calls /\ c.stage = st /\ c.op = Op(p) /\ c.id = call[p].id /\ c.obj = call[p].obj
  BY <1>1 DEF Calls, Op
<1>3. call' = [call EXCEPT ![p] = c]
  BY DEF Goto
<1> QED BY <1>1, <1>2, <1>3, CallTypes

\* A call that ends.
LEMMA EndTypes ==
  ASSUME Typed, NEW p \in Procs, call' = [call EXCEPT ![p] = Idle]
  PROVE  call' \in [Procs -> Calls] /\ StageOK'
<1>1. Idle \in Calls
  BY DEF Idle, Calls, Operations, Stages, Nested, MgrOnly, Deliveries
<1> QED BY <1>1, CallTypes DEF Idle, Deliveries

\* A call that has looked for the room and found r.
LEMMA FoundTypes ==
  ASSUME Typed, NEW p \in Procs, NEW r \in Rooms \cup {NoRoom}, Found(p, r)
  PROVE  call' \in [Procs -> Calls] /\ StageOK'
<1> DEFINE st == IF Op(p) \in Nested /\ r # NoRoom THEN "enter" ELSE "found"
           c  == [call[p] EXCEPT !.obj = r, !.stage = st]
<1>1. call[p] \in Calls /\ (Op(p) \in Deliveries \cup {"SendMessage"} => call[p].id \in Ids)
  BY DEF Typed, TypeOK, StageOK
<1>2. c \in Calls /\ c.stage = st /\ c.op = Op(p) /\ c.id = call[p].id /\ c.obj = r
  BY <1>1 DEF Calls, Op, Stages, Wanting, InMgr
<1>3. call' = [call EXCEPT ![p] = c]
  BY DEF Found
<1>4. st \in {"enter", "found"} /\ (st = "enter" => r \in Rooms)
  OBVIOUS
<1> HIDE DEF c, st
<1> QED BY <1>1, <1>2, <1>3, <1>4, CallTypes

\* The room a call looks up, made if need be.
LEMMA OpenTypes ==
  ASSUME Typed, NEW p \in Procs, NEW b \in BOOLEAN, OpenRoom(p, b)
  PROVE  /\ room' \in Rooms \cup {NoRoom} /\ member' \in [Rooms -> BOOLEAN]
         /\ call' \in [Procs -> Calls] /\ StageOK'
<1>1. CASE room = NoRoom
  <2> DEFINE r == CHOOSE x \in Fresh : TRUE
  <2>1. Fresh # {} /\ room' = r /\ member' = [member EXCEPT ![r] = b] /\ Found(p, r)
    BY <1>1 DEF OpenRoom, MakeRoom
  <2>2. r \in Rooms
    BY <2>1 DEF Fresh
  <2> QED BY <2>1, <2>2, FoundTypes DEF Typed, TypeOK
<1>2. CASE room # NoRoom
  BY <1>2, FoundTypes DEF OpenRoom, Typed, TypeOK
<1> QED BY <1>1, <1>2

\* What a room's list becomes when a message is stored.
LEMMA StoreTypes ==
  ASSUME Typed, NEW p \in Procs, call[p].obj \in Rooms, call[p].id \in Ids,
         NEW s \in Seq(Ids), Len(s) <= MaxMessages, Stores(p, s)
  PROVE  /\ messages' \in [Rooms -> Seq(Ids)]
         /\ \A r \in Rooms : Len(messages'[r]) <= MaxMessages
         /\ kept' \subseteq Ids
<1>1. /\ messages \in [Rooms -> Seq(Ids)] /\ kept \subseteq Ids
      /\ \A r \in Rooms : Len(messages[r]) <= MaxMessages
  BY DEF Typed, TypeOK
<1>2. messages' = [messages EXCEPT ![call[p].obj] = s] /\ kept' \subseteq kept \cup {call[p].id}
  BY DEF Stores
<1> QED BY <1>1, <1>2

THEOREM StepTyped == Typed /\ [Next]_vars => Typed'
<1> SUFFICES ASSUME Typed, [Next]_vars PROVE Typed'
  OBVIOUS
<1> USE ChatAssumption
<1>t. /\ lock \in [Locks -> Lock(Procs)]
      /\ room \in Rooms \cup {NoRoom}
      /\ messages \in [Rooms -> Seq(Ids)]
      /\ \A r \in Rooms : Len(messages[r]) <= MaxMessages
      /\ online \in [Rooms -> SUBSET Users] /\ member \in [Rooms -> BOOLEAN]
      /\ users \subseteq Users /\ call \in [Procs -> Calls]
      /\ sent \subseteq Own /\ known \subseteq Ids /\ kept \subseteq Ids
      /\ calls \in 0..MaxCalls
  BY DEF Typed, TypeOK
<1>o. ASSUME NEW p \in Procs
      PROVE  /\ Stage(p) \in {"enter", "inside", "visit", "visited"} => call[p].obj \in Rooms
             /\ Stage(p) \in {"visit", "visited"} => Op(p) = "GetOnlineUsers"
             /\ Stage(p) \in {"open", "count", "counted"} => Op(p) = "SendMessage"
             /\ Op(p) \in Deliveries \cup {"SendMessage"} => call[p].id \in Ids
             /\ call[p] \in Calls
  BY <1>t DEF Typed, StageOK
<1>1. ASSUME NEW p \in Procs, NEW op \in Operations, NEW m \in Ids \cup {NoId}, Begun(p, op, m)
      PROVE  Typed'
  <2> DEFINE c == [Idle EXCEPT !.op = op, !.id = m, !.stage = "find"]
  <2>1. /\ c \in Calls /\ c.stage = "find" /\ c.op = op /\ c.id = m
        /\ call' = [call EXCEPT ![p] = c]
    BY <1>1 DEF Begun, Begin, Idle, Calls, Stages, Wanting
  <2>2. sent' \subseteq Own /\ (op \in Deliveries \cup {"SendMessage"} => m \in Ids)
    BY <1>1, <1>t DEF Begun, Begin, Deliveries
  <2> HIDE DEF c
  <2>3. call' \in [Procs -> Calls] /\ StageOK'
    BY <2>1, <2>2, CallTypes
  <2>4. calls' \in 0..MaxCalls
    BY <1>1, <1>t DEF Begun, Begin
  <2> QED BY <1>1, <1>t, <2>2, <2>3, <2>4 DEF Begun, Begin, store, Typed, TypeOK
<1>2. ASSUME NEW p \in Procs, Ask(p) PROVE Typed'
  <2>1. Wanted(p) \in Locks
    BY <1>2, <1>o DEF Wanted, Locks
  <2>2. lock' \in [Locks -> Lock(Procs)]
    BY <1>2, <1>t, <2>1, LockTypes DEF Ask
  <2> QED BY <1>2, <1>t, <2>2 DEF Ask, store, Typed, TypeOK, StageOK, Stage, Op
<1>3. ASSUME NEW p \in Procs, FindRoom(p) PROVE Typed'
  <2>1. call' \in [Procs -> Calls] /\ StageOK'
    BY <1>3, <1>t, FoundTypes DEF FindRoom
  <2> QED BY <1>3, <1>t, <2>1 DEF FindRoom, store, Typed, TypeOK
<1>4. ASSUME NEW p \in Procs, DeliverFind(p) PROVE Typed'
  <2>1. /\ room' \in Rooms \cup {NoRoom} /\ member' \in [Rooms -> BOOLEAN]
        /\ call' \in [Procs -> Calls] /\ StageOK'
    BY <1>4, OpenTypes DEF DeliverFind
  <2>2. users' \subseteq Users
    BY <1>4, <1>t, <1>o DEF DeliverFind, Users
  <2> QED BY <1>4, <1>t, <2>1, <2>2 DEF DeliverFind, Typed, TypeOK
<1>5. ASSUME NEW p \in Procs, CreateRoom(p) PROVE Typed'
  <2>1. /\ room' \in Rooms \cup {NoRoom} /\ member' \in [Rooms -> BOOLEAN]
        /\ call' \in [Procs -> Calls] /\ StageOK'
    BY <1>5, OpenTypes DEF CreateRoom
  <2> QED BY <1>5, <1>t, <2>1 DEF CreateRoom, Typed, TypeOK
<1>6. ASSUME NEW p \in Procs, Count(p) PROVE Typed'
  <2>1. call' \in [Procs -> Calls] /\ StageOK'
    BY <1>6, <1>o, GotoTypes DEF Count, At, Stages, InMgr
  <2> QED BY <1>6, <1>t, <2>1 DEF Count, store, Typed, TypeOK
<1>7. ASSUME NEW p \in Procs, Visit(p) PROVE Typed'
  <2>1. PICK u \in call[p].todo :
          call' = [call EXCEPT ![p] = [call[p] EXCEPT !.todo = call[p].todo \ {u}, !.stage = "visited"]]
    BY <1>7 DEF Visit
  <2> DEFINE c == [call[p] EXCEPT !.todo = call[p].todo \ {u}, !.stage = "visited"]
  <2>2. c \in Calls /\ c.stage = "visited" /\ c.op = Op(p) /\ c.id = call[p].id /\ c.obj = call[p].obj
    BY <1>o DEF Calls, Op, Stages, InMgr
  <2>3. call' \in [Procs -> Calls] /\ StageOK'
    <3>1. call' = [call EXCEPT ![p] = c]
      BY <2>1
    <3>2. Op(p) = "GetOnlineUsers" /\ call[p].obj \in Rooms
      BY <1>7, <1>o DEF Visit, At
    <3> HIDE DEF c
    <3> QED BY <2>2, <3>1, <3>2, CallTypes DEF Deliveries
  <2> QED BY <1>7, <1>t, <2>3 DEF Visit, store, Typed, TypeOK
<1>8. ASSUME NEW p \in Procs, UnlockMgr(p) PROVE Typed'
  <2>1. call' \in [Procs -> Calls] /\ StageOK'
    <3>1. \/ Stage(p) = "found" /\ call[p].obj # NoRoom /\ Goto(p, "enter")
          \/ Stage(p) = "found" /\ Op(p) = "SendMessage" /\ Goto(p, "open")
          \/ Stage(p) = "visited" /\ Goto(p, IF call[p].todo = {} THEN "inside" ELSE "visit")
          \/ call' = [call EXCEPT ![p] = Idle]
      BY <1>8 DEF UnlockMgr
    <3>2. call[p].obj # NoRoom => call[p].obj \in Rooms
      BY <1>o DEF Calls
    <3> QED BY <1>o, <3>1, <3>2, GotoTypes, EndTypes DEF Stages, Wanting, InMgr
  <2>2. lock' \in [Locks -> Lock(Procs)]
    BY <1>8, <1>t, LockTypes DEF UnlockMgr, Locks
  <2>3. known' \subseteq Ids
    BY <1>8, <1>t, <1>o DEF UnlockMgr
  <2> QED BY <1>8, <1>t, <2>1, <2>2, <2>3 DEF UnlockMgr, store, Typed, TypeOK
<1>a. ASSUME NEW p \in Procs, Stage(p) = "enter"
      PROVE  /\ call[p].obj \in Rooms /\ Here(p) \in Seq(Ids)
             /\ Len(Here(p)) <= MaxMessages
             /\ call[p].id \in Ids => /\ Longer(p) \in Seq(Ids)
                                     /\ Len(Longer(p)) <= MaxMessages + 1
  BY <1>a, <1>t, <1>o, AppendTypes DEF Here, Longer
<1>b. ASSUME NEW p \in Procs, Stage(p) = "enter", Goto(p, "inside")
      PROVE  call' \in [Procs -> Calls] /\ StageOK'
  BY <1>a, <1>b, GotoTypes DEF Stages
<1>c. ASSUME NEW p \in Procs, Stage(p) = "enter", NEW u \in Users, Appears(p, u)
      PROVE  online' \in [Rooms -> SUBSET Users]
  BY <1>a, <1>c, <1>t DEF Appears
<1>9. ASSUME NEW p \in Procs, PostMessage(p) PROVE Typed'
  <2>1. Stage(p) = "enter" /\ Op(p) = "SendMessage" /\ call[p].id \in Ids
    BY <1>9, <1>o DEF PostMessage, At
  <2>2. /\ messages' \in [Rooms -> Seq(Ids)] /\ kept' \subseteq Ids
        /\ \A r \in Rooms : Len(messages'[r]) <= MaxMessages
    BY <1>9, <1>a, <2>1, TrimTypes, StoreTypes DEF PostMessage
  <2>3. online' \in [Rooms -> SUBSET Users]
    BY <1>9, <1>c, <2>1 DEF PostMessage, Users
  <2>4. call' \in [Procs -> Calls] /\ StageOK'
    BY <1>9, <1>b, <2>1 DEF PostMessage
  <2> QED BY <1>9, <1>t, <2>2, <2>3, <2>4 DEF PostMessage, Typed, TypeOK
<1>10. ASSUME NEW p \in Procs, ReceiveMessage(p) PROVE Typed'
  <2>1. Stage(p) = "enter" /\ call[p].id \in Ids
    BY <1>10, <1>o DEF ReceiveMessage, At, Deliveries
  <2>2. /\ messages' \in [Rooms -> Seq(Ids)] /\ kept' \subseteq Ids
        /\ \A r \in Rooms : Len(messages'[r]) <= MaxMessages
    <3>1. CASE call[p].id \in Listed(Here(p))
      BY <1>10, <1>t, <3>1 DEF ReceiveMessage
    <3>2. CASE call[p].id \notin Listed(Here(p))
      BY <1>10, <1>a, <2>1, <3>2, TrimTypes, StoreTypes DEF ReceiveMessage
    <3> QED BY <3>1, <3>2
  <2>3. online' \in [Rooms -> SUBSET Users]
    <3>1. CASE call[p].id \in Listed(Here(p))
      BY <1>10, <1>t, <3>1 DEF ReceiveMessage
    <3>2. CASE call[p].id \notin Listed(Here(p))
      <4>1. Appears(p, Sender[call[p].id]) /\ Sender[call[p].id] \in Users
        BY <1>10, <2>1, <3>2 DEF ReceiveMessage, Users
      <4> QED BY <1>c, <2>1, <4>1
    <3> QED BY <3>1, <3>2
  <2>4. call' \in [Procs -> Calls] /\ StageOK'
    BY <1>10, <1>b, <2>1 DEF ReceiveMessage
  <2> QED BY <1>10, <1>t, <2>2, <2>3, <2>4 DEF ReceiveMessage, Typed, TypeOK
<1>11. ASSUME NEW p \in Procs, ImportMessage(p) PROVE Typed'
  <2>1. Stage(p) = "enter" /\ call[p].id \in Ids
    BY <1>11, <1>o DEF ImportMessage, At, Deliveries
  <2>2. /\ messages' \in [Rooms -> Seq(Ids)] /\ kept' \subseteq Ids
        /\ \A r \in Rooms : Len(messages'[r]) <= MaxMessages
    <3>1. CASE call[p].id \in Listed(Here(p))
      BY <1>11, <1>t, <3>1 DEF ImportMessage
    <3>2. CASE call[p].id \notin Listed(Here(p))
      <4>1. PICK t \in ByTime(Longer(p)) : Stores(p, KeepLast(t))
        BY <1>11, <3>2 DEF ImportMessage
      <4>2. t \in Seq(Ids) /\ Len(t) <= MaxMessages + 1
        BY <1>a, <2>1, <4>1, SortTypes
      <4> QED BY <1>a, <2>1, <4>1, <4>2, TrimTypes, StoreTypes
    <3> QED BY <3>1, <3>2
  <2>3. call' \in [Procs -> Calls] /\ StageOK'
    BY <1>11, <1>b, <2>1 DEF ImportMessage
  <2> QED BY <1>11, <1>t, <2>2, <2>3 DEF ImportMessage, Typed, TypeOK
<1>12. ASSUME NEW p \in Procs, JoinRoom(p) PROVE Typed'
  <2>1. Stage(p) = "enter"
    BY <1>12 DEF JoinRoom, At
  <2>2. online' \in [Rooms -> SUBSET Users] /\ member' \in [Rooms -> BOOLEAN]
    <3>1. CASE member[call[p].obj]
      BY <1>12, <1>t, <3>1 DEF JoinRoom
    <3>2. CASE ~member[call[p].obj]
      <4>1. /\ Appears(p, Local) /\ Local \in Users
            /\ member' = [member EXCEPT ![call[p].obj] = TRUE]
        BY <1>12, <3>2 DEF JoinRoom, Users
      <4> QED BY <1>c, <1>t, <2>1, <4>1
    <3> QED BY <3>1, <3>2
  <2>3. call' \in [Procs -> Calls] /\ StageOK'
    BY <1>12, <1>b, <2>1 DEF JoinRoom
  <2> QED BY <1>12, <1>t, <2>2, <2>3 DEF JoinRoom, Typed, TypeOK
<1>13. ASSUME NEW p \in Procs, GetOnlineUsers(p) PROVE Typed'
  <2>1. Stage(p) = "enter" /\ Op(p) = "GetOnlineUsers"
    BY <1>13 DEF GetOnlineUsers, At
  <2>2. PICK seen \in SUBSET online[call[p].obj] :
          call' = [call EXCEPT ![p].todo = seen,
                     ![p].stage = IF seen = {} THEN "inside" ELSE "visit"]
    BY <1>13, Zenon DEF GetOnlineUsers
  <2> DEFINE c == [call[p] EXCEPT !.todo = seen,
                     !.stage = IF seen = {} THEN "inside" ELSE "visit"]
  <2>3. /\ c \in Calls /\ c.stage \in {"inside", "visit"} /\ c.op = Op(p)
        /\ c.id = call[p].id /\ c.obj = call[p].obj
    <3>1. seen \subseteq Users
      BY <1>t, <1>a, <2>1
    <3> QED BY <1>o, <3>1 DEF Calls, Op, Stages, Wanting
  <2>4. call' \in [Procs -> Calls] /\ StageOK'
    <3>1. call' = [call EXCEPT ![p] = c]
      BY <1>t, <2>2
    <3> HIDE DEF c
    <3> QED BY <1>a, <2>1, <2>3, <3>1, CallTypes DEF Deliveries
  <2> QED BY <1>13, <1>t, <2>4 DEF GetOnlineUsers, store, Typed, TypeOK
<1>14. ASSUME NEW p \in Procs, TouchRoom(p) PROVE Typed'
  <2>1. call' \in [Procs -> Calls] /\ StageOK'
    BY <1>14, <1>b DEF TouchRoom, At
  <2> QED BY <1>14, <1>t, <2>1 DEF TouchRoom, store, Typed, TypeOK
<1>15. ASSUME NEW p \in Procs, UnlockRoom(p) PROVE Typed'
  <2>1. call' \in [Procs -> Calls] /\ StageOK'
    <3>1. \/ Goto(p, "left")
          \/ Op(p) = "SendMessage" /\ Goto(p, "count")
          \/ call' = [call EXCEPT ![p] = Idle]
      BY <1>15 DEF UnlockRoom
    <3> QED BY <3>1, GotoTypes, EndTypes DEF Stages, Wanting, InMgr
  <2>2. lock' \in [Locks -> Lock(Procs)]
    BY <1>15, <1>t, <1>o, LockTypes DEF UnlockRoom, Locks
  <2> QED BY <1>15, <1>t, <2>1, <2>2 DEF UnlockRoom, store, Typed, TypeOK
<1>16. CASE UNCHANGED vars
  BY <1>16 DEF vars, store, Typed, TypeOK, StageOK, Stage, Op
<1>0. ASSUME NEW p \in Procs, Begins(p) PROVE Typed'
  <2>1. known \subseteq Ids
    BY DEF Typed, TypeOK
  <2>2. PICK op \in Operations, m \in Ids \cup {NoId} : Begun(p, op, m)
    BY <1>0, <2>1, CallBegins
  <2> QED BY <1>1, <2>2
<1> QED
  BY <1>0, <1>2, <1>3, <1>4, <1>5, <1>6, <1>7, <1>8, <1>9, <1>10, <1>11, <1>12,
     <1>13, <1>14, <1>15, <1>16 DEF Next, Begins, Advance, InMgrSection, InRoomSection

\* The variables always have the values the program gives them, whatever the
\* goroutines, messages and limits.
THEOREM ChatTypes == Spec => []TypeOK
<1>1. Typed => TypeOK
  BY DEF Typed
<1> QED BY InitTyped, StepTyped, <1>1, PTL DEF Spec
-----------------------------------------------------------------------------
(* Who is known *)

\* The sender of a message that is on its way to the room is registered.
KnownOK ==
  /\ Local \in users
  /\ \A r \in Rooms : online[r] \subseteq users
  /\ \A p \in Procs : Op(p) = "ReceiveMessage" /\ Stage(p) \in {"found", "enter"}
                       => Sender[call[p].id] \in users

THEOREM InitKnown == Init => KnownOK
BY DEF Init, KnownOK, Idle, Op, Stage

THEOREM StepKnown == Typed /\ KnownOK /\ [Next]_vars => KnownOK'
<1> SUFFICES ASSUME Typed, KnownOK, [Next]_vars PROVE KnownOK'
  OBVIOUS
<1>t. /\ call \in [Procs -> Calls] /\ online \in [Rooms -> SUBSET Users]
      /\ \A p \in Procs : Stage(p) = "enter" => call[p].obj \in Rooms
  BY DEF Typed, TypeOK, StageOK
\* Enough that users stay, appearances are of known users, and a call that
\* reaches these stages has registered its sender.
<1>s. ASSUME NEW p \in Procs, users \subseteq users', \A q \in Procs : q # p => call'[q] = call[q],
             \A r \in Rooms : online'[r] \subseteq users',
             call'[p].op = "ReceiveMessage" /\ call'[p].stage \in {"found", "enter"}
               => Sender[call'[p].id] \in users'
      PROVE  KnownOK'
  BY <1>s DEF KnownOK, Op, Stage
<1>u. ASSUME NEW p \in Procs, NEW u \in users, users' = users, Stage(p) = "enter", Appears(p, u)
      PROVE  \A r \in Rooms : online'[r] \subseteq users'
  BY <1>t, <1>u DEF Appears, KnownOK
<1>1. ASSUME NEW p \in Procs, NEW op \in Operations, NEW m \in Ids \cup {NoId}, Begun(p, op, m)
      PROVE  KnownOK'
  <2>1. call'[p].stage = "find" /\ \A q \in Procs : q # p => call'[q] = call[q]
    BY <1>1, <1>t DEF Begun, Begin, Idle
  <2> QED BY <1>1, <1>s, <2>1 DEF Begun, Begin, store, KnownOK
<1>2. ASSUME NEW p \in Procs, Ask(p) PROVE KnownOK'
  BY <1>2 DEF Ask, store, KnownOK, Op, Stage
<1>3. ASSUME NEW p \in Procs, FindRoom(p) PROVE KnownOK'
  <2>1. call'[p].op # "ReceiveMessage" /\ \A q \in Procs : q # p => call'[q] = call[q]
    BY <1>3, <1>t DEF FindRoom, Found, Deliveries, Calls, Op
  <2> QED BY <1>3, <1>s, <2>1 DEF FindRoom, store, KnownOK
<1>f. ASSUME NEW p \in Procs, NEW b, OpenRoom(p, b)
      PROVE  /\ call'[p].op = Op(p) /\ call'[p].id = call[p].id
             /\ \A q \in Procs : q # p => call'[q] = call[q]
  BY <1>f, <1>t DEF OpenRoom, MakeRoom, Found, Calls, Op
<1>4. ASSUME NEW p \in Procs, DeliverFind(p) PROVE KnownOK'
  <2>1. OpenRoom(p, FALSE) /\ online' = online /\ users \subseteq users'
        /\ (Op(p) = "ReceiveMessage" => Sender[call[p].id] \in users')
    BY <1>4 DEF DeliverFind
  <2> QED BY <1>f, <1>s, <2>1 DEF KnownOK
<1>5. ASSUME NEW p \in Procs, CreateRoom(p) PROVE KnownOK'
  <2>1. OpenRoom(p, TRUE) /\ online' = online /\ users' = users /\ Op(p) = "SendMessage"
    BY <1>5 DEF CreateRoom, At, Typed, StageOK
  <2> QED BY <1>f, <1>s, <2>1 DEF KnownOK
\* A call that goes on from another stage than "found".
<1>g. ASSUME NEW p \in Procs, NEW st, Goto(p, st)
      PROVE  /\ call'[p].op = Op(p) /\ call'[p].id = call[p].id /\ call'[p].stage = st
             /\ \A q \in Procs : q # p => call'[q] = call[q]
  BY <1>g, <1>t DEF Goto, Calls, Op
<1>6. ASSUME NEW p \in Procs, Count(p) PROVE KnownOK'
  BY <1>6, <1>g, <1>s DEF Count, store, KnownOK
<1>7. ASSUME NEW p \in Procs, Visit(p) PROVE KnownOK'
  <2>1. call'[p].stage = "visited" /\ \A q \in Procs : q # p => call'[q] = call[q]
    BY <1>7, <1>t DEF Visit, Calls
  <2> QED BY <1>7, <1>s, <2>1 DEF Visit, store, KnownOK
<1>8. ASSUME NEW p \in Procs, UnlockMgr(p) PROVE KnownOK'
  <2>1. users' = users /\ online' = online
    BY <1>8 DEF UnlockMgr, store
  <2>2. CASE Stage(p) = "found" /\ Goto(p, "enter")
    BY <1>g, <1>s, <2>1, <2>2 DEF KnownOK
  <2>3. CASE \E st \in {"open", "inside", "visit"} : Goto(p, st)
    BY <1>g, <1>s, <2>1, <2>3 DEF KnownOK
  <2>4. CASE call' = [call EXCEPT ![p] = Idle]
    <3>1. call'[p] = Idle /\ \A q \in Procs : q # p => call'[q] = call[q]
      BY <1>t, <2>4
    <3> QED BY <1>s, <2>1, <3>1 DEF KnownOK, Idle
  <2> QED BY <1>8, <2>2, <2>3, <2>4 DEF UnlockMgr
<1>9. ASSUME NEW p \in Procs, PostMessage(p) PROVE KnownOK'
  <2>1. \A r \in Rooms : online'[r] \subseteq users'
    BY <1>9, <1>u DEF PostMessage, At, KnownOK
  <2> QED BY <1>9, <1>g, <1>s, <2>1 DEF PostMessage
<1>10. ASSUME NEW p \in Procs, ReceiveMessage(p) PROVE KnownOK'
  <2>1. CASE call[p].id \in Listed(Here(p))
    BY <1>10, <1>g, <1>s, <2>1 DEF ReceiveMessage, KnownOK
  <2>2. CASE call[p].id \notin Listed(Here(p))
    <3>1. \A r \in Rooms : online'[r] \subseteq users'
      <4>1. Sender[call[p].id] \in users /\ users' = users /\ Stage(p) = "enter"
        BY <1>10 DEF ReceiveMessage, At, KnownOK
      <4>2. Appears(p, Sender[call[p].id])
        BY <1>10, <2>2 DEF ReceiveMessage
      <4> QED BY <1>u, <4>1, <4>2
    <3> QED BY <1>10, <1>g, <1>s, <3>1 DEF ReceiveMessage
  <2> QED BY <2>1, <2>2
<1>11. ASSUME NEW p \in Procs, ImportMessage(p) PROVE KnownOK'
  BY <1>11, <1>g, <1>s DEF ImportMessage, KnownOK
<1>12. ASSUME NEW p \in Procs, JoinRoom(p) PROVE KnownOK'
  <2>1. \A r \in Rooms : online'[r] \subseteq users'
    <3>1. CASE member[call[p].obj]
      BY <1>12, <3>1 DEF JoinRoom, KnownOK
    <3>2. CASE ~member[call[p].obj]
      BY <1>12, <1>u, <3>2 DEF JoinRoom, At, KnownOK
    <3> QED BY <3>1, <3>2
  <2> QED BY <1>12, <1>g, <1>s, <2>1 DEF JoinRoom
<1>13. ASSUME NEW p \in Procs, GetOnlineUsers(p) PROVE KnownOK'
  <2>1. call'[p].stage \in {"inside", "visit"} /\ \A q \in Procs : q # p => call'[q] = call[q]
    BY <1>13, <1>t DEF GetOnlineUsers, Calls
  <2> QED BY <1>13, <1>s, <2>1 DEF GetOnlineUsers, store, KnownOK
<1>14. ASSUME NEW p \in Procs, TouchRoom(p) PROVE KnownOK'
  BY <1>14, <1>g, <1>s DEF TouchRoom, store, KnownOK
<1>15. ASSUME NEW p \in Procs, UnlockRoom(p) PROVE KnownOK'
  <2>1. users' = users /\ online' = online
    BY <1>15 DEF UnlockRoom, store
  <2>2. CASE \E st \in {"left", "count"} : Goto(p, st)
    BY <1>g, <1>s, <2>1, <2>2 DEF KnownOK
  <2>3. CASE call' = [call EXCEPT ![p] = Idle]
    <3>1. call'[p] = Idle /\ \A q \in Procs : q # p => call'[q] = call[q]
      BY <1>t, <2>3
    <3> QED BY <1>s, <2>1, <3>1 DEF KnownOK, Idle
  <2> QED BY <1>15, <2>2, <2>3 DEF UnlockRoom
<1>16. CASE UNCHANGED vars
  BY <1>16 DEF vars, store, KnownOK, Stage, Op
<1>0. ASSUME NEW p \in Procs, Begins(p) PROVE KnownOK'
  <2>1. known \subseteq Ids
    BY DEF Typed, TypeOK
  <2>2. PICK op \in Operations, m \in Ids \cup {NoId} : Begun(p, op, m)
    BY <1>0, <2>1, CallBegins
  <2> QED BY <1>1, <2>2
<1> QED
  BY <1>0, <1>2, <1>3, <1>4, <1>5, <1>6, <1>7, <1>8, <1>9, <1>10, <1>11, <1>12,
     <1>13, <1>14, <1>15, <1>16 DEF Next, Begins, Advance, InMgrSection, InRoomSection

\* Whoever is shown in a room is a known user, however the sections of
\* ReceiveMessage, JoinRoom and SendMessage interleave.
THEOREM OnlineKnown == Spec => []OnlineAreKnown
<1>1. KnownOK => OnlineAreKnown
  BY DEF KnownOK, OnlineAreKnown
<1> QED BY InitTyped, StepTyped, InitKnown, StepKnown, <1>1, PTL DEF Spec
-----------------------------------------------------------------------------
(* What a step may do *)

Early == {"find", "found", "open", "enter"}

\* A call that goes on keeps its operation and message, takes no room but the
\* one there is, and does not return to where it has not stored anything yet.
LEMMA Moves ==
  ASSUME Typed, NEW p \in Procs, Advance(p)
  PROVE  /\ \A q \in Procs : q # p => call'[q] = call[q]
         /\ room = NoRoom \/ room' = room
         /\ \/ call'[p] = Idle
            \/ /\ call'[p].op = Op(p) /\ call'[p].id = call[p].id
               /\ call'[p].obj \in {call[p].obj, NoRoom, room'}
               /\ call'[p].stage \in Early => Stage(p) \in Early
<1>t. call \in [Procs -> Calls]
  BY DEF Typed, TypeOK
<1>f. ASSUME NEW r, Found(p, r)
      PROVE  /\ \A q \in Procs : q # p => call'[q] = call[q]
             /\ call'[p].op = Op(p) /\ call'[p].id = call[p].id /\ call'[p].obj = r
  BY <1>t, <1>f DEF Found, Calls, Op
<1>g. ASSUME NEW st, Goto(p, st)
      PROVE  /\ \A q \in Procs : q # p => call'[q] = call[q]
             /\ call'[p].op = Op(p) /\ call'[p].id = call[p].id
             /\ call'[p].obj = call[p].obj /\ call'[p].stage = st
  BY <1>t, <1>g DEF Goto, Calls, Op
<1>i. ASSUME call' = [call EXCEPT ![p] = Idle]
      PROVE  call'[p] = Idle /\ \A q \in Procs : q # p => call'[q] = call[q]
  BY <1>t, <1>i
<1>1. CASE Ask(p)
  BY <1>1 DEF Ask, store, Op, Stage
<1>2. CASE FindRoom(p)
  <2>1. PICK r \in {NoRoom, room} : Found(p, r)
    BY <1>2 DEF FindRoom
  <2> QED BY <1>2, <1>f, <2>1 DEF FindRoom, store, At, Early
<1>3. CASE DeliverFind(p) \/ CreateRoom(p)
  <2>1. PICK b \in BOOLEAN : OpenRoom(p, b) /\ Stage(p) \in Early
    BY <1>3 DEF DeliverFind, CreateRoom, At, Early
  <2>2. Found(p, room') /\ (room = NoRoom \/ room' = room)
    BY <2>1 DEF OpenRoom, MakeRoom
  <2> QED BY <1>f, <2>1, <2>2
<1>4. CASE Count(p) \/ TouchRoom(p) \/ PostMessage(p) \/ ReceiveMessage(p)
           \/ ImportMessage(p) \/ JoinRoom(p)
  <2>1. PICK st \in {"counted", "inside"} : Goto(p, st)
    BY <1>4 DEF Count, TouchRoom, PostMessage, ReceiveMessage, ImportMessage, JoinRoom
  <2>2. room' = room
    BY <1>4 DEF Count, TouchRoom, PostMessage, ReceiveMessage, ImportMessage, JoinRoom, store
  <2> QED BY <1>g, <2>1, <2>2 DEF Early
<1>5. CASE Visit(p)
  BY <1>5, <1>t DEF Visit, Calls, Op, Early, store
<1>6. CASE GetOnlineUsers(p)
  BY <1>6, <1>t DEF GetOnlineUsers, Calls, Op, Early, store
<1>7. CASE UnlockMgr(p)
  <2>1. room' = room
    BY <1>7 DEF UnlockMgr, store
  <2>2. CASE Stage(p) = "found" /\ \E st \in {"enter", "open"} : Goto(p, st)
    BY <1>g, <2>1, <2>2 DEF Early
  <2>3. CASE \E st \in {"inside", "visit"} : Goto(p, st)
    BY <1>g, <2>1, <2>3 DEF Early
  <2>4. CASE call' = [call EXCEPT ![p] = Idle]
    BY <1>i, <2>1, <2>4
  <2> QED BY <1>7, <2>2, <2>3, <2>4 DEF UnlockMgr
<1>8. CASE UnlockRoom(p)
  <2>1. room' = room
    BY <1>8 DEF UnlockRoom, store
  <2>2. CASE \E st \in {"left", "count"} : Goto(p, st)
    BY <1>g, <2>1, <2>2 DEF Early
  <2>3. CASE call' = [call EXCEPT ![p] = Idle]
    BY <1>i, <2>1, <2>3
  <2> QED BY <1>8, <2>2, <2>3 DEF UnlockRoom
<1> QED BY <1>1, <1>2, <1>3, <1>4, <1>5, <1>6, <1>7, <1>8
        DEF Advance, InMgrSection, InRoomSection

\* The end of a list, without its first k messages.
LEMMA Cut ==
  ASSUME NEW s \in Seq(Ids), NEW u \in Seq(Ids), NEW k \in Nat,
         Len(u) + k = Len(s), \A i \in 1..Len(u) : u[i] = s[i + k]
  PROVE  Listed(u) \subseteq Listed(s) /\ (Distinct(s) => Distinct(u))
<1>1. DOMAIN s = 1..Len(s) /\ DOMAIN u = 1..Len(u) /\ Len(s) \in Nat /\ Len(u) \in Nat
  OBVIOUS
<1>2. \A i \in DOMAIN u : i + k \in DOMAIN s /\ u[i] = s[i + k]
  BY <1>1
<1>3. Listed(u) \subseteq Listed(s)
  BY <1>2 DEF Listed
<1>4. ASSUME Distinct(s), NEW i \in DOMAIN u, NEW j \in DOMAIN u, u[i] = u[j]
      PROVE  i = j
  <2>1. i + k = j + k
    BY <1>2, <1>4 DEF Distinct
  <2> QED BY <1>1, <2>1
<1> QED BY <1>3, <1>4 DEF Distinct

\* p stores its message: one it sends, or one it has seen is not there.
Stored(p) ==
  /\ Stage(p) = "enter" /\ call'[p].stage = "inside" /\ room' = room
  /\ call[p].id \in Ids /\ call[p].obj \in Rooms /\ Here(p) \in Seq(Ids)
  /\ Op(p) = "SendMessage" \/ call[p].id \notin Listed(Here(p))
  /\ \E s \in Seq(Ids) : /\ Stores(p, s)
                         /\ Listed(s) \subseteq Listed(Here(p)) \cup {call[p].id}
                         /\ Distinct(Longer(p)) => Distinct(s)

\* Lists change only where a call stores its message.
LEMMA Storing ==
  ASSUME Typed, NEW p \in Procs, Advance(p)
  PROVE  /\ sent' = sent
         /\ known' \subseteq known \cup {call[p].id}
         /\ known' = known \/ Stage(p) = "counted"
         /\ Stored(p) \/ (messages' = messages /\ kept' = kept)
<1>1. CASE PostMessage(p) \/ ReceiveMessage(p) \/ ImportMessage(p)
  <2>t. /\ Here(p) \in Seq(Ids) /\ call[p].id \in Ids /\ call[p].obj \in Rooms
        /\ call'[p].stage = "inside" /\ Stage(p) = "enter"
    BY <1>1 DEF Typed, TypeOK, StageOK, Here, At, PostMessage, ReceiveMessage, ImportMessage,
                Goto, Deliveries, Calls
  <2>l. /\ Longer(p) \in Seq(Ids)
        /\ Listed(Longer(p)) \subseteq Listed(Here(p)) \cup {call[p].id}
    BY <2>t DEF Longer, Listed
  <2>s. ASSUME NEW t \in Seq(Ids)
        PROVE  /\ DropFirst(t) \in Seq(Ids) /\ Listed(DropFirst(t)) \subseteq Listed(t)
               /\ KeepLast(t) \in Seq(Ids) /\ Listed(KeepLast(t)) \subseteq Listed(t)
               /\ Distinct(t) => Distinct(DropFirst(t)) /\ Distinct(KeepLast(t))
    <3> USE ChatAssumption
    <3>1. CASE Len(t) <= MaxMessages
      BY <3>1 DEF DropFirst, KeepLast
    <3>2. CASE Len(t) > MaxMessages
      <4> DEFINE k == Len(t) - MaxMessages + 1
      <4>1. DropFirst(t) = Tail(t) /\ KeepLast(t) = SubSeq(t, k, Len(t)) /\ k \in 2..Len(t) /\ t # <<>>
        BY <3>2 DEF DropFirst, KeepLast
      <4>2. /\ Tail(t) \in Seq(Ids) /\ Len(Tail(t)) = Len(t) - 1
            /\ \A i \in 1..Len(Tail(t)) : Tail(t)[i] = t[i + 1]
        BY <4>1, HeadTailProperties
      <4> HIDE DEF k
      <4>3. /\ SubSeq(t, k, Len(t)) \in Seq(Ids)
            /\ Len(SubSeq(t, k, Len(t))) = Len(t) - k + 1
            /\ \A i \in 1..(Len(t) - k + 1) : SubSeq(t, k, Len(t))[i] = t[k + i - 1]
        <5>1. k \in 1..(Len(t) + 1) /\ Len(t) \in 0..Len(t) /\ Len(t) \in Nat
          BY <4>1
        <5>2. QED
          BY <4>1, <5>1, SubSeqProperties
      <4>4. Listed(Tail(t)) \subseteq Listed(t) /\ (Distinct(t) => Distinct(Tail(t)))
        <5>1. 1 \in Nat /\ Len(Tail(t)) + 1 = Len(t)
          BY <4>1, <4>2
        <5> QED BY <4>2, <5>1, Cut
      <4>5. /\ Listed(SubSeq(t, k, Len(t))) \subseteq Listed(t)
            /\ (Distinct(t) => Distinct(SubSeq(t, k, Len(t))))
        <5>1. \A i \in 1..(Len(t) - k + 1) : SubSeq(t, k, Len(t))[i] = t[i + (k - 1)]
          BY <4>1, <4>3
        <5>2. k - 1 \in Nat /\ Len(SubSeq(t, k, Len(t))) + (k - 1) = Len(t)
          BY <4>1, <4>3
        <5> QED BY <4>3, <5>1, <5>2, Cut
      <4> QED BY <4>1, <4>2, <4>3, <4>4, <4>5
    <3> QED BY <3>1, <3>2
  <2>1. CASE /\ Stores(p, DropFirst(Longer(p)))
             /\ Op(p) = "SendMessage" \/ call[p].id \notin Listed(Here(p))
    <3>1. room' = room /\ sent' = sent /\ known' = known
      BY <1>1 DEF PostMessage, ReceiveMessage, ImportMessage
    <3>2. Stored(p)
      <4> DEFINE s == DropFirst(Longer(p))
      <4>1. /\ s \in Seq(Ids) /\ (Distinct(Longer(p)) => Distinct(s))
            /\ Listed(s) \subseteq Listed(Here(p)) \cup {call[p].id}
        BY <2>l, <2>s
      <4>2. Stores(p, s) /\ (Op(p) = "SendMessage" \/ call[p].id \notin Listed(Here(p)))
        BY <2>1
      <4> HIDE DEF s
      <4> QED BY <2>t, <3>1, <4>1, <4>2 DEF Stored
    <3> QED BY <3>1, <3>2
  <2>2. CASE ImportMessage(p) /\ call[p].id \notin Listed(Here(p))
    <3>1. PICK t \in ByTime(Longer(p)) : Stores(p, KeepLast(t))
      BY <2>2 DEF ImportMessage
    <3>2. /\ t \in Seq(Ids) /\ Listed(t) \subseteq Listed(Longer(p))
          /\ Distinct(Longer(p)) => Distinct(t)
      <4>1. t \in Seq(Ids) /\ (Distinct(Longer(p)) => Distinct(t))
        BY <2>l, <3>1, SortTypes
      <4>2. Listed(t) \subseteq Listed(Longer(p))
        BY <3>1 DEF ByTime, Listed
      <4> QED BY <4>1, <4>2
    <3>3. room' = room /\ sent' = sent /\ known' = known
      BY <2>2 DEF ImportMessage
    <3>4. Stored(p)
      <4> DEFINE s == KeepLast(t)
      <4>1. /\ s \in Seq(Ids) /\ (Distinct(Longer(p)) => Distinct(s))
            /\ Listed(s) \subseteq Listed(Here(p)) \cup {call[p].id}
        BY <2>l, <2>s, <3>2
      <4>2. Stores(p, s)
        BY <3>1
      <4> HIDE DEF s
      <4> QED BY <2>2, <2>t, <3>3, <4>1, <4>2 DEF Stored
    <3> QED BY <3>3, <3>4
  <2>3. CASE messages' = messages /\ kept' = kept
    BY <1>1, <2>3 DEF PostMessage, ReceiveMessage, ImportMessage
  <2> QED BY <1>1, <2>1, <2>2, <2>3 DEF PostMessage, ReceiveMessage, ImportMessage, At
<1>2. CASE UnlockMgr(p)
  BY <1>2 DEF UnlockMgr, store
<1>3. CASE \/ Ask(p) \/ FindRoom(p) \/ DeliverFind(p) \/ CreateRoom(p) \/ Count(p) \/ Visit(p)
           \/ JoinRoom(p) \/ GetOnlineUsers(p) \/ TouchRoom(p) \/ UnlockRoom(p)
  BY <1>3 DEF Ask, FindRoom, DeliverFind, CreateRoom, Count, Visit, JoinRoom, GetOnlineUsers,
              TouchRoom, UnlockRoom, store
<1> QED BY <1>1, <1>2, <1>3 DEF Advance, InMgrSection, InRoomSection
-----------------------------------------------------------------------------
(* No duplicates *)

\* A message that SendMessage has not stored yet is nowhere else.
FreshOK ==
  /\ known \cap Own \subseteq sent
  /\ \A r \in Rooms : Distinct(messages[r]) /\ Listed(messages[r]) \cap Own \subseteq sent
  /\ \A p \in Procs : call[p].id \in Own => call[p].id \in sent
  /\ \A p \in Procs : Op(p) = "SendMessage" /\ Stage(p) \in Early =>
       /\ call[p].id \in Own /\ call[p].id \notin known
       /\ \A r \in Rooms : call[p].id \notin Listed(messages[r])
       /\ \A q \in Procs : q # p => call[q].id # call[p].id

THEOREM InitFresh == Init => FreshOK
<1> SUFFICES ASSUME Init PROVE FreshOK
  OBVIOUS
<1>1. \A r \in Rooms : Distinct(messages[r]) /\ Listed(messages[r]) \cap Own = {}
  <2>1. CASE messages = [r \in Rooms |-> <<>>]
    BY <2>1 DEF Distinct, Listed
  <2>2. CASE \E s \in Loaded : messages = [r \in Rooms |-> IF r = room THEN s ELSE <<>>]
    <3>1. PICK s \in Loaded : messages = [r \in Rooms |-> IF r = room THEN s ELSE <<>>]
      BY <2>2
    <3>2. Distinct(s) /\ Listed(s) \cap Own = {} /\ Distinct(<<>>) /\ Listed(<<>>) = {}
      BY LoadedAssumption DEF Listed, Distinct
    <3> QED BY <3>1, <3>2
  <2> QED BY <2>1, <2>2 DEF Init
<1> QED BY <1>1, ChatAssumption DEF Init, FreshOK, Idle, Op, Stage, Early

THEOREM StepFresh == Typed /\ FreshOK /\ [Next]_vars => FreshOK'
<1> SUFFICES ASSUME Typed, FreshOK, [Next]_vars PROVE FreshOK'
  OBVIOUS
<1> USE ChatAssumption
<1>t. /\ call \in [Procs -> Calls] /\ messages \in [Rooms -> Seq(Ids)]
      /\ known \subseteq Ids /\ sent \subseteq Own
  BY DEF Typed, TypeOK
<1>1. ASSUME NEW p \in Procs, NEW op \in Operations, NEW m \in Ids \cup {NoId}, Begun(p, op, m)
      PROVE  FreshOK'
  <2>1. /\ call'[p].op = op /\ call'[p].id = m /\ call'[p].stage = "find"
        /\ \A q \in Procs : q # p => call'[q] = call[q]
    BY <1>1, <1>t DEF Begun, Begin, Idle
  <2>2. messages' = messages /\ known' = known
    BY <1>1 DEF Begun, Begin, store
  <2>3. CASE op = "SendMessage"
    <3>1. m \in Own \ sent /\ sent' = sent \cup {m}
      BY <1>1, <2>3 DEF Begun, Begin, Deliveries
    <3>2. m \notin known /\ \A r \in Rooms : m \notin Listed(messages[r])
      BY <3>1 DEF FreshOK
    <3>3. \A q \in Procs : call[q].id # m
      BY <3>1 DEF FreshOK
    <3> QED BY <2>1, <2>2, <3>1, <3>2, <3>3 DEF FreshOK, Op, Stage, Early
  <2>4. CASE op # "SendMessage"
    <3>1. sent' = sent /\ (m \in known \/ m = NoId)
      BY <1>1, <2>4 DEF Begun, Begin
    <3>2. m \in Own => m \in sent
      BY <3>1 DEF FreshOK
    <3>3. \A q \in Procs : Op(q) = "SendMessage" /\ Stage(q) \in Early => call[q].id # m
      BY <3>1 DEF FreshOK
    <3> QED BY <2>1, <2>2, <2>4, <3>1, <3>2, <3>3 DEF FreshOK, Op, Stage, Early
  <2> QED BY <2>3, <2>4
<1>2. ASSUME NEW p \in Procs, Advance(p) PROVE FreshOK'
  <2>1. /\ \A q \in Procs : q # p => call'[q] = call[q]
        /\ \/ call'[p] = Idle
           \/ /\ call'[p].op = Op(p) /\ call'[p].id = call[p].id
              /\ call'[p].stage \in Early => Stage(p) \in Early
    BY <1>2, Moves
  <2>2. sent' = sent /\ known' \subseteq known \cup {call[p].id}
        /\ (known' = known \/ Stage(p) = "counted")
    BY <1>2, Storing
  <2>3. known' \cap Own \subseteq sent'
    BY <2>2 DEF FreshOK
  <2>4. \A q \in Procs : call'[q].id \in Own => call'[q].id \in sent'
    BY <2>1, <2>2 DEF FreshOK, Idle
  <2>5. ASSUME NEW q \in Procs, call'[q].op = "SendMessage", call'[q].stage \in Early
        PROVE  /\ Op(q) = "SendMessage" /\ Stage(q) \in Early /\ call'[q].id = call[q].id
               /\ call[q].id \in Own /\ call[q].id \notin known'
               /\ \A x \in Procs : x # q => call'[x].id # call[q].id
    <3>1. Op(q) = "SendMessage" /\ Stage(q) \in Early /\ call'[q].id = call[q].id
      BY <2>1, <2>5 DEF Idle, Op, Stage
    <3>2. /\ call[q].id \in Own /\ call[q].id \notin known
          /\ \A x \in Procs : x # q => call[x].id # call[q].id
      BY <3>1 DEF FreshOK
    <3>3. call[q].id \notin known'
      BY <2>2, <3>1, <3>2 DEF Early
    <3>4. \A x \in Procs : x # q => call'[x].id # call[q].id
      BY <2>1, <3>2 DEF Idle
    <3> QED BY <3>1, <3>2, <3>3, <3>4
  <2>6. CASE messages' = messages
    BY <2>1, <2>2, <2>3, <2>4, <2>5, <2>6 DEF FreshOK, Op, Stage
  <2>7. CASE Stored(p)
    <3>0. /\ Stage(p) = "enter" /\ call'[p].stage = "inside"
          /\ call[p].id \in Ids /\ call[p].obj \in Rooms /\ Here(p) \in Seq(Ids)
          /\ Op(p) = "SendMessage" \/ call[p].id \notin Listed(Here(p))
      BY <2>7 DEF Stored
    <3>1. PICK s \in Seq(Ids) : /\ Stores(p, s)
                                /\ Listed(s) \subseteq Listed(Here(p)) \cup {call[p].id}
                                /\ Distinct(Longer(p)) => Distinct(s)
      BY <2>7 DEF Stored
    <3>2. call[p].id \notin Listed(Here(p)) /\ Distinct(Here(p))
      BY <3>0 DEF FreshOK, Early, Here
    <3>3. Distinct(s)
      BY <3>0, <3>1, <3>2, AppendTypes DEF Longer
    <3>4. \A r \in Rooms : messages'[r] = IF r = call[p].obj THEN s ELSE messages[r]
      <4>1. messages' = [messages EXCEPT ![call[p].obj] = s]
        BY <3>1 DEF Stores
      <4> QED BY <1>t, <3>0, <4>1
    <3>5. Listed(s) \cap Own \subseteq sent
      <4>1. Listed(Here(p)) \cap Own \subseteq sent /\ (call[p].id \in Own => call[p].id \in sent)
        BY <3>0 DEF FreshOK, Here
      <4> QED BY <3>1, <4>1
    <3>6. ASSUME NEW q \in Procs, call'[q].op = "SendMessage", call'[q].stage \in Early
          PROVE  \A r \in Rooms : call[q].id \notin Listed(messages'[r])
      <4>1. q # p
        BY <3>0, <3>6 DEF Early
      <4>2. /\ \A r \in Rooms : call[q].id \notin Listed(messages[r])
            /\ call[q].id # call[p].id
        BY <2>5, <3>6, <4>1 DEF FreshOK
      <4>3. call[q].id \notin Listed(s)
        BY <3>0, <3>1, <4>2 DEF Here
      <4> QED BY <3>4, <4>2, <4>3
    <3> QED BY <2>1, <2>2, <2>3, <2>4, <2>5, <3>3, <3>4, <3>5, <3>6 DEF FreshOK, Op, Stage
  <2> QED BY <1>2, <2>6, <2>7, Storing
<1>3. CASE UNCHANGED vars
  BY <1>3 DEF vars, store, FreshOK, Op, Stage
<1>0. ASSUME NEW p \in Procs, Begins(p) PROVE FreshOK'
  <2>1. known \subseteq Ids
    BY DEF Typed, TypeOK
  <2>2. PICK op \in Operations, m \in Ids \cup {NoId} : Begun(p, op, m)
    BY <1>0, <2>1, CallBegins
  <2> QED BY <1>1, <2>2
<1> QED BY <1>0, <1>2, <1>3 DEF Next, Begins

\* No room ever lists a message twice.
THEOREM ListsDistinct == Spec => []NoDuplicates
<1>1. FreshOK => NoDuplicates
  BY DEF FreshOK, NoDuplicates
<1> QED BY InitTyped, StepTyped, InitFresh, StepFresh, <1>1, PTL DEF Spec
-----------------------------------------------------------------------------
(* One room *)

\* There is one room at a time and every call works on that one.
PlaceOK ==
  /\ \A p \in Procs : call[p].obj \in {NoRoom, room}
  /\ NothingLost

THEOREM InitPlace == Init => PlaceOK
<1> SUFFICES ASSUME Init PROVE PlaceOK
  OBVIOUS
<1> USE ChatAssumption
<1>1. NothingLost
  <2>1. CASE kept = {}
    BY <2>1 DEF NothingLost
  <2>2. CASE \E s \in Loaded : /\ room = CHOOSE r \in Rooms : TRUE
                               /\ messages = [r \in Rooms |-> IF r = room THEN s ELSE <<>>]
                               /\ kept = Listed(s)
    BY <2>2 DEF NothingLost
  <2> QED BY <2>1, <2>2 DEF Init
<1> QED BY <1>1 DEF Init, PlaceOK, Idle

THEOREM StepPlace == Typed /\ PlaceOK /\ [Next]_vars => PlaceOK'
<1> SUFFICES ASSUME Typed, PlaceOK, [Next]_vars PROVE PlaceOK'
  OBVIOUS
<1> USE ChatAssumption
<1>t. /\ call \in [Procs -> Calls] /\ messages \in [Rooms -> Seq(Ids)]
  BY DEF Typed, TypeOK
<1>1. ASSUME NEW p \in Procs, NEW op \in Operations, NEW m \in Ids \cup {NoId}, Begun(p, op, m)
      PROVE  PlaceOK'
  BY <1>1, <1>t DEF Begun, Begin, Idle, store, PlaceOK, NothingLost
<1>2. ASSUME NEW p \in Procs, Advance(p) PROVE PlaceOK'
  <2>1. /\ \A q \in Procs : q # p => call'[q] = call[q]
        /\ room = NoRoom \/ room' = room
        /\ call'[p] = Idle \/ call'[p].obj \in {call[p].obj, NoRoom, room'}
    BY <1>2, Moves
  <2>2. \A q \in Procs : call'[q].obj \in {NoRoom, room'}
    BY <2>1 DEF PlaceOK, Idle
  <2>3. CASE messages' = messages /\ kept' = kept
    BY <2>1, <2>2, <2>3 DEF PlaceOK, NothingLost
  <2>4. CASE Stored(p)
    <3>0. /\ room' = room /\ call[p].id \in Ids /\ call[p].obj \in Rooms
          /\ Here(p) \in Seq(Ids)
      BY <2>4 DEF Stored
    <3>1. PICK s \in Seq(Ids) : Stores(p, s)
      BY <2>4 DEF Stored, Stores
    <3>2. room = call[p].obj /\ room # NoRoom /\ messages'[room] = s
      BY <3>0, <3>1, <1>t DEF PlaceOK, Stores
    <3>3. Listed(Here(p)) \cup {call[p].id} \subseteq Listed(Longer(p))
      <4>1. DOMAIN Longer(p) = 1..(Len(Here(p)) + 1) /\ DOMAIN Here(p) = 1..Len(Here(p))
        BY <3>0 DEF Longer
      <4>2. \A i \in 1..Len(Here(p)) : Longer(p)[i] = Here(p)[i]
        BY <3>0 DEF Longer
      <4>3. Longer(p)[Len(Here(p)) + 1] = call[p].id /\ Len(Here(p)) \in Nat
        BY <3>0 DEF Longer
      <4> QED BY <4>1, <4>2, <4>3 DEF Listed
    <3>4. kept \subseteq Listed(Here(p))
      BY <3>2 DEF PlaceOK, NothingLost, Here
    <3>5. kept' \subseteq Listed(s)
      BY <3>1, <3>3, <3>4 DEF Stores
    <3> QED BY <2>2, <3>0, <3>2, <3>5 DEF PlaceOK, NothingLost
  <2> QED BY <1>2, <2>3, <2>4, Storing
<1>3. CASE UNCHANGED vars
  BY <1>3 DEF vars, store, PlaceOK, NothingLost
<1>0. ASSUME NEW p \in Procs, Begins(p) PROVE PlaceOK'
  <2>1. known \subseteq Ids
    BY DEF Typed, TypeOK
  <2>2. PICK op \in Operations, m \in Ids \cup {NoId} : Begun(p, op, m)
    BY <1>0, <2>1, CallBegins
  <2> QED BY <1>1, <2>2
<1> QED BY <1>0, <1>2, <1>3 DEF Next, Begins

\* Whatever a call has stored and no trim removed is in the room that readers
\* find: no two calls make the room.
THEOREM StoredIsFound == Spec => []NothingLost
<1>1. PlaceOK => NothingLost
  BY DEF PlaceOK
<1> QED BY InitTyped, StepTyped, InitPlace, StepPlace, <1>1, PTL DEF Spec
-----------------------------------------------------------------------------
(* Waiting *)

Waits(l, p) == p \in l.blocked \/ p = l.pending

\* Asking makes only the asker a holder or one who waits.
LEMMA AskChanges ==
  ASSUME NEW l \in Lock(Procs), NEW p \in Procs, ~Asked(l, p),
         NEW m \in {AskToRead(l, p), AskToWrite(l, p)}, NEW q \in Procs
  PROVE  /\ Holds(m, q) => Holds(l, q) \/ q = p
         /\ Waits(m, q) => Waits(l, q) \/ q = p
         /\ q = p => ~(Holds(m, q) /\ Waits(m, q)) /\ ~(q \in m.blocked /\ q = m.pending)
         /\ q # p /\ q = m.pending => q = l.pending
         /\ q # p /\ q \in m.blocked => q \in l.blocked
<1>1. CASE m = AskToRead(l, p)
  BY <1>1 DEF AskToRead, Asked, Holds, Waits, Lock
<1>2. CASE m = AskToWrite(l, p)
  BY <1>2 DEF AskToWrite, Asked, Holds, Waits, Lock
<1> QED BY <1>1, <1>2

\* Giving a lock back leaves its holder without, and lets in only those who
\* waited.
LEMMA ReleaseChanges ==
  ASSUME NEW l \in Lock(Procs), NEW p \in Procs, ~Waits(l, p), NEW q \in Procs
  PROVE  /\ ~Holds(Release(l, p), p)
         /\ Holds(Release(l, p), q) => Holds(l, q) \/ Waits(l, q)
         /\ q \in Release(l, p).blocked => q \in l.blocked
         /\ q = Release(l, p).pending => q = l.pending
         /\ /\ ~(Holds(l, q) /\ Waits(l, q))
            /\ ~(q \in l.blocked /\ q = l.pending)
            => ~(Holds(Release(l, p), q) /\ Waits(Release(l, p), q))
<1> USE ChatAssumption
<1>1. CASE p = l.writer
  BY <1>1 DEF Release, WUnlock, Holds, Waits, Lock
<1>2. CASE p # l.writer /\ l.readers \ {p} = {}
  BY <1>2 DEF Release, RUnlock, Holds, Waits, Lock
<1>3. CASE p # l.writer /\ l.readers \ {p} # {}
  BY <1>3 DEF Release, RUnlock, Holds, Waits, Lock
<1> QED BY <1>1, <1>2, <1>3

\* Where a call may have a lock: the order of the locks, with the exception
\* of the stage "visit".
MayHold(p, l) ==
  \/ l = Mgr /\ (\/ Stage(p) \in {"find", "open", "count", "visit"} \cup InMgr
                 \/ Stage(p) \in {"enter", "inside"} /\ Op(p) \in Nested)
  \/ l \in Rooms /\ l = call[p].obj /\ Stage(p) \in {"enter", "inside", "visit", "visited"}
MayWait(p, l) == Stage(p) \in Wanting /\ l = Wanted(p)

OrderOK ==
  \A p \in Procs, l \in Locks :
    /\ Holds(lock[l], p) => MayHold(p, l)
    /\ Waits(lock[l], p) => MayWait(p, l)
    /\ ~(Holds(lock[l], p) /\ Waits(lock[l], p))
    /\ ~(p \in lock[l].blocked /\ p = lock[l].pending)

THEOREM InitOrder == Init => OrderOK
BY ChatAssumption DEF Init, OrderOK, Unlocked, Holds, Waits

\* A section that p goes through with its lock, and the stage it leads to.
LEMMA OrderInSection ==
  ASSUME Typed, OrderOK, NEW p \in Procs, Stage(p) \in Wanting,
         Holds(lock[Wanted(p)], p), lock' = lock,
         \A q \in Procs : q # p => call'[q] = call[q],
         call'[p].op = Op(p),
         \/ /\ Stage(p) \in {"find", "open"}
            /\ \/ call'[p].stage = "found"
               \/ call'[p].stage = "enter" /\ Op(p) \in Nested
         \/ Stage(p) = "count" /\ call'[p].stage = "counted"
         \/ /\ call'[p].obj = call[p].obj
            /\ \/ Stage(p) = "visit" /\ call'[p].stage = "visited"
               \/ Stage(p) = "enter" /\ call'[p].stage \in {"inside", "visit"}
  PROVE  OrderOK'
<1> USE ChatAssumption
<1>1. Wanted(p) \in Locks
  BY DEF Wanted, Locks, Typed, StageOK
<1>2. \A l \in Locks : ~Waits(lock[l], p)
  BY <1>1 DEF OrderOK, MayWait
<1>3. ASSUME NEW l \in Locks, Holds(lock[l], p) PROVE MayHold(p, l)'
  <2>1. MayHold(p, l)
    BY <1>3 DEF OrderOK
  <2> QED BY <2>1 DEF MayHold, Stage, Op, InMgr, Wanting, Locks
<1>4. ASSUME NEW q \in Procs, q # p, NEW l \in Locks
      PROVE  (MayHold(q, l) => MayHold(q, l)') /\ (MayWait(q, l) => MayWait(q, l)')
  BY <1>4 DEF MayHold, MayWait, Wanted, Stage, Op
<1> QED BY <1>2, <1>3, <1>4 DEF OrderOK

\* p gives a lock back and goes to a stage that is right without it.
LEMMA OrderInRelease ==
  ASSUME Typed, OrderOK, NEW p \in Procs, Stage(p) \notin Wanting,
         NEW k \in Locks, lock' = [lock EXCEPT ![k] = Release(lock[k], p)],
         \A q \in Procs : q # p => call'[q] = call[q],
         \A l \in Locks : l # k /\ MayHold(p, l) => MayHold(p, l)'
  PROVE  OrderOK'
<1>0. lock \in [Locks -> Lock(Procs)]
  BY DEF Typed, TypeOK
<1>1. \A l \in Locks : ~Waits(lock[l], p)
  BY DEF OrderOK, MayWait
<1>2. ASSUME NEW q \in Procs, NEW l \in Locks
      PROVE  /\ ~(Holds(lock'[l], q) /\ Waits(lock'[l], q))
             /\ ~(q \in lock'[l].blocked /\ q = lock'[l].pending)
             /\ Waits(lock'[l], q) => Waits(lock[l], q)
             /\ Holds(lock'[l], q) => Holds(lock[l], q) \/ Waits(lock[l], q)
  <2>1. CASE l # k
    BY <1>0, <2>1 DEF OrderOK
  <2>2. CASE l = k
    <3>1. lock'[l] = Release(lock[l], p) /\ lock[l] \in Lock(Procs)
      BY <1>0, <2>2
    <3>2. ~(Holds(lock[l], q) /\ Waits(lock[l], q)) /\ ~(q \in lock[l].blocked /\ q = lock[l].pending)
      BY DEF OrderOK
    <3> QED BY <1>1, <3>1, <3>2, ReleaseChanges DEF Waits
  <2> QED BY <2>1, <2>2
<1>3. ASSUME NEW q \in Procs, q # p, NEW l \in Locks
      PROVE  (MayHold(q, l) => MayHold(q, l)') /\ (MayWait(q, l) => MayWait(q, l)')
  BY <1>3 DEF MayHold, MayWait, Wanted, Stage, Op
<1>4. ASSUME NEW q \in Procs, NEW l \in Locks, MayWait(q, l) PROVE MayHold(q, l)
  BY <1>4, ChatAssumption DEF MayWait, MayHold, Wanting, Wanted, Locks, Typed, StageOK, Stage
<1>5. ASSUME NEW l \in Locks, Holds(lock'[l], p) PROVE MayHold(p, l)'
  <2>1. l # k
    BY <1>0, <1>1, <1>5, ReleaseChanges
  <2> QED BY <1>0, <1>5, <2>1 DEF OrderOK
<1> QED BY <1>1, <1>2, <1>3, <1>4, <1>5 DEF OrderOK

THEOREM StepOrder == Typed /\ OrderOK /\ [Next]_vars => OrderOK'
<1> SUFFICES ASSUME Typed, OrderOK, [Next]_vars PROVE OrderOK'
  OBVIOUS
<1> USE ChatAssumption
<1>t. /\ lock \in [Locks -> Lock(Procs)] /\ call \in [Procs -> Calls]
      /\ \A p \in Procs : Stage(p) \in {"enter", "inside", "visit", "visited"} => call[p].obj \in Rooms
  BY DEF Typed, TypeOK, StageOK
<1>1. ASSUME NEW p \in Procs, NEW op \in Operations, NEW m \in Ids \cup {NoId}, Begun(p, op, m)
      PROVE  OrderOK'
  <2>1. lock' = lock /\ Stage(p) = "idle" /\ \A q \in Procs : q # p => call'[q] = call[q]
    BY <1>1, <1>t DEF Begun, Begin
  <2>2. \A l \in Locks : ~Holds(lock[l], p) /\ ~Waits(lock[l], p)
    BY <2>1 DEF OrderOK, MayHold, MayWait, InMgr, Wanting
  <2> QED BY <2>1, <2>2 DEF OrderOK, MayHold, MayWait, Wanted, Stage, Op
<1>2. ASSUME NEW p \in Procs, Ask(p) PROVE OrderOK'
  <2> DEFINE k == Wanted(p)
  <2>1. k \in Locks /\ Stage(p) \in Wanting /\ ~Asked(lock[k], p) /\ call' = call
    BY <1>2, <1>t DEF Ask, Wanted, Locks
  <2>2. /\ lock'[k] \in {AskToRead(lock[k], p), AskToWrite(lock[k], p)}
        /\ \A l \in Locks : l # k => lock'[l] = lock[l]
    BY <1>2, <1>t, <2>1 DEF Ask
  <2>3. MayWait(p, k) /\ MayHold(p, k)
    BY <1>t, <2>1 DEF MayWait, MayHold, Wanting, Wanted
  <2>4. ASSUME NEW q \in Procs, NEW l \in Locks
        PROVE  /\ MayHold(q, l)' <=> MayHold(q, l)
               /\ MayWait(q, l)' <=> MayWait(q, l)
    BY <2>1 DEF MayHold, MayWait, Wanted, Stage, Op
  <2> HIDE DEF k
  <2>5. ASSUME NEW q \in Procs
        PROVE  /\ Holds(lock'[k], q) => MayHold(q, k)
               /\ Waits(lock'[k], q) => MayWait(q, k)
               /\ ~(Holds(lock'[k], q) /\ Waits(lock'[k], q))
               /\ ~(q \in lock'[k].blocked /\ q = lock'[k].pending)
    <3>1. /\ Holds(lock'[k], q) => Holds(lock[k], q) \/ q = p
          /\ Waits(lock'[k], q) => Waits(lock[k], q) \/ q = p
          /\ q = p => ~(Holds(lock'[k], q) /\ Waits(lock'[k], q)) /\ ~(q \in lock'[k].blocked /\ q = lock'[k].pending)
          /\ q # p /\ q = lock'[k].pending => q = lock[k].pending
          /\ q # p /\ q \in lock'[k].blocked => q \in lock[k].blocked
      BY <1>t, <2>1, <2>2, AskChanges
    <3> QED BY <2>1, <2>3, <3>1 DEF OrderOK
  <2> QED BY <2>1, <2>2, <2>4, <2>5 DEF OrderOK
<1>3. ASSUME NEW p \in Procs, NEW r, Found(p, r), At(p, "find") \/ At(p, "open"), lock' = lock
      PROVE  OrderOK'
  <2>1. /\ \A q \in Procs : q # p => call'[q] = call[q]
        /\ call'[p].op = Op(p)
        /\ \/ call'[p].stage = "found"
           \/ call'[p].stage = "enter" /\ Op(p) \in Nested
    BY <1>3, <1>t DEF Found, Calls, Op
  <2> QED BY <1>3, <2>1, OrderInSection DEF At, Wanting
<1>4. ASSUME NEW p \in Procs, FindRoom(p) \/ DeliverFind(p) \/ CreateRoom(p) PROVE OrderOK'
  <2>1. lock' = lock /\ (At(p, "find") \/ At(p, "open"))
    BY <1>4 DEF FindRoom, DeliverFind, CreateRoom
  <2>2. PICK r \in {NoRoom, room, room'} : Found(p, r)
    BY <1>4 DEF FindRoom, DeliverFind, CreateRoom, OpenRoom, MakeRoom
  <2> QED BY <1>3, <2>1, <2>2
<1>5. ASSUME NEW p \in Procs, Count(p) PROVE OrderOK'
  <2>1. /\ \A q \in Procs : q # p => call'[q] = call[q]
        /\ call'[p].op = Op(p) /\ call'[p].stage = "counted"
    BY <1>5, <1>t DEF Count, Goto, Calls, Op
  <2> QED BY <1>5, <2>1, OrderInSection DEF Count, At, Wanting
<1>6. ASSUME NEW p \in Procs, Visit(p) PROVE OrderOK'
  <2>1. /\ \A q \in Procs : q # p => call'[q] = call[q]
        /\ call'[p].op = Op(p) /\ call'[p].stage = "visited" /\ call'[p].obj = call[p].obj
    BY <1>6, <1>t DEF Visit, Calls, Op
  <2> QED BY <1>6, <2>1, OrderInSection DEF Visit, At, Wanting
<1>7. ASSUME NEW p \in Procs, \/ PostMessage(p) \/ ReceiveMessage(p) \/ ImportMessage(p)
                              \/ JoinRoom(p) \/ GetOnlineUsers(p) \/ TouchRoom(p)
      PROVE  OrderOK'
  <2>1. lock' = lock /\ At(p, "enter")
    BY <1>7 DEF PostMessage, ReceiveMessage, ImportMessage, JoinRoom, GetOnlineUsers, TouchRoom
  <2>2. /\ \A q \in Procs : q # p => call'[q] = call[q]
        /\ call'[p].op = Op(p) /\ call'[p].stage \in {"inside", "visit"} /\ call'[p].obj = call[p].obj
    <3>1. CASE Goto(p, "inside")
      BY <1>t, <3>1 DEF Goto, Calls, Op
    <3>2. CASE GetOnlineUsers(p)
      BY <1>t, <3>2 DEF GetOnlineUsers, Calls, Op
    <3> QED BY <1>7, <3>1, <3>2 DEF PostMessage, ReceiveMessage, ImportMessage, JoinRoom, TouchRoom
  <2> QED BY <2>1, <2>2, OrderInSection DEF At, Wanting
<1>g. ASSUME NEW p \in Procs, NEW st, Goto(p, st)
      PROVE  /\ \A q \in Procs : q # p => call'[q] = call[q]
             /\ call'[p].op = Op(p) /\ call'[p].obj = call[p].obj /\ call'[p].stage = st
  BY <1>g, <1>t DEF Goto, Calls, Op
<1>i. ASSUME NEW p \in Procs, call' = [call EXCEPT ![p] = Idle]
      PROVE  call'[p] = Idle /\ \A q \in Procs : q # p => call'[q] = call[q]
  BY <1>i, <1>t
<1>8. ASSUME NEW p \in Procs, UnlockMgr(p) PROVE OrderOK'
  <2>1. /\ Stage(p) \notin Wanting /\ Stage(p) \in InMgr /\ Mgr \in Locks
        /\ lock' = [lock EXCEPT ![Mgr] = Release(lock[Mgr], p)]
    BY <1>8 DEF UnlockMgr, InMgr, Wanting, Locks
  <2>2. /\ \A q \in Procs : q # p => call'[q] = call[q]
        /\ Stage(p) = "visited" => call'[p].obj = call[p].obj /\ call'[p].stage \in {"inside", "visit"}
    <3>1. CASE Stage(p) # "visited" /\ \E st \in {"enter", "open"} : Goto(p, st)
      BY <1>g, <3>1
    <3>2. CASE Stage(p) = "visited" /\ \E st \in {"inside", "visit"} : Goto(p, st)
      BY <1>g, <3>2
    <3>3. CASE Stage(p) # "visited" /\ call' = [call EXCEPT ![p] = Idle]
      BY <1>i, <3>3
    <3> QED BY <1>8, <3>1, <3>2, <3>3 DEF UnlockMgr
  <2>3. \A l \in Locks : l # Mgr /\ MayHold(p, l) => MayHold(p, l)'
    BY <2>1, <2>2 DEF MayHold, InMgr, Stage
  <2> QED BY <2>1, <2>2, <2>3, OrderInRelease
<1>9. ASSUME NEW p \in Procs, UnlockRoom(p) PROVE OrderOK'
  <2> DEFINE k == call[p].obj
  <2>1. /\ Stage(p) = "inside" /\ Stage(p) \notin Wanting /\ k \in Rooms /\ k \in Locks
        /\ lock' = [lock EXCEPT ![k] = Release(lock[k], p)]
    BY <1>9, <1>t DEF UnlockRoom, Wanting, Locks
  <2>2. /\ \A q \in Procs : q # p => call'[q] = call[q]
        /\ Op(p) \in Nested => call'[p].stage = "left"
    <3>1. CASE Op(p) \in Nested
      <4>1. Goto(p, "left")
        BY <1>9, <3>1 DEF UnlockRoom, Nested
      <4> QED BY <1>g, <4>1
    <3>2. CASE Op(p) \notin Nested
      <4>1. Goto(p, "count") \/ call' = [call EXCEPT ![p] = Idle]
        BY <1>9, <3>2 DEF UnlockRoom
      <4> QED BY <1>g, <1>i, <3>2, <4>1
    <3> QED BY <3>1, <3>2
  <2>3. \A l \in Locks : l # k /\ MayHold(p, l) => MayHold(p, l)'
    BY <2>1, <2>2 DEF MayHold, InMgr, Stage
  <2> HIDE DEF k
  <2> QED BY <2>1, <2>2, <2>3, OrderInRelease
<1>10. CASE UNCHANGED vars
  BY <1>10 DEF vars, store, OrderOK, MayHold, MayWait, Wanted, Stage, Op
<1>0. ASSUME NEW p \in Procs, Begins(p) PROVE OrderOK'
  <2>1. known \subseteq Ids
    BY DEF Typed, TypeOK
  <2>2. PICK op \in Operations, m \in Ids \cup {NoId} : Begun(p, op, m)
    BY <1>0, <2>1, CallBegins
  <2> QED BY <1>1, <2>2
<1> QED BY <1>0, <1>2, <1>4, <1>5, <1>6, <1>7, <1>8, <1>9, <1>10
        DEF Next, Begins, Advance, InMgrSection, InRoomSection

\* Without a lister, nobody in a circle has a room; so nobody in it waits for
\* a room, and nobody waits for the manager's lock either.
LEMMA NoCircleWithoutLister ==
  ASSUME Typed, OrderOK, NEW S \in SUBSET Procs, Circle(S)
  PROVE  \E p \in S : Op(p) = "GetOnlineUsers"
<1> USE ChatAssumption
<1>1. SUFFICES ASSUME \A p \in S : Op(p) # "GetOnlineUsers" PROVE FALSE
  OBVIOUS
<1>2. ASSUME NEW p \in S
      PROVE  /\ Stage(p) \in Wanting /\ Wanted(p) \in Locks /\ ~Holds(lock[Wanted(p)], p)
             /\ \E q \in S : WaitsFor(p, q)
  BY <1>2 DEF Circle, WaitsFor, KeepsOut, Typed, StageOK, Wanted, Locks
<1>3. ASSUME NEW q \in S, NEW l \in Rooms PROVE ~Holds(lock[l], q)
  <2>1. SUFFICES ASSUME Holds(lock[l], q) PROVE FALSE
    OBVIOUS
  <2>2. l = call[q].obj /\ Stage(q) \in {"enter", "inside", "visit", "visited"}
    BY <2>1 DEF OrderOK, MayHold, Locks
  <2>3. Stage(q) = "enter"
    BY <1>1, <1>2, <2>2 DEF Wanting, Typed, StageOK
  <2> QED BY <1>2, <2>1, <2>2, <2>3 DEF Wanted
\* Somebody waits for l, which no one in the circle holds: the one announced
\* there waits for a holder.
<1>4. ASSUME NEW l \in Locks, \A q \in S : ~Holds(lock[l], q), NEW p \in S
      PROVE  Wanted(p) # l
  <2>1. SUFFICES ASSUME Wanted(p) = l PROVE FALSE
    OBVIOUS
  <2>2. PICK q \in S : WaitsFor(p, q)
    BY <1>2
  <2>3. q = lock[l].pending /\ q # p
    BY <1>4, <2>1, <2>2 DEF WaitsFor, KeepsOut, Holds
  <2>4. Wanted(q) = l
    BY <2>3 DEF OrderOK, Waits, MayWait
  <2>5. PICK t \in S : WaitsFor(q, t)
    BY <1>2
  <2>6. t = lock[l].pending /\ t # q
    BY <1>4, <2>4, <2>5 DEF WaitsFor, KeepsOut, Holds
  <2> QED BY <2>3, <2>6
<1>5. \A p \in S : Wanted(p) = Mgr
  BY <1>2, <1>3, <1>4 DEF Locks
<1>6. \A p \in S : ~Holds(lock[Mgr], p)
  BY <1>2, <1>5
<1>7. \A p \in S : Wanted(p) # Mgr
  BY <1>4, <1>6 DEF Locks
<1> QED BY <1>5, <1>7 DEF Circle

\* Among any number of goroutines, calls wait for each other for ever only if
\* one of them lists the users of a room.
THEOREM ListerInEveryCircle == Spec => []CircleHasLister
<1>1. Typed /\ OrderOK => CircleHasLister
  BY NoCircleWithoutLister DEF CircleHasLister
<1> QED BY InitTyped, StepTyped, InitOrder, StepOrder, <1>1, PTL DEF Spec
=============================================================================
