-------------------------------- MODULE Chat --------------------------------
(***************************************************************************)
(* The chat manager of a node (src/internal/chat/chat.go): one room that   *)
(* HTTP handlers, the handlers of datagrams, the command line and the sync *)
(* with the bootstrap work on at once, with the two locks they take, the   *)
(* manager's and the room's.                                               *)
(*                                                                         *)
(* A call is a goroutine that goes through the sections its function has   *)
(* between taking a lock and giving it back.  What a section does to the   *)
(* state it guards is one step, taken once its lock is held; asking for a  *)
(* lock and giving it back are steps of their own.  A call that looks at   *)
(* every room looks at this one.  Rooms and users are never removed.       *)
(*                                                                         *)
(* Only ids are kept of messages.  Calls that differ in what they touch    *)
(* and neither in their locks nor in the state below share a name: see     *)
(* Operations.                                                             *)
(***************************************************************************)
EXTENDS Integers, Sequences, FiniteSets, RWMutex

CONSTANTS
  Procs,       \* goroutines
  Mgr,         \* the lock of the manager
  Rooms,       \* room objects that may come into being
  NoRoom,
  Ids,         \* messages
  Own,         \* the messages that are sent here
  NoId,
  Sender,      \* who each message is from
  Local,       \* the local user
  Stamp,       \* when each message was written
  MaxMessages, \* MaxMessagesPerRoom
  Loaded,      \* what the room may hold when the program starts
  MaxCalls     \* bound on the number of calls

Users == {Sender[m] : m \in Ids} \cup {Local}

ASSUME ChatAssumption ==
  /\ NoOne \notin Procs /\ Rooms # {} /\ Mgr \notin Rooms /\ NoRoom \notin Rooms /\ NoId \notin Ids
  /\ Own \subseteq Ids
  /\ Stamp \in [Ids -> Nat]
  /\ MaxMessages \in Nat \ {0} /\ MaxCalls \in Nat

Listed(s) == {s[i] : i \in DOMAIN s}
Distinct(s) == \A i, j \in DOMAIN s : s[i] = s[j] => i = j

ASSUME LoadedAssumption ==
  \A s \in Loaded : /\ s \in Seq(Ids \ Own) /\ Distinct(s)
                    /\ Len(s) <= MaxMessages

(***************************************************************************)
(* The calls.                                                              *)
(*   EditMessage     also DeleteMessage                                    *)
(*   Save            also Stats                                            *)
(*   GetOnlineUsers  also GetTyping and GetTypingUsers                     *)
(*   AddReaction     also SetTyping and PinMessage                         *)
(*   GetMessages     also GetPinnedMessages                                *)
(*   UpdateProfile   also BlockUser                                        *)
(*   GetUsers        also GetUser, GetRoom, ListRooms and SearchUsers      *)
(* LeaveRoom, SetNick, ReceivePresence, GetTypingUsers and                 *)
(* CleanOldMessages have no caller.                                        *)
(***************************************************************************)
\* Hold the manager's lock while they work on the room.
Nested == {"ImportMessage", "EditMessage", "JoinRoom", "Save"}
\* Never look into a room.
MgrOnly == {"UpdateProfile", "GetUsers"}
Deliveries == {"ReceiveMessage", "ImportMessage"}
Operations == Nested \cup MgrOnly \cup Deliveries
              \cup {"SendMessage", "GetOnlineUsers", "AddReaction", "GetMessages"}

\* Which sections change what their lock guards, and so take it to write.
WritesMgr  == Deliveries \cup {"JoinRoom", "UpdateProfile"}
WritesRoom == Deliveries \cup {"SendMessage", "EditMessage", "JoinRoom", "AddReaction"}

\* Where a call is: about to take a lock, or in a section or done with it.
Wanting == {"find", "open", "enter", "count", "visit"}
InMgr   == {"found", "left", "counted", "visited"}
Stages  == Wanting \cup InMgr \cup {"inside", "idle"}

VARIABLES
  lock,      \* cm.mu and the mu of each room
  room,      \* the entry of cm.rooms
  messages,  \* Room.messages, of each object
  online,    \* keys of Room.onlineUsers
  member,    \* is the local user in Room.Members?
  users,     \* keys of cm.users
  call,      \* the call each goroutine makes
  sent,      \* messages of our own that SendMessage has made
  known,     \* messages other nodes may deliver
  kept,      \* history: messages put into the room and not trimmed since
  calls      \* number of calls, for the bound

store == <<room, messages, online, member, users>>
vars == <<lock, store, call, sent, known, kept, calls>>

Locks == {Mgr} \cup Rooms
Calls == [op : Operations, id : Ids \cup {NoId}, stage : Stages,
          obj : Rooms \cup {NoRoom}, todo : SUBSET Users]
Idle == [op |-> "GetUsers", id |-> NoId, stage |-> "idle", obj |-> NoRoom, todo |-> {}]
Op(p) == call[p].op
Stage(p) == call[p].stage

\* NewChatManager and loadData: a default room or one from the file, joined
\* or not, or none yet of a name that is not among those.
Init ==
  /\ lock = [l \in Locks |-> Unlocked]
  /\ \/ room = NoRoom /\ messages = [r \in Rooms |-> <<>>] /\ kept = {}
     \/ \E s \in Loaded : /\ room = CHOOSE r \in Rooms : TRUE
                          /\ messages = [r \in Rooms |-> IF r = room THEN s ELSE <<>>]
                          /\ kept = Listed(s)
  /\ online = [r \in Rooms |-> {}]
  /\ \/ member = [r \in Rooms |-> r = room]
     \/ member = [r \in Rooms |-> FALSE]
  /\ users = {Local}
  /\ call = [p \in Procs |-> Idle]
  /\ sent = {} /\ known = Ids \ Own
  /\ calls = 0
-----------------------------------------------------------------------------
(* Calls begin and ask for their locks. *)

Begin(p, op, m) ==
  /\ Stage(p) = "idle" /\ calls < MaxCalls
  /\ call' = [call EXCEPT ![p] = [Idle EXCEPT !.op = op, !.id = m, !.stage = "find"]]
  /\ calls' = calls + 1
  /\ UNCHANGED <<lock, store, known, kept>>

\* The chat page posts.  generateMsgID gives every message an id of its own; other
\* nodes have it when the call has returned and broadcastGossip has been called.
PostChat(p) ==
  \E m \in Own \ sent : Begin(p, "SendMessage", m) /\ sent' = sent \cup {m}

\* A datagram with a message, which may be one of our own that comes back.
handleChat(p) ==
  \E m \in known : Begin(p, "ReceiveMessage", m) /\ UNCHANGED sent

\* The bootstrap's page for the room shows any of the messages, our own among them.
syncChatRoom(p) ==
  \E m \in known : Begin(p, "ImportMessage", m) /\ UNCHANGED sent

\* What pages, the command line and the ticker that saves ask for.
Requests == Operations \ (Deliveries \cup {"SendMessage"})

Request(p) ==
  \E op \in Requests : Begin(p, op, NoId) /\ UNCHANGED sent

\* The lock that p is about to take.
Wanted(p) == IF Stage(p) = "enter" THEN call[p].obj ELSE Mgr

ToWrite(p) == \/ Stage(p) = "find" /\ Op(p) \in WritesMgr
              \/ Stage(p) \in {"open", "count"}
              \/ Stage(p) = "enter" /\ Op(p) \in WritesRoom

Ask(p) ==
  /\ Stage(p) \in Wanting /\ ~Asked(lock[Wanted(p)], p)
  /\ LET l == lock[Wanted(p)]
     IN /\ ToWrite(p) => Calm(l)
        /\ lock' = [lock EXCEPT ![Wanted(p)] =
                      IF ToWrite(p) THEN AskToWrite(l, p) ELSE AskToRead(l, p)]
  /\ UNCHANGED <<store, call, sent, known, kept, calls>>

\* p has the lock it asked for at this stage.
At(p, stage) == Stage(p) = stage /\ Holds(lock[Wanted(p)], p)

Goto(p, stage) == call' = [call EXCEPT ![p].stage = stage]
-----------------------------------------------------------------------------
(* Sections under the manager's lock. *)

\* After the lookup a nested call goes on to the room without letting go.
Found(p, r) ==
  call' = [call EXCEPT ![p].obj = r,
             ![p].stage = IF Op(p) \in Nested /\ r # NoRoom THEN "enter" ELSE "found"]

\* The calls that only look for the room.
FindRoom(p) ==
  /\ At(p, "find") /\ Op(p) \notin Deliveries
  /\ Found(p, IF Op(p) \in MgrOnly THEN NoRoom ELSE room)
  /\ UNCHANGED <<lock, store, sent, known, kept, calls>>

\* Objects nothing refers to yet.
Fresh == {r \in Rooms : messages[r] = <<>> /\ \A q \in Procs : call[q].obj # r}

\* A new room under its name, with the local user in it or not.
MakeRoom(p, asMember) ==
  LET r == CHOOSE r \in Fresh : TRUE
  IN /\ Fresh # {}
     /\ room' = r /\ member' = [member EXCEPT ![r] = asMember]
     /\ Found(p, r)

\* The room, made if there is none.
OpenRoom(p, asMember) ==
  IF room = NoRoom THEN MakeRoom(p, asMember)
                   ELSE UNCHANGED <<room, member>> /\ Found(p, room)

\* Variant: the sender is not registered.
DeliverFindOnly(p) ==
  /\ At(p, "find") /\ Op(p) \in Deliveries
  /\ OpenRoom(p, FALSE)
  /\ UNCHANGED <<lock, messages, online, users, sent, known, kept, calls>>

\* ReceiveMessage registers its sender here, ImportMessage does not.
DeliverFind(p) ==
  /\ At(p, "find") /\ Op(p) \in Deliveries
  /\ OpenRoom(p, FALSE)
  /\ users' = IF Op(p) = "ReceiveMessage" THEN users \cup {Sender[call[p].id]} ELSE users
  /\ UNCHANGED <<lock, messages, online, sent, known, kept, calls>>

\* Variant: does not look again.
CreateRoomBlind(p) ==
  /\ At(p, "open")
  /\ MakeRoom(p, TRUE)
  /\ UNCHANGED <<lock, messages, online, users, sent, known, kept, calls>>

\* CreateRoom, called by SendMessage, which found none: it looks again.
CreateRoom(p) ==
  /\ At(p, "open")
  /\ OpenRoom(p, TRUE)
  /\ UNCHANGED <<lock, messages, online, users, sent, known, kept, calls>>

\* The counters of the local user.
Count(p) ==
  /\ At(p, "count") /\ Goto(p, "counted")
  /\ UNCHANGED <<lock, store, sent, known, kept, calls>>

\* GetOnlineUsers and GetTyping look up one user.
Visit(p) ==
  /\ At(p, "visit")
  /\ \E u \in call[p].todo :
       call' = [call EXCEPT ![p].todo = @ \ {u}, ![p].stage = "visited"]
  /\ UNCHANGED <<lock, store, sent, known, kept, calls>>

UnlockMgr(p) ==
  /\ Stage(p) \in InMgr
  /\ lock' = [lock EXCEPT ![Mgr] = Release(lock[Mgr], p)]
  /\ CASE Stage(p) = "found" /\ call[p].obj # NoRoom -> Goto(p, "enter")
       [] Stage(p) = "found" /\ Op(p) = "SendMessage" -> Goto(p, "open")
       [] Stage(p) = "visited" ->
            Goto(p, IF call[p].todo = {} THEN "inside" ELSE "visit")
       [] OTHER -> call' = [call EXCEPT ![p] = Idle]
  /\ known' = IF Stage(p) = "counted" THEN known \cup {call[p].id} ELSE known
  /\ UNCHANGED <<store, sent, kept, calls>>
-----------------------------------------------------------------------------
(* Sections under the lock of the room. *)

Here(p) == messages[call[p].obj]

\* SendMessage and ReceiveMessage drop the first one ...
DropFirst(s) == IF Len(s) > MaxMessages THEN Tail(s) ELSE s
\* ... ImportMessage all before the last MaxMessages.
KeepLast(s) ==
  IF Len(s) > MaxMessages THEN SubSeq(s, Len(s) - MaxMessages + 1, Len(s)) ELSE s

\* The orders sort.Slice may put s in: it need not be stable.
ByTime(s) ==
  {[i \in DOMAIN s |-> s[f[i]]] :
     f \in {g \in [DOMAIN s -> DOMAIN s] :
              /\ Distinct(g)
              /\ \A i, j \in DOMAIN s : i < j => Stamp[s[g[i]]] <= Stamp[s[g[j]]]}}

\* The room's list with the call's message.
Longer(p) == Append(Here(p), call[p].id)

\* The room's list becomes s: the message is added, what s lacks is trimmed.
Stores(p, s) ==
  /\ messages' = [messages EXCEPT ![call[p].obj] = s]
  /\ kept' = (kept \cup {call[p].id}) \ (Listed(Longer(p)) \ Listed(s))

Appears(p, u) == online' = [online EXCEPT ![call[p].obj] = @ \cup {u}]

\* The daemon makes no private rooms, so anybody may post.
PostMessage(p) ==
  /\ At(p, "enter") /\ Op(p) = "SendMessage"
  /\ Stores(p, DropFirst(Longer(p)))
  /\ Appears(p, Local) /\ Goto(p, "inside")
  /\ UNCHANGED <<lock, room, member, users, sent, known, calls>>

\* Variant: returns early with the lock.
ReceiveMessageLocked(p) ==
  /\ At(p, "enter") /\ Op(p) = "ReceiveMessage"
  /\ IF call[p].id \in Listed(Here(p))
     THEN call' = [call EXCEPT ![p] = Idle] /\ UNCHANGED <<messages, kept, online>>
     ELSE /\ Stores(p, DropFirst(Longer(p)))
          /\ Appears(p, Sender[call[p].id]) /\ Goto(p, "inside")
  /\ UNCHANGED <<lock, room, member, users, sent, known, calls>>

\* A message that is there already is left alone.
ReceiveMessage(p) ==
  /\ At(p, "enter") /\ Op(p) = "ReceiveMessage" /\ Goto(p, "inside")
  /\ IF call[p].id \in Listed(Here(p))
     THEN UNCHANGED <<messages, kept, online>>
     ELSE /\ Stores(p, DropFirst(Longer(p)))
          /\ Appears(p, Sender[call[p].id])
  /\ UNCHANGED <<lock, room, member, users, sent, known, calls>>

\* Variant: relies on the bootstrap for new messages only.
ImportMessageAll(p) ==
  /\ At(p, "enter") /\ Op(p) = "ImportMessage" /\ Goto(p, "inside")
  /\ \E t \in ByTime(Longer(p)) : Stores(p, KeepLast(t))
  /\ UNCHANGED <<lock, room, online, member, users, sent, known, calls>>

ImportMessage(p) ==
  /\ At(p, "enter") /\ Op(p) = "ImportMessage" /\ Goto(p, "inside")
  /\ IF call[p].id \in Listed(Here(p))
     THEN UNCHANGED <<messages, kept>>
     ELSE \E t \in ByTime(Longer(p)) : Stores(p, KeepLast(t))
  /\ UNCHANGED <<lock, room, online, member, users, sent, known, calls>>

JoinRoom(p) ==
  /\ At(p, "enter") /\ Op(p) = "JoinRoom" /\ Goto(p, "inside")
  /\ IF member[call[p].obj]
     THEN UNCHANGED <<member, online>>
     ELSE /\ member' = [member EXCEPT ![call[p].obj] = TRUE]
          /\ Appears(p, Local)
  /\ UNCHANGED <<lock, room, messages, users, sent, known, kept, calls>>

\* Goes through the users it takes for online: any of them may have been
\* silent for longer than UserPresenceTTL.
GetOnlineUsers(p) ==
  /\ At(p, "enter") /\ Op(p) = "GetOnlineUsers"
  /\ \E seen \in SUBSET online[call[p].obj] :
       call' = [call EXCEPT ![p].todo = seen,
                  ![p].stage = IF seen = {} THEN "inside" ELSE "visit"]
  /\ UNCHANGED <<lock, store, sent, known, kept, calls>>

\* The calls that change nothing the model keeps.
TouchRoom(p) ==
  /\ At(p, "enter") /\ Op(p) \in {"EditMessage", "Save", "AddReaction", "GetMessages"}
  /\ Goto(p, "inside")
  /\ UNCHANGED <<lock, store, sent, known, kept, calls>>

\* Variant: SendMessage counts the message before it lets go of the room.
UnlockRoomLate(p) ==
  /\ Stage(p) = "inside"
  /\ lock' = IF Op(p) = "SendMessage" THEN lock
              ELSE [lock EXCEPT ![call[p].obj] = Release(lock[call[p].obj], p)]
  /\ CASE Op(p) \in Nested        -> Goto(p, "left")
       [] Op(p) = "SendMessage"   -> Goto(p, "count")
       [] OTHER                   -> call' = [call EXCEPT ![p] = Idle]
  /\ UNCHANGED <<store, sent, known, kept, calls>>

UnlockRoom(p) ==
  /\ Stage(p) = "inside"
  /\ lock' = [lock EXCEPT ![call[p].obj] = Release(lock[call[p].obj], p)]
  /\ CASE Op(p) \in Nested        -> Goto(p, "left")
       [] Op(p) = "SendMessage"   -> Goto(p, "count")
       [] OTHER                   -> call' = [call EXCEPT ![p] = Idle]
  /\ UNCHANGED <<store, sent, known, kept, calls>>
-----------------------------------------------------------------------------
InMgrSection(p)  == \/ FindRoom(p) \/ DeliverFind(p) \/ CreateRoom(p)
                    \/ Count(p) \/ Visit(p) \/ UnlockMgr(p)
InRoomSection(p) == \/ PostMessage(p) \/ ReceiveMessage(p) \/ ImportMessage(p)
                    \/ JoinRoom(p) \/ GetOnlineUsers(p) \/ TouchRoom(p) \/ UnlockRoom(p)
Advance(p) == Ask(p) \/ InMgrSection(p) \/ InRoomSection(p)

Next == \E p \in Procs :
          \/ PostChat(p) \/ handleChat(p) \/ syncChatRoom(p) \/ Request(p)
          \/ Advance(p)

Spec == Init /\ [][Next]_vars

\* A goroutine that can run does, and a call that has begun goes on.
FairSpec == Spec /\ \A p \in Procs : WF_vars(Advance(p))
-----------------------------------------------------------------------------
(* Types *)

\* Every variable has the values the program gives it; no list is longer than
\* its limit.
TypeOK ==
  /\ lock \in [Locks -> Lock(Procs)]
  /\ room \in Rooms \cup {NoRoom}
  /\ messages \in [Rooms -> Seq(Ids)]
  /\ \A r \in Rooms : Len(messages[r]) <= MaxMessages
  /\ online \in [Rooms -> SUBSET Users] /\ member \in [Rooms -> BOOLEAN]
  /\ users \subseteq Users
  /\ call \in [Procs -> Calls]
  /\ sent \subseteq Own /\ known \subseteq Ids /\ kept \subseteq Ids
  /\ calls \in 0..MaxCalls

(* What the calls promise *)

\* However gossip, the sync with the bootstrap and our own messages meet, a
\* room never lists a message twice (the tests in ReceiveMessage and
\* ImportMessage are made where the message is stored).
NoDuplicates == \A r \in Rooms : Distinct(messages[r])

\* A message that was stored and has not been trimmed since is in the room
\* that readers find: no call works on a room that another has replaced
\* (CreateRoom looks again after the lookup of SendMessage).
NothingLost == kept \subseteq (IF room = NoRoom THEN {} ELSE Listed(messages[room]))

\* Everybody who appears in a room is a known user, so GetOnlineUsers finds
\* them: ReceiveMessage registers its sender under the one lock before it
\* shows them under the other.
OnlineAreKnown == \A r \in Rooms : online[r] \subseteq users
-----------------------------------------------------------------------------
(* Waiting *)

WaitsFor(p, q) == Stage(p) \in Wanting /\ KeepsOut(lock[Wanted(p)], q, p)

\* Calls none of which goes on before another of them does.
Circle(S) == S # {} /\ \A p \in S : \E q \in S : WaitsFor(p, q)

\* Calls that wait for each other for ever always include a GetOnlineUsers
\* (or a GetTyping), the one kind that asks for the manager's lock inside a
\* room: without it the order of the locks rules circles out.
CircleHasLister ==
  \A S \in SUBSET Procs :
    Circle(S) => \E p \in S : Op(p) = "GetOnlineUsers"

\* As long as nobody asks who is online, every call returns: no early return
\* keeps a lock, and no lock is given back to nobody.
CallsReturn ==
  [](\A p \in Procs : Op(p) # "GetOnlineUsers")
    => \A p \in Procs : (Stage(p) # "idle") ~> (Stage(p) = "idle")
=============================================================================
