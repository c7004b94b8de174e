------------------------ MODULE DirectMessagesProofs ------------------------
(***************************************************************************)
(* Theorems about DirectMessages, for any peers, messages, goroutines and  *)
(* limits, any number of calls and saves, and restarts at any moment: a    *)
(* conversation lists a message once and none of another peer, and no call *)
(* takes a list below its counter.                                         *)
(***************************************************************************)
EXTENDS DirectMessages, SequenceTheorems, TLAPS

-----------------------------------------------------------------------------
(* Lists of messages. *)

\* One more message (the append of SendDM and receiveDM).
LEMMA Appending ==
  ASSUME NEW s \in Seq(Ids), NEW m \in Ids
  PROVE  /\ Append(s, m) \in Seq(Ids) /\ Len(Append(s, m)) = Len(s) + 1
         /\ Listed(Append(s, m)) \subseteq Listed(s) \cup {m}
         /\ Distinct(s) /\ m \notin Listed(s) => Distinct(Append(s, m))
<1>1. Append(s, m) \in Seq(Ids) /\ Len(Append(s, m)) = Len(s) + 1
  OBVIOUS
<1>2. DOMAIN s = 1..Len(s) /\ DOMAIN Append(s, m) = 1..(Len(s) + 1)
  BY <1>1
<1>3. /\ \A i \in 1..Len(s) : Append(s, m)[i] = s[i]
      /\ Append(s, m)[Len(s) + 1] = m
  OBVIOUS
<1>4. \A i \in 1..(Len(s) + 1) : i \in 1..Len(s) \/ i = Len(s) + 1
  OBVIOUS
<1>5. Listed(Append(s, m)) \subseteq Listed(s) \cup {m}
  BY <1>2, <1>3, <1>4 DEF Listed
<1>6. ASSUME Distinct(s), m \notin Listed(s) PROVE Distinct(Append(s, m))
  <2> SUFFICES ASSUME NEW i \in 1..(Len(s) + 1), NEW j \in 1..(Len(s) + 1),
                      Append(s, m)[i] = Append(s, m)[j]
               PROVE  i = j
    BY <1>2 DEF Distinct
  <2>1. CASE i \in 1..Len(s) /\ j \in 1..Len(s)
    BY <1>2, <1>3, <1>6, <2>1 DEF Distinct
  <2>2. CASE i = Len(s) + 1 /\ j \in 1..Len(s)
    BY <1>2, <1>3, <1>6, <2>2 DEF Listed
  <2>3. CASE i \in 1..Len(s) /\ j = Len(s) + 1
    BY <1>2, <1>3, <1>6, <2>3 DEF Listed
  <2> QED BY <1>4, <2>1, <2>2, <2>3
<1> QED BY <1>1, <1>5, <1>6

\* The oldest message goes (SendDM at its limit).
LEMMA Trimming ==
  ASSUME NEW s \in Seq(Ids), s # <<>>
  PROVE  /\ Tail(s) \in Seq(Ids) /\ Len(Tail(s)) = Len(s) - 1
         /\ Listed(Tail(s)) \subseteq Listed(s)
         /\ Distinct(s) => Distinct(Tail(s))
<1>1. /\ Tail(s) \in Seq(Ids) /\ Len(Tail(s)) = Len(s) - 1
      /\ Len(s) \in Nat \ {0}
      /\ \A i \in 1..(Len(s) - 1) : Tail(s)[i] = s[i + 1]
  BY HeadTailProperties, EmptySeq
<1>2. DOMAIN s = 1..Len(s) /\ DOMAIN Tail(s) = 1..(Len(s) - 1)
  BY <1>1
<1>3. \A i \in 1..(Len(s) - 1) : i + 1 \in 1..Len(s)
  BY <1>1
<1>4. Listed(Tail(s)) \subseteq Listed(s)
  BY <1>1, <1>2, <1>3 DEF Listed
<1>5. ASSUME Distinct(s) PROVE Distinct(Tail(s))
  <2> SUFFICES ASSUME NEW i \in 1..(Len(s) - 1), NEW j \in 1..(Len(s) - 1),
                      Tail(s)[i] = Tail(s)[j]
               PROVE  i = j
    BY <1>2 DEF Distinct
  <2>1. i + 1 = j + 1
    BY <1>1, <1>2, <1>3, <1>5 DEF Distinct
  <2> QED BY <2>1
<1> QED BY <1>1, <1>4, <1>5

LEMMA EmptyList ==
  /\ <<>> \in Seq(Ids) /\ Len(<<>>) = 0 /\ Listed(<<>>) = {} /\ Distinct(<<>>)
  BY DEF Listed, Distinct

-----------------------------------------------------------------------------
(* The invariant.                                                          *)

Row == [found : BOOLEAN, msgs : Seq(Ids), unread : Nat]

\* Types of the save and of the file; what is still to be encoded is there.
SaveTypes ==
  /\ save \in [stage : {"none", "begun", "encoding"},
               objs : [Peers -> Objs \cup {NoObj}],
               todo : SUBSET (Peers \X {"messages", "unread"}),
               rows : [Peers -> Row]]
  /\ \A part \in save.todo : save.objs[part[1]] # NoObj
  /\ file \in [Peers -> Row]
  /\ bounds \in [calls : Nat, saves : Nat, crashes : Nat]

Posts == {"SendDM", "receiveDM"}

\* A call under the lock of a conversation has one, and a message goes to or
\* comes from the peer it is exchanged with.
CallsMade ==
  \A p \in Procs :
    /\ call[p].stage = "conv" => call[p].obj # NoObj
    /\ call[p].op \in Posts =>
         /\ call[p].id \in Ids /\ With[call[p].id] = call[p].peer
         /\ call[p].op = "SendDM" <=> call[p].id \in Own
         /\ call[p].id \in Own => call[p].id \in sent

\* Who still has object o in hands for peer u: the map, the save or a call.
Uses(o, u) == \/ conversations[u] = o \/ save.objs[u] = o
              \/ \E p \in Procs : call[p].obj = o /\ call[p].peer = u

\* An object serves one peer for as long as anybody refers to it.
Apart == \A o \in Objs, u, v \in Peers : Uses(o, u) /\ Uses(o, v) => u = v

OwnSent(s) == Listed(s) \cap Own \subseteq sent
Belongs(s, u) == \A m \in Listed(s) : With[m] = u

ListsGood ==
  \A o \in Objs :
    /\ Distinct(msgs[o]) /\ OwnSent(msgs[o])
    /\ \A u \in Peers : Uses(o, u) => Belongs(msgs[o], u)

GoodRow(r, u) == Distinct(r.msgs) /\ OwnSent(r.msgs) /\ Belongs(r.msgs, u)

RowsGood == \A u \in Peers : GoodRow(save.rows[u], u) /\ GoodRow(file[u], u)

\* A message that SendDM has yet to store is in no list, and is stored by one.
Pending ==
  \A p \in Procs :
    call[p].op = "SendDM" =>
      /\ \A o \in Objs : call[p].id \notin Listed(msgs[o])
      /\ \A q \in Procs : q # p /\ call[q].op = "SendDM" => call[q].id # call[p].id

(* DMsOnce alone is not inductive: a list stays without copies because a   *)
(* message of our own is stored once and by one call (Pending), stays one  *)
(* peer's because an object that left the map is not given to another      *)
(* while a call holds it (Apart), and what a restart reads was good when   *)
(* it was encoded (RowsGood).                                              *)
DirectInv ==
  TypeOK /\ SaveTypes /\ CallsMade /\ Apart /\ ListsGood /\ RowsGood /\ Pending

LEMMA IdleType == Idle \in Calls /\ Idle.op = "Look" /\ Idle.obj = NoObj /\ Idle.stage = "idle"
  BY DirectMessagesAssumption DEF Idle, Calls, Operations, Stages, Makers, Pages

LEMMA NoSaveType ==
  /\ NoSave \in [stage : {"none", "begun", "encoding"},
                 objs : [Peers -> Objs \cup {NoObj}],
                 todo : SUBSET (Peers \X {"messages", "unread"}),
                 rows : [Peers -> Row]]
  /\ Absent \in Row /\ NoSave.todo = {}
  /\ NoSave.objs = [u \in Peers |-> NoObj]
  /\ NoSave.rows = [u \in Peers |-> Absent]
  BY EmptyList DEF NoSave, Absent, Row

LEMMA AbsentGood == \A u \in Peers : GoodRow(Absent, u)
  BY EmptyList DEF GoodRow, Absent, OwnSent, Belongs

LEMMA InitDirect == Init => DirectInv
<1> SUFFICES ASSUME Init PROVE DirectInv
  OBVIOUS
<1> USE DirectMessagesAssumption DEF Init
<1>1. TypeOK
  BY IdleType, NoSaveType, EmptyList DEF TypeOK
<1>2. SaveTypes
  BY NoSaveType DEF SaveTypes
<1>3. \A p \in Procs : call[p] = Idle
  OBVIOUS
<1>4. CallsMade /\ Pending
  BY <1>3, IdleType DEF CallsMade, Pending, Posts
<1>5. \A o \in Objs, u \in Peers : ~Uses(o, u)
  BY <1>3, IdleType, NoSaveType DEF Uses
<1>6. Apart /\ ListsGood
  BY <1>5, EmptyList DEF Apart, ListsGood, OwnSent
<1>7. RowsGood
  BY NoSaveType, AbsentGood DEF RowsGood
<1> QED BY <1>1, <1>2, <1>4, <1>6, <1>7 DEF DirectInv

-----------------------------------------------------------------------------
(* Calls that end or go on without a new object. *)

Yields(p) == \/ call' = [call EXCEPT ![p] = Idle]
             \/ call' = [call EXCEPT ![p].stage = "find"]

\* Objects are referred to as before, or by fewer.
LEMMA YieldStep ==
  ASSUME DirectInv, NEW p \in Procs, Yields(p), UNCHANGED <<sent, save, file>>,
         conversations' \in [Peers -> Objs \cup {NoObj}],
         \A u \in Peers : conversations'[u] \in {conversations[u], NoObj}
  PROVE  /\ call' \in [Procs -> Calls] /\ CallsMade' /\ Apart' /\ RowsGood'
         /\ \A o \in Objs, u \in Peers : Uses(o, u)' => Uses(o, u)
         /\ \A q \in Procs : call'[q].op = "SendDM" =>
              call[q].op = "SendDM" /\ call'[q].id = call[q].id
<1>1. call \in [Procs -> Calls] /\ CallsMade /\ Apart /\ RowsGood
  BY DEF DirectInv, TypeOK
<1>2. \A q \in Procs : q # p => call'[q] = call[q]
  BY <1>1 DEF Yields
<1>3. \/ call'[p] = Idle
      \/ call'[p] = [call[p] EXCEPT !.stage = "find"]
  BY <1>1 DEF Yields
<1>4. call[p] \in Calls
  BY <1>1
<1>5. /\ call'[p] \in Calls /\ call'[p].stage # "conv"
      /\ call'[p].op \in Posts => /\ call'[p].op = call[p].op
                                  /\ call'[p].id = call[p].id
                                  /\ call'[p].peer = call[p].peer
      /\ call'[p].obj # NoObj => /\ call'[p].obj = call[p].obj
                                 /\ call'[p].peer = call[p].peer
  BY <1>3, <1>4, IdleType DEF Calls, Stages, Posts
<1>6. call' \in [Procs -> Calls]
  BY <1>1, <1>5 DEF Yields
<1>7. CallsMade'
  BY <1>1, <1>2, <1>5 DEF CallsMade
<1>8. \A o \in Objs, u \in Peers : Uses(o, u)' => Uses(o, u)
  BY <1>2, <1>5, DirectMessagesAssumption DEF Uses
<1>9. Apart'
  BY <1>1, <1>8 DEF Apart
<1>10. RowsGood'
  BY <1>1 DEF RowsGood, GoodRow, OwnSent, Belongs
<1> QED BY <1>2, <1>5, <1>6, <1>7, <1>8, <1>9, <1>10 DEF Posts

\* ... and no list changes,
LEMMA QuietStep ==
  ASSUME DirectInv, NEW p \in Procs, Yields(p), UNCHANGED <<sent, save, file, msgs>>,
         conversations' \in [Peers -> Objs \cup {NoObj}],
         \A u \in Peers : conversations'[u] \in {conversations[u], NoObj}
  PROVE  ListsGood' /\ Pending'
<1>1. /\ \A o \in Objs, u \in Peers : Uses(o, u)' => Uses(o, u)
      /\ \A q \in Procs : call'[q].op = "SendDM" =>
           call[q].op = "SendDM" /\ call'[q].id = call[q].id
  BY YieldStep
<1>2. ListsGood /\ Pending
  BY DEF DirectInv
<1>3. ListsGood'
  BY <1>1, <1>2 DEF ListsGood, OwnSent, Belongs
<1>4. Pending'
  BY <1>1, <1>2 DEF Pending
<1> QED BY <1>3, <1>4

\* ... or that of the call, by no more than the call's message.
LEMMA EditStep ==
  ASSUME DirectInv, NEW p \in Procs, call[p].stage = "conv", Return(p),
         UNCHANGED <<conversations, sent, save, file>>,
         NEW s \in Seq(Ids), Distinct(s), msgs' = [msgs EXCEPT ![call[p].obj] = s],
         \/ Listed(s) \subseteq Listed(Here(p))
         \/ /\ call[p].op \in Posts
            /\ Listed(s) \subseteq Listed(Here(p)) \cup {call[p].id}
  PROVE  ListsGood' /\ Pending'
<1> DEFINE o == call[p].obj
           u == call[p].peer
<1>0. TypeOK /\ CallsMade /\ Apart /\ ListsGood /\ Pending
  BY DEF DirectInv
<1>1. Yields(p)
  BY DEF Return, Yields
<1>2. /\ \A k \in Objs, v \in Peers : Uses(k, v)' => Uses(k, v)
      /\ \A q \in Procs : call'[q].op = "SendDM" =>
           call[q].op = "SendDM" /\ call'[q].id = call[q].id
  BY <1>0, <1>1, YieldStep DEF TypeOK
<1>3. call[p] \in Calls /\ o \in Objs /\ u \in Peers /\ Uses(o, u)
  BY <1>0 DEF TypeOK, CallsMade, Calls, Uses
<1>4. /\ msgs \in [Objs -> Seq(Ids)] /\ msgs'[o] = s
      /\ \A k \in Objs : k # o => msgs'[k] = msgs[k]
  BY <1>0, <1>3 DEF TypeOK
<1>5. OwnSent(msgs[o]) /\ Belongs(msgs[o], u) /\ Here(p) = msgs[o]
  BY <1>0, <1>3 DEF ListsGood, Here
<1>6. Listed(s) \cap Own \subseteq sent /\ \A m \in Listed(s) : With[m] = u
  BY <1>0, <1>5 DEF CallsMade, OwnSent, Belongs
<1>7. ListsGood'
  <2> SUFFICES ASSUME NEW k \in Objs
               PROVE  /\ Distinct(msgs'[k]) /\ Listed(msgs'[k]) \cap Own \subseteq sent
                      /\ \A v \in Peers : Uses(k, v)' =>
                           \A m \in Listed(msgs'[k]) : With[m] = v
    BY DEF ListsGood, OwnSent, Belongs
  <2>1. CASE k = o
    <3>1. \A v \in Peers : Uses(k, v)' => v = u
      BY <1>0, <1>2, <1>3, <2>1 DEF Apart
    <3> QED BY <1>4, <1>6, <2>1, <3>1
  <2>2. CASE k # o
    BY <1>0, <1>2, <1>4, <2>2 DEF ListsGood, OwnSent, Belongs
  <2> QED BY <2>1, <2>2
<1>8. Pending'
  <2> SUFFICES ASSUME NEW q \in Procs, call'[q].op = "SendDM"
               PROVE  /\ \A k \in Objs : call'[q].id \notin Listed(msgs'[k])
                      /\ \A r \in Procs : r # q /\ call'[r].op = "SendDM"
                                            => call'[r].id # call'[q].id
    BY DEF Pending
  <2>1. call[q].op = "SendDM" /\ call'[q].id = call[q].id
    BY <1>2
  <2>2. q # p
    BY <1>0, IdleType DEF Return, TypeOK
  <2>3. call[q].id \in Own
    BY <1>0, <2>1 DEF CallsMade, Posts
  <2>4. call[p].op \in Posts => call[p].id # call[q].id
    BY <1>0, <2>1, <2>2, <2>3 DEF CallsMade, Pending, Posts
  <2>5. call[q].id \notin Listed(s)
    BY <1>0, <1>3, <1>5, <2>1, <2>4 DEF Pending
  <2>6. \A k \in Objs : call[q].id \notin Listed(msgs'[k])
    BY <1>0, <1>4, <2>1, <2>5 DEF Pending
  <2> QED BY <1>0, <1>2, <2>1, <2>6 DEF Pending
<1> QED BY <1>7, <1>8

-----------------------------------------------------------------------------
(* One step of each kind.                                                  *)

\* No call takes a list below its counter, for one step.
StaysFit == \A o \in Objs : Fits(o) => Fits(o)'

\* A call begins: it has no object yet, and a message of ours is a new one.
LEMMA BeginStep ==
  ASSUME DirectInv, NEW p \in Procs, NEW op \in Operations, NEW u \in Peers,
         NEW m \in Ids \cup {NoId}, Begin(p, op, u, m)
  PROVE  DirectInv' /\ StaysFit
<1> DEFINE c == [op |-> op, peer |-> u, id |-> m, obj |-> NoObj,
                 stage |-> IF op \in {"SendDM", "receiveDM"} THEN "start" ELSE "find"]
<1>0. TypeOK /\ SaveTypes /\ CallsMade /\ Apart /\ ListsGood /\ RowsGood /\ Pending
  BY DEF DirectInv
<1>1. /\ call' = [call EXCEPT ![p] = c]
      /\ UNCHANGED <<conversations, msgs, unread, users, blocked, held, save, file>>
      /\ bounds' = [bounds EXCEPT !.calls = @ + 1]
  BY DEF Begin, store
<1>2. /\ sent \subseteq sent' /\ sent' \subseteq Own
      /\ op \in Posts => m \in Ids /\ u = With[m]
      /\ op = "SendDM" => m \in Own /\ m \notin sent /\ m \in sent'
      /\ op = "receiveDM" => m \notin Own
  BY <1>0, DirectMessagesAssumption DEF Begin, Posts, TypeOK
<1>3. /\ c \in Calls /\ call' \in [Procs -> Calls] /\ call'[p] = c
      /\ \A q \in Procs : q # p => call'[q] = call[q]
  BY <1>0, <1>1 DEF TypeOK, Calls, Stages
<1>4. TypeOK'
  BY <1>0, <1>1, <1>2, <1>3 DEF TypeOK
<1>5. SaveTypes'
  BY <1>0, <1>1 DEF SaveTypes
<1>6. CallsMade'
  <2> SUFFICES ASSUME NEW q \in Procs
               PROVE  /\ call'[q].stage = "conv" => call'[q].obj # NoObj
                      /\ call'[q].op \in Posts =>
                           /\ call'[q].id \in Ids /\ With[call'[q].id] = call'[q].peer
                           /\ call'[q].op = "SendDM" <=> call'[q].id \in Own
                           /\ call'[q].id \in Own => call'[q].id \in sent'
    BY DEF CallsMade
  <2>1. CASE q = p
    BY <1>2, <1>3, <2>1 DEF Posts
  <2>2. CASE q # p
    BY <1>0, <1>2, <1>3, <2>2 DEF CallsMade
  <2> QED BY <2>1, <2>2
<1>7. \A o \in Objs, v \in Peers : Uses(o, v)' => Uses(o, v)
  BY <1>1, <1>3, DirectMessagesAssumption DEF Uses
<1>8. Apart'
  BY <1>0, <1>7 DEF Apart
<1>9. ListsGood'
  BY <1>0, <1>1, <1>2, <1>7 DEF ListsGood, OwnSent, Belongs
<1>10. RowsGood'
  BY <1>0, <1>1, <1>2 DEF RowsGood, GoodRow, OwnSent, Belongs
<1>11. Pending'
  <2> SUFFICES ASSUME NEW q \in Procs, call'[q].op = "SendDM"
               PROVE  /\ \A o \in Objs : call'[q].id \notin Listed(msgs[o])
                      /\ \A r \in Procs : r # q /\ call'[r].op = "SendDM"
                                            => call'[r].id # call'[q].id
    BY <1>1 DEF Pending
  <2>1. \A r \in Procs : r # p /\ call'[r].op = "SendDM" =>
          call[r].id \in sent /\ call'[r].id = call[r].id /\ call[r].op = "SendDM"
    BY <1>0, <1>3 DEF CallsMade, Posts
  <2>2. CASE q = p
    BY <1>0, <1>2, <1>3, <2>1, <2>2 DEF ListsGood, OwnSent
  <2>3. CASE q # p
    BY <1>0, <1>2, <1>3, <2>1, <2>3 DEF Pending
  <2> QED BY <2>2, <2>3
<1>12. StaysFit
  BY <1>1 DEF StaysFit, Fits
<1> QED
  BY <1>4, <1>5, <1>6, <1>8, <1>9, <1>10, <1>11, <1>12 DEF DirectInv

\* The sections that end or go on and change no list.
LEMMA PlainStep ==
  ASSUME DirectInv, NEW p \in Procs,
         \/ KnowReceiver(p) \/ Panic(p) \/ CheckBlocked(p)
         \/ DeleteConversation(p) \/ BlockUser(p)
         \/ Set(p) \/ SetDMDraft(p) \/ DeleteDMMessage(p) \/ Look(p)
  PROVE  DirectInv' /\ StaysFit
<1>0. TypeOK /\ SaveTypes
  BY DEF DirectInv
<1>1. call \in [Procs -> Calls] /\ call[p] \in Calls /\ call[p].peer \in Peers
  BY <1>0 DEF TypeOK, Calls
<1>2. /\ Yields(p) /\ UNCHANGED <<msgs, unread, sent, save, file, bounds>>
      /\ users' \subseteq Peers /\ blocked' \subseteq Peers /\ held' \in BOOLEAN
      /\ \/ conversations' = conversations
         \/ conversations' = [conversations EXCEPT ![call[p].peer] = NoObj]
  <2>1. CASE KnowReceiver(p)
    BY <1>0, <1>1, <2>1 DEF KnowReceiver, Yields, Goto, store, TypeOK
  <2>2. CASE Panic(p)
    BY <1>0, <2>2 DEF Panic, Yields, Return, store, TypeOK
  <2>3. CASE CheckBlocked(p)
    BY <1>0, <2>3 DEF CheckBlocked, Yields, Return, Goto, store, TypeOK
  <2>4. CASE DeleteConversation(p)
    BY <1>0, <2>4 DEF DeleteConversation, Yields, Return, TypeOK
  <2>5. CASE BlockUser(p)
    BY <1>0, <1>1, <2>5 DEF BlockUser, Yields, Return, store, TypeOK
  <2>6. CASE Set(p) \/ SetDMDraft(p) \/ DeleteDMMessage(p) \/ Look(p)
    BY <1>0, <2>6 DEF Set, SetDMDraft, DeleteDMMessage, Look, Sets, Yields,
       Return, store, TypeOK
  <2> QED BY <2>1, <2>2, <2>3, <2>4, <2>5, <2>6
<1>3. /\ conversations' \in [Peers -> Objs \cup {NoObj}]
      /\ \A u \in Peers : conversations'[u] \in {conversations[u], NoObj}
  BY <1>0, <1>1, <1>2 DEF TypeOK
<1>4. call' \in [Procs -> Calls] /\ CallsMade' /\ Apart' /\ RowsGood'
  BY <1>2, <1>3, YieldStep
<1>5. ListsGood' /\ Pending'
  BY <1>2, <1>3, QuietStep
<1>6. TypeOK' /\ SaveTypes'
  BY <1>0, <1>2, <1>3, <1>4 DEF TypeOK, SaveTypes
<1>7. StaysFit
  BY <1>2 DEF StaysFit, Fits
<1> QED BY <1>4, <1>5, <1>6, <1>7 DEF DirectInv

\* The sections that change the list and the counter of their conversation.
LEMMA BecomesStep ==
  ASSUME DirectInv, NEW p \in Procs, call[p].stage = "conv", Return(p),
         UNCHANGED <<conversations, users, blocked, held, sent, save, file, bounds>>,
         NEW s \in Seq(Ids), NEW n \in Nat, Becomes(p, s, n), Distinct(s),
         \/ Listed(s) \subseteq Listed(Here(p))
         \/ /\ call[p].op \in Posts
            /\ Listed(s) \subseteq Listed(Here(p)) \cup {call[p].id},
         unread[call[p].obj] <= Len(Here(p)) => n <= Len(s)
  PROVE  DirectInv' /\ StaysFit
<1>0. TypeOK /\ SaveTypes /\ CallsMade
  BY DEF DirectInv
<1>1. call[p].obj \in Objs /\ Yields(p)
  BY <1>0 DEF TypeOK, CallsMade, Calls, Return, Yields
<1>2. /\ msgs' = [msgs EXCEPT ![call[p].obj] = s]
      /\ unread' = [unread EXCEPT ![call[p].obj] = n]
  BY DEF Becomes
<1>3. call' \in [Procs -> Calls] /\ CallsMade' /\ Apart' /\ RowsGood'
  BY <1>0, <1>1, YieldStep DEF TypeOK
<1>4. ListsGood' /\ Pending'
  BY <1>2, EditStep
<1>5. TypeOK'
  BY <1>0, <1>1, <1>2, <1>3 DEF TypeOK
<1>6. SaveTypes'
  BY <1>0 DEF SaveTypes
<1>7. StaysFit
  BY <1>0, <1>1, <1>2 DEF StaysFit, Fits, Here, TypeOK
<1> QED BY <1>3, <1>4, <1>5, <1>6, <1>7 DEF DirectInv

LEMMA ListStep ==
  ASSUME DirectInv, NEW p \in Procs,
         SendDM(p) \/ receiveDM(p) \/ MarkDMAsRead(p) \/ ClearDMHistory(p)
  PROVE  DirectInv' /\ StaysFit
<1> DEFINE longer == Append(Here(p), call[p].id)
           n == unread[call[p].obj]
<1>0. TypeOK /\ SaveTypes /\ CallsMade /\ ListsGood /\ Pending
  BY DEF DirectInv
<1>1. /\ call[p].stage = "conv" /\ Return(p)
      /\ UNCHANGED <<conversations, users, blocked, held, sent, save, file, bounds>>
  BY DEF SendDM, receiveDM, MarkDMAsRead, ClearDMHistory, In
<1>2. call[p].obj \in Objs /\ n \in Nat /\ Here(p) \in Seq(Ids) /\ Distinct(Here(p))
  BY <1>0, <1>1 DEF TypeOK, CallsMade, ListsGood, Here, Calls
<1>3. Len(Here(p)) \in Nat
  BY <1>2
<1>4. CASE SendDM(p)
  <2>1. /\ call[p].op = "SendDM" /\ call[p].id \in Ids
        /\ Becomes(p, IF Len(longer) > MaxMessages THEN Tail(longer) ELSE longer, n)
    BY <1>0, <1>4 DEF SendDM, In, CallsMade, Posts
  <2>2. call[p].id \notin Listed(Here(p))
    BY <1>0, <1>2, <2>1 DEF Pending, Here
  <2>3. /\ longer \in Seq(Ids) /\ Len(longer) = Len(Here(p)) + 1 /\ Distinct(longer)
        /\ Listed(longer) \subseteq Listed(Here(p)) \cup {call[p].id}
    BY <1>2, <2>1, <2>2, Appending
  <2>4. longer # <<>>
    <3>1. Len(longer) # 0
      BY <1>3, <2>3
    <3> QED BY <3>1, EmptyList
  <2>5. /\ Tail(longer) \in Seq(Ids) /\ Len(Tail(longer)) = Len(Here(p))
        /\ Listed(Tail(longer)) \subseteq Listed(Here(p)) \cup {call[p].id}
        /\ Distinct(Tail(longer))
    <3>1. /\ Tail(longer) \in Seq(Ids) /\ Len(Tail(longer)) = Len(longer) - 1
          /\ Listed(Tail(longer)) \subseteq Listed(longer)
          /\ Distinct(Tail(longer))
      BY <2>3, <2>4, Trimming
    <3> QED BY <1>3, <2>3, <3>1
  <2>6. CASE Len(longer) > MaxMessages
    <3>1. Becomes(p, Tail(longer), n)
      BY <2>1, <2>6
    <3> QED BY <1>1, <1>2, <2>1, <2>5, <3>1, BecomesStep DEF Posts
  <2>7. CASE ~(Len(longer) > MaxMessages)
    <3>1. Becomes(p, longer, n)
      BY <2>1, <2>7
    <3>2. n <= Len(Here(p)) => n <= Len(longer)
      BY <1>2, <1>3, <2>3
    <3> QED BY <1>1, <1>2, <2>1, <2>3, <3>1, <3>2, BecomesStep DEF Posts
  <2> QED BY <2>6, <2>7
<1>5. CASE receiveDM(p)
  <2>1. call[p].op = "receiveDM" /\ call[p].id \in Ids
    BY <1>0, <1>5 DEF receiveDM, In, CallsMade, Posts
  <2>2. CASE call[p].id \in Listed(Here(p))
    <3>1. Becomes(p, Here(p), n)
      BY <1>0, <1>2, <1>5, <2>2 DEF receiveDM, Becomes, Here, TypeOK
    <3> QED BY <1>1, <1>2, <3>1, BecomesStep
  <2>3. CASE call[p].id \notin Listed(Here(p))
    <3>1. Becomes(p, longer, n + 1)
      BY <1>5, <2>3 DEF receiveDM
    <3>2. /\ longer \in Seq(Ids) /\ Len(longer) = Len(Here(p)) + 1 /\ Distinct(longer)
          /\ Listed(longer) \subseteq Listed(Here(p)) \cup {call[p].id}
      BY <1>2, <2>1, <2>3, Appending
    <3>3. n + 1 \in Nat /\ (n <= Len(Here(p)) => n + 1 <= Len(longer))
      BY <1>2, <1>3, <3>2
    <3> QED BY <1>1, <1>2, <2>1, <3>1, <3>2, <3>3, BecomesStep DEF Posts
  <2> QED BY <2>2, <2>3
<1>6. CASE MarkDMAsRead(p)
  <2>1. Becomes(p, Here(p), 0)
    BY <1>6 DEF MarkDMAsRead
  <2> QED BY <1>1, <1>2, <1>3, <2>1, BecomesStep
<1>7. CASE ClearDMHistory(p)
  <2>1. Becomes(p, <<>>, 0)
    BY <1>7 DEF ClearDMHistory
  <2>2. /\ <<>> \in Seq(Ids) /\ Distinct(<<>>) /\ Listed(<<>>) \subseteq Listed(Here(p))
        /\ n <= Len(Here(p)) => 0 <= Len(<<>>)
    BY EmptyList
  <2> QED BY <1>1, <2>1, <2>2, BecomesStep
<1> QED BY <1>4, <1>5, <1>6, <1>7

\* The conversation is found, or made of an object that nobody refers to.
LEMMA FindStep ==
  ASSUME DirectInv, NEW p \in Procs, Find(p)
  PROVE  DirectInv' /\ StaysFit
<1> DEFINE u == call[p].peer
<1>0. TypeOK /\ SaveTypes /\ CallsMade /\ Apart /\ ListsGood /\ RowsGood /\ Pending
  BY DEF DirectInv
<1>1. /\ call \in [Procs -> Calls] /\ call[p] \in Calls /\ u \in Peers
      /\ conversations \in [Peers -> Objs \cup {NoObj}]
  BY <1>0 DEF TypeOK, Calls
<1>2. /\ UNCHANGED <<blocked, held, sent, save, file, bounds>>
      /\ users' \subseteq Peers
  BY <1>0, <1>1 DEF Find, TypeOK
<1>3. CASE conversations[u] = NoObj /\ call[p].op \notin Makers
  <2>1. Return(p) /\ UNCHANGED store
    BY <1>3 DEF Find
  <2>2. Yields(p) /\ UNCHANGED <<conversations, msgs, unread>>
    BY <2>1 DEF Return, Yields, store
  <2>3. call' \in [Procs -> Calls] /\ CallsMade' /\ Apart' /\ RowsGood'
    BY <1>1, <1>2, <2>2, YieldStep
  <2>4. ListsGood' /\ Pending'
    BY <1>1, <1>2, <2>2, QuietStep
  <2>5. TypeOK' /\ SaveTypes' /\ StaysFit
    BY <1>0, <1>2, <2>2, <2>3 DEF TypeOK, SaveTypes, StaysFit, Fits
  <2> QED BY <2>3, <2>4, <2>5 DEF DirectInv
<1>4. ASSUME NEW o \in Objs,
             call' = [call EXCEPT ![p].obj = o, ![p].stage = "conv"],
             \/ o = conversations[u] /\ UNCHANGED store
             \/ /\ o \in Fresh
                /\ conversations' = [conversations EXCEPT ![u] = o]
                /\ msgs' = [msgs EXCEPT ![o] = <<>>]
                /\ unread' = [unread EXCEPT ![o] = 0]
      PROVE  DirectInv' /\ StaysFit
  <2>1. /\ call' \in [Procs -> Calls]
        /\ call'[p].obj = o /\ call'[p].stage = "conv" /\ o # NoObj
        /\ \A q \in Procs : /\ call'[q].op = call[q].op /\ call'[q].id = call[q].id
                            /\ call'[q].peer = call[q].peer
                            /\ q # p => call'[q] = call[q]
    BY <1>1, <1>4, DirectMessagesAssumption DEF Calls, Stages
  <2>2. /\ conversations' \in [Peers -> Objs \cup {NoObj}] /\ conversations'[u] = o
        /\ \A v \in Peers : v # u => conversations'[v] = conversations[v]
    BY <1>1, <1>4 DEF store
  <2>3. /\ msgs' \in [Objs -> Seq(Ids)] /\ unread' \in [Objs -> Nat]
        /\ \A k \in Objs : \/ msgs'[k] = msgs[k] /\ unread'[k] = unread[k]
                           \/ msgs'[k] = <<>> /\ unread'[k] = 0
    <3>1. msgs \in [Objs -> Seq(Ids)] /\ unread \in [Objs -> Nat]
      BY <1>0 DEF TypeOK
    <3>2. CASE msgs' = msgs /\ unread' = unread
      BY <3>1, <3>2
    <3>3. CASE msgs' = [msgs EXCEPT ![o] = <<>>] /\ unread' = [unread EXCEPT ![o] = 0]
      <4>1. msgs' \in [Objs -> Seq(Ids)] /\ unread' \in [Objs -> Nat]
        BY <3>1, <3>3, EmptyList
      <4>2. \A k \in Objs : k # o => msgs'[k] = msgs[k] /\ unread'[k] = unread[k]
        BY <3>1, <3>3
      <4>3. msgs'[o] = <<>> /\ unread'[o] = 0
        BY <3>1, <3>3
      <4> QED BY <4>1, <4>2, <4>3
    <3> QED BY <1>4, <3>2, <3>3 DEF store
  <2>4. TypeOK' /\ SaveTypes'
    BY <1>0, <1>2, <2>1, <2>2, <2>3 DEF TypeOK, SaveTypes
  <2>5. CallsMade'
    BY <1>0, <1>2, <2>1 DEF CallsMade
  <2>6. \A k \in Objs, v \in Peers : k # o => (Uses(k, v)' => Uses(k, v))
    BY <1>2, <2>1, <2>2 DEF Uses
  <2>7. \A v \in Peers : Uses(o, v)' => v = u
    <3>1. CASE o = conversations[u] /\ UNCHANGED store
      <4>1. Uses(o, u)
        BY <3>1 DEF Uses
      <4>2. \A v \in Peers : Uses(o, v)' => Uses(o, v) \/ v = u
        BY <1>2, <2>1, <2>2, <3>1 DEF Uses
      <4> QED BY <1>0, <1>1, <4>1, <4>2 DEF Apart
    <3>2. CASE o \in Fresh
      <4>1. /\ \A v \in Peers : conversations[v] # o /\ save.objs[v] # o
            /\ \A q \in Procs : call[q].obj # o
        BY <3>2 DEF Fresh
      <4> QED BY <1>2, <2>1, <2>2, <4>1 DEF Uses
    <3> QED BY <1>4, <3>1, <3>2
  <2>8. Apart'
    BY <1>0, <2>6, <2>7 DEF Apart
  <2>9. ListsGood'
    <3> SUFFICES ASSUME NEW k \in Objs
                 PROVE  /\ Distinct(msgs'[k]) /\ Listed(msgs'[k]) \cap Own \subseteq sent
                        /\ \A v \in Peers : Uses(k, v)' =>
                             \A m \in Listed(msgs'[k]) : With[m] = v
      BY <1>2 DEF ListsGood, OwnSent, Belongs
    <3>1. CASE msgs'[k] = <<>>
      BY <3>1, EmptyList
    <3>2. CASE msgs'[k] = msgs[k] /\ k # o
      BY <1>0, <2>6, <3>2 DEF ListsGood, OwnSent, Belongs
    <3>3. CASE msgs'[k] = msgs[k] /\ k = o /\ o = conversations[u]
      <4>1. Uses(o, u)
        BY <3>3 DEF Uses
      <4> QED BY <1>0, <1>1, <2>7, <3>3, <4>1 DEF ListsGood, OwnSent, Belongs
    <3>4. CASE k = o /\ o \in Fresh /\ msgs' = [msgs EXCEPT ![o] = <<>>]
      <4>1. msgs'[k] = <<>>
        BY <1>0, <3>4 DEF TypeOK
      <4> QED BY <4>1, EmptyList
    <3> QED BY <1>4, <2>3, <3>1, <3>2, <3>3, <3>4
  <2>10. Pending'
    <3>1. \A k \in Objs : Listed(msgs'[k]) \subseteq Listed(msgs[k])
      BY <2>3, EmptyList
    <3> QED BY <1>0, <2>1, <3>1 DEF Pending
  <2>11. RowsGood'
    BY <1>0, <1>2 DEF RowsGood, GoodRow, OwnSent, Belongs
  <2>12. StaysFit
    <3> SUFFICES ASSUME NEW k \in Objs, unread[k] <= Len(msgs[k])
                 PROVE  unread'[k] <= Len(msgs'[k])
      BY DEF StaysFit, Fits
    <3> QED BY <2>3, EmptyList
  <2> QED BY <2>4, <2>5, <2>8, <2>9, <2>10, <2>11, <2>12 DEF DirectInv
<1>5. CASE conversations[u] # NoObj
  <2>1. /\ call' = [call EXCEPT ![p].obj = conversations[u], ![p].stage = "conv"]
        /\ UNCHANGED store
    BY <1>5 DEF Find
  <2> QED BY <1>1, <1>4, <1>5, <2>1
<1>6. CASE conversations[u] = NoObj /\ call[p].op \in Makers
  <2>1. \E o \in Fresh :
          /\ conversations' = [conversations EXCEPT ![u] = o]
          /\ msgs' = [msgs EXCEPT ![o] = <<>>]
          /\ unread' = [unread EXCEPT ![o] = 0]
          /\ call' = [call EXCEPT ![p].obj = o, ![p].stage = "conv"]
    BY <1>6 DEF Find
  <2>2. PICK o \in Fresh :
          /\ conversations' = [conversations EXCEPT ![u] = o]
          /\ msgs' = [msgs EXCEPT ![o] = <<>>]
          /\ unread' = [unread EXCEPT ![o] = 0]
          /\ call' = [call EXCEPT ![p].obj = o, ![p].stage = "conv"]
    BY <2>1
  <2>3. o \in Objs
    BY DEF Fresh
  <2> QED BY <1>4, <2>2, <2>3
<1> QED BY <1>3, <1>5, <1>6

-----------------------------------------------------------------------------
(* The save. *)

\* A step of the save changes the save alone, or the file.
LEMMA SavingStep ==
  ASSUME DirectInv,
         UNCHANGED <<conversations, msgs, unread, users, blocked, held, call, sent>>,
         SaveTypes', RowsGood',
         \A u \in Peers : save'.objs[u] \in {save.objs[u], conversations[u], NoObj}
  PROVE  DirectInv' /\ StaysFit
<1>0. TypeOK /\ SaveTypes /\ CallsMade /\ Apart /\ ListsGood /\ Pending
  BY DEF DirectInv
<1>1. TypeOK'
  BY <1>0 DEF TypeOK, SaveTypes
<1>2. \A o \in Objs, u \in Peers : Uses(o, u)' => Uses(o, u)
  BY DirectMessagesAssumption DEF Uses
<1>3. CallsMade' /\ Apart' /\ Pending'
  BY <1>0, <1>2 DEF CallsMade, Apart, Pending
<1>4. ListsGood'
  BY <1>0, <1>2 DEF ListsGood, OwnSent, Belongs
<1>5. StaysFit
  BY DEF StaysFit, Fits
<1> QED BY <1>1, <1>3, <1>4, <1>5 DEF DirectInv

LEMMA SaveStep ==
  ASSUME DirectInv, Save
  PROVE  DirectInv' /\ StaysFit
<1>0. TypeOK /\ SaveTypes /\ ListsGood /\ RowsGood
  BY DEF DirectInv
<1>1. UNCHANGED <<conversations, msgs, unread, users, blocked, held, call, sent>>
  BY DEF Save, BeginSave, BeginEncode, EncodeMessages, EncodeUnread, EndSave, store
<1>2. CASE BeginSave
  <2>1. /\ save' = [NoSave EXCEPT !.stage = "begun"] /\ file' = file
        /\ bounds' = [bounds EXCEPT !.saves = @ + 1]
    BY <1>2 DEF BeginSave
  <2>2. save'.objs = NoSave.objs /\ save'.rows = NoSave.rows /\ save'.todo = {}
    BY <2>1, NoSaveType
  <2>3. SaveTypes'
    BY <1>0, <2>1, <2>2, NoSaveType DEF SaveTypes
  <2>4. RowsGood'
    BY <1>0, <1>1, <2>1, <2>2, NoSaveType, AbsentGood
    DEF RowsGood, GoodRow, OwnSent, Belongs
  <2> QED BY <1>1, <2>2, <2>3, <2>4, NoSaveType, SavingStep
<1>3. CASE BeginEncode
  <2>1. /\ save' = [save EXCEPT !.stage = "encoding", !.objs = conversations,
                      !.todo = {part \in Peers \X {"messages", "unread"} :
                                  conversations[part[1]] # NoObj}]
        /\ UNCHANGED <<file, bounds>>
    BY <1>3 DEF BeginEncode
  <2>2. /\ save'.objs = conversations /\ save'.rows = save.rows
        /\ save'.todo = {part \in Peers \X {"messages", "unread"} :
                           conversations[part[1]] # NoObj}
    BY <1>0, <2>1 DEF SaveTypes
  <2>3. SaveTypes'
    BY <1>0, <1>1, <2>1, <2>2 DEF SaveTypes, TypeOK
  <2>4. RowsGood'
    BY <1>0, <1>1, <2>1, <2>2 DEF RowsGood, GoodRow, OwnSent, Belongs
  <2> QED BY <1>1, <2>2, <2>3, <2>4, SavingStep
<1>4. ASSUME NEW u \in Peers, NEW part \in Peers \X {"messages", "unread"},
             part[1] = u, part \in save.todo, NEW r \in Row, GoodRow(r, u),
             save' = [save EXCEPT !.todo = @ \ {part}, !.rows[u] = r],
             UNCHANGED <<file, bounds>>
      PROVE  DirectInv' /\ StaysFit
  <2>1. /\ save'.objs = save.objs /\ save'.todo \subseteq save.todo
        /\ save'.rows = [save.rows EXCEPT ![u] = r] /\ save'.stage = save.stage
    BY <1>0, <1>4 DEF SaveTypes
  <2>2. save'.rows[u] = r /\ \A v \in Peers : v # u => save'.rows[v] = save.rows[v]
    BY <1>0, <2>1 DEF SaveTypes
  <2>3. SaveTypes'
    <3>1. save'.rows \in [Peers -> Row]
      BY <1>0, <1>4, <2>1 DEF SaveTypes
    <3> QED BY <1>0, <1>4, <2>1, <3>1 DEF SaveTypes
  <2>4. RowsGood'
    BY <1>0, <1>1, <1>4, <2>2 DEF RowsGood, GoodRow, OwnSent, Belongs
  <2> QED BY <1>1, <2>1, <2>3, <2>4, SavingStep
<1>5. ASSUME NEW u \in Peers, EncodeMessages(u) PROVE DirectInv' /\ StaysFit
  <2> DEFINE part == <<u, "messages">>
             r == [save.rows[u] EXCEPT !.found = TRUE, !.msgs = msgs[save.objs[u]]]
  <2>1. /\ part \in save.todo /\ part \in Peers \X {"messages", "unread"} /\ part[1] = u
        /\ UNCHANGED <<file, bounds>>
    BY <1>5 DEF EncodeMessages
  <2>2. save.objs[u] \in Objs
    BY <1>0, <2>1 DEF SaveTypes
  <2>3. save.rows[u] \in Row /\ r \in Row /\ r.msgs = msgs[save.objs[u]]
    <3>1. save.rows[u] \in Row /\ msgs[save.objs[u]] \in Seq(Ids)
      BY <1>0, <2>2 DEF SaveTypes, TypeOK
    <3> QED BY <3>1 DEF Row
  <2>4. Uses(save.objs[u], u)
    BY DEF Uses
  <2>5. GoodRow(r, u)
    BY <1>0, <2>2, <2>3, <2>4 DEF ListsGood, GoodRow
  <2>6. save' = [save EXCEPT !.todo = @ \ {part}, !.rows[u] = r]
    <3>1. save' = [save EXCEPT !.todo = @ \ {part}, !.rows[u].found = TRUE,
                               !.rows[u].msgs = msgs[save.objs[u]]]
      BY <1>5 DEF EncodeMessages
    <3>2. save.rows \in [Peers -> Row]
      BY <1>0 DEF SaveTypes
    <3> HIDE DEF part
    <3> QED BY <3>1, <3>2
  <2> QED BY <1>4, <2>1, <2>3, <2>5, <2>6
<1>6. ASSUME NEW u \in Peers, EncodeUnread(u) PROVE DirectInv' /\ StaysFit
  <2> DEFINE part == <<u, "unread">>
             r == [save.rows[u] EXCEPT !.unread = unread[save.objs[u]]]
  <2>1. /\ part \in save.todo /\ part \in Peers \X {"messages", "unread"} /\ part[1] = u
        /\ UNCHANGED <<file, bounds>>
    BY <1>6 DEF EncodeUnread
  <2>2. save.objs[u] \in Objs
    BY <1>0, <2>1 DEF SaveTypes
  <2>3. save.rows[u] \in Row /\ r \in Row /\ r.msgs = save.rows[u].msgs
    <3>1. save.rows[u] \in Row /\ unread[save.objs[u]] \in Nat
      BY <1>0, <2>2 DEF SaveTypes, TypeOK
    <3> QED BY <3>1 DEF Row
  <2>4. GoodRow(r, u)
    BY <1>0, <2>3 DEF RowsGood, GoodRow
  <2>5. save' = [save EXCEPT !.todo = @ \ {part}, !.rows[u] = r]
    BY <1>0, <1>6, <2>3 DEF EncodeUnread, SaveTypes, Row
  <2> QED BY <1>4, <2>1, <2>3, <2>4, <2>5
<1>7. CASE EndSave
  <2>1. save' = NoSave /\ file' = save.rows /\ bounds' = bounds
    BY <1>7 DEF EndSave
  <2>2. SaveTypes'
    BY <1>0, <2>1, NoSaveType DEF SaveTypes
  <2>3. RowsGood'
    BY <1>0, <1>1, <2>1, NoSaveType, AbsentGood
    DEF RowsGood, GoodRow, OwnSent, Belongs
  <2> QED BY <1>1, <2>1, <2>2, <2>3, NoSaveType, SavingStep
<1> QED BY <1>2, <1>3, <1>5, <1>6, <1>7 DEF Save

-----------------------------------------------------------------------------
(* A restart.                                                              *)

\* What was in the file comes back, a conversation in an object of its own.
LEMMA RestartStep ==
  ASSUME DirectInv, Restart
  PROVE  DirectInv' /\ bounds'.crashes > bounds.crashes
<1> DEFINE saved == {u \in Peers : file[u].found}
<1>0. TypeOK /\ SaveTypes /\ RowsGood
  BY DEF DirectInv
<1>1. PICK f \in [saved -> Objs] :
        /\ \A u, v \in saved : f[u] = f[v] => u = v
        /\ conversations' = [u \in Peers |-> IF u \in saved THEN f[u] ELSE NoObj]
        /\ msgs' = [o \in Objs |->
             IF \E u \in saved : f[u] = o
             THEN file[CHOOSE u \in saved : f[u] = o].msgs ELSE <<>>]
        /\ unread' = [o \in Objs |->
             IF \E u \in saved : f[u] = o
             THEN file[CHOOSE u \in saved : f[u] = o].unread ELSE 0]
  BY DEF Restart
<1>2. /\ users' \in SUBSET users /\ blocked' = {} /\ held' = FALSE
      /\ call' = [p \in Procs |-> Idle] /\ save' = NoSave
      /\ bounds' = [bounds EXCEPT !.crashes = @ + 1]
      /\ UNCHANGED <<sent, file>>
  BY DEF Restart
<1>3. \A u \in Peers : file[u] \in Row
  BY <1>0 DEF SaveTypes
<1>4. \A u \in saved : msgs'[f[u]] = file[u].msgs /\ unread'[f[u]] = file[u].unread
  <2> SUFFICES ASSUME NEW u \in saved
               PROVE  msgs'[f[u]] = file[u].msgs /\ unread'[f[u]] = file[u].unread
    OBVIOUS
  <2>1. (CHOOSE v \in saved : f[v] = f[u]) = u
    BY <1>1
  <2> QED BY <1>1, <2>1
<1>5. \A o \in Objs : (\A u \in saved : f[u] # o) => msgs'[o] = <<>> /\ unread'[o] = 0
  BY <1>1
<1>6. \A o \in Objs : /\ msgs'[o] \in Seq(Ids) /\ unread'[o] \in Nat
                      /\ Distinct(msgs'[o]) /\ Listed(msgs'[o]) \cap Own \subseteq sent
  <2> SUFFICES ASSUME NEW o \in Objs
               PROVE  /\ msgs'[o] \in Seq(Ids) /\ unread'[o] \in Nat
                      /\ Distinct(msgs'[o]) /\ Listed(msgs'[o]) \cap Own \subseteq sent
    OBVIOUS
  <2>1. CASE \A u \in saved : f[u] # o
    <3>1. msgs'[o] = <<>> /\ unread'[o] = 0
      BY <1>5, <2>1
    <3> QED BY <3>1, EmptyList
  <2>2. ASSUME NEW u \in saved, f[u] = o
        PROVE  /\ msgs'[o] \in Seq(Ids) /\ unread'[o] \in Nat
               /\ Distinct(msgs'[o]) /\ Listed(msgs'[o]) \cap Own \subseteq sent
    <3>1. msgs'[o] = file[u].msgs /\ unread'[o] = file[u].unread
      BY <1>4, <2>2
    <3>2. file[u] \in Row /\ GoodRow(file[u], u)
      BY <1>0, <1>3 DEF RowsGood
    <3> QED BY <3>1, <3>2 DEF Row, GoodRow, OwnSent
  <2> QED BY <2>1, <2>2
<1>7. /\ msgs' \in [Objs -> Seq(Ids)] /\ unread' \in [Objs -> Nat]
      /\ conversations' \in [Peers -> Objs \cup {NoObj}]
  BY <1>1, <1>6
<1>8. TypeOK'
  BY <1>0, <1>2, <1>7, IdleType, NoSaveType DEF TypeOK
<1>9. SaveTypes'
  BY <1>0, <1>2, NoSaveType DEF SaveTypes
<1>10. CallsMade' /\ Pending'
  BY <1>2, IdleType DEF CallsMade, Pending, Posts
<1>11. \A o \in Objs, u \in Peers : Uses(o, u)' => u \in saved /\ f[u] = o
  BY <1>1, <1>2, IdleType, NoSaveType, DirectMessagesAssumption DEF Uses
<1>12. Apart'
  BY <1>1, <1>11 DEF Apart
<1>13. ListsGood'
  <2> SUFFICES ASSUME NEW o \in Objs, NEW u \in Peers, Uses(o, u)'
               PROVE  \A m \in Listed(msgs'[o]) : With[m] = u
    BY <1>2, <1>6 DEF ListsGood, OwnSent, Belongs
  <2>1. u \in saved /\ msgs'[o] = file[u].msgs
    BY <1>4, <1>11
  <2> QED BY <1>0, <2>1 DEF RowsGood, GoodRow, Belongs
<1>14. RowsGood'
  BY <1>0, <1>2, NoSaveType, AbsentGood DEF RowsGood, GoodRow, OwnSent, Belongs
<1>15. bounds'.crashes > bounds.crashes
  BY <1>0, <1>2 DEF SaveTypes
<1> QED
  BY <1>8, <1>9, <1>10, <1>12, <1>13, <1>14, <1>15 DEF DirectInv

LEMMA DirectStutter ==
  ASSUME DirectInv, UNCHANGED vars
  PROVE  DirectInv' /\ StaysFit
<1>0. /\ UNCHANGED <<conversations, msgs, unread, users, blocked, held, call, sent,
                     save, file, bounds>>
  BY DEF vars, store
<1>1. SaveTypes' /\ RowsGood'
  BY <1>0 DEF DirectInv, SaveTypes, RowsGood, GoodRow, OwnSent, Belongs
<1> QED BY <1>0, <1>1, SavingStep

-----------------------------------------------------------------------------
(* The theorems.                                                           *)

LEMMA DirectStep ==
  ASSUME DirectInv, [Next]_vars
  PROVE  /\ DirectInv'
         /\ StaysFit \/ bounds'.crashes > bounds.crashes
<1>1. ASSUME NEW p \in Procs, NEW op \in Operations, NEW u \in Peers,
             NEW m \in Ids \cup {NoId}, Begin(p, op, u, m)
      PROVE  DirectInv' /\ StaysFit
  BY <1>1, BeginStep
<1>2. ASSUME NEW p \in Procs, Section(p)
      PROVE  DirectInv' /\ StaysFit
  <2>1. CASE Find(p)
    BY <2>1, FindStep
  <2>2. CASE SendDM(p) \/ receiveDM(p) \/ MarkDMAsRead(p) \/ ClearDMHistory(p)
    BY <2>2, ListStep
  <2>3. CASE \/ KnowReceiver(p) \/ Panic(p) \/ CheckBlocked(p)
             \/ DeleteConversation(p) \/ BlockUser(p)
             \/ Set(p) \/ SetDMDraft(p) \/ DeleteDMMessage(p) \/ Look(p)
    BY <2>3, PlainStep
  <2> QED BY <1>2, <2>1, <2>2, <2>3 DEF Section
<1>3. CASE Save
  BY <1>3, SaveStep
<1>4. CASE Restart
  BY <1>4, RestartStep
<1>5. CASE UNCHANGED vars
  BY <1>5, DirectStutter
<1> QED BY <1>1, <1>2, <1>3, <1>4, <1>5 DEF Next

THEOREM DirectInvariant == Spec => []DirectInv
<1>1. DirectInv /\ [Next]_vars => DirectInv'
  BY DirectStep
<1> QED BY InitDirect, <1>1, PTL DEF Spec

\* The state of the direct messages is well formed; no counter is negative
\* (MarkDMAsRead and ClearDMHistory set it, receiveDM adds to it).
THEOREM DirectTypes == Spec => []TypeOK
<1>1. DirectInv => TypeOK
  BY DEF DirectInv
<1> QED BY <1>1, DirectInvariant, PTL

\* A conversation lists a message once and none of another peer (the look for
\* the message in receiveDM, and SendDM's new ids).
THEOREM DirectOnce == Spec => []DMsOnce
<1>1. ASSUME DirectInv PROVE DMsOnce
  <2>1. \A u \in Peers : conversations[u] # NoObj =>
          conversations[u] \in Objs /\ Uses(conversations[u], u)
    BY <1>1 DEF DirectInv, TypeOK, Uses
  <2> QED BY <1>1, <2>1 DEF DirectInv, DMsOnce, ListsGood, Belongs
<1> QED BY <1>1, DirectInvariant, PTL

\* While the program runs no call leaves a badge that counts more messages
\* than there are (SendDM at its limit, ClearDMHistory, receiveDM).
THEOREM DirectFits == Spec => UnreadFits
<1>1. DirectInv /\ [Next]_vars =>
        [\A o \in Objs : Fits(o) => Fits(o)' \/ bounds'.crashes > bounds.crashes]_vars
  <2> SUFFICES ASSUME DirectInv, [Next]_vars
               PROVE  \A o \in Objs : Fits(o) => Fits(o)' \/ bounds'.crashes > bounds.crashes
    OBVIOUS
  <2>1. StaysFit \/ bounds'.crashes > bounds.crashes
    BY DirectStep
  <2> QED BY <2>1 DEF StaysFit
<1> QED BY <1>1, DirectInvariant, PTL DEF Spec, UnreadFits
=============================================================================
