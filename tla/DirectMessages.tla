--------------------------- MODULE DirectMessages ---------------------------
(***************************************************************************)
(* The direct messages of a node (src/internal/chat/chat.go), which HTTP   *)
(* handlers, the handlers of datagrams and the goroutines that save work   *)
(* on at once.                                                             *)
(*                                                                         *)
(* A call looks its conversation up under cm.mu, gives that up and goes on *)
(* under the lock of the object it found: in between, another call may     *)
(* have taken the object out of the map.  Each section is a step.  Save    *)
(* holds no lock of a conversation: it encodes the objects it finds in the *)
(* map one field after the other while calls change them.                  *)
(*                                                                         *)
(* Only ids are kept of messages, and of a conversation its list and its   *)
(* number of unread messages.                                              *)
(***************************************************************************)
EXTENDS Integers, Sequences, FiniteSets

CONSTANTS
  Procs,       \* goroutines
  Peers,       \* the users the local one exchanges messages with
  Short,       \* those whose id, as it is typed, has less than eight characters
  Objs,        \* objects of type DirectConversation
  NoObj,
  Ids,         \* messages
  Own,         \* those that are sent here
  NoId,
  With,        \* the peer each message is exchanged with
  MaxMessages, \* MaxMessagesPerRoom
  MaxCalls,    \* bound on the number of calls
  MaxSaves,    \* bound on the number of saves
  MaxCrashes   \* bound on the number of restarts

ASSUME DirectMessagesAssumption ==
  /\ Peers # {} /\ Short \subseteq Peers /\ NoObj \notin Objs
  /\ Own \subseteq Ids /\ NoId \notin Ids /\ With \in [Ids -> Peers]
  /\ MaxMessages \in Nat \ {0} /\ {MaxCalls, MaxSaves, MaxCrashes} \subseteq Nat

Listed(s) == {s[i] : i \in DOMAIN s}
Distinct(s) == \A i, j \in DOMAIN s : s[i] = s[j] => i = j

(***************************************************************************)
(* The calls.  What the last four set, the model leaves out.               *)
(*   SetDMDraft    one that is not empty                                   *)
(*   MarkDMAsRead  also GetDMMessages                                      *)
(*   Set           Pin-, Mute- and ArchiveConversation, SetDMTyping        *)
(*   Look          the calls that read, and SetDMNickname                  *)
(***************************************************************************)
Makers     == {"SendDM", "receiveDM", "SetDMDraft"}
Pages      == {"MarkDMAsRead", "Set", "DeleteConversation", "DeleteDMMessage"}
Operations == Makers \cup Pages \cup {"ClearDMHistory", "BlockUser", "Look"}
Stages     == {"idle", "start", "find", "conv"}

VARIABLES
  conversations, \* cm.conversations, by the peer
  msgs,          \* Messages of each object
  unread,        \* Unread of each object
  users,         \* the peers in cm.users
  blocked,       \* localUser.BlockedIDs
  held,          \* a call ended with cm.mu locked
  call,          \* the call each goroutine makes
  sent,          \* messages SendDM has made
  save,          \* what Save has encoded
  file,          \* chat.json
  bounds         \* numbers of calls, saves and restarts, for their bounds

store == <<conversations, msgs, unread>>
vars == <<store, users, blocked, held, call, sent, save, file, bounds>>

Idle  == [op |-> "Look", peer |-> CHOOSE u \in Peers : TRUE, id |-> NoId,
          stage |-> "idle", obj |-> NoObj]
Calls == [op : Operations, peer : Peers, id : Ids \cup {NoId},
          stage : Stages, obj : Objs \cup {NoObj}]

\* A conversation in the file, or none.
Absent == [found |-> FALSE, msgs |-> <<>>, unread |-> 0]
NoSave == [stage |-> "none", objs |-> [u \in Peers |-> NoObj], todo |-> {},
           rows |-> [u \in Peers |-> Absent]]

\* NewChatManager, with nothing in the directory.
Init ==
  /\ conversations = [u \in Peers |-> NoObj]
  /\ msgs = [o \in Objs |-> <<>>] /\ unread = [o \in Objs |-> 0]
  /\ users = {} /\ blocked = {} /\ held = FALSE
  /\ call = [p \in Procs |-> Idle] /\ sent = {}
  /\ save = NoSave /\ file = [u \in Peers |-> Absent]
  /\ bounds = [calls |-> 0, saves |-> 0, crashes |-> 0]
-----------------------------------------------------------------------------
(* Sections under cm.mu. *)

\* A call begins.  Its user is one that the caller names, or the author of the
\* message that handleChat has read: a message may come any number of times.
Begin(p, op, u, m) ==
  /\ call[p].stage = "idle" /\ bounds.calls < MaxCalls
  /\ CASE op = "SendDM"    -> m \in Own \ sent /\ u = With[m] /\ sent' = sent \cup {m}
       [] op = "receiveDM" -> m \in Ids \ Own /\ u = With[m] /\ u \notin Short /\ UNCHANGED sent
       [] OTHER            -> m = NoId /\ UNCHANGED sent
  /\ call' = [call EXCEPT ![p] =
       [op |-> op, peer |-> u, id |-> m, obj |-> NoObj,
        stage |-> IF op \in {"SendDM", "receiveDM"} THEN "start" ELSE "find"]]
  /\ bounds' = [bounds EXCEPT !.calls = @ + 1]
  /\ UNCHANGED <<store, users, blocked, held, save, file>>

\* p is at this stage and cm.mu can be had.
At(p, stage) == call[p].stage = stage /\ ~held
Goto(p, stage) == call' = [call EXCEPT ![p].stage = stage]
Return(p) == call' = [call EXCEPT ![p] = Idle]

\* SendDM sees to it that the receiver is known.  To do so it takes the first
\* eight characters of the id: of a shorter one there are none, the handler
\* panics and net/http ends it, and nobody unlocks cm.mu.
KnowReceiver(p) ==
  LET u == call[p].peer
  IN /\ At(p, "start") /\ call[p].op = "SendDM"
     /\ u \in Short => u \in users
     /\ users' = users \cup {u} /\ Goto(p, "find")
     /\ UNCHANGED <<store, blocked, held, sent, save, file, bounds>>

Panic(p) ==
  /\ At(p, "start") /\ call[p].op = "SendDM" /\ call[p].peer \in Short \ users
  /\ held' = TRUE /\ Return(p)
  /\ UNCHANGED <<store, users, blocked, sent, save, file, bounds>>

\* receiveDM refuses those who are blocked, and lets cm.mu go again.
CheckBlocked(p) ==
  /\ At(p, "start") /\ call[p].op = "receiveDM"
  /\ IF call[p].peer \in blocked THEN Return(p) ELSE Goto(p, "find")
  /\ UNCHANGED <<store, users, blocked, held, sent, save, file, bounds>>

\* Objects nothing refers to.
Fresh == Objs \ ({conversations[u] : u \in Peers} \cup {call[p].obj : p \in Procs}
                 \cup {save.objs[u] : u \in Peers})

\* The conversation is found, or made by the calls that make one.
Find(p) ==
  LET u == call[p].peer
  IN /\ At(p, "find") /\ call[p].op \notin {"DeleteConversation", "BlockUser"}
     /\ CASE conversations[u] # NoObj ->
               /\ call' = [call EXCEPT ![p].obj = conversations[u], ![p].stage = "conv"]
               /\ UNCHANGED store
          [] conversations[u] = NoObj /\ call[p].op \in Makers ->
               \E o \in Fresh :
                 /\ conversations' = [conversations EXCEPT ![u] = o]
                 /\ msgs' = [msgs EXCEPT ![o] = <<>>]
                 /\ unread' = [unread EXCEPT ![o] = 0]
                 /\ call' = [call EXCEPT ![p].obj = o, ![p].stage = "conv"]
          [] OTHER -> Return(p) /\ UNCHANGED store
     /\ users' = IF call[p].op = "receiveDM" THEN users \cup {u} ELSE users
     /\ UNCHANGED <<blocked, held, sent, save, file, bounds>>

\* The object leaves the map; calls and a save that have it keep it.
DeleteConversation(p) ==
  /\ At(p, "find") /\ call[p].op = "DeleteConversation"
  /\ conversations' = [conversations EXCEPT ![call[p].peer] = NoObj]
  /\ Return(p)
  /\ UNCHANGED <<msgs, unread, users, blocked, held, sent, save, file, bounds>>

BlockUser(p) ==
  /\ At(p, "find") /\ call[p].op = "BlockUser"
  /\ blocked' = blocked \cup {call[p].peer} /\ Return(p)
  /\ UNCHANGED <<store, users, held, sent, save, file, bounds>>
-----------------------------------------------------------------------------
(* Sections under the lock of the conversation. *)

In(p, op) == call[p].stage = "conv" /\ call[p].op = op
Here(p) == msgs[call[p].obj]

\* The call's conversation gets this list and this number.
Becomes(p, list, n) ==
  /\ msgs' = [msgs EXCEPT ![call[p].obj] = list]
  /\ unread' = [unread EXCEPT ![call[p].obj] = n]

\* Our own messages alone push the oldest one out.
SendDM(p) ==
  LET longer == Append(Here(p), call[p].id)
  IN /\ In(p, "SendDM") /\ Return(p)
     /\ Becomes(p, IF Len(longer) > MaxMessages THEN Tail(longer) ELSE longer,
                unread[call[p].obj])
     /\ UNCHANGED <<conversations, users, blocked, held, sent, save, file, bounds>>

\* Variant: relies on the ids of datagrams, which are forgotten after five
\* minutes, to keep copies out.
receiveDMBlind(p) ==
  /\ In(p, "receiveDM") /\ Return(p)
  /\ Becomes(p, Append(Here(p), call[p].id), unread[call[p].obj] + 1)
  /\ UNCHANGED <<conversations, users, blocked, held, sent, save, file, bounds>>

receiveDM(p) ==
  /\ In(p, "receiveDM") /\ Return(p)
  /\ IF call[p].id \in Listed(Here(p))
     THEN UNCHANGED <<msgs, unread>>
     ELSE Becomes(p, Append(Here(p), call[p].id), unread[call[p].obj] + 1)
  /\ UNCHANGED <<conversations, users, blocked, held, sent, save, file, bounds>>

\* Variant: takes one message off the counter.
MarkDMAsReadByOne(p) ==
  /\ In(p, "MarkDMAsRead") /\ Return(p)
  /\ Becomes(p, Here(p), unread[call[p].obj] - 1)
  /\ UNCHANGED <<conversations, users, blocked, held, sent, save, file, bounds>>

MarkDMAsRead(p) ==
  /\ In(p, "MarkDMAsRead") /\ Return(p)
  /\ Becomes(p, Here(p), 0)
  /\ UNCHANGED <<conversations, users, blocked, held, sent, save, file, bounds>>

\* Variant: forgets the counter.
ClearDMHistoryOnly(p) ==
  /\ In(p, "ClearDMHistory") /\ Return(p)
  /\ Becomes(p, <<>>, unread[call[p].obj])
  /\ UNCHANGED <<conversations, users, blocked, held, sent, save, file, bounds>>

ClearDMHistory(p) ==
  /\ In(p, "ClearDMHistory") /\ Return(p)
  /\ Becomes(p, <<>>, 0)
  /\ UNCHANGED <<conversations, users, blocked, held, sent, save, file, bounds>>

Sets(p, op) ==
  /\ In(p, op) /\ Return(p)
  /\ UNCHANGED <<store, users, blocked, held, sent, save, file, bounds>>

Set(p)             == Sets(p, "Set")
SetDMDraft(p)      == Sets(p, "SetDMDraft")
DeleteDMMessage(p) == Sets(p, "DeleteDMMessage")
Look(p)            == Sets(p, "Look")
-----------------------------------------------------------------------------
(* The file. *)

\* Save gives cm.mu back with references to the maps in its hands.
BeginSave ==
  /\ save.stage = "none" /\ ~held /\ bounds.saves < MaxSaves
  /\ save' = [NoSave EXCEPT !.stage = "begun"]
  /\ bounds' = [bounds EXCEPT !.saves = @ + 1]
  /\ UNCHANGED <<store, users, blocked, held, call, sent, file>>

\* When the encoder comes to the conversations it takes the objects there are.
BeginEncode ==
  /\ save.stage = "begun"
  /\ save' = [save EXCEPT !.stage = "encoding", !.objs = conversations,
                          !.todo = {part \in Peers \X {"messages", "unread"} :
                                      conversations[part[1]] # NoObj}]
  /\ UNCHANGED <<store, users, blocked, held, call, sent, file, bounds>>

\* A conversation's messages are encoded before its counter.
EncodeMessages(u) ==
  /\ <<u, "messages">> \in save.todo
  /\ save' = [save EXCEPT !.todo = @ \ {<<u, "messages">>},
                          !.rows[u].found = TRUE, !.rows[u].msgs = msgs[save.objs[u]]]
  /\ UNCHANGED <<store, users, blocked, held, call, sent, file, bounds>>

EncodeUnread(u) ==
  /\ <<u, "unread">> \in save.todo /\ <<u, "messages">> \notin save.todo
  /\ save' = [save EXCEPT !.todo = @ \ {<<u, "unread">>},
                          !.rows[u].unread = unread[save.objs[u]]]
  /\ UNCHANGED <<store, users, blocked, held, call, sent, file, bounds>>

EndSave ==
  /\ save.stage = "encoding" /\ save.todo = {}
  /\ file' = save.rows /\ save' = NoSave
  /\ UNCHANGED <<store, users, blocked, held, call, sent, bounds>>

\* loadData gives the conversations objects of their own.  Who is blocked is
\* known to localUser only, and that is made anew.  users are encoded before
\* the conversations: some of those who have one may be missing.
Restart ==
  LET saved == {u \in Peers : file[u].found}
  IN /\ bounds.crashes < MaxCrashes
     /\ \E f \in [saved -> Objs] :
          /\ \A u, v \in saved : f[u] = f[v] => u = v
          /\ conversations' = [u \in Peers |-> IF u \in saved THEN f[u] ELSE NoObj]
          /\ msgs' = [o \in Objs |->
               IF \E u \in saved : f[u] = o
               THEN file[CHOOSE u \in saved : f[u] = o].msgs ELSE <<>>]
          /\ unread' = [o \in Objs |->
               IF \E u \in saved : f[u] = o
               THEN file[CHOOSE u \in saved : f[u] = o].unread ELSE 0]
     /\ users' \in SUBSET users /\ blocked' = {} /\ held' = FALSE
     /\ call' = [p \in Procs |-> Idle] /\ save' = NoSave
     /\ bounds' = [bounds EXCEPT !.crashes = @ + 1]
     /\ UNCHANGED <<sent, file>>
-----------------------------------------------------------------------------
Section(p) == \/ KnowReceiver(p) \/ Panic(p) \/ CheckBlocked(p) \/ Find(p)
              \/ DeleteConversation(p) \/ BlockUser(p)
              \/ SendDM(p) \/ receiveDM(p) \/ MarkDMAsRead(p) \/ ClearDMHistory(p)
              \/ Set(p) \/ SetDMDraft(p) \/ DeleteDMMessage(p) \/ Look(p)
Save == BeginSave \/ BeginEncode \/ EndSave \/ \E u \in Peers : EncodeMessages(u) \/ EncodeUnread(u)

Next == \/ \E p \in Procs : \/ \E op \in Operations, u \in Peers, m \in Ids \cup {NoId} :
                                 Begin(p, op, u, m)
                            \/ Section(p)
        \/ Save \/ Restart

Spec == Init /\ [][Next]_vars
-----------------------------------------------------------------------------
\* Every variable has the values the program gives it; no counter of unread
\* messages falls below zero, however calls on one conversation meet.
TypeOK ==
  /\ conversations \in [Peers -> Objs \cup {NoObj}]
  /\ msgs \in [Objs -> Seq(Ids)] /\ unread \in [Objs -> Nat]
  /\ users \subseteq Peers /\ blocked \subseteq Peers /\ held \in BOOLEAN
  /\ call \in [Procs -> Calls] /\ sent \subseteq Own
  /\ save.todo \subseteq Peers \X {"messages", "unread"}

\* However copies of a message, deletions, saves and restarts meet, a
\* conversation lists a message once and only messages exchanged with its
\* peer (receiveDM looks for the message where it stores it, and the file
\* keeps the ids).
DMsOnce ==
  /\ \A o \in Objs : Distinct(msgs[o])
  /\ \A u \in Peers : conversations[u] # NoObj =>
       \A m \in Listed(msgs[conversations[u]]) : With[m] = u

\* The badge of a conversation never counts messages that are not there: as
\* long as the program runs, no call takes the list below the counter.  (A
\* restart can: a message that comes between the encoding of the list and of
\* the counter is in the file only as a number.)
Fits(o) == unread[o] <= Len(msgs[o])
UnreadFits ==
  [][\A o \in Objs : Fits(o) => Fits(o)' \/ bounds'.crashes > bounds.crashes]_vars
=============================================================================
