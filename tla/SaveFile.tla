------------------------------ MODULE SaveFile ------------------------------
(***************************************************************************)
(* How the daemon keeps its state on disk.  Every manager holds its state  *)
(* in memory and rewrites one JSON file, in one of two ways:               *)
(*                                                                         *)
(*   "shared"   names, chat, market and escrow: temporary file, then       *)
(*              rename, after the read lock has been given back            *)
(*   "inplace"  BanList, PeerScorer, E2EManager and peer.Store: the file   *)
(*              itself is truncated and written under the read lock        *)
(*                                                                         *)
(* Several goroutines save: the ones handlers spawn with `go Save()`, the  *)
(* periodic one of Node.maintenance and Node.Stop.  All of them use the    *)
(* same temporary name.  A version is a number: the state after so many    *)
(* changes; 0 is the state a manager starts with when it has no file it    *)
(* can read, and the content of a file that has been truncated.  The       *)
(* version of a file is the one of its oldest part.                        *)
(*                                                                         *)
(* The file system is the one of the operating system: a file that is      *)
(* renamed is still the file of everyone who has it open.  Only the        *)
(* process fails here, not the machine, so no step is lost or reordered.   *)
(***************************************************************************)
EXTENDS Integers

CONSTANTS
  Protocols,    \* the protocols considered
  Savers,       \* goroutines that save
  Files,        \* inodes
  NoFile,       \* no inode: the name does not exist
  MaxVersion,   \* bound: changes made to the state
  MaxCrashes,   \* bound: restarts of the process
  MaxFailures   \* bound: saves the file system refuses

ASSUME ProtocolsAssumption == Protocols \subseteq {"shared", "inplace"}
ASSUME FilesAssumption == NoFile \notin Files
ASSUME BoundsAssumption ==
  MaxVersion \in Nat /\ MaxCrashes \in Nat /\ MaxFailures \in Nat

VARIABLES
  protocol,  \* the one this file is saved by, for good
  mem,       \* version in memory
  issued,    \* newest version that ever was
  live,      \* the file under the path that is loaded
  tmp,       \* the file under the temporary name
  content,   \* version in each file
  pc,        \* where each saver is
  fd,        \* the file each saver has open
  buf,       \* the version each saver has encoded
  began,     \* history: version in memory when the save was called
  alone,     \* history: has no other save run since this one was called?
  acked,     \* history: newest version since the start of the process that a
             \* save that returned nil was called for
  crossed,   \* history: have two saves run at a time since the start of the
             \* process, or since one that ran alone was done?
  crashes, failures

fileVars  == <<live, tmp, content>>
saverVars == <<pc, fd, buf, began, alone>>
history   == <<acked, crossed>>
diskVars  == <<protocol, mem, issued, fileVars, saverVars, history, crashes,
               failures>>

Places == {"idle", "create", "encode", "truncate", "write", "rename"}

SaveInit ==
  /\ protocol \in Protocols
  /\ mem = 0 /\ issued = 0 /\ acked = 0 /\ crashes = 0 /\ failures = 0
  /\ live = NoFile /\ tmp = NoFile
  /\ content = [f \in Files |-> 0]
  /\ pc = [s \in Savers |-> "idle"]
  /\ fd = [s \in Savers |-> NoFile]
  /\ buf = [s \in Savers |-> 0]
  /\ began = [s \in Savers |-> 0]
  /\ alone = [s \in Savers |-> FALSE]
  /\ crossed = FALSE

LiveVersion == IF live = NoFile THEN 0 ELSE content[live]

\* Inodes nobody refers to.
Free == {f \in Files : f # live /\ f # tmp /\ \A s \in Savers : fd[s] # f}

Idle(s) == pc[s] = "idle"

Goto(s, place) == pc' = [pc EXCEPT ![s] = place]

\* Save returns; what it held is garbage.
Return(s) ==
  /\ Goto(s, "idle")
  /\ fd' = [fd EXCEPT ![s] = NoFile]
  /\ buf' = [buf EXCEPT ![s] = 0]
  /\ began' = [began EXCEPT ![s] = 0]
  /\ alone' = [alone EXCEPT ![s] = FALSE]

-----------------------------------------------------------------------------
\* An operation of the manager.  The in-place savers hold the read lock until
\* they are done, which keeps it waiting.
Mutate ==
  /\ issued < MaxVersion
  /\ protocol = "inplace" => \A s \in Savers : Idle(s)
  /\ issued' = issued + 1
  /\ mem' = issued + 1
  /\ UNCHANGED <<protocol, fileVars, saverVars, history, crashes, failures>>

\* Save is called: by the maintenance loop, or by a goroutine of its own.
Begin(s) ==
  /\ Idle(s)
  /\ Goto(s, IF protocol = "inplace" THEN "encode" ELSE "create")
  /\ began' = [began EXCEPT ![s] = mem]
  /\ LET others == {t \in Savers \ {s} : ~Idle(t)}
     IN  /\ alone' = [t \in Savers |-> IF t = s THEN others = {} ELSE FALSE]
         /\ crossed' = (crossed \/ others # {})
  /\ UNCHANGED <<protocol, mem, issued, fileVars, fd, buf, acked, crashes, failures>>

\* Variant: it is an error that the temporary file exists.
CreateExclusive(s) ==
  /\ pc[s] = "create"
  /\ \/ /\ tmp # NoFile
        /\ Return(s)
        /\ UNCHANGED <<tmp, content>>
     \/ /\ tmp = NoFile
        /\ \E f \in Free :
             /\ tmp' = f
             /\ content' = [content EXCEPT ![f] = 0]
             /\ fd' = [fd EXCEPT ![s] = f]
        /\ Goto(s, "encode")
        /\ UNCHANGED <<buf, began, alone>>
  /\ UNCHANGED <<protocol, mem, issued, live, history, crashes, failures>>

\* Variant: the path itself is opened.
CreateLive(s) ==
  /\ pc[s] = "create"
  /\ \E f \in (IF live = NoFile THEN Free ELSE {live}) :
       /\ tmp' = f
       /\ content' = [content EXCEPT ![f] = 0]
       /\ fd' = [fd EXCEPT ![s] = f]
  /\ Goto(s, "encode")
  /\ UNCHANGED <<protocol, mem, issued, live, buf, began, alone, history,
                 crashes, failures>>

\* os.Create: a new file, or the one that is there, truncated.
Create(s) ==
  /\ pc[s] = "create"
  /\ \E f \in (IF tmp = NoFile THEN Free ELSE {tmp}) :
       /\ tmp' = f
       /\ content' = [content EXCEPT ![f] = 0]
       /\ fd' = [fd EXCEPT ![s] = f]
  /\ Goto(s, "encode")
  /\ UNCHANGED <<protocol, mem, issued, live, buf, began, alone, history,
                 crashes, failures>>

\* The encoder reads the live state.  What Save referred to by slices, such as
\* the messages of a room, it reads as it was when Save was called.
Encode(s) ==
  /\ pc[s] = "encode"
  /\ \E v \in {began[s], mem} : buf' = [buf EXCEPT ![s] = v]
  /\ Goto(s, IF protocol = "inplace" THEN "truncate" ELSE "write")
  /\ UNCHANGED <<protocol, mem, issued, fileVars, fd, began, alone, history,
                 crashes, failures>>

\* os.WriteFile opens the path itself with O_TRUNC.
Truncate(s) ==
  /\ pc[s] = "truncate"
  /\ \E f \in (IF live = NoFile THEN Free ELSE {live}) :
       /\ live' = f
       /\ content' = [content EXCEPT ![f] = 0]
       /\ fd' = [fd EXCEPT ![s] = f]
  /\ Goto(s, "write")
  /\ UNCHANGED <<protocol, mem, issued, tmp, buf, began, alone, history,
                 crashes, failures>>

Acknowledge(s) == acked' = IF began[s] > acked THEN began[s] ELSE acked

\* Everything is written in one call.  In place, that is the end of the save.
Write(s) ==
  /\ pc[s] = "write"
  /\ content' = [content EXCEPT ![fd[s]] = buf[s]]
  /\ IF protocol = "inplace"
     THEN Acknowledge(s) /\ Return(s)
     ELSE Goto(s, "rename") /\ UNCHANGED <<acked, fd, buf, began, alone>>
  /\ UNCHANGED <<protocol, mem, issued, live, tmp, crossed, crashes, failures>>

\* os.Rename moves whatever file has the temporary name, and fails when there
\* is none.
Rename(s) ==
  /\ pc[s] = "rename"
  /\ IF tmp = NoFile
     THEN UNCHANGED <<live, tmp, history>>
     ELSE /\ live' = tmp /\ tmp' = NoFile
          /\ Acknowledge(s)
          /\ crossed' = (crossed /\ ~alone[s])
  /\ Return(s)
  /\ UNCHANGED <<protocol, mem, issued, content, crashes, failures>>

\* Variant: what cannot be written is renamed all the same.
FailIgnored(s) ==
  /\ failures < MaxFailures
  /\ pc[s] = "write" /\ protocol = "shared"
  /\ failures' = failures + 1
  /\ Goto(s, "rename")
  /\ UNCHANGED <<protocol, mem, issued, fileVars, fd, buf, began, alone, history,
                 crashes>>

\* Opening, writing or renaming fails.  What was opened under the temporary
\* name is removed when writing fails, and only then.
Fail(s) ==
  /\ failures < MaxFailures
  /\ pc[s] \in {"create", "truncate", "write", "rename"}
  /\ failures' = failures + 1
  /\ tmp' = IF pc[s] = "write" /\ protocol # "inplace" THEN NoFile ELSE tmp
  /\ Return(s)
  /\ UNCHANGED <<protocol, mem, issued, live, content, history, crashes>>

\* The process ends and starts again with what it can read.
Restart ==
  /\ crashes < MaxCrashes
  /\ crashes' = crashes + 1
  /\ mem' = LiveVersion /\ acked' = LiveVersion /\ crossed' = FALSE
  /\ pc' = [s \in Savers |-> "idle"]
  /\ fd' = [s \in Savers |-> NoFile]
  /\ buf' = [s \in Savers |-> 0]
  /\ began' = [s \in Savers |-> 0]
  /\ alone' = [s \in Savers |-> FALSE]
  /\ UNCHANGED <<protocol, issued, fileVars, failures>>

Saving(s) ==
  Begin(s) \/ Create(s) \/ Encode(s) \/ Truncate(s) \/ Write(s) \/ Rename(s)

SaveNext ==
  \/ Mutate
  \/ \E s \in Savers : Saving(s) \/ Fail(s)
  \/ Restart

\* The periodic save never stops, and a call that has begun goes on.
SaveFairness == \A s \in Savers : WF_diskVars(Saving(s))

SaveSpec     == SaveInit /\ [][SaveNext]_diskVars
SaveFairSpec == SaveSpec /\ SaveFairness

-----------------------------------------------------------------------------
SaveTypeOK ==
  /\ protocol \in Protocols
  /\ mem \in Nat /\ issued \in Nat /\ acked \in Nat
  /\ crashes \in Nat /\ failures \in Nat
  /\ live \in Files \cup {NoFile} /\ tmp \in Files \cup {NoFile}
  /\ content \in [Files -> Nat]
  /\ pc \in [Savers -> Places]
  /\ fd \in [Savers -> Files \cup {NoFile}]
  /\ buf \in [Savers -> Nat] /\ began \in [Savers -> Nat]
  /\ alone \in [Savers -> BOOLEAN] /\ crossed \in BOOLEAN

\* Names, chat, market and escrow: what a save that returned nil has written is
\* there after a restart, or something newer is, unless two saves have run at a
\* time.  Refused and interrupted saves, and what they leave under the temporary
\* name, do no harm (Save against loadData).
KeepsAcked ==
  [][protocol = "shared" /\ ~crossed /\ crashes' # crashes => mem' >= acked]_diskVars

\* Nor does their file go back to an older version, or is it truncated; and
\* after two saves have crossed, one that runs alone mends what they have done.
NeverOlder ==
  [][protocol = "shared" /\ ~crossed' => LiveVersion' >= LiveVersion]_diskVars

\* Whatever the savers do to each other, the newest state reaches the file,
\* unless the process ended first (the periodic save of Node.maintenance).
SavedInTheEnd ==
  \A v \in 1..MaxVersion : mem = v ~> (LiveVersion >= v \/ mem < v)
=============================================================================
