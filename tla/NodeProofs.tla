----------------------------- MODULE NodeProofs -----------------------------
(***************************************************************************)
(* What a node lets in, and how it keeps what it knows on disk.            *)
(*                                                                         *)
(* SaveFile: where names, chat, market and escrow save, for any number of  *)
(* savers, changes, restarts and refused writes, a restart finds what was  *)
(* acknowledged and the file does not go back to an older version, as long *)
(* as no two saves run at a time.                                          *)
(*                                                                         *)
(* Admission: the rate limiter keeps to its rate for every burst, rate and *)
(* cleanup window that LimiterAssumption allows, whatever arrives, is      *)
(* lost, is banned or is cleaned up.                                       *)
(***************************************************************************)
EXTENDS Admission, SaveFile, WellFoundedInduction, TLAPS

-----------------------------------------------------------------------------
(* The file. *)

\* A save reads what there was when it was called, or later, and what has the
\* temporary name meanwhile is not of an earlier run of the process.
Sound(s) ==
  /\ pc[s] # "truncate"
  /\ ~Idle(s) => began[s] <= mem
  /\ pc[s] \in {"write", "rename"} => began[s] <= buf[s] /\ buf[s] <= mem
  /\ pc[s] \in {"encode", "write", "rename"} /\ tmp # NoFile => content[tmp] <= mem

\* A saver that is alone has the temporary file for itself, and nothing was
\* acknowledged, or is in the file, that is newer than what it was called for.
Undisturbed(s) ==
  alone[s] /\ ~Idle(s) =>
    /\ \A t \in Savers : t # s => Idle(t)
    /\ acked <= began[s] /\ LiveVersion <= began[s]
    /\ pc[s] \in {"encode", "write", "rename"} => fd[s] = tmp /\ tmp # NoFile
    /\ pc[s] = "rename" => content[tmp] = buf[s]

\* Nobody writes the live file but by crossing another, and it is not from the
\* future even then.
SaveInv ==
  /\ SaveTypeOK
  /\ tmp # NoFile => tmp # live
  /\ LiveVersion <= mem /\ acked <= mem /\ mem <= issued
  /\ ~crossed => acked <= LiveVersion /\ \A s \in Savers : Idle(s) \/ alone[s]
  /\ \A s \in Savers : Sound(s) /\ Undisturbed(s)

SharedInv == protocol = "shared" => SaveInv

\* The part of it that no saver takes part in.
FileInv ==
  /\ SaveTypeOK
  /\ tmp # NoFile => tmp # live
  /\ LiveVersion <= mem /\ acked <= mem /\ mem <= issued

LEMMA InitSave == SaveInit => SaveInv
<1> SUFFICES ASSUME SaveInit PROVE SaveInv
  OBVIOUS
<1>1. alone \in [Savers -> BOOLEAN] /\ crossed \in BOOLEAN
  BY DEF SaveInit
<1>2. SaveTypeOK
  BY <1>1 DEF SaveInit, SaveTypeOK, Places
<1> QED
  BY <1>2 DEF SaveInit, SaveInv, Sound, Undisturbed, Idle, LiveVersion

LEMMA LiveIsNat == SaveTypeOK => LiveVersion \in Nat
  BY DEF SaveTypeOK, LiveVersion

LEMMA MutateStep ==
  ASSUME SaveInv, Mutate
  PROVE  SaveInv' /\ LiveVersion' = LiveVersion
<1>1. /\ UNCHANGED <<protocol, live, tmp, content, pc, fd, buf, began, alone, acked,
                     crossed, crashes, failures>>
      /\ mem' = issued + 1 /\ issued' = issued + 1
  BY DEF Mutate, fileVars, saverVars, history
<1>2. LiveVersion' = LiveVersion /\ LiveVersion \in Nat
  BY <1>1, LiveIsNat DEF LiveVersion, SaveInv
<1>3. mem' \in Nat /\ mem <= mem' /\ mem \in Nat
  BY <1>1 DEF SaveInv, SaveTypeOK
<1>4. FileInv'
  BY <1>1, <1>2, <1>3 DEF FileInv, SaveInv, SaveTypeOK
<1>5. ASSUME NEW s \in Savers PROVE Sound(s)' /\ Undisturbed(s)'
  <2>1. Sound(s)'
    <3>1. /\ began[s] \in Nat /\ buf[s] \in Nat
          /\ tmp # NoFile => content[tmp] \in Nat
      BY DEF SaveInv, SaveTypeOK
    <3> QED BY <1>1, <1>3, <3>1 DEF SaveInv, Sound, Idle
  <2>2. Undisturbed(s)'
    BY <1>1, <1>2 DEF SaveInv, Undisturbed, Idle
  <2> QED BY <2>1, <2>2
<1> QED BY <1>1, <1>2, <1>4, <1>5 DEF SaveInv, FileInv, Idle

LEMMA BeginStep ==
  ASSUME SaveInv, protocol = "shared", NEW s \in Savers, Begin(s)
  PROVE  SaveInv' /\ LiveVersion' = LiveVersion
<1> DEFINE others == {t \in Savers \ {s} : ~Idle(t)}
<1>1. /\ UNCHANGED <<protocol, mem, issued, live, tmp, content, fd, buf, acked,
                     crashes, failures>>
      /\ pc[s] = "idle" /\ pc' = [pc EXCEPT ![s] = "create"]
      /\ began' = [began EXCEPT ![s] = mem]
      /\ alone' = [t \in Savers |-> IF t = s THEN others = {} ELSE FALSE]
      /\ crossed' = (crossed \/ others # {})
  BY DEF Begin, Goto, Idle, fileVars
<1>2. LiveVersion' = LiveVersion
  BY <1>1 DEF LiveVersion
<1>3. FileInv'
  <2>1. SaveTypeOK'
    BY <1>1 DEF SaveInv, SaveTypeOK, Places
  <2> QED BY <1>1, <1>2, <2>1 DEF FileInv, SaveInv
<1>4. ~crossed' => acked <= LiveVersion /\ \A t \in Savers : (Idle(t) \/ alone[t])'
  BY <1>1 DEF SaveInv, SaveTypeOK, Idle
<1>5. ASSUME NEW t \in Savers PROVE Sound(t)' /\ Undisturbed(t)'
  <2>1. CASE t = s
    <3>1. /\ pc'[s] = "create" /\ began'[s] = mem /\ mem \in Nat
          /\ alone'[s] => \A u \in Savers : u # s => Idle(u)
      BY <1>1 DEF SaveInv, SaveTypeOK
    <3>2. \A u \in Savers : u # s => pc'[u] = pc[u]
      BY <1>1 DEF SaveInv, SaveTypeOK
    <3> QED BY <1>1, <1>2, <2>1, <3>1, <3>2 DEF SaveInv, Sound, Undisturbed, Idle
  <2>2. CASE t # s
    <3>1. pc'[t] = pc[t] /\ began'[t] = began[t] /\ ~alone'[t]
      BY <1>1, <2>2 DEF SaveInv, SaveTypeOK
    <3> QED BY <1>1, <3>1 DEF SaveInv, Sound, Undisturbed, Idle
  <2> QED BY <2>1, <2>2
<1> QED BY <1>1, <1>2, <1>3, <1>4, <1>5 DEF SaveInv, FileInv

LEMMA CreateStep ==
  ASSUME SaveInv, NEW s \in Savers, Create(s)
  PROVE  SaveInv' /\ LiveVersion' = LiveVersion
<1>1. PICK f \in (IF tmp = NoFile THEN Free ELSE {tmp}) :
        /\ tmp' = f
        /\ content' = [content EXCEPT ![f] = 0]
        /\ fd' = [fd EXCEPT ![s] = f]
  BY DEF Create
<1>2. f \in Files /\ f # live /\ f # NoFile
  BY <1>1, FilesAssumption DEF Free, SaveInv, SaveTypeOK
<1>3. /\ live' = live /\ pc[s] = "create" /\ pc' = [pc EXCEPT ![s] = "encode"]
      /\ UNCHANGED <<protocol, mem, issued, buf, began, alone, acked, crossed,
                     crashes, failures>>
  BY DEF Create, Goto, history
<1>4. LiveVersion' = LiveVersion /\ content'[f] = 0
  BY <1>1, <1>2, <1>3 DEF LiveVersion, SaveInv, SaveTypeOK
<1>5. \A t \in Savers : t # s => pc'[t] = pc[t] /\ fd'[t] = fd[t]
  BY <1>1, <1>3 DEF SaveInv, SaveTypeOK
<1>6. pc'[s] = "encode" /\ fd'[s] = f /\ mem \in Nat
  BY <1>1, <1>3 DEF SaveInv, SaveTypeOK
<1>7. FileInv'
  <2>1. SaveTypeOK'
    BY <1>1, <1>2, <1>3 DEF SaveInv, SaveTypeOK, Places
  <2> QED BY <1>1, <1>2, <1>3, <1>4, <2>1 DEF FileInv, SaveInv
<1>8. ~crossed' => acked' <= LiveVersion' /\ \A t \in Savers : (Idle(t) \/ alone[t])'
  BY <1>3, <1>4, <1>5 DEF SaveInv, Idle
<1>9. ASSUME NEW t \in Savers PROVE Sound(t)' /\ Undisturbed(t)'
  <2>1. CASE t = s
    BY <1>1, <1>2, <1>3, <1>4, <1>5, <1>6, <2>1
    DEF SaveInv, Sound, Undisturbed, Idle
  <2>2. CASE t # s
    <3>1. ~(alone[t] /\ ~Idle(t))
      BY <1>3, <2>2 DEF SaveInv, Undisturbed, Idle
    <3> QED BY <1>1, <1>3, <1>4, <1>5, <1>6, <2>2, <3>1
            DEF SaveInv, Sound, Undisturbed, Idle
  <2> QED BY <2>1, <2>2
<1> QED BY <1>4, <1>7, <1>8, <1>9 DEF SaveInv, FileInv

LEMMA EncodeStep ==
  ASSUME SaveInv, protocol = "shared", NEW s \in Savers, Encode(s)
  PROVE  SaveInv' /\ LiveVersion' = LiveVersion
<1>1. PICK v \in {began[s], mem} : buf' = [buf EXCEPT ![s] = v]
  BY DEF Encode
<1>2. /\ pc[s] = "encode" /\ pc' = [pc EXCEPT ![s] = "write"]
      /\ UNCHANGED <<protocol, mem, issued, live, tmp, content, fd, began, alone,
                     acked, crossed, crashes, failures>>
  BY DEF Encode, Goto, fileVars, history
<1>3. LiveVersion' = LiveVersion
  BY <1>2 DEF LiveVersion
<1>4. \A t \in Savers : t # s => pc'[t] = pc[t] /\ buf'[t] = buf[t]
  BY <1>1, <1>2 DEF SaveInv, SaveTypeOK
<1>5. /\ pc'[s] = "write" /\ buf'[s] = v /\ began[s] <= v /\ v <= mem /\ v \in Nat
      /\ began[s] <= mem
  <2>1. began[s] <= mem /\ began[s] \in Nat /\ mem \in Nat
    BY <1>2 DEF SaveInv, SaveTypeOK, Sound, Idle
  <2> QED BY <1>1, <1>2, <2>1 DEF SaveInv, SaveTypeOK
<1>6. FileInv'
  <2>1. SaveTypeOK'
    BY <1>1, <1>2, <1>5 DEF SaveInv, SaveTypeOK, Places
  <2> QED BY <1>2, <1>3, <2>1 DEF FileInv, SaveInv
<1>7. ~crossed' => acked' <= LiveVersion' /\ \A t \in Savers : (Idle(t) \/ alone[t])'
  BY <1>2, <1>3, <1>4 DEF SaveInv, Idle
<1>8. ASSUME NEW t \in Savers PROVE Sound(t)' /\ Undisturbed(t)'
  <2>1. CASE t = s
    BY <1>2, <1>3, <1>4, <1>5, <2>1 DEF SaveInv, Sound, Undisturbed, Idle
  <2>2. CASE t # s
    <3>1. ~(alone[t] /\ ~Idle(t))
      BY <1>2, <2>2 DEF SaveInv, Undisturbed, Idle
    <3> QED BY <1>2, <1>4, <2>2, <3>1 DEF SaveInv, Sound, Undisturbed, Idle
  <2> QED BY <2>1, <2>2
<1> QED BY <1>3, <1>6, <1>7, <1>8 DEF SaveInv, FileInv

\* Whatever file it has, the live one changes only if others save as well.
LEMMA WriteStep ==
  ASSUME SaveInv, protocol = "shared", NEW s \in Savers, Write(s)
  PROVE  SaveInv' /\ (~crossed' => LiveVersion' = LiveVersion)
<1>1. /\ pc[s] = "write" /\ pc' = [pc EXCEPT ![s] = "rename"]
      /\ content' = [content EXCEPT ![fd[s]] = buf[s]]
      /\ UNCHANGED <<protocol, mem, issued, live, tmp, fd, buf, began, alone, acked,
                     crossed, crashes, failures>>
  BY DEF Write, Goto
<1>2. /\ buf[s] \in Nat /\ buf[s] <= mem /\ began[s] <= buf[s] /\ began[s] <= mem
      /\ mem \in Nat
  BY <1>1 DEF SaveInv, SaveTypeOK, Sound, Idle
<1>3. /\ content' \in [Files -> Nat]
      /\ \A f \in Files : /\ content'[f] = content[f] \/ content'[f] = buf[s]
                          /\ f # fd[s] => content'[f] = content[f]
                          /\ f = fd[s] => content'[f] = buf[s]
  BY <1>1, <1>2 DEF SaveInv, SaveTypeOK
<1>4. \A t \in Savers : t # s => pc'[t] = pc[t]
  BY <1>1 DEF SaveInv, SaveTypeOK
<1>5. pc'[s] = "rename"
  BY <1>1 DEF SaveInv, SaveTypeOK
<1>6. LiveVersion' <= mem
  BY <1>1, <1>2, <1>3 DEF LiveVersion, SaveInv, SaveTypeOK
<1>7. alone[s] => /\ fd[s] = tmp /\ tmp # NoFile /\ tmp # live /\ tmp \in Files
                  /\ LiveVersion' = LiveVersion
  BY <1>1, <1>3 DEF LiveVersion, SaveInv, SaveTypeOK, Undisturbed, Idle
<1>8. ~crossed => alone[s]
  BY <1>1 DEF SaveInv, Idle
<1>9. FileInv'
  <2>1. SaveTypeOK'
    BY <1>1, <1>3 DEF SaveInv, SaveTypeOK, Places
  <2> QED BY <1>1, <1>6, <2>1 DEF FileInv, SaveInv
<1>10. ~crossed' => acked' <= LiveVersion' /\ \A t \in Savers : (Idle(t) \/ alone[t])'
  BY <1>1, <1>4, <1>5, <1>7, <1>8 DEF SaveInv, Idle
<1>11. tmp # NoFile => content'[tmp] <= mem \/ content'[tmp] = content[tmp]
  BY <1>2, <1>3 DEF SaveInv, SaveTypeOK
<1>12. ASSUME NEW t \in Savers PROVE Sound(t)' /\ Undisturbed(t)'
  <2>1. CASE t = s
    <3>1. Sound(s)'
      BY <1>1, <1>2, <1>5, <1>11 DEF SaveInv, Sound, Idle
    <3>2. Undisturbed(s)'
      BY <1>1, <1>3, <1>4, <1>5, <1>7 DEF SaveInv, Undisturbed, Idle
    <3> QED BY <2>1, <3>1, <3>2
  <2>2. CASE t # s
    <3>1. ~(alone[t] /\ ~Idle(t))
      BY <1>1, <2>2 DEF SaveInv, Undisturbed, Idle
    <3> QED BY <1>1, <1>4, <1>11, <2>2, <3>1 DEF SaveInv, Sound, Undisturbed, Idle
  <2> QED BY <2>1, <2>2
<1> QED BY <1>1, <1>7, <1>8, <1>9, <1>10, <1>12 DEF SaveInv, FileInv

\* A saver that returns leaves the others as they were.
LEMMA ReturnStep ==
  ASSUME SaveTypeOK, NEW s \in Savers, Return(s)
  PROVE  /\ pc' \in [Savers -> Places]
         /\ fd' \in [Savers -> Files \cup {NoFile}]
         /\ buf' \in [Savers -> Nat] /\ began' \in [Savers -> Nat]
         /\ alone' \in [Savers -> BOOLEAN]
         /\ pc'[s] = "idle"
         /\ \A t \in Savers : t # s =>
              /\ pc'[t] = pc[t] /\ fd'[t] = fd[t] /\ buf'[t] = buf[t]
              /\ began'[t] = began[t] /\ alone'[t] = alone[t]
  BY DEF Return, Goto, SaveTypeOK, Places

\* With a saver that returns, nobody else was alone, or nobody else is there.
LEMMA ReturnKeeps ==
  ASSUME SaveInv, NEW s \in Savers, ~Idle(s), Return(s), mem' = mem,
         tmp' # NoFile => content'[tmp'] = content[tmp] /\ tmp # NoFile,
         NEW t \in Savers
  PROVE  Sound(t)' /\ Undisturbed(t)'
<1>1. /\ pc'[s] = "idle"
      /\ \A u \in Savers : u # s =>
           /\ pc'[u] = pc[u] /\ fd'[u] = fd[u] /\ buf'[u] = buf[u]
           /\ began'[u] = began[u] /\ alone'[u] = alone[u]
  BY ReturnStep DEF SaveInv
<1>2. CASE t = s
  BY <1>1, <1>2 DEF Sound, Undisturbed, Idle
<1>3. CASE t # s
  <2>1. ~(alone[t] /\ ~Idle(t))
    BY <1>3 DEF SaveInv, Undisturbed
  <2> QED BY <1>1, <1>3, <2>1 DEF SaveInv, Sound, Undisturbed, Idle
<1> QED BY <1>2, <1>3

\* What one that was alone renames is as new as what it was called for.
LEMMA RenameStep ==
  ASSUME SaveInv, NEW s \in Savers, Rename(s)
  PROVE  SaveInv' /\ (~crossed' => LiveVersion' >= LiveVersion)
<1>1. /\ Return(s) /\ pc[s] = "rename" /\ SaveTypeOK /\ ~Idle(s)
      /\ UNCHANGED <<protocol, mem, issued, content, crashes, failures>>
  BY DEF Rename, SaveInv, Idle
<1>2. /\ began[s] <= buf[s] /\ began[s] <= mem /\ began[s] \in Nat /\ buf[s] \in Nat
      /\ mem \in Nat /\ acked \in Nat /\ LiveVersion \in Nat
  BY <1>1, LiveIsNat DEF SaveInv, SaveTypeOK, Sound
<1>3. \A t \in Savers : pc'[t] = pc[t] \/ pc'[t] = "idle"
  BY <1>1, ReturnStep
<1>4. \A t \in Savers : (Idle(t) \/ alone[t]) => (Idle(t) \/ alone[t])'
  BY <1>1, ReturnStep DEF Idle
<1>5. CASE tmp = NoFile
  <2>1. UNCHANGED <<live, tmp, acked, crossed, LiveVersion>>
    BY <1>1, <1>5 DEF Rename, history, LiveVersion
  <2>2. SaveTypeOK'
    BY <1>1, <2>1, ReturnStep DEF SaveTypeOK
  <2>3. \A t \in Savers : Sound(t)' /\ Undisturbed(t)'
    BY <1>1, <1>5, <2>1, ReturnKeeps
  <2> QED BY <1>1, <1>2, <1>4, <2>1, <2>2, <2>3 DEF SaveInv
<1>6. CASE tmp # NoFile
  <2>1. /\ live' = tmp /\ tmp' = NoFile
        /\ acked' = IF began[s] > acked THEN began[s] ELSE acked
        /\ crossed' = (crossed /\ ~alone[s])
    BY <1>6 DEF Rename, Acknowledge
  <2>2. LiveVersion' = content[tmp] /\ content[tmp] <= mem
    BY <1>1, <1>6, <2>1 DEF LiveVersion, SaveInv, Sound
  <2>3. SaveTypeOK'
    BY <1>1, <1>2, <2>1, ReturnStep DEF SaveTypeOK
  <2>4. \A t \in Savers : Sound(t)' /\ Undisturbed(t)'
    BY <1>1, <2>1, ReturnKeeps
  <2>5. FileInv'
    BY <1>1, <1>2, <2>1, <2>2, <2>3 DEF FileInv, SaveInv
  <2>6. ~crossed' => /\ acked' <= LiveVersion' /\ LiveVersion' >= LiveVersion
                     /\ \A t \in Savers : (Idle(t) \/ alone[t])'
    <3> SUFFICES ASSUME ~crossed' PROVE /\ acked' <= LiveVersion'
                                        /\ LiveVersion' >= LiveVersion
                                        /\ \A t \in Savers : (Idle(t) \/ alone[t])'
      OBVIOUS
    <3>1. alone[s]
      BY <1>1, <2>1 DEF SaveInv
    <3>2. /\ acked <= began[s] /\ LiveVersion <= began[s] /\ content[tmp] = buf[s]
          /\ \A t \in Savers : t # s => Idle(t)
      BY <1>1, <3>1 DEF SaveInv, Undisturbed
    <3>3. acked' <= LiveVersion' /\ LiveVersion' >= LiveVersion
      BY <1>2, <2>1, <2>2, <3>2
    <3>4. \A t \in Savers : (Idle(t) \/ alone[t])'
      BY <1>1, <3>2, ReturnStep DEF Idle
    <3> QED BY <3>3, <3>4
  <2> QED BY <2>4, <2>5, <2>6 DEF SaveInv, FileInv
<1> QED BY <1>5, <1>6

LEMMA FailStep ==
  ASSUME SaveInv, NEW s \in Savers, Fail(s)
  PROVE  SaveInv' /\ LiveVersion' = LiveVersion
<1>1. /\ Return(s) /\ ~Idle(s) /\ SaveTypeOK
      /\ UNCHANGED <<protocol, mem, issued, live, content, acked, crossed, crashes>>
      /\ failures' = failures + 1 /\ tmp' \in {tmp, NoFile}
  BY DEF Fail, SaveInv, Idle, history
<1>2. LiveVersion' = LiveVersion
  BY <1>1 DEF LiveVersion
<1>3. SaveTypeOK'
  BY <1>1, ReturnStep DEF SaveTypeOK
<1>4. \A t \in Savers : Sound(t)' /\ Undisturbed(t)'
  BY <1>1, ReturnKeeps
<1>5. \A t \in Savers : (Idle(t) \/ alone[t]) => (Idle(t) \/ alone[t])'
  BY <1>1, ReturnStep DEF Idle
<1> QED BY <1>1, <1>2, <1>3, <1>4, <1>5 DEF SaveInv

LEMMA RestartStep ==
  ASSUME SaveInv, Restart
  PROVE  SaveInv' /\ LiveVersion' = LiveVersion /\ (~crossed => mem' >= acked)
<1>1. LiveVersion' = LiveVersion /\ LiveVersion \in Nat
  BY LiveIsNat DEF Restart, fileVars, LiveVersion, SaveInv
<1>2. SaveTypeOK'
  <2>1. alone' \in [Savers -> BOOLEAN] /\ crossed' \in BOOLEAN
    BY DEF Restart
  <2> QED BY <1>1, <2>1 DEF Restart, fileVars, SaveInv, SaveTypeOK, Places
<1>3. \A t \in Savers : pc'[t] = "idle"
  BY DEF Restart
<1>4. FileInv' /\ acked' <= LiveVersion' /\ (~crossed => mem' >= acked)
  BY <1>1, <1>2 DEF Restart, fileVars, SaveInv, FileInv, SaveTypeOK
<1> QED BY <1>1, <1>3, <1>4 DEF SaveInv, FileInv, Sound, Undisturbed, Idle

LEMMA StutterStep ==
  ASSUME SaveInv, UNCHANGED diskVars
  PROVE  SaveInv' /\ LiveVersion' = LiveVersion
  BY DEF diskVars, fileVars, saverVars, history, SaveInv, SaveTypeOK, Sound,
         Undisturbed, Idle, LiveVersion

\* Every step keeps the invariant and does what the two properties ask.
LEMMA SharedStep ==
  ASSUME protocol = "shared", SaveInv, [SaveNext]_diskVars
  PROVE  /\ SaveInv'
         /\ ~crossed' => LiveVersion' >= LiveVersion
         /\ ~crossed /\ crashes' # crashes => mem' >= acked
<1>1. LiveVersion \in Nat
  BY LiveIsNat DEF SaveInv
<1>2. CASE Mutate
  BY <1>1, <1>2, MutateStep DEF Mutate
<1>3. ASSUME NEW s \in Savers, Saving(s)
      PROVE  /\ SaveInv' /\ crashes' = crashes
             /\ ~crossed' => LiveVersion' >= LiveVersion
  <2>0. crashes' = crashes
    BY <1>3 DEF Saving, Begin, Create, Encode, Truncate, Write, Rename
  <2>1. CASE Begin(s)
    BY <1>1, <2>0, <2>1, BeginStep
  <2>2. CASE Create(s)
    BY <1>1, <2>0, <2>2, CreateStep
  <2>3. CASE Encode(s)
    BY <1>1, <2>0, <2>3, EncodeStep
  <2>4. CASE Truncate(s)
    BY <2>4 DEF Truncate, SaveInv, Sound
  <2>5. CASE Write(s)
    BY <1>1, <2>0, <2>5, WriteStep
  <2>6. CASE Rename(s)
    BY <2>0, <2>6, RenameStep
  <2>7. QED BY <1>3, <2>1, <2>2, <2>3, <2>4, <2>5, <2>6 DEF Saving
<1>4. ASSUME NEW s \in Savers, Fail(s)
      PROVE  SaveInv' /\ LiveVersion' >= LiveVersion /\ crashes' = crashes
  BY <1>1, <1>4, FailStep DEF Fail
<1>5. CASE Restart
  BY <1>1, <1>5, RestartStep
<1>6. CASE UNCHANGED diskVars
  BY <1>1, <1>6, StutterStep DEF diskVars
<1>7. QED BY <1>2, <1>3, <1>4, <1>5, <1>6 DEF SaveNext

\* The protocol never changes, so the same holds whatever the protocol is.
LEMMA SaveStep ==
  ASSUME SharedInv, [SaveNext]_diskVars
  PROVE  /\ SharedInv'
         /\ protocol = "shared" /\ ~crossed' => LiveVersion' >= LiveVersion
         /\ protocol = "shared" /\ ~crossed /\ crashes' # crashes => mem' >= acked
<1>1. protocol' = protocol
  BY DEF SaveNext, diskVars, Mutate, Saving, Begin, Create, Encode, Truncate, Write,
         Rename, Fail, Restart
<1>2. CASE protocol = "shared"
  BY <1>1, <1>2, SharedStep DEF SharedInv
<1>3. CASE protocol # "shared"
  BY <1>1, <1>3 DEF SharedInv
<1>4. QED BY <1>2, <1>3

\* SharedInv is an invariant: as long as no two saves have crossed, what is
\* acknowledged is in the file, and the one saver has its temporary file for
\* itself, whatever was refused or interrupted before.
THEOREM SaveInvariant == SaveSpec => []SharedInv
<1>1. SaveInit => SharedInv
  BY InitSave DEF SharedInv
<1>2. SharedInv /\ [SaveNext]_diskVars => SharedInv'
  BY SaveStep
<1>3. QED BY <1>1, <1>2, PTL DEF SaveSpec

\* A restart finds what the saves of names, chat, market and escrow have
\* acknowledged, or something newer, unless two of them have run at a time
\* (Save against loadData).
THEOREM SavesAreKept == SaveSpec => KeepsAcked
<1>1. SharedInv /\ [SaveNext]_diskVars =>
        [protocol = "shared" /\ ~crossed /\ crashes' # crashes
           => mem' >= acked]_diskVars
  BY SaveStep
<1>2. QED BY <1>1, SaveInvariant, PTL DEF SaveSpec, KeepsAcked

\* Their file does not go back, nor is it truncated, unless two saves have run
\* at a time; and one that runs alone mends what others have done (the rename
\* of Save).
THEOREM NeverGoesBack == SaveSpec => NeverOlder
<1>1. SharedInv /\ [SaveNext]_diskVars =>
        [protocol = "shared" /\ ~crossed' => LiveVersion' >= LiveVersion]_diskVars
  BY SaveStep
<1>2. QED BY <1>1, SaveInvariant, PTL DEF SaveSpec, NeverOlder

-----------------------------------------------------------------------------
(* Admission. *)

Bucket == [tokens : 0..Burst, idle : 0..(Window + 1)]

\* What a peer has had lately and what it may still have are no more than
\* the burst.  RateBound alone is not inductive: it does not say what is left
\* in the bucket.
LimiterInv ==
  /\ buckets \in [Peers -> Bucket \cup {None}]
  /\ level \in [Peers -> Nat]
  /\ \A p \in Peers : level[p] + Tokens(buckets[p]) <= Burst

\* A bucket holds no fewer tokens than none and no more than the burst.
LEMMA TokensBounded ==
  ASSUME NEW b \in Bucket \cup {None}
  PROVE  Tokens(b) \in 0..Burst
<1>1. CASE b = None
  BY <1>1, LimiterAssumption DEF Tokens
<1>2. CASE b # None
  <2>1. b \in Bucket
    BY <1>2
  <2>2. b.tokens \in 0..Burst /\ b.idle \in Nat
    BY <2>1, LimiterAssumption DEF Bucket
  <2>3. Rate * b.idle \in Nat
    BY <2>2, LimiterAssumption
  <2> QED
    BY <1>2, <2>2, <2>3, LimiterAssumption DEF Tokens, TakeMin
<1> QED
  BY <1>1, <1>2

\* None is no bucket.
LEMMA NoneIsNoBucket == None \notin Bucket
  BY LimiterAssumption, BansAssumption DEF Bucket

\* A bucket that the cleaner may remove is full: nothing is gained by it.
LEMMA StaleIsFull ==
  ASSUME NEW b \in Bucket \cup {None}, Stale(b)
  PROVE  Tokens(b) = Burst
<1>1. b # None /\ b \in Bucket /\ b.idle = Window + 1
  BY LimiterAssumption DEF Stale, Bucket
<1>2. b.tokens \in Nat
  BY <1>1, LimiterAssumption DEF Bucket
<1>3. Rate * b.idle >= Burst /\ Rate * b.idle \in Nat
  BY <1>1, LimiterAssumption
<1> QED
  BY <1>1, <1>2, <1>3, LimiterAssumption DEF Tokens, TakeMin

\* A tick adds the rate to a bucket, at most.
LEMMA IdlerGains ==
  ASSUME NEW b \in Bucket \cup {None}
  PROVE  /\ Idler(b) \in Bucket \cup {None}
         /\ Tokens(Idler(b)) <= Tokens(b) + Rate
<1>1. CASE b = None
  BY <1>1, LimiterAssumption DEF Idler, Tokens
<1>2. CASE b # None
  <2>1. b \in Bucket /\ b.tokens \in 0..Burst /\ b.idle \in 0..(Window + 1)
    BY <1>2 DEF Bucket
  <2> DEFINE i == TakeMin(b.idle + 1, Window + 1)
  <2>2. i \in 0..(Window + 1) /\ i <= b.idle + 1
    BY <2>1, LimiterAssumption DEF TakeMin
  <2>3. Idler(b) = [tokens |-> b.tokens, idle |-> i]
    BY <1>2, <2>1 DEF Idler, Bucket
  <2>4. Idler(b) \in Bucket /\ Idler(b) # None
    BY <2>1, <2>2, <2>3, NoneIsNoBucket DEF Bucket
  <2>5. Rate * i <= Rate * b.idle + Rate
    <3>1. i = b.idle + 1 \/ i = b.idle
      BY <2>1, LimiterAssumption DEF TakeMin
    <3>2. Rate * (b.idle + 1) = Rate * b.idle + Rate
      BY <2>1, LimiterAssumption
    <3>3. Rate * b.idle \in Nat
      BY <2>1, LimiterAssumption
    <3> QED
      BY <3>1, <3>2, <3>3, LimiterAssumption
  <2>6. Rate * i \in Nat /\ Rate * b.idle \in Nat
    BY <2>1, <2>2, LimiterAssumption
  <2>7. Tokens(Idler(b)) = TakeMin(Burst, b.tokens + Rate * i)
    BY <2>3, <2>4 DEF Tokens
  <2>8. Tokens(b) = TakeMin(Burst, b.tokens + Rate * b.idle)
    BY <1>2 DEF Tokens
  <2> HIDE DEF i
  <2> QED
    BY <2>1, <2>4, <2>5, <2>6, <2>7, <2>8, LimiterAssumption DEF TakeMin
<1> QED
  BY <1>1, <1>2

LEMMA LimiterInit == Init => LimiterInv
<1> SUFFICES ASSUME Init PROVE LimiterInv
  OBVIOUS
<1>1. buckets = [p \in Peers |-> None] /\ level = [p \in Peers |-> 0]
  BY DEF Init
<1>2. Tokens(None) = Burst
  BY DEF Tokens
<1> QED
  BY <1>1, <1>2, LimiterAssumption DEF LimiterInv

\* What the limiter lets pass it takes from the bucket.
LEMMA LimitKeeps ==
  ASSUME LimiterInv, NEW d, Limit(d)
  PROVE  LimiterInv'
<1> DEFINE q == d.peer
<1>1. /\ buckets' = [buckets EXCEPT ![q] = Spent(q)]
      /\ level' = IF Allowed(q) THEN [level EXCEPT ![q] = @ + 1] ELSE level
  BY DEF Limit
<1>2. ASSUME q \in Peers
      PROVE  /\ Spent(q) \in Bucket
             /\ Tokens(Spent(q))
                  = Tokens(buckets[q]) - (IF Allowed(q) THEN 1 ELSE 0)
  <2>1. Tokens(buckets[q]) \in 0..Burst
    BY <1>2, TokensBounded DEF LimiterInv
  <2> DEFINE t == Tokens(buckets[q]) - (IF Allowed(q) THEN 1 ELSE 0)
  <2>2. t \in 0..Burst
    BY <2>1, LimiterAssumption DEF Allowed
  <2>3. Spent(q) = [tokens |-> t, idle |-> 0]
    BY DEF Spent
  <2> HIDE DEF t
  <2>4. Spent(q) \in Bucket
    BY <2>2, <2>3, LimiterAssumption DEF Bucket
  <2>5. Spent(q) # None
    BY <2>4, NoneIsNoBucket
  <2>6. Rate * 0 = 0
    BY LimiterAssumption
  <2>7. Tokens(Spent(q)) = t
    BY <2>2, <2>3, <2>5, <2>6, LimiterAssumption DEF Tokens, TakeMin
  <2> QED
    BY <2>4, <2>7 DEF t
<1> HIDE DEF q
<1>3. buckets' \in [Peers -> Bucket \cup {None}] /\ level' \in [Peers -> Nat]
  <2>1. CASE q \in Peers
    <3>1. Spent(q) \in Bucket \cup {None}
      BY <1>2, <2>1
    <3>2. buckets' \in [Peers -> Bucket \cup {None}]
      BY <1>1, <3>1 DEF LimiterInv
    <3>3. level[q] + 1 \in Nat
      BY <2>1 DEF LimiterInv
    <3>4. level' \in [Peers -> Nat]
      BY <1>1, <3>3 DEF LimiterInv
    <3> QED
      BY <3>2, <3>4
  <2>2. CASE q \notin Peers
    BY <1>1, <2>2 DEF LimiterInv
  <2> QED
    BY <2>1, <2>2
<1>4. ASSUME NEW p \in Peers
      PROVE  level'[p] + Tokens(buckets'[p]) <= Burst
  <2>0. /\ Tokens(buckets[p]) \in 0..Burst /\ level[p] \in Nat
        /\ level[p] + Tokens(buckets[p]) <= Burst
    BY TokensBounded DEF LimiterInv
  <2>1. CASE p # q
    <3>1. buckets'[p] = buckets[p] /\ level'[p] = level[p]
      BY <1>1, <2>1 DEF LimiterInv
    <3> QED
      BY <2>0, <3>1
  <2>2. CASE p = q
    <3>1. buckets'[p] = Spent(p)
      BY <1>1, <2>2 DEF LimiterInv
    <3>2. level'[p] = level[p] + (IF Allowed(p) THEN 1 ELSE 0)
      BY <1>1, <2>0, <2>2 DEF LimiterInv
    <3> QED
      BY <1>2, <2>0, <2>2, <3>1, <3>2, LimiterAssumption
  <2> QED
    BY <2>1, <2>2
<1> QED
  BY <1>3, <1>4 DEF LimiterInv

\* Removing full buckets leaves every peer what it had.
LEMMA CleanKeeps ==
  ASSUME LimiterInv, cleanBuckets
  PROVE  LimiterInv'
<1>1. /\ level' = level
      /\ buckets' = [p \in Peers |->
                       IF Stale(buckets[p]) THEN None ELSE buckets[p]]
  BY DEF cleanBuckets
<1>2. buckets' \in [Peers -> Bucket \cup {None}]
  BY <1>1 DEF LimiterInv
<1>3. ASSUME NEW p \in Peers
      PROVE  Tokens(buckets'[p]) = Tokens(buckets[p])
  <2>1. buckets[p] \in Bucket \cup {None}
    BY DEF LimiterInv
  <2>2. Tokens(None) = Burst
    BY DEF Tokens
  <2> QED
    BY <1>1, <2>1, <2>2, StaleIsFull
<1> QED
  BY <1>1, <1>2, <1>3 DEF LimiterInv

\* What a peer gains by a tick is no more than what it is forgiven.
LEMMA TickKeeps ==
  ASSUME LimiterInv, Tick
  PROVE  LimiterInv'
<1>1. /\ buckets' = [p \in Peers |-> Idler(buckets[p])]
      /\ level' = [p \in Peers |-> TakeMax(level[p] - Rate, 0)]
  BY DEF Tick
<1>2. ASSUME NEW p \in Peers
      PROVE  /\ buckets'[p] \in Bucket \cup {None}
             /\ level'[p] \in Nat
             /\ level'[p] + Tokens(buckets'[p]) <= Burst
  <2>1. /\ buckets[p] \in Bucket \cup {None} /\ level[p] \in Nat
        /\ level[p] + Tokens(buckets[p]) <= Burst
    BY DEF LimiterInv
  <2>2. /\ buckets'[p] \in Bucket \cup {None}
        /\ Tokens(buckets'[p]) <= Tokens(buckets[p]) + Rate
    BY <1>1, <2>1, IdlerGains
  <2>3. Tokens(buckets[p]) \in 0..Burst /\ Tokens(buckets'[p]) \in 0..Burst
    BY <2>1, <2>2, TokensBounded
  <2>4. level'[p] = TakeMax(level[p] - Rate, 0)
    BY <1>1
  <2> QED
    BY <2>1, <2>2, <2>3, <2>4, LimiterAssumption DEF TakeMax
<1> QED
  BY <1>1, <1>2 DEF LimiterInv

LEMMA LimiterStep == LimiterInv /\ [Next]_vars => LimiterInv'
<1> SUFFICES ASSUME LimiterInv, [Next]_vars PROVE LimiterInv'
  OBVIOUS
<1> DEFINE Same == buckets' = buckets /\ level' = level
<1>1. ASSUME Same PROVE LimiterInv'
  BY <1>1 DEF LimiterInv
<1>2. CASE \E p \in Peers : Ping(p)
  BY <1>1, <1>2 DEF Ping, tables
<1>3. CASE \E p \in Peers, kind \in {"direct", "relayed", "large"} :
             SendDirect(p, kind)
  BY <1>1, <1>3 DEF SendDirect, tables
<1>4. CASE \E d \in BagToSet(net) : \/ Lose(d) \/ handlePoWChallenge(d)
                                    \/ CheckBan(d) \/ Limit(d) \/ Process(d)
  <2> PICK d \in BagToSet(net) : \/ Lose(d) \/ handlePoWChallenge(d)
                                 \/ CheckBan(d) \/ Limit(d) \/ Process(d)
    BY <1>4
  <2>1. CASE Lose(d)
    BY <1>1, <2>1 DEF Lose, tables
  <2>2. CASE handlePoWChallenge(d)
    BY <1>1, <2>2 DEF handlePoWChallenge, tables
  <2>3. CASE CheckBan(d)
    BY <1>1, <2>3 DEF CheckBan, tables
  <2>4. CASE Limit(d)
    BY <2>4, LimitKeeps
  <2>5. CASE Process(d)
    BY <1>1, <2>5 DEF Process, Refuse, RefuseSignature, handlePing,
                      handlePoWResponse, handleChat, tables
  <2> QED
    BY <2>1, <2>2, <2>3, <2>4, <2>5
<1>5. CASE cleanBuckets
  BY <1>5, CleanKeeps
<1>6. CASE cleanProofs
  BY <1>1, <1>6 DEF cleanProofs
<1>7. CASE Tick
  BY <1>7, TickKeeps
<1>8. CASE UNCHANGED vars
  BY <1>1, <1>8 DEF vars
<1> QED
  BY <1>2, <1>3, <1>4, <1>5, <1>6, <1>7, <1>8 DEF Next

\* In every stretch of time, a peer gets no more messages past the limiter
\* than a burst and the rate for the time that went by.
THEOREM RateIsBounded == Spec => []RateBound
<1>1. LimiterInv => RateBound
  <2> SUFFICES ASSUME LimiterInv, NEW p \in Peers PROVE level[p] <= Burst
    BY DEF RateBound
  <2>1. /\ Tokens(buckets[p]) \in 0..Burst /\ level[p] \in Nat
        /\ level[p] + Tokens(buckets[p]) <= Burst
    BY TokensBounded DEF LimiterInv
  <2> QED
    BY <2>1, LimiterAssumption
<1> QED
  BY <1>1, LimiterInit, LimiterStep, PTL DEF Spec

-----------------------------------------------------------------------------
(* Type correctness.  What an action puts into a table follows from the    *)
(* kinds of datagrams under way, and the sets of those from the bags.      *)

\* Sending adds at most the datagram, dropping adds nothing.
LEMMA Bagged ==
  ASSUME NEW d \in Datagram, NEW B, BagToSet(B) \subseteq Datagram
  PROVE  BagToSet(B (+) OneOf(d)) \subseteq Datagram
  BY DEF BagToSet, SetToBag, OneOf, (+)

LEMMA Unbagged ==
  ASSUME NEW B, NEW d, BagToSet(B) \subseteq Datagram
  PROVE  BagToSet(B (-) OneOf(d)) \subseteq Datagram
  BY DEF BagToSet, SetToBag, OneOf, (-)

\* A set of positions that is not empty has a last one.
LEMMA LastOne ==
  ASSUME NEW n \in Nat, NEW S \in SUBSET (1..n), S # {}
  PROVE  \E i \in S : \A j \in S : j <= i
<1> DEFINE T == {k \in Nat : \E i \in S : k = n - i}
<1>1. T \in SUBSET Nat /\ T # {}
  <2>1. PICK i \in S : TRUE
    OBVIOUS
  <2>2. n - i \in T
    BY <2>1
  <2> QED
    BY <2>2
<1> HIDE DEF T
<1>2. PICK k \in T : \A m \in T : k <= m
  <2> DEFINE R == OpToRel(<, Nat)
  <2>1. IsWellFoundedOn(R, Nat)
    BY NatLessThanWellFounded
  <2>2. \A m, k \in Nat : m < k => <<m, k>> \in R
    BY DEF OpToRel
  <2> HIDE DEF R
  <2>3. PICK k \in T : \A m \in T : <<m, k>> \notin R
    BY <1>1, <2>1, WFMin
  <2>4. ASSUME NEW m \in T PROVE k <= m
    <3>1. m \in Nat /\ k \in Nat /\ ~(m < k)
      BY <1>1, <2>2, <2>3
    <3> QED
      BY <3>1
  <2> QED
    BY <2>4
<1>3. PICK i \in S : k = n - i
  BY <1>2 DEF T
<1>4. ASSUME NEW j \in S PROVE j <= i
  <2>1. n - j \in T
    BY DEF T
  <2> QED
    BY <1>2, <1>3, <2>1
<1> QED
  BY <1>4

\* A ban has one of the lengths of its kind, or is the one there was.
LEMMA BanForTyped ==
  ASSUME NEW o \in Offences, NEW count \in Nat, NEW before \in Nat
  PROVE  BanFor(o, count, before) \in Nat
<1> DEFINE S == [at : Nat \ {0}, for : Nat]
<1>1. Bans[o] \in Seq(S)
  BY BansAssumption
<1> HIDE DEF S
<1>2. Len(Bans[o]) \in Nat /\ DOMAIN Bans[o] = 1..Len(Bans[o])
  BY <1>1
<1>3. CASE Reached(o, count) = {}
  BY <1>3 DEF BanFor
<1>4. CASE Reached(o, count) # {}
  <2> DEFINE last == CHOOSE i \in Reached(o, count) :
                       \A j \in Reached(o, count) : j <= i
  <2>1. Reached(o, count) \in SUBSET (1..Len(Bans[o]))
    BY <1>2 DEF Reached
  <2>2. \E i \in Reached(o, count) : \A j \in Reached(o, count) : j <= i
    BY <1>2, <1>4, <2>1, LastOne
  <2>3. last \in 1..Len(Bans[o])
    BY <2>1, <2>2
  <2> HIDE DEF last
  <2>4. Bans[o][last] \in S
    BY <1>1, <1>2, <2>3
  <2> QED
    BY <1>4, <2>4 DEF BanFor, last, S
<1> QED
  BY <1>3, <1>4

\* The count of offences stops at the last step.
LEMMA CapTyped ==
  ASSUME NEW o \in Offences
  PROVE  Cap(o) \in Nat
<1> DEFINE S == [at : Nat \ {0}, for : Nat]
<1>1. Bans[o] \in Seq(S) /\ Bans[o] # <<>>
  BY BansAssumption
<1> HIDE DEF S
<1>2. Bans[o][Len(Bans[o])] \in S
  BY <1>1
<1> QED
  BY <1>2 DEF Cap, S

\* Only counters and bans change when a peer is punished.
LEMMA PunishTyped ==
  ASSUME TypeOK, NEW p \in Peers, NEW o \in Offences, Punish(p, o)
  PROVE  bans' \in [Peers -> Nat] /\ offences' \in [Peers -> [Offences -> Nat]]
<1> DEFINE count == TakeMin(offences[p][o] + 1, Cap(o))
<1>1. /\ offences' = [offences EXCEPT ![p] = [@ EXCEPT ![o] = count]]
      /\ bans' = [bans EXCEPT ![p] = BanFor(o, count, @)]
  BY DEF Punish
<1>2. offences[p] \in [Offences -> Nat] /\ bans[p] \in Nat
  BY DEF TypeOK
<1>3. count \in Nat
  BY <1>2, CapTyped DEF TakeMin
<1> HIDE DEF count
<1>4. BanFor(o, count, bans[p]) \in Nat
  BY <1>2, <1>3, BanForTyped
<1>5. [offences[p] EXCEPT ![o] = count] \in [Offences -> Nat]
  BY <1>2, <1>3
<1> QED
  BY <1>1, <1>4, <1>5 DEF TypeOK

\* What each action does to the datagrams and the tables of a peer.
LEMMA TypesStep == TypeOK /\ [Next]_vars => TypeOK'
<1> SUFFICES ASSUME TypeOK, [Next]_vars PROVE TypeOK'
  OBVIOUS
<1>1. BagToSet(net) \subseteq Datagram
  BY DEF TypeOK
<1>2. ASSUME NEW p \in Peers, NEW kind \in Kinds, Send(p, kind)
      PROVE  BagToSet(net') \subseteq Datagram
  <2>1. [kind |-> kind, peer |-> p, stage |-> "wire"] \in Datagram
    BY DEF Datagram, Stages
  <2> QED
    BY <1>1, <1>2, <2>1, Bagged DEF Send
<1>3. CASE \E p \in Peers : Ping(p)
  BY <1>2, <1>3 DEF Ping, tables, TypeOK, Kinds
<1>4. CASE \E p \in Peers, kind \in {"direct", "relayed", "large"} :
             SendDirect(p, kind)
  <2> PICK p \in Peers, kind \in {"direct", "relayed", "large"} :
             SendDirect(p, kind)
    BY <1>4
  <2>1. odd' \in 0..MaxOdd
    BY BansAssumption DEF SendDirect, TypeOK
  <2>2. BagToSet(net') \subseteq Datagram
    BY <1>2 DEF SendDirect, Kinds
  <2> QED
    BY <2>1, <2>2 DEF SendDirect, tables, TypeOK
<1>5. CASE \E d \in BagToSet(net) : \/ Lose(d) \/ handlePoWChallenge(d)
                                    \/ CheckBan(d) \/ Limit(d) \/ Process(d)
  <2> PICK d \in BagToSet(net) : \/ Lose(d) \/ handlePoWChallenge(d)
                                 \/ CheckBan(d) \/ Limit(d) \/ Process(d)
    BY <1>5
  <2>1. d \in Datagram /\ d.peer \in Peers
    BY <1>1 DEF Datagram
  <2>2. BagToSet(Dropped(d)) \subseteq Datagram
    BY <1>1, Unbagged DEF Dropped
  <2>3. ASSUME NEW stage \in Stages
        PROVE  BagToSet(Moved(d, stage)) \subseteq Datagram
    <3>1. [d EXCEPT !.stage = stage] \in Datagram
      BY <2>1 DEF Datagram
    <3> QED
      BY <2>2, <3>1, Bagged DEF Moved, Dropped
  <2>4. CASE Lose(d)
    BY <2>2, <2>4 DEF Lose, tables, TypeOK
  <2>5. CASE handlePoWChallenge(d)
    <3>1. SolveChallenge(d.peer) \in Datagram
      BY <2>1 DEF SolveChallenge, Datagram, Kinds, Stages
    <3>2. BagToSet(net') \subseteq Datagram
      BY <2>2, <2>5, <3>1, Bagged DEF handlePoWChallenge
    <3> QED
      BY <2>5, <3>2 DEF handlePoWChallenge, tables, TypeOK
  <2>6. CASE CheckBan(d)
    <3>1. BagToSet(net') \subseteq Datagram
      BY <2>2, <2>3, <2>6 DEF CheckBan, Stages
    <3> QED
      BY <2>6, <3>1 DEF CheckBan, tables, TypeOK
  <2>7. CASE Limit(d)
    <3>1. BagToSet(net') \subseteq Datagram
      BY <2>2, <2>3, <2>7 DEF Limit, Stages
    <3>2. /\ buckets' \in [Peers -> Bucket \cup {None}]
          /\ level' \in [Peers -> Nat]
      <4>1. Tokens(buckets[d.peer]) \in 0..Burst
        BY <2>1, TokensBounded DEF TypeOK, Bucket
      <4>2. Spent(d.peer) \in Bucket
        BY <4>1, LimiterAssumption DEF Spent, Allowed, Bucket
      <4> QED
        BY <2>1, <2>7, <4>2 DEF Limit, TypeOK, Bucket
    <3>3. /\ bans' \in [Peers -> Nat]
          /\ offences' \in [Peers -> [Offences -> Nat]]
      BY <2>1, <2>7, PunishTyped DEF Limit, TypeOK, Offences
    <3> QED
      BY <2>7, <3>1, <3>2, <3>3 DEF Limit, TypeOK, Bucket
  <2>8. CASE Process(d)
    <3>1. CASE Refuse(d)
      BY <2>1, <2>2, <3>1, PunishTyped DEF Refuse, TypeOK, Offences
    <3>2. CASE RefuseSignature(d)
      BY <2>1, <2>2, <3>2, PunishTyped DEF RefuseSignature, TypeOK, Offences
    <3>3. CASE handlePing(d)
      <4>1. GenerateChallenge(d.peer) \in Datagram
        BY <2>1 DEF GenerateChallenge, Datagram, Kinds, Stages
      <4>2. BagToSet(net') \subseteq Datagram
        BY <2>2, <3>3, <4>1, Bagged DEF handlePing
      <4> QED
        BY <3>3, <4>2 DEF handlePing, tables, TypeOK
    <3>4. CASE handlePoWResponse(d)
      <4>1. CASE VerifyProof(d.peer)
        <5>1. Validity \in (0..Validity) \cup {None}
          BY BansAssumption
        <5> QED
          BY <2>1, <2>2, <3>4, <4>1, <5>1 DEF handlePoWResponse, TypeOK
      <4>2. CASE ~VerifyProof(d.peer)
        BY <2>1, <2>2, <3>4, <4>2, PunishTyped
           DEF handlePoWResponse, TypeOK, Offences
      <4> QED
        BY <4>1, <4>2
    <3>5. CASE handleChat(d)
      <4>1. BagToSet(EmptyBag) = {}
        BY DEF EmptyBag, BagToSet, SetToBag
      <4> QED
        BY <3>5, <4>1 DEF handleChat, tables, TypeOK
    <3> QED
      BY <2>8, <3>1, <3>2, <3>3, <3>4, <3>5 DEF Process
  <2> QED
    BY <2>4, <2>5, <2>6, <2>7, <2>8
<1>6. CASE cleanBuckets
  BY <1>6 DEF cleanBuckets, TypeOK
<1>7. CASE cleanProofs
  BY <1>7 DEF cleanProofs, TypeOK
<1>8. CASE Tick
  <2>1. buckets' \in [Peers -> Bucket \cup {None}]
    BY <1>8, IdlerGains DEF Tick, TypeOK, Bucket
  <2>2. ASSUME NEW t \in (0..Validity) \cup {None}
        PROVE  Older(t) \in (0..Validity) \cup {None}
    BY BansAssumption DEF Older
  <2>3. proofs' \in [Peers -> (0..Validity) \cup {None}]
    BY <1>8, <2>2 DEF Tick, TypeOK
  <2>4. bans' \in [Peers -> Nat] /\ level' \in [Peers -> Nat]
    BY <1>8, LimiterAssumption DEF Tick, TypeOK, TakeMax
  <2> QED
    BY <1>8, <2>1, <2>3, <2>4 DEF Tick, TypeOK, Bucket
<1>9. CASE UNCHANGED vars
  BY <1>9 DEF vars, TypeOK
<1> QED
  BY <1>3, <1>4, <1>5, <1>6, <1>7, <1>8, <1>9 DEF Next

\* Every table keeps to what its code can put there, and what is under way
\* is a datagram of a peer, whatever the limits and the steps of the bans.
THEOREM AdmissionTypes == Spec => []TypeOK
<1>1. Init => TypeOK
  <2>1. BagToSet(EmptyBag) = {}
    BY DEF EmptyBag, BagToSet, SetToBag
  <2> QED
    BY <2>1, BansAssumption DEF Init, TypeOK
<1> QED
  BY <1>1, TypesStep, PTL DEF Spec
=============================================================================
