------------------------------ MODULE RWMutex ------------------------------
(***************************************************************************)
(* Go's sync.RWMutex, the lock of every manager, room and conversation of  *)
(* this program.  It is not re-entrant, and a writer that waits shuts out  *)
(* the readers that come after it: a goroutine that asks to read what it   *)
(* already reads may wait for a writer that waits for that goroutine.      *)
(*                                                                         *)
(* A writer takes the inner mutex first, so at most one is announced; the  *)
(* others have not asked as far as the lock can tell.  When a writer       *)
(* leaves, every reader it kept out goes in.                               *)
(***************************************************************************)
CONSTANT NoOne

Lock(Procs) == [readers : SUBSET Procs,           \* hold it for reading
                blocked : SUBSET Procs,           \* wait to read
                writer  : Procs \cup {NoOne},     \* holds it for writing
                pending : Procs \cup {NoOne}]     \* announced, waits to write

Unlocked == [readers |-> {}, blocked |-> {}, writer |-> NoOne, pending |-> NoOne]

Holds(l, p) == p \in l.readers \/ p = l.writer
Asked(l, p) == Holds(l, p) \/ p \in l.blocked \/ p = l.pending

\* No writer inside and none announced.
Calm(l) == l.writer = NoOne /\ l.pending = NoOne

\* RLock
AskToRead(l, p) ==
  IF Calm(l) THEN [l EXCEPT !.readers = l.readers \cup {p}]
             ELSE [l EXCEPT !.blocked = l.blocked \cup {p}]

\* Lock, of a goroutine that has the inner mutex: Calm(l) holds
AskToWrite(l, p) ==
  IF l.readers = {} THEN [l EXCEPT !.writer = p] ELSE [l EXCEPT !.pending = p]

\* RUnlock: the last reader lets the announced writer in.
RUnlock(l, p) ==
  LET left == l.readers \ {p}
  IN IF left = {} THEN [l EXCEPT !.readers = {}, !.writer = l.pending, !.pending = NoOne]
                  ELSE [l EXCEPT !.readers = left]

\* Unlock: the readers that waited go in.
WUnlock(l) == [l EXCEPT !.writer = NoOne, !.readers = l.blocked, !.blocked = {}]

Release(l, p) == IF p = l.writer THEN WUnlock(l) ELSE RUnlock(l, p)

\* q keeps p, which wants the lock (to write or to read), from getting on.
KeepsOut(l, q, p) == /\ ~Holds(l, p) /\ q # p
                     /\ \/ q = l.writer
                        \/ q = l.pending
                        \/ p = l.pending /\ q \in l.readers
=============================================================================
