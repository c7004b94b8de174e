----------------------------- MODULE Admission -----------------------------
(***************************************************************************)
(* What a daemon does with the datagrams of its peers before and while it  *)
(* handles them: the ban check, the rate limiter, validation, the          *)
(* signature, the penalties of the peer scorer, and the proof of work that *)
(* a peer is asked for when it pings (src/internal/security/ratelimit.go,  *)
(* pow.go, and handleMessage with the handlers it calls in                 *)
(* src/cmd/kayakd/main.go).                                                *)
(*                                                                         *)
(* One daemon is modelled, and the peers that talk to it; they run the     *)
(* same program and follow it.  Each datagram is handled by a goroutine of *)
(* its own: the ban check, the rate limiter and the rest take their locks  *)
(* one after the other, so the stages of two datagrams interleave.  The    *)
(* network loses and reorders; Gossip has what repeats and arrives late.   *)
(* What a peer does not accept from the daemon is lost here as well.       *)
(*                                                                         *)
(* Bans, proofs and idle times are kept as what is left or gone by, not as *)
(* dates, and counters stop where the code no longer tells them apart, so  *)
(* that time need not end.  An expired ban and no ban read the same.       *)
(* Every ban is also entered under the address, which nothing reads.       *)
(***************************************************************************)
EXTENDS Integers, Sequences, FiniteSets, Bags

CONSTANTS
  Peers,
  Burst,     \* tokens a bucket holds
  Rate,      \* tokens it gains per tick
  Window,    \* ticks without a message after which a bucket may be removed
  Bans,      \* kind of offence -> the steps [at, for] of its bans
  Validity,  \* ticks that a proof of work is valid for
  None,      \* no bucket, no proof
  MaxNet,    \* bound on the datagrams of one peer under way when it sends
  MaxOdd     \* bound on the datagrams that are not just pings

Offences == {"bad", "sig", "limit"}

\* A bucket that is idle for the window is full again: 10 tokens a second
\* for five minutes, and room for 50.
ASSUME LimiterAssumption ==
  /\ Burst \in Nat \ {0} /\ Rate \in Nat /\ Window \in Nat
  /\ Rate * (Window + 1) >= Burst

ASSUME BansAssumption ==
  /\ Bans \in [Offences -> Seq([at : Nat \ {0}, for : Nat])]
  /\ \A o \in Offences : Bans[o] # <<>>
  /\ Validity \in Nat \ {0} /\ MaxNet \in Nat /\ MaxOdd \in Nat
  /\ None \notin Nat /\ None \notin [tokens : Int, idle : Int]

VARIABLES
  up,         \* is the process running?
  buckets,    \* RateLimiter.buckets
  bans,       \* BanList.banned: time left
  offences,   \* PeerScorer.scores: BadMessages, InvalidSigs, RateLimitHits
  proofs,     \* PoWManager.verifiedNodes: time the proof is still valid
  net,        \* bag of the datagrams on their way or being handled
  odd,        \* datagrams sent so far that are not pings
  level       \* history: the reference limiter, see RateBound

vars == <<up, buckets, bans, offences, proofs, net, odd, level>>
tables == <<buckets, bans, offences, proofs, level>>

\* Where a datagram is: under way to the daemon; past the ban check; past
\* the rate limiter; or a challenge that a peer is to receive and solve.
Stages == {"wire", "limit", "process", "peer"}

\* ping: answered, and perhaps challenged.  response: a solved challenge.
\* direct: a chat message for this node alone, without MsgID.  relayed: one
\* that went by way of another node.  large: over MaxPayloadSize.
Kinds == {"ping", "response", "direct", "relayed", "large", "challenge"}

Datagram == [kind : Kinds, peer : Peers, stage : Stages]

OneOf(d) == SetToBag({d})

TakeMin(a, b) == IF a < b THEN a ELSE b
TakeMax(a, b) == IF a < b THEN b ELSE a

Init ==
  /\ up = TRUE
  /\ buckets = [p \in Peers |-> None]
  /\ bans = [p \in Peers |-> 0]
  /\ offences = [p \in Peers |-> [o \in Offences |-> 0]]
  /\ proofs = [p \in Peers |-> None]
  /\ net = EmptyBag
  /\ odd = 0
  /\ level = [p \in Peers |-> 0]

-----------------------------------------------------------------------------
(* What the peers send, and the network.                                   *)

Pending(p) == {d \in BagToSet(net) : d.peer = p}
Room(p) == BagCardinality([d \in Pending(p) |-> net[d]]) < MaxNet

Send(p, kind) ==
  net' = net (+) OneOf([kind |-> kind, peer |-> p, stage |-> "wire"])

\* At the start, on learning of a node, by command, and in maintenance.
Ping(p) ==
  /\ Room(p)
  /\ Send(p, "ping")
  /\ UNCHANGED <<up, tables, odd>>

\* A chat message for the daemon's user: straight to it, through another
\* node that is connected to it, or with an attachment that is too long.
SendDirect(p, kind) ==
  /\ odd < MaxOdd /\ Room(p)
  /\ odd' = odd + 1
  /\ Send(p, kind)
  /\ UNCHANGED <<up, tables>>

Moved(d, stage) ==
  (net (-) OneOf(d)) (+) OneOf([d EXCEPT !.stage = stage])

Dropped(d) == net (-) OneOf(d)

\* Lost on the way; or a challenge the peer refuses or cannot solve in time.
Lose(d) ==
  /\ d.stage \in {"wire", "peer"}
  /\ net' = Dropped(d)
  /\ UNCHANGED <<up, tables, odd>>

\* The proof, for any nonce that meets the target.
SolveChallenge(p) == [kind |-> "response", peer |-> p, stage |-> "wire"]

\* The peer solves the challenge, in a goroutine, and sends the proof.
handlePoWChallenge(d) ==
  /\ d.stage = "peer"
  /\ net' = Dropped(d) (+) OneOf(SolveChallenge(d.peer))
  /\ UNCHANGED <<up, tables, odd>>

-----------------------------------------------------------------------------
(* Penalties: each step whose count is reached sets the ban anew, so the   *)
(* last one counts.                                                        *)

Cap(o) == Bans[o][Len(Bans[o])].at

Reached(o, count) == {i \in DOMAIN Bans[o] : Bans[o][i].at <= count}

BanFor(o, count, before) ==
  IF Reached(o, count) = {} THEN before
  ELSE LET last == CHOOSE i \in Reached(o, count) :
                     \A j \in Reached(o, count) : j <= i
       IN  Bans[o][last].for

\* RecordBad, RecordInvalidSignature, RecordRateLimitHit
Punish(p, o) ==
  LET count == TakeMin(offences[p][o] + 1, Cap(o))
  IN  /\ offences' = [offences EXCEPT ![p] = [@ EXCEPT ![o] = count]]
      /\ bans' = [bans EXCEPT ![p] = BanFor(o, count, @)]

-----------------------------------------------------------------------------
(* The rate limiter.                                                       *)

Tokens(b) == IF b = None THEN Burst
             ELSE TakeMin(Burst, b.tokens + Rate * b.idle)

\* The bucket is created if need be, filled up, and a token is taken.
Allowed(p) == Tokens(buckets[p]) >= 1

Spent(p) ==
  [tokens |-> Tokens(buckets[p]) - (IF Allowed(p) THEN 1 ELSE 0),
   idle |-> 0]

\* Variant: every bucket the cleaner finds.
StaleAlways(b) == b # None

\* Only buckets that nothing came for since the window.
Stale(b) == b # None /\ b.idle > Window

cleanBuckets ==
  /\ up
  /\ buckets' = [p \in Peers |->
                   IF Stale(buckets[p]) THEN None ELSE buckets[p]]
  /\ UNCHANGED <<up, bans, offences, proofs, net, odd, level>>

-----------------------------------------------------------------------------
(* handleMessage                                                           *)

\* Variant: what a banned peer sends counts as too much.
CheckBanCounts(d) ==
  /\ up /\ d.stage = "wire"
  /\ IF bans[d.peer] > 0
     THEN net' = Dropped(d) /\ Punish(d.peer, "limit")
     ELSE net' = Moved(d, "limit") /\ UNCHANGED <<bans, offences>>
  /\ UNCHANGED <<up, buckets, proofs, odd, level>>

CheckBan(d) ==
  /\ up /\ d.stage = "wire"
  /\ net' = IF bans[d.peer] > 0 THEN Dropped(d) ELSE Moved(d, "limit")
  /\ UNCHANGED <<up, tables, odd>>

Limit(d) ==
  /\ up /\ d.stage = "limit"
  /\ buckets' = [buckets EXCEPT ![d.peer] = Spent(d.peer)]
  /\ IF Allowed(d.peer)
     THEN /\ net' = Moved(d, "process")
          /\ level' = [level EXCEPT ![d.peer] = @ + 1]
          /\ UNCHANGED <<bans, offences>>
     ELSE /\ net' = Dropped(d)
          /\ Punish(d.peer, "limit")
          /\ UNCHANGED level
  /\ UNCHANGED <<up, proofs, odd>>

\* Validate: the payload is too large.
Refuse(d) ==
  /\ up /\ d.stage = "process" /\ d.kind = "large"
  /\ net' = Dropped(d)
  /\ Punish(d.peer, "bad")
  /\ UNCHANGED <<up, buckets, proofs, odd, level>>

\* verifySignature: what a relay passes on has the type and payload of the
\* inner message and the signature of the outer one.
SignatureFits(d) == d.kind # "relayed"

RefuseSignature(d) ==
  /\ up /\ d.stage = "process" /\ ~SignatureFits(d)
  /\ net' = Dropped(d)
  /\ Punish(d.peer, "sig")
  /\ UNCHANGED <<up, buckets, proofs, odd, level>>

IsVerified(p) == proofs[p] # None /\ proofs[p] # 0

\* That a challenge was made is noted down, and nothing reads it.
GenerateChallenge(p) == [kind |-> "challenge", peer |-> p, stage |-> "peer"]

\* The pong changes nothing; a peer without a valid proof is challenged.
handlePing(d) ==
  /\ up /\ d.stage = "process" /\ d.kind = "ping"
  /\ net' = IF IsVerified(d.peer) THEN Dropped(d)
            ELSE Dropped(d) (+) OneOf(GenerateChallenge(d.peer))
  /\ UNCHANGED <<up, tables, odd>>

\* A node that has an entry, expired or not, is not verified again.  What a
\* peer solved has the difficulty and the hash that are asked for, and is new.
VerifyProof(p) == proofs[p] = None

\* A proof that is refused counts as bad.
handlePoWResponse(d) ==
  /\ up /\ d.stage = "process" /\ d.kind = "response"
  /\ net' = Dropped(d)
  /\ IF VerifyProof(d.peer)
     THEN /\ proofs' = [proofs EXCEPT ![d.peer] = Validity]
          /\ UNCHANGED <<bans, offences>>
     ELSE /\ Punish(d.peer, "bad")
          /\ UNCHANGED proofs
  /\ UNCHANGED <<up, buckets, odd, level>>

\* Variant: the proofs that have not run out.
ExpiredSwapped(t) == t # None /\ t # 0

Expired(t) == t = 0

cleanProofs ==
  /\ up
  /\ proofs' = [p \in Peers |-> IF Expired(proofs[p]) THEN None
                                                      ELSE proofs[p]]
  /\ UNCHANGED <<up, buckets, bans, offences, net, odd, level>>

\* The first eight characters of the MsgID are taken for the log, and a
\* message that was not broadcast has none: the goroutine panics, and with
\* it the process.  What it had in memory is gone.
handleChat(d) ==
  /\ up /\ d.stage = "process" /\ d.kind = "direct"
  /\ up' = FALSE
  /\ net' = EmptyBag
  /\ UNCHANGED <<tables, odd>>

-----------------------------------------------------------------------------
Older(t) == IF t = None \/ t = 0 THEN t ELSE t - 1

Idler(b) == IF b = None THEN b
            ELSE [b EXCEPT !.idle = TakeMin(@ + 1, Window + 1)]

Tick ==
  /\ up
  /\ buckets' = [p \in Peers |-> Idler(buckets[p])]
  /\ bans' = [p \in Peers |-> TakeMax(bans[p] - 1, 0)]
  /\ proofs' = [p \in Peers |-> Older(proofs[p])]
  /\ level' = [p \in Peers |-> TakeMax(level[p] - Rate, 0)]
  /\ UNCHANGED <<up, offences, net, odd>>

Process(d) ==
  \/ Refuse(d) \/ RefuseSignature(d)
  \/ handlePing(d) \/ handlePoWResponse(d) \/ handleChat(d)

Next ==
  \/ \E p \in Peers : Ping(p)
  \/ \E p \in Peers, kind \in {"direct", "relayed", "large"} :
       SendDirect(p, kind)
  \/ \E d \in BagToSet(net) : \/ Lose(d) \/ handlePoWChallenge(d)
                              \/ CheckBan(d) \/ Limit(d) \/ Process(d)
  \/ cleanBuckets \/ cleanProofs \/ Tick

Spec == Init /\ [][Next]_vars

\* Time passes, goroutines get to run, maintenance pings, and the cleaner
\* comes round.  The network does not lose everything: of messages of a kind
\* that keep coming, some get through, and some challenges are solved.
Fairness ==
  /\ WF_vars(Tick) /\ WF_vars(cleanProofs)
  /\ \A p \in Peers :
       /\ WF_vars(Ping(p))
       /\ SF_vars(\E d \in Pending(p) : handlePoWChallenge(d))
       /\ \A kind \in Kinds \ {"challenge"} :
            /\ SF_vars(\E d \in Pending(p) : d.kind = kind /\ CheckBan(d))
            /\ WF_vars(\E d \in Pending(p) : d.kind = kind /\ Limit(d))
            /\ WF_vars(\E d \in Pending(p) : d.kind = kind /\ Process(d))

FairSpec == Spec /\ Fairness

-----------------------------------------------------------------------------
(* Properties                                                              *)

\* Every table holds what its code can put there: no bucket more tokens than
\* the burst, no proof more time than it is valid for; and whatever is under
\* way came from a peer.
TypeOK ==
  /\ up \in BOOLEAN
  /\ buckets \in [Peers ->
       [tokens : 0..Burst, idle : 0..(Window + 1)] \cup {None}]
  /\ bans \in [Peers -> Nat]
  /\ offences \in [Peers -> [Offences -> Nat]]
  /\ proofs \in [Peers -> (0..Validity) \cup {None}]
  /\ BagToSet(net) \subseteq Datagram
  /\ odd \in 0..MaxOdd
  /\ level \in [Peers -> Nat]

\* RateLimiter.Allow lets no peer have more than Burst messages at once and
\* Rate more per tick, in any stretch of time, although buckets are removed
\* and made anew.  level is what such a limit has to hold: it rises with
\* each message, falls by Rate per tick, and is never negative.
RateBound == \A p \in Peers : level[p] <= Burst

\* A ban ends although the banned peer goes on sending: what the ban check
\* drops adds nothing to it, and only handlers past the check can renew it.
BanLapses == \A p \in Peers : []<>(up => bans[p] = 0)

\* A peer that pings and stays within its rate is verified again and again:
\* lost challenges, proofs that were counted as bad, the bans these led to
\* and proofs that have run out only delay it.
VerifiedAgain ==
  \A p \in Peers : <>[](up /\ Allowed(p)) => []<>IsVerified(p)

=============================================================================
