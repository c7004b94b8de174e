------------------------------- MODULE Escrow -------------------------------
(***************************************************************************)
(* The escrow service of the daemon: EscrowManager                         *)
(* (src/internal/escrow/escrow.go), the CryptoWallet it drives             *)
(* (src/internal/escrow/crypto.go), the file escrows.json it is saved to   *)
(* and reloaded from, and the maintenance goroutine of cmd/kayakd/main.go. *)
(*                                                                         *)
(* EscrowManager runs every operation under m.mu, so each one is a single  *)
(* step here.  Save is the exception: it drops the lock before it encodes  *)
(* (escrow.go:144-163), so it is two steps, and what it writes may mix the *)
(* record before and the record after an operation that ran in between.    *)
(* The main maintenance loop, Stop and a goroutine that                    *)
(* ManualConfirmPayment spawns call it; a write to a map that is being     *)
(* encoded may also end the process, which is a Restart.                   *)
(* The wallet keeps its addresses and payments in memory only.             *)
(*                                                                         *)
(* An escrow is identified with the order it was created for: both ids are *)
(* drawn afresh by handleEscrowCreate.  The daemon offers no arbitration:  *)
(* Refund, ResolveDispute and Cancel have no caller in cmd/ or mobile/.    *)
(* Arbiter says whether the program that embeds the manager calls them.    *)
(***************************************************************************)
EXTENDS Integers

CONSTANTS
  Orders,        \* orders escrows may be created for
  PaymentIds,    \* what generatePaymentID can draw; bounds the wallet
  NoPayment,     \* the empty PaymentID
  NoOrder,       \* the order of a payment record that does not exist
  RequiredXMR,   \* getRequiredConfirmations(XMR): 10
  RequiredZEC,   \* getRequiredConfirmations(ZEC): 6
  ConfirmedXMR,  \* confirmations at which the wallet calls XMR confirmed: 10
  ReportedZEC,   \* confirmations the wallet reports for any ZEC transfer: 6
  MaxConf,       \* bound: confirmations counted on the chain
  PayWindow,     \* ticks until a created escrow expires (24 hours)
  ReleaseWindow, \* ticks until a funded escrow is auto-released (14 days)
  MaxCrashes,    \* bound: restarts of the process
  Arbiter        \* does a program call Refund, ResolveDispute and Cancel?

ASSUME ConfirmationsAssumption ==
  /\ RequiredXMR \in Nat /\ RequiredZEC \in Nat
  /\ ConfirmedXMR \in Nat /\ ReportedZEC \in Nat /\ MaxConf \in Nat
  /\ ConfirmedXMR <= RequiredXMR

ASSUME WindowsAssumption ==
  PayWindow \in Nat /\ ReleaseWindow \in Nat /\ MaxCrashes \in Nat

ASSUME NamesAssumption ==
  NoPayment \notin PaymentIds /\ NoOrder \notin Orders /\ Arbiter \in BOOLEAN

Currencies == {"XMR", "ZEC"}

States == {"created", "funded", "shipped", "completed",
           "disputed", "refunded", "cancelled", "expired"}

VARIABLES
  escrows,    \* EscrowManager.escrows
  addresses,  \* orders with an entry in CryptoWallet.addresses
  payments,   \* CryptoWallet.payments
  drawn,      \* payment ids drawn so far: random ids do not repeat
  deposit,    \* chain: what was sent to the address of the order
  conf,       \* chain: confirmations of that transfer
  disk,       \* escrows.json
  saving,     \* is a Save between its two steps?
  snapshot,   \* the records as they were when that Save started to encode
  moved,      \* history: settlements the wallet made for an order
  crashes     \* restarts so far

walletVars == <<addresses, payments, drawn, moved>>
chainVars  == <<deposit, conf>>
fileVars   == <<disk, saving, snapshot>>
vars == <<escrows, walletVars, chainVars, fileVars, crashes>>

NoEscrow == [state |-> "none", currency |-> "XMR", pid |-> NoPayment,
             armed |-> FALSE, timer |-> 0]
NoRecord == [order |-> NoOrder, status |-> "none"]

\* pid is PaymentID, armed is AutoReleaseEnabled, timer is what is left until
\* ExpiresAt (created) or AutoReleaseAt (afterwards).
EscrowRecord ==
  [state : States \cup {"none"}, currency : Currencies,
   pid : PaymentIds \cup {NoPayment}, armed : BOOLEAN, timer : Nat]
PaymentRecord ==
  [order : Orders \cup {NoOrder},
   status : {"none", "pending", "confirmed", "released", "refunded"}]
Settlement == [pid : PaymentIds, outcome : {"released", "refunded"}]

Init ==
  /\ escrows = [o \in Orders |-> NoEscrow]
  /\ addresses = {}
  /\ payments = [p \in PaymentIds |-> NoRecord]
  /\ drawn = {}
  /\ deposit = [o \in Orders |-> "unaddressed"]
  /\ conf = [o \in Orders |-> 0]
  /\ disk = [o \in Orders |-> NoEscrow]
  /\ saving = FALSE
  /\ snapshot = [o \in Orders |-> NoEscrow]
  /\ moved = [o \in Orders |-> {}]
  /\ crashes = 0

-----------------------------------------------------------------------------
(* The chain.                                                              *)

\* Somebody pays to the address handed out for the order: the amount asked
\* for or a smaller one.
Deposit(o, amount) ==
  /\ deposit[o] = "awaited"
  /\ deposit' = [deposit EXCEPT ![o] = amount]
  /\ UNCHANGED <<escrows, walletVars, conf, fileVars, crashes>>

Confirm(o) ==
  /\ deposit[o] \in {"short", "full"}
  /\ conf[o] < MaxConf
  /\ conf' = [conf EXCEPT ![o] = @ + 1]
  /\ UNCHANGED <<escrows, walletVars, deposit, fileVars, crashes>>

-----------------------------------------------------------------------------
(* The wallet.                                                             *)

\* generateMoneroAddress and generateZcashAddress; a failed RPC leaves
\* everything as it is, which is a step this action does not take.
GenerateEscrowAddress(o) == addresses' = addresses \cup {o}

\* checkMoneroPayment and checkZcashPayment: every call that finds a transfer
\* adds a Payment under a fresh id.  The expected amount is not looked at.
TransferConfirmations(o, currency) ==
  IF currency = "XMR" THEN conf[o] ELSE ReportedZEC

\* Variant: the wallet asks for one confirmation more than the manager.
PaymentStatusLate(o, currency) ==
  IF currency = "ZEC" \/ conf[o] > ConfirmedXMR THEN "confirmed" ELSE "pending"

PaymentStatus(o, currency) ==
  IF currency = "ZEC" \/ conf[o] >= ConfirmedXMR THEN "confirmed" ELSE "pending"

\* ReleasePayment and RefundPayment succeed on a confirmed payment only.
Payable(p) == p # NoPayment /\ payments[p].status = "confirmed"

\* The wallet calls an operation makes for the escrows in S: those whose
\* payment is payable are settled, for the others the call fails.
Disburse(S, outcome) ==
  LET hit == {o \in S : Payable(escrows[o].pid)}
  IN  /\ payments' = [p \in PaymentIds |->
                        IF \E o \in hit : escrows[o].pid = p
                        THEN [payments[p] EXCEPT !.status = outcome]
                        ELSE payments[p]]
      /\ moved' = [o \in Orders |->
                     IF o \in hit
                     THEN moved[o] \cup {[pid |-> escrows[o].pid,
                                          outcome |-> outcome]}
                     ELSE moved[o]]

-----------------------------------------------------------------------------
(* EscrowManager.                                                          *)

getRequiredConfirmations(currency) ==
  IF currency = "XMR" THEN RequiredXMR ELSE RequiredZEC

\* An operation writes the record it has looked up.
Update(o, record) == escrows' = [escrows EXCEPT ![o] = record]

CreateEscrow(o, currency) ==
  /\ escrows[o].state = "none"
  /\ deposit[o] = "unaddressed"     \* generateOrderID never repeats an order
  /\ GenerateEscrowAddress(o)
  /\ deposit' = [deposit EXCEPT ![o] = "awaited"]
  /\ Update(o, [state |-> "created", currency |-> currency, pid |-> NoPayment,
                armed |-> FALSE, timer |-> PayWindow])
  /\ UNCHANGED <<payments, drawn, moved, conf, fileVars, crashes>>

\* handleEscrowStatus and handleEscrowPay.  Below the required confirmations
\* the wallet has recorded the payment, and the escrow stays created.
CheckPayment(o) ==
  /\ escrows[o].state = "created"
  /\ o \in addresses
  /\ deposit[o] \in {"short", "full"}
  /\ \E p \in PaymentIds \ drawn :
       /\ drawn' = drawn \cup {p}
       /\ payments' = [payments EXCEPT ![p] =
             [order  |-> o,
              status |-> PaymentStatus(o, escrows[o].currency)]]
       /\ IF TransferConfirmations(o, escrows[o].currency)
               >= getRequiredConfirmations(escrows[o].currency)
          THEN Update(o, [escrows[o] EXCEPT
                            !.state = "funded", !.pid = p,
                            !.armed = TRUE, !.timer = ReleaseWindow])
          ELSE UNCHANGED escrows
  /\ UNCHANGED <<addresses, moved, chainVars, fileVars, crashes>>

ManualConfirmPayment(o) ==
  /\ escrows[o].state = "created"
  /\ Update(o, [escrows[o] EXCEPT !.state = "funded",
                                     !.armed = TRUE, !.timer = ReleaseWindow])
  /\ UNCHANGED <<walletVars, chainVars, fileVars, crashes>>

MarkShipped(o) ==
  /\ escrows[o].state = "funded"
  /\ Update(o, [escrows[o] EXCEPT !.state = "shipped"])
  /\ UNCHANGED <<walletVars, chainVars, fileVars, crashes>>

\* Release and Refund return the wallet's error and change nothing on it.
Release(o) ==
  /\ escrows[o].state \in {"funded", "shipped"}
  /\ escrows[o].pid = NoPayment \/ Payable(escrows[o].pid)
  /\ Disburse({o}, "released")
  /\ Update(o, [escrows[o] EXCEPT !.state = "completed", !.armed = FALSE])
  /\ UNCHANGED <<addresses, drawn, chainVars, fileVars, crashes>>

Refund(o) ==
  /\ escrows[o].state \in {"funded", "shipped", "disputed"}
  /\ escrows[o].pid = NoPayment \/ Payable(escrows[o].pid)
  /\ Disburse({o}, "refunded")
  /\ Update(o, [escrows[o] EXCEPT !.state = "refunded", !.armed = FALSE])
  /\ UNCHANGED <<addresses, drawn, chainVars, fileVars, crashes>>

\* Variant: the dispute leaves the auto-release armed.
OpenDisputeArmed(o) ==
  /\ escrows[o].state \in {"funded", "shipped"}
  /\ Update(o, [escrows[o] EXCEPT !.state = "disputed"])
  /\ UNCHANGED <<walletVars, chainVars, fileVars, crashes>>

OpenDispute(o) ==
  /\ escrows[o].state \in {"funded", "shipped"}
  /\ Update(o, [escrows[o] EXCEPT !.state = "disputed", !.armed = FALSE])
  /\ UNCHANGED <<walletVars, chainVars, fileVars, crashes>>

\* Variant: the two outcomes of a dispute are swapped in the wallet call.
ResolveDisputeSwapped(o, releaseToSeller) ==
  /\ escrows[o].state = "disputed"
  /\ Disburse({o}, IF releaseToSeller THEN "refunded" ELSE "released")
  /\ Update(o, [escrows[o] EXCEPT !.state =
                   IF releaseToSeller THEN "completed" ELSE "refunded"])
  /\ UNCHANGED <<addresses, drawn, chainVars, fileVars, crashes>>

\* Unlike Release and Refund, it drops the wallet's error.
ResolveDispute(o, releaseToSeller) ==
  /\ escrows[o].state = "disputed"
  /\ Disburse({o}, IF releaseToSeller THEN "released" ELSE "refunded")
  /\ Update(o, [escrows[o] EXCEPT !.state =
                   IF releaseToSeller THEN "completed" ELSE "refunded"])
  /\ UNCHANGED <<addresses, drawn, chainVars, fileVars, crashes>>

Cancel(o) ==
  /\ escrows[o].state = "created"
  /\ Update(o, [escrows[o] EXCEPT !.state = "cancelled"])
  /\ UNCHANGED <<walletVars, chainVars, fileVars, crashes>>

-----------------------------------------------------------------------------
(* The maintenance goroutine: every minute the two passes, one after the   *)
(* other, each over all escrows under m.mu.                                *)

\* Variant: shipped orders are forgotten.
DueForReleaseFunded ==
  {o \in Orders : /\ escrows[o].armed /\ escrows[o].timer = 0
                  /\ escrows[o].state = "funded"}

DueForRelease ==
  {o \in Orders : /\ escrows[o].armed /\ escrows[o].timer = 0
                  /\ escrows[o].state \in {"funded", "shipped"}}

\* It drops the wallet's error, too.
ProcessAutoReleases ==
  /\ DueForRelease # {}
  /\ Disburse(DueForRelease, "released")
  /\ escrows' = [o \in Orders |->
                   IF o \in DueForRelease
                   THEN [escrows[o] EXCEPT !.state = "completed",
                                           !.armed = FALSE]
                   ELSE escrows[o]]
  /\ UNCHANGED <<addresses, drawn, chainVars, fileVars, crashes>>

\* Variant: the expiry asks for the flag of the auto-release.
DueForExpiryArmed ==
  {o \in Orders : /\ escrows[o].state = "created"
                  /\ escrows[o].armed /\ escrows[o].timer = 0}

DueForExpiry ==
  {o \in Orders : escrows[o].state = "created" /\ escrows[o].timer = 0}

ProcessExpiredEscrows ==
  /\ DueForExpiry # {}
  /\ escrows' = [o \in Orders |->
                   IF o \in DueForExpiry
                   THEN [escrows[o] EXCEPT !.state = "expired"]
                   ELSE escrows[o]]
  /\ UNCHANGED <<walletVars, chainVars, fileVars, crashes>>

\* Deadlines are absolute times: they come closer in the file as well.
Aged(records) ==
  [o \in Orders |->
     [records[o] EXCEPT !.timer = IF @ = 0 THEN 0 ELSE @ - 1]]

Tick ==
  /\ escrows' = Aged(escrows)
  /\ disk' = Aged(disk)
  /\ snapshot' = Aged(snapshot)
  /\ UNCHANGED <<walletVars, chainVars, saving, crashes>>

-----------------------------------------------------------------------------
(* Save, loadData and restarts.                                            *)

\* What the encoder can write of a record that was old when it started and is
\* new when it ends.  It reads the fields in the order of the struct
\* (PaymentID, State, AutoReleaseEnabled), so an early field may be older
\* than a later one.  A record inserted meanwhile is written or left out.
Torn(old, new) ==
  {old, new, [new EXCEPT !.pid = old.pid]}
    \cup (IF old.state = "none" THEN {} ELSE {[old EXCEPT !.armed = new.armed]})

SaveStart ==
  /\ ~saving
  /\ crashes < MaxCrashes     \* bound: a file nobody reloads is not written
  /\ saving' = TRUE
  /\ snapshot' = escrows
  /\ UNCHANGED <<escrows, walletVars, chainVars, disk, crashes>>

SaveFinish ==
  /\ saving
  /\ disk' \in {d \in [Orders -> UNION {Torn(snapshot[o], escrows[o]) :
                                           o \in Orders}] :
                  \A o \in Orders : d[o] \in Torn(snapshot[o], escrows[o])}
  /\ saving' = FALSE
  /\ snapshot' = [o \in Orders |-> NoEscrow]
  /\ UNCHANGED <<escrows, walletVars, chainVars, crashes>>

\* Variant: the wallet's addresses survive the restart, its payments do not.
RestartKeepsAddresses ==
  /\ crashes < MaxCrashes
  /\ crashes' = crashes + 1
  /\ escrows' = disk
  /\ payments' = [p \in PaymentIds |-> NoRecord]
  /\ saving' = FALSE
  /\ snapshot' = [o \in Orders |-> NoEscrow]
  /\ UNCHANGED <<addresses, drawn, moved, chainVars, disk>>

\* The process ends and starts again: NewCryptoWallet starts empty, loadData
\* reads the last complete file.
Restart ==
  /\ crashes < MaxCrashes
  /\ crashes' = crashes + 1
  /\ escrows' = disk
  /\ addresses' = {}
  /\ payments' = [p \in PaymentIds |-> NoRecord]
  /\ saving' = FALSE
  /\ snapshot' = [o \in Orders |-> NoEscrow]
  /\ UNCHANGED <<drawn, moved, chainVars, disk>>

-----------------------------------------------------------------------------
Arbitration(o) ==
  /\ Arbiter
  /\ \/ Refund(o)
     \/ \E releaseToSeller \in BOOLEAN : ResolveDispute(o, releaseToSeller)
     \/ Cancel(o)

Chain(o) ==
  \/ \E amount \in {"short", "full"} : Deposit(o, amount)
  \/ Confirm(o)

\* The HTTP handlers.  A node without a wallet forwards the request to the
\* bootstrap node, whose manager this is; status and pay both look for the
\* payment, the others call the operation of their name.
handleEscrowCreate(o) ==
  \E currency \in Currencies : CreateEscrow(o, currency)

handleEscrowStatus(o) == CheckPayment(o)

Handler(o) ==
  \/ handleEscrowCreate(o)
  \/ handleEscrowStatus(o)
  \/ ManualConfirmPayment(o)
  \/ MarkShipped(o)
  \/ Release(o)
  \/ OpenDispute(o)

Maintenance == ProcessAutoReleases \/ ProcessExpiredEscrows

\* Everything but a restart.
Running ==
  \/ \E o \in Orders : Chain(o) \/ Handler(o) \/ Arbitration(o)
  \/ Maintenance
  \/ Tick
  \/ SaveStart
  \/ SaveFinish

Next == Running \/ Restart

\* The two tickers of the daemon fire for as long as it runs; a user is never
\* obliged to do anything.
Fairness ==
  /\ WF_vars(Tick)
  /\ WF_vars(ProcessAutoReleases)
  /\ WF_vars(ProcessExpiredEscrows)

Spec     == Init /\ [][Next]_vars
FairSpec == Spec /\ Fairness
\* The behaviours of one run of the process.
OneRun   == Init /\ [][Running]_vars

-----------------------------------------------------------------------------
(* Properties.                                                             *)

\* Types, and the finite domains of the maps.
TypeOK ==
  /\ escrows \in [Orders -> EscrowRecord]
  /\ addresses \subseteq Orders
  /\ payments \in [PaymentIds -> PaymentRecord]
  /\ drawn \subseteq PaymentIds
  /\ deposit \in [Orders -> {"unaddressed", "awaited", "short", "full"}]
  /\ conf \in [Orders -> Nat]
  /\ disk \in [Orders -> EscrowRecord]
  /\ saving \in BOOLEAN
  /\ snapshot \in [Orders -> EscrowRecord]
  /\ moved \in [Orders -> SUBSET Settlement]
  /\ crashes \in Nat

\* An order is settled at most once and in favour of one party, whatever the
\* process saved, lost or reloaded in between (Release, Refund,
\* ResolveDispute, ProcessAutoReleases against Save and loadData).
SettledOnce ==
  \A o \in Orders : \A m, n \in moved[o] : m = n

\* What the manager says of an escrow and what the wallet says of its payment
\* agree whenever the wallet still knows the payment: it is confirmed while
\* the escrow holds it, and goes with the outcome of the escrow.
Outcome(state) ==
  CASE state \in {"funded", "shipped", "disputed"} -> "confirmed"
    [] state = "completed" -> "released"
    [] state = "refunded" -> "refunded"
    [] OTHER -> "none"

LedgerAgrees ==
  \A o \in Orders :
    LET p == escrows[o].pid
    IN  (p # NoPayment /\ payments[p] # NoRecord) =>
          /\ payments[p].order = o
          /\ payments[p].status = Outcome(escrows[o].state)

\* Why the two hold across restarts.  Payments are known only for orders whose
\* address this process generated; ids do not come back; and an order that was
\* settled is either settled in memory too or was addressed by an earlier
\* process, whose payments this one cannot find.
KnownPayments ==
  \A p \in PaymentIds : payments[p] # NoRecord =>
    p \in drawn /\ payments[p].order \in addresses /\ payments[p].status # "none"

PidsDrawn ==
  \A o \in Orders :
    {escrows[o].pid, disk[o].pid, snapshot[o].pid} \subseteq drawn \cup {NoPayment}

AddressesIssued == \A o \in addresses : deposit[o] # "unaddressed"

SettledIsFinal ==
  \A o \in Orders : moved[o] # {} =>
    /\ deposit[o] # "unaddressed"
    /\ o \in addresses => escrows[o].state \in {"completed", "refunded"}

LedgerInv ==
  /\ KnownPayments
  /\ PidsDrawn
  /\ AddressesIssued
  /\ SettledIsFinal
  /\ LedgerAgrees
  /\ SettledOnce

\* Within one run of the process every escrow that holds money has its
\* auto-release armed, and only such an escrow has: no operation forgets to
\* set or to clear AutoReleaseEnabled.
ArmedWhileHeld ==
  \A o \in Orders :
    escrows[o].armed <=> escrows[o].state \in {"funded", "shipped"}

\* Custody as EscrowCustody states it: the phase of an order and the place of
\* its payment change together, once.
PhaseOf(state) ==
  CASE state = "none" -> "absent"
    [] state = "created" -> "open"
    [] state \in {"funded", "shipped"} -> "held"
    [] state = "disputed" -> "frozen"
    [] state = "completed" -> "paid"
    [] state = "refunded" -> "returned"
    [] state \in {"cancelled", "expired"} -> "closed"

PurseOf(o) ==
  IF escrows[o].pid = NoPayment THEN "none"
  ELSE CASE payments[escrows[o].pid].status = "confirmed" -> "held"
         [] payments[escrows[o].pid].status = "released" -> "seller"
         [] payments[escrows[o].pid].status = "refunded" -> "buyer"
         [] OTHER -> "none"

Custody == INSTANCE EscrowCustody WITH
             phase <- [o \in Orders |-> PhaseOf(escrows[o].state)],
             purse <- [o \in Orders |-> PurseOf(o)]

EscrowRefinement == Custody!CustodySpec

\* An escrow that nobody pays, or pays too late, does not stay open.
OpenIsClosed ==
  \A o \in Orders : escrows[o].state = "created" ~> escrows[o].state # "created"

\* A seller whose buyer stays silent is not kept waiting: unless the process
\* ends, the escrow leaves funded and shipped by itself (ProcessAutoReleases).
HeldIsDecided ==
  \A o \in Orders :
    (escrows[o].state \in {"funded", "shipped"} /\ crashes = 0)
      ~> (escrows[o].state \in {"completed", "disputed", "refunded"} \/ crashes > 0)
=============================================================================
