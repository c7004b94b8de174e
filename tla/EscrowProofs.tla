---------------------------- MODULE EscrowProofs ----------------------------
(***************************************************************************)
(* Proofs about Escrow, for every set of orders and payment ids, every     *)
(* threshold and window, any number of restarts and any overlap of Save    *)
(* with the other operations.                                              *)
(***************************************************************************)
EXTENDS Escrow, TLAPS

USE DEF Currencies

-----------------------------------------------------------------------------
(* Types.                                                                  *)

\* The updates the operations make of a record yield records.
LEMMA RecordUpdate ==
  ASSUME NEW r \in EscrowRecord, NEW s \in States, NEW b \in BOOLEAN
  PROVE  /\ [r EXCEPT !.state = s] \in EscrowRecord
         /\ [r EXCEPT !.state = s, !.armed = b] \in EscrowRecord
         /\ [r EXCEPT !.state = s, !.armed = b, !.timer = ReleaseWindow] \in EscrowRecord
  BY WindowsAssumption DEF EscrowRecord

\* So does the update of an escrow whose payment was found.
LEMMA FundedRecord ==
  ASSUME NEW r \in EscrowRecord, NEW p \in PaymentIds
  PROVE  [r EXCEPT !.state = "funded", !.pid = p, !.armed = TRUE,
                   !.timer = ReleaseWindow] \in EscrowRecord
  BY WindowsAssumption DEF EscrowRecord, States

\* The empty slot of the maps, in memory and in the file.
LEMMA EmptyRecord == NoEscrow \in EscrowRecord /\ NoRecord \in PaymentRecord
  BY DEF NoEscrow, NoRecord, EscrowRecord, PaymentRecord

\* An operation that writes a record keeps the type of EscrowManager.escrows.
LEMMA UpdateType ==
  ASSUME TypeOK, NEW o \in Orders, NEW r \in EscrowRecord, Update(o, r)
  PROVE  /\ escrows' \in [Orders -> EscrowRecord]
         /\ escrows'[o] = r
         /\ \A x \in Orders \ {o} : escrows'[x] = escrows[x]
  BY DEF TypeOK, Update

\* What the wallet is told to pay, it records as a settlement of a payment.
LEMMA DisburseType ==
  ASSUME TypeOK, NEW S \in SUBSET Orders, NEW outcome \in {"released", "refunded"},
         Disburse(S, outcome)
  PROVE  /\ payments' \in [PaymentIds -> PaymentRecord]
         /\ moved' \in [Orders -> SUBSET Settlement]
<1> DEFINE hit == {o \in S : Payable(escrows[o].pid)}
<1>1. \A o \in hit : escrows[o].pid \in PaymentIds
  BY DEF TypeOK, EscrowRecord, Payable
<1>2. payments' \in [PaymentIds -> PaymentRecord]
  BY DEF Disburse, TypeOK, PaymentRecord
<1>3. moved' \in [Orders -> SUBSET Settlement]
  BY <1>1 DEF Disburse, TypeOK, Settlement
<1>4. QED BY <1>2, <1>3

\* Time takes a record of the file or of memory to a record.
LEMMA AgedType ==
  ASSUME NEW f \in [Orders -> EscrowRecord]
  PROVE  Aged(f) \in [Orders -> EscrowRecord]
  BY DEF Aged, EscrowRecord

\* Whatever the encoder writes is a record again.
LEMMA TornType ==
  ASSUME NEW old \in EscrowRecord, NEW new \in EscrowRecord
  PROVE  Torn(old, new) \subseteq EscrowRecord
  BY DEF Torn, EscrowRecord

\* The chain moves deposits and confirmations only.
LEMMA ChainType ==
  ASSUME TypeOK, NEW o \in Orders, Chain(o)
  PROVE  TypeOK'
<1>1. ASSUME NEW amount \in {"short", "full"}, Deposit(o, amount)
      PROVE  TypeOK'
  BY <1>1 DEF TypeOK, Deposit, walletVars, fileVars
<1>2. CASE Confirm(o)
  BY <1>2 DEF TypeOK, Confirm, walletVars, fileVars
<1>3. QED BY <1>1, <1>2 DEF Chain

\* Each handler of the daemon keeps the types.
LEMMA HandlerType ==
  ASSUME TypeOK, NEW o \in Orders, Handler(o)
  PROVE  TypeOK'
<1> USE DEF walletVars, chainVars, fileVars
<1>0. escrows[o] \in EscrowRecord
  BY DEF TypeOK
<1>1. ASSUME NEW currency \in Currencies, CreateEscrow(o, currency)
      PROVE  TypeOK'
  <2> DEFINE r == [state |-> "created", currency |-> currency, pid |-> NoPayment,
                   armed |-> FALSE, timer |-> PayWindow]
  <2>1. r \in EscrowRecord
    BY WindowsAssumption DEF EscrowRecord, States
  <2>2. Update(o, r)
    BY <1>1 DEF CreateEscrow
  <2> HIDE DEF r
  <2>3. escrows' \in [Orders -> EscrowRecord]
    BY <2>1, <2>2, UpdateType
  <2>4. QED BY <1>1, <2>3 DEF CreateEscrow, GenerateEscrowAddress, TypeOK
<1>2. CASE CheckPayment(o)
  <2> DEFINE r(p) == [escrows[o] EXCEPT !.state = "funded", !.pid = p,
                                        !.armed = TRUE, !.timer = ReleaseWindow]
  <2>1. PICK p \in PaymentIds \ drawn :
          /\ drawn' = drawn \cup {p}
          /\ payments' = [payments EXCEPT ![p] =
                [order |-> o, status |-> PaymentStatus(o, escrows[o].currency)]]
          /\ Update(o, r(p)) \/ UNCHANGED escrows
    BY <1>2 DEF CheckPayment
  <2>2. r(p) \in EscrowRecord
    BY <1>0, FundedRecord
  <2> HIDE DEF r
  <2>3. escrows' \in [Orders -> EscrowRecord]
    BY <2>1, <2>2, UpdateType DEF TypeOK
  <2>4. payments' \in [PaymentIds -> PaymentRecord]
    BY <2>1 DEF TypeOK, PaymentRecord, PaymentStatus
  <2>5. QED BY <1>2, <2>1, <2>3, <2>4 DEF CheckPayment, TypeOK
<1>3. CASE ManualConfirmPayment(o)
  <2> DEFINE r == [escrows[o] EXCEPT !.state = "funded", !.armed = TRUE,
                                     !.timer = ReleaseWindow]
  <2>1. r \in EscrowRecord /\ Update(o, r)
    BY <1>0, <1>3, RecordUpdate DEF ManualConfirmPayment, States
  <2> HIDE DEF r
  <2>2. QED BY <1>3, <2>1, UpdateType DEF ManualConfirmPayment, TypeOK
<1>4. CASE MarkShipped(o)
  <2> DEFINE r == [escrows[o] EXCEPT !.state = "shipped"]
  <2>1. r \in EscrowRecord /\ Update(o, r)
    BY <1>0, <1>4, RecordUpdate DEF MarkShipped, States
  <2> HIDE DEF r
  <2>2. QED BY <1>4, <2>1, UpdateType DEF MarkShipped, TypeOK
<1>5. CASE Release(o)
  <2> DEFINE r == [escrows[o] EXCEPT !.state = "completed", !.armed = FALSE]
  <2>1. r \in EscrowRecord /\ Update(o, r)
    BY <1>0, <1>5, RecordUpdate DEF Release, States
  <2> HIDE DEF r
  <2>2. escrows' \in [Orders -> EscrowRecord]
    BY <2>1, UpdateType
  <2>3. /\ payments' \in [PaymentIds -> PaymentRecord]
        /\ moved' \in [Orders -> SUBSET Settlement]
    BY <1>5, DisburseType DEF Release
  <2>4. QED BY <1>5, <2>2, <2>3 DEF Release, TypeOK
<1>6. CASE OpenDispute(o)
  <2> DEFINE r == [escrows[o] EXCEPT !.state = "disputed", !.armed = FALSE]
  <2>1. r \in EscrowRecord /\ Update(o, r)
    BY <1>0, <1>6, RecordUpdate DEF OpenDispute, States
  <2> HIDE DEF r
  <2>2. QED BY <1>6, <2>1, UpdateType DEF OpenDispute, TypeOK
<1>7. QED BY <1>1, <1>2, <1>3, <1>4, <1>5, <1>6
            DEF Handler, handleEscrowCreate, handleEscrowStatus

\* So do the operations of an arbiter.
LEMMA ArbitrationType ==
  ASSUME TypeOK, NEW o \in Orders, Arbitration(o)
  PROVE  TypeOK'
<1> USE DEF walletVars, chainVars, fileVars
<1>0. escrows[o] \in EscrowRecord
  BY DEF TypeOK
<1>1. CASE Refund(o)
  <2> DEFINE r == [escrows[o] EXCEPT !.state = "refunded", !.armed = FALSE]
  <2>1. r \in EscrowRecord /\ Update(o, r)
    BY <1>0, <1>1, RecordUpdate DEF Refund, States
  <2> HIDE DEF r
  <2>2. escrows' \in [Orders -> EscrowRecord]
    BY <2>1, UpdateType
  <2>3. /\ payments' \in [PaymentIds -> PaymentRecord]
        /\ moved' \in [Orders -> SUBSET Settlement]
    BY <1>1, DisburseType DEF Refund
  <2>4. QED BY <1>1, <2>2, <2>3 DEF Refund, TypeOK
<1>2. ASSUME NEW releaseToSeller \in BOOLEAN, ResolveDispute(o, releaseToSeller)
      PROVE  TypeOK'
  <2> DEFINE outcome == IF releaseToSeller THEN "released" ELSE "refunded"
  <2> DEFINE s == IF releaseToSeller THEN "completed" ELSE "refunded"
  <2> DEFINE r == [escrows[o] EXCEPT !.state = s]
  <2>1. s \in States /\ outcome \in {"released", "refunded"} /\ {o} \in SUBSET Orders
    BY DEF States
  <2>2. Disburse({o}, outcome) /\ Update(o, r)
    BY <1>2 DEF ResolveDispute
  <2> HIDE DEF outcome, s
  <2>3. r \in EscrowRecord
    BY <1>0, <2>1, RecordUpdate
  <2> HIDE DEF r
  <2>4. escrows' \in [Orders -> EscrowRecord]
    BY <2>2, <2>3, UpdateType
  <2>5. /\ payments' \in [PaymentIds -> PaymentRecord]
        /\ moved' \in [Orders -> SUBSET Settlement]
    BY <2>1, <2>2, DisburseType
  <2>6. QED BY <1>2, <2>4, <2>5 DEF ResolveDispute, TypeOK
<1>3. CASE Cancel(o)
  <2> DEFINE r == [escrows[o] EXCEPT !.state = "cancelled"]
  <2>1. r \in EscrowRecord /\ Update(o, r)
    BY <1>0, <1>3, RecordUpdate DEF Cancel, States
  <2> HIDE DEF r
  <2>2. QED BY <1>3, <2>1, UpdateType DEF Cancel, TypeOK
<1>4. QED BY <1>1, <1>2, <1>3 DEF Arbitration

\* The maintenance passes keep the types.
LEMMA MaintenanceType ==
  ASSUME TypeOK, Maintenance
  PROVE  TypeOK'
<1> USE DEF walletVars, chainVars, fileVars
<1>1. CASE ProcessAutoReleases
  <2>1. escrows' \in [Orders -> EscrowRecord]
    <3> DEFINE r(o) == [escrows[o] EXCEPT !.state = "completed", !.armed = FALSE]
    <3>1. \A o \in Orders : r(o) \in EscrowRecord
      BY RecordUpdate DEF TypeOK, States
    <3>2. escrows' = [o \in Orders |-> IF o \in DueForRelease THEN r(o) ELSE escrows[o]]
      BY <1>1 DEF ProcessAutoReleases
    <3> HIDE DEF r
    <3>3. QED BY <3>1, <3>2 DEF TypeOK
  <2>2. /\ payments' \in [PaymentIds -> PaymentRecord]
        /\ moved' \in [Orders -> SUBSET Settlement]
    BY <1>1, DisburseType DEF ProcessAutoReleases, DueForRelease
  <2>3. QED BY <1>1, <2>1, <2>2 DEF ProcessAutoReleases, TypeOK
<1>2. CASE ProcessExpiredEscrows
  <2>1. escrows' \in [Orders -> EscrowRecord]
    <3> DEFINE r(o) == [escrows[o] EXCEPT !.state = "expired"]
    <3>1. \A o \in Orders : r(o) \in EscrowRecord
      BY RecordUpdate DEF TypeOK, States
    <3>2. escrows' = [o \in Orders |-> IF o \in DueForExpiry THEN r(o) ELSE escrows[o]]
      BY <1>2 DEF ProcessExpiredEscrows
    <3> HIDE DEF r
    <3>3. QED BY <3>1, <3>2 DEF TypeOK
  <2>2. QED BY <1>2, <2>1 DEF ProcessExpiredEscrows, TypeOK
<1>3. QED BY <1>1, <1>2 DEF Maintenance

\* Time, the file and a restart keep the types.
LEMMA FileType ==
  ASSUME TypeOK, Tick \/ SaveStart \/ SaveFinish \/ Restart
  PROVE  TypeOK'
<1> USE DEF walletVars, chainVars, fileVars
<1>1. CASE Tick
  <2>1. /\ escrows' \in [Orders -> EscrowRecord]
        /\ disk' \in [Orders -> EscrowRecord]
        /\ snapshot' \in [Orders -> EscrowRecord]
    BY <1>1, AgedType DEF Tick, TypeOK
  <2>2. QED BY <1>1, <2>1 DEF Tick, TypeOK
<1>2. CASE SaveStart
  BY <1>2 DEF SaveStart, TypeOK
<1>3. CASE SaveFinish
  <2>1. \A o \in Orders : Torn(snapshot[o], escrows[o]) \subseteq EscrowRecord
    BY TornType DEF TypeOK
  <2>2. disk' \in [Orders -> EscrowRecord]
    BY <1>3, <2>1 DEF SaveFinish
  <2>3. QED BY EmptyRecord, <1>3, <2>2 DEF SaveFinish, TypeOK
<1>4. CASE Restart
  <2>1. /\ payments' \in [PaymentIds -> PaymentRecord]
        /\ snapshot' \in [Orders -> EscrowRecord]
    BY EmptyRecord, <1>4 DEF Restart
  <2>2. crashes' \in Nat
    BY <1>4 DEF Restart, TypeOK
  <2>3. QED BY <1>4, <2>1, <2>2 DEF Restart, TypeOK
<1>5. QED BY <1>1, <1>2, <1>3, <1>4

\* Every step of the escrow service, restarts included, keeps the types.
LEMMA NextType == TypeOK /\ [Next]_vars => TypeOK'
<1> SUFFICES ASSUME TypeOK, [Next]_vars PROVE TypeOK'
  OBVIOUS
<1>1. CASE UNCHANGED vars
  BY <1>1 DEF vars, walletVars, chainVars, fileVars, TypeOK
<1>2. ASSUME NEW o \in Orders, Chain(o) \/ Handler(o) \/ Arbitration(o)
      PROVE  TypeOK'
  BY <1>2, ChainType, HandlerType, ArbitrationType
<1>3. QED
  BY <1>1, <1>2, MaintenanceType, FileType DEF Next, Running

\* The service starts well typed.
LEMMA InitType == Init => TypeOK
<1> SUFFICES ASSUME Init PROVE TypeOK
  OBVIOUS
<1>1. /\ escrows \in [Orders -> EscrowRecord]
      /\ disk \in [Orders -> EscrowRecord]
      /\ snapshot \in [Orders -> EscrowRecord]
      /\ payments \in [PaymentIds -> PaymentRecord]
  BY EmptyRecord DEF Init
<1>2. /\ deposit \in [Orders -> {"unaddressed", "awaited", "short", "full"}]
      /\ conf \in [Orders -> Nat]
      /\ moved \in [Orders -> SUBSET Settlement]
  BY DEF Init
<1>3. QED BY <1>1, <1>2 DEF Init, TypeOK

\* The maps of EscrowManager, the wallet and the file stay well typed.
THEOREM TypeCorrect == Spec => []TypeOK
  BY InitType, NextType, PTL DEF Spec

-----------------------------------------------------------------------------
(* The ledger.                                                             *)

Held == {"funded", "shipped", "disputed"}
Final(outcome) == IF outcome = "released" THEN "completed" ELSE "refunded"

\* A step that leaves the wallet alone keeps the ledger, if it keeps every
\* PaymentID, draws none for the file and settles no escrow.
LEMMA QuietStep ==
  ASSUME TypeOK, LedgerInv,
         UNCHANGED <<addresses, payments, drawn, moved, deposit>>,
         \A o \in Orders :
           /\ escrows'[o].pid = escrows[o].pid
           /\ \/ escrows'[o].state = escrows[o].state
              \/ /\ escrows[o].state \in {"funded", "shipped"}
                 /\ escrows'[o].state \in Held
              \/ escrows[o].state = "created",
         \A o \in Orders :
           /\ disk'[o].pid \in drawn \cup {NoPayment}
           /\ snapshot'[o].pid \in drawn \cup {NoPayment}
  PROVE  LedgerInv'
<1>1. KnownPayments' /\ AddressesIssued' /\ SettledOnce'
  BY DEF LedgerInv, KnownPayments, AddressesIssued, SettledOnce
<1>2. PidsDrawn'
  BY DEF LedgerInv, PidsDrawn
<1>3. SettledIsFinal'
  BY DEF LedgerInv, SettledIsFinal
<1>4. LedgerAgrees'
  <2> SUFFICES ASSUME NEW o \in Orders,
                      escrows'[o].pid # NoPayment,
                      payments'[escrows'[o].pid] # NoRecord
               PROVE  /\ payments'[escrows'[o].pid].order = o
                      /\ payments'[escrows'[o].pid].status = Outcome(escrows'[o].state)
    BY DEF LedgerAgrees
  <2> DEFINE p == escrows[o].pid
  <2>1. p \in PaymentIds /\ p # NoPayment /\ payments[p] # NoRecord
    BY DEF TypeOK, EscrowRecord
  <2>2. payments[p].order = o /\ payments[p].status = Outcome(escrows[o].state)
    BY <2>1 DEF LedgerInv, LedgerAgrees
  <2>3. payments[p].status # "none"
    BY <2>1 DEF LedgerInv, KnownPayments
  <2>4. escrows[o].state # "created"
    BY <2>2, <2>3 DEF Outcome
  <2>5. Outcome(escrows'[o].state) = Outcome(escrows[o].state)
    BY <2>4 DEF Outcome, Held
  <2>6. QED BY <2>2, <2>5
<1>5. QED BY <1>1, <1>2, <1>3, <1>4 DEF LedgerInv

\* A settlement of the escrows in S keeps the ledger: each of them held its
\* money, so none had been settled before.
LEMMA SettlingStep ==
  ASSUME TypeOK, LedgerInv, NEW S \in SUBSET Orders,
         NEW outcome \in {"released", "refunded"},
         Disburse(S, outcome),
         UNCHANGED <<addresses, drawn, deposit, disk, snapshot>>,
         \A o \in Orders : escrows'[o].pid = escrows[o].pid,
         \A o \in S : /\ escrows[o].state \in Held
                      /\ escrows'[o].state = Final(outcome),
         \A o \in Orders \ S : escrows'[o].state = escrows[o].state
  PROVE  LedgerInv'
<1> DEFINE hit == {o \in S : Payable(escrows[o].pid)}
<1>1. \A o \in hit : /\ escrows[o].pid \in PaymentIds
                     /\ escrows[o].pid # NoPayment
                     /\ payments[escrows[o].pid] # NoRecord
                     /\ payments[escrows[o].pid].status = "confirmed"
                     /\ payments[escrows[o].pid].order = o
                     /\ o \in addresses
  <2> SUFFICES ASSUME NEW o \in hit
               PROVE  /\ escrows[o].pid \in PaymentIds
                      /\ escrows[o].pid # NoPayment
                      /\ payments[escrows[o].pid] # NoRecord
                      /\ payments[escrows[o].pid].status = "confirmed"
                      /\ payments[escrows[o].pid].order = o
                      /\ o \in addresses
    OBVIOUS
  <2>1. /\ escrows[o].pid # NoPayment
        /\ payments[escrows[o].pid].status = "confirmed"
    BY DEF Payable
  <2>2. escrows[o].pid \in PaymentIds
    BY <2>1 DEF TypeOK, EscrowRecord
  <2>3. payments[escrows[o].pid] # NoRecord
    BY <2>1 DEF NoRecord
  <2>4. payments[escrows[o].pid].order = o
    BY <2>1, <2>3 DEF LedgerInv, LedgerAgrees
  <2>5. payments[escrows[o].pid].order \in addresses
    BY <2>2, <2>3 DEF LedgerInv, KnownPayments
  <2>6. QED BY <2>1, <2>2, <2>3, <2>4, <2>5
<1>2. \A o \in hit : moved[o] = {}
  BY <1>1 DEF LedgerInv, SettledIsFinal, Held
<1>3. \A p \in PaymentIds :
        /\ payments'[p].order = payments[p].order
        /\ payments'[p] # NoRecord => payments[p] # NoRecord
        /\ payments'[p] = payments[p] \/ payments'[p].status = outcome
  <2> SUFFICES ASSUME NEW p \in PaymentIds
               PROVE  /\ payments'[p].order = payments[p].order
                      /\ payments'[p] # NoRecord => payments[p] # NoRecord
                      /\ payments'[p] = payments[p] \/ payments'[p].status = outcome
    OBVIOUS
  <2>1. payments[p] \in PaymentRecord
    BY DEF TypeOK
  <2>2. CASE \E o \in hit : escrows[o].pid = p
    <3>1. payments'[p] = [payments[p] EXCEPT !.status = outcome]
      BY <2>2 DEF Disburse
    <3>2. payments[p] # NoRecord
      BY <1>1, <2>2
    <3>3. QED BY <2>1, <3>1, <3>2 DEF PaymentRecord
  <2>3. CASE ~ \E o \in hit : escrows[o].pid = p
    BY <2>3 DEF Disburse
  <2>4. QED BY <2>2, <2>3
<1>4. KnownPayments'
  BY <1>3 DEF LedgerInv, KnownPayments
<1>5. PidsDrawn' /\ AddressesIssued'
  BY DEF LedgerInv, PidsDrawn, AddressesIssued
<1>6. \A o \in Orders : moved'[o] # moved[o] => o \in hit
  BY DEF Disburse, TypeOK
<1>7. SettledIsFinal'
  <2> SUFFICES ASSUME NEW o \in Orders, moved'[o] # {}
               PROVE  /\ deposit'[o] # "unaddressed"
                      /\ o \in addresses' => escrows'[o].state \in {"completed", "refunded"}
    BY DEF SettledIsFinal
  <2>1. CASE o \in hit
    BY <1>1, <2>1 DEF LedgerInv, AddressesIssued, Final
  <2>2. CASE o \notin hit
    <3>1. moved[o] # {}
      BY <1>6, <2>2
    <3>2. /\ deposit[o] # "unaddressed"
          /\ o \in addresses => escrows[o].state \in {"completed", "refunded"}
      BY <3>1 DEF LedgerInv, SettledIsFinal
    <3>3. o \in addresses => o \notin S
      BY <3>2 DEF Held
    <3>4. QED BY <3>2, <3>3
  <2>3. QED BY <2>1, <2>2
<1>8. SettledOnce'
  <2>1. \A o \in hit : moved'[o] = {[pid |-> escrows[o].pid, outcome |-> outcome]}
    BY <1>2 DEF Disburse
  <2>2. QED BY <1>6, <2>1 DEF LedgerInv, SettledOnce
<1>9. LedgerAgrees'
  <2> SUFFICES ASSUME NEW o \in Orders,
                      escrows'[o].pid # NoPayment,
                      payments'[escrows'[o].pid] # NoRecord
               PROVE  /\ payments'[escrows'[o].pid].order = o
                      /\ payments'[escrows'[o].pid].status = Outcome(escrows'[o].state)
    BY DEF LedgerAgrees
  <2> DEFINE p == escrows[o].pid
  <2>1. p \in PaymentIds /\ p # NoPayment
    BY DEF TypeOK, EscrowRecord
  <2>2. payments[p] # NoRecord
    BY <1>3, <2>1
  <2>3. payments[p].order = o /\ payments[p].status = Outcome(escrows[o].state)
    BY <2>1, <2>2 DEF LedgerInv, LedgerAgrees
  <2>4. payments'[p].order = o
    BY <1>3, <2>1, <2>3
  <2>5. CASE o \in S
    <3>1. payments[p].status = "confirmed"
      BY <2>3, <2>5 DEF Outcome, Held
    <3>2. o \in hit
      BY <2>1, <2>5, <3>1 DEF Payable
    <3>3. payments'[p] = [payments[p] EXCEPT !.status = outcome]
      BY <2>1, <3>2 DEF Disburse
    <3>4. payments'[p].status = outcome
      BY <2>1, <3>3 DEF TypeOK, PaymentRecord
    <3>5. Outcome(escrows'[o].state) = outcome
      BY <2>5 DEF Outcome, Final
    <3>6. QED BY <2>4, <3>4, <3>5
  <2>6. CASE o \notin S
    <3>1. \A x \in hit : escrows[x].pid # p
      BY <1>1, <2>3, <2>6
    <3>2. payments'[p] = payments[p]
      BY <2>1, <3>1 DEF Disburse
    <3>3. QED BY <2>3, <2>6, <3>2
  <2>7. QED BY <2>5, <2>6
<1>10. QED BY <1>4, <1>5, <1>7, <1>8, <1>9 DEF LedgerInv

\* The file never holds a PaymentID the wallet has not drawn.
LEMMA FilePids ==
  ASSUME TypeOK, LedgerInv, NEW o \in Orders
  PROVE  /\ disk[o].pid \in drawn \cup {NoPayment}
         /\ snapshot[o].pid \in drawn \cup {NoPayment}
         /\ escrows[o].pid \in drawn \cup {NoPayment}
  BY DEF LedgerInv, PidsDrawn

\* Operations on one escrow that do not reach the wallet.
LEMMA UpdateStep ==
  ASSUME TypeOK, LedgerInv, NEW o \in Orders, NEW r \in EscrowRecord,
         Update(o, r), r.pid = escrows[o].pid,
         \/ escrows[o].state \in {"funded", "shipped"} /\ r.state \in Held
         \/ escrows[o].state = "created",
         UNCHANGED <<walletVars, chainVars, fileVars>>
  PROVE  LedgerInv'
<1>1. /\ escrows'[o] = r
      /\ \A x \in Orders \ {o} : escrows'[x] = escrows[x]
  BY UpdateType
<1>2. \A x \in Orders :
        /\ escrows'[x].pid = escrows[x].pid
        /\ \/ escrows'[x].state = escrows[x].state
           \/ /\ escrows[x].state \in {"funded", "shipped"}
              /\ escrows'[x].state \in Held
           \/ escrows[x].state = "created"
  BY <1>1
<1>3. \A x \in Orders : /\ disk'[x].pid \in drawn \cup {NoPayment}
                        /\ snapshot'[x].pid \in drawn \cup {NoPayment}
  BY FilePids DEF fileVars
<1>4. UNCHANGED <<addresses, payments, drawn, moved, deposit>>
  BY DEF walletVars, chainVars
<1>5. QED BY <1>2, <1>3, <1>4, QuietStep

\* A new escrow is for an order that nothing was ever settled for.
LEMMA CreateStep ==
  ASSUME TypeOK, LedgerInv, NEW o \in Orders, NEW currency \in Currencies,
         CreateEscrow(o, currency)
  PROVE  LedgerInv'
<1> DEFINE r == [state |-> "created", currency |-> currency, pid |-> NoPayment,
                 armed |-> FALSE, timer |-> PayWindow]
<1>1. /\ deposit[o] = "unaddressed"
      /\ addresses' = addresses \cup {o}
      /\ deposit' = [deposit EXCEPT ![o] = "awaited"]
      /\ Update(o, r)
      /\ UNCHANGED <<payments, drawn, moved, disk, snapshot>>
  BY DEF CreateEscrow, GenerateEscrowAddress, fileVars
<1>2. r \in EscrowRecord /\ r.pid = NoPayment
  BY WindowsAssumption DEF EscrowRecord, States
<1> HIDE DEF r
<1>3. escrows'[o] = r /\ \A x \in Orders \ {o} : escrows'[x] = escrows[x]
  BY <1>1, <1>2, UpdateType
<1>4. \A x \in Orders \ {o} : deposit'[x] = deposit[x]
  BY <1>1 DEF TypeOK
<1>5. deposit'[o] = "awaited" /\ o \notin addresses /\ moved[o] = {}
  BY <1>1 DEF TypeOK, LedgerInv, AddressesIssued, SettledIsFinal
<1>6. KnownPayments' /\ SettledOnce'
  BY <1>1 DEF LedgerInv, KnownPayments, SettledOnce
<1>7. PidsDrawn'
  BY <1>1, <1>2, <1>3 DEF LedgerInv, PidsDrawn
<1>8. AddressesIssued'
  BY <1>1, <1>4, <1>5 DEF LedgerInv, AddressesIssued, TypeOK
<1>9. SettledIsFinal'
  BY <1>1, <1>3, <1>4, <1>5 DEF LedgerInv, SettledIsFinal
<1>10. LedgerAgrees'
  BY <1>1, <1>2, <1>3 DEF LedgerInv, LedgerAgrees
<1>11. QED BY <1>6, <1>7, <1>8, <1>9, <1>10 DEF LedgerInv

\* A payment that is found is new to the wallet, and confirmed if it funds the
\* escrow: this is where the two thresholds for XMR must agree.
LEMMA CheckStep ==
  ASSUME TypeOK, LedgerInv, NEW o \in Orders, CheckPayment(o)
  PROVE  LedgerInv'
<1> DEFINE r(p) == [escrows[o] EXCEPT !.state = "funded", !.pid = p,
                                      !.armed = TRUE, !.timer = ReleaseWindow]
           enough == TransferConfirmations(o, escrows[o].currency)
                       >= getRequiredConfirmations(escrows[o].currency)
           status == PaymentStatus(o, escrows[o].currency)
           record == [order |-> o, status |-> status]
<1>1. PICK p \in PaymentIds \ drawn :
        /\ drawn' = drawn \cup {p}
        /\ payments' = [payments EXCEPT ![p] = record]
        /\ (enough /\ Update(o, r(p))) \/ (~enough /\ UNCHANGED escrows)
  BY DEF CheckPayment
<1>2. /\ escrows[o].state = "created" /\ o \in addresses
      /\ UNCHANGED <<addresses, moved, deposit, disk, snapshot>>
  BY DEF CheckPayment, chainVars, fileVars
<1>3. escrows[o] \in EscrowRecord
  BY DEF TypeOK
<1>4. enough => status = "confirmed"
  BY <1>3, ConfirmationsAssumption
     DEF TypeOK, EscrowRecord, TransferConfirmations, getRequiredConfirmations,
         PaymentStatus
<1>5. status # "none" /\ record.order = o /\ record.status = status
  BY DEF PaymentStatus
<1>6. r(p) \in EscrowRecord
  BY <1>3, FundedRecord
<1>7. r(p).pid = p /\ r(p).state = "funded"
  BY <1>3 DEF EscrowRecord
<1> HIDE DEF r, enough, status, record
<1>8. \/ /\ enough /\ escrows'[o] = r(p)
         /\ \A x \in Orders \ {o} : escrows'[x] = escrows[x]
      \/ escrows' = escrows
  BY <1>1, <1>6, UpdateType
<1>9. \A x \in Orders : escrows[x].pid # p
  BY FilePids, NamesAssumption
<1>10. payments'[p] = record /\ \A q \in PaymentIds \ {p} : payments'[q] = payments[q]
  BY <1>1 DEF TypeOK
<1>11. KnownPayments'
  BY <1>1, <1>2, <1>5, <1>10 DEF LedgerInv, KnownPayments
<1>12. PidsDrawn'
  BY <1>1, <1>2, <1>7, <1>8 DEF LedgerInv, PidsDrawn
<1>13. AddressesIssued' /\ SettledOnce'
  BY <1>2 DEF LedgerInv, AddressesIssued, SettledOnce
<1>14. SettledIsFinal'
  BY <1>2, <1>8 DEF LedgerInv, SettledIsFinal
<1>15. LedgerAgrees'
  <2> SUFFICES ASSUME NEW x \in Orders,
                      escrows'[x].pid # NoPayment,
                      payments'[escrows'[x].pid] # NoRecord
               PROVE  /\ payments'[escrows'[x].pid].order = x
                      /\ payments'[escrows'[x].pid].status = Outcome(escrows'[x].state)
    BY DEF LedgerAgrees
  <2>1. CASE enough /\ x = o /\ escrows'[o] = r(p)
    BY <1>4, <1>5, <1>7, <1>10, <2>1 DEF Outcome
  <2>2. CASE escrows'[x] = escrows[x]
    <3>1. escrows[x].pid \in PaymentIds \ {p}
      BY <1>9, <2>2 DEF TypeOK, EscrowRecord
    <3>2. payments'[escrows[x].pid] = payments[escrows[x].pid]
      BY <1>10, <3>1
    <3>3. QED BY <2>2, <3>2 DEF LedgerInv, LedgerAgrees
  <2>3. QED BY <1>8, <2>1, <2>2
<1>16. QED BY <1>11, <1>12, <1>13, <1>14, <1>15 DEF LedgerInv

\* A new process knows no payment and no address.
LEMMA RestartStep ==
  ASSUME TypeOK, LedgerInv, Restart
  PROVE  LedgerInv'
<1>1. /\ escrows' = disk /\ addresses' = {}
      /\ \A p \in PaymentIds : payments'[p] = NoRecord
      /\ UNCHANGED <<drawn, moved, deposit, disk>>
      /\ \A o \in Orders : snapshot'[o].pid = NoPayment
  BY DEF Restart, chainVars, NoEscrow
<1>2. KnownPayments' /\ AddressesIssued' /\ SettledOnce'
  BY <1>1 DEF LedgerInv, KnownPayments, AddressesIssued, SettledOnce
<1>3. PidsDrawn'
  BY <1>1 DEF LedgerInv, PidsDrawn
<1>4. SettledIsFinal'
  BY <1>1 DEF LedgerInv, SettledIsFinal
<1>5. LedgerAgrees'
  <2>1. \A o \in Orders : escrows'[o].pid \in PaymentIds \cup {NoPayment}
    BY <1>1 DEF TypeOK, EscrowRecord
  <2>2. QED BY <1>1, <2>1 DEF LedgerAgrees
<1>6. QED BY <1>2, <1>3, <1>4, <1>5 DEF LedgerInv

\* Every handler of the daemon keeps the ledger.
LEMMA HandlerStep ==
  ASSUME TypeOK, LedgerInv, NEW o \in Orders, Handler(o)
  PROVE  LedgerInv'
<1>0. escrows[o] \in EscrowRecord
  BY DEF TypeOK
<1>1. CASE \E currency \in Currencies : CreateEscrow(o, currency)
  BY <1>1, CreateStep
<1>2. CASE CheckPayment(o)
  BY <1>2, CheckStep
<1>3. CASE ManualConfirmPayment(o)
  <2> DEFINE r == [escrows[o] EXCEPT !.state = "funded", !.armed = TRUE,
                                     !.timer = ReleaseWindow]
  <2>0. Update(o, r) /\ escrows[o].state = "created"
    BY <1>3 DEF ManualConfirmPayment
  <2>1. r \in EscrowRecord
    BY <1>0, RecordUpdate DEF States
  <2>1a. r.pid = escrows[o].pid
    BY <1>0 DEF EscrowRecord
  <2> HIDE DEF r
  <2>2. QED BY <1>3, <2>0, <2>1, <2>1a, UpdateStep DEF ManualConfirmPayment
<1>4. CASE MarkShipped(o)
  <2> DEFINE r == [escrows[o] EXCEPT !.state = "shipped"]
  <2>0. Update(o, r) /\ escrows[o].state = "funded"
    BY <1>4 DEF MarkShipped
  <2>1. r \in EscrowRecord
    BY <1>0, RecordUpdate DEF States
  <2>1a. r.pid = escrows[o].pid /\ r.state \in Held
    BY <1>0 DEF EscrowRecord, Held
  <2> HIDE DEF r
  <2>2. QED BY <1>4, <2>0, <2>1, <2>1a, UpdateStep DEF MarkShipped
<1>5. CASE Release(o)
  <2> DEFINE r == [escrows[o] EXCEPT !.state = "completed", !.armed = FALSE]
  <2>0. Update(o, r) /\ escrows[o].state \in Held /\ Disburse({o}, "released")
    BY <1>5 DEF Release, Held
  <2>1. r \in EscrowRecord
    BY <1>0, RecordUpdate DEF States
  <2>1a. r.pid = escrows[o].pid /\ r.state = Final("released")
    BY <1>0 DEF EscrowRecord, Final
  <2> HIDE DEF r
  <2>2. /\ escrows'[o] = r
        /\ \A x \in Orders \ {o} : escrows'[x] = escrows[x]
    BY <2>0, <2>1, <2>1a, UpdateType
  <2>3. UNCHANGED <<addresses, drawn, deposit, disk, snapshot>>
    BY <1>5 DEF Release, chainVars, fileVars
  <2>4. QED BY <2>0, <2>1, <2>1a, <2>2, <2>3, SettlingStep
<1>6. CASE OpenDispute(o)
  <2> DEFINE r == [escrows[o] EXCEPT !.state = "disputed", !.armed = FALSE]
  <2>0. Update(o, r) /\ escrows[o].state \in {"funded", "shipped"}
    BY <1>6 DEF OpenDispute
  <2>1. r \in EscrowRecord
    BY <1>0, RecordUpdate DEF States
  <2>1a. r.pid = escrows[o].pid /\ r.state \in Held
    BY <1>0 DEF EscrowRecord, Held
  <2> HIDE DEF r
  <2>2. QED BY <1>6, <2>0, <2>1, <2>1a, UpdateStep DEF OpenDispute
<1>7. QED BY <1>1, <1>2, <1>3, <1>4, <1>5, <1>6
            DEF Handler, handleEscrowCreate, handleEscrowStatus

\* So does every operation of an arbiter.
LEMMA ArbitrationStep ==
  ASSUME TypeOK, LedgerInv, NEW o \in Orders, Arbitration(o)
  PROVE  LedgerInv'
<1>0. escrows[o] \in EscrowRecord
  BY DEF TypeOK
<1>1. CASE Refund(o)
  <2> DEFINE r == [escrows[o] EXCEPT !.state = "refunded", !.armed = FALSE]
  <2>0. Update(o, r) /\ escrows[o].state \in Held /\ Disburse({o}, "refunded")
    BY <1>1 DEF Refund, Held
  <2>1. r \in EscrowRecord
    BY <1>0, RecordUpdate DEF States
  <2>1a. r.pid = escrows[o].pid /\ r.state = Final("refunded")
    BY <1>0 DEF EscrowRecord, Final
  <2> HIDE DEF r
  <2>2. /\ escrows'[o] = r
        /\ \A x \in Orders \ {o} : escrows'[x] = escrows[x]
    BY <2>0, <2>1, <2>1a, UpdateType
  <2>3. UNCHANGED <<addresses, drawn, deposit, disk, snapshot>>
    BY <1>1 DEF Refund, chainVars, fileVars
  <2>4. QED BY <2>0, <2>1, <2>1a, <2>2, <2>3, SettlingStep
<1>2. ASSUME NEW releaseToSeller \in BOOLEAN, ResolveDispute(o, releaseToSeller)
      PROVE  LedgerInv'
  <2> DEFINE outcome == IF releaseToSeller THEN "released" ELSE "refunded"
             s == IF releaseToSeller THEN "completed" ELSE "refunded"
             r == [escrows[o] EXCEPT !.state = s]
  <2>1. /\ s \in States /\ s = Final(outcome)
        /\ outcome \in {"released", "refunded"} /\ {o} \in SUBSET Orders
    BY DEF States, Final
  <2>2. Disburse({o}, outcome) /\ Update(o, r) /\ escrows[o].state \in Held
    BY <1>2 DEF ResolveDispute, Held
  <2> HIDE DEF outcome, s
  <2>3. r \in EscrowRecord /\ r.pid = escrows[o].pid /\ r.state = s
    BY <1>0, <2>1, RecordUpdate DEF EscrowRecord
  <2> HIDE DEF r
  <2>4. /\ escrows'[o] = r
        /\ \A x \in Orders \ {o} : escrows'[x] = escrows[x]
    BY <2>2, <2>3, UpdateType
  <2>5. UNCHANGED <<addresses, drawn, deposit, disk, snapshot>>
    BY <1>2 DEF ResolveDispute, chainVars, fileVars
  <2>6. QED BY <2>1, <2>2, <2>3, <2>4, <2>5, SettlingStep
<1>3. CASE Cancel(o)
  <2> DEFINE r == [escrows[o] EXCEPT !.state = "cancelled"]
  <2>0. Update(o, r) /\ escrows[o].state = "created"
    BY <1>3 DEF Cancel
  <2>1. r \in EscrowRecord
    BY <1>0, RecordUpdate DEF States
  <2>1a. r.pid = escrows[o].pid
    BY <1>0 DEF EscrowRecord
  <2> HIDE DEF r
  <2>2. QED BY <1>3, <2>0, <2>1, <2>1a, UpdateStep DEF Cancel
<1>4. QED BY <1>1, <1>2, <1>3 DEF Arbitration

\* So does a maintenance pass, although ProcessAutoReleases drops the errors
\* of the wallet: a payment the wallet knows is confirmed while it is held.
LEMMA MaintenanceStep ==
  ASSUME TypeOK, LedgerInv, Maintenance
  PROVE  LedgerInv'
<1>1. CASE ProcessAutoReleases
  <2> DEFINE S == DueForRelease
             r(o) == [escrows[o] EXCEPT !.state = "completed", !.armed = FALSE]
  <2>1. S \in SUBSET Orders /\ \A o \in S : escrows[o].state \in Held
    BY DEF DueForRelease, Held
  <2>2. \A o \in Orders : r(o).pid = escrows[o].pid /\ r(o).state = "completed"
    BY DEF TypeOK, EscrowRecord
  <2>3. /\ Disburse(S, "released")
        /\ escrows' = [o \in Orders |-> IF o \in S THEN r(o) ELSE escrows[o]]
        /\ UNCHANGED <<addresses, drawn, deposit, disk, snapshot>>
    BY <1>1 DEF ProcessAutoReleases, chainVars, fileVars
  <2> HIDE DEF S, r
  <2>4. /\ \A o \in Orders : escrows'[o].pid = escrows[o].pid
        /\ \A o \in S : escrows'[o].state = Final("released")
        /\ \A o \in Orders \ S : escrows'[o].state = escrows[o].state
    BY <2>1, <2>2, <2>3 DEF Final
  <2>5. QED BY <2>1, <2>3, <2>4, SettlingStep
<1>2. CASE ProcessExpiredEscrows
  <2>1. \A o \in Orders : /\ escrows'[o].pid = escrows[o].pid
                          /\ \/ escrows'[o].state = escrows[o].state
                             \/ escrows[o].state = "created"
    BY <1>2 DEF ProcessExpiredEscrows, DueForExpiry, TypeOK, EscrowRecord
  <2>2. UNCHANGED <<addresses, payments, drawn, moved, deposit, disk, snapshot>>
    BY <1>2 DEF ProcessExpiredEscrows, walletVars, chainVars, fileVars
  <2>3. QED BY <2>1, <2>2, FilePids, QuietStep
<1>3. QED BY <1>1, <1>2 DEF Maintenance

\* So do the chain, the clock and both steps of Save.
LEMMA OtherStep ==
  ASSUME TypeOK, LedgerInv, (\E o \in Orders : Chain(o)) \/ Tick \/ SaveStart \/ SaveFinish
  PROVE  LedgerInv'
<1>1. ASSUME NEW o \in Orders, Chain(o) PROVE LedgerInv'
  <2>1. /\ UNCHANGED <<escrows, addresses, payments, drawn, moved, disk, snapshot>>
        /\ \A x \in Orders : deposit[x] # "unaddressed" => deposit'[x] # "unaddressed"
    BY <1>1 DEF Chain, Deposit, Confirm, walletVars, fileVars, TypeOK
  <2>2. KnownPayments' /\ PidsDrawn' /\ LedgerAgrees' /\ SettledOnce'
    BY <2>1 DEF LedgerInv, KnownPayments, PidsDrawn, LedgerAgrees, SettledOnce
  <2>3. AddressesIssued' /\ SettledIsFinal'
    BY <2>1 DEF LedgerInv, AddressesIssued, SettledIsFinal, TypeOK
  <2>4. QED BY <2>2, <2>3 DEF LedgerInv
<1>2. CASE Tick
  <2>1. \A o \in Orders : /\ escrows'[o].pid = escrows[o].pid
                          /\ escrows'[o].state = escrows[o].state
                          /\ disk'[o].pid = disk[o].pid
                          /\ snapshot'[o].pid = snapshot[o].pid
    BY <1>2 DEF Tick, Aged, TypeOK, EscrowRecord
  <2>2. UNCHANGED <<addresses, payments, drawn, moved, deposit>>
    BY <1>2 DEF Tick, walletVars, chainVars
  <2>3. QED BY <2>1, <2>2, FilePids, QuietStep
<1>3. CASE SaveStart
  <2>1. UNCHANGED <<escrows, addresses, payments, drawn, moved, deposit, disk>>
        /\ snapshot' = escrows
    BY <1>3 DEF SaveStart, walletVars, chainVars
  <2>2. QED BY <2>1, FilePids, QuietStep
<1>4. CASE SaveFinish
  <2>1. UNCHANGED <<escrows, addresses, payments, drawn, moved, deposit>>
    BY <1>4 DEF SaveFinish, walletVars, chainVars
  <2>2. \A o \in Orders : disk'[o] \in Torn(snapshot[o], escrows[o])
    BY <1>4 DEF SaveFinish
  <2>3. \A o \in Orders : \A d \in Torn(snapshot[o], escrows[o]) :
          d.pid \in {snapshot[o].pid, escrows[o].pid}
    BY DEF Torn, TypeOK, EscrowRecord
  <2>4. \A o \in Orders : /\ disk'[o].pid \in drawn \cup {NoPayment}
                          /\ snapshot'[o].pid \in drawn \cup {NoPayment}
    BY <1>4, <2>2, <2>3, FilePids DEF SaveFinish, NoEscrow
  <2>5. QED BY <2>1, <2>4, QuietStep
<1>5. QED BY <1>1, <1>2, <1>3, <1>4

\* LedgerInv is inductive relative to the types.
LEMMA NextLedger == TypeOK /\ LedgerInv /\ [Next]_vars => LedgerInv'
<1> SUFFICES ASSUME TypeOK, LedgerInv, [Next]_vars PROVE LedgerInv'
  OBVIOUS
<1>1. CASE UNCHANGED vars
  BY <1>1, FilePids, QuietStep DEF vars, walletVars, chainVars, fileVars
<1>2. ASSUME NEW o \in Orders, Handler(o) \/ Arbitration(o)
      PROVE  LedgerInv'
  BY <1>2, HandlerStep, ArbitrationStep
<1>3. QED
  BY <1>1, <1>2, MaintenanceStep, OtherStep, RestartStep DEF Next, Running

LEMMA InitLedger == Init => LedgerInv
  BY DEF Init, LedgerInv, KnownPayments, PidsDrawn, AddressesIssued,
         SettledIsFinal, LedgerAgrees, SettledOnce, NoEscrow

\* The inductive invariant of the ledger holds throughout.
LEMMA LedgerInvariant == Spec => [](TypeOK /\ LedgerInv)
<1>1. TypeOK /\ LedgerInv /\ [Next]_vars => (TypeOK /\ LedgerInv)'
  BY NextType, NextLedger
<1>2. QED BY <1>1, InitType, InitLedger, PTL DEF Spec

\* For any number of orders, restarts and overlapping saves, the money of an
\* order moves at most once and to one party.
THEOREM SettlesOnce == Spec => []SettledOnce
<1>1. LedgerInv => SettledOnce
  BY DEF LedgerInv
<1>2. QED BY <1>1, LedgerInvariant, PTL

\* Manager and wallet agree on every payment the wallet knows.
THEOREM LedgerIsRight == Spec => []LedgerAgrees
<1>1. LedgerInv => LedgerAgrees
  BY DEF LedgerInv
<1>2. QED BY <1>1, LedgerInvariant, PTL

-----------------------------------------------------------------------------
(* One run of the process.  Without restarts the wallet keeps what it has  *)
(* recorded, so the payment of an escrow is always known, and where the    *)
(* money is can be read off the escrow itself.                             *)

\* The wallet knows the payment an escrow names.  A restart would break it.
Tracked ==
  \A o \in Orders :
    escrows[o].pid # NoPayment => payments[escrows[o].pid] # NoRecord

RunInv == TypeOK /\ LedgerInv /\ Tracked /\ ArmedWhileHeld

\* What a step may do to an escrow.
PidKept(o)   == escrows'[o].pid = escrows[o].pid
ArmedKept(o) == escrows'[o].armed = escrows[o].armed
Goes(o, from, to) == escrows[o].state \in from /\ escrows'[o].state \in to

Turn(o) ==
  \/ escrows'[o].state = escrows[o].state /\ PidKept(o) /\ ArmedKept(o)
  \/ Goes(o, {"none"}, {"created"}) /\ escrows'[o].pid = NoPayment /\ ~escrows'[o].armed
  \/ Goes(o, {"created"}, {"funded"}) /\ escrows'[o].armed
  \/ Goes(o, {"funded"}, {"shipped"}) /\ PidKept(o) /\ ArmedKept(o)
  \/ Goes(o, {"funded", "shipped"}, {"disputed"}) /\ PidKept(o) /\ ~escrows'[o].armed
  \/ Goes(o, Held, {"completed", "refunded"}) /\ PidKept(o) /\ ~escrows'[o].armed
  \/ Goes(o, {"created"}, {"cancelled", "expired"}) /\ PidKept(o) /\ ArmedKept(o)

\* And to the wallet's memory.
Remembered ==
  /\ \A p \in PaymentIds : payments[p] # NoRecord => payments'[p] # NoRecord
  /\ \A o \in Orders :
       escrows'[o].pid # escrows[o].pid /\ escrows'[o].pid # NoPayment
         => payments'[escrows'[o].pid] # NoRecord

\* The wallet marks what it pays and forgets nothing.
LEMMA DisburseRemembers ==
  ASSUME TypeOK, NEW S \in SUBSET Orders,
         NEW outcome \in {"released", "refunded"}, Disburse(S, outcome)
  PROVE  \A p \in PaymentIds : payments[p] # NoRecord => payments'[p] # NoRecord
<1> SUFFICES ASSUME NEW p \in PaymentIds, payments[p] # NoRecord
             PROVE  payments'[p] # NoRecord
  OBVIOUS
<1>1. payments[p] \in PaymentRecord
  BY DEF TypeOK
<1>2. [payments[p] EXCEPT !.status = outcome].status = outcome
  BY <1>1 DEF PaymentRecord
<1>3. NoRecord.status # outcome
  BY DEF NoRecord
<1>4. payments'[p] \in {payments[p], [payments[p] EXCEPT !.status = outcome]}
  BY DEF Disburse
<1>5. QED
  BY <1>2, <1>3, <1>4

\* An operation on one order leaves the others alone.
LEMMA OneTurn ==
  ASSUME TypeOK, NEW o \in Orders, NEW r \in EscrowRecord, Update(o, r),
         escrows'[o] = r => Turn(o)
  PROVE  \A x \in Orders : Turn(x)
  BY UpdateType DEF Turn, PidKept, ArmedKept

LEMMA HandlerTurn ==
  ASSUME RunInv, NEW o \in Orders, Handler(o) \/ Arbitration(o) \/ Chain(o)
  PROVE  Remembered /\ \A x \in Orders : Turn(x)
<1>1. /\ TypeOK /\ escrows[o] \in EscrowRecord
      /\ escrows[o].armed <=> escrows[o].state \in {"funded", "shipped"}
  BY DEF RunInv, TypeOK, ArmedWhileHeld
<1> DEFINE r == escrows[o]
<1>2. ASSUME payments' = payments, NEW s \in EscrowRecord, Update(o, s),
             s.pid = r.pid \/ s.pid = NoPayment
      PROVE  Remembered
  BY <1>1, <1>2, UpdateType DEF Remembered
<1>3. ASSUME NEW outcome \in {"released", "refunded"}, Disburse({o}, outcome),
             NEW s \in EscrowRecord, Update(o, s), s.pid = r.pid
      PROVE  Remembered
  <2>1. \A x \in Orders : escrows'[x].pid = escrows[x].pid
    BY <1>1, <1>3, UpdateType
  <2>2. \A p \in PaymentIds : payments[p] # NoRecord => payments'[p] # NoRecord
    BY <1>1, <1>3, DisburseRemembers
  <2>3. QED
    BY <2>1, <2>2 DEF Remembered
<1>4. CASE Chain(o)
  BY <1>4 DEF Chain, Deposit, Confirm, walletVars, Remembered, Turn, PidKept, ArmedKept
<1>5. ASSUME NEW currency \in Currencies, CreateEscrow(o, currency)
      PROVE  Remembered /\ \A x \in Orders : Turn(x)
  <2> DEFINE s == [state |-> "created", currency |-> currency, pid |-> NoPayment,
                   armed |-> FALSE, timer |-> PayWindow]
  <2>1. s \in EscrowRecord /\ Update(o, s)
    BY <1>5, WindowsAssumption DEF CreateEscrow, EscrowRecord, States
  <2>2. Remembered
    BY <1>2, <1>5, <2>1 DEF CreateEscrow
  <2>3. QED
    BY <1>1, <1>5, <2>1, <2>2, OneTurn DEF CreateEscrow, Turn, Goes
<1>6. CASE CheckPayment(o)
  <2>1. PICK p \in PaymentIds \ drawn :
          /\ payments' = [payments EXCEPT ![p] =
                [order |-> o, status |-> PaymentStatus(o, r.currency)]]
          /\ \/ UNCHANGED escrows
             \/ Update(o, [r EXCEPT !.state = "funded", !.pid = p,
                                    !.armed = TRUE, !.timer = ReleaseWindow])
    BY <1>6 DEF CheckPayment
  <2>2. payments'[p] # NoRecord
    BY <1>1, <2>1 DEF TypeOK, NoRecord, PaymentStatus
  <2>3. \A q \in PaymentIds : payments[q] # NoRecord => payments'[q] # NoRecord
    BY <1>1, <2>1, <2>2 DEF TypeOK
  <2>4. CASE UNCHANGED escrows
    BY <2>3, <2>4 DEF Remembered, Turn, PidKept, ArmedKept
  <2>5. CASE Update(o, [r EXCEPT !.state = "funded", !.pid = p,
                                 !.armed = TRUE, !.timer = ReleaseWindow])
    <3> DEFINE s == [r EXCEPT !.state = "funded", !.pid = p,
                              !.armed = TRUE, !.timer = ReleaseWindow]
    <3>1. s \in EscrowRecord
      BY <1>1, FundedRecord
    <3>2. s.state = "funded" /\ s.pid = p /\ s.armed
      BY <1>1 DEF EscrowRecord
    <3>3. r.state = "created"
      BY <1>6 DEF CheckPayment
    <3> HIDE DEF s
    <3>4. \A x \in Orders : Turn(x)
      BY <1>1, <2>5, <3>1, <3>2, <3>3, OneTurn DEF Turn, Goes, s
    <3>5. escrows'[o] = s /\ \A x \in Orders \ {o} : escrows'[x] = escrows[x]
      BY <1>1, <2>5, <3>1, UpdateType DEF s
    <3>6. QED
      BY <2>2, <2>3, <3>2, <3>4, <3>5 DEF Remembered
  <2>6. QED BY <2>1, <2>4, <2>5
<1>7. ASSUME NEW state \in States, NEW armed \in BOOLEAN, NEW timer \in Nat,
             Update(o, [r EXCEPT !.state = state, !.armed = armed, !.timer = timer]),
             \/ payments' = payments
             \/ \E outcome \in {"released", "refunded"} : Disburse({o}, outcome),
             \/ r.state = "created" /\ state = "funded" /\ armed
             \/ r.state = "funded" /\ state = "shipped" /\ armed = r.armed
             \/ r.state \in {"funded", "shipped"} /\ state = "disputed" /\ ~armed
             \/ r.state \in Held /\ state \in {"completed", "refunded"} /\ ~armed
             \/ r.state = "created" /\ state = "cancelled" /\ armed = r.armed
      PROVE  Remembered /\ \A x \in Orders : Turn(x)
  <2> DEFINE s == [r EXCEPT !.state = state, !.armed = armed, !.timer = timer]
  <2>1. s \in EscrowRecord /\ s.state = state /\ s.armed = armed /\ s.pid = r.pid
    BY <1>1, <1>7 DEF EscrowRecord
  <2> HIDE DEF s
  <2>2. Update(o, s)
    BY <1>7 DEF s
  <2>3. Remembered
    BY <1>2, <1>3, <1>7, <2>1, <2>2
  <2>4. QED
    BY <1>1, <1>7, <2>1, <2>2, <2>3, OneTurn DEF Turn, Goes, PidKept, ArmedKept
<1>8. /\ r.armed \in BOOLEAN /\ r.timer \in Nat /\ ReleaseWindow \in Nat
      /\ \A state \in States, armed \in BOOLEAN :
           [r EXCEPT !.state = state, !.armed = armed]
             = [r EXCEPT !.state = state, !.armed = armed, !.timer = r.timer]
      /\ \A state \in States :
           [r EXCEPT !.state = state]
             = [r EXCEPT !.state = state, !.armed = r.armed, !.timer = r.timer]
  BY <1>1, WindowsAssumption DEF EscrowRecord
<1> HIDE DEF r
<1>9. CASE ManualConfirmPayment(o)
  BY <1>7, <1>8, <1>9 DEF ManualConfirmPayment, walletVars, States, r
<1>10. CASE MarkShipped(o)
  <2>1. r.state = "funded" /\ Update(o, [r EXCEPT !.state = "shipped"]) /\ payments' = payments
    BY <1>10 DEF MarkShipped, walletVars, r
  <2>2. Update(o, [r EXCEPT !.state = "shipped", !.armed = r.armed, !.timer = r.timer])
    BY <1>8, <2>1 DEF States
  <2>3. QED
    BY <1>7, <1>8, <2>1, <2>2 DEF States
<1>11. CASE Release(o)
  BY <1>7, <1>8, <1>11 DEF Release, States, Held, r
<1>12. CASE OpenDispute(o)
  BY <1>7, <1>8, <1>12 DEF OpenDispute, walletVars, States, r
<1>13. CASE Refund(o)
  BY <1>7, <1>8, <1>13 DEF Refund, States, Held, r
<1>14. CASE \E releaseToSeller \in BOOLEAN : ResolveDispute(o, releaseToSeller)
  <2>1. ~r.armed
    BY <1>1, <1>14 DEF ResolveDispute, r
  <2>2. PICK state \in {"completed", "refunded"}, outcome \in {"released", "refunded"} :
          /\ Disburse({o}, outcome) /\ Update(o, [r EXCEPT !.state = state])
    BY <1>14 DEF ResolveDispute, r
  <2>3. r.state \in Held
    BY <1>14 DEF ResolveDispute, Held, r
  <2>4. Update(o, [r EXCEPT !.state = state, !.armed = r.armed, !.timer = r.timer])
    BY <1>8, <2>2 DEF States
  <2>5. r.armed \in BOOLEAN /\ r.timer \in Nat /\ state \in States
    BY <1>8, <2>2 DEF States
  <2>6. \E result \in {"released", "refunded"} : Disburse({o}, result)
    BY <2>2
  <2>7. QED
    BY <1>7, <2>1, <2>2, <2>3, <2>4, <2>5, <2>6
<1>15. CASE Cancel(o)
  <2>1. r.state = "created" /\ Update(o, [r EXCEPT !.state = "cancelled"]) /\ payments' = payments
    BY <1>15 DEF Cancel, walletVars, r
  <2>2. Update(o, [r EXCEPT !.state = "cancelled", !.armed = r.armed, !.timer = r.timer])
    BY <1>8, <2>1 DEF States
  <2>3. QED
    BY <1>7, <1>8, <2>1, <2>2 DEF States
<1>16. QED
  BY <1>4, <1>5, <1>6, <1>9, <1>10, <1>11, <1>12, <1>13, <1>14, <1>15
  DEF Handler, Arbitration, handleEscrowCreate, handleEscrowStatus

\* The two passes, time and the saves.
LEMMA OtherTurn ==
  ASSUME RunInv, Maintenance \/ Tick \/ SaveStart \/ SaveFinish
  PROVE  Remembered /\ \A x \in Orders : Turn(x)
<1>1. TypeOK /\ \A o \in Orders : escrows[o] \in EscrowRecord
  BY DEF RunInv, TypeOK
<1>2. CASE ProcessAutoReleases
  <2>1. Disburse(DueForRelease, "released") /\ DueForRelease \in SUBSET Orders
    BY <1>2 DEF ProcessAutoReleases, DueForRelease
  <2>2. ASSUME NEW o \in Orders
        PROVE  Turn(o) /\ PidKept(o)
    <3>1. CASE o \in DueForRelease
      <4>1. escrows'[o] = [escrows[o] EXCEPT !.state = "completed", !.armed = FALSE]
        BY <1>2, <3>1 DEF ProcessAutoReleases
      <4>2. escrows[o].state \in {"funded", "shipped"}
        BY <3>1 DEF DueForRelease
      <4>3. QED
        BY <1>1, <4>1, <4>2 DEF Turn, Goes, PidKept, Held, EscrowRecord
    <3>2. CASE o \notin DueForRelease
      BY <1>2, <3>2 DEF ProcessAutoReleases, Turn, PidKept, ArmedKept
    <3>3. QED BY <3>1, <3>2
  <2>3. Remembered
    BY <1>1, <2>1, <2>2, DisburseRemembers DEF Remembered, PidKept
  <2>4. QED BY <2>2, <2>3
<1>3. CASE ProcessExpiredEscrows
  <2>1. ASSUME NEW o \in Orders
        PROVE  Turn(o) /\ PidKept(o)
    <3>1. CASE o \in DueForExpiry
      <4>1. escrows'[o] = [escrows[o] EXCEPT !.state = "expired"]
        BY <1>3, <3>1 DEF ProcessExpiredEscrows
      <4>2. escrows[o].state = "created"
        BY <3>1 DEF DueForExpiry
      <4>3. QED
        BY <1>1, <4>1, <4>2 DEF Turn, Goes, PidKept, ArmedKept, EscrowRecord
    <3>2. CASE o \notin DueForExpiry
      BY <1>3, <3>2 DEF ProcessExpiredEscrows, Turn, PidKept, ArmedKept
    <3>3. QED BY <3>1, <3>2
  <2>2. QED
    BY <1>3, <2>1 DEF ProcessExpiredEscrows, walletVars, Remembered, PidKept
<1>4. CASE Tick
  <2>1. ASSUME NEW o \in Orders
        PROVE  /\ escrows'[o].state = escrows[o].state
               /\ escrows'[o].pid = escrows[o].pid
               /\ escrows'[o].armed = escrows[o].armed
    BY <1>1, <1>4 DEF Tick, Aged, EscrowRecord
  <2>2. QED
    BY <1>4, <2>1 DEF Tick, walletVars, Remembered, Turn, PidKept, ArmedKept
<1>5. CASE SaveStart \/ SaveFinish
  BY <1>5 DEF SaveStart, SaveFinish, walletVars, Remembered, Turn, PidKept, ArmedKept
<1>6. QED BY <1>2, <1>3, <1>4, <1>5 DEF Maintenance

\* Every step of a run is such a turn for every order.
LEMMA RunningTurn ==
  ASSUME RunInv, [Running]_vars
  PROVE  Remembered /\ \A x \in Orders : Turn(x)
<1>1. CASE UNCHANGED vars
  BY <1>1 DEF vars, walletVars, Remembered, Turn, PidKept, ArmedKept
<1>2. CASE Running
  BY <1>2, HandlerTurn, OtherTurn DEF Running
<1>3. QED BY <1>1, <1>2

LEMMA RunningKeeps == RunInv /\ [Running]_vars => RunInv'
<1> SUFFICES ASSUME RunInv, [Running]_vars PROVE RunInv'
  OBVIOUS
<1>1. TypeOK' /\ LedgerInv'
  BY NextType, NextLedger DEF RunInv, Next
<1>2. Remembered /\ \A x \in Orders : Turn(x)
  BY RunningTurn
<1>3. ASSUME NEW o \in Orders, escrows'[o].pid # NoPayment
      PROVE  payments'[escrows'[o].pid] # NoRecord
  <2>1. CASE PidKept(o)
    <3>1. escrows[o].pid \in PaymentIds /\ payments[escrows[o].pid] # NoRecord
      BY <1>3, <2>1 DEF RunInv, Tracked, TypeOK, EscrowRecord, PidKept
    <3>2. QED
      BY <1>2, <2>1, <3>1 DEF Remembered, PidKept
  <2>2. CASE ~PidKept(o)
    BY <1>2, <1>3, <2>2 DEF Remembered, PidKept
  <2>3. QED BY <2>1, <2>2
<1>4. ASSUME NEW o \in Orders
      PROVE  escrows'[o].armed <=> escrows'[o].state \in {"funded", "shipped"}
  <2>1. /\ Turn(o)
        /\ escrows[o].armed <=> escrows[o].state \in {"funded", "shipped"}
    BY <1>2 DEF RunInv, ArmedWhileHeld
  <2>2. QED
    BY <2>1 DEF Turn, Goes, ArmedKept, Held
<1>5. QED
  BY <1>1, <1>3, <1>4 DEF RunInv, Tracked, ArmedWhileHeld

LEMMA RunStarts == Init => RunInv
<1>1. Init => Tracked /\ ArmedWhileHeld
  BY DEF Init, Tracked, ArmedWhileHeld, NoEscrow
<1>2. QED
  BY <1>1, InitType, InitLedger DEF RunInv

LEMMA RunInvariant == OneRun => []RunInv
  BY RunStarts, RunningKeeps, PTL DEF OneRun

\* In one run of the process, for any orders and windows, the auto-release is
\* armed exactly while an escrow holds money.
THEOREM ArmedInOneRun == OneRun => []ArmedWhileHeld
<1>1. RunInv => ArmedWhileHeld
  BY DEF RunInv
<1>2. QED
  BY <1>1, RunInvariant, PTL

\* Where the money is, by the escrow alone.
PurseBy(r) ==
  IF r.pid = NoPayment THEN "none"
  ELSE CASE r.state \in Held -> "held"
         [] r.state = "completed" -> "seller"
         [] r.state = "refunded" -> "buyer"
         [] OTHER -> "none"

Placed ==
  \A o \in Orders :
     /\ PurseOf(o) = PurseBy(escrows[o])
     /\ escrows[o].state \in {"none", "created"} => PurseOf(o) = "none"
     /\ PhaseOf(escrows[o].state) \in Custody!Phases
     /\ PurseOf(o) \in Custody!Purses

LEMMA PursesPlaced == RunInv => Placed
<1> SUFFICES ASSUME RunInv, NEW o \in Orders
             PROVE  /\ PurseOf(o) = PurseBy(escrows[o])
                    /\ escrows[o].state \in {"none", "created"} => PurseOf(o) = "none"
                    /\ PhaseOf(escrows[o].state) \in Custody!Phases
                    /\ PurseOf(o) \in Custody!Purses
  BY DEF Placed
<1> DEFINE p == escrows[o].pid
<1>1. /\ PurseOf(o) = PurseBy(escrows[o])
      /\ escrows[o].state \in {"none", "created"} => PurseOf(o) = "none"
  <2>1. CASE p = NoPayment
    BY <2>1 DEF PurseOf, PurseBy
  <2>2. CASE p # NoPayment
    <3>1. p \in PaymentIds /\ payments[p] # NoRecord
      BY <2>2 DEF RunInv, TypeOK, EscrowRecord, Tracked
    <3>2. payments[p].status = Outcome(escrows[o].state) /\ payments[p].status # "none"
      BY <2>2, <3>1 DEF RunInv, LedgerInv, LedgerAgrees, KnownPayments
    <3>3. QED
      BY <2>2, <3>2 DEF PurseOf, PurseBy, Outcome, Held
  <2>3. QED BY <2>1, <2>2
<1>2. escrows[o].state \in States \cup {"none"}
  BY DEF RunInv, TypeOK, EscrowRecord
<1>3. PhaseOf(escrows[o].state) \in Custody!Phases
  BY <1>2 DEF States, PhaseOf, Custody!Phases
<1>4. PurseBy(escrows[o]) \in Custody!Purses
  BY DEF PurseBy, Custody!Purses
<1>5. QED BY <1>1, <1>3, <1>4

LEMMA PursesPlacedNext == RunInv' => Placed'
<1>1. RunInv => Placed
  BY PursesPlaced
<1>2. QED BY <1>1, PTL

\* A turn of an escrow is a move of its custody.
LEMMA TurnIsMove ==
  ASSUME RunInv, RunInv', NEW o \in Orders, Turn(o)
  PROVE  LET from == PhaseOf(escrows[o].state)
             to   == PhaseOf(escrows[o].state)'
             had  == PurseOf(o)
             has  == PurseOf(o)'
         IN  \/ from = "absent" /\ to = "open" /\ has = had
             \/ from = "open" /\ to = "closed" /\ has = had
             \/ from = "open" /\ to = "held" /\ had = "none" /\ has \in {"none", "held"}
             \/ from = "held" /\ to = "frozen" /\ has = had
             \/ /\ from \in {"held", "frozen"} /\ to = "paid"
                /\ has = IF had = "held" THEN "seller" ELSE had
             \/ /\ from \in {"held", "frozen"} /\ to = "returned"
                /\ has = IF had = "held" THEN "buyer" ELSE had
             \/ to = from /\ has = had
<1>1. /\ PurseOf(o) = PurseBy(escrows[o])
      /\ escrows[o].state \in {"none", "created"} => PurseOf(o) = "none"
  BY PursesPlaced DEF Placed
<1>2. /\ PurseOf(o)' = PurseBy(escrows'[o])
      /\ escrows'[o].state \in {"none", "created"} => PurseOf(o)' = "none"
  BY PursesPlacedNext DEF Placed
<1> DEFINE e == escrows[o]
           f == escrows'[o]
<1>3. CASE f.state = e.state /\ PidKept(o)
  <2>1. PurseBy(f) = PurseBy(e) /\ PhaseOf(f.state) = PhaseOf(e.state)
    BY <1>3 DEF PidKept, PurseBy
  <2>2. QED BY <1>1, <1>2, <2>1
<1>4. CASE Goes(o, {"none"}, {"created"})
  BY <1>1, <1>2, <1>4 DEF Goes, PhaseOf
<1>5. CASE Goes(o, {"created"}, {"funded"})
  BY <1>1, <1>2, <1>5 DEF Goes, PhaseOf, PurseBy, Held
<1>6. CASE Goes(o, {"funded"}, {"shipped"}) /\ PidKept(o)
  BY <1>1, <1>2, <1>6 DEF Goes, PidKept, PhaseOf, PurseBy, Held
<1>7. CASE Goes(o, {"funded", "shipped"}, {"disputed"}) /\ PidKept(o)
  BY <1>1, <1>2, <1>7 DEF Goes, PidKept, PhaseOf, PurseBy, Held
<1>8. CASE Goes(o, Held, {"completed", "refunded"}) /\ PidKept(o)
  <2>1. CASE f.state = "completed"
    BY <1>1, <1>2, <1>8, <2>1 DEF Goes, PidKept, PhaseOf, PurseBy, Held
  <2>2. CASE f.state = "refunded"
    BY <1>1, <1>2, <1>8, <2>2 DEF Goes, PidKept, PhaseOf, PurseBy, Held
  <2>3. QED BY <1>8, <2>1, <2>2 DEF Goes
<1>9. CASE Goes(o, {"created"}, {"cancelled", "expired"}) /\ PidKept(o)
  BY <1>1, <1>2, <1>9 DEF Goes, PidKept, PhaseOf, PurseBy, Held
<1>10. QED
  BY <1>3, <1>4, <1>5, <1>6, <1>7, <1>8, <1>9 DEF Turn

\* In one run of the process, for any orders, payments, thresholds and
\* windows, the escrow manager with its wallet implements EscrowCustody: the
\* phase of an order and the place of its payment change together, and once.
THEOREM ManagerIsCustody == OneRun => EscrowRefinement
<1>1. Init => Custody!CustodyInit
  BY DEF Init, NoEscrow, Custody!CustodyInit, PhaseOf, PurseOf
<1>2. RunInv /\ RunInv' /\ [Running]_vars => [Custody!CustodyNext]_(Custody!custodyVars)
  <2> SUFFICES ASSUME RunInv, RunInv', [Running]_vars PROVE Custody!CustodyNext
    OBVIOUS
  <2>1. \A o \in Orders : Turn(o)
    BY RunningTurn
  <2>2. \A o \in Orders : /\ PhaseOf(escrows[o].state)' \in Custody!Phases
                          /\ PurseOf(o)' \in Custody!Purses
    BY PursesPlacedNext DEF Placed
  <2>3. QED
    BY <2>1, <2>2, TurnIsMove
    DEF Custody!CustodyNext, Custody!Open, Custody!Close, Custody!Fund,
        Custody!Freeze, Custody!Pay, Custody!Return, Custody!Rest,
        Custody!Moves, Custody!PurseKept, Custody!HandOver
<1>3. QED
  BY <1>1, <1>2, RunInvariant, PTL
  DEF OneRun, EscrowRefinement, Custody!CustodySpec
=============================================================================
