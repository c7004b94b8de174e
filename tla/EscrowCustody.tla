--------------------------- MODULE EscrowCustody ---------------------------
(***************************************************************************)
(* What an escrow service promises, with no wallet record, no timer, no    *)
(* file and no maintenance goroutine: an order is open, then its payment   *)
(* is in custody, then custody ends exactly once, in favour of the seller  *)
(* or of the buyer, and the money moves in the very step in which the      *)
(* order is said to be settled.                                            *)
(*                                                                         *)
(* Escrow implements this specification (EscrowRefinement) as long as the  *)
(* process is not restarted.                                               *)
(***************************************************************************)
CONSTANT Orders

VARIABLES
  phase,   \* where the order is
  purse    \* where the payment tracked for the order is; "none" when the
           \* wallet tracks no payment for it (a manual confirmation)

custodyVars == <<phase, purse>>

Phases == {"absent", "open", "held", "frozen", "paid", "returned", "closed"}
Purses == {"none", "held", "seller", "buyer"}

CustodyTypeOK ==
  /\ phase \in [Orders -> Phases]
  /\ purse \in [Orders -> Purses]

CustodyInit ==
  /\ phase = [o \in Orders |-> "absent"]
  /\ purse = [o \in Orders |-> "none"]

Moves(o, from, to) == phase[o] \in from /\ phase'[o] = to

PurseKept(o) == purse'[o] = purse[o]

\* Custody ends: a tracked payment goes to the named party, at once.
HandOver(o, party) ==
  purse'[o] = IF purse[o] = "held" THEN party ELSE purse[o]

Open(o)   == Moves(o, {"absent"}, "open") /\ PurseKept(o)
Close(o)  == Moves(o, {"open"}, "closed") /\ PurseKept(o)
Fund(o)   == /\ Moves(o, {"open"}, "held")
             /\ purse[o] = "none"
             /\ purse'[o] \in {"none", "held"}
Freeze(o) == Moves(o, {"held"}, "frozen") /\ PurseKept(o)
Pay(o)    == Moves(o, {"held", "frozen"}, "paid") /\ HandOver(o, "seller")
Return(o) == Moves(o, {"held", "frozen"}, "returned") /\ HandOver(o, "buyer")
Rest(o)   == phase'[o] = phase[o] /\ PurseKept(o)

\* One maintenance pass settles or closes several orders in one step.
CustodyNext ==
  /\ phase' \in [Orders -> Phases]
  /\ purse' \in [Orders -> Purses]
  /\ \A o \in Orders :
       Open(o) \/ Close(o) \/ Fund(o) \/ Freeze(o) \/ Pay(o) \/ Return(o) \/ Rest(o)

CustodySpec == CustodyInit /\ [][CustodyNext]_custodyVars
=============================================================================
