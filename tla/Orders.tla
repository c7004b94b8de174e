-------------------------------- MODULE Orders --------------------------------
(***************************************************************************)
(* What one node keeps of its purchases: the orders, escrow records,       *)
(* conversations, disputes and reviews of market.Marketplace               *)
(* (src/internal/market/market.go), and the file they are kept in.         *)
(*                                                                         *)
(* Every operation holds m.mu.  Save does not: it gives the lock back and  *)
(* the encoder then walks the live maps one after another, in the order of *)
(* the fields of MarketData, while operations go on.  The two operations   *)
(* that enter something in several of these maps are therefore as many     *)
(* steps as they write maps; the others are one.  A file may so hold maps  *)
(* of different moments, and a restart continues from it.  That two savers *)
(* share a temporary file is the matter of SaveFile: here one saves at a   *)
(* time.  Go may also end the process when it sees a map read and written  *)
(* at once; that is a restart in the middle of a save.                     *)
(*                                                                         *)
(* The daemon itself calls none of these operations but Save and the load; *)
(* the package offers them to a program, which may call them in any order. *)
(* Prices, texts, times and the statistics shown with a listing are left   *)
(* out: no operation here decides by them.                                 *)
(***************************************************************************)
EXTENDS Integers, FiniteSets

CONSTANTS
  Local,     \* localID, the user of this node
  Parties,   \* users: sellers, and whom one may write to
  Listings,  \* listings this node may know
  SellerOf,  \* the SellerID of each listing
  Stock,     \* the Stock of each listing, -1 for unlimited
  None,      \* an entry that is not in a map, a reference to nothing
  MaxIds,     \* bound: identifiers generated
  MaxSaves,   \* bound: saves
  MaxCrashes  \* bound: restarts

ASSUME OrdersAssumption ==
  /\ Local \in Parties
  /\ SellerOf \in [Listings -> Parties] /\ Stock \in [Listings -> Int]
  /\ MaxIds \in Nat /\ MaxSaves \in Nat /\ MaxCrashes \in Nat

\* generateID: random, so no two are the same.  0 is the empty string.
Ids == 1..MaxIds
NoId == 0

Status == {"pending", "accepted", "paid", "shipped", "completed",
           "cancelled", "disputed", "refunded"}

Order        == [listing : Listings, seller : Parties, status : Status,
                 escrow : Ids \cup {NoId}]
EscrowRecord == [order : Ids, status : {"held", "released", "refunded"}]
Conversation == [with : Parties, order : Ids \cup {NoId},
                 listing : Listings \cup {None}]
Dispute      == [order : Ids, status : {"open", "resolved"}]
Review       == [order : Ids \cup {NoId}, listing : Listings,
                 seller : Parties \cup {None}]

ASSUME NoneAssumption ==
  None \notin Order \cup EscrowRecord \cup Conversation \cup Dispute
                \cup Review \cup Listings \cup Parties

VARIABLES
  orders, myOrders, sellerOrders,
  conversations, myConversations,
  disputes, escrows,
  reviews,         \* reviews, found under their listing
  sellerReviews,   \* sellerReviews, found under their seller
  profile,         \* profiles[localID]: its ReviewCount
  op,              \* the operation that holds m.mu between two of its writes
  ids,             \* how many identifiers have been generated
  saving, out,     \* the map the encoder is at, and what it has encoded
  file,            \* market.json
  saves, crashes

tables == <<orders, myOrders, sellerOrders, conversations, myConversations,
            disputes, reviews, sellerReviews, profile>>
saver  == <<saving, out, file, saves>>
vars   == <<tables, escrows, op, ids, saver, crashes>>

Nothing == [i \in Ids |-> None]

\* What a file holds.
MarketData ==
  [orders : [Ids -> Order \cup {None}], myOrders : SUBSET Ids,
   sellerOrders : [Parties -> SUBSET Ids],
   conversations : [Ids -> Conversation \cup {None}],
   myConversations : SUBSET Ids, disputes : [Ids -> Dispute \cup {None}],
   reviews : [Ids -> Review \cup {None}],
   sellerReviews : [Ids -> Review \cup {None}], profile : Nat]

\* A MarketData with nothing in it; the same as no file.
Blank == [orders |-> Nothing, myOrders |-> {},
          sellerOrders |-> [p \in Parties |-> {}],
          conversations |-> Nothing, myConversations |-> {},
          disputes |-> Nothing, reviews |-> Nothing, sellerReviews |-> Nothing,
          profile |-> 0]

\* m.mu is held across two steps only by what writes several maps.
Free == [at |-> "free", id |-> NoId]
Locked == op # Free
Then(at) == op' = [op EXCEPT !.at = at]

Init ==
  /\ orders = Nothing /\ myOrders = {}
  /\ sellerOrders = [p \in Parties |-> {}]
  /\ conversations = Nothing /\ myConversations = {}
  /\ disputes = Nothing /\ escrows = Nothing
  /\ reviews = Nothing /\ sellerReviews = Nothing
  /\ profile = 0
  /\ op = Free /\ ids = 0
  /\ saving = "idle" /\ out = Blank /\ file = Blank
  /\ saves = 0 /\ crashes = 0

\* Identifiers for k new entries.
Generate(k) == ids + k <= MaxIds /\ ids' = ids + k

Set(o, status) == orders' = [orders EXCEPT ![o].status = status]

-----------------------------------------------------------------------------
(* Orders.                                                                 *)

InStock(l, quantity) == Stock[l] = -1 \/ Stock[l] >= quantity

\* Of a listing that is there just now: see the module Listings.
CreateOrder(l, quantity) ==
  /\ ~Locked
  /\ InStock(l, quantity)
  /\ Generate(2)
  /\ orders' = [orders EXCEPT ![ids + 1] =
       [listing |-> l, seller |-> SellerOf[l], status |-> "pending",
        escrow |-> NoId]]
  /\ op' = [at |-> "myOrders", id |-> ids + 1]
  /\ UNCHANGED <<myOrders, sellerOrders, conversations, myConversations,
                 disputes, escrows, reviews, sellerReviews, profile, saver,
                 crashes>>

EnterMyOrders ==
  /\ op.at = "myOrders"
  /\ myOrders' = myOrders \cup {op.id}
  /\ Then("sellerOrders")
  /\ UNCHANGED <<orders, sellerOrders, conversations, myConversations, disputes,
                 escrows, reviews, sellerReviews, profile, ids, saver, crashes>>

EnterSellerOrders ==
  /\ op.at = "sellerOrders"
  /\ sellerOrders' = [sellerOrders EXCEPT ![orders[op.id].seller] =
                        @ \cup {op.id}]
  /\ Then("conversations")
  /\ UNCHANGED <<orders, myOrders, conversations, myConversations, disputes,
                 escrows, reviews, sellerReviews, profile, ids, saver, crashes>>

\* The conversation has the identifier generated last.
createOrderConversation ==
  /\ op.at = "conversations"
  /\ conversations' = [conversations EXCEPT ![op.id + 1] =
       [with |-> orders[op.id].seller, order |-> op.id,
        listing |-> orders[op.id].listing]]
  /\ myConversations' = myConversations \cup {op.id + 1}
  /\ op' = Free
  /\ UNCHANGED <<orders, myOrders, sellerOrders, disputes, escrows, reviews,
                 sellerReviews, profile, ids, saver, crashes>>

\* Variant: what is paid can be called off.
TransitionsCancelPaid ==
  {<<"pending", "accepted">>, <<"pending", "cancelled">>,
   <<"accepted", "paid">>, <<"accepted", "cancelled">>,
   <<"paid", "shipped">>, <<"paid", "disputed">>, <<"paid", "refunded">>,
   <<"paid", "cancelled">>,
   <<"shipped", "completed">>, <<"shipped", "disputed">>,
   <<"disputed", "refunded">>, <<"disputed", "completed">>}

\* validTransitions
Transitions ==
  {<<"pending", "accepted">>, <<"pending", "cancelled">>,
   <<"accepted", "paid">>, <<"accepted", "cancelled">>,
   <<"paid", "shipped">>, <<"paid", "disputed">>, <<"paid", "refunded">>,
   <<"shipped", "completed">>, <<"shipped", "disputed">>,
   <<"disputed", "refunded">>, <<"disputed", "completed">>}

\* AcceptOrder and CancelOrder are calls of it.
UpdateOrderStatus(o, status) ==
  /\ ~Locked
  /\ orders[o] # None
  /\ <<orders[o].status, status>> \in Transitions
  /\ Set(o, status)
  /\ UNCHANGED <<op, myOrders, sellerOrders, conversations, myConversations,
                 disputes, escrows, reviews, sellerReviews, profile,
                 ids, saver, crashes>>

\* Whatever the status; a second call makes a second escrow.
MarkPaid(o) ==
  /\ ~Locked
  /\ orders[o] # None
  /\ Generate(1)
  /\ escrows' = [escrows EXCEPT ![ids + 1] = [order |-> o, status |-> "held"]]
  /\ orders' = [orders EXCEPT ![o].status = "paid", ![o].escrow = ids + 1]
  /\ UNCHANGED <<op, myOrders, sellerOrders, conversations, myConversations,
                 disputes, reviews, sellerReviews, profile, saver,
                 crashes>>

MarkShipped(o) ==
  /\ ~Locked
  /\ orders[o] # None
  /\ Set(o, "shipped")
  /\ UNCHANGED <<op, myOrders, sellerOrders, conversations, myConversations,
                 disputes, escrows, reviews, sellerReviews, profile,
                 ids, saver, crashes>>

\* The order's escrow, if this process made it.
Settle(o, status) ==
  LET e == orders[o].escrow
  IN  IF e # NoId /\ escrows[e] # None
      THEN escrows' = [escrows EXCEPT ![e].status = status]
      ELSE UNCHANGED escrows

CompleteOrder(o) ==
  /\ ~Locked
  /\ orders[o] # None
  /\ Settle(o, "released")
  /\ Set(o, "completed")
  /\ UNCHANGED <<op, myOrders, sellerOrders, conversations, myConversations,
                 disputes, reviews, sellerReviews, profile, ids, saver, crashes>>

-----------------------------------------------------------------------------
(* Conversations.                                                          *)

\* Conversations with p that SendMessage takes for this order or listing; it
\* stops at the first it meets, and a map has no order.
Matching(p, o, l) ==
  {c \in Ids : /\ conversations[c] # None
               /\ conversations[c].with = p
               /\ \/ o # NoId /\ conversations[c].order = o
                  \/ l # None /\ conversations[c].listing = l}

\* Of the message itself nothing is kept here but its conversation.
SendMessage(p, o, l) ==
  /\ ~Locked
  /\ \/ /\ Matching(p, o, l) # {}
        /\ UNCHANGED <<conversations, myConversations, ids>>
     \/ /\ Matching(p, o, l) = {}
        /\ Generate(1)
        /\ conversations' = [conversations EXCEPT ![ids + 1] =
             [with |-> p, order |-> o, listing |-> l]]
        /\ myConversations' = myConversations \cup {ids + 1}
  /\ UNCHANGED <<op, orders, myOrders, sellerOrders, disputes, escrows,
                 reviews, sellerReviews, profile, saver, crashes>>

-----------------------------------------------------------------------------
(* Disputes.                                                               *)

Open(o) == {d \in Ids : /\ disputes[d] # None
                        /\ disputes[d].order = o
                        /\ disputes[d].status = "open"}

\* Variant: the order's status is asked instead of the disputes.
OpenDisputeByStatus(o) ==
  /\ ~Locked
  /\ orders[o] # None
  /\ orders[o].status # "disputed"
  /\ Generate(1)
  /\ disputes' = [disputes EXCEPT ![ids + 1] = [order |-> o, status |-> "open"]]
  /\ Set(o, "disputed")
  /\ UNCHANGED <<op, myOrders, sellerOrders, conversations, myConversations,
                 escrows, reviews, sellerReviews, profile, saver,
                 crashes>>

OpenDispute(o) ==
  /\ ~Locked
  /\ orders[o] # None
  /\ Open(o) = {}
  /\ Generate(1)
  /\ disputes' = [disputes EXCEPT ![ids + 1] = [order |-> o, status |-> "open"]]
  /\ Set(o, "disputed")
  /\ UNCHANGED <<op, myOrders, sellerOrders, conversations, myConversations,
                 escrows, reviews, sellerReviews, profile, saver,
                 crashes>>

\* A resolution other than refund and release leaves order and escrow alone.
\* Whether the dispute is still open is not asked.
ResolveDispute(d, resolution) ==
  /\ ~Locked
  /\ disputes[d] # None
  /\ disputes' = [disputes EXCEPT ![d].status = "resolved"]
  /\ LET o == disputes[d].order
     IN  IF orders[o] = None \/ resolution = "split"
         THEN UNCHANGED <<orders, escrows>>
         ELSE IF resolution = "refund"
         THEN Set(o, "refunded") /\ Settle(o, "refunded")
         ELSE Set(o, "completed") /\ Settle(o, "released")
  /\ UNCHANGED <<op, myOrders, sellerOrders, conversations, myConversations,
                 reviews, sellerReviews, profile, ids, saver, crashes>>

-----------------------------------------------------------------------------
(* Reviews.                                                                *)

\* AddReview: of a listing, which need not be known.
AddReview(l) ==
  /\ ~Locked
  /\ Generate(1)
  /\ reviews' = [reviews EXCEPT ![ids + 1] =
       [order |-> NoId, listing |-> l, seller |-> None]]
  /\ UNCHANGED <<op, orders, myOrders, sellerOrders, conversations,
                 myConversations, disputes, escrows, sellerReviews,
                 profile, saver, crashes>>

AddDetailedReview(o) ==
  /\ ~Locked
  /\ orders[o] # None /\ orders[o].status = "completed"
  /\ Generate(1)
  /\ reviews' = [reviews EXCEPT ![ids + 1] =
       [order |-> o, listing |-> orders[o].listing,
        seller |-> orders[o].seller]]
  /\ op' = [at |-> "sellerReviews", id |-> ids + 1]
  /\ UNCHANGED <<orders, myOrders, sellerOrders, conversations,
                 myConversations, disputes, escrows, sellerReviews, profile,
                 saver, crashes>>

EnterSellerReviews ==
  /\ op.at = "sellerReviews"
  /\ sellerReviews' = [sellerReviews EXCEPT ![op.id] = reviews[op.id]]
  /\ Then("profile")
  /\ UNCHANGED <<orders, myOrders, sellerOrders, conversations,
                 myConversations, disputes, escrows, reviews, profile, ids,
                 saver, crashes>>

\* profiles has no entry but the local one.
CountReview ==
  /\ op.at = "profile"
  /\ profile' = IF reviews[op.id].seller = Local THEN profile + 1 ELSE profile
  /\ op' = Free
  /\ UNCHANGED <<orders, myOrders, sellerOrders, conversations,
                 myConversations, disputes, escrows, reviews, sellerReviews,
                 ids, saver, crashes>>

-----------------------------------------------------------------------------
(* The file.                                                               *)

\* MarketData refers to the maps; the list of conversations is a slice, whose
\* length is taken here.
BeginSave ==
  /\ ~Locked
  /\ saving = "idle" /\ saves < MaxSaves
  /\ saves' = saves + 1
  /\ saving' = "reviews"
  /\ out' = [Blank EXCEPT !.myConversations = myConversations]
  /\ UNCHANGED <<tables, escrows, op, ids, file, crashes>>

Encode(field, value, next) ==
  /\ saving = field
  /\ out' = [out EXCEPT ![field] = value]
  /\ saving' = next
  /\ UNCHANGED <<tables, escrows, op, ids, file, saves, crashes>>

\* Variant: Profiles before SellerReviews.
EncodeProfileFirst ==
  \/ Encode("reviews", reviews, "profile")
  \/ Encode("profile", profile, "sellerReviews")
  \/ Encode("sellerReviews", sellerReviews, "orders")
  \/ Encode("orders", orders, "myOrders")
  \/ Encode("myOrders", myOrders, "sellerOrders")
  \/ Encode("sellerOrders", sellerOrders, "conversations")
  \/ Encode("conversations", conversations, "disputes")
  \/ Encode("disputes", disputes, "done")

\* Variant: Orders after the maps that lead to them.
EncodeOrdersLast ==
  \/ Encode("reviews", reviews, "sellerReviews")
  \/ Encode("sellerReviews", sellerReviews, "myOrders")
  \/ Encode("myOrders", myOrders, "sellerOrders")
  \/ Encode("sellerOrders", sellerOrders, "conversations")
  \/ Encode("conversations", conversations, "orders")
  \/ Encode("orders", orders, "disputes")
  \/ Encode("disputes", disputes, "profile")
  \/ Encode("profile", profile, "done")

\* json.Encoder writes the fields of MarketData in their order.
EncodeFields ==
  \/ Encode("reviews", reviews, "sellerReviews")
  \/ Encode("sellerReviews", sellerReviews, "orders")
  \/ Encode("orders", orders, "myOrders")
  \/ Encode("myOrders", myOrders, "sellerOrders")
  \/ Encode("sellerOrders", sellerOrders, "conversations")
  \/ Encode("conversations", conversations, "disputes")
  \/ Encode("disputes", disputes, "profile")
  \/ Encode("profile", profile, "done")

\* The temporary file is closed and renamed.
EndSave ==
  /\ saving = "done"
  /\ saving' = "idle"
  /\ file' = out
  /\ out' = Blank
  /\ UNCHANGED <<tables, escrows, op, ids, saves, crashes>>

\* NewMarketplace and loadData.  Escrows are not in the file.
Restart ==
  /\ crashes < MaxCrashes
  /\ crashes' = crashes + 1
  /\ orders' = file.orders /\ myOrders' = file.myOrders
  /\ sellerOrders' = file.sellerOrders
  /\ conversations' = file.conversations
  /\ myConversations' = file.myConversations
  /\ disputes' = file.disputes /\ escrows' = Nothing /\ op' = Free
  /\ reviews' = file.reviews /\ sellerReviews' = file.sellerReviews
  /\ profile' = file.profile
  /\ saving' = "idle" /\ out' = Blank
  /\ UNCHANGED <<ids, file, saves>>

-----------------------------------------------------------------------------
Next ==
  \/ \E l \in Listings : CreateOrder(l, 1) \/ AddReview(l)
  \/ \E o \in Ids : \/ \E status \in Status : UpdateOrderStatus(o, status)
                    \/ MarkPaid(o)
                    \/ MarkShipped(o)
                    \/ CompleteOrder(o)
                    \/ OpenDispute(o)
                    \/ AddDetailedReview(o)
  \/ \E p \in Parties, l \in Listings \cup {None},
        o \in {NoId} \cup {i \in Ids : orders[i] # None} : SendMessage(p, o, l)
  \/ \E d \in Ids, resolution \in {"refund", "release", "split"} :
       ResolveDispute(d, resolution)
  \/ EnterMyOrders \/ EnterSellerOrders \/ createOrderConversation
  \/ EnterSellerReviews \/ CountReview
  \/ BeginSave
  \/ EncodeFields
  \/ EndSave
  \/ Restart

Spec == Init /\ [][Next]_vars

-----------------------------------------------------------------------------
(* Properties.                                                             *)

\* Maps, lists and references hold what their types say, in memory and file.
TypeOK ==
  /\ orders \in [Ids -> Order \cup {None}] /\ myOrders \subseteq Ids
  /\ sellerOrders \in [Parties -> SUBSET Ids]
  /\ conversations \in [Ids -> Conversation \cup {None}]
  /\ myConversations \subseteq Ids
  /\ disputes \in [Ids -> Dispute \cup {None}]
  /\ escrows \in [Ids -> EscrowRecord \cup {None}]
  /\ reviews \in [Ids -> Review \cup {None}]
  /\ sellerReviews \in [Ids -> Review \cup {None}]
  /\ profile \in Nat
  /\ op \in [at : {"free", "myOrders", "sellerOrders", "conversations",
                   "sellerReviews", "profile"}, id : Ids \cup {NoId}]
  /\ ids \in 0..MaxIds
  /\ saving \in DOMAIN Blank \cup {"idle", "done"}
  /\ {out, file} \subseteq MarketData
  /\ saves \in 0..MaxSaves /\ crashes \in 0..MaxCrashes

Threads(convs, o, p) ==
  {c \in Ids : convs[c] # None /\ convs[c].order = o /\ convs[c].with = p}

\* Orders that are not listed for their buyer or under their seller, or that
\* have no conversation with him, or two.
Astray(os, mine, bySeller, convs) ==
  {o \in Ids :
     /\ os[o] # None
     /\ ~ /\ o \in mine
          /\ o \in bySeller[os[o].seller]
          /\ \E c \in Ids : Threads(convs, o, os[o].seller) = {c}}

(* The maps of the orders agree, but for the order that is being entered   *)
(* and at most one for every restart: the file's maps are read one after   *)
(* another while orders are placed, and because they are read in the order *)
(* in which CreateOrder writes them, a save catches no more than one order *)
(* half way.                                                               *)
OrdersIndexed ==
  /\ Cardinality(Astray(orders, myOrders, sellerOrders, conversations)
                   \ {op.id}) <= crashes
  /\ Cardinality(Astray(file.orders, file.myOrders, file.sellerOrders,
                        file.conversations)) <= crashes + 1

(* There is at most one open dispute about an order, through any sequence  *)
(* of calls that move the order away from "disputed" and back.             *)
OneOpenDispute == \A o \in Ids : \A d1, d2 \in Open(o) : d1 = d2

\* Reviews of a purchase that are shown with the listing but not with the
\* seller, or whose order is not there.
Unfiled(os, rs, srs) ==
  {r \in Ids : /\ rs[r] # None /\ rs[r].order # NoId
               /\ os[rs[r].order] = None \/ srs[r] = None}

Counted(srs) == {r \in Ids : srs[r] # None /\ srs[r].seller = Local}

(* A review of a purchase that is shown with the listing names an order    *)
(* there is and is shown with the seller too, and those of the local       *)
(* seller are counted in his profile: but for the review being added, and  *)
(* at most one for every restart from a file that was written meanwhile.   *)
ReviewsFiled ==
  /\ Cardinality(Unfiled(orders, reviews, sellerReviews) \ {op.id}) <= crashes
  /\ Cardinality(Counted(sellerReviews) \ {op.id}) <= profile + crashes
  /\ Cardinality(Unfiled(file.orders, file.reviews, file.sellerReviews))
       <= crashes + 1
  /\ Cardinality(Counted(file.sellerReviews)) <= file.profile + crashes + 1

Unpaid == {"pending", "accepted", "cancelled"}

(* Whatever operations are called in whatever order, an order that has     *)
(* been paid, shipped, disputed, refunded or completed is never again      *)
(* pending, accepted or cancelled while the process runs.                  *)
PaidNotCancelled ==
  [][crashes' = crashes =>
       \A o \in Ids :
         orders[o] # None /\ orders[o].status \notin Unpaid
           => orders'[o] # None /\ orders'[o].status \notin Unpaid]_vars

=============================================================================
