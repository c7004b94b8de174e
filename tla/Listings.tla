------------------------------- MODULE Listings -------------------------------
(***************************************************************************)
(* The marketplace's listings at every node: the part of                   *)
(* market.Marketplace (src/internal/market/market.go) that the daemon      *)
(* uses, the announcements between nodes (MsgTypeListing) and the import   *)
(* of the bootstrap node's page over HTTP.                                 *)
(*                                                                         *)
(* A listing reaches a node as its seller signed it, whichever             *)
(* announcement comes last, or as an entry of a page, without key and      *)
(* signature and only if the node has none.  Each operation holds m.mu and *)
(* is one step; an import is a step for every entry, after the page was    *)
(* fetched.  The network may lose, delay, reorder and repeat an            *)
(* announcement.  Title, price and the other fields under the signature    *)
(* never change; the statistics shown with a listing decide nothing.       *)
(*                                                                         *)
(* Save encodes the live maps after it has given the lock back: Listings   *)
(* is the first field of MarketData, MyListings the last, and operations   *)
(* go on between the two.  A node may end at any moment and start again    *)
(* from the file.  As in the module Orders, where the maps between the two *)
(* are, a map is encoded in one step and one Save runs at a time.          *)
(***************************************************************************)
EXTENDS Integers

CONSTANTS
  Nodes,
  Bootstrap,   \* the node whose page the others import
  ListingIds,  \* identifiers of listings
  Seller,      \* the node each one is made at
  NoCopy,      \* no copy of the listing
  WebTTL,      \* 30 days: handleCreateListing and every import
  CmdTTL,      \* 7 days: cmdSell
  MaxTime,         \* bound on the clock
  MaxListingSaves, \* bound: saves of all nodes
  MaxRestarts      \* bound: restarts of all nodes

ASSUME ListingsAssumption ==
  /\ Bootstrap \in Nodes /\ Seller \in [ListingIds -> Nodes]
  /\ WebTTL \in Nat /\ CmdTTL \in Nat /\ MaxTime \in Nat
  /\ MaxListingSaves \in Nat /\ MaxRestarts \in Nat

\* signed: SellerKey and Signature are there and verifyListing accepts them.
\* Both are lost on the way over a page.  The wallet addresses are too, but a
\* signed copy need not have any: CreateListing passes none, and neither they
\* nor the key are among what is signed.
Copy == [signed : BOOLEAN, created : Nat, expires : Nat]

\* An entry of a page tells the identifier and CreatedAt.
Entry == [id : ListingIds, created : Nat]

ASSUME NoCopyAssumption == NoCopy \notin Copy

\* What a file holds of it, and one with nothing in it: the same as no file.
ListingsFile == [listings : [ListingIds -> Copy \cup {NoCopy}],
                 mine : SUBSET ListingIds]
NoListings   == [listings |-> [l \in ListingIds |-> NoCopy], mine |-> {}]

VARIABLES
  now,
  listings,    \* Marketplace.listings of each node
  myListings,  \* the ones it may remove
  made,        \* identifiers that have been generated
  sent,        \* announcements that have been put on the network
  page,        \* what each node has fetched and not imported yet
  halfway,     \* the nodes whose Save is between its first and its last field
  encoded,     \* what a Save has encoded
  stored,      \* market.json of each node
  overtaken,   \* history: made at the node while its Save was halfway
  listingSaves, restarts

saveVars    == <<halfway, encoded, stored, listingSaves, restarts>>
listingVars == <<now, listings, myListings, made, sent, page, overtaken, saveVars>>

Announcement == [id : ListingIds, copy : Copy]

ListingsInit ==
  /\ now = 0
  /\ listings = [n \in Nodes |-> [l \in ListingIds |-> NoCopy]]
  /\ myListings = [n \in Nodes |-> {}]
  /\ made = {} /\ sent = {}
  /\ page = [n \in Nodes |-> {}]
  /\ halfway = {} /\ overtaken = {}
  /\ encoded = [n \in Nodes |-> NoListings]
  /\ stored = [n \in Nodes |-> NoListings]
  /\ listingSaves = 0 /\ restarts = 0

Has(n, l) == listings[n][l] # NoCopy

Put(n, l, copy) ==
  listings' = [listings EXCEPT ![n] = [listings[n] EXCEPT ![l] = copy]]

\* Browse: an inactive listing is never made.
Browse(n) == {l \in ListingIds : Has(n, l) /\ now <= listings[n][l].expires}

-----------------------------------------------------------------------------
(* The seller.                                                             *)

CreateListingFull(n, l, ttl) ==
  /\ l \notin made /\ Seller[l] = n
  /\ LET copy == [signed |-> TRUE, created |-> now, expires |-> now + ttl]
     IN  /\ Put(n, l, copy)
         /\ sent' = sent \cup {[id |-> l, copy |-> copy]}
  /\ myListings' = [myListings EXCEPT ![n] = @ \cup {l}]
  /\ made' = made \cup {l}
  /\ overtaken' = IF n \in halfway THEN overtaken \cup {l} ELSE overtaken
  /\ UNCHANGED <<now, page, saveVars>>

\* handleCreateListing has it announced by gossip, cmdSell to the peers.
handleCreateListing(n, l) == CreateListingFull(n, l, WebTTL)
cmdSell(n, l)             == CreateListingFull(n, l, CmdTTL)

\* Offered by the package; the daemon has no command for it.
RemoveListing(n, l) ==
  /\ l \in myListings[n]
  /\ Put(n, l, NoCopy)
  /\ myListings' = [myListings EXCEPT ![n] = @ \ {l}]
  /\ UNCHANGED <<now, made, sent, page, overtaken, saveVars>>

-----------------------------------------------------------------------------
(* Every node.                                                             *)

\* handleListing and AddListing: the signature holds, and the copy replaces
\* the one there is, or one that was removed.
AddListing(n, msg) ==
  /\ msg \in sent
  /\ Put(n, msg.id, msg.copy)
  /\ UNCHANGED <<now, myListings, made, sent, page, overtaken, saveVars>>

\* Variant: the expiry is taken from the wrong side.
ImportedBackwards(entry) == [signed |-> FALSE, created |-> entry.created,
                             expires |-> entry.created - WebTTL]

Imported(entry) == [signed |-> FALSE, created |-> entry.created,
                    expires |-> entry.created + WebTTL]

\* Variant: an import replaces what is there.
ImportListingOver(n, entry) == Put(n, entry.id, Imported(entry))

ImportListing(n, entry) ==
  IF Has(n, entry.id) THEN UNCHANGED listings
                      ELSE Put(n, entry.id, Imported(entry))

\* handleListings answers what Browse("") finds.
Page == {[id |-> l, created |-> listings[Bootstrap][l].created] :
           l \in Browse(Bootstrap)}

\* syncListingsFromURL, which periodicSync calls over and over: the page...
Fetch(n) ==
  /\ n # Bootstrap /\ page[n] = {}
  /\ page' = [page EXCEPT ![n] = Page]
  /\ UNCHANGED <<now, listings, myListings, made, sent, overtaken, saveVars>>

\* Variant: the first entry that is known ends the import.
ImportEntryOrStop(n, entry) ==
  /\ entry \in page[n]
  /\ ImportListing(n, entry)
  /\ page' = [page EXCEPT ![n] = IF Has(n, entry.id) THEN {} ELSE @ \ {entry}]
  /\ UNCHANGED <<now, myListings, made, sent, overtaken, saveVars>>

\* ... and its entries, in an order that a map gave them.
ImportEntry(n, entry) ==
  /\ entry \in page[n]
  /\ ImportListing(n, entry)
  /\ page' = [page EXCEPT ![n] = @ \ {entry}]
  /\ UNCHANGED <<now, myListings, made, sent, overtaken, saveVars>>

\* A program posts a listing as it found it on some page.
handleSyncListing(n, entry) ==
  /\ \E msg \in sent : entry = [id |-> msg.id, created |-> msg.copy.created]
  /\ ImportListing(n, entry)
  /\ UNCHANGED <<now, myListings, made, sent, page, overtaken, saveVars>>

Expired(n) == {l \in ListingIds : Has(n, l) /\ now > listings[n][l].expires}

\* Offered by the package; the daemon does not call it.
CleanExpired(n) ==
  /\ listings' = [listings EXCEPT ![n] =
       [l \in ListingIds |-> IF l \in Expired(n) THEN NoCopy ELSE listings[n][l]]]
  /\ myListings' = [myListings EXCEPT ![n] = @ \ Expired(n)]
  /\ UNCHANGED <<now, made, sent, page, overtaken, saveVars>>

Tick ==
  /\ now < MaxTime
  /\ now' = now + 1
  /\ UNCHANGED <<listings, myListings, made, sent, page, overtaken, saveVars>>

-----------------------------------------------------------------------------
(* The file.                                                               *)

\* Variant: MyListings is the first field and Listings the last.
SaveMineFirst(n) ==
  /\ \/ /\ n \notin halfway /\ listingSaves < MaxListingSaves
        /\ encoded' = [encoded EXCEPT ![n].mine = myListings[n]]
        /\ halfway' = halfway \cup {n} /\ listingSaves' = listingSaves + 1
        /\ UNCHANGED stored
     \/ /\ n \in halfway
        /\ stored' = [stored EXCEPT ![n] = [encoded[n] EXCEPT !.listings = listings[n]]]
        /\ encoded' = [encoded EXCEPT ![n] = NoListings]
        /\ halfway' = halfway \ {n}
        /\ UNCHANGED listingSaves
  /\ UNCHANGED <<now, listings, myListings, made, sent, page, overtaken, restarts>>

\* The first field; the last one and the rename.
Save(n) ==
  /\ \/ /\ n \notin halfway /\ listingSaves < MaxListingSaves
        /\ encoded' = [encoded EXCEPT ![n].listings = listings[n]]
        /\ halfway' = halfway \cup {n} /\ listingSaves' = listingSaves + 1
        /\ UNCHANGED stored
     \/ /\ n \in halfway
        /\ stored' = [stored EXCEPT ![n] = [encoded[n] EXCEPT !.mine = myListings[n]]]
        /\ encoded' = [encoded EXCEPT ![n] = NoListings]
        /\ halfway' = halfway \ {n}
        /\ UNCHANGED listingSaves
  /\ UNCHANGED <<now, listings, myListings, made, sent, page, overtaken, restarts>>

\* The process ends, in a Save or not; NewMarketplace, SetDataDir and loadData.
loadData(n) ==
  /\ restarts < MaxRestarts
  /\ restarts' = restarts + 1
  /\ listings' = [listings EXCEPT ![n] = stored[n].listings]
  /\ myListings' = [myListings EXCEPT ![n] = stored[n].mine]
  /\ page' = [page EXCEPT ![n] = {}]
  /\ encoded' = [encoded EXCEPT ![n] = NoListings]
  /\ halfway' = halfway \ {n}
  /\ UNCHANGED <<now, made, sent, stored, overtaken, listingSaves>>

-----------------------------------------------------------------------------
ListingsNext ==
  \/ \E n \in Nodes : \/ \E l \in ListingIds : \/ handleCreateListing(n, l)
                                             \/ cmdSell(n, l)
                                             \/ RemoveListing(n, l)
                      \/ \E msg \in sent : AddListing(n, msg)
                      \/ Fetch(n)
                      \/ \E entry \in page[n] : ImportEntry(n, entry)
                      \/ \E l \in ListingIds, t \in 0..now :
                           handleSyncListing(n, [id |-> l, created |-> t])
                      \/ CleanExpired(n)
                      \/ Save(n)
                      \/ loadData(n)
  \/ Tick

\* periodicSync's ticker; a fetched page is worked off.
Fairness ==
  \A n \in Nodes \ {Bootstrap} :
    /\ WF_listingVars(Fetch(n))
    /\ WF_listingVars(\E entry \in page[n] : ImportEntry(n, entry))

ListingsSpec == ListingsInit /\ [][ListingsNext]_listingVars /\ Fairness

-----------------------------------------------------------------------------
(* Properties.                                                             *)

\* Copies, entries and announcements are what the code can make of them; no
\* copy expires before time began (AddListing and ImportListing store whatever
\* they are given).
ListingsTypeOK ==
  /\ now \in 0..MaxTime
  /\ listings \in [Nodes -> [ListingIds -> Copy \cup {NoCopy}]]
  /\ myListings \in [Nodes -> SUBSET ListingIds]
  /\ made \subseteq ListingIds
  /\ sent \subseteq Announcement
  /\ page \in [Nodes -> SUBSET Entry]
  /\ halfway \subseteq Nodes /\ overtaken \subseteq ListingIds
  /\ encoded \in [Nodes -> ListingsFile] /\ stored \in [Nodes -> ListingsFile]
  /\ listingSaves \in 0..MaxListingSaves /\ restarts \in 0..MaxRestarts

SignedIn(table, l) == table[l] # NoCopy /\ table[l].signed
Signed(n, l)       == SignedIn(listings[n], l)

(* What a node may remove are signed copies of its own listings, however   *)
(* often they come back from the network or from the bootstrap's page, and *)
(* after a restart from a file whose maps are of different moments: but    *)
(* for a listing that was made while a Save was between its two maps.  Of  *)
(* that one the file has the right to remove it and not the listing, and   *)
(* the page then brings an unsigned copy (market.go:324, 335).             *)
MineAreMine ==
  \A n \in Nodes : \A l \in myListings[n] :
    /\ Seller[l] = n
    /\ Signed(n, l) \/ (l \in overtaken /\ restarts > 0)

(* While a node runs, a copy with the seller's key and signature is never  *)
(* exchanged for one without, though pages and announcements arrive in any *)
(* order: it goes when its seller removes it or when it has expired.  A    *)
(* restart loses it if no finished Save holds it; it may then come back as *)
(* the page has it, unsigned.                                              *)
SignedStays ==
  [][\A n \in Nodes, l \in ListingIds :
       Signed(n, l) =>
         \/ Signed(n, l)'
         \/ ~Has(n, l)' /\ (l \in myListings[n] \/ now > listings[n][l].expires)
         \/ loadData(n) /\ ~SignedIn(stored[n].listings, l)]_listingVars

(* What the bootstrap's page goes on showing comes to every node, even if  *)
(* each announcement of it is lost.                                        *)
PageArrives ==
  \A n \in Nodes \ {Bootstrap}, l \in ListingIds :
    l \in Browse(Bootstrap) ~> (Has(n, l) \/ l \notin Browse(Bootstrap))
=============================================================================
