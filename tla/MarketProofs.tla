----------------------------- MODULE MarketProofs -----------------------------
(***************************************************************************)
(* The two halves of market.Marketplace.                                   *)
(*                                                                         *)
(* Listings, for any nodes, terms and order of announcements and imports,  *)
(* and any saves and restarts between them: copies are well formed, what a *)
(* node may remove are signed copies of its own but for what was made      *)
(* while a Save was between its two maps, and no running node exchanges a  *)
(* signed copy for an unsigned one.                                        *)
(*                                                                         *)
(* Orders, for any users, listings and stocks, any calls in any order and  *)
(* any saves and restarts between them: the maps are well formed, an order *)
(* has one open dispute at most, what has been paid is never pending,      *)
(* accepted or cancelled again, and the indexes agree with the maps they   *)
(* index but for one entry per restart.                                    *)
(***************************************************************************)
EXTENDS Orders, Listings, FiniteSetTheorems, TLAPS

-----------------------------------------------------------------------------
(* The listings. *)

SentSigned == \A msg \in sent : msg.copy.signed

\* MineAreMine alone is not inductive: a restart continues from the file, and
\* the file takes its listings before its myListings.
FilesAreMine ==
  /\ \A n \in Nodes : \A l \in stored[n].mine :
       Seller[l] = n /\ (SignedIn(stored[n].listings, l) \/ l \in overtaken)
  /\ \A n \in halfway : \A l \in myListings[n] :
       SignedIn(encoded[n].listings, l) \/ l \in overtaken

ListingsInv == ListingsTypeOK /\ SentSigned /\ MineAreMine /\ FilesAreMine

\* SignedStays for one step.
StaySigned ==
  \A n \in Nodes, l \in ListingIds :
    Signed(n, l) =>
      \/ Signed(n, l)'
      \/ ~Has(n, l)' /\ (l \in myListings[n] \/ now > listings[n][l].expires)
      \/ loadData(n) /\ ~SignedIn(stored[n].listings, l)

LEMMA InitListings == ListingsInit => ListingsInv
<1> SUFFICES ASSUME ListingsInit PROVE ListingsInv
  OBVIOUS
<1>1. NoListings \in ListingsFile /\ NoListings.mine = {}
  BY DEF NoListings, ListingsFile
<1>2. ListingsTypeOK
  BY <1>1, ListingsAssumption DEF ListingsInit, ListingsTypeOK
<1>3. FilesAreMine
  BY <1>1 DEF ListingsInit, FilesAreMine
<1>4. QED
  BY <1>2, <1>3 DEF ListingsInit, ListingsInv, SentSigned, MineAreMine

\* What is saved stays sound while a node makes a listing or loses some.
LEMMA FilesKept ==
  ASSUME FilesAreMine, UNCHANGED saveVars, overtaken \subseteq overtaken',
         \A n \in halfway : \A l \in myListings'[n] :
           l \in myListings[n] \/ l \in overtaken'
  PROVE  FilesAreMine'
  BY DEF FilesAreMine, saveVars

\* What Put does to the tables.
LEMMA PutStep ==
  ASSUME ListingsTypeOK, NEW n \in Nodes, NEW l \in ListingIds,
         NEW copy \in Copy \cup {NoCopy}, Put(n, l, copy)
  PROVE  /\ listings' \in [Nodes -> [ListingIds -> Copy \cup {NoCopy}]]
         /\ listings'[n][l] = copy
         /\ \A k \in Nodes, j \in ListingIds :
              (k # n \/ j # l) => listings'[k][j] = listings[k][j]
<1>1. /\ listings \in [Nodes -> [ListingIds -> Copy \cup {NoCopy}]]
      /\ listings[n] \in [ListingIds -> Copy \cup {NoCopy}]
  BY DEF ListingsTypeOK
<1>2. [listings[n] EXCEPT ![l] = copy] \in [ListingIds -> Copy \cup {NoCopy}]
  BY <1>1
<1>3. QED
  BY <1>1, <1>2 DEF Put

\* A signed copy takes the place of any other.
LEMMA SignedPut ==
  ASSUME ListingsInv, NEW n \in Nodes, NEW l \in ListingIds, NEW copy \in Copy,
         copy.signed, Put(n, l, copy), now' = now, UNCHANGED <<page, saveVars>>,
         overtaken \subseteq overtaken', overtaken' \subseteq ListingIds,
         n \in halfway => l \in myListings[n] \/ l \notin myListings'[n] \/ l \in overtaken',
         sent' \subseteq Announcement, \A msg \in sent' : msg.copy.signed,
         made' \subseteq ListingIds, myListings' \in [Nodes -> SUBSET ListingIds],
         \A k \in Nodes : k # n => myListings'[k] = myListings[k],
         myListings'[n] \subseteq myListings[n] \cup {l},
         l \in myListings'[n] => Seller[l] = n
  PROVE  ListingsInv' /\ StaySigned
<1>1. /\ listings' \in [Nodes -> [ListingIds -> Copy \cup {NoCopy}]]
      /\ listings'[n][l] = copy
      /\ \A k \in Nodes, j \in ListingIds :
           (k # n \/ j # l) => listings'[k][j] = listings[k][j]
  BY PutStep DEF ListingsInv
<1>2. Signed(n, l)'
  BY <1>1, NoCopyAssumption DEF Signed, SignedIn
<1>3. \A k \in Nodes, j \in ListingIds :
        (k # n \/ j # l) => (Signed(k, j)' <=> Signed(k, j))
  BY <1>1 DEF Signed, SignedIn
<1>4. ListingsTypeOK'
  BY <1>1 DEF ListingsInv, ListingsTypeOK, saveVars
<1>5. ASSUME NEW k \in Nodes, NEW j \in myListings'[k]
      PROVE  Seller[j] = k /\ (Signed(k, j)' \/ (j \in overtaken' /\ restarts' > 0))
  <2>1. CASE k = n /\ j = l
    BY <1>2, <1>5, <2>1
  <2>2. CASE k # n \/ j # l
    <3>1. j \in myListings[k] /\ j \in ListingIds
      BY <1>5, <2>2 DEF ListingsInv, ListingsTypeOK
    <3>2. QED
      BY <1>3, <2>2, <3>1 DEF ListingsInv, MineAreMine, saveVars
  <2>3. QED
    BY <2>1, <2>2
<1>6. MineAreMine'
  BY <1>5 DEF MineAreMine
<1>7. SentSigned'
  BY DEF SentSigned
<1>8. StaySigned
  BY <1>2, <1>3 DEF StaySigned
<1>9. FilesAreMine'
  <2>1. halfway \subseteq Nodes
    BY DEF ListingsInv, ListingsTypeOK
  <2>2. \A k \in halfway : \A j \in myListings'[k] :
          j \in myListings[k] \/ j \in overtaken'
    BY <2>1
  <2>3. QED
    BY <2>2, FilesKept DEF ListingsInv
<1>10. QED
  BY <1>4, <1>6, <1>7, <1>8, <1>9 DEF ListingsInv

LEMMA CreateListingStep ==
  ASSUME ListingsInv, NEW n \in Nodes, NEW l \in ListingIds, NEW ttl \in Nat,
         CreateListingFull(n, l, ttl)
  PROVE  ListingsInv' /\ StaySigned
<1> DEFINE copy == [signed |-> TRUE, created |-> now, expires |-> now + ttl]
           msg == [id |-> l, copy |-> copy]
<1>1. /\ copy \in Copy /\ copy.signed
      /\ msg \in Announcement /\ msg.copy = copy
  BY ListingsAssumption DEF ListingsInv, ListingsTypeOK, Copy, Announcement
<1>2. /\ Put(n, l, copy) /\ now' = now /\ UNCHANGED <<page, saveVars>>
      /\ Seller[l] = n
      /\ overtaken' = IF n \in halfway THEN overtaken \cup {l} ELSE overtaken
      /\ sent' = sent \cup {msg} /\ made' = made \cup {l}
      /\ myListings' = [myListings EXCEPT ![n] = @ \cup {l}]
  BY DEF CreateListingFull
<1> HIDE DEF copy, msg
<1>3. /\ myListings' \in [Nodes -> SUBSET ListingIds]
      /\ \A k \in Nodes : k # n => myListings'[k] = myListings[k]
      /\ myListings'[n] \subseteq myListings[n] \cup {l}
      /\ made' \subseteq ListingIds
      /\ overtaken \subseteq overtaken' /\ overtaken' \subseteq ListingIds
      /\ n \in halfway => l \in overtaken'
  BY <1>2 DEF ListingsInv, ListingsTypeOK
<1>4. sent' \subseteq Announcement /\ \A m \in sent' : m.copy.signed
  BY <1>1, <1>2 DEF ListingsInv, ListingsTypeOK, SentSigned
<1>5. QED
  BY <1>1, <1>2, <1>3, <1>4, SignedPut

LEMMA AddListingStep ==
  ASSUME ListingsInv, NEW n \in Nodes, NEW msg \in sent, AddListing(n, msg)
  PROVE  ListingsInv' /\ StaySigned
<1>1. /\ msg.id \in ListingIds /\ msg.copy \in Copy /\ msg.copy.signed
      /\ myListings \in [Nodes -> SUBSET ListingIds] /\ made \subseteq ListingIds
      /\ sent \subseteq Announcement /\ \A m \in sent : m.copy.signed
      /\ overtaken \subseteq ListingIds
  BY DEF ListingsInv, ListingsTypeOK, Announcement, SentSigned
<1>2. msg.id \in myListings[n] => Seller[msg.id] = n
  BY DEF ListingsInv, MineAreMine
<1>3. Put(n, msg.id, msg.copy) /\ UNCHANGED <<now, myListings, made, sent, page, overtaken, saveVars>>
  BY DEF AddListing
<1>4. QED
  BY <1>1, <1>2, <1>3, SignedPut

\* A step that takes nothing signed away and announces nothing.
LEMMA QuietStep ==
  ASSUME ListingsInv, UNCHANGED <<myListings, made, sent, overtaken, saveVars>>,
         now' \in 0..MaxTime, page' \in [Nodes -> SUBSET Entry],
         listings' \in [Nodes -> [ListingIds -> Copy \cup {NoCopy}]],
         \A k \in Nodes, j \in ListingIds :
           Has(k, j) => listings'[k][j] = listings[k][j]
  PROVE  ListingsInv' /\ StaySigned
<1>1. ListingsTypeOK'
  BY DEF ListingsInv, ListingsTypeOK, saveVars
<1>2. \A k \in Nodes, j \in ListingIds : Signed(k, j) => Signed(k, j)'
  BY DEF Signed, SignedIn, Has
<1>3. MineAreMine'
  BY <1>2 DEF ListingsInv, ListingsTypeOK, MineAreMine, saveVars
<1>4. SentSigned' /\ StaySigned
  BY <1>2 DEF ListingsInv, SentSigned, StaySigned
<1>5. FilesAreMine'
  BY FilesKept DEF ListingsInv
<1>6. QED
  BY <1>1, <1>3, <1>4, <1>5 DEF ListingsInv

\* An import adds only what is missing.
LEMMA ImportStep ==
  ASSUME ListingsInv, NEW n \in Nodes, NEW entry \in Entry,
         ImportListing(n, entry),
         UNCHANGED <<now, myListings, made, sent, overtaken, saveVars>>,
         page' \in [Nodes -> SUBSET Entry]
  PROVE  ListingsInv' /\ StaySigned
<1>1. now' \in 0..MaxTime /\ ListingsTypeOK
  BY DEF ListingsInv, ListingsTypeOK
<1>2. CASE Has(n, entry.id)
  <2>1. listings' = listings
    BY <1>2 DEF ImportListing
  <2>2. QED
    BY <1>1, <2>1, QuietStep DEF ListingsTypeOK
<1>3. CASE ~Has(n, entry.id)
  <2>1. Put(n, entry.id, Imported(entry)) /\ entry.id \in ListingIds
    BY <1>3 DEF ImportListing, Entry
  <2>2. Imported(entry) \in Copy
    BY ListingsAssumption DEF Imported, Entry, Copy
  <2>3. /\ listings' \in [Nodes -> [ListingIds -> Copy \cup {NoCopy}]]
        /\ \A k \in Nodes, j \in ListingIds :
             (k # n \/ j # entry.id) => listings'[k][j] = listings[k][j]
    BY <1>1, <2>1, <2>2, PutStep
  <2>4. \A k \in Nodes, j \in ListingIds :
          Has(k, j) => listings'[k][j] = listings[k][j]
    BY <1>3, <2>3
  <2>5. QED
    BY <1>1, <2>3, <2>4, QuietStep
<1>4. QED
  BY <1>2, <1>3

\* A step that takes listings out of the table takes them from the seller's own.
LEMMA RemovedStep ==
  ASSUME ListingsInv, NEW n \in Nodes, NEW gone \in SUBSET ListingIds,
         UNCHANGED <<now, made, sent, page, overtaken, saveVars>>,
         listings' \in [Nodes -> [ListingIds -> Copy \cup {NoCopy}]],
         \A k \in Nodes, j \in ListingIds :
           IF k = n /\ j \in gone THEN listings'[k][j] = NoCopy
                                  ELSE listings'[k][j] = listings[k][j],
         myListings' = [myListings EXCEPT ![n] = @ \ gone],
         \A j \in gone : j \in myListings[n] \/ now > listings[n][j].expires
  PROVE  ListingsInv' /\ StaySigned
<1>1. /\ myListings' \in [Nodes -> SUBSET ListingIds]
      /\ myListings'[n] = myListings[n] \ gone
      /\ \A k \in Nodes : k # n => myListings'[k] = myListings[k]
  BY DEF ListingsInv, ListingsTypeOK
<1>2. ListingsTypeOK'
  BY <1>1 DEF ListingsInv, ListingsTypeOK, saveVars
<1>3. \A k \in Nodes, j \in ListingIds :
        ~(k = n /\ j \in gone) => (Signed(k, j)' <=> Signed(k, j))
  BY DEF Signed, SignedIn
<1>4. ASSUME NEW k \in Nodes, NEW j \in myListings'[k]
      PROVE  Seller[j] = k /\ (Signed(k, j)' \/ (j \in overtaken' /\ restarts' > 0))
  <2>1. j \in myListings[k] /\ j \in ListingIds /\ ~(k = n /\ j \in gone)
    BY <1>1, <1>4 DEF ListingsInv, ListingsTypeOK
  <2>2. QED
    BY <1>3, <2>1 DEF ListingsInv, MineAreMine, saveVars
<1>5. \A j \in gone : ~Has(n, j)'
  BY DEF Has
<1>6. StaySigned
  BY <1>3, <1>5 DEF StaySigned
<1>7. FilesAreMine'
  <2>1. halfway \subseteq Nodes
    BY DEF ListingsInv, ListingsTypeOK
  <2>2. \A k \in halfway : \A j \in myListings'[k] : j \in myListings[k]
    BY <1>1, <2>1
  <2>3. QED
    BY <2>2, FilesKept DEF ListingsInv
<1>8. QED
  BY <1>2, <1>4, <1>6, <1>7 DEF ListingsInv, MineAreMine, SentSigned

\* Listings are encoded before myListings: what is in the second and not signed
\* in the first was made in between.
LEMMA SaveStep ==
  ASSUME ListingsInv, NEW n \in Nodes, Save(n)
  PROVE  ListingsInv' /\ StaySigned
<1>1. /\ UNCHANGED <<now, listings, myListings, made, sent, page, overtaken, restarts>>
      /\ ListingsTypeOK /\ FilesAreMine /\ MineAreMine
  BY DEF Save, ListingsInv
<1>2. /\ listings[n] \in [ListingIds -> Copy \cup {NoCopy}]
      /\ myListings[n] \in SUBSET ListingIds /\ halfway \subseteq Nodes
      /\ NoListings \in ListingsFile
      /\ encoded \in [Nodes -> ListingsFile] /\ stored \in [Nodes -> ListingsFile]
      /\ listingSaves \in 0..MaxListingSaves
  BY <1>1 DEF ListingsTypeOK, NoListings, ListingsFile
<1>3. CASE /\ n \notin halfway /\ listingSaves < MaxListingSaves
           /\ encoded' = [encoded EXCEPT ![n].listings = listings[n]]
           /\ halfway' = halfway \cup {n} /\ listingSaves' = listingSaves + 1
           /\ UNCHANGED stored
  <2> DEFINE f == [encoded[n] EXCEPT !.listings = listings[n]]
  <2>1. f \in ListingsFile /\ f.listings = listings[n]
    BY <1>2 DEF ListingsFile
  <2>2. encoded' = [encoded EXCEPT ![n] = f]
    BY <1>3
  <2> HIDE DEF f
  <2>3. /\ encoded' \in [Nodes -> ListingsFile] /\ encoded'[n].listings = listings[n]
        /\ \A k \in Nodes : k # n => encoded'[k] = encoded[k]
    BY <1>2, <2>1, <2>2
  <2>4. listingSaves' \in 0..MaxListingSaves
    BY <1>2, <1>3, ListingsAssumption
  <2>5. ListingsTypeOK'
    BY <1>1, <1>2, <1>3, <2>3, <2>4 DEF ListingsTypeOK
  <2>6. ASSUME NEW k \in halfway', NEW l \in myListings'[k]
        PROVE  SignedIn(encoded'[k].listings, l) \/ l \in overtaken'
    <3>1. CASE k = n
      BY <1>1, <2>3, <2>6, <3>1 DEF MineAreMine, Signed
    <3>2. CASE k # n
      <4>1. k \in halfway /\ k \in Nodes /\ l \in myListings[k]
        BY <1>1, <1>2, <1>3, <2>6, <3>2
      <4>2. encoded'[k] = encoded[k]
        BY <2>3, <3>2, <4>1
      <4>3. QED
        BY <1>1, <4>1, <4>2 DEF FilesAreMine
    <3>3. QED
      BY <3>1, <3>2
  <2>7. FilesAreMine'
    BY <1>1, <1>3, <2>6 DEF FilesAreMine
  <2>8. QED
    BY <1>1, <2>5, <2>7
    DEF ListingsInv, SentSigned, MineAreMine, StaySigned, Signed
<1>4. CASE /\ n \in halfway
           /\ stored' = [stored EXCEPT ![n] = [encoded[n] EXCEPT !.mine = myListings[n]]]
           /\ encoded' = [encoded EXCEPT ![n] = NoListings]
           /\ halfway' = halfway \ {n}
           /\ UNCHANGED listingSaves
  <2> DEFINE f == [encoded[n] EXCEPT !.mine = myListings[n]]
  <2>1. /\ f \in ListingsFile /\ f.mine = myListings[n]
        /\ f.listings = encoded[n].listings
    BY <1>2 DEF ListingsFile
  <2>2. stored' = [stored EXCEPT ![n] = f]
    BY <1>4
  <2> HIDE DEF f
  <2>3. /\ stored' \in [Nodes -> ListingsFile] /\ stored'[n] = f
        /\ \A k \in Nodes : k # n => stored'[k] = stored[k]
        /\ encoded' \in [Nodes -> ListingsFile]
        /\ \A k \in Nodes : k # n => encoded'[k] = encoded[k]
    BY <1>2, <1>4, <2>1, <2>2
  <2>4. ListingsTypeOK'
    BY <1>1, <1>2, <1>4, <2>3 DEF ListingsTypeOK
  <2>5. ASSUME NEW k \in Nodes, NEW l \in stored'[k].mine
        PROVE  Seller[l] = k /\ (SignedIn(stored'[k].listings, l) \/ l \in overtaken')
    <3>1. CASE k = n
      <4>1. l \in myListings[n]
        BY <2>1, <2>3, <2>5, <3>1
      <4>2. Seller[l] = n /\ (SignedIn(encoded[n].listings, l) \/ l \in overtaken)
        BY <1>1, <1>4, <4>1 DEF MineAreMine, FilesAreMine
      <4>3. QED
        BY <1>1, <2>1, <2>3, <3>1, <4>2
    <3>2. CASE k # n
      BY <1>1, <2>3, <2>5, <3>2 DEF FilesAreMine
    <3>3. QED
      BY <3>1, <3>2
  <2>6. \A k \in halfway' : k \in halfway /\ encoded'[k] = encoded[k]
    BY <1>2, <1>4, <2>3
  <2>7. FilesAreMine'
    BY <1>1, <2>5, <2>6 DEF FilesAreMine
  <2>8. QED
    BY <1>1, <2>4, <2>7
    DEF ListingsInv, SentSigned, MineAreMine, StaySigned, Signed
<1>5. QED
  BY <1>3, <1>4 DEF Save

\* A restart continues from a sound file.
LEMMA LoadStep ==
  ASSUME ListingsInv, NEW n \in Nodes, loadData(n)
  PROVE  ListingsInv' /\ StaySigned
<1>1. /\ UNCHANGED <<now, made, sent, stored, overtaken, listingSaves>>
      /\ ListingsTypeOK /\ FilesAreMine /\ MineAreMine
      /\ stored[n] \in ListingsFile /\ NoListings \in ListingsFile
      /\ halfway \subseteq Nodes
  BY DEF loadData, ListingsInv, ListingsTypeOK, NoListings, ListingsFile
<1>2. restarts' \in 0..MaxRestarts /\ restarts' > 0
  BY ListingsAssumption DEF loadData, ListingsInv, ListingsTypeOK
<1>3. /\ listings' \in [Nodes -> [ListingIds -> Copy \cup {NoCopy}]]
      /\ listings'[n] = stored[n].listings
      /\ \A k \in Nodes : k # n => listings'[k] = listings[k]
      /\ myListings' \in [Nodes -> SUBSET ListingIds]
      /\ myListings'[n] = stored[n].mine
      /\ \A k \in Nodes : k # n => myListings'[k] = myListings[k]
  BY <1>1 DEF loadData, ListingsTypeOK, ListingsFile
<1>4. /\ encoded' \in [Nodes -> ListingsFile] /\ page' \in [Nodes -> SUBSET Entry]
      /\ halfway' = halfway \ {n}
      /\ \A k \in halfway' : k \in halfway /\ k # n /\ encoded'[k] = encoded[k]
  BY <1>1 DEF loadData, ListingsTypeOK
<1>5. ListingsTypeOK'
  BY <1>1, <1>2, <1>3, <1>4 DEF ListingsTypeOK
<1>6. ASSUME NEW k \in Nodes, NEW l \in myListings'[k]
      PROVE  Seller[l] = k /\ (Signed(k, l)' \/ (l \in overtaken' /\ restarts' > 0))
  <2>1. CASE k = n
    BY <1>1, <1>2, <1>3, <1>6, <2>1 DEF FilesAreMine, Signed
  <2>2. CASE k # n
    BY <1>1, <1>2, <1>3, <1>6, <2>2 DEF MineAreMine, Signed
  <2>3. QED
    BY <2>1, <2>2
<1>7. FilesAreMine'
  BY <1>1, <1>3, <1>4 DEF FilesAreMine
<1>8. ASSUME NEW k \in Nodes, NEW l \in ListingIds, Signed(k, l)
      PROVE  Signed(k, l)' \/ (loadData(k) /\ ~SignedIn(stored[k].listings, l))
  BY <1>3, <1>8 DEF Signed
<1>9. QED
  BY <1>1, <1>5, <1>6, <1>7, <1>8 DEF ListingsInv, SentSigned, MineAreMine, StaySigned

LEMMA ListingsStep ==
  ListingsInv /\ [ListingsNext]_listingVars => ListingsInv' /\ StaySigned
<1> SUFFICES ASSUME ListingsInv, [ListingsNext]_listingVars
             PROVE  ListingsInv' /\ StaySigned
  OBVIOUS
<1>t. /\ ListingsTypeOK /\ now \in Nat /\ MaxTime \in Nat /\ now \in 0..MaxTime
      /\ page \in [Nodes -> SUBSET Entry]
      /\ listings \in [Nodes -> [ListingIds -> Copy \cup {NoCopy}]]
  BY ListingsAssumption DEF ListingsInv, ListingsTypeOK
<1>1. ASSUME NEW n \in Nodes, NEW l \in ListingIds,
             handleCreateListing(n, l) \/ cmdSell(n, l)
      PROVE  ListingsInv' /\ StaySigned
  BY <1>1, CreateListingStep, ListingsAssumption DEF handleCreateListing, cmdSell
<1>2. ASSUME NEW n \in Nodes, NEW l \in ListingIds, RemoveListing(n, l)
      PROVE  ListingsInv' /\ StaySigned
  <2>1. /\ l \in myListings[n] /\ Put(n, l, NoCopy)
        /\ myListings' = [myListings EXCEPT ![n] = @ \ {l}]
        /\ UNCHANGED <<now, made, sent, page, overtaken, saveVars>>
    BY <1>2 DEF RemoveListing
  <2>2. /\ listings' \in [Nodes -> [ListingIds -> Copy \cup {NoCopy}]]
        /\ listings'[n][l] = NoCopy
        /\ \A k \in Nodes, j \in ListingIds :
             (k # n \/ j # l) => listings'[k][j] = listings[k][j]
    BY <1>t, <2>1, PutStep
  <2>3. /\ {l} \in SUBSET ListingIds
        /\ \A j \in {l} : j \in myListings[n] \/ now > listings[n][j].expires
        /\ \A k \in Nodes, j \in ListingIds :
             IF k = n /\ j \in {l} THEN listings'[k][j] = NoCopy
                                   ELSE listings'[k][j] = listings[k][j]
    BY <2>1, <2>2
  <2>4. QED
    BY <2>1, <2>2, <2>3, RemovedStep
<1>3. ASSUME NEW n \in Nodes, NEW msg \in sent, AddListing(n, msg)
      PROVE  ListingsInv' /\ StaySigned
  BY <1>3, AddListingStep
<1>4. ASSUME NEW n \in Nodes, Fetch(n)
      PROVE  ListingsInv' /\ StaySigned
  <2>1. Page \in SUBSET Entry
    <3>1. \A l \in Browse(Bootstrap) :
            l \in ListingIds /\ listings[Bootstrap][l].created \in Nat
      BY <1>t, ListingsAssumption DEF Browse, Has, Copy
    <3>2. QED
      BY <3>1 DEF Page, Entry
  <2>2. page' \in [Nodes -> SUBSET Entry]
    BY <1>4, <1>t, <2>1 DEF Fetch
  <2>3. QED
    BY <1>4, <1>t, <2>2, QuietStep DEF Fetch
<1>5. ASSUME NEW n \in Nodes, NEW entry \in page[n], ImportEntry(n, entry)
      PROVE  ListingsInv' /\ StaySigned
  <2>1. entry \in Entry /\ page' \in [Nodes -> SUBSET Entry]
    BY <1>5, <1>t DEF ImportEntry
  <2>2. QED
    BY <1>5, <2>1, ImportStep DEF ImportEntry
<1>6. ASSUME NEW n \in Nodes, NEW l \in ListingIds, NEW t \in 0..now,
             handleSyncListing(n, [id |-> l, created |-> t])
      PROVE  ListingsInv' /\ StaySigned
  <2>1. [id |-> l, created |-> t] \in Entry
    BY <1>t DEF Entry
  <2>2. QED
    BY <1>6, <1>t, <2>1, ImportStep DEF handleSyncListing
<1>7. ASSUME NEW n \in Nodes, CleanExpired(n)
      PROVE  ListingsInv' /\ StaySigned
  <2>1. Expired(n) \in SUBSET ListingIds /\ \A j \in Expired(n) : now > listings[n][j].expires
    BY DEF Expired
  <2>2. listings' = [listings EXCEPT ![n] =
          [j \in ListingIds |-> IF j \in Expired(n) THEN NoCopy ELSE listings[n][j]]]
    BY <1>7 DEF CleanExpired
  <2>3. /\ listings' \in [Nodes -> [ListingIds -> Copy \cup {NoCopy}]]
        /\ \A k \in Nodes, j \in ListingIds :
             IF k = n /\ j \in Expired(n) THEN listings'[k][j] = NoCopy
                                          ELSE listings'[k][j] = listings[k][j]
    BY <1>t, <2>2
  <2>4. QED
    BY <1>7, <2>1, <2>3, RemovedStep DEF CleanExpired
<1>8. CASE Tick
  <2>1. now' \in 0..MaxTime
    BY <1>8, <1>t DEF Tick
  <2>2. QED
    BY <1>8, <1>t, <2>1, QuietStep DEF Tick
<1>9. ASSUME NEW n \in Nodes, Save(n) \/ loadData(n)
      PROVE  ListingsInv' /\ StaySigned
  BY <1>9, SaveStep, LoadStep
<1>10. CASE UNCHANGED listingVars
  BY <1>10, <1>t, QuietStep DEF listingVars
<1>11. QED
  BY <1>1, <1>2, <1>3, <1>4, <1>5, <1>6, <1>7, <1>8, <1>9, <1>10 DEF ListingsNext

LEMMA ListingsInvariant == ListingsSpec => []ListingsInv
<1>1. ListingsInv /\ [ListingsNext]_listingVars => ListingsInv'
  BY ListingsStep
<1>2. QED
  BY <1>1, InitListings, PTL DEF ListingsSpec

\* For any nodes, listings and terms, every copy, announcement and fetched page
\* is well formed: nothing is stored that expired before time began.
THEOREM ListingsTypes == ListingsSpec => []ListingsTypeOK
<1>1. ListingsInv => ListingsTypeOK
  BY DEF ListingsInv
<1>2. QED
  BY <1>1, ListingsInvariant, PTL

\* What a node may remove are signed copies of its own listings, in whatever
\* order announcements, pages, removals, cleanings, saves and restarts come, but
\* for those made between the two maps of a Save (market.go).
THEOREM OwnListings == ListingsSpec => []MineAreMine
<1>1. ListingsInv => MineAreMine
  BY DEF ListingsInv
<1>2. QED
  BY <1>1, ListingsInvariant, PTL

\* No announcement and no import exchanges a copy with the seller's key for one
\* without (AddListing, ImportListing); only a restart from a file without it
\* loses it otherwise (loadData).
THEOREM NeverUnsigned == ListingsSpec => SignedStays
<1>1. ListingsInv /\ [ListingsNext]_listingVars =>
        [\A n \in Nodes, l \in ListingIds :
           Signed(n, l) =>
             \/ Signed(n, l)'
             \/ ~Has(n, l)' /\ (l \in myListings[n] \/ now > listings[n][l].expires)
             \/ loadData(n) /\ ~SignedIn(stored[n].listings, l)]_listingVars
  BY ListingsStep DEF StaySigned
<1>2. QED
  BY <1>1, ListingsInvariant, PTL DEF ListingsSpec, SignedStays
-----------------------------------------------------------------------------
(* The orders. *)

\* The operation between two writes works on entries that are there.
OpFits ==
  /\ op.at \in {"myOrders", "sellerOrders", "conversations"} =>
       op.id \in Ids /\ op.id + 1 \in Ids /\ orders[op.id] # None
  /\ op.at \in {"sellerReviews", "profile"} =>
       op.id \in Ids /\ reviews[op.id] # None

\* Identifiers that are in use have been generated.
Used(os) == \A o \in Ids : os[o] # None => o <= ids

\* One open dispute about an order, in a map of disputes.
OneIn(ds) ==
  \A d1, d2 \in Ids :
    /\ ds[d1] # None /\ ds[d2] # None
    /\ ds[d1].order = ds[d2].order
    /\ ds[d1].status = "open" /\ ds[d2].status = "open"
    => d1 = d2

\* OneOpenDispute alone is not inductive: a restart brings the disputes of the
\* file back, and those were being encoded before.
OrdersInv ==
  /\ TypeOK /\ OpFits
  /\ Used(orders) /\ Used(out.orders) /\ Used(file.orders)
  /\ OneIn(disputes) /\ OneIn(out.disputes) /\ OneIn(file.disputes)

USE OrdersAssumption, NoneAssumption

LEMMA NothingFits ==
  /\ Nothing \in [Ids -> {None}]
  /\ Blank \in MarketData /\ Blank.orders = Nothing /\ Blank.disputes = Nothing
  BY DEF Nothing, Blank, MarketData

LEMMA IdsFacts ==
  /\ Ids \subseteq Nat /\ NoId \notin Ids
  /\ \A i \in Ids : i <= MaxIds
  /\ \A n \in Nat, k \in Nat : n + k <= MaxIds => \A i \in 1..k : n + i \in Ids
  BY DEF Ids, NoId

LEMMA InitOrders == Init => OrdersInv
<1> SUFFICES ASSUME Init PROVE OrdersInv
  OBVIOUS
<1>1. \A i \in Ids : Nothing[i] = None
  BY NothingFits
<1>2. TypeOK
  BY NothingFits DEF Init, TypeOK, Free, NoId, Status
<1>3. OpFits
  BY DEF Init, OpFits, Free
<1>4. QED
  BY <1>1, <1>2, <1>3, NothingFits DEF Init, OrdersInv, Used, OneIn
-----------------------------------------------------------------------------
(* An order that is there may change its status and its escrow. *)

LEMMA OrderAt ==
  ASSUME TypeOK, NEW o \in Ids, orders[o] # None
  PROVE  /\ orders[o] \in Order
         /\ orders[o].listing \in Listings /\ orders[o].seller \in Parties
         /\ orders[o].escrow \in Ids \cup {NoId}
  BY DEF TypeOK, Order

LEMMA SetOrder ==
  ASSUME TypeOK, NEW o \in Ids, orders[o] # None, NEW status \in Status,
         Set(o, status)
  PROVE  /\ orders' \in [Ids -> Order \cup {None}]
         /\ orders'[o].status = status
         /\ \A i \in Ids : orders'[i] # None <=> orders[i] # None
         /\ \A i \in Ids : i # o => orders'[i] = orders[i]
<1>1. orders[o] \in Order
  BY OrderAt
<1>2. [orders[o] EXCEPT !.status = status] \in Order
  BY <1>1 DEF Order
<1>3. orders' = [orders EXCEPT ![o] = [orders[o] EXCEPT !.status = status]]
  BY DEF Set
<1>4. [orders[o] EXCEPT !.status = status].status = status
  BY <1>1 DEF Order
<1>5. QED
  BY <1>2, <1>3, <1>4 DEF TypeOK

LEMMA SettleEscrow ==
  ASSUME TypeOK, NEW o \in Ids, orders[o] # None,
         NEW status \in {"held", "released", "refunded"}, Settle(o, status)
  PROVE  escrows' \in [Ids -> EscrowRecord \cup {None}]
<1> DEFINE e == orders[o].escrow
<1>1. CASE e # NoId /\ escrows[e] # None
  <2>1. e \in Ids
    BY <1>1, OrderAt
  <2>2. escrows[e] \in EscrowRecord
    BY <1>1, <2>1 DEF TypeOK
  <2>3. [escrows[e] EXCEPT !.status = status] \in EscrowRecord
    BY <2>2 DEF EscrowRecord
  <2>4. escrows' = [escrows EXCEPT ![e] = [escrows[e] EXCEPT !.status = status]]
    BY <1>1 DEF Settle
  <2>5. QED
    BY <2>1, <2>3, <2>4 DEF TypeOK
<1>2. CASE ~ (e # NoId /\ escrows[e] # None)
  BY <1>2 DEF Settle, TypeOK
<1>3. QED
  BY <1>1, <1>2

\* What the invariant asks of a step of an operation that holds no lock
\* afterwards: the saver, the file and the restarts are as they were.
LEMMA FreeStep ==
  ASSUME OrdersInv, ~Locked, UNCHANGED <<op, saver, crashes>>,
         ids' \in ids..MaxIds,
         orders' \in [Ids -> Order \cup {None}], Used(orders)',
         myOrders' \subseteq Ids, sellerOrders' \in [Parties -> SUBSET Ids],
         conversations' \in [Ids -> Conversation \cup {None}],
         myConversations' \subseteq Ids,
         disputes' \in [Ids -> Dispute \cup {None}], OneIn(disputes'),
         escrows' \in [Ids -> EscrowRecord \cup {None}],
         reviews' \in [Ids -> Review \cup {None}],
         sellerReviews' \in [Ids -> Review \cup {None}], profile' \in Nat
  PROVE  OrdersInv'
<1>1. ids \in Nat /\ ids' \in 0..MaxIds /\ ids <= ids'
  BY DEF OrdersInv, TypeOK
<1>2. TypeOK'
  BY <1>1 DEF OrdersInv, TypeOK, saver
<1>3. OpFits'
  BY DEF Locked, OpFits, Free
<1>4. Used(out.orders)' /\ Used(file.orders)'
  BY <1>1, IdsFacts DEF OrdersInv, Used, saver
<1>5. QED
  BY <1>2, <1>3, <1>4 DEF OrdersInv, saver
-----------------------------------------------------------------------------
(* The operations of one step. *)

\* The entry that comes next has no dispute or order under its id yet.
LEMMA NextId ==
  ASSUME TypeOK, NEW k \in {1, 2}, Generate(k)
  PROVE  /\ ids + 1 \in Ids /\ ids' \in ids..MaxIds /\ ids + 1 <= ids'
         /\ k = 2 => ids + 2 \in Ids
  BY DEF TypeOK, Generate, Ids

\* A step that leaves the orders there are, and only those.
LEMMA SameOrders ==
  ASSUME OrdersInv, ids' \in ids..MaxIds,
         \A i \in Ids : orders'[i] # None => orders[i] # None
  PROVE  Used(orders)'
  BY IdsFacts DEF OrdersInv, TypeOK, Used

LEMMA StatusStep ==
  ASSUME OrdersInv, NEW o \in Ids, NEW status \in Status,
         UpdateOrderStatus(o, status)
  PROVE  OrdersInv'
<1>1. /\ orders' \in [Ids -> Order \cup {None}]
      /\ \A i \in Ids : orders'[i] # None => orders[i] # None
  BY SetOrder DEF OrdersInv, UpdateOrderStatus
<1>2. ids' \in ids..MaxIds
  BY DEF OrdersInv, TypeOK, UpdateOrderStatus
<1>3. Used(orders)'
  BY <1>1, <1>2, SameOrders
<1>4. QED
  BY <1>1, <1>2, <1>3, FreeStep DEF UpdateOrderStatus, OrdersInv, TypeOK

LEMMA ShippedStep ==
  ASSUME OrdersInv, NEW o \in Ids, MarkShipped(o)
  PROVE  OrdersInv'
<1>1. /\ orders' \in [Ids -> Order \cup {None}]
      /\ \A i \in Ids : orders'[i] # None => orders[i] # None
  BY SetOrder DEF OrdersInv, MarkShipped, Status
<1>2. ids' \in ids..MaxIds
  BY DEF OrdersInv, TypeOK, MarkShipped
<1>3. Used(orders)'
  BY <1>1, <1>2, SameOrders
<1>4. QED
  BY <1>1, <1>2, <1>3, FreeStep DEF MarkShipped, OrdersInv, TypeOK

LEMMA PaidStep ==
  ASSUME OrdersInv, NEW o \in Ids, MarkPaid(o)
  PROVE  OrdersInv'
<1>1. /\ ids + 1 \in Ids /\ ids' \in ids..MaxIds
  BY NextId DEF OrdersInv, MarkPaid
<1>2. orders[o] \in Order
  BY OrderAt DEF OrdersInv, MarkPaid
<1> DEFINE paid == [[orders[o] EXCEPT !.status = "paid"] EXCEPT !.escrow = ids + 1]
<1>3. paid \in Order
  BY <1>1, <1>2 DEF Order, Status
<1>4. orders' = [orders EXCEPT ![o] = paid]
  BY DEF MarkPaid, OrdersInv, TypeOK
<1>5. /\ orders' \in [Ids -> Order \cup {None}]
      /\ \A i \in Ids : orders'[i] # None => orders[i] # None
  BY <1>3, <1>4 DEF OrdersInv, TypeOK, MarkPaid
<1>6. Used(orders)'
  BY <1>1, <1>5, SameOrders
<1>7. [order |-> o, status |-> "held"] \in EscrowRecord
  BY DEF EscrowRecord
<1>8. escrows' \in [Ids -> EscrowRecord \cup {None}]
  BY <1>1, <1>7 DEF MarkPaid, OrdersInv, TypeOK
<1>9. QED
  BY <1>1, <1>5, <1>6, <1>8, FreeStep DEF MarkPaid, OrdersInv, TypeOK

LEMMA CompletedStep ==
  ASSUME OrdersInv, NEW o \in Ids, CompleteOrder(o)
  PROVE  OrdersInv'
<1>1. /\ orders' \in [Ids -> Order \cup {None}]
      /\ \A i \in Ids : orders'[i] # None => orders[i] # None
  BY SetOrder DEF OrdersInv, CompleteOrder, Status
<1>2. ids' \in ids..MaxIds
  BY DEF OrdersInv, TypeOK, CompleteOrder
<1>3. Used(orders)'
  BY <1>1, <1>2, SameOrders
<1>4. escrows' \in [Ids -> EscrowRecord \cup {None}]
  BY SettleEscrow DEF OrdersInv, CompleteOrder
<1>5. QED
  BY <1>1, <1>2, <1>3, <1>4, FreeStep DEF CompleteOrder, OrdersInv, TypeOK

LEMMA MessageStep ==
  ASSUME OrdersInv, NEW p \in Parties, NEW l \in Listings \cup {None},
         NEW o \in {NoId} \cup Ids, SendMessage(p, o, l)
  PROVE  OrdersInv'
<1>1. /\ ids' \in ids..MaxIds
      /\ conversations' \in [Ids -> Conversation \cup {None}]
      /\ myConversations' \subseteq Ids
  <2>1. CASE Matching(p, o, l) # {}
    BY <2>1 DEF SendMessage, OrdersInv, TypeOK
  <2>2. CASE Matching(p, o, l) = {}
    <3>1. ids + 1 \in Ids /\ ids' \in ids..MaxIds
      BY <2>2, NextId DEF SendMessage, OrdersInv
    <3>2. [with |-> p, order |-> o, listing |-> l] \in Conversation
      BY DEF Conversation
    <3>3. QED
      BY <2>2, <3>1, <3>2 DEF SendMessage, OrdersInv, TypeOK
  <2>3. QED
    BY <2>1, <2>2
<1>2. Used(orders)'
  BY <1>1, SameOrders DEF SendMessage
<1>3. QED
  BY <1>1, <1>2, FreeStep DEF SendMessage, OrdersInv, TypeOK

\* A dispute where there was none open.
LEMMA OpenStep ==
  ASSUME OrdersInv, NEW o \in Ids, OpenDispute(o)
  PROVE  OrdersInv'
<1>1. /\ orders' \in [Ids -> Order \cup {None}]
      /\ \A i \in Ids : orders'[i] # None => orders[i] # None
  BY SetOrder DEF OrdersInv, OpenDispute, Status
<1>2. ids + 1 \in Ids /\ ids' \in ids..MaxIds
  BY NextId DEF OrdersInv, OpenDispute
<1>3. Used(orders)'
  BY <1>1, <1>2, SameOrders
<1> DEFINE new == [order |-> o, status |-> "open"]
<1>4. new \in Dispute
  BY DEF Dispute
<1>5. disputes' \in [Ids -> Dispute \cup {None}]
  BY <1>2, <1>4 DEF OpenDispute, OrdersInv, TypeOK
<1>6. /\ disputes'[ids + 1] = new
      /\ \A d \in Ids : d # ids + 1 => disputes'[d] = disputes[d]
  BY <1>2 DEF OpenDispute, OrdersInv, TypeOK
<1>7. \A d \in Ids : ~ (/\ disputes[d] # None /\ disputes[d].order = o
                        /\ disputes[d].status = "open")
  BY DEF OpenDispute, Open
<1>8. OneIn(disputes')
  BY <1>6, <1>7 DEF OrdersInv, OneIn
<1>9. QED
  BY <1>1, <1>2, <1>3, <1>5, <1>8, FreeStep DEF OpenDispute, OrdersInv, TypeOK

LEMMA ResolveStep ==
  ASSUME OrdersInv, NEW d \in Ids,
         NEW resolution \in {"refund", "release", "split"},
         ResolveDispute(d, resolution)
  PROVE  OrdersInv'
<1>1. disputes[d] \in Dispute /\ disputes[d].order \in Ids
  BY DEF ResolveDispute, OrdersInv, TypeOK, Dispute
<1> DEFINE o == disputes[d].order
           done == [disputes[d] EXCEPT !.status = "resolved"]
<1>2. done \in Dispute /\ done.status = "resolved"
  BY <1>1 DEF Dispute
<1>3. disputes' = [disputes EXCEPT ![d] = done]
  BY DEF ResolveDispute
<1>4. disputes' \in [Ids -> Dispute \cup {None}]
  BY <1>2, <1>3 DEF OrdersInv, TypeOK
<1>5. OneIn(disputes')
  <2>1. /\ disputes'[d].status # "open"
        /\ \A e \in Ids : e # d => disputes'[e] = disputes[e]
    BY <1>2, <1>3 DEF OrdersInv, TypeOK
  <2>2. QED
    BY <2>1 DEF OrdersInv, OneIn
<1>6. /\ orders' \in [Ids -> Order \cup {None}]
      /\ \A i \in Ids : orders'[i] # None => orders[i] # None
      /\ escrows' \in [Ids -> EscrowRecord \cup {None}]
  <2>1. CASE orders[o] = None \/ resolution = "split"
    BY <2>1 DEF ResolveDispute, OrdersInv, TypeOK
  <2>2. CASE orders[o] # None /\ resolution = "refund"
    <3>1. Set(o, "refunded") /\ Settle(o, "refunded")
      BY <2>2 DEF ResolveDispute
    <3>2. QED
      BY <1>1, <2>2, <3>1, SetOrder, SettleEscrow DEF OrdersInv, Status
  <2>3. CASE orders[o] # None /\ resolution = "release"
    <3>1. Set(o, "completed") /\ Settle(o, "released")
      BY <2>3 DEF ResolveDispute
    <3>2. QED
      BY <1>1, <2>3, <3>1, SetOrder, SettleEscrow DEF OrdersInv, Status
  <2>4. QED
    BY <2>1, <2>2, <2>3
<1>7. ids' \in ids..MaxIds
  BY DEF ResolveDispute, OrdersInv, TypeOK
<1>8. Used(orders)'
  BY <1>6, <1>7, SameOrders
<1>9. QED
  BY <1>4, <1>5, <1>6, <1>7, <1>8, FreeStep
  DEF ResolveDispute, OrdersInv, TypeOK

LEMMA ReviewStep ==
  ASSUME OrdersInv, NEW l \in Listings, AddReview(l)
  PROVE  OrdersInv'
<1>1. ids + 1 \in Ids /\ ids' \in ids..MaxIds
  BY NextId DEF OrdersInv, AddReview
<1>2. Used(orders)'
  BY <1>1, SameOrders DEF AddReview
<1>3. [order |-> NoId, listing |-> l, seller |-> None] \in Review
  BY DEF Review
<1>4. reviews' \in [Ids -> Review \cup {None}]
  BY <1>1, <1>3 DEF AddReview, OrdersInv, TypeOK
<1>5. QED
  BY <1>1, <1>2, <1>4, FreeStep DEF AddReview, OrdersInv, TypeOK
-----------------------------------------------------------------------------
(* The operations of several steps. *)

\* The step leaves the escrows, the saver, the disputes and the bounds alone.
LEMMA LockedStep ==
  ASSUME OrdersInv, ids' \in ids..MaxIds,
         UNCHANGED <<disputes, escrows, saver, crashes>>,
         orders' \in [Ids -> Order \cup {None}], Used(orders)',
         myOrders' \subseteq Ids, sellerOrders' \in [Parties -> SUBSET Ids],
         conversations' \in [Ids -> Conversation \cup {None}],
         myConversations' \subseteq Ids,
         reviews' \in [Ids -> Review \cup {None}],
         sellerReviews' \in [Ids -> Review \cup {None}], profile' \in Nat,
         op' \in [at : {"free", "myOrders", "sellerOrders", "conversations",
                        "sellerReviews", "profile"}, id : Ids \cup {NoId}],
         OpFits'
  PROVE  OrdersInv'
<1>1. ids \in Nat /\ ids' \in 0..MaxIds /\ ids <= ids'
  BY DEF OrdersInv, TypeOK
<1>2. TypeOK'
  BY <1>1 DEF OrdersInv, TypeOK, saver
<1>3. out' = out /\ file' = file
  BY DEF saver
<1>4. Used(out.orders)' /\ Used(file.orders)'
  <2>1. Ids \subseteq Nat
    BY IdsFacts
  <2>2. ASSUME NEW os, \A o \in Ids : os[o] # None => o <= ids
        PROVE  \A o \in Ids : os[o] # None => o <= ids'
    BY <1>1, <2>1, <2>2
  <2>3. /\ \A o \in Ids : out.orders[o] # None => o <= ids'
        /\ \A o \in Ids : file.orders[o] # None => o <= ids'
    BY <2>2 DEF OrdersInv, Used
  <2>4. QED
    BY <1>3, <2>3 DEF Used
<1>5. QED
  BY <1>2, <1>4 DEF OrdersInv, saver

LEMMA CreateStep ==
  ASSUME OrdersInv, NEW l \in Listings, CreateOrder(l, 1)
  PROVE  OrdersInv'
<1>1. ids + 1 \in Ids /\ ids + 2 \in Ids /\ ids' \in ids..MaxIds /\ ids + 1 <= ids'
  BY NextId DEF OrdersInv, CreateOrder
<1> DEFINE new == [listing |-> l, seller |-> SellerOf[l], status |-> "pending",
                   escrow |-> NoId]
<1>2. new \in Order
  BY DEF Order, Status
<1>3. new # None
  BY <1>2
<1>4. orders' = [orders EXCEPT ![ids + 1] = new]
  BY DEF CreateOrder
<1> HIDE DEF new
<1>5. /\ orders' \in [Ids -> Order \cup {None}] /\ orders'[ids + 1] # None
      /\ \A i \in Ids : i # ids + 1 => orders'[i] = orders[i]
  BY <1>1, <1>2, <1>3, <1>4 DEF OrdersInv, TypeOK
<1>6. Used(orders)'
  BY <1>1, <1>5, IdsFacts DEF OrdersInv, TypeOK, Used
<1>7. op' = [at |-> "myOrders", id |-> ids + 1]
  BY DEF CreateOrder
<1>8. OpFits'
  <2>1. (ids + 1) + 1 = ids + 2
    BY DEF OrdersInv, TypeOK
  <2>2. QED
    BY <1>1, <1>5, <1>7, <2>1 DEF OpFits
<1>9. QED
  BY <1>1, <1>5, <1>6, <1>7, <1>8, LockedStep
  DEF CreateOrder, OrdersInv, TypeOK

\* The writes that follow keep to entries that are there.
LEMMA EnterStep ==
  ASSUME OrdersInv,
         \/ EnterMyOrders \/ EnterSellerOrders \/ createOrderConversation
         \/ EnterSellerReviews \/ CountReview
  PROVE  OrdersInv'
<1>1. /\ ids' \in ids..MaxIds
      /\ UNCHANGED <<orders, disputes, escrows, reviews, saver, crashes>>
  BY DEF OrdersInv, TypeOK, EnterMyOrders, EnterSellerOrders,
         createOrderConversation, EnterSellerReviews, CountReview
<1>2. Used(orders)'
  BY <1>1, SameOrders
<1>3. CASE EnterMyOrders
  <2>1. op.id \in Ids /\ op.id + 1 \in Ids /\ orders[op.id] # None
    BY <1>3 DEF OrdersInv, OpFits, EnterMyOrders
  <2>2. op' = [at |-> "sellerOrders", id |-> op.id]
    BY <1>3 DEF EnterMyOrders, Then, OrdersInv, TypeOK
  <2>3. OpFits'
    BY <1>1, <2>1, <2>2 DEF OpFits
  <2>4. QED
    BY <1>1, <1>2, <1>3, <2>1, <2>2, <2>3, LockedStep
    DEF EnterMyOrders, OrdersInv, TypeOK
<1>4. CASE EnterSellerOrders
  <2>1. op.id \in Ids /\ op.id + 1 \in Ids /\ orders[op.id] # None
    BY <1>4 DEF OrdersInv, OpFits, EnterSellerOrders
  <2>2. op' = [at |-> "conversations", id |-> op.id]
    BY <1>4 DEF EnterSellerOrders, Then, OrdersInv, TypeOK
  <2>3. OpFits'
    BY <1>1, <2>1, <2>2 DEF OpFits
  <2>4. orders[op.id].seller \in Parties
    BY <2>1, OrderAt DEF OrdersInv
  <2>5. sellerOrders' \in [Parties -> SUBSET Ids]
    BY <1>4, <2>1, <2>4 DEF EnterSellerOrders, OrdersInv, TypeOK
  <2>6. QED
    BY <1>1, <1>2, <1>4, <2>1, <2>2, <2>3, <2>5, LockedStep
    DEF EnterSellerOrders, OrdersInv, TypeOK
<1>5. CASE createOrderConversation
  <2>1. op.id \in Ids /\ op.id + 1 \in Ids /\ orders[op.id] # None
    BY <1>5 DEF OrdersInv, OpFits, createOrderConversation
  <2>2. [with |-> orders[op.id].seller, order |-> op.id,
         listing |-> orders[op.id].listing] \in Conversation
    BY <2>1, OrderAt DEF OrdersInv, Conversation
  <2>3. /\ conversations' \in [Ids -> Conversation \cup {None}]
        /\ myConversations' \subseteq Ids
    BY <1>5, <2>1, <2>2 DEF createOrderConversation, OrdersInv, TypeOK
  <2>4. op' = Free /\ OpFits'
    BY <1>5 DEF createOrderConversation, Free, OpFits
  <2>5. QED
    BY <1>1, <1>2, <1>5, <2>3, <2>4, LockedStep
    DEF createOrderConversation, OrdersInv, TypeOK, Free
<1>6. CASE EnterSellerReviews
  <2>1. op.id \in Ids /\ reviews[op.id] # None
    BY <1>6 DEF OrdersInv, OpFits, EnterSellerReviews
  <2>2. op' = [at |-> "profile", id |-> op.id]
    BY <1>6 DEF EnterSellerReviews, Then, OrdersInv, TypeOK
  <2>3. OpFits'
    BY <1>1, <2>1, <2>2 DEF OpFits
  <2>4. sellerReviews' \in [Ids -> Review \cup {None}]
    BY <1>6, <2>1 DEF EnterSellerReviews, OrdersInv, TypeOK
  <2>5. QED
    BY <1>1, <1>2, <1>6, <2>1, <2>2, <2>3, <2>4, LockedStep
    DEF EnterSellerReviews, OrdersInv, TypeOK
<1>7. CASE CountReview
  <2>1. op' = Free /\ OpFits'
    BY <1>7 DEF CountReview, Free, OpFits
  <2>2. profile' \in Nat
    BY <1>7 DEF CountReview, OrdersInv, TypeOK
  <2>3. QED
    BY <1>1, <1>2, <1>7, <2>1, <2>2, LockedStep
    DEF CountReview, OrdersInv, TypeOK, Free
<1>8. QED
  BY <1>3, <1>4, <1>5, <1>6, <1>7

LEMMA DetailedStep ==
  ASSUME OrdersInv, NEW o \in Ids, AddDetailedReview(o)
  PROVE  OrdersInv'
<1>1. ids + 1 \in Ids /\ ids' \in ids..MaxIds
  BY NextId DEF OrdersInv, AddDetailedReview
<1> DEFINE new == [order |-> o, listing |-> orders[o].listing,
                   seller |-> orders[o].seller]
<1>2. new \in Review
  BY OrderAt DEF OrdersInv, AddDetailedReview, Review
<1>3. new # None
  BY <1>2
<1>4. reviews' = [reviews EXCEPT ![ids + 1] = new]
  BY DEF AddDetailedReview
<1> HIDE DEF new
<1>5. reviews' \in [Ids -> Review \cup {None}] /\ reviews'[ids + 1] # None
  BY <1>1, <1>2, <1>3, <1>4 DEF OrdersInv, TypeOK
<1>6. Used(orders)'
  BY <1>1, SameOrders DEF AddDetailedReview
<1>7. op' = [at |-> "sellerReviews", id |-> ids + 1]
  BY DEF AddDetailedReview
<1>8. OpFits'
  BY <1>1, <1>5, <1>7 DEF OpFits
<1>9. QED
  BY <1>1, <1>5, <1>6, <1>7, <1>8, LockedStep
  DEF AddDetailedReview, OrdersInv, TypeOK
-----------------------------------------------------------------------------
(* The saver and the restart. *)

LEMMA BeginStep == ASSUME OrdersInv, BeginSave PROVE OrdersInv'
<1>1. /\ out' \in MarketData /\ out'.orders = Nothing /\ out'.disputes = Nothing
  BY NothingFits DEF BeginSave, OrdersInv, TypeOK, MarketData
<1>2. "reviews" \in DOMAIN Blank
  BY DEF Blank
<1>3. saves' \in 0..MaxSaves
  BY DEF BeginSave, OrdersInv, TypeOK
<1>4. TypeOK'
  BY <1>1, <1>2, <1>3 DEF BeginSave, OrdersInv, TypeOK, tables
<1>5. OpFits'
  BY DEF BeginSave, OrdersInv, OpFits, tables
<1>6. Used(out.orders)' /\ OneIn(out.disputes)'
  BY <1>1, NothingFits DEF Used, OneIn
<1>7. QED
  BY <1>4, <1>5, <1>6 DEF BeginSave, OrdersInv, Used, tables

LEMMA EncodeStep == ASSUME OrdersInv, EncodeFields PROVE OrdersInv'
<1>1. /\ UNCHANGED <<tables, escrows, op, ids, file, saves, crashes>>
      /\ saving' \in DOMAIN Blank \cup {"done"}
  BY DEF EncodeFields, Encode, Blank
<1>2. /\ out' \in MarketData
      /\ out'.orders \in {out.orders, orders}
      /\ out'.disputes \in {out.disputes, disputes}
  <2>1. TypeOK
    BY DEF OrdersInv
  <2>2. CASE Encode("reviews", reviews, "sellerReviews")
    BY <2>1, <2>2 DEF Encode, TypeOK, MarketData
  <2>3. CASE Encode("sellerReviews", sellerReviews, "orders")
    BY <2>1, <2>3 DEF Encode, TypeOK, MarketData
  <2>4. CASE Encode("orders", orders, "myOrders")
    BY <2>1, <2>4 DEF Encode, TypeOK, MarketData
  <2>5. CASE Encode("myOrders", myOrders, "sellerOrders")
    BY <2>1, <2>5 DEF Encode, TypeOK, MarketData
  <2>6. CASE Encode("sellerOrders", sellerOrders, "conversations")
    BY <2>1, <2>6 DEF Encode, TypeOK, MarketData
  <2>7. CASE Encode("conversations", conversations, "disputes")
    BY <2>1, <2>7 DEF Encode, TypeOK, MarketData
  <2>8. CASE Encode("disputes", disputes, "profile")
    BY <2>1, <2>8 DEF Encode, TypeOK, MarketData
  <2>9. CASE Encode("profile", profile, "done")
    BY <2>1, <2>9 DEF Encode, TypeOK, MarketData
  <2>10. QED
    BY <2>2, <2>3, <2>4, <2>5, <2>6, <2>7, <2>8, <2>9 DEF EncodeFields
<1>3. TypeOK'
  BY <1>1, <1>2 DEF OrdersInv, TypeOK, tables
<1>4. OpFits'
  BY <1>1 DEF OrdersInv, OpFits, tables
<1>5. Used(out.orders)' /\ OneIn(out.disputes)'
  BY <1>1, <1>2 DEF OrdersInv, Used, OneIn
<1>6. QED
  BY <1>1, <1>3, <1>4, <1>5 DEF OrdersInv, Used, tables

LEMMA EndStep == ASSUME OrdersInv, EndSave PROVE OrdersInv'
<1>1. TypeOK'
  BY NothingFits DEF EndSave, OrdersInv, TypeOK, tables
<1>2. OpFits'
  BY DEF EndSave, OrdersInv, OpFits, tables
<1>3. Used(out.orders)' /\ OneIn(out.disputes)'
  BY NothingFits DEF EndSave, Used, OneIn
<1>4. QED
  BY <1>1, <1>2, <1>3 DEF EndSave, OrdersInv, Used, tables

LEMMA RestartStep == ASSUME OrdersInv, Restart PROVE OrdersInv'
<1>1. file \in MarketData
  BY DEF OrdersInv, TypeOK
<1>2. TypeOK'
  BY <1>1, NothingFits
  DEF Restart, OrdersInv, TypeOK, MarketData, Free, NoId
<1>3. OpFits'
  BY DEF Restart, OpFits, Free
<1>4. Used(out.orders)' /\ OneIn(out.disputes)'
  BY NothingFits DEF Restart, Used, OneIn
<1>5. QED
  BY <1>2, <1>3, <1>4 DEF Restart, OrdersInv, Used

LEMMA OrdersStep == OrdersInv /\ [Next]_vars => OrdersInv'
<1> SUFFICES ASSUME OrdersInv, [Next]_vars PROVE OrdersInv'
  OBVIOUS
<1>1. CASE \E l \in Listings : CreateOrder(l, 1) \/ AddReview(l)
  BY <1>1, CreateStep, ReviewStep
<1>2. CASE \E o \in Ids : \/ \E status \in Status : UpdateOrderStatus(o, status)
                          \/ MarkPaid(o) \/ MarkShipped(o) \/ CompleteOrder(o)
                          \/ OpenDispute(o) \/ AddDetailedReview(o)
  BY <1>2, StatusStep, PaidStep, ShippedStep, CompletedStep, OpenStep,
     DetailedStep
<1>3. CASE \E p \in Parties, l \in Listings \cup {None},
              o \in {NoId} \cup {i \in Ids : orders[i] # None} :
             SendMessage(p, o, l)
  BY <1>3, MessageStep
<1>4. CASE \E d \in Ids, resolution \in {"refund", "release", "split"} :
             ResolveDispute(d, resolution)
  BY <1>4, ResolveStep
<1>5. CASE \/ EnterMyOrders \/ EnterSellerOrders \/ createOrderConversation
           \/ EnterSellerReviews \/ CountReview
  BY <1>5, EnterStep
<1>6. CASE BeginSave \/ EncodeFields \/ EndSave \/ Restart
  BY <1>6, BeginStep, EncodeStep, EndStep, RestartStep
<1>7. CASE UNCHANGED vars
  BY <1>7 DEF vars, tables, saver, OrdersInv, TypeOK, OpFits, Used
<1>8. QED
  BY <1>1, <1>2, <1>3, <1>4, <1>5, <1>6, <1>7 DEF Next

\* For any instance, the maps in memory, in the encoder and in the file are
\* well formed, whatever is torn and whenever the process ends.
THEOREM OrdersTypes == Spec => []TypeOK
<1>1. OrdersInv => TypeOK
  BY DEF OrdersInv
<1>2. QED
  BY <1>1, InitOrders, OrdersStep, PTL DEF Spec

\* No sequence of payments, shipments, resolutions, saves and restarts brings
\* a second open dispute about an order (the scan in OpenDispute).
THEOREM OneDispute == Spec => []OneOpenDispute
<1>1. OrdersInv => OneOpenDispute
  BY DEF OrdersInv, OneIn, OneOpenDispute, Open
<1>2. QED
  BY <1>1, InitOrders, OrdersStep, PTL DEF Spec
-----------------------------------------------------------------------------
(* What has been paid. *)

Paid(o) == orders[o] # None /\ orders[o].status \notin Unpaid

\* A status that is set is not an unpaid one, or the order was unpaid.
LEMMA SetPaid ==
  ASSUME TypeOK, NEW o \in Ids, orders[o] # None, NEW status \in Status \ Unpaid,
         Set(o, status), NEW i \in Ids, Paid(i)
  PROVE  Paid(i)'
  BY SetOrder DEF Paid

LEMMA StaysPaid ==
  ASSUME OrdersInv, [Next]_vars, crashes' = crashes, NEW i \in Ids, Paid(i)
  PROVE  Paid(i)'
<1>1. CASE orders' = orders
  BY <1>1 DEF Paid
<1>2. CASE \E l \in Listings : CreateOrder(l, 1)
  <2>1. i <= ids /\ ids \in Nat /\ i \in Nat
    BY IdsFacts DEF OrdersInv, Used, Paid, TypeOK
  <2>2. orders'[i] = orders[i]
    BY <1>2, <2>1 DEF CreateOrder, OrdersInv, TypeOK
  <2>3. QED
    BY <2>2 DEF Paid
<1>3. CASE \E o \in Ids, status \in Status : UpdateOrderStatus(o, status)
  <2> PICK o \in Ids, status \in Status : UpdateOrderStatus(o, status)
    BY <1>3
  <2>1. orders[o] # None /\ Set(o, status)
    BY DEF UpdateOrderStatus
  <2>2. CASE i = o
    <3>1. <<orders[i].status, status>> \in Transitions
      BY <2>2 DEF UpdateOrderStatus
    <3>2. status \notin Unpaid
      BY <3>1 DEF Transitions, Unpaid, Paid
    <3>3. QED
      BY <2>1, <3>2, SetPaid DEF OrdersInv
  <2>3. CASE i # o
    <3>1. orders'[i] = orders[i]
      BY <2>1, <2>3, SetOrder DEF OrdersInv
    <3>2. QED
      BY <3>1 DEF Paid
  <2>4. QED
    BY <2>2, <2>3
<1>4. CASE \E o \in Ids : MarkPaid(o)
  <2> PICK o \in Ids : MarkPaid(o)
    BY <1>4
  <2>1. orders[o] \in Order
    BY OrderAt DEF MarkPaid, OrdersInv
  <2> DEFINE paid == [[orders[o] EXCEPT !.status = "paid"] EXCEPT !.escrow = ids + 1]
  <2>2. paid.status = "paid" /\ paid # None
    <3>1. ids + 1 \in Ids
      BY NextId DEF OrdersInv, MarkPaid
    <3>2. paid \in Order
      BY <2>1, <3>1 DEF Order, Status
    <3>3. QED
      BY <2>1, <3>2 DEF Order
  <2>3. orders' = [orders EXCEPT ![o] = paid]
    BY DEF MarkPaid, OrdersInv, TypeOK
  <2>4. QED
    BY <2>2, <2>3 DEF Paid, Unpaid, OrdersInv, TypeOK
<1>5. CASE \E o \in Ids : MarkShipped(o) \/ CompleteOrder(o) \/ OpenDispute(o)
  BY <1>5, SetPaid
  DEF OrdersInv, MarkShipped, CompleteOrder, OpenDispute, Status, Unpaid
<1>6. CASE \E d \in Ids, resolution \in {"refund", "release", "split"} :
             ResolveDispute(d, resolution)
  <2> PICK d \in Ids, resolution \in {"refund", "release", "split"} :
         ResolveDispute(d, resolution)
    BY <1>6
  <2>1. disputes[d].order \in Ids
    BY DEF ResolveDispute, OrdersInv, TypeOK, Dispute
  <2>2. \/ orders' = orders
        \/ /\ orders[disputes[d].order] # None
           /\ Set(disputes[d].order, "refunded") \/ Set(disputes[d].order, "completed")
    BY DEF ResolveDispute
  <2>3. QED
    BY <1>1, <2>1, <2>2, SetPaid DEF OrdersInv, Status, Unpaid
<1>7. QED
  <2>1. CASE UNCHANGED vars
    BY <1>1, <2>1 DEF vars, tables
  <2>2. CASE Restart
    BY <2>2 DEF Restart, OrdersInv, TypeOK
  <2>3. CASE BeginSave \/ EncodeFields \/ EndSave
    BY <1>1, <2>3 DEF BeginSave, EncodeFields, Encode, EndSave, tables
  <2>4. CASE \/ EnterMyOrders \/ EnterSellerOrders \/ createOrderConversation
             \/ EnterSellerReviews \/ CountReview
    BY <1>1, <2>4 DEF EnterMyOrders, EnterSellerOrders,
       createOrderConversation, EnterSellerReviews, CountReview
  <2>5. CASE \/ \E l \in Listings : AddReview(l)
             \/ \E o \in Ids : AddDetailedReview(o)
             \/ \E p \in Parties, l \in Listings \cup {None},
                   o \in {NoId} \cup {k \in Ids : orders[k] # None} :
                  SendMessage(p, o, l)
    BY <1>1, <2>5 DEF AddReview, AddDetailedReview, SendMessage
  <2>6. QED
    BY <1>2, <1>3, <1>4, <1>5, <1>6, <2>1, <2>2, <2>3, <2>4, <2>5 DEF Next

\* Whatever is called in whatever order, an order that was paid for does not
\* become an unpaid or a cancelled one before the process ends.
THEOREM PaidStays == Spec => PaidNotCancelled
<1>1. OrdersInv /\ [Next]_vars =>
        [crashes' = crashes =>
           \A o \in Ids :
             orders[o] # None /\ orders[o].status \notin Unpaid
               => orders'[o] # None /\ orders'[o].status \notin Unpaid]_vars
  BY StaysPaid DEF Paid
<1>2. QED
  BY <1>1, InitOrders, OrdersStep, PTL DEF Spec, PaidNotCancelled
-----------------------------------------------------------------------------
(* The maps agree.                                                         *)

\* The orders that conversations are about are there, or have been.
OrderUsed(convs) == \A c \in Ids : convs[c] # None => convs[c].order <= ids

MapsUsed ==
  /\ Used(reviews) /\ Used(sellerReviews) /\ Used(conversations)
  /\ Used(out.reviews) /\ Used(out.sellerReviews) /\ Used(out.conversations)
  /\ Used(file.reviews) /\ Used(file.sellerReviews) /\ Used(file.conversations)
  /\ OrderUsed(conversations) /\ OrderUsed(out.conversations)
  /\ OrderUsed(file.conversations)

Ordering  == op.at \in {"myOrders", "sellerOrders", "conversations"}
Reviewing == op.at \in {"sellerReviews", "profile"}

\* What the operation between two writes has entered, and what not yet.
OpEntered ==
  /\ Ordering =>
       /\ op.id + 1 <= ids
       /\ reviews[op.id] = None /\ sellerReviews[op.id] = None
       /\ conversations[op.id + 1] = None
       /\ \A c \in Ids : conversations[c] # None => conversations[c].order # op.id
  /\ op.at \in {"sellerOrders", "conversations"} => op.id \in myOrders
  /\ op.at = "conversations" => op.id \in sellerOrders[orders[op.id].seller]
  /\ Reviewing =>
       /\ orders[op.id] = None
       /\ reviews[op.id].order \in Ids /\ orders[reviews[op.id].order] # None
  /\ op.at = "profile" => sellerReviews[op.id] = reviews[op.id]

AstrayNow  == Astray(orders, myOrders, sellerOrders, conversations) \ {op.id}
UnfiledNow == Unfiled(orders, reviews, sellerReviews) \ {op.id}
CountedNow == Counted(sellerReviews) \ {op.id}

\* The maps as the save will have them: what the encoder has passed is in
\* `out', the rest is in memory still.
HasConversations == saving \in {"disputes", "profile", "done"}
HasSellerOrders  == HasConversations \/ saving = "conversations"
HasMyOrders      == HasSellerOrders \/ saving = "sellerOrders"
HasOrders        == HasMyOrders \/ saving = "myOrders"
HasSellerReviews == HasOrders \/ saving = "orders"
HasReviews       == HasSellerReviews \/ saving = "sellerReviews"

ThreadsToCome  == IF HasConversations THEN out.conversations ELSE conversations
BySellerToCome == IF HasSellerOrders THEN out.sellerOrders ELSE sellerOrders
MineToCome     == IF HasMyOrders THEN out.myOrders ELSE myOrders
OrdersToCome   == IF HasOrders THEN out.orders ELSE orders
FiledToCome    == IF HasSellerReviews THEN out.sellerReviews ELSE sellerReviews
ProfileToCome  == IF saving = "done" THEN out.profile ELSE profile

AstrayToCome  == Astray(out.orders, MineToCome, BySellerToCome, ThreadsToCome)
UnfiledToCome == Unfiled(OrdersToCome, out.reviews, FiledToCome)

(* What OrdersIndexed and ReviewsFiled will say of the file.  It holds     *)
(* from the moment the orders (the reviews) are encoded, with the one that *)
(* was in progress then as the exception, and goes on to hold because the  *)
(* maps that are still to be encoded only grow.                            *)
SavedMaps ==
  /\ HasOrders => Cardinality(AstrayToCome) <= crashes + 1
  /\ HasReviews => Cardinality(UnfiledToCome) <= crashes + 1
  /\ HasSellerReviews =>
       Cardinality(Counted(out.sellerReviews)) <= ProfileToCome + crashes + 1

MapsInv ==
  OrdersInv /\ MapsUsed /\ OpEntered /\ SavedMaps /\ OrdersIndexed /\ ReviewsFiled

-----------------------------------------------------------------------------
(* Counting. *)

LEMMA FewerIds ==
  ASSUME NEW S \in SUBSET Ids, NEW T \in SUBSET S
  PROVE  /\ Cardinality(T) \in Nat /\ Cardinality(S) \in Nat
         /\ Cardinality(T) <= Cardinality(S)
<1>1. IsFiniteSet(Ids)
  BY FS_Interval DEF Ids
<1>2. IsFiniteSet(S) /\ IsFiniteSet(T)
  BY <1>1, FS_Subset
<1> QED BY <1>2, FS_Subset, FS_CardinalityType

LEMMA OneMoreId ==
  ASSUME NEW S \in SUBSET Ids, NEW x, NEW T \in SUBSET (S \cup {x})
  PROVE  /\ Cardinality(T) \in Nat /\ Cardinality(S) \in Nat
         /\ Cardinality(T) <= Cardinality(S) + 1
<1>1. IsFiniteSet(Ids)
  BY FS_Interval DEF Ids
<1>2. IsFiniteSet(S)
  BY <1>1, FS_Subset
<1>3. /\ IsFiniteSet(S \cup {x})
      /\ Cardinality(S \cup {x}) = IF x \in S THEN Cardinality(S) ELSE Cardinality(S) + 1
  BY <1>2, FS_AddElement
<1>4. IsFiniteSet(T) /\ Cardinality(T) <= Cardinality(S \cup {x})
  BY <1>3, FS_Subset
<1>5. Cardinality(S) \in Nat /\ Cardinality(T) \in Nat
  BY <1>2, <1>4, FS_CardinalityType
<1> QED BY <1>3, <1>4, <1>5

LEMMA OnlyIds ==
  /\ \A os, mine, bySeller, convs : Astray(os, mine, bySeller, convs) \subseteq Ids
  /\ \A os, rs, srs : Unfiled(os, rs, srs) \subseteq Ids
  /\ \A srs : Counted(srs) \subseteq Ids
  BY DEF Astray, Unfiled, Counted

-----------------------------------------------------------------------------
(* The maps only grow, while the process runs.                             *)

Kept ==
  /\ \A o \in Ids : orders[o] # None =>
       orders'[o] # None /\ orders'[o].seller = orders[o].seller
  /\ myOrders \subseteq myOrders'
  /\ \A s \in Parties : sellerOrders[s] \subseteq sellerOrders'[s]
  /\ \A o \in Ids, s \in Parties :
       (\E c \in Ids : Threads(conversations, o, s) = {c})
         => (\E c \in Ids : Threads(conversations', o, s) = {c})
  /\ \A r \in Ids : sellerReviews[r] # None => sellerReviews'[r] # None
  /\ profile <= profile'

\* What is new is in progress, and what is no longer in progress is complete.
InProgress ==
  /\ \A o \in Ids : orders'[o] # None => orders[o] # None \/ o = op'.id
  /\ \A r \in Ids : reviews'[r] # None /\ reviews'[r].order # NoId
                      => reviews'[r] = reviews[r] \/ r = op'.id
  /\ op.id \in Ids /\ op'.id # op.id =>
       /\ op.id \notin Astray(orders', myOrders', sellerOrders', conversations')
       /\ op.id \notin Unfiled(orders', reviews', sellerReviews')

LEMMA NowShrinks ==
  ASSUME TypeOK, TypeOK', Kept, InProgress
  PROVE  AstrayNow' \subseteq AstrayNow /\ UnfiledNow' \subseteq UnfiledNow
<1>1. ASSUME NEW o \in AstrayNow' PROVE o \in AstrayNow
  <2>1. /\ o \in Ids /\ orders'[o] # None /\ o # op'.id
        /\ ~ /\ o \in myOrders' /\ o \in sellerOrders'[orders'[o].seller]
             /\ \E c \in Ids : Threads(conversations', o, orders'[o].seller) = {c}
    BY <1>1 DEF AstrayNow, Astray
  <2>2. orders[o] # None /\ orders[o].seller \in Parties
        /\ orders'[o].seller = orders[o].seller
    BY <2>1, OrderAt DEF InProgress, Kept
  <2>3. ~ /\ o \in myOrders /\ o \in sellerOrders[orders[o].seller]
          /\ \E c \in Ids : Threads(conversations, o, orders[o].seller) = {c}
    BY <2>1, <2>2 DEF Kept
  <2>4. o # op.id
    BY <1>1, <2>1 DEF InProgress, AstrayNow
  <2> QED BY <2>1, <2>2, <2>3, <2>4 DEF AstrayNow, Astray
<1>2. ASSUME NEW r \in UnfiledNow' PROVE r \in UnfiledNow
  <2>1. /\ r \in Ids /\ reviews'[r] # None /\ reviews'[r].order # NoId /\ r # op'.id
        /\ orders'[reviews'[r].order] = None \/ sellerReviews'[r] = None
    BY <1>2 DEF UnfiledNow, Unfiled
  <2>2. reviews'[r] = reviews[r]
    BY <2>1 DEF InProgress
  <2>3. reviews[r].order \in Ids
    BY <2>1, <2>2 DEF TypeOK, Review
  <2>4. orders[reviews[r].order] = None \/ sellerReviews[r] = None
    BY <2>1, <2>2, <2>3 DEF Kept
  <2>5. r # op.id
    BY <1>2, <2>1 DEF InProgress, UnfiledNow
  <2> QED BY <2>1, <2>2, <2>4, <2>5 DEF UnfiledNow, Unfiled
<1> QED BY <1>1, <1>2

\* The save that is under way will hold no less.
LEMMA ToComeShrinks ==
  ASSUME TypeOK, TypeOK', Kept, UNCHANGED <<saving, out>>
  PROVE  /\ AstrayToCome' \subseteq AstrayToCome
         /\ UnfiledToCome' \subseteq UnfiledToCome
         /\ ProfileToCome <= ProfileToCome' /\ ProfileToCome \in Nat
<1>0. out \in MarketData
  BY DEF TypeOK
<1>1. /\ MineToCome \subseteq MineToCome'
      /\ \A s \in Parties : BySellerToCome[s] \subseteq BySellerToCome'[s]
      /\ \A o \in Ids, s \in Parties :
           (\E c \in Ids : Threads(ThreadsToCome, o, s) = {c})
             => (\E c \in Ids : Threads(ThreadsToCome', o, s) = {c})
  <2>1. /\ HasMyOrders' = HasMyOrders /\ HasSellerOrders' = HasSellerOrders
        /\ HasConversations' = HasConversations
    BY DEF HasMyOrders, HasSellerOrders, HasConversations
  <2>2. MineToCome \subseteq MineToCome'
    BY <2>1 DEF MineToCome, Kept
  <2>3. \A s \in Parties : BySellerToCome[s] \subseteq BySellerToCome'[s]
    BY <2>1 DEF BySellerToCome, Kept
  <2>4. CASE HasConversations
    BY <2>1, <2>2, <2>3, <2>4 DEF ThreadsToCome
  <2>5. CASE ~HasConversations
    BY <2>1, <2>2, <2>3, <2>5 DEF ThreadsToCome, Kept
  <2> QED BY <2>4, <2>5
<1>2. ASSUME NEW o \in AstrayToCome' PROVE o \in AstrayToCome
  <2>1. /\ o \in Ids /\ out.orders[o] # None
        /\ ~ /\ o \in MineToCome' /\ o \in BySellerToCome'[out.orders[o].seller]
             /\ \E c \in Ids : Threads(ThreadsToCome', o, out.orders[o].seller) = {c}
    BY <1>2 DEF AstrayToCome, Astray
  <2>2. out.orders[o].seller \in Parties
    BY <1>0, <2>1 DEF MarketData, Order
  <2>3. ~ /\ o \in MineToCome /\ o \in BySellerToCome[out.orders[o].seller]
          /\ \E c \in Ids : Threads(ThreadsToCome, o, out.orders[o].seller) = {c}
    BY <1>1, <2>1, <2>2
  <2> QED BY <2>1, <2>3 DEF AstrayToCome, Astray
<1>3. ASSUME NEW r \in UnfiledToCome' PROVE r \in UnfiledToCome
  <2>1. /\ r \in Ids /\ out.reviews[r] # None /\ out.reviews[r].order # NoId
        /\ OrdersToCome'[out.reviews[r].order] = None \/ FiledToCome'[r] = None
    BY <1>3 DEF UnfiledToCome, Unfiled
  <2>2. out.reviews[r].order \in Ids
    BY <1>0, <2>1 DEF MarketData, Review
  <2>3. /\ HasOrders' = HasOrders /\ HasSellerReviews' = HasSellerReviews
    BY DEF HasOrders, HasSellerReviews, HasMyOrders, HasSellerOrders, HasConversations
  <2>4. OrdersToCome[out.reviews[r].order] = None \/ FiledToCome[r] = None
    BY <2>1, <2>2, <2>3 DEF OrdersToCome, FiledToCome, Kept
  <2> QED BY <2>1, <2>4 DEF UnfiledToCome, Unfiled
<1>4. ProfileToCome <= ProfileToCome' /\ ProfileToCome \in Nat
  BY <1>0 DEF ProfileToCome, Kept, TypeOK, MarketData
<1> QED BY <1>2, <1>3, <1>4

\* A review leaves the one in progress counted, or nothing is counted.
Tallied ==
  \/ CountedNow' \subseteq CountedNow
  \/ CountedNow' \subseteq CountedNow \cup {op.id} /\ profile' = profile + 1

\* A step of an operation keeps the counts, whatever it is.
LEMMA OperationStep ==
  ASSUME MapsInv, OrdersInv', MapsUsed', OpEntered', Kept, InProgress, Tallied,
         UNCHANGED <<saver, crashes>>
  PROVE  MapsInv'
<1>0. /\ TypeOK /\ TypeOK' /\ SavedMaps /\ OrdersIndexed /\ ReviewsFiled
      /\ saving' = saving /\ out' = out /\ file' = file
      /\ crashes \in Nat /\ crashes' = crashes /\ profile \in Nat /\ profile' \in Nat
      /\ profile <= profile'
  BY DEF MapsInv, OrdersInv, TypeOK, saver, Kept
<1>1. OrdersIndexed'
  <2>1. AstrayNow' \subseteq AstrayNow /\ AstrayNow \subseteq Ids
    BY <1>0, NowShrinks, OnlyIds DEF AstrayNow
  <2>2. /\ Cardinality(AstrayNow') <= Cardinality(AstrayNow)
        /\ Cardinality(AstrayNow') \in Nat /\ Cardinality(AstrayNow) \in Nat
    BY <2>1, FewerIds
  <2> QED BY <1>0, <2>2 DEF OrdersIndexed, AstrayNow
<1>2. Cardinality(UnfiledNow') <= crashes'
  <2>1. UnfiledNow' \subseteq UnfiledNow /\ UnfiledNow \subseteq Ids
    BY <1>0, NowShrinks, OnlyIds DEF UnfiledNow
  <2>2. /\ Cardinality(UnfiledNow') <= Cardinality(UnfiledNow)
        /\ Cardinality(UnfiledNow') \in Nat /\ Cardinality(UnfiledNow) \in Nat
    BY <2>1, FewerIds
  <2> QED BY <1>0, <2>2 DEF ReviewsFiled, UnfiledNow
<1>3. Cardinality(CountedNow') <= profile' + crashes'
  <2>0. CountedNow \subseteq Ids /\ Cardinality(CountedNow) <= profile + crashes
    BY <1>0, OnlyIds DEF ReviewsFiled, CountedNow
  <2>1. CASE CountedNow' \subseteq CountedNow
    <3>1. /\ Cardinality(CountedNow') <= Cardinality(CountedNow)
          /\ Cardinality(CountedNow') \in Nat /\ Cardinality(CountedNow) \in Nat
      BY <2>0, <2>1, FewerIds
    <3> QED BY <1>0, <2>0, <3>1
  <2>2. CASE CountedNow' \subseteq CountedNow \cup {op.id} /\ profile' = profile + 1
    <3>1. /\ Cardinality(CountedNow') <= Cardinality(CountedNow) + 1
          /\ Cardinality(CountedNow') \in Nat /\ Cardinality(CountedNow) \in Nat
      BY <2>0, <2>2, OneMoreId
    <3> QED BY <1>0, <2>0, <2>2, <3>1
  <2> QED BY <2>1, <2>2 DEF Tallied
<1>4. ReviewsFiled'
  <2>1. /\ Cardinality(Unfiled(file.orders, file.reviews, file.sellerReviews)) <= crashes + 1
        /\ Cardinality(Counted(file.sellerReviews)) <= file.profile + crashes + 1
    BY <1>0 DEF ReviewsFiled
  <2> QED BY <1>0, <1>2, <1>3, <2>1 DEF ReviewsFiled, UnfiledNow, CountedNow
<1>5. SavedMaps'
  <2>0. /\ HasOrders' = HasOrders /\ HasReviews' = HasReviews
        /\ HasSellerReviews' = HasSellerReviews
    BY <1>0 DEF HasOrders, HasReviews, HasSellerReviews, HasMyOrders,
       HasSellerOrders, HasConversations
  <2>1. /\ AstrayToCome' \subseteq AstrayToCome /\ UnfiledToCome' \subseteq UnfiledToCome
        /\ ProfileToCome <= ProfileToCome' /\ ProfileToCome \in Nat
    BY <1>0, ToComeShrinks
  <2>2. AstrayToCome \subseteq Ids /\ UnfiledToCome \subseteq Ids
    BY OnlyIds DEF AstrayToCome, UnfiledToCome
  <2>3. /\ Cardinality(AstrayToCome') <= Cardinality(AstrayToCome)
        /\ Cardinality(AstrayToCome') \in Nat /\ Cardinality(AstrayToCome) \in Nat
        /\ Cardinality(UnfiledToCome') <= Cardinality(UnfiledToCome)
        /\ Cardinality(UnfiledToCome') \in Nat /\ Cardinality(UnfiledToCome) \in Nat
    BY <2>1, <2>2, FewerIds
  <2>4. /\ HasOrders => Cardinality(AstrayToCome') <= crashes' + 1
        /\ HasReviews => Cardinality(UnfiledToCome') <= crashes' + 1
    BY <1>0, <2>3 DEF SavedMaps
  <2>5. HasSellerReviews => Cardinality(Counted(out.sellerReviews)) <= ProfileToCome' + crashes' + 1
    <3>1. Cardinality(Counted(out.sellerReviews)) \in Nat /\ ProfileToCome' \in Nat
      <4>1. Counted(out.sellerReviews) \subseteq Ids
        BY OnlyIds
      <4>2. ProfileToCome' \in Nat
        BY <1>0 DEF ProfileToCome, TypeOK, MarketData
      <4> QED BY <4>1, <4>2, FewerIds
    <3> QED BY <1>0, <2>1, <3>1 DEF SavedMaps
  <2> QED BY <1>0, <2>0, <2>4, <2>5 DEF SavedMaps
<1> QED BY <1>1, <1>4, <1>5 DEF MapsInv

\* Ids in use stay so, and those of what the saver holds too.
LEMMA UsedLater ==
  ASSUME MapsInv, ids' \in ids..MaxIds, UNCHANGED saver
  PROVE  /\ \A i \in Ids : i <= ids => i <= ids'
         /\ \A i \in Nat : i <= ids => i <= ids'
         /\ Used(out.reviews)' /\ Used(out.sellerReviews)' /\ Used(out.conversations)'
         /\ Used(file.reviews)' /\ Used(file.sellerReviews)' /\ Used(file.conversations)'
         /\ OrderUsed(out.conversations)' /\ OrderUsed(file.conversations)'
<1>1. ids \in Nat /\ ids' \in Nat /\ ids <= ids' /\ Ids \subseteq Nat
  BY IdsFacts DEF MapsInv, OrdersInv, TypeOK
<1>2. out' = out /\ file' = file
  BY DEF saver
<1>3. \A i \in Nat : i <= ids => i <= ids'
  BY <1>1
<1>4. ASSUME NEW t, \A i \in Ids : t[i] # None => i <= ids
      PROVE  \A i \in Ids : t[i] # None => i <= ids'
  BY <1>1, <1>3, <1>4
<1>5. /\ Used(out.reviews)' /\ Used(out.sellerReviews)' /\ Used(out.conversations)'
      /\ Used(file.reviews)' /\ Used(file.sellerReviews)' /\ Used(file.conversations)'
  BY <1>2, <1>4 DEF MapsInv, MapsUsed, Used
<1>6. ASSUME NEW t \in [Ids -> Conversation \cup {None}],
             \A c \in Ids : t[c] # None => t[c].order <= ids
      PROVE  \A c \in Ids : t[c] # None => t[c].order <= ids'
  <2>1. \A c \in Ids : t[c] # None => t[c].order \in Nat
    BY <1>1 DEF Conversation, NoId
  <2> QED BY <1>3, <1>6, <2>1
<1>7. /\ out.conversations \in [Ids -> Conversation \cup {None}]
      /\ file.conversations \in [Ids -> Conversation \cup {None}]
  BY DEF MapsInv, OrdersInv, TypeOK, MarketData
<1>8. OrderUsed(out.conversations)' /\ OrderUsed(file.conversations)'
  BY <1>2, <1>6, <1>7 DEF MapsInv, MapsUsed, OrderUsed
<1> QED BY <1>1, <1>3, <1>5, <1>8

\* The tables of the reviews or of the conversations are as they were.
LEMMA SameUsed ==
  ASSUME MapsInv, ids' \in ids..MaxIds, UNCHANGED saver
  PROVE  /\ reviews' = reviews => Used(reviews)'
         /\ sellerReviews' = sellerReviews => Used(sellerReviews)'
         /\ conversations' = conversations => Used(conversations)' /\ OrderUsed(conversations)'
<1>1. /\ \A i \in Ids : i <= ids => i <= ids'
      /\ \A i \in Nat : i <= ids => i <= ids'
  BY UsedLater
<1>2. reviews' = reviews => Used(reviews)'
  BY <1>1 DEF MapsInv, MapsUsed, Used
<1>3. sellerReviews' = sellerReviews => Used(sellerReviews)'
  BY <1>1 DEF MapsInv, MapsUsed, Used
<1>4. conversations' = conversations => Used(conversations)'
  BY <1>1 DEF MapsInv, MapsUsed, Used
<1>5. \A c \in Ids : conversations[c] # None => conversations[c].order \in Nat
  <2>1. conversations \in [Ids -> Conversation \cup {None}] /\ Ids \subseteq Nat
    BY IdsFacts DEF MapsInv, OrdersInv, TypeOK
  <2> QED BY <2>1 DEF Conversation, NoId
<1>6. conversations' = conversations => OrderUsed(conversations)'
  BY <1>1, <1>5 DEF MapsInv, MapsUsed, OrderUsed
<1> QED BY <1>2, <1>3, <1>4, <1>6

\* A call that enters no order, conversation or review.
LEMMA SameMaps ==
  ASSUME MapsInv, OrdersInv', ~Locked, ids' \in ids..MaxIds,
         UNCHANGED <<op, myOrders, sellerOrders, conversations, reviews,
                     sellerReviews, profile, saver, crashes>>,
         \A o \in Ids : /\ orders'[o] # None <=> orders[o] # None
                        /\ orders[o] # None => orders'[o].seller = orders[o].seller
  PROVE  MapsInv'
<1>1. /\ op = Free /\ op' = Free
      /\ ~Ordering /\ ~Reviewing /\ op.at # "conversations" /\ op.id \notin Ids
  BY IdsFacts DEF Locked, Free, Ordering, Reviewing
<1>2. MapsUsed'
  BY UsedLater, SameUsed DEF MapsUsed
<1>3. OpEntered'
  BY <1>1 DEF OpEntered, Ordering, Reviewing, Free
<1>4. Kept
  BY DEF Kept, MapsInv, OrdersInv, TypeOK
<1>5. InProgress /\ Tallied
  BY <1>1 DEF InProgress, Tallied, CountedNow, Counted
<1> QED BY <1>2, <1>3, <1>4, <1>5, OperationStep

LEMMA SetSeller ==
  ASSUME TypeOK, NEW o \in Ids, orders[o] # None, NEW status \in Status, Set(o, status)
  PROVE  \A i \in Ids : /\ orders'[i] # None <=> orders[i] # None
                        /\ orders[i] # None => orders'[i].seller = orders[i].seller
<1>1. orders[o] \in Order
  BY OrderAt
<1>2. orders' = [orders EXCEPT ![o] = [orders[o] EXCEPT !.status = status]]
  BY DEF Set
<1>3. [orders[o] EXCEPT !.status = status].seller = orders[o].seller
  BY <1>1 DEF Order
<1>4. orders'[o].seller = orders[o].seller
  BY <1>2, <1>3 DEF TypeOK
<1> QED BY <1>4, SetOrder

\* Payments, shipments, disputes and the like change an order where it is.
LEMMA StatusMaps ==
  ASSUME MapsInv, NEW o \in Ids,
         \/ \E status \in Status : UpdateOrderStatus(o, status)
         \/ MarkPaid(o) \/ MarkShipped(o) \/ CompleteOrder(o) \/ OpenDispute(o)
  PROVE  MapsInv'
<1>0. OrdersInv /\ TypeOK
  BY DEF MapsInv, OrdersInv
<1>1. OrdersInv'
  BY <1>0, StatusStep, PaidStep, ShippedStep, CompletedStep, OpenStep
<1>2. /\ ~Locked /\ orders[o] # None
      /\ UNCHANGED <<op, myOrders, sellerOrders, conversations, reviews,
                     sellerReviews, profile, saver, crashes>>
  BY DEF UpdateOrderStatus, MarkPaid, MarkShipped, CompleteOrder, OpenDispute
<1>3. ids' \in ids..MaxIds
  <2>1. ids' = ids \/ Generate(1)
    BY DEF UpdateOrderStatus, MarkPaid, MarkShipped, CompleteOrder, OpenDispute
  <2>2. ids \in ids..MaxIds
    BY <1>0 DEF TypeOK
  <2> QED BY <1>0, <2>1, <2>2, NextId
<1>4. \A i \in Ids : /\ orders'[i] # None <=> orders[i] # None
                     /\ orders[i] # None => orders'[i].seller = orders[i].seller
  <2>1. CASE \E status \in Status : Set(o, status)
    BY <1>0, <1>2, <2>1, SetSeller
  <2>2. CASE MarkPaid(o)
    <3> DEFINE paid == [[orders[o] EXCEPT !.status = "paid"] EXCEPT !.escrow = ids + 1]
    <3>1. orders[o] \in Order /\ ids + 1 \in Ids
      BY <1>0, <1>2, <2>2, OrderAt, NextId DEF MarkPaid
    <3>2. paid \in Order /\ paid.seller = orders[o].seller
      BY <3>1 DEF Order, Status
    <3>3. orders' = [orders EXCEPT ![o] = paid]
      BY <2>2 DEF MarkPaid
    <3> HIDE DEF paid
    <3> QED BY <1>0, <1>2, <3>2, <3>3 DEF TypeOK
  <2>3. MarkPaid(o) \/ \E status \in Status : Set(o, status)
    BY DEF UpdateOrderStatus, MarkShipped, CompleteOrder, OpenDispute, Status
  <2> QED BY <2>1, <2>2, <2>3
<1> QED BY <1>1, <1>2, <1>3, <1>4, SameMaps

LEMMA ResolveMaps ==
  ASSUME MapsInv, NEW d \in Ids, NEW resolution \in {"refund", "release", "split"},
         ResolveDispute(d, resolution)
  PROVE  MapsInv'
<1>0. OrdersInv /\ TypeOK
  BY DEF MapsInv, OrdersInv
<1>1. OrdersInv'
  BY <1>0, ResolveStep
<1>2. /\ ~Locked /\ ids' \in ids..MaxIds
      /\ UNCHANGED <<op, myOrders, sellerOrders, conversations, reviews,
                     sellerReviews, profile, saver, crashes>>
  BY <1>0 DEF ResolveDispute, TypeOK
<1>3. disputes[d].order \in Ids
  BY <1>0 DEF ResolveDispute, TypeOK, Dispute
<1>4. \/ orders' = orders
      \/ /\ orders[disputes[d].order] # None
         /\ \E status \in Status : Set(disputes[d].order, status)
  BY DEF ResolveDispute, Status
<1>5. \A i \in Ids : /\ orders'[i] # None <=> orders[i] # None
                     /\ orders[i] # None => orders'[i].seller = orders[i].seller
  BY <1>0, <1>3, <1>4, SetSeller
<1> QED BY <1>1, <1>2, <1>5, SameMaps

\* A second conversation about an order with its seller is not begun.
LEMMA MessageMaps ==
  ASSUME MapsInv, NEW p \in Parties, NEW l \in Listings \cup {None},
         NEW o \in {NoId} \cup {i \in Ids : orders[i] # None}, SendMessage(p, o, l)
  PROVE  MapsInv'
<1>0. OrdersInv /\ TypeOK /\ Used(orders) /\ MapsUsed
  BY DEF MapsInv, OrdersInv
<1>1. OrdersInv'
  BY <1>0, MessageStep
<1>2. /\ ~Locked
      /\ UNCHANGED <<op, orders, myOrders, sellerOrders, reviews, sellerReviews,
                     profile, saver, crashes>>
  BY DEF SendMessage
<1>3. CASE Matching(p, o, l) # {}
  <2>1. ids' = ids /\ conversations' = conversations
    BY <1>3 DEF SendMessage
  <2>2. ids' \in ids..MaxIds
    BY <1>0, <2>1 DEF TypeOK
  <2> QED BY <1>1, <1>2, <2>1, <2>2, SameMaps
<1>4. CASE Matching(p, o, l) = {}
  <2> DEFINE new == [with |-> p, order |-> o, listing |-> l]
  <2>1. /\ ids + 1 \in Ids /\ ids' \in ids..MaxIds /\ ids + 1 <= ids'
        /\ conversations' = [conversations EXCEPT ![ids + 1] = new]
    BY <1>0, <1>4, NextId DEF SendMessage
  <2>2. new \in Conversation /\ new # None /\ new.order = o /\ new.with = p
    BY DEF Conversation
  <2> HIDE DEF new
  <2>3. conversations[ids + 1] = None
    BY <1>0, <2>1, IdsFacts DEF MapsUsed, Used, TypeOK
  <2>4. /\ conversations'[ids + 1] = new
        /\ \A c \in Ids : c # ids + 1 => conversations'[c] = conversations[c]
    BY <1>0, <2>1 DEF TypeOK
  <2>5. /\ op = Free /\ op' = Free
        /\ ~Ordering /\ ~Reviewing /\ op.at # "conversations" /\ op.id \notin Ids
    BY <1>2, IdsFacts DEF Locked, Free, Ordering, Reviewing
  <2>6. MapsUsed'
    <3>1. Used(reviews)' /\ Used(sellerReviews)'
      BY <1>2, <2>1, SameUsed
    <3>2. /\ \A i \in Ids : i <= ids => i <= ids'
          /\ \A i \in Nat : i <= ids => i <= ids'
      BY <1>2, <2>1, UsedLater
    <3>3. Used(conversations)'
      BY <1>0, <2>1, <2>4, <3>2 DEF MapsUsed, Used
    <3>4. o \in Nat /\ o <= ids
      BY <1>0, IdsFacts DEF Used, NoId, TypeOK
    <3>5. \A c \in Ids : conversations[c] # None => conversations[c].order \in Nat
      <4>1. conversations \in [Ids -> Conversation \cup {None}] /\ Ids \subseteq Nat
        BY <1>0, IdsFacts DEF TypeOK
      <4> QED BY <4>1 DEF Conversation, NoId
    <3>6. OrderUsed(conversations)'
      BY <1>0, <2>2, <2>4, <3>2, <3>4, <3>5 DEF MapsUsed, OrderUsed
    <3> QED BY <1>2, <2>1, <3>1, <3>3, <3>6, UsedLater DEF MapsUsed
  <2>7. OpEntered'
    BY <2>5 DEF OpEntered, Ordering, Reviewing, Free
  <2>8. \A k \in Ids, s \in Parties :
          (\E c \in Ids : Threads(conversations, k, s) = {c})
            => (\E c \in Ids : Threads(conversations', k, s) = {c})
    <3> SUFFICES ASSUME NEW k \in Ids, NEW s \in Parties, NEW c \in Ids,
                        Threads(conversations, k, s) = {c}
                 PROVE  Threads(conversations', k, s) = {c}
      OBVIOUS
    <3>1. conversations[c] # None /\ conversations[c].order = k /\ conversations[c].with = s
      BY DEF Threads
    <3>2. ~(k = o /\ s = p)
      BY <1>4, <3>1, IdsFacts DEF Matching
    <3>3. \A d \in Ids : d \in Threads(conversations', k, s) <=> d \in Threads(conversations, k, s)
      BY <2>2, <2>3, <2>4, <3>2 DEF Threads
    <3> QED BY <3>3 DEF Threads
  <2>9. Kept
    BY <1>0, <1>2, <2>8 DEF Kept, TypeOK
  <2>10. InProgress /\ Tallied
    BY <1>2, <2>5 DEF InProgress, Tallied, CountedNow, Counted
  <2> QED BY <1>1, <1>2, <2>6, <2>7, <2>9, <2>10, OperationStep
<1> QED BY <1>3, <1>4

\* A review of a listing is about no purchase.
LEMMA ReviewMaps ==
  ASSUME MapsInv, NEW l \in Listings, AddReview(l)
  PROVE  MapsInv'
<1>0. OrdersInv /\ TypeOK /\ MapsUsed
  BY DEF MapsInv, OrdersInv
<1>1. OrdersInv'
  BY <1>0, ReviewStep
<1> DEFINE new == [order |-> NoId, listing |-> l, seller |-> None]
<1>2. /\ ~Locked /\ ids + 1 \in Ids /\ ids' \in ids..MaxIds /\ ids + 1 <= ids'
      /\ reviews' = [reviews EXCEPT ![ids + 1] = new]
      /\ UNCHANGED <<op, orders, myOrders, sellerOrders, conversations,
                     sellerReviews, profile, saver, crashes>>
  BY <1>0, NextId DEF AddReview
<1>3. new.order = NoId
  OBVIOUS
<1> HIDE DEF new
<1>4. /\ reviews'[ids + 1] = new
      /\ \A r \in Ids : r # ids + 1 => reviews'[r] = reviews[r]
  BY <1>0, <1>2 DEF TypeOK
<1>5. /\ op = Free /\ op' = Free /\ op.id \notin Ids
      /\ ~Ordering /\ ~Reviewing /\ op.at # "conversations"
  BY <1>2, IdsFacts DEF Locked, Free, Ordering, Reviewing
<1>6. MapsUsed'
  <2>1. Used(reviews)'
    BY <1>0, <1>2, <1>4, UsedLater DEF MapsUsed, Used
  <2> QED BY <1>2, <2>1, UsedLater, SameUsed DEF MapsUsed
<1>7. OpEntered'
  BY <1>5 DEF OpEntered, Ordering, Reviewing, Free
<1>8. Kept
  BY <1>0, <1>2 DEF Kept, TypeOK
<1>9. InProgress /\ Tallied
  BY <1>2, <1>3, <1>4, <1>5 DEF InProgress, Tallied, CountedNow, Counted
<1> QED BY <1>1, <1>2, <1>6, <1>7, <1>8, <1>9, OperationStep

-----------------------------------------------------------------------------
(* An order is entered. *)

\* Nothing is kept yet under the identifiers that come next.
LEMMA CreateMaps ==
  ASSUME MapsInv, NEW l \in Listings, CreateOrder(l, 1)
  PROVE  MapsInv'
<1>0. OrdersInv /\ TypeOK /\ MapsUsed /\ Used(orders)
  BY DEF MapsInv, OrdersInv
<1>1. OrdersInv'
  BY <1>0, CreateStep
<1> DEFINE new == [listing |-> l, seller |-> SellerOf[l], status |-> "pending",
                   escrow |-> NoId]
<1>2. /\ ~Locked /\ ids + 1 \in Ids /\ ids + 2 \in Ids /\ ids' \in ids..MaxIds
      /\ ids' = ids + 2
      /\ orders' = [orders EXCEPT ![ids + 1] = new]
      /\ op' = [at |-> "myOrders", id |-> ids + 1]
      /\ UNCHANGED <<myOrders, sellerOrders, conversations, reviews,
                     sellerReviews, profile, saver, crashes>>
  BY <1>0, NextId DEF CreateOrder, Generate
<1> HIDE DEF new
<1>3. \A o \in Ids : o # ids + 1 => orders'[o] = orders[o]
  BY <1>0, <1>2 DEF TypeOK
<1>4. /\ ~(ids + 1 <= ids) /\ ~(ids + 2 <= ids) /\ (ids + 1) + 1 = ids + 2
  BY <1>0 DEF TypeOK
<1>5. /\ orders[ids + 1] = None /\ reviews[ids + 1] = None
      /\ sellerReviews[ids + 1] = None /\ conversations[ids + 2] = None
      /\ \A c \in Ids : conversations[c] # None => conversations[c].order # ids + 1
  BY <1>0, <1>2, <1>4 DEF MapsUsed, Used, OrderUsed
<1>6. op = Free /\ op.id \notin Ids
  BY <1>2, IdsFacts DEF Locked, Free
<1>7. MapsUsed'
  BY <1>2, UsedLater, SameUsed DEF MapsUsed
<1>8. OpEntered'
  BY <1>2, <1>4, <1>5 DEF OpEntered, Ordering, Reviewing
<1>9. Kept
  BY <1>0, <1>2, <1>3, <1>5 DEF Kept, TypeOK
<1>10. InProgress
  BY <1>2, <1>3, <1>6 DEF InProgress
<1>11. Tallied
  BY <1>2, <1>5, <1>6, IdsFacts DEF Tallied, CountedNow, Counted, Free
<1> QED BY <1>1, <1>2, <1>7, <1>8, <1>9, <1>10, <1>11, OperationStep

LEMMA EnterMaps ==
  ASSUME MapsInv, EnterMyOrders \/ EnterSellerOrders
  PROVE  MapsInv'
<1>0. OrdersInv /\ TypeOK /\ MapsUsed /\ OpEntered /\ OpFits
  BY DEF MapsInv, OrdersInv
<1>1. OrdersInv'
  BY <1>0, EnterStep
<1>2. /\ Ordering /\ op.id \in Ids /\ orders[op.id] # None
      /\ orders[op.id].seller \in Parties
  BY <1>0, OrderAt DEF EnterMyOrders, EnterSellerOrders, Ordering, OpFits
<1>3. /\ op' = [at |-> IF op.at = "myOrders" THEN "sellerOrders" ELSE "conversations",
                id |-> op.id]
      /\ op.at \in {"myOrders", "sellerOrders"}
      /\ UNCHANGED <<orders, conversations, reviews, sellerReviews, profile, ids,
                     saver, crashes>>
  BY <1>0 DEF EnterMyOrders, EnterSellerOrders, Then, TypeOK
<1>4. /\ myOrders \subseteq myOrders'
      /\ \A s \in Parties : sellerOrders[s] \subseteq sellerOrders'[s]
  BY <1>0, <1>2 DEF EnterMyOrders, EnterSellerOrders, TypeOK
<1>5. /\ op.id \in myOrders'
      /\ op.at = "sellerOrders" => op.id \in sellerOrders'[orders[op.id].seller]
  BY <1>0, <1>2 DEF EnterMyOrders, EnterSellerOrders, OpEntered, TypeOK
<1>6. ids' \in ids..MaxIds
  BY <1>0, <1>3 DEF TypeOK
<1>7. MapsUsed'
  BY <1>3, <1>6, UsedLater, SameUsed DEF MapsUsed
<1>8. OpEntered'
  BY <1>0, <1>2, <1>3, <1>5 DEF OpEntered, Ordering, Reviewing
<1>9. Kept
  BY <1>0, <1>3, <1>4 DEF Kept, TypeOK
<1>10. InProgress /\ Tallied
  BY <1>3 DEF InProgress, Tallied, CountedNow, Counted
<1> QED BY <1>1, <1>3, <1>7, <1>8, <1>9, <1>10, OperationStep

\* The conversation is the only one about the order with its seller.
LEMMA ConversationMaps ==
  ASSUME MapsInv, createOrderConversation
  PROVE  MapsInv'
<1>0. OrdersInv /\ TypeOK /\ MapsUsed /\ OpEntered /\ OpFits
  BY DEF MapsInv, OrdersInv
<1>1. OrdersInv'
  BY <1>0, EnterStep
<1> DEFINE new == [with |-> orders[op.id].seller, order |-> op.id,
                   listing |-> orders[op.id].listing]
<1>2. /\ op.at = "conversations" /\ op.id \in Ids /\ op.id + 1 \in Ids
      /\ orders[op.id] # None
  BY <1>0 DEF createOrderConversation, OpFits
<1>3. /\ orders[op.id].seller \in Parties /\ orders[op.id].listing \in Listings
  BY <1>0, <1>2, OrderAt
<1>4. /\ conversations' = [conversations EXCEPT ![op.id + 1] = new]
      /\ op' = Free
      /\ UNCHANGED <<orders, myOrders, sellerOrders, reviews, sellerReviews,
                     profile, ids, saver, crashes>>
  BY DEF createOrderConversation
<1>5. new \in Conversation /\ new.with = orders[op.id].seller /\ new.order = op.id
  BY <1>2, <1>3 DEF Conversation
<1> HIDE DEF new
<1>6. /\ conversations'[op.id + 1] = new /\ new # None
      /\ \A c \in Ids : c # op.id + 1 => conversations'[c] = conversations[c]
  BY <1>0, <1>2, <1>4, <1>5 DEF TypeOK
<1>7. /\ reviews[op.id] = None /\ sellerReviews[op.id] = None
      /\ conversations[op.id + 1] = None
      /\ \A c \in Ids : conversations[c] # None => conversations[c].order # op.id
      /\ op.id \in myOrders /\ op.id \in sellerOrders[orders[op.id].seller]
  BY <1>0, <1>2 DEF OpEntered, Ordering
<1>8. ids' \in ids..MaxIds
  BY <1>0, <1>4 DEF TypeOK
<1>9. MapsUsed'
  <2>1. Used(reviews)' /\ Used(sellerReviews)'
    BY <1>4, <1>8, SameUsed
  <2>2. ids' = ids
    BY <1>4
  <2>3. op.id <= ids
    BY <1>0, <1>2 DEF OrdersInv, Used
  <2>4. OrderUsed(conversations)'
    BY <1>0, <1>5, <1>6, <2>2, <2>3 DEF MapsUsed, OrderUsed
  <2>5. Used(conversations)'
    <3>1. op.id + 1 <= ids
      BY <1>0, <1>2 DEF OpEntered, Ordering
    <3> QED BY <1>0, <1>6, <2>2, <3>1 DEF MapsUsed, Used
  <2> QED BY <1>4, <1>8, <2>1, <2>4, <2>5, UsedLater DEF MapsUsed
<1>10. OpEntered'
  BY <1>4 DEF OpEntered, Ordering, Reviewing, Free
<1>11. \A k \in Ids, s \in Parties :
         (\E c \in Ids : Threads(conversations, k, s) = {c})
           => (\E c \in Ids : Threads(conversations', k, s) = {c})
  <2> SUFFICES ASSUME NEW k \in Ids, NEW s \in Parties, NEW c \in Ids,
                      Threads(conversations, k, s) = {c}
               PROVE  Threads(conversations', k, s) = {c}
    OBVIOUS
  <2>1. conversations[c] # None /\ conversations[c].order = k
    BY DEF Threads
  <2>2. k # op.id
    BY <1>7, <2>1
  <2>3. \A d \in Ids : d \in Threads(conversations', k, s) <=> d \in Threads(conversations, k, s)
    BY <1>5, <1>6, <1>7, <2>2 DEF Threads
  <2> QED BY <2>3 DEF Threads
<1>12. Kept
  <2>1. profile <= profile'
    BY <1>0, <1>4 DEF TypeOK
  <2> QED BY <1>4, <1>11, <2>1 DEF Kept
<1>13. Threads(conversations', op.id, orders[op.id].seller) = {op.id + 1}
  BY <1>2, <1>5, <1>6, <1>7 DEF Threads
<1>14. /\ op.id \notin Astray(orders', myOrders', sellerOrders', conversations')
       /\ op.id \notin Unfiled(orders', reviews', sellerReviews')
  BY <1>2, <1>4, <1>7, <1>13 DEF Astray, Unfiled
<1>15. InProgress
  BY <1>4, <1>14 DEF InProgress
<1>16. Tallied
  BY <1>4, <1>7 DEF Tallied, CountedNow, Counted
<1> QED BY <1>1, <1>4, <1>9, <1>10, <1>12, <1>15, <1>16, OperationStep

-----------------------------------------------------------------------------
(* A review of a purchase is entered. *)

LEMMA DetailedMaps ==
  ASSUME MapsInv, NEW o \in Ids, AddDetailedReview(o)
  PROVE  MapsInv'
<1>0. OrdersInv /\ TypeOK /\ MapsUsed /\ Used(orders)
  BY DEF MapsInv, OrdersInv
<1>1. OrdersInv'
  BY <1>0, DetailedStep
<1> DEFINE new == [order |-> o, listing |-> orders[o].listing,
                   seller |-> orders[o].seller]
<1>2. /\ ~Locked /\ ids + 1 \in Ids /\ ids' \in ids..MaxIds /\ ids + 1 <= ids'
      /\ orders[o] # None
      /\ reviews' = [reviews EXCEPT ![ids + 1] = new]
      /\ op' = [at |-> "sellerReviews", id |-> ids + 1]
      /\ UNCHANGED <<orders, myOrders, sellerOrders, conversations,
                     sellerReviews, profile, saver, crashes>>
  BY <1>0, NextId DEF AddDetailedReview
<1>3. new.order = o
  OBVIOUS
<1> HIDE DEF new
<1>4. /\ reviews'[ids + 1] = new
      /\ \A r \in Ids : r # ids + 1 => reviews'[r] = reviews[r]
  BY <1>0, <1>2 DEF TypeOK
<1>5. ~(ids + 1 <= ids)
  BY <1>0 DEF TypeOK
<1>6. orders[ids + 1] = None /\ sellerReviews[ids + 1] = None
  BY <1>0, <1>2, <1>5 DEF MapsUsed, Used
<1>7. op = Free /\ op.id \notin Ids
  BY <1>2, IdsFacts DEF Locked, Free
<1>8. MapsUsed'
  <2>1. Used(reviews)'
    BY <1>0, <1>2, <1>4, UsedLater DEF MapsUsed, Used
  <2> QED BY <1>2, <2>1, UsedLater, SameUsed DEF MapsUsed
<1>9. OpEntered'
  BY <1>2, <1>3, <1>4, <1>6 DEF OpEntered, Ordering, Reviewing
<1>10. Kept
  <2>1. profile <= profile'
    BY <1>0, <1>2 DEF TypeOK
  <2> QED BY <1>2, <2>1 DEF Kept
<1>11. InProgress
  BY <1>2, <1>4, <1>7 DEF InProgress
<1>12. Tallied
  BY <1>2, <1>6, <1>7, IdsFacts DEF Tallied, CountedNow, Counted
<1> QED BY <1>1, <1>2, <1>8, <1>9, <1>10, <1>11, <1>12, OperationStep

\* The review in progress is not counted before its operation is over.
LEMMA SellerReviewMaps ==
  ASSUME MapsInv, EnterSellerReviews
  PROVE  MapsInv'
<1>0. OrdersInv /\ TypeOK /\ MapsUsed /\ OpEntered /\ OpFits
  BY DEF MapsInv, OrdersInv
<1>1. OrdersInv'
  BY <1>0, EnterStep
<1>2. /\ op.at = "sellerReviews" /\ op.id \in Ids /\ reviews[op.id] # None
      /\ sellerReviews' = [sellerReviews EXCEPT ![op.id] = reviews[op.id]]
      /\ op' = [at |-> "profile", id |-> op.id]
      /\ UNCHANGED <<orders, myOrders, sellerOrders, conversations, reviews,
                     profile, ids, saver, crashes>>
  BY <1>0 DEF EnterSellerReviews, Then, OpFits, TypeOK
<1>3. /\ sellerReviews'[op.id] = reviews[op.id]
      /\ \A r \in Ids : r # op.id => sellerReviews'[r] = sellerReviews[r]
  BY <1>0, <1>2 DEF TypeOK
<1>4. ids' = ids /\ ids' \in ids..MaxIds
  BY <1>0, <1>2 DEF TypeOK
<1>5. MapsUsed'
  <2>1. Used(sellerReviews)'
    BY <1>0, <1>2, <1>3, <1>4 DEF MapsUsed, Used
  <2> QED BY <1>2, <1>4, <2>1, UsedLater, SameUsed DEF MapsUsed
<1>6. OpEntered'
  BY <1>0, <1>2, <1>3 DEF OpEntered, Ordering, Reviewing
<1>7. Kept
  <2>1. profile <= profile'
    BY <1>0, <1>2 DEF TypeOK
  <2> QED BY <1>2, <1>3, <2>1 DEF Kept
<1>8. InProgress
  BY <1>2 DEF InProgress
<1>9. Tallied
  BY <1>2, <1>3 DEF Tallied, CountedNow, Counted
<1> QED BY <1>1, <1>2, <1>5, <1>6, <1>7, <1>8, <1>9, OperationStep

LEMMA CountMaps ==
  ASSUME MapsInv, CountReview
  PROVE  MapsInv'
<1>0. OrdersInv /\ TypeOK /\ MapsUsed /\ OpEntered /\ OpFits
  BY DEF MapsInv, OrdersInv
<1>1. OrdersInv'
  BY <1>0, EnterStep
<1>2. /\ op.at = "profile" /\ op.id \in Ids /\ reviews[op.id] # None
      /\ profile' = IF reviews[op.id].seller = Local THEN profile + 1 ELSE profile
      /\ op' = Free
      /\ UNCHANGED <<orders, myOrders, sellerOrders, conversations, reviews,
                     sellerReviews, ids, saver, crashes>>
  BY <1>0 DEF CountReview, OpFits
<1>3. /\ orders[op.id] = None /\ sellerReviews[op.id] = reviews[op.id]
      /\ orders[reviews[op.id].order] # None
  BY <1>0, <1>2 DEF OpEntered, Reviewing
<1>4. ids' \in ids..MaxIds
  BY <1>0, <1>2 DEF TypeOK
<1>5. MapsUsed'
  BY <1>2, <1>4, UsedLater, SameUsed DEF MapsUsed
<1>6. OpEntered'
  BY <1>2 DEF OpEntered, Ordering, Reviewing, Free
<1>7. Kept
  <2>1. profile <= profile'
    BY <1>0, <1>2 DEF TypeOK
  <2> QED BY <1>2, <2>1 DEF Kept
<1>8. /\ op.id \notin Astray(orders', myOrders', sellerOrders', conversations')
      /\ op.id \notin Unfiled(orders', reviews', sellerReviews')
  BY <1>2, <1>3 DEF Astray, Unfiled
<1>9. InProgress
  BY <1>2, <1>8 DEF InProgress
<1>10. Tallied
  <2>1. CASE reviews[op.id].seller = Local
    BY <1>2, <2>1 DEF Tallied, CountedNow, Counted
  <2>2. CASE reviews[op.id].seller # Local
    BY <1>2, <1>3, <2>2 DEF Tallied, CountedNow, Counted
  <2> QED BY <2>1, <2>2
<1> QED BY <1>1, <1>2, <1>5, <1>6, <1>7, <1>9, <1>10, OperationStep

-----------------------------------------------------------------------------
(* The saver. *)

\* While the maps stay as they are, so does what is said of them.
LEMMA QuietMaps ==
  ASSUME MapsInv, UNCHANGED <<tables, op, ids, crashes>>
  PROVE  /\ OpEntered'
         /\ Used(reviews)' /\ Used(sellerReviews)' /\ Used(conversations)'
         /\ OrderUsed(conversations)'
         /\ file' = file => OrdersIndexed' /\ ReviewsFiled'
<1>1. OpEntered'
  BY DEF MapsInv, OpEntered, Ordering, Reviewing, tables
<1>2. /\ Used(reviews)' /\ Used(sellerReviews)' /\ Used(conversations)'
      /\ OrderUsed(conversations)'
  BY DEF MapsInv, MapsUsed, Used, OrderUsed, tables
<1>3. file' = file => OrdersIndexed' /\ ReviewsFiled'
  BY DEF MapsInv, OrdersIndexed, ReviewsFiled, tables
<1> QED BY <1>1, <1>2, <1>3

\* An encoder that has not begun holds nothing.
LEMMA BlankUsed ==
  ASSUME NEW d, d.reviews = Nothing, d.sellerReviews = Nothing,
         d.conversations = Nothing
  PROVE  /\ Used(d.reviews) /\ Used(d.sellerReviews) /\ Used(d.conversations)
         /\ OrderUsed(d.conversations)
  BY NothingFits DEF Used, OrderUsed

LEMMA BlankFields ==
  /\ Blank.reviews = Nothing /\ Blank.sellerReviews = Nothing
  /\ Blank.conversations = Nothing
  BY DEF Blank

LEMMA BeginMaps == ASSUME MapsInv, BeginSave PROVE MapsInv'
<1>1. OrdersInv'
  BY BeginStep DEF MapsInv
<1>2. UNCHANGED <<tables, op, ids, crashes>> /\ file' = file /\ saving' = "reviews"
  BY DEF BeginSave
<1>3. /\ out'.reviews = Nothing /\ out'.sellerReviews = Nothing
      /\ out'.conversations = Nothing
  BY DEF BeginSave, Blank
<1>4. /\ Used(out'.reviews) /\ Used(out'.sellerReviews) /\ Used(out'.conversations)
      /\ OrderUsed(out'.conversations)
  BY <1>3, BlankUsed
<1>5. MapsUsed'
  BY <1>2, <1>4, QuietMaps DEF MapsInv, MapsUsed, Used, OrderUsed
<1>6. SavedMaps'
  BY <1>2 DEF SavedMaps, HasOrders, HasReviews, HasSellerReviews, HasMyOrders,
     HasSellerOrders, HasConversations
<1> QED BY <1>1, <1>2, <1>5, <1>6, QuietMaps DEF MapsInv

\* What is in memory is complete but for the one entry in progress.
LEMMA AtMostOne ==
  ASSUME MapsInv
  PROVE  /\ Cardinality(Astray(orders, myOrders, sellerOrders, conversations))
              <= crashes + 1
         /\ Cardinality(Unfiled(orders, reviews, sellerReviews)) <= crashes + 1
         /\ Cardinality(Counted(sellerReviews)) <= profile + crashes + 1
<1>0. /\ OrdersIndexed /\ ReviewsFiled /\ crashes \in Nat /\ profile \in Nat
  BY DEF MapsInv, OrdersInv, TypeOK
<1>1. Cardinality(Astray(orders, myOrders, sellerOrders, conversations)) <= crashes + 1
  <2> DEFINE S == Astray(orders, myOrders, sellerOrders, conversations)
  <2>1. S \ {op.id} \in SUBSET Ids /\ S \subseteq (S \ {op.id}) \cup {op.id}
    BY OnlyIds
  <2>2. Cardinality(S \ {op.id}) <= crashes
    BY <1>0 DEF OrdersIndexed
  <2> HIDE DEF S
  <2>3. /\ Cardinality(S) \in Nat /\ Cardinality(S \ {op.id}) \in Nat
        /\ Cardinality(S) <= Cardinality(S \ {op.id}) + 1
    BY <2>1, OneMoreId
  <2>4. Cardinality(S) <= crashes + 1
    BY <1>0, <2>2, <2>3
  <2> QED BY <2>4 DEF S
<1>2. Cardinality(Unfiled(orders, reviews, sellerReviews)) <= crashes + 1
  <2> DEFINE S == Unfiled(orders, reviews, sellerReviews)
  <2>1. S \ {op.id} \in SUBSET Ids /\ S \subseteq (S \ {op.id}) \cup {op.id}
    BY OnlyIds
  <2>2. Cardinality(S \ {op.id}) <= crashes
    BY <1>0 DEF ReviewsFiled
  <2> HIDE DEF S
  <2>3. /\ Cardinality(S) \in Nat /\ Cardinality(S \ {op.id}) \in Nat
        /\ Cardinality(S) <= Cardinality(S \ {op.id}) + 1
    BY <2>1, OneMoreId
  <2>4. Cardinality(S) <= crashes + 1
    BY <1>0, <2>2, <2>3
  <2> QED BY <2>4 DEF S
<1>3. Cardinality(Counted(sellerReviews)) <= profile + crashes + 1
  <2> DEFINE S == Counted(sellerReviews)
  <2>1. S \ {op.id} \in SUBSET Ids /\ S \subseteq (S \ {op.id}) \cup {op.id}
    BY OnlyIds
  <2>2. Cardinality(S \ {op.id}) <= profile + crashes
    BY <1>0 DEF ReviewsFiled
  <2> HIDE DEF S
  <2>3. /\ Cardinality(S) \in Nat /\ Cardinality(S \ {op.id}) \in Nat
        /\ Cardinality(S) <= Cardinality(S \ {op.id}) + 1
    BY <2>1, OneMoreId
  <2>4. Cardinality(S) <= profile + crashes + 1
    BY <1>0, <2>2, <2>3
  <2> QED BY <2>4 DEF S
<1> QED BY <1>1, <1>2, <1>3

LEMMA EncodedMaps ==
  ASSUME MapsInv, EncodeFields
  PROVE  SavedMaps'
<1>0. /\ out \in MarketData /\ SavedMaps
      /\ UNCHANGED <<tables, op, ids, crashes>>
  BY DEF MapsInv, OrdersInv, TypeOK, EncodeFields, Encode
<1> USE DEF HasOrders, HasReviews, HasSellerReviews, HasMyOrders,
            HasSellerOrders, HasConversations
<1>1. CASE Encode("reviews", reviews, "sellerReviews")
  <2>1. saving' = "sellerReviews" /\ out'.reviews = reviews
    BY <1>0, <1>1 DEF Encode, MarketData
  <2>2. UnfiledToCome' = Unfiled(orders, reviews, sellerReviews)
    BY <1>0, <2>1 DEF UnfiledToCome, OrdersToCome, FiledToCome, tables
  <2> QED BY <1>0, <2>1, <2>2, AtMostOne DEF SavedMaps
<1>2. CASE Encode("sellerReviews", sellerReviews, "orders")
  <2>1. /\ saving = "sellerReviews" /\ saving' = "orders"
        /\ out'.sellerReviews = sellerReviews /\ out'.reviews = out.reviews
    BY <1>0, <1>2 DEF Encode, MarketData
  <2>2. UnfiledToCome' = UnfiledToCome /\ ProfileToCome' = profile
    BY <1>0, <2>1 DEF UnfiledToCome, OrdersToCome, FiledToCome, ProfileToCome, tables
  <2> QED BY <1>0, <2>1, <2>2, AtMostOne DEF SavedMaps
<1>3. CASE Encode("orders", orders, "myOrders")
  <2>1. /\ saving = "orders" /\ saving' = "myOrders"
        /\ out'.orders = orders /\ out'.reviews = out.reviews
        /\ out'.sellerReviews = out.sellerReviews
    BY <1>0, <1>3 DEF Encode, MarketData
  <2>2. /\ UnfiledToCome' = UnfiledToCome /\ ProfileToCome' = ProfileToCome
        /\ AstrayToCome' = Astray(orders, myOrders, sellerOrders, conversations)
    BY <1>0, <2>1 DEF UnfiledToCome, OrdersToCome, FiledToCome, ProfileToCome,
       AstrayToCome, MineToCome, BySellerToCome, ThreadsToCome, tables
  <2> QED BY <1>0, <2>1, <2>2, AtMostOne DEF SavedMaps
<1>4. CASE \/ Encode("myOrders", myOrders, "sellerOrders")
           \/ Encode("sellerOrders", sellerOrders, "conversations")
           \/ Encode("conversations", conversations, "disputes")
           \/ Encode("disputes", disputes, "profile")
           \/ Encode("profile", profile, "done")
  <2>1. /\ HasOrders /\ HasOrders' /\ HasReviews /\ HasSellerReviews
        /\ saving # "done"
    BY <1>4 DEF Encode
  <2>2. /\ out'.orders = out.orders /\ out'.reviews = out.reviews
        /\ out'.sellerReviews = out.sellerReviews
    BY <1>0, <1>4 DEF Encode, MarketData
  <2>3. UnfiledToCome' = UnfiledToCome
    BY <2>1, <2>2 DEF UnfiledToCome, OrdersToCome, FiledToCome
  <2>4. ProfileToCome' = ProfileToCome
    BY <1>0, <1>4 DEF ProfileToCome, Encode, MarketData, tables
  <2>5. /\ MineToCome' = MineToCome /\ BySellerToCome' = BySellerToCome
        /\ ThreadsToCome' = ThreadsToCome
    BY <1>0, <1>4 DEF MineToCome, BySellerToCome, ThreadsToCome, Encode,
       MarketData, tables
  <2>6. AstrayToCome' = AstrayToCome
    BY <2>2, <2>5 DEF AstrayToCome
  <2> QED BY <1>0, <2>1, <2>2, <2>3, <2>4, <2>6 DEF SavedMaps
<1> QED BY <1>1, <1>2, <1>3, <1>4 DEF EncodeFields

\* The other parts: what is encoded was in memory, and in use.
LEMMA EncodeMaps == ASSUME MapsInv, EncodeFields PROVE MapsInv'
<1>0. /\ out \in MarketData
      /\ UNCHANGED <<tables, op, ids, crashes>> /\ file' = file
  BY DEF MapsInv, OrdersInv, TypeOK, EncodeFields, Encode
<1>1. OrdersInv'
  BY EncodeStep DEF MapsInv
<1>2. /\ out'.reviews \in {out.reviews, reviews}
      /\ out'.sellerReviews \in {out.sellerReviews, sellerReviews}
      /\ out'.conversations \in {out.conversations, conversations}
  <2>1. CASE Encode("reviews", reviews, "sellerReviews")
    BY <1>0, <2>1 DEF Encode, MarketData
  <2>2. CASE Encode("sellerReviews", sellerReviews, "orders")
    BY <1>0, <2>2 DEF Encode, MarketData
  <2>3. CASE Encode("conversations", conversations, "disputes")
    BY <1>0, <2>3 DEF Encode, MarketData
  <2>4. CASE \/ Encode("orders", orders, "myOrders")
             \/ Encode("myOrders", myOrders, "sellerOrders")
             \/ Encode("sellerOrders", sellerOrders, "conversations")
             \/ Encode("disputes", disputes, "profile")
             \/ Encode("profile", profile, "done")
    BY <1>0, <2>4 DEF Encode, MarketData
  <2> QED BY <2>1, <2>2, <2>3, <2>4 DEF EncodeFields
<1>3. MapsUsed'
  BY <1>0, <1>2, QuietMaps DEF MapsInv, MapsUsed, Used, OrderUsed
<1> QED BY <1>0, <1>1, <1>3, EncodedMaps, QuietMaps DEF MapsInv

\* The file is what SavedMaps says the encoder holds in the end.
LEMMA EndMaps == ASSUME MapsInv, EndSave PROVE MapsInv'
<1>1. OrdersInv'
  BY EndStep DEF MapsInv
<1>2. /\ saving = "done" /\ saving' = "idle" /\ file' = out /\ out' = Blank
      /\ UNCHANGED <<tables, op, ids, crashes>>
  BY DEF EndSave
<1>3. MapsUsed'
  <2>1. /\ Used(out'.reviews) /\ Used(out'.sellerReviews) /\ Used(out'.conversations)
        /\ OrderUsed(out'.conversations)
    BY <1>2, BlankFields, BlankUsed
  <2> QED BY <1>2, <2>1, QuietMaps DEF MapsInv, MapsUsed, Used, OrderUsed
<1>4. SavedMaps'
  BY <1>2 DEF SavedMaps, HasOrders, HasReviews, HasSellerReviews, HasMyOrders,
     HasSellerOrders, HasConversations
<1>5. /\ Cardinality(Astray(out.orders, out.myOrders, out.sellerOrders,
                            out.conversations)) <= crashes + 1
      /\ Cardinality(Unfiled(out.orders, out.reviews, out.sellerReviews)) <= crashes + 1
      /\ Cardinality(Counted(out.sellerReviews)) <= out.profile + crashes + 1
  BY <1>2 DEF MapsInv, SavedMaps, AstrayToCome, UnfiledToCome, OrdersToCome,
     FiledToCome, ProfileToCome, MineToCome, BySellerToCome, ThreadsToCome,
     HasOrders, HasReviews, HasSellerReviews, HasMyOrders, HasSellerOrders,
     HasConversations
<1>6. OrdersIndexed'
  BY <1>2, <1>5 DEF MapsInv, OrdersIndexed, tables
<1>7. ReviewsFiled'
  BY <1>2, <1>5 DEF MapsInv, ReviewsFiled, tables
<1> QED BY <1>1, <1>2, <1>3, <1>4, <1>6, <1>7, QuietMaps DEF MapsInv

\* The maps are those of the file, and a restart more may be short of one.
LEMMA RestartMaps == ASSUME MapsInv, Restart PROVE MapsInv'
<1>1. OrdersInv'
  BY RestartStep DEF MapsInv
<1>2. /\ saving' = "idle" /\ file' = file /\ out' = Blank /\ op' = Free
      /\ ids' = ids /\ crashes' = crashes + 1 /\ crashes \in Nat
      /\ orders' = file.orders /\ myOrders' = file.myOrders
      /\ sellerOrders' = file.sellerOrders
      /\ conversations' = file.conversations /\ reviews' = file.reviews
      /\ sellerReviews' = file.sellerReviews /\ profile' = file.profile
      /\ file.profile \in Nat
  BY DEF Restart, MapsInv, OrdersInv, TypeOK, MarketData
<1>3. MapsUsed'
  <2>1. /\ Used(out'.reviews) /\ Used(out'.sellerReviews) /\ Used(out'.conversations)
        /\ OrderUsed(out'.conversations)
    BY <1>2, BlankFields, BlankUsed
  <2> QED BY <1>2, <2>1 DEF MapsInv, MapsUsed, Used, OrderUsed
<1>4. OpEntered'
  BY <1>2 DEF OpEntered, Ordering, Reviewing, Free
<1>5. SavedMaps'
  BY <1>2 DEF SavedMaps, HasOrders, HasReviews, HasSellerReviews, HasMyOrders,
     HasSellerOrders, HasConversations
<1> DEFINE A == Astray(file.orders, file.myOrders, file.sellerOrders,
                       file.conversations)
           U == Unfiled(file.orders, file.reviews, file.sellerReviews)
           C == Counted(file.sellerReviews)
<1>6. /\ Cardinality(A) <= crashes + 1 /\ Cardinality(U) <= crashes + 1
      /\ Cardinality(C) <= file.profile + crashes + 1
  BY DEF MapsInv, OrdersIndexed, ReviewsFiled
<1>7. /\ A \in SUBSET Ids /\ A \ {NoId} \in SUBSET A
      /\ U \in SUBSET Ids /\ U \ {NoId} \in SUBSET U
      /\ C \in SUBSET Ids /\ C \ {NoId} \in SUBSET C
  BY OnlyIds
<1>8. op'.id = NoId
  BY <1>2 DEF Free
<1>9. OrdersIndexed'
  <2> HIDE DEF A
  <2>1. /\ Cardinality(A \ {NoId}) <= Cardinality(A)
        /\ Cardinality(A \ {NoId}) \in Nat /\ Cardinality(A) \in Nat
    BY <1>7, FewerIds
  <2>2. Cardinality(A \ {NoId}) <= crashes' /\ Cardinality(A) <= crashes' + 1
    BY <1>2, <1>6, <2>1
  <2> QED BY <1>2, <1>8, <2>2 DEF OrdersIndexed, A
<1>10. ReviewsFiled'
  <2> HIDE DEF U, C
  <2>1. /\ Cardinality(U \ {NoId}) <= Cardinality(U)
        /\ Cardinality(U \ {NoId}) \in Nat /\ Cardinality(U) \in Nat
    BY <1>7, FewerIds
  <2>2. /\ Cardinality(C \ {NoId}) <= Cardinality(C)
        /\ Cardinality(C \ {NoId}) \in Nat /\ Cardinality(C) \in Nat
    BY <1>7, FewerIds
  <2>3. Cardinality(U \ {NoId}) <= crashes' /\ Cardinality(U) <= crashes' + 1
    BY <1>2, <1>6, <2>1
  <2>4. /\ Cardinality(C \ {NoId}) <= file.profile + crashes'
        /\ Cardinality(C) <= file.profile + crashes' + 1
    BY <1>2, <1>6, <2>2
  <2> QED BY <1>2, <1>8, <2>3, <2>4 DEF ReviewsFiled, U, C
<1> QED BY <1>1, <1>3, <1>4, <1>5, <1>9, <1>10 DEF MapsInv
-----------------------------------------------------------------------------
LEMMA InitMaps == Init => MapsInv
<1> SUFFICES ASSUME Init PROVE MapsInv
  OBVIOUS
<1>1. /\ orders = Nothing /\ conversations = Nothing /\ reviews = Nothing
      /\ sellerReviews = Nothing /\ profile = 0 /\ op = Free /\ saving = "idle"
      /\ out = Blank /\ file = Blank /\ crashes = 0
  BY DEF Init
<1>2. Blank.orders = Nothing /\ Blank.profile = 0
  BY DEF Blank
<1>3. MapsUsed
  BY <1>1, NothingFits, BlankFields DEF MapsUsed, Used, OrderUsed
<1>4. OpEntered
  BY <1>1 DEF OpEntered, Ordering, Reviewing, Free
<1>5. SavedMaps
  BY <1>1 DEF SavedMaps, HasOrders, HasReviews, HasSellerReviews, HasMyOrders,
     HasSellerOrders, HasConversations
<1>6. /\ \A mine, bySeller, convs : Astray(Nothing, mine, bySeller, convs) = {}
      /\ \A os, srs : Unfiled(os, Nothing, srs) = {}
      /\ Counted(Nothing) = {}
  BY NothingFits DEF Astray, Unfiled, Counted
<1>7. Cardinality({}) = 0 /\ \A x : {} \ {x} = {}
  BY FS_EmptySet
<1>8. OrdersIndexed
  BY <1>1, <1>2, <1>6, <1>7 DEF OrdersIndexed
<1>9. ReviewsFiled
  BY <1>1, <1>2, <1>6, <1>7, BlankFields DEF ReviewsFiled
<1> QED BY <1>3, <1>4, <1>5, <1>8, <1>9, InitOrders DEF MapsInv

LEMMA MapsStep == MapsInv /\ [Next]_vars => MapsInv'
<1> SUFFICES ASSUME MapsInv, [Next]_vars PROVE MapsInv'
  OBVIOUS
<1>1. CASE \E l \in Listings : CreateOrder(l, 1) \/ AddReview(l)
  BY <1>1, CreateMaps, ReviewMaps
<1>2. CASE \E o \in Ids : \/ \E status \in Status : UpdateOrderStatus(o, status)
                          \/ MarkPaid(o) \/ MarkShipped(o) \/ CompleteOrder(o)
                          \/ OpenDispute(o) \/ AddDetailedReview(o)
  BY <1>2, StatusMaps, DetailedMaps
<1>3. CASE \E p \in Parties, l \in Listings \cup {None},
              o \in {NoId} \cup {i \in Ids : orders[i] # None} :
             SendMessage(p, o, l)
  BY <1>3, MessageMaps
<1>4. CASE \E d \in Ids, resolution \in {"refund", "release", "split"} :
             ResolveDispute(d, resolution)
  BY <1>4, ResolveMaps
<1>5. CASE \/ EnterMyOrders \/ EnterSellerOrders \/ createOrderConversation
           \/ EnterSellerReviews \/ CountReview
  BY <1>5, EnterMaps, ConversationMaps, SellerReviewMaps, CountMaps
<1>6. CASE BeginSave \/ EncodeFields \/ EndSave \/ Restart
  BY <1>6, BeginMaps, EncodeMaps, EndMaps, RestartMaps
<1>7. CASE UNCHANGED vars
  <2>1. UNCHANGED <<tables, op, ids, crashes>> /\ UNCHANGED saver /\ file' = file
    BY <1>7 DEF vars, saver
  <2>2. OrdersInv'
    BY OrdersStep DEF MapsInv
  <2>3. MapsUsed'
    BY <2>1, QuietMaps DEF MapsInv, MapsUsed, Used, OrderUsed, saver
  <2>4. SavedMaps'
    BY <2>1 DEF MapsInv, SavedMaps, AstrayToCome, UnfiledToCome, OrdersToCome,
       FiledToCome, ProfileToCome, MineToCome, BySellerToCome, ThreadsToCome,
       HasOrders, HasReviews, HasSellerReviews, HasMyOrders, HasSellerOrders,
       HasConversations, tables, saver
  <2> QED BY <2>1, <2>2, <2>3, <2>4, QuietMaps DEF MapsInv
<1> QED BY <1>1, <1>2, <1>3, <1>4, <1>5, <1>6, <1>7 DEF Next

LEMMA MapsInvariant == Spec => []MapsInv
<1>1. QED
  BY InitMaps, MapsStep, PTL DEF Spec

\* However orders, messages, saves and restarts interleave, no more orders are
\* missing from a list or without their one conversation than there were
\* restarts; in the file it is one more.
THEOREM MapsAgree == Spec => []OrdersIndexed
<1>1. MapsInv => OrdersIndexed
  BY DEF MapsInv
<1>2. QED
  BY <1>1, MapsInvariant, PTL

\* Likewise for the reviews of purchases, which a listing, a seller and the
\* profile of the local user count.
THEOREM ReviewsAgree == Spec => []ReviewsFiled
<1>1. MapsInv => ReviewsFiled
  BY DEF MapsInv
<1>2. QED
  BY <1>1, MapsInvariant, PTL
=============================================================================
