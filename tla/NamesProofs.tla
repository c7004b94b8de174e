----------------------------- MODULE NamesProofs -----------------------------
(***************************************************************************)
(* For any set of nodes and domains, with imports and transfers or without *)
(* them: the registrations are well formed, a registration is listed for   *)
(* its owner, a node never goes back to an older one, nodes that heard the *)
(* same of an undisputed name answer alike, and a name lasts its term.     *)
(***************************************************************************)
EXTENDS Names, TLAPS

\* Nothing in a table or on the network carries a time that is still to come.
Stamped ==
  /\ \A n \in Nodes, d \in Domains : Has(n, d) => names[n][d].updated <= now
  /\ \A msg \in sent : msg.reg.updated <= now

NamesInv == TypeOK /\ OwnedIsListed /\ Stamped

\* A registration in a table has the fields of one.
LEMMA RegOf ==
  ASSUME TypeOK, NEW n \in Nodes, NEW d \in Domains, Has(n, d)
  PROVE  /\ names[n][d] \in Registration
         /\ names[n][d].owner \in Nodes
         /\ names[n][d].updated \in Nat /\ names[n][d].expires \in Nat
  BY DEF TypeOK, Has, Registration

LEMMA InitNames == Init => NamesInv
  BY NamesAssumption
  DEF Init, NamesInv, TypeOK, OwnedIsListed, Stamped, Has, Message

\* What Put does to the tables.
LEMMA PutStep ==
  ASSUME TypeOK, NEW n \in Nodes, NEW d \in Domains,
         NEW reg \in Registration, Put(n, d, reg)
  PROVE  /\ names' \in [Nodes -> [Domains -> Registration \cup {NoReg}]]
         /\ names'[n][d] = reg
         /\ \A k \in Nodes, e \in Domains :
              (k # n \/ e # d) => names'[k][e] = names[k][e]
  BY DEF Put, TypeOK

\* An entry more makes no list shorter.
LEMMA ListStep ==
  ASSUME TypeOK, NEW n \in Nodes, NEW o \in Nodes, NEW d \in Domains,
         listed' = List(n, o, d)
  PROVE  /\ listed' \in [Nodes -> [Nodes -> [Domains -> Nat]]]
         /\ listed'[n][o][d] > 0
         /\ \A k \in Nodes, q \in Nodes, e \in Domains :
              listed'[k][q][e] >= listed[k][q][e]
<1>1. /\ \A k \in Nodes, q \in Nodes : listed[k][q] \in [Domains -> Nat]
      /\ \A k \in Nodes : listed[k] \in [Nodes -> [Domains -> Nat]]
      /\ listed \in [Nodes -> [Nodes -> [Domains -> Nat]]]
  BY DEF TypeOK
<1> DEFINE row == [listed[n][o] EXCEPT ![d] = listed[n][o][d] + 1]
           table == [listed[n] EXCEPT ![o] = row]
<1>2. /\ row \in [Domains -> Nat]
      /\ row[d] = listed[n][o][d] + 1
      /\ \A e \in Domains : row[e] >= listed[n][o][e]
  BY <1>1
<1> HIDE DEF row
<1>3. /\ table \in [Nodes -> [Domains -> Nat]]
      /\ table[o] = row
      /\ \A q \in Nodes : q # o => table[q] = listed[n][q]
  BY <1>1, <1>2
<1>4. listed' = [listed EXCEPT ![n] = table]
  BY DEF List, row
<1> HIDE DEF table
<1>5. /\ listed' \in [Nodes -> [Nodes -> [Domains -> Nat]]]
      /\ listed'[n] = table
      /\ \A k \in Nodes : k # n => listed'[k] = listed[k]
  BY <1>1, <1>3, <1>4
<1>6. ASSUME NEW k \in Nodes, NEW q \in Nodes, NEW e \in Domains
      PROVE  listed'[k][q][e] >= listed[k][q][e]
  <2>1. listed[k][q][e] \in Nat
    BY <1>1
  <2>2. CASE k = n /\ q = o
    BY <1>2, <1>3, <1>5, <2>1, <2>2
  <2>3. CASE k # n \/ q # o
    BY <1>3, <1>5, <2>1, <2>3
  <2>4. QED BY <2>2, <2>3
<1>7. listed'[n][o][d] > 0
  BY <1>1, <1>2, <1>3, <1>5
<1>8. QED BY <1>5, <1>6, <1>7

\* A list that grew covers the new registration and all that were covered.
LEMMA StoreStep ==
  ASSUME TypeOK, OwnedIsListed, NEW n \in Nodes, NEW d \in Domains,
         NEW reg \in Registration, Store(n, d, reg)
  PROVE  /\ listed' \in [Nodes -> [Nodes -> [Domains -> Nat]]]
         /\ OwnedIsListed'
<1>1. reg.owner \in Nodes
  BY DEF Registration
<1>2. /\ names'[n][d] = reg
      /\ \A k \in Nodes, e \in Domains :
           (k # n \/ e # d) => names'[k][e] = names[k][e]
  BY PutStep DEF Store
<1>3. /\ listed' \in [Nodes -> [Nodes -> [Domains -> Nat]]]
      /\ listed'[n][reg.owner][d] > 0
      /\ \A k \in Nodes, q \in Nodes, e \in Domains :
           listed'[k][q][e] >= listed[k][q][e]
  BY <1>1, ListStep DEF Store
<1>4. ASSUME NEW k \in Nodes, NEW e \in Domains, Has(k, e)'
      PROVE  listed'[k][names'[k][e].owner][e] > 0
  <2>1. CASE k = n /\ e = d
    BY <1>2, <1>3, <2>1
  <2>2. CASE k # n \/ e # d
    <3>1. names'[k][e] = names[k][e] /\ Has(k, e)
      BY <1>2, <1>4, <2>2 DEF Has
    <3>2. names[k][e].owner \in Nodes
      BY <3>1, RegOf
    <3>3. listed[k][names[k][e].owner][e] > 0
      BY <3>1 DEF OwnedIsListed
    <3>4. /\ listed[k][names[k][e].owner][e] \in Nat
          /\ listed'[k][names[k][e].owner][e] \in Nat
      BY <1>3, <3>2 DEF TypeOK
    <3>5. listed'[k][names[k][e].owner][e] >= listed[k][names[k][e].owner][e]
      BY <1>3, <3>2
    <3>6. listed'[k][names[k][e].owner][e] > 0
      BY <3>3, <3>4, <3>5
    <3>7. QED BY <3>1, <3>6
  <2>3. QED BY <2>1, <2>2
<1>5. OwnedIsListed'
  BY <1>4 DEF OwnedIsListed
<1>6. QED BY <1>3, <1>5

\* Tables and network after the step, and what became newer in it.
TablesStamped ==
  \A n \in Nodes, d \in Domains : Has(n, d) => names[n][d].updated <= now

NotOlder ==
  \A n \in Nodes, d \in Domains :
    (Has(n, d) /\ Has(n, d)') => names'[n][d].updated >= names[n][d].updated

\* A registration that is not older than the one it replaces.
LEMMA PutNewer ==
  ASSUME TypeOK, TablesStamped, NEW n \in Nodes, NEW d \in Domains,
         NEW reg \in Registration, Put(n, d, reg),
         now' \in Nat, now <= now', reg.updated <= now,
         Has(n, d) => names[n][d].updated <= reg.updated
  PROVE  TablesStamped' /\ NotOlder
<1>1. /\ names'[n][d] = reg
      /\ \A k \in Nodes, e \in Domains :
           (k # n \/ e # d) => names'[k][e] = names[k][e]
  BY PutStep
<1>2. reg.updated \in Nat
  BY DEF Registration
<1>3. ASSUME NEW k \in Nodes, NEW e \in Domains, Has(k, e)'
      PROVE  names'[k][e].updated <= now'
  <2>1. CASE k = n /\ e = d
    BY <1>1, <1>2, <2>1 DEF TypeOK
  <2>2. CASE k # n \/ e # d
    <3>1. names'[k][e] = names[k][e] /\ Has(k, e)
      BY <1>1, <1>3, <2>2 DEF Has
    <3>2. names[k][e].updated \in Nat /\ names[k][e].updated <= now
      BY <3>1, RegOf DEF TablesStamped
    <3>3. QED BY <3>1, <3>2 DEF TypeOK
  <2>3. QED BY <2>1, <2>2
<1>4. ASSUME NEW k \in Nodes, NEW e \in Domains, Has(k, e), Has(k, e)'
      PROVE  names'[k][e].updated >= names[k][e].updated
  <2>0. names[k][e].updated \in Nat
    BY <1>4, RegOf
  <2>1. CASE k = n /\ e = d
    BY <1>1, <1>2, <1>4, <2>0, <2>1
  <2>2. CASE k # n \/ e # d
    BY <1>1, <2>0, <2>2
  <2>3. QED BY <2>1, <2>2
<1>5. QED BY <1>3, <1>4 DEF TablesStamped, NotOlder

\* The tables are not touched.
LEMMA SameTables ==
  ASSUME TypeOK, TablesStamped, UNCHANGED names, now' \in Nat, now <= now'
  PROVE  TablesStamped' /\ NotOlder
<1>1. ASSUME NEW n \in Nodes, NEW d \in Domains, Has(n, d)
      PROVE  names[n][d].updated \in Nat /\ names[n][d].updated <= now
  BY <1>1, RegOf DEF TablesStamped
<1>2. QED BY <1>1 DEF TypeOK, TablesStamped, NotOlder, Has

\* The lists are not touched, and the tables keep their owners.
LEMMA SameOwners ==
  ASSUME TypeOK, OwnedIsListed, UNCHANGED listed,
         NEW n \in Nodes, NEW d \in Domains, NEW reg \in Registration,
         Has(n, d), Put(n, d, reg), reg.owner = names[n][d].owner
  PROVE  OwnedIsListed'
<1>1. /\ names'[n][d] = reg
      /\ \A k \in Nodes, e \in Domains :
           (k # n \/ e # d) => names'[k][e] = names[k][e]
  BY PutStep
<1>2. QED BY <1>1 DEF OwnedIsListed, Has

\* What a step has to keep besides the order of stamps.
NetOK ==
  /\ sent \subseteq Message
  /\ heard \in [Nodes -> SUBSET Message]
  /\ \A msg \in sent : msg.reg.updated <= now

StepOK == NamesInv' /\ NotOlder

LEMMA StampStep ==
  ASSUME TypeOK, Stamp
  PROVE  now \in Nat /\ now' \in Nat /\ now <= now' /\ Until \in Nat
  BY NamesAssumption DEF TypeOK, Stamp, Until

\* What a node hears or makes is a message.
LEMMA HearStep ==
  ASSUME TypeOK, NEW n \in Nodes, NEW d \in Domains, NEW reg \in Registration,
         Hear(n, Tell(d, reg))
  PROVE  heard' \in [Nodes -> SUBSET Message]
<1>1. Tell(d, reg) \in Message
  BY DEF Tell, Message
<1>2. QED BY <1>1 DEF Hear, TypeOK

\* An announcement of something stamped is one.
LEMMA NetStep ==
  ASSUME TypeOK, Stamped, now' \in Nat, now <= now',
         heard' \in [Nodes -> SUBSET Message],
         NEW d \in Domains, NEW reg \in Registration, reg.updated <= now,
         Announce(d, reg) \/ UNCHANGED sent
  PROVE  NetOK'
<1>1. reg.updated \in Nat
  BY DEF Registration
<1>2. \A msg \in sent : msg \in Message /\ msg.reg.updated \in Nat
                          /\ msg.reg.updated <= now
  BY DEF TypeOK, Stamped, Message, Registration
<1>3. CASE UNCHANGED sent
  BY <1>2, <1>3 DEF NetOK, TypeOK
<1>4. CASE Announce(d, reg)
  <2>1. [name |-> d, reg |-> reg] \in Message
    BY DEF Message
  <2>2. sent' = sent \cup {[name |-> d, reg |-> reg]}
    BY <1>4 DEF Announce, Tell
  <2>3. ASSUME NEW msg \in sent' PROVE msg.reg.updated <= now'
    BY <1>1, <1>2, <2>2 DEF TypeOK
  <2>4. QED BY <2>1, <2>2, <2>3 DEF NetOK, TypeOK
<1>5. QED BY <1>3, <1>4

\* How the parts make the invariant.
LEMMA Assemble ==
  ASSUME now' \in Nat, NetOK', TablesStamped', OwnedIsListed', NotOlder,
         names' \in [Nodes -> [Domains -> Registration \cup {NoReg}]],
         listed' \in [Nodes -> [Nodes -> [Domains -> Nat]]]
  PROVE  StepOK
  BY DEF StepOK, NamesInv, TypeOK, Stamped, TablesStamped, NetOK

LEMMA RegisterStep ==
  ASSUME NamesInv, NEW n \in Nodes, NEW d \in Domains, Register(n, d)
  PROVE  StepOK
<1> DEFINE reg == [owner |-> n, signed |-> TRUE,
                   updated |-> now, expires |-> Until]
<1>1. now \in Nat /\ now' \in Nat /\ now <= now' /\ Until \in Nat /\ TypeOK
      /\ OwnedIsListed /\ Stamped /\ TablesStamped
  BY StampStep DEF Register, NamesInv, Stamped, TablesStamped
<1>2. reg \in Registration /\ reg.updated = now
  BY <1>1 DEF Registration
<1>3. Store(n, d, reg) /\ Announce(d, reg) /\ Hear(n, Tell(d, reg))
  BY DEF Register
<1> HIDE DEF reg
<1>4. heard' \in [Nodes -> SUBSET Message]
  BY <1>1, <1>2, <1>3, HearStep
<1>5. NetOK'
  BY <1>1, <1>2, <1>3, <1>4, NetStep
<1>6. Put(n, d, reg)
  BY <1>3 DEF Store
<1>7. Has(n, d) => names[n][d].updated <= reg.updated
  BY <1>1, <1>2 DEF TablesStamped
<1>8. TablesStamped' /\ NotOlder
  BY <1>1, <1>2, <1>6, <1>7, PutNewer
<1>9. QED BY <1>1, <1>2, <1>3, <1>5, <1>6, <1>8, StoreStep, PutStep, Assemble

\* Update and Renew restamp a registration of the node's own.
LEMMA RestampStep ==
  ASSUME NamesInv, NEW n \in Nodes, NEW d \in Domains, Stamp, Has(n, d),
         NEW reg \in Registration, Put(n, d, reg), reg.updated = now,
         reg.owner = names[n][d].owner, UNCHANGED listed,
         Hear(n, Tell(d, reg)), Announce(d, reg) \/ UNCHANGED sent
  PROVE  StepOK
<1>1. now \in Nat /\ now' \in Nat /\ now <= now' /\ TypeOK
      /\ OwnedIsListed /\ Stamped /\ TablesStamped
  BY StampStep DEF NamesInv, Stamped, TablesStamped
<1>2. NetOK'
  BY <1>1, HearStep, NetStep
<1>3. TablesStamped' /\ NotOlder
  BY <1>1, PutNewer DEF TablesStamped
<1>4. OwnedIsListed'
  BY <1>1, SameOwners
<1>5. QED BY <1>1, <1>2, <1>3, <1>4, PutStep, Assemble DEF TypeOK

LEMMA OwnRegs ==
  ASSUME NamesInv, NEW n \in Nodes, NEW d \in Domains, Stamp, Has(n, d)
  PROVE  /\ Updated(n, d) \in Registration
         /\ Updated(n, d).updated = now
         /\ Updated(n, d).owner = names[n][d].owner
  BY RegOf, StampStep DEF NamesInv, Updated, Registration

LEMMA UpdateStep ==
  ASSUME NamesInv, NEW n \in Nodes, NEW d \in Domains,
         cmdUpdateDomain(n, d) \/ handleDomainUpdate(n, d)
  PROVE  StepOK
<1>1. /\ Stamp /\ Has(n, d) /\ Put(n, d, Updated(n, d))
      /\ UNCHANGED listed /\ Hear(n, Tell(d, Updated(n, d)))
      /\ Announce(d, Updated(n, d)) \/ UNCHANGED sent
  BY DEF cmdUpdateDomain, handleDomainUpdate, Update
<1>2. QED BY <1>1, OwnRegs, RestampStep

LEMMA RenewStep ==
  ASSUME NamesInv, NEW n \in Nodes, NEW d \in Domains, handleDomainRenew(n, d)
  PROVE  StepOK
<1> DEFINE reg == [names[n][d] EXCEPT !.updated = now, !.expires = Until]
<1>1. /\ Stamp /\ Has(n, d) /\ Put(n, d, reg)
      /\ UNCHANGED <<listed, sent>> /\ Hear(n, Tell(d, reg))
  BY DEF handleDomainRenew, Renew
<1>2. now \in Nat /\ Until \in Nat
  BY <1>1, StampStep DEF NamesInv
<1>3. reg \in Registration /\ reg.updated = now /\ reg.owner = names[n][d].owner
  BY <1>1, <1>2, RegOf DEF NamesInv, Registration
<1> HIDE DEF reg
<1>4. QED BY <1>1, <1>3, RestampStep

\* The new owner's list grows when the old owner's shrinks.
LEMMA TransferStep ==
  ASSUME NamesInv, NEW n \in Nodes, NEW d \in Domains, NEW m \in Nodes,
         Transfer(n, d, m)
  PROVE  StepOK
<1> DEFINE reg == [names[n][d] EXCEPT !.owner = m, !.signed = FALSE,
                                      !.updated = now]
           Entry(o, e) == CASE o = n /\ e = d -> Unlisted(n, n, d)
                            [] o = m /\ e = d -> listed[n][m][d] + 1
                            [] OTHER -> listed[n][o][e]
<1>1. /\ Stamp /\ Has(n, d) /\ m # n /\ Put(n, d, reg)
      /\ UNCHANGED sent /\ Hear(n, Tell(d, reg))
      /\ listed' = [listed EXCEPT ![n] =
                      [o \in Nodes |-> [e \in Domains |-> Entry(o, e)]]]
  BY DEF Transfer
<1>2. now \in Nat /\ now' \in Nat /\ now <= now' /\ TypeOK
      /\ OwnedIsListed /\ Stamped /\ TablesStamped
  BY <1>1, StampStep DEF NamesInv, Stamped, TablesStamped
<1>3. reg \in Registration /\ reg.updated = now /\ reg.owner = m
  BY <1>1, <1>2, RegOf DEF Registration
<1> HIDE DEF reg
<1>4. \A k \in Nodes, o \in Nodes, e \in Domains : listed[k][o][e] \in Nat
  BY <1>2 DEF TypeOK
<1>5. \A o \in Nodes, e \in Domains :
        /\ Entry(o, e) \in Nat
        /\ e # d => Entry(o, e) = listed[n][o][e]
  BY <1>4 DEF Unlisted
<1>6. Entry(m, d) > 0
  BY <1>1, <1>4
<1> HIDE DEF Entry
<1>7. /\ listed' \in [Nodes -> [Nodes -> [Domains -> Nat]]]
      /\ \A o \in Nodes, e \in Domains : listed'[n][o][e] = Entry(o, e)
      /\ \A k \in Nodes : k # n => listed'[k] = listed[k]
  BY <1>1, <1>2, <1>5 DEF TypeOK
<1>8. /\ names'[n][d] = reg
      /\ \A k \in Nodes, e \in Domains :
           (k # n \/ e # d) => names'[k][e] = names[k][e]
  BY <1>1, <1>2, <1>3, PutStep
<1>9. ASSUME NEW k \in Nodes, NEW e \in Domains, Has(k, e)'
      PROVE  listed'[k][names'[k][e].owner][e] > 0
  <2>1. CASE k = n /\ e = d
    BY <1>3, <1>6, <1>7, <1>8, <2>1
  <2>2. CASE k # n \/ e # d
    <3>1. names'[k][e] = names[k][e] /\ Has(k, e)
      BY <1>8, <1>9, <2>2 DEF Has
    <3>2. names[k][e].owner \in Nodes /\ listed[k][names[k][e].owner][e] > 0
      BY <1>2, <3>1, RegOf DEF OwnedIsListed
    <3>3. listed'[k][names[k][e].owner][e] = listed[k][names[k][e].owner][e]
      BY <1>5, <1>7, <2>2, <3>2
    <3>4. QED BY <3>1, <3>2, <3>3
  <2>3. QED BY <2>1, <2>2
<1>10. OwnedIsListed'
  BY <1>9 DEF OwnedIsListed
<1>11. NetOK'
  BY <1>1, <1>2, <1>3, HearStep, NetStep
<1>12. TablesStamped' /\ NotOlder
  BY <1>1, <1>2, <1>3, PutNewer DEF TablesStamped
<1>13. QED BY <1>1, <1>2, <1>3, <1>7, <1>10, <1>11, <1>12, PutStep, Assemble

\* Time stands still while a registration is taken in.
LEMMA AddStep ==
  ASSUME NamesInv, NEW n \in Nodes, NEW msg \in sent, AddRegistration(n, msg)
  PROVE  StepOK
<1>1. /\ now' = now /\ now \in Nat /\ now <= now' /\ TypeOK
      /\ OwnedIsListed /\ Stamped /\ TablesStamped
  BY DEF AddRegistration, NamesInv, TypeOK, Stamped, TablesStamped
<1>2. /\ msg.name \in Domains /\ msg.reg \in Registration
      /\ msg.reg.updated <= now /\ msg.reg.updated \in Nat /\ msg \in Message
  BY <1>1 DEF TypeOK, Stamped, Message, Registration
<1>3. UNCHANGED sent /\ Hear(n, msg)
  BY DEF AddRegistration
<1>4. NetOK'
  BY <1>1, <1>2, <1>3 DEF NetOK, Hear, TypeOK, Stamped
<1>5. CASE UNCHANGED <<names, listed>>
  <2>1. TablesStamped' /\ NotOlder
    BY <1>1, <1>5, SameTables
  <2>2. OwnedIsListed'
    BY <1>1, <1>5 DEF OwnedIsListed, Has
  <2>3. QED BY <1>1, <1>4, <1>5, <2>1, <2>2, Assemble DEF TypeOK
<1>6. CASE /\ Has(n, msg.name) => names[n][msg.name].updated <= msg.reg.updated
           /\ Store(n, msg.name, msg.reg)
  <2>1. Put(n, msg.name, msg.reg)
    BY <1>6 DEF Store
  <2>2. TablesStamped' /\ NotOlder
    BY <1>1, <1>2, <1>6, <2>1, PutNewer
  <2>3. QED BY <1>1, <1>2, <1>4, <1>6, <2>1, <2>2, StoreStep, PutStep, Assemble
<1>7. QED BY <1>5, <1>6 DEF AddRegistration

LEMMA LookupStep ==
  ASSUME NamesInv, NEW n \in Nodes, NEW d \in Domains, handleNameLookup(n, d)
  PROVE  StepOK
<1>1. /\ now' = now /\ now \in Nat /\ now <= now' /\ TypeOK
      /\ OwnedIsListed /\ Stamped /\ TablesStamped
  BY DEF handleNameLookup, NamesInv, TypeOK, Stamped, TablesStamped
<1>2. Has(n, d) /\ UNCHANGED <<names, listed, heard>>
      /\ Announce(d, names[n][d])
  BY DEF handleNameLookup, Resolves
<1>3. names[n][d] \in Registration /\ names[n][d].updated <= now
  BY <1>1, <1>2, RegOf DEF TablesStamped
<1>4. heard' \in [Nodes -> SUBSET Message]
  BY <1>1, <1>2 DEF TypeOK
<1>5. NetOK'
  BY <1>1, <1>2, <1>3, <1>4, NetStep
<1>6. TablesStamped' /\ NotOlder
  BY <1>1, <1>2, SameTables
<1>7. OwnedIsListed'
  BY <1>1, <1>2 DEF OwnedIsListed, Has
<1>8. QED BY <1>1, <1>2, <1>5, <1>6, <1>7, Assemble DEF TypeOK

LEMMA ImportStep ==
  ASSUME NamesInv, NEW n \in Nodes, NEW d \in Domains, syncDomainsFromURL(n, d)
  PROVE  StepOK
<1> DEFINE reg == [owner |-> names[Bootstrap][d].owner, signed |-> FALSE,
                   updated |-> now, expires |-> Until]
<1>1. /\ Stamp /\ Has(Bootstrap, d) /\ Store(n, d, reg)
      /\ UNCHANGED sent /\ Hear(n, Tell(d, reg))
  <2>1. d \in Search(Bootstrap) /\ handleDomains[d] = names[Bootstrap][d].owner
    BY DEF syncDomainsFromURL, handleDomains
  <2>2. QED BY <2>1 DEF syncDomainsFromURL, ImportDomain, Search, Resolves
<1>2. now \in Nat /\ now' \in Nat /\ now <= now' /\ Until \in Nat /\ TypeOK
      /\ OwnedIsListed /\ Stamped /\ TablesStamped
  BY <1>1, StampStep DEF NamesInv, Stamped, TablesStamped
<1>3. names[Bootstrap][d].owner \in Nodes
  BY <1>1, <1>2, RegOf, NamesAssumption
<1>4. reg \in Registration /\ reg.updated = now
  BY <1>2, <1>3 DEF Registration
<1> HIDE DEF reg
<1>5. heard' \in [Nodes -> SUBSET Message]
  BY <1>1, <1>2, <1>4, HearStep
<1>6. NetOK'
  BY <1>1, <1>2, <1>4, <1>5, NetStep
<1>7. Put(n, d, reg)
  BY <1>1 DEF Store
<1>8. TablesStamped' /\ NotOlder
  BY <1>2, <1>4, <1>7, PutNewer DEF TablesStamped
<1>9. QED BY <1>1, <1>2, <1>4, <1>6, <1>7, <1>8, StoreStep, PutStep, Assemble

\* What is cleaned is out of the table before it is out of the list.
LEMMA CleanStep ==
  ASSUME NamesInv, NEW n \in Nodes, CleanExpired(n)
  PROVE  StepOK
<1>1. /\ now' = now /\ now \in Nat /\ now <= now' /\ TypeOK
      /\ OwnedIsListed /\ Stamped /\ TablesStamped
  BY DEF CleanExpired, NamesInv, TypeOK, Stamped, TablesStamped
<1> DEFINE Kept(d) == IF Expired(n, d) THEN NoReg ELSE names[n][d]
           Entry(o, d) == IF Expired(n, d) /\ names[n][d].owner = o
                          THEN Unlisted(n, o, d) ELSE listed[n][o][d]
<1>2. /\ names' = [names EXCEPT ![n] = [d \in Domains |-> Kept(d)]]
      /\ listed' = [listed EXCEPT ![n] =
                      [o \in Nodes |-> [d \in Domains |-> Entry(o, d)]]]
      /\ UNCHANGED <<sent, heard>>
  BY DEF CleanExpired
<1>3. \A k \in Nodes, o \in Nodes, d \in Domains : listed[k][o][d] \in Nat
  BY <1>1 DEF TypeOK
<1>4. \A o \in Nodes, d \in Domains :
        /\ Entry(o, d) \in Nat
        /\ ~Expired(n, d) => Entry(o, d) = listed[n][o][d]
  BY <1>3 DEF Unlisted
<1>5. \A d \in Domains : /\ Kept(d) \in Registration \cup {NoReg}
                         /\ Kept(d) # NoReg => /\ Kept(d) = names[n][d]
                                               /\ ~Expired(n, d)
  BY <1>1 DEF TypeOK
<1> HIDE DEF Kept, Entry
<1>6. /\ names' \in [Nodes -> [Domains -> Registration \cup {NoReg}]]
      /\ \A d \in Domains : names'[n][d] = Kept(d)
      /\ \A k \in Nodes : k # n => names'[k] = names[k]
  BY <1>1, <1>2, <1>5 DEF TypeOK
<1>7. /\ listed' \in [Nodes -> [Nodes -> [Domains -> Nat]]]
      /\ \A o \in Nodes, d \in Domains : listed'[n][o][d] = Entry(o, d)
      /\ \A k \in Nodes : k # n => listed'[k] = listed[k]
  BY <1>1, <1>2, <1>4 DEF TypeOK
<1>8. ASSUME NEW k \in Nodes, NEW d \in Domains, Has(k, d)'
      PROVE  /\ Has(k, d) /\ names'[k][d] = names[k][d]
             /\ k = n => ~Expired(n, d)
  BY <1>5, <1>6, <1>8 DEF Has
<1>9. ASSUME NEW k \in Nodes, NEW d \in Domains, Has(k, d)'
      PROVE  listed'[k][names'[k][d].owner][d] > 0
  <2>1. names[k][d].owner \in Nodes /\ listed[k][names[k][d].owner][d] > 0
    BY <1>1, <1>8, <1>9, RegOf DEF OwnedIsListed
  <2>2. listed'[k][names[k][d].owner][d] = listed[k][names[k][d].owner][d]
    <3>1. CASE k = n
      <4>1. ~Expired(n, d)
        BY <1>8, <1>9, <3>1
      <4>2. QED BY <1>4, <1>7, <2>1, <3>1, <4>1
    <3>2. CASE k # n
      BY <1>7, <3>2
    <3>3. QED BY <3>1, <3>2
  <2>3. QED BY <1>8, <1>9, <2>1, <2>2
<1>10. OwnedIsListed'
  BY <1>9 DEF OwnedIsListed
<1>11. NetOK'
  BY <1>1, <1>2 DEF NetOK, TypeOK, Stamped
<1>12. TablesStamped'
  BY <1>1, <1>8 DEF TablesStamped
<1>13. NotOlder
  <2>1. ASSUME NEW k \in Nodes, NEW d \in Domains, Has(k, d), Has(k, d)'
        PROVE  names'[k][d].updated >= names[k][d].updated
    BY <1>1, <1>8, <2>1, RegOf
  <2>2. QED BY <2>1 DEF NotOlder
<1>14. QED BY <1>1, <1>6, <1>7, <1>10, <1>11, <1>12, <1>13, Assemble

LEMMA IdleStep ==
  ASSUME NamesInv, UNCHANGED <<names, listed, sent, heard>>,
         now' \in Nat, now <= now'
  PROVE  StepOK
<1>1. TypeOK /\ OwnedIsListed /\ Stamped /\ TablesStamped
  BY DEF NamesInv, Stamped, TablesStamped
<1>2. TablesStamped' /\ NotOlder
  BY <1>1, SameTables
<1>3. OwnedIsListed'
  BY <1>1 DEF OwnedIsListed, Has
<1>4. \A msg \in sent : msg.reg.updated \in Nat /\ msg.reg.updated <= now
  BY <1>1 DEF TypeOK, Stamped, Message, Registration
<1>5. NetOK'
  BY <1>1, <1>4 DEF NetOK, TypeOK
<1>6. QED BY <1>1, <1>2, <1>3, <1>5, Assemble DEF TypeOK

LEMMA NamesStep == NamesInv /\ [Next]_vars => StepOK
<1> SUFFICES ASSUME NamesInv, [Next]_vars PROVE StepOK
  OBVIOUS
<1>1. ASSUME NEW n \in Nodes, NEW d \in Domains, Owner(n, d)
      PROVE  StepOK
  BY <1>1, RegisterStep, UpdateStep, RenewStep, TransferStep DEF Owner
<1>2. ASSUME NEW n \in Nodes, NEW d \in Domains,
             handleNameLookup(n, d) \/ syncDomainsFromURL(n, d)
      PROVE  StepOK
  BY <1>2, LookupStep, ImportStep
<1>3. ASSUME NEW n \in Nodes, NEW msg \in sent, AddRegistration(n, msg)
      PROVE  StepOK
  BY <1>3, AddStep
<1>4. ASSUME NEW n \in Nodes, CleanExpired(n) PROVE StepOK
  BY <1>4, CleanStep
<1>5. CASE Tick
  <2>1. now' \in Nat /\ now <= now'
    BY <1>5, StampStep DEF Tick, NamesInv
  <2>2. QED BY <1>5, <2>1, IdleStep DEF Tick
<1>6. CASE UNCHANGED vars
  <2>1. now' \in Nat /\ now <= now'
    BY <1>6 DEF vars, NamesInv, TypeOK
  <2>2. QED BY <1>6, <2>1, IdleStep DEF vars
<1>7. QED BY <1>1, <1>2, <1>3, <1>4, <1>5, <1>6 DEF Next

\* The invariant of every table, list and message.
THEOREM NamesInvariant == Spec => []NamesInv
<1>1. Init => NamesInv
  BY InitNames
<1>2. NamesInv /\ [Next]_vars => NamesInv'
  BY NamesStep DEF StepOK
<1>3. QED BY <1>1, <1>2, PTL DEF Spec

\* Tables, lists and messages stay well formed (names.go).
THEOREM NamesTypes == Spec => []TypeOK
<1>1. NamesInv => TypeOK
  BY DEF NamesInv
<1>2. QED BY <1>1, NamesInvariant, PTL

\* A registration is always listed for its owner (names against byNodeID).
THEOREM OwnersAreListed == Spec => []OwnedIsListed
<1>1. NamesInv => OwnedIsListed
  BY DEF NamesInv
<1>2. QED BY <1>1, NamesInvariant, PTL

\* No step takes a node back to an older registration (AddRegistration).
THEOREM NeverGoesBack == Spec => NeverOlder
<1>1. Spec => []NamesInv
  BY NamesInvariant
<1>2. NamesInv /\ [Next]_vars =>
        [\A n \in Nodes, d \in Domains :
           (Has(n, d) /\ Has(n, d)') =>
             names'[n][d].updated >= names[n][d].updated]_vars
  BY NamesStep DEF StepOK, NotOlder
<1>3. QED BY <1>1, <1>2, PTL DEF Spec, NeverOlder

-----------------------------------------------------------------------------
(* What a node has heard, and what it makes of it.                         *)

\* What was heard was stamped before now and lasts a term at most.
HeardBefore ==
  \A n \in Nodes : \A msg \in heard[n] :
    msg.reg.updated < now /\ msg.reg.expires <= now + TTL

\* A node has heard of what it has,
HasHeard == \A n \in Nodes, d \in Domains : Has(n, d) => Tell(d, names[n][d]) \in heard[n]

\* and the owner of what he signed.
OwnerHeard ==
  /\ \A msg \in sent : msg.reg.signed => msg \in heard[msg.reg.owner]
  /\ \A n \in Nodes : \A msg \in heard[n] : msg.reg.signed => msg \in heard[msg.reg.owner]

\* Of what the only claimant signed, the newer does not run out before the older.
Ordered ==
  \A o \in Nodes, d \in Domains : OnlyFrom(o, d, o) =>
    \A x, y \in heard[o] :
      x.name = d /\ y.name = d /\ x.reg.updated <= y.reg.updated =>
        /\ now <= x.reg.expires => x.reg.expires <= y.reg.expires
        /\ x.reg.updated = y.reg.updated => x = y

\* As long as something heard of has not run out, the node has that or newer.
HasNewest ==
  \A n \in Nodes, o \in Nodes, d \in Domains : Undisputed(n, d, o) =>
    \A x \in heard[n] :
      x.name = d /\ now <= x.reg.expires =>
        Has(n, d) /\ x.reg.updated <= names[n][d].updated

HistoryInv == HeardBefore /\ HasHeard /\ OwnerHeard /\ Ordered /\ HasNewest

\* RegistrationLasts for one step.
Lasts ==
  \A n \in Nodes, d \in Domains :
    LET o == names[n][d].owner
    IN  (Has(n, d) /\ names[n][d].signed /\ now' <= names[n][d].expires) =>
          /\ Has(n, d)'
          /\ \/ now' <= names'[n][d].expires
             \/ names'[n][d].owner # o
             \/ ~OnlyFrom(o, d, o)

LEMMA InitHistory == Init => HistoryInv
  BY DEF Init, HistoryInv, HeardBefore, HasHeard, OwnerHeard, Ordered, HasNewest, Has

\* The types of what is heard.
LEMMA MessageTypes ==
  ASSUME TypeOK, NEW n \in Nodes
  PROVE  \A msg \in heard[n] \cup sent :
           /\ msg.name \in Domains /\ msg.reg \in Registration
           /\ msg.reg.owner \in Nodes /\ msg = Tell(msg.name, msg.reg)
           /\ msg.reg.updated \in Nat /\ msg.reg.expires \in Nat
  BY DEF TypeOK, Message, Registration, Tell

LEMMA TellTypes ==
  ASSUME NEW d \in Domains, NEW reg \in Registration
  PROVE  /\ Tell(d, reg).name = d /\ Tell(d, reg).reg = reg
         /\ reg.updated \in Nat /\ reg.expires \in Nat /\ reg.owner \in Nodes
  BY DEF Tell, Registration

\* What Hear does to the histories.
LEMMA HeardBy ==
  ASSUME TypeOK, NEW n \in Nodes, NEW msg, Hear(n, msg)
  PROVE  /\ heard'[n] = heard[n] \cup {msg}
         /\ \A k \in Nodes : k # n => heard'[k] = heard[k]
         /\ \A k \in Nodes : heard[k] \subseteq heard'[k]
  BY DEF Hear, TypeOK

\* Who hears more has less from one owner only.
LEMMA OnlyBefore ==
  ASSUME NEW n \in Nodes, NEW d \in Domains, NEW o \in Nodes,
         heard[n] \subseteq heard'[n], OnlyFrom(n, d, o)'
  PROVE  OnlyFrom(n, d, o)
  BY DEF OnlyFrom

\* What the operations of a node's own user, and the import, have in common.
Makes(n, d, reg) ==
  /\ Stamp /\ Put(n, d, reg) /\ Hear(n, Tell(d, reg))
  /\ reg.updated = now /\ (reg.signed => reg.owner = n)
  /\ sent' \subseteq sent \cup {Tell(d, reg)}
  /\ \/ reg.expires = Until
     \/ Has(n, d) /\ reg.expires = names[n][d].expires

LEMMA OwnerMakes ==
  ASSUME NamesInv, NEW n \in Nodes, NEW d \in Domains, Owner(n, d)
  PROVE  \E reg \in Registration : Makes(n, d, reg)
<1>1. TypeOK /\ Stamp /\ now \in Nat /\ Until \in Nat
  <2>1. TypeOK /\ Stamp
    BY DEF NamesInv, Owner, Register, cmdUpdateDomain, handleDomainUpdate, Update,
           handleDomainRenew, Renew, Transfer
  <2>2. QED BY <2>1, StampStep
<1>2. CASE Register(n, d)
  <2> DEFINE reg == [owner |-> n, signed |-> TRUE,
                     updated |-> now, expires |-> Until]
  <2>1. reg \in Registration /\ reg.updated = now /\ reg.owner = n /\ reg.expires = Until
    BY <1>1 DEF Registration
  <2>2. Put(n, d, reg) /\ Announce(d, reg) /\ Hear(n, Tell(d, reg))
    BY <1>2 DEF Register, Store
  <2> HIDE DEF reg
  <2>3. QED BY <1>1, <2>1, <2>2 DEF Makes, Announce
<1>3. CASE cmdUpdateDomain(n, d) \/ handleDomainUpdate(n, d)
  <2>1. /\ Has(n, d) /\ names[n][d].owner = n
        /\ Put(n, d, Updated(n, d)) /\ Hear(n, Tell(d, Updated(n, d)))
        /\ Announce(d, Updated(n, d)) \/ UNCHANGED sent
    BY <1>3 DEF cmdUpdateDomain, handleDomainUpdate, Update
  <2>2. /\ Updated(n, d) \in Registration /\ Updated(n, d).updated = now
        /\ Updated(n, d).owner = n
    BY <1>1, <2>1, OwnRegs
  <2>3. Updated(n, d).expires = names[n][d].expires
    BY <1>1, <2>1, RegOf DEF Updated, Registration
  <2>4. QED BY <1>1, <2>1, <2>2, <2>3 DEF Makes, Announce
<1>4. CASE handleDomainRenew(n, d)
  <2> DEFINE reg == [names[n][d] EXCEPT !.updated = now, !.expires = Until]
  <2>1. /\ Has(n, d) /\ names[n][d].owner = n /\ UNCHANGED sent
        /\ Put(n, d, reg) /\ Hear(n, Tell(d, reg))
    BY <1>4 DEF handleDomainRenew, Renew
  <2>2. reg \in Registration /\ reg.updated = now /\ reg.owner = n /\ reg.expires = Until
    BY <1>1, <2>1, RegOf DEF Registration
  <2> HIDE DEF reg
  <2>3. QED BY <1>1, <2>1, <2>2 DEF Makes
<1>5. ASSUME NEW m \in Nodes, Transfer(n, d, m)
      PROVE  \E reg \in Registration : Makes(n, d, reg)
  <2> DEFINE reg == [names[n][d] EXCEPT !.owner = m, !.signed = FALSE,
                                        !.updated = now]
  <2>1. /\ Has(n, d) /\ UNCHANGED sent
        /\ Put(n, d, reg) /\ Hear(n, Tell(d, reg))
    BY <1>5 DEF Transfer
  <2>2. /\ reg \in Registration /\ reg.updated = now /\ ~reg.signed
        /\ reg.expires = names[n][d].expires
    BY <1>1, <2>1, RegOf DEF Registration
  <2> HIDE DEF reg
  <2>3. QED BY <1>1, <2>1, <2>2 DEF Makes
<1>6. QED BY <1>2, <1>3, <1>4, <1>5 DEF Owner

LEMMA ImportMakes ==
  ASSUME NamesInv, NEW n \in Nodes, NEW d \in Domains, syncDomainsFromURL(n, d)
  PROVE  \E reg \in Registration : Makes(n, d, reg)
<1> DEFINE reg == [owner |-> names[Bootstrap][d].owner, signed |-> FALSE,
                   updated |-> now, expires |-> Until]
<1>1. /\ Stamp /\ Has(Bootstrap, d) /\ Put(n, d, reg)
      /\ UNCHANGED sent /\ Hear(n, Tell(d, reg))
  <2>1. d \in Search(Bootstrap) /\ handleDomains[d] = names[Bootstrap][d].owner
    BY DEF syncDomainsFromURL, handleDomains
  <2>2. QED BY <2>1 DEF syncDomainsFromURL, ImportDomain, Store, Search, Resolves
<1>2. now \in Nat /\ Until \in Nat /\ names[Bootstrap][d].owner \in Nodes
  BY <1>1, StampStep, RegOf, NamesAssumption DEF NamesInv
<1>3. reg \in Registration /\ reg.updated = now /\ ~reg.signed /\ reg.expires = Until
  BY <1>2 DEF Registration
<1> HIDE DEF reg
<1>4. QED BY <1>1, <1>3 DEF Makes

LEMMA MakeKeeps ==
  ASSUME NamesInv, HistoryInv, NEW n \in Nodes, NEW d \in Domains,
         NEW reg \in Registration, Makes(n, d, reg)
  PROVE  HistoryInv' /\ Lasts
<1> DEFINE new == Tell(d, reg)
<1>1. /\ TypeOK /\ now \in Nat /\ now' = now + 1 /\ Until = now + TTL /\ TTL \in Nat
  BY NamesAssumption DEF NamesInv, TypeOK, Makes, Stamp, Until
<1>2. /\ names'[n][d] = reg
      /\ \A k \in Nodes, e \in Domains :
           (k # n \/ e # d) => names'[k][e] = names[k][e]
  BY <1>1, PutStep DEF Makes
<1>3. /\ heard'[n] = heard[n] \cup {new}
      /\ \A k \in Nodes : k # n => heard'[k] = heard[k]
      /\ \A k \in Nodes : heard[k] \subseteq heard'[k]
  BY <1>1, HeardBy DEF Makes
<1>4. /\ new.name = d /\ new.reg = reg /\ reg.updated = now /\ reg.expires \in Nat
      /\ reg.signed => reg.owner = n
  BY TellTypes DEF Makes
<1>5. \A k \in Nodes : \A msg \in heard[k] \cup sent :
        /\ msg.name \in Domains /\ msg.reg.owner \in Nodes
        /\ msg.reg.updated \in Nat /\ msg.reg.expires \in Nat
  BY <1>1, MessageTypes
<1>6. reg.expires <= now + TTL
  <2>1. CASE reg.expires = Until
    BY <1>1, <2>1
  <2>2. CASE Has(n, d) /\ reg.expires = names[n][d].expires
    <3>1. Tell(d, names[n][d]) \in heard[n] /\ Tell(d, names[n][d]).reg = names[n][d]
      BY <1>1, <2>2, RegOf, TellTypes DEF HistoryInv, HasHeard
    <3>2. QED BY <2>2, <3>1 DEF HistoryInv, HeardBefore
  <2>3. QED BY <2>1, <2>2 DEF Makes
<1> HIDE DEF new
<1>7. HeardBefore'
  <2>1. ASSUME NEW k \in Nodes, NEW msg \in heard'[k]
        PROVE  msg.reg.updated < now' /\ msg.reg.expires <= now' + TTL
    <3>1. CASE msg \in heard[k]
      BY <1>1, <1>5, <3>1 DEF HistoryInv, HeardBefore
    <3>2. CASE msg = new
      BY <1>1, <1>4, <1>6, <3>2
    <3>3. QED BY <1>3, <3>1, <3>2
  <2>2. QED BY <2>1 DEF HeardBefore
<1>8. HasHeard'
  <2>1. ASSUME NEW k \in Nodes, NEW e \in Domains, Has(k, e)'
        PROVE  Tell(e, names'[k][e]) \in heard'[k]
    <3>1. CASE k = n /\ e = d
      BY <1>2, <1>3, <3>1 DEF new
    <3>2. CASE k # n \/ e # d
      <4>1. Has(k, e) /\ names'[k][e] = names[k][e]
        BY <1>2, <2>1, <3>2 DEF Has
      <4>2. QED BY <1>3, <4>1 DEF HistoryInv, HasHeard
    <3>3. QED BY <3>1, <3>2
  <2>2. QED BY <2>1 DEF HasHeard, Tell
<1>9. OwnerHeard'
  <2>1. ASSUME NEW msg, msg.reg.signed, msg \in sent \/ \E k \in Nodes : msg \in heard[k]
        PROVE  msg \in heard'[msg.reg.owner]
    BY <1>3, <1>5, <2>1 DEF HistoryInv, OwnerHeard
  <2>2. new.reg.signed => new \in heard'[new.reg.owner]
    BY <1>3, <1>4
  <2>3. sent' \subseteq sent \cup {new}
    BY DEF Makes, new
  <2>4. \A k \in Nodes : heard'[k] \subseteq heard[k] \cup {new}
    BY <1>3
  <2>5. QED BY <2>1, <2>2, <2>3, <2>4 DEF OwnerHeard
<1>10. Ordered'
  <2>1. ASSUME NEW o \in Nodes, NEW e \in Domains, OnlyFrom(o, e, o)',
               NEW x \in heard'[o], NEW y \in heard'[o],
               x.name = e, y.name = e, x.reg.updated <= y.reg.updated
        PROVE  /\ now' <= x.reg.expires => x.reg.expires <= y.reg.expires
               /\ x.reg.updated = y.reg.updated => x = y
    <3>1. OnlyFrom(o, e, o)
      BY <1>3, <2>1, OnlyBefore
    <3>2. CASE x \in heard[o] /\ y \in heard[o]
      <4>1. /\ now <= x.reg.expires => x.reg.expires <= y.reg.expires
            /\ x.reg.updated = y.reg.updated => x = y
        BY <2>1, <3>1, <3>2 DEF HistoryInv, Ordered
      <4>2. QED BY <1>1, <1>5, <3>2, <4>1
    <3>3. CASE x \notin heard[o]
      <4>1. x = new
        BY <1>3, <3>3
      <4>2. y.reg.updated < now \/ y = new
        BY <1>3 DEF HistoryInv, HeardBefore
      <4>3. CASE y = new
        BY <1>4, <4>1, <4>3
      <4>4. CASE y # new
        <5>1. y \in heard[o] /\ y.reg.updated \in Nat
          BY <1>3, <1>5, <4>4
        <5>2. QED BY <1>1, <1>4, <2>1, <4>1, <4>2, <4>4, <5>1
      <4>5. QED BY <4>3, <4>4
    <3>4. CASE x \in heard[o] /\ y \notin heard[o]
      <4>1. y = new /\ o = n /\ e = d
        BY <1>3, <1>4, <2>1, <3>4
      <4>2. x.reg.updated < now /\ x.reg.expires <= now + TTL
        BY <3>4 DEF HistoryInv, HeardBefore
      <4>3. ASSUME now' <= x.reg.expires PROVE x.reg.expires <= reg.expires
        <5>1. CASE reg.expires = Until
          BY <1>1, <4>2, <5>1
        <5>2. CASE Has(n, d) /\ reg.expires = names[n][d].expires
          <6> DEFINE old == Tell(d, names[n][d])
          <6>1. old \in heard[n] /\ old.name = d /\ old.reg = names[n][d]
            BY <1>1, <5>2, RegOf, TellTypes DEF HistoryInv, HasHeard
          <6>2. now <= x.reg.expires
            BY <1>1, <1>5, <3>4, <4>3
          <6>3. x.reg.updated <= names[n][d].updated
            BY <2>1, <3>1, <3>4, <4>1, <6>2 DEF HistoryInv, HasNewest, Undisputed
          <6> HIDE DEF old
          <6>4. x.reg.expires <= old.reg.expires
            BY <2>1, <3>1, <3>4, <4>1, <6>1, <6>2, <6>3 DEF HistoryInv, Ordered
          <6>5. QED BY <5>2, <6>1, <6>4
        <5>3. QED BY <5>1, <5>2 DEF Makes
      <4>4. x.reg.updated # y.reg.updated
        BY <1>1, <1>4, <1>5, <3>4, <4>1, <4>2
      <4>5. QED BY <1>4, <4>1, <4>3, <4>4
    <3>5. QED BY <3>2, <3>3, <3>4
  <2>2. QED BY <2>1 DEF Ordered
<1>11. HasNewest'
  <2>1. ASSUME NEW k \in Nodes, NEW o \in Nodes, NEW e \in Domains, Undisputed(k, e, o)',
               NEW x \in heard'[k], x.name = e, now' <= x.reg.expires
        PROVE  Has(k, e)' /\ x.reg.updated <= names'[k][e].updated
    <3>1. Undisputed(k, e, o)
      BY <1>3, <2>1, OnlyBefore DEF Undisputed
    <3>2. CASE k = n /\ e = d
      <4>1. x.reg.updated <= now
        BY <1>1, <1>3, <1>4, <1>5 DEF HistoryInv, HeardBefore
      <4>2. reg # NoReg
        BY NoRegAssumption
      <4>3. QED BY <1>2, <1>4, <3>2, <4>1, <4>2 DEF Has
    <3>3. CASE k # n \/ e # d
      <4>1. x \in heard[k]
        BY <1>3, <1>4, <2>1, <3>3
      <4>2. now <= x.reg.expires
        BY <1>1, <1>5, <2>1, <4>1
      <4>3. Has(k, e) /\ x.reg.updated <= names[k][e].updated
        BY <2>1, <3>1, <4>1, <4>2 DEF HistoryInv, HasNewest
      <4>4. QED BY <1>2, <3>3, <4>3 DEF Has
    <3>4. QED BY <3>2, <3>3
  <2>2. QED BY <2>1 DEF HasNewest
<1>12. Lasts
  <2>1. ASSUME NEW k \in Nodes, NEW e \in Domains, Has(k, e), now' <= names[k][e].expires
        PROVE  Has(k, e)' /\ now' <= names'[k][e].expires
    <3>1. CASE k = n /\ e = d
      <4>1. names[n][d].expires <= now + TTL
        <5>1. Tell(d, names[n][d]) \in heard[n] /\ Tell(d, names[n][d]).reg = names[n][d]
          BY <1>1, <2>1, <3>1, RegOf, TellTypes DEF HistoryInv, HasHeard
        <5>2. QED BY <5>1 DEF HistoryInv, HeardBefore
      <4>2. names[n][d].expires \in Nat
        BY <1>1, <2>1, <3>1, RegOf
      <4>3. now' <= reg.expires
        BY <1>1, <2>1, <3>1, <4>1, <4>2 DEF Makes
      <4>4. QED BY <1>2, <3>1, <4>3, NoRegAssumption DEF Has
    <3>2. CASE k # n \/ e # d
      BY <1>2, <2>1, <3>2 DEF Has
    <3>3. QED BY <3>1, <3>2
  <2>2. QED BY <2>1 DEF Lasts
<1>13. QED BY <1>7, <1>8, <1>9, <1>10, <1>11, <1>12 DEF HistoryInv

LEMMA AddKeeps ==
  ASSUME NamesInv, HistoryInv, NEW n \in Nodes, NEW msg \in sent, AddRegistration(n, msg)
  PROVE  HistoryInv' /\ Lasts
<1> DEFINE d == msg.name
           reg == msg.reg
           stored == /\ Has(n, d) => names[n][d].updated <= reg.updated
                     /\ Put(n, d, reg)
           refused == /\ Has(n, d) /\ names[n][d].updated > reg.updated
                      /\ UNCHANGED names
<1>1. /\ TypeOK /\ now \in Nat /\ now' = now /\ sent' = sent
      /\ reg.signed /\ Hear(n, msg)
      /\ stored \/ refused
  BY DEF AddRegistration, Store, NamesInv, TypeOK
<1>2. /\ d \in Domains /\ reg \in Registration /\ reg.owner \in Nodes
      /\ reg.updated \in Nat /\ reg.expires \in Nat /\ msg = Tell(d, reg)
  BY <1>1, MessageTypes
<1>3. /\ heard'[n] = heard[n] \cup {msg}
      /\ \A k \in Nodes : k # n => heard'[k] = heard[k]
      /\ \A k \in Nodes : heard[k] \subseteq heard'[k]
  BY <1>1, HeardBy
<1>4. msg \in heard[reg.owner]
  BY <1>1 DEF HistoryInv, OwnerHeard
<1>5. /\ stored => names'[n][d] = reg
      /\ \A k \in Nodes, e \in Domains :
           (k # n \/ e # d) => names'[k][e] = names[k][e]
  BY <1>1, <1>2, PutStep
<1>6. \A k \in Nodes : \A x \in heard[k] :
        /\ x.name \in Domains /\ x.reg.owner \in Nodes
        /\ x.reg.updated \in Nat /\ x.reg.expires \in Nat
  BY <1>1, MessageTypes
<1>7. reg # NoReg
  BY <1>2, NoRegAssumption
<1> HIDE DEF d, reg, stored, refused
<1>8. msg.name = d /\ msg.reg = reg
  BY DEF d, reg
<1>9. HeardBefore'
  BY <1>1, <1>2, <1>3, <1>4 DEF HistoryInv, HeardBefore
<1>10. HasHeard'
  <2>1. ASSUME NEW k \in Nodes, NEW e \in Domains, Has(k, e)'
        PROVE  Tell(e, names'[k][e]) \in heard'[k]
    <3>1. CASE names'[k][e] = names[k][e]
      BY <1>3, <2>1, <3>1 DEF HistoryInv, HasHeard, Has
    <3>2. CASE k = n /\ e = d /\ stored
      BY <1>2, <1>3, <1>5, <3>2
    <3>3. QED BY <1>1, <1>5, <3>1, <3>2 DEF refused
  <2>2. QED BY <2>1 DEF HasHeard, Tell
<1>11. OwnerHeard'
  <2>1. ASSUME NEW x, x.reg.signed, x \in sent \/ \E k \in Nodes : x \in heard'[k]
        PROVE  x \in heard'[x.reg.owner]
    <3>1. CASE x = msg
      BY <1>2, <1>3, <1>4, <1>8, <3>1
    <3>2. CASE x \in sent \/ \E k \in Nodes : x \in heard[k]
      <4>1. x \in heard[x.reg.owner] /\ x.reg.owner \in Nodes
        BY <1>1, <2>1, <3>2, MessageTypes DEF HistoryInv, OwnerHeard
      <4>2. QED BY <1>3, <4>1
    <3>3. QED BY <1>3, <2>1, <3>1, <3>2
  <2>2. QED BY <1>1, <2>1 DEF OwnerHeard
<1>12. Ordered'
  <2>1. ASSUME NEW o \in Nodes, NEW e \in Domains, OnlyFrom(o, e, o)',
               NEW x \in heard'[o], NEW y \in heard'[o],
               x.name = e, y.name = e, x.reg.updated <= y.reg.updated
        PROVE  /\ now' <= x.reg.expires => x.reg.expires <= y.reg.expires
               /\ x.reg.updated = y.reg.updated => x = y
    <3>1. OnlyFrom(o, e, o)
      BY <1>3, <2>1, OnlyBefore
    <3>2. x \in heard[o] /\ y \in heard[o]
      <4>1. CASE o = n /\ e = d
        \* The owner is given his own only.
        <5>1. reg.owner = n
          BY <1>3, <1>8, <2>1, <4>1 DEF OnlyFrom
        <5>2. QED BY <1>3, <1>4, <2>1, <4>1, <5>1
      <4>2. CASE o # n \/ e # d
        BY <1>3, <1>8, <2>1, <4>2
      <4>3. QED BY <4>1, <4>2
    <3>3. QED BY <1>1, <2>1, <3>1, <3>2 DEF HistoryInv, Ordered
  <2>2. QED BY <2>1 DEF Ordered
<1>13. HasNewest'
  <2>1. ASSUME NEW k \in Nodes, NEW o \in Nodes, NEW e \in Domains, Undisputed(k, e, o)',
               NEW x \in heard'[k], x.name = e, now' <= x.reg.expires
        PROVE  Has(k, e)' /\ x.reg.updated <= names'[k][e].updated
    <3>1. Undisputed(k, e, o)
      BY <1>3, <2>1, OnlyBefore DEF Undisputed
    <3>2. x \in heard[k] => Has(k, e) /\ x.reg.updated <= names[k][e].updated
      BY <1>1, <2>1, <3>1 DEF HistoryInv, HasNewest
    <3>3. x \in heard[k] \/ (x = msg /\ k = n /\ e = d)
      BY <1>3, <1>8, <2>1
    <3>4. CASE k = n /\ e = d /\ stored
      <4>1. names'[k][e] = reg /\ Has(k, e)'
        BY <1>5, <1>7, <3>4 DEF Has
      <4>2. CASE x = msg
        BY <1>2, <1>8, <4>1, <4>2
      <4>3. CASE x \in heard[k]
        <5>1. names[n][d].updated \in Nat /\ names[n][d].updated <= reg.updated
          BY <1>1, <1>2, <3>2, <3>4, <4>3, RegOf DEF stored
        <5>2. x.reg.updated <= names[n][d].updated /\ x.reg.updated \in Nat
          BY <1>6, <3>2, <3>4, <4>3
        <5>3. QED BY <1>2, <3>4, <4>1, <5>1, <5>2
      <4>4. QED BY <3>3, <4>2, <4>3
    <3>5. CASE k = n /\ e = d /\ refused
      <4>1. Has(k, e)' /\ names'[k][e] = names[k][e] /\ Has(n, d)
            /\ names[n][d].updated > reg.updated
        BY <3>5 DEF refused, Has
      <4>2. names[n][d].updated \in Nat
        BY <1>1, <1>2, <4>1, RegOf
      <4>3. QED BY <1>2, <1>8, <3>2, <3>3, <3>5, <4>1, <4>2
    <3>6. CASE k # n \/ e # d
      BY <1>5, <3>2, <3>3, <3>6 DEF Has
    <3>7. QED BY <1>1, <3>4, <3>5, <3>6
  <2>2. QED BY <2>1 DEF HasNewest
<1>14. Lasts
  <2>1. ASSUME NEW k \in Nodes, NEW e \in Domains, NEW o, o = names[k][e].owner,
               Has(k, e), names[k][e].signed, now' <= names[k][e].expires
        PROVE  /\ Has(k, e)'
               /\ \/ now' <= names'[k][e].expires
                  \/ names'[k][e].owner # o
                  \/ ~OnlyFrom(o, e, o)
    <3>1. CASE names'[k][e] = names[k][e]
      BY <2>1, <3>1 DEF Has
    <3>2. CASE k = n /\ e = d /\ stored
      <4>1. names'[k][e] = reg /\ Has(k, e)'
        BY <1>5, <1>7, <3>2 DEF Has
      <4>2. ASSUME reg.owner = o, OnlyFrom(o, e, o)
            PROVE  now' <= reg.expires
        <5> DEFINE old == Tell(d, names[n][d])
        <5>1. /\ old.name = d /\ old.reg = names[n][d]
              /\ names[n][d].updated \in Nat /\ names[n][d].expires \in Nat
              /\ o \in Nodes
          BY <1>1, <1>2, <2>1, <3>2, RegOf, TellTypes
        <5>2. old \in heard[n]
          BY <1>2, <2>1, <3>2 DEF HistoryInv, HasHeard
        <5> HIDE DEF old
        <5>3. old \in heard[o] /\ msg \in heard[o]
          BY <1>4, <2>1, <3>2, <4>2, <5>1, <5>2 DEF HistoryInv, OwnerHeard
        <5>4. names[n][d].updated <= reg.updated
          BY <2>1, <3>2 DEF stored
        <5>5. names[n][d].expires <= reg.expires
          BY <1>1, <1>2, <1>8, <2>1, <3>2, <4>2, <5>1, <5>3, <5>4 DEF HistoryInv, Ordered
        <5>6. QED BY <1>1, <1>2, <2>1, <3>2, <5>1, <5>5
      <4>3. QED BY <4>1, <4>2
    <3>3. QED BY <1>1, <1>5, <3>1, <3>2 DEF refused
  <2>2. QED BY <2>1 DEF Lasts
<1>15. QED BY <1>9, <1>10, <1>11, <1>12, <1>13, <1>14 DEF HistoryInv

\* What is cleaned has run out, and with it all that is older.
LEMMA CleanKeeps ==
  ASSUME NamesInv, HistoryInv, NEW n \in Nodes, CleanExpired(n)
  PROVE  HistoryInv' /\ Lasts
<1>1. /\ TypeOK /\ now \in Nat /\ now' = now /\ sent' = sent /\ heard' = heard
  BY DEF CleanExpired, NamesInv, TypeOK
<1>2. \A k \in Nodes, d \in Domains :
        /\ names'[k][d] = names[k][d] \/ (names'[k][d] = NoReg /\ k = n /\ Expired(n, d))
        /\ ~(k = n /\ Expired(n, d)) => names'[k][d] = names[k][d]
  <2>1. names' = [names EXCEPT ![n] =
          [d \in Domains |-> IF Expired(n, d) THEN NoReg ELSE names[n][d]]]
    BY DEF CleanExpired
  <2>2. names \in [Nodes -> [Domains -> Registration \cup {NoReg}]]
    BY <1>1 DEF TypeOK
  <2>3. QED BY <2>1, <2>2
<1>3. HeardBefore' /\ OwnerHeard' /\ Ordered'
  BY <1>1 DEF HistoryInv, HeardBefore, OwnerHeard, Ordered, OnlyFrom
<1>4. HasHeard'
  BY <1>1, <1>2 DEF HistoryInv, HasHeard, Has, Tell
<1>5. HasNewest'
  <2>1. ASSUME NEW k \in Nodes, NEW o \in Nodes, NEW e \in Domains, Undisputed(k, e, o),
               NEW x \in heard[k], x.name = e, now <= x.reg.expires
        PROVE  Has(k, e)' /\ x.reg.updated <= names'[k][e].updated
    <3> DEFINE r == Tell(e, names[k][e])
    <3>1. Has(k, e) /\ x.reg.updated <= names[k][e].updated
      BY <2>1 DEF HistoryInv, HasNewest
    <3>2. r \in heard[k] /\ r.name = e /\ r.reg = names[k][e]
      BY <1>1, <3>1, RegOf, TellTypes DEF HistoryInv, HasHeard
    <3> HIDE DEF r
    <3>3. r \in heard[o] /\ x \in heard[o]
      BY <2>1, <3>2 DEF Undisputed, OnlyFrom, HistoryInv, OwnerHeard
    <3>4. x.reg.expires <= names[k][e].expires
      BY <2>1, <3>1, <3>2, <3>3 DEF Undisputed, HistoryInv, Ordered
    <3>5. x.reg.expires \in Nat /\ names[k][e].expires \in Nat
      BY <1>1, <2>1, <3>1, MessageTypes, RegOf
    <3>6. ~Expired(k, e)
      BY <1>1, <2>1, <3>4, <3>5 DEF Expired
    <3>7. QED BY <1>2, <3>1, <3>6 DEF Has
  <2>2. QED BY <1>1, <2>1 DEF HasNewest, Undisputed, OnlyFrom
<1>6. Lasts
  <2>1. ASSUME NEW k \in Nodes, NEW e \in Domains, Has(k, e), now' <= names[k][e].expires
        PROVE  Has(k, e)' /\ now' <= names'[k][e].expires
    <3>1. ~Expired(k, e)
      BY <1>1, <2>1, RegOf DEF Expired
    <3>2. QED BY <1>2, <2>1, <3>1 DEF Has
  <2>2. QED BY <2>1 DEF Lasts
<1>7. QED BY <1>3, <1>4, <1>5, <1>6 DEF HistoryInv

LEMMA LookupKeeps ==
  ASSUME NamesInv, HistoryInv, NEW n \in Nodes, NEW d \in Domains, handleNameLookup(n, d)
  PROVE  HistoryInv' /\ Lasts
<1>1. /\ TypeOK /\ Has(n, d) /\ UNCHANGED <<now, names, heard>>
      /\ sent' = sent \cup {Tell(d, names[n][d])}
  BY DEF handleNameLookup, Resolves, Announce, NamesInv
<1>2. Tell(d, names[n][d]) \in heard[n]
  BY <1>1 DEF HistoryInv, HasHeard
<1>3. OwnerHeard'
  BY <1>1, <1>2 DEF HistoryInv, OwnerHeard
<1>4. HeardBefore' /\ HasHeard' /\ Ordered' /\ HasNewest'
  BY <1>1 DEF HistoryInv, HeardBefore, HasHeard, Ordered, HasNewest,
              Has, Undisputed, OnlyFrom, Tell
<1>5. Lasts
  BY <1>1 DEF Lasts, Has
<1>6. QED BY <1>3, <1>4, <1>5 DEF HistoryInv

LEMMA IdleKeeps ==
  ASSUME NamesInv, HistoryInv, UNCHANGED <<names, sent, heard>>,
         now' \in Nat, now <= now'
  PROVE  HistoryInv' /\ Lasts
<1>1. now \in Nat /\ TTL \in Nat
  BY NamesAssumption DEF NamesInv, TypeOK
<1>2. \A k \in Nodes : \A x \in heard[k] : x.reg.updated \in Nat /\ x.reg.expires \in Nat
  BY MessageTypes DEF NamesInv
<1>3. HeardBefore'
  BY <1>1, <1>2 DEF HistoryInv, HeardBefore
<1>4. HasHeard' /\ OwnerHeard'
  BY DEF HistoryInv, HasHeard, OwnerHeard, Has, Tell
<1>5. \A k \in Nodes : \A x \in heard[k] : now' <= x.reg.expires => now <= x.reg.expires
  BY <1>1, <1>2
<1>6. Ordered'
  BY <1>5 DEF HistoryInv, Ordered, OnlyFrom
<1>7. HasNewest'
  BY <1>5 DEF HistoryInv, HasNewest, Has, Undisputed, OnlyFrom
<1>8. Lasts
  BY DEF Lasts, Has
<1>9. QED BY <1>3, <1>4, <1>6, <1>7, <1>8 DEF HistoryInv

LEMMA HistoryStep == NamesInv /\ HistoryInv /\ [Next]_vars => HistoryInv' /\ Lasts
<1> SUFFICES ASSUME NamesInv, HistoryInv, [Next]_vars PROVE HistoryInv' /\ Lasts
  OBVIOUS
<1>1. ASSUME NEW n \in Nodes, NEW d \in Domains,
             Owner(n, d) \/ syncDomainsFromURL(n, d)
      PROVE  HistoryInv' /\ Lasts
  BY <1>1, OwnerMakes, ImportMakes, MakeKeeps
<1>2. ASSUME NEW n \in Nodes, NEW d \in Domains, handleNameLookup(n, d)
      PROVE  HistoryInv' /\ Lasts
  BY <1>2, LookupKeeps
<1>3. ASSUME NEW n \in Nodes, NEW msg \in sent, AddRegistration(n, msg)
      PROVE  HistoryInv' /\ Lasts
  BY <1>3, AddKeeps
<1>4. ASSUME NEW n \in Nodes, CleanExpired(n) PROVE HistoryInv' /\ Lasts
  BY <1>4, CleanKeeps
<1>5. CASE Tick
  <2>1. now' \in Nat /\ now <= now'
    BY <1>5, StampStep DEF Tick, NamesInv
  <2>2. QED BY <1>5, <2>1, IdleKeeps DEF Tick
<1>6. CASE UNCHANGED vars
  <2>1. now' \in Nat /\ now <= now'
    BY <1>6 DEF vars, NamesInv, TypeOK
  <2>2. QED BY <1>6, <2>1, IdleKeeps DEF vars
<1>7. QED BY <1>1, <1>2, <1>3, <1>4, <1>5, <1>6 DEF Next

\* The invariant of what was heard.
THEOREM HistoryInvariant == Spec => []HistoryInv
<1>1. Init => HistoryInv
  BY InitHistory
<1>2. NamesInv /\ HistoryInv /\ [Next]_vars => HistoryInv'
  BY HistoryStep
<1>3. QED BY <1>1, <1>2, NamesInvariant, PTL DEF Spec

\* What resolves under an undisputed name is the newest that was heard of it.
LEMMA Resolved ==
  ASSUME NamesInv, HistoryInv, NEW n \in Nodes, NEW m \in Nodes, NEW o \in Nodes,
         NEW d \in Domains, heard[n] = heard[m], Undisputed(n, d, o), Resolves(n, d)
  PROVE  Resolves(m, d) /\ names[m][d] = names[n][d]
<1> DEFINE x == Tell(d, names[n][d])
           y == Tell(d, names[m][d])
<1>1. /\ TypeOK /\ now \in Nat /\ Has(n, d) /\ now <= names[n][d].expires
  BY DEF NamesInv, TypeOK, Resolves
<1>2. x \in heard[n] /\ x.name = d /\ x.reg = names[n][d] /\ x = Tell(d, names[n][d])
  BY <1>1, RegOf, TellTypes DEF HistoryInv, HasHeard
<1>3. Undisputed(m, d, o)
  BY DEF Undisputed, OnlyFrom
<1> HIDE DEF x
<1>4. Has(m, d) /\ names[n][d].updated <= names[m][d].updated
  BY <1>1, <1>2, <1>3 DEF HistoryInv, HasNewest
<1>5. y \in heard[m] /\ y.name = d /\ y.reg = names[m][d] /\ y = Tell(d, names[m][d])
  BY <1>1, <1>4, RegOf, TellTypes DEF HistoryInv, HasHeard
<1> HIDE DEF y
<1>6. x \in heard[o] /\ y \in heard[o]
  BY <1>2, <1>5 DEF Undisputed, OnlyFrom, HistoryInv, OwnerHeard
<1>7. /\ names[n][d].updated \in Nat /\ names[n][d].expires \in Nat
      /\ names[m][d].updated \in Nat /\ names[m][d].expires \in Nat
  BY <1>1, <1>4, RegOf
<1>8. OnlyFrom(o, d, o)
  BY DEF Undisputed
<1>9. names[n][d].expires <= names[m][d].expires
  BY <1>1, <1>2, <1>4, <1>5, <1>6, <1>8 DEF HistoryInv, Ordered
<1>10. now <= names[m][d].expires
  BY <1>1, <1>7, <1>9
<1>11. names[m][d].updated <= names[n][d].updated
  BY <1>5, <1>10 DEF HistoryInv, HasNewest
<1>12. names[n][d].updated = names[m][d].updated
  BY <1>4, <1>7, <1>11
<1>13. x = y
  BY <1>2, <1>4, <1>5, <1>6, <1>8, <1>12 DEF HistoryInv, Ordered
<1>14. QED BY <1>2, <1>4, <1>5, <1>10, <1>13 DEF Resolves

\* Nodes that have heard the same of a name nobody disputes resolve the same,
\* in whatever order it came and whatever each has cleaned away
\* (AddRegistration, CleanExpired).
THEOREM NamesAgree == Spec => []Agreement
<1>1. NamesInv /\ HistoryInv => Agreement
  <2> SUFFICES ASSUME NamesInv, HistoryInv, NEW n \in Nodes, NEW m \in Nodes,
                      NEW o \in Nodes, NEW d \in Domains,
                      heard[n] = heard[m], Undisputed(n, d, o)
               PROVE  Answer(n, d) = Answer(m, d)
    BY DEF Agreement
  <2>1. Undisputed(m, d, o)
    BY DEF Undisputed, OnlyFrom
  <2>2. QED BY <2>1, Resolved DEF Answer
<1>2. QED BY <1>1, NamesInvariant, HistoryInvariant, PTL

\* A name lasts its term, whatever is heard of it from its undisputed owner
\* (RegistrationTTL; Update, Renew, AddRegistration, CleanExpired).
THEOREM TermsLast == Spec => RegistrationLasts
<1>1. NamesInv /\ HistoryInv /\ [Next]_vars =>
        [\A n \in Nodes, d \in Domains :
           LET o == names[n][d].owner
           IN  (Has(n, d) /\ names[n][d].signed /\ now' <= names[n][d].expires) =>
                 /\ Has(n, d)'
                 /\ \/ now' <= names'[n][d].expires
                    \/ names'[n][d].owner # o
                    \/ ~OnlyFrom(o, d, o)]_vars
  BY HistoryStep DEF Lasts
<1>2. QED BY <1>1, NamesInvariant, HistoryInvariant, PTL DEF Spec, RegistrationLasts
=============================================================================
