-------------------------------- MODULE Names --------------------------------
(***************************************************************************)
(* .kyk domains: the NameService of every node                             *)
(* (src/internal/names/names.go), the registrations that travel between    *)
(* them (MsgTypeNameReg by gossip or broadcast, MsgTypeNameReply on a      *)
(* lookup) and the import of the bootstrap node's list over HTTP.          *)
(*                                                                         *)
(* NameService holds ns.mu in every operation, so each is one step of one  *)
(* node.  The network may lose, delay, reorder and repeat a registration:  *)
(* what was sent stays in `sent` and may be received any number of times.  *)
(* Clocks agree and no two stamps are equal (they have nanoseconds).  A    *)
(* registration is its owner, whether its signature verifies, and its two  *)
(* times; address, description and metadata take part in no decision.      *)
(***************************************************************************)
EXTENDS Integers

CONSTANTS
  Nodes, Domains,
  Claimants,    \* nodes whose user may register one of the domains
  Bootstrap,    \* the node whose list the others import
  NoReg,        \* no registration under the name
  TTL,          \* RegistrationTTL, in ticks
  MaxTime,      \* bound on the clock
  MaxListed,    \* bound: entries for one name in one owner's list
  Importing,    \* do nodes import the bootstrap's list?
  Transferring  \* does a program call Transfer? (the daemon does not)

ASSUME NamesAssumption ==
  /\ Claimants \subseteq Nodes /\ Bootstrap \in Nodes
  /\ TTL \in Nat /\ MaxTime \in Nat /\ MaxListed \in Nat
  /\ Importing \in BOOLEAN /\ Transferring \in BOOLEAN

\* signed: OwnerKey is there and Signature verifies under it.
Registration ==
  [owner : Nodes, signed : BOOLEAN, updated : Nat, expires : Nat]

ASSUME NoRegAssumption == NoReg \notin Registration

VARIABLES
  now,     \* time.Now()
  names,   \* NameService.names of each node
  listed,  \* NameService.byNodeID: how often a node lists a name for an owner
  sent,    \* registrations that have been put on the network
  heard    \* history: the registrations each node was given or made itself

vars == <<now, names, listed, sent, heard>>

Message == [name : Domains, reg : Registration]

Init ==
  /\ now = 0
  /\ names = [n \in Nodes |-> [d \in Domains |-> NoReg]]
  /\ listed = [n \in Nodes |-> [o \in Nodes |-> [d \in Domains |-> 0]]]
  /\ sent = {}
  /\ heard = [n \in Nodes |-> {}]

Has(n, d) == names[n][d] # NoReg

\* time.Now().Before(reg.ExpiresAt) and its negation, as Register,
\* ImportDomain and ListAll ask.
Taken(n, d) == Has(n, d) /\ now < names[n][d].expires

\* Resolve: time.Now().After(reg.ExpiresAt) is an error.
Resolves(n, d) == Has(n, d) /\ now <= names[n][d].expires

Put(n, d, reg) == names' = [names EXCEPT ![n] = [names[n] EXCEPT ![d] = reg]]

\* The list grows by one entry; nothing looks whether it is there already.
List(n, o, d) ==
  [listed EXCEPT ![n] = [listed[n] EXCEPT ![o] =
                           [listed[n][o] EXCEPT ![d] = listed[n][o][d] + 1]]]

Store(n, d, reg) ==
  /\ listed[n][reg.owner][d] < MaxListed
  /\ Put(n, d, reg)
  /\ listed' = List(n, reg.owner, d)

\* time.Now().Add(RegistrationTTL)
Until == now + TTL

\* The operation reads the clock; the next one reads a later time.
Stamp == now < MaxTime /\ now' = now + 1

Tell(d, reg) == [name |-> d, reg |-> reg]

Announce(d, reg) == sent' = sent \cup {Tell(d, reg)}

Hear(n, msg) == heard' = [heard EXCEPT ![n] = @ \cup {msg}]

-----------------------------------------------------------------------------
(* The user's node.                                                        *)

\* cmdRegister and handleDomainRegister.
Register(n, d) ==
  /\ Stamp
  /\ n \in Claimants
  /\ ~Taken(n, d)
  /\ LET reg == [owner |-> n, signed |-> TRUE,
                 updated |-> now, expires |-> Until]
     IN  /\ Store(n, d, reg)
         /\ Announce(d, reg)
         /\ Hear(n, Tell(d, reg))

\* Update signs anew, but does not look at the expiry nor at OwnerKey.
Updated(n, d) == [names[n][d] EXCEPT !.updated = now]

Update(n, d) ==
  /\ Stamp
  /\ Has(n, d) /\ names[n][d].owner = n
  /\ Put(n, d, Updated(n, d))
  /\ Hear(n, Tell(d, Updated(n, d)))
  /\ UNCHANGED listed

\* The command line announces what it has updated, if it still resolves.
cmdUpdateDomain(n, d) ==
  /\ Update(n, d)
  /\ IF Resolves(n, d) THEN Announce(d, Updated(n, d)) ELSE UNCHANGED sent

\* The browser interface announces nothing.
handleDomainUpdate(n, d) == Update(n, d) /\ UNCHANGED sent

Renew(n, d) ==
  /\ Stamp
  /\ Has(n, d) /\ names[n][d].owner = n
  /\ LET reg == [names[n][d] EXCEPT !.updated = now, !.expires = Until]
     IN  Put(n, d, reg) /\ Hear(n, Tell(d, reg))
  /\ UNCHANGED listed

handleDomainRenew(n, d) == Renew(n, d) /\ UNCHANGED sent

\* removeFromOwnership takes the first entry only.
Unlisted(n, o, d) == IF listed[n][o][d] > 0 THEN listed[n][o][d] - 1 ELSE 0

Transfer(n, d, m) ==
  /\ Transferring
  /\ Stamp
  /\ Has(n, d) /\ names[n][d].owner = n /\ m # n
  /\ listed[n][m][d] < MaxListed
  /\ LET reg == [names[n][d] EXCEPT !.owner = m, !.signed = FALSE,
                                    !.updated = now]
     IN  Put(n, d, reg) /\ Hear(n, Tell(d, reg))
  /\ listed' = [listed EXCEPT ![n] =
       [o \in Nodes |-> [e \in Domains |->
          CASE o = n /\ e = d -> Unlisted(n, n, d)
            [] o = m /\ e = d -> listed[n][m][d] + 1
            [] OTHER -> listed[n][o][e]]]]
  /\ UNCHANGED sent

-----------------------------------------------------------------------------
(* What other nodes say.                                                   *)

\* Variant: the later arrival wins.
AddRegistrationAnyOrder(n, msg) ==
  /\ msg \in sent /\ msg.reg.signed
  /\ Hear(n, msg)
  /\ Store(n, msg.name, msg.reg)
  /\ UNCHANGED <<now, sent>>

\* Variant: the owner's list is left alone.
AddRegistrationUnlisted(n, msg) ==
  /\ msg \in sent /\ msg.reg.signed
  /\ Hear(n, msg)
  /\ \/ /\ Has(n, msg.name) /\ names[n][msg.name].updated > msg.reg.updated
        /\ UNCHANGED <<names, listed>>
     \/ /\ Has(n, msg.name) => names[n][msg.name].updated <= msg.reg.updated
        /\ Put(n, msg.name, msg.reg)
        /\ UNCHANGED listed
  /\ UNCHANGED <<now, sent>>

\* handleNameReg and handleNameReply: the newer one is kept, whoever owns it
\* and whether it has expired or not.  A signature that does not verify is an
\* error.
AddRegistration(n, msg) ==
  /\ msg \in sent /\ msg.reg.signed
  /\ Hear(n, msg)
  /\ \/ /\ Has(n, msg.name) /\ names[n][msg.name].updated > msg.reg.updated
        /\ UNCHANGED <<names, listed>>
     \/ /\ Has(n, msg.name) => names[n][msg.name].updated <= msg.reg.updated
        /\ Store(n, msg.name, msg.reg)
  /\ UNCHANGED <<now, sent>>

\* Somebody asks, and the node answers with what it has.
handleNameLookup(n, d) ==
  /\ Resolves(n, d)
  /\ Announce(d, names[n][d])
  /\ UNCHANGED <<now, names, listed, heard>>

\* Search, for anything: what has run out is left out.
Search(n) == {d \in Domains : Resolves(n, d)}

\* What the bootstrap's list tells of a name.  Of its two times the dates alone,
\* which do not parse as the RFC 3339 times expected of them.
handleDomains == [d \in Search(Bootstrap) |-> names[Bootstrap][d].owner]

\* A copy without key and signature; both its times are zero, and it starts a
\* term of its own.
ImportDomain(n, d, owner) ==
  /\ Stamp
  /\ ~Taken(n, d)
  /\ LET reg == [owner |-> owner, signed |-> FALSE,
                 updated |-> now, expires |-> Until]
     IN  Store(n, d, reg) /\ Hear(n, Tell(d, reg))
  /\ UNCHANGED sent

syncDomainsFromURL(n, d) ==
  /\ Importing /\ n # Bootstrap
  /\ d \in DOMAIN handleDomains
  /\ ~Resolves(n, d)
  /\ ImportDomain(n, d, handleDomains[d])

\* Variant: a name may be cleaned before it stops resolving.
ExpiredEarly(n, d) == Has(n, d) /\ now >= names[n][d].expires

Expired(n, d) == Has(n, d) /\ now > names[n][d].expires

\* Node.maintenance, every 30 seconds.
CleanExpired(n) ==
  /\ \E d \in Domains : Expired(n, d)
  /\ names' = [names EXCEPT ![n] =
       [d \in Domains |-> IF Expired(n, d) THEN NoReg ELSE names[n][d]]]
  /\ listed' = [listed EXCEPT ![n] =
       [o \in Nodes |-> [d \in Domains |->
          IF Expired(n, d) /\ names[n][d].owner = o
          THEN Unlisted(n, o, d) ELSE listed[n][o][d]]]]
  /\ UNCHANGED <<now, sent, heard>>

Tick == Stamp /\ UNCHANGED <<names, listed, sent, heard>>

Owner(n, d) ==
  \/ Register(n, d)
  \/ cmdUpdateDomain(n, d)
  \/ handleDomainUpdate(n, d)
  \/ handleDomainRenew(n, d)
  \/ \E m \in Nodes : Transfer(n, d, m)

Next ==
  \/ \E n \in Nodes, d \in Domains :
       Owner(n, d) \/ handleNameLookup(n, d) \/ syncDomainsFromURL(n, d)
  \/ \E n \in Nodes, msg \in sent : AddRegistration(n, msg)
  \/ \E n \in Nodes : CleanExpired(n)
  \/ Tick

Spec == Init /\ [][Next]_vars

-----------------------------------------------------------------------------
TypeOK ==
  /\ now \in Nat
  /\ names \in [Nodes -> [Domains -> Registration \cup {NoReg}]]
  /\ listed \in [Nodes -> [Nodes -> [Domains -> Nat]]]
  /\ sent \subseteq Message
  /\ heard \in [Nodes -> SUBSET Message]

\* A node that knows a registration lists it for its owner: MyDomains never
\* misses one, whatever was replaced, transferred, imported or cleaned before
\* (the entries of byNodeID come and go separately from those of names).
OwnedIsListed ==
  \A n \in Nodes, d \in Domains :
    Has(n, d) => listed[n][names[n][d].owner][d] > 0

\* A node never goes back to an older registration (AddRegistration against
\* the node's own stamps and the import).
NeverOlder ==
  [][\A n \in Nodes, d \in Domains :
       (Has(n, d) /\ Has(n, d)') =>
          names'[n][d].updated >= names[n][d].updated]_vars

\* All that n has heard of the name comes from o, and o signed it.
OnlyFrom(n, d, o) ==
  \A msg \in heard[n] : msg.name = d => msg.reg.signed /\ msg.reg.owner = o

\* Nobody but o ever claimed the name to o itself or to n.
Undisputed(n, d, o) == OnlyFrom(n, d, o) /\ OnlyFrom(o, d, o)

\* Nodes that know the same of a name nobody else claims, in whatever order and
\* with whatever delay against the expiry they came to know it, resolve the
\* same (AddRegistration and CleanExpired).
Answer(n, d) == IF Resolves(n, d) THEN names[n][d] ELSE NoReg

Agreement ==
  \A n, m, o \in Nodes, d \in Domains :
    (heard[n] = heard[m] /\ Undisputed(n, d, o)) => Answer(n, d) = Answer(m, d)

\* names.go:29, "RegistrationTTL is how long a registration lasts": a name a
\* node resolves stays resolvable there until it expires, unless another owner
\* takes its place, there or at its owner's (who may then be left with an older
\* copy of his own, and update that).
RegistrationLasts ==
  [][\A n \in Nodes, d \in Domains :
       LET o == names[n][d].owner
       IN  (Has(n, d) /\ names[n][d].signed /\ now' <= names[n][d].expires) =>
             /\ Has(n, d)'
             /\ \/ now' <= names'[n][d].expires
                \/ names'[n][d].owner # o
                \/ ~OnlyFrom(o, d, o)]_vars
=============================================================================
