------------------------------ MODULE OidcIdentity ------------------------------
(***************************************************************************)
(* From a verified OIDC token to a local principal: OidcIdentityService,   *)
(* the principal JwtVerifierService builds from its answer, and the users  *)
(* table of identity-core under them, which administrators change at the   *)
(* same time.  A login is a sequence of database calls; a transaction is   *)
(* one step, its unique indexes deciding at the insert.                    *)
(*                                                                         *)
(* A delegated login (mapVerifiedIdentityToLocalPrincipal) has no subject  *)
(* and goes by its email alone.                                            *)
(***************************************************************************)
EXTENDS OidcIdentityInputs, Naturals, FiniteSets

(* Emails are unique, so these ids suffice; ids are handed out in order, 0 is no id. *)
UserIds == 1..(Cardinality(Emails) + MaxRemovals)

VARIABLES
    exists, active, nextId,  \* the users table: its rows, those with isActive
    email, born,             \* ... their emails; history: whose login provisioned a row
    mapping, legacy,         \* oidc_identities, and the rows with linkedFromLegacyEmail
    pc, token, found,        \* a login: its next call, its token, the account it is about
    removals, faults,
    overtaken                \* history: identities whose live mapping was dropped

userVars    == <<exists, active, nextId, email, born>>
mappingVars == <<mapping, legacy, overtaken>>
loginVars   == <<pc, token, found>>
vars == <<userVars, mappingVars, loginVars, removals, faults>>

Stage == {"idle", "mapping", "account", "drop", "email", "link_legacy", "provision",
          "winner", "link", "reread", "principal"}

NoToken == CHOOSE t \in Tokens : TRUE

(* The rows' types and the unique index on users.email. *)
TypeOK ==
    /\ exists \subseteq UserIds /\ active \subseteq exists /\ nextId \in Nat \ {0}
    /\ email \in [UserIds -> Emails] /\ born \in [UserIds -> Subjects \cup {NoSubject}]
    /\ \A u, v \in exists : email[u] = email[v] => u = v
    /\ mapping \in [Subjects -> UserIds \cup {0}] /\ legacy \subseteq Subjects
    /\ overtaken \subseteq Subjects
    /\ pc \in [Logins -> Stage] /\ token \in [Logins -> Tokens]
    /\ found \in [Logins -> UserIds \cup {0}]
    /\ removals \in 0..MaxRemovals /\ faults \in 0..MaxFailures

Init ==
    /\ exists = {} /\ active = {} /\ nextId = 1
    /\ email = [u \in UserIds |-> CHOOSE e \in Emails : TRUE]
    /\ born = [u \in UserIds |-> NoSubject]
    /\ mapping = [k \in Subjects |-> 0] /\ legacy = {} /\ overtaken = {}
    /\ pc = [l \in Logins |-> "idle"] /\ token = [l \in Logins |-> NoToken]
    /\ found = [l \in Logins |-> 0]
    /\ removals = 0 /\ faults = 0

--------------------------------------------------------------------------------
(* UsersService *)

Holders(e) == {u \in exists : email[u] = e}
NeverTaken(e) == FALSE             \* mutant: no unique index on email
EmailTaken(e) == Holders(e) # {}

Insert(e, k) ==
    /\ exists' = exists \cup {nextId} /\ active' = active \cup {nextId}
    /\ nextId' = nextId + 1
    /\ email' = [email EXCEPT ![nextId] = e]
    /\ born' = [born EXCEPT ![nextId] = k]

CreateUser(e) ==
    /\ nextId \in UserIds /\ ~EmailTaken(e)
    /\ Insert(e, NoSubject)
    /\ UNCHANGED <<mappingVars, loginVars, removals, faults>>

SetActive(u, b) ==
    /\ u \in exists
    /\ active' = IF b THEN active \cup {u} ELSE active \ {u}
    /\ UNCHANGED <<exists, nextId, email, born, mappingVars, loginVars, removals, faults>>

(* oidc_identities has no foreign key: a mapping outlives its account. *)
RemoveUser(u) ==
    /\ u \in exists /\ removals < MaxRemovals
    /\ exists' = exists \ {u} /\ active' = active \ {u}
    /\ removals' = removals + 1
    /\ UNCHANGED <<nextId, email, born, mappingVars, loginVars, faults>>

--------------------------------------------------------------------------------
(* A login *)

Sub(l)  == token[l].sub
Mail(l) == token[l].email

Goto(l, stage) == pc' = [pc EXCEPT ![l] = stage] /\ UNCHANGED token
GotoWith(l, stage, u) == Goto(l, stage) /\ found' = [found EXCEPT ![l] = u]

(* The login returns or throws; only Principal can end it well. *)
End(l) ==
    /\ pc' = [pc EXCEPT ![l] = "idle"] /\ found' = [found EXCEPT ![l] = 0]
    /\ token' = [token EXCEPT ![l] = NoToken]

Begin(l, t) ==
    /\ pc[l] = "idle"
    /\ pc' = [pc EXCEPT ![l] = IF t.sub = NoSubject THEN "email" ELSE "mapping"]
    /\ token' = [token EXCEPT ![l] = t]
    /\ UNCHANGED <<userVars, mappingVars, found, removals, faults>>

(* Only a verified email may lead to an account. *)
TrustedAlways(l) == TRUE           \* mutant: emailVerified is not looked at
Trusted(l) == token[l].verified
ByEmail(l) == IF Trusted(l) THEN GotoWith(l, "email", 0) ELSE End(l)

FindMapping(l) ==
    /\ pc[l] = "mapping"
    /\ IF mapping[Sub(l)] = 0 THEN ByEmail(l) ELSE GotoWith(l, "account", mapping[Sub(l)])
    /\ UNCHANGED <<userVars, mappingVars, removals, faults>>

ThereIfActive(u) == u \in active   \* mutant: a disabled account counts as missing
AccountThere(u) == u \in exists
DeadEnd == "principal"             \* mutant: a dangling mapping still wins
OnMissing == "drop"

FindAccount(l) ==
    /\ pc[l] = "account"
    /\ Goto(l, IF AccountThere(found[l]) THEN "principal" ELSE OnMissing)
    /\ UNCHANGED <<userVars, mappingVars, found, removals, faults>>

(* The delete names the identity, not the account it was read to map to; without a row
   it rejects. *)
Drop(l) ==
    /\ pc[l] = "drop"
    /\ IF mapping[Sub(l)] = 0 THEN End(l) /\ UNCHANGED mappingVars
       ELSE /\ mapping' = [mapping EXCEPT ![Sub(l)] = 0]
            /\ legacy' = legacy \ {Sub(l)}
            /\ overtaken' = IF mapping[Sub(l)] \in exists THEN overtaken \cup {Sub(l)}
                            ELSE overtaken
            /\ ByEmail(l)
    /\ UNCHANGED <<userVars, removals, faults>>

(* findByEmail, before provisioning (first) or after it failed. *)
UseAccount(l, u, stage) ==
    IF u \notin active THEN End(l)
    ELSE GotoWith(l, IF Sub(l) = NoSubject THEN "principal" ELSE stage, u)

FindByEmail(l) ==
    /\ pc[l] = "email"
    /\ \/ ~EmailTaken(Mail(l)) /\ GotoWith(l, "provision", 0)
       \/ \E u \in Holders(Mail(l)) : UseAccount(l, u, "link_legacy")
    /\ UNCHANGED <<userVars, mappingVars, removals, faults>>

FindWinner(l) ==
    /\ pc[l] = "winner"
    /\ \/ ~EmailTaken(Mail(l)) /\ End(l)
       \/ \E u \in Holders(Mail(l)) : UseAccount(l, u, "link")
    /\ UNCHANGED <<userVars, mappingVars, removals, faults>>

Fault == faults < MaxFailures /\ faults' = faults + 1

(* Account, mapping and audit record in one transaction; a delegated login has no
   mapping to write, and its audit record is written afterwards at best effort. *)
CanInsert(l) ==
    /\ nextId \in UserIds /\ ~EmailTaken(Mail(l))
    /\ Sub(l) # NoSubject => mapping[Sub(l)] = 0

MapTo(l, u, flag) ==
    /\ mapping' = [mapping EXCEPT ![Sub(l)] = u]
    /\ legacy' = IF flag THEN legacy \cup {Sub(l)} ELSE legacy
    /\ UNCHANGED overtaken

Provision(l) ==
    /\ pc[l] = "provision" /\ CanInsert(l)
    /\ Insert(Mail(l), Sub(l))
    /\ IF Sub(l) = NoSubject THEN UNCHANGED mappingVars ELSE MapTo(l, nextId, FALSE)
    /\ GotoWith(l, "principal", nextId)
    /\ UNCHANGED <<removals, faults>>

AccountStays(l) == Insert(Mail(l), Sub(l))    \* mutant: the account has a transaction of its own
RollsBack(l) == UNCHANGED userVars

ProvisionFails(l) ==
    /\ pc[l] = "provision"
    /\ \/ /\ ~CanInsert(l) /\ UNCHANGED <<faults, userVars>>
       \/ /\ CanInsert(l) /\ Fault /\ RollsBack(l)
    /\ GotoWith(l, "winner", 0)
    /\ UNCHANGED <<mappingVars, removals>>

Link(l) ==
    /\ pc[l] \in {"link", "link_legacy"} /\ mapping[Sub(l)] = 0
    /\ MapTo(l, found[l], pc[l] = "link_legacy")
    /\ Goto(l, "principal")
    /\ UNCHANGED <<userVars, found, removals, faults>>

LinkFails(l) ==
    /\ pc[l] \in {"link", "link_legacy"}
    /\ IF mapping[Sub(l)] # 0 THEN UNCHANGED faults ELSE Fault
    /\ Goto(l, "reread")
    /\ UNCHANGED <<userVars, mappingVars, found, removals>>

Reread(l) ==
    /\ pc[l] = "reread"
    /\ \/ mapping[Sub(l)] = 0 /\ End(l)
       \/ mapping[Sub(l)] = found[l] /\ GotoWith(l, "principal", found[l])
       \/ mapping[Sub(l)] \notin {0, found[l]} /\ End(l)
    /\ UNCHANGED <<userVars, mappingVars, removals, faults>>

(* buildPrincipal *)
Succeeds(l) == pc[l] = "principal" /\ found[l] \in active
Principal(l) ==
    /\ pc[l] = "principal"
    /\ End(l)
    /\ UNCHANGED <<userVars, mappingVars, removals, faults>>

--------------------------------------------------------------------------------
Login(l) ==
    \/ FindMapping(l) \/ FindAccount(l) \/ Drop(l) \/ FindByEmail(l) \/ FindWinner(l)
    \/ Provision(l) \/ ProvisionFails(l) \/ Link(l) \/ LinkFails(l) \/ Reread(l)
    \/ Principal(l)

Admin ==
    \/ \E e \in Emails : CreateUser(e)
    \/ \E u \in UserIds : RemoveUser(u) \/ \E b \in BOOLEAN : SetActive(u, b)

Next == Admin \/ \E l \in Logins : Login(l) \/ \E t \in Tokens : Begin(l, t)

Spec == Init /\ [][Next]_vars

(* Database calls return, and whoever wants to log in tries again; Begin is strongly
   fair because only so many logins of the instance run at once. *)
Fairness ==
    /\ \A l \in Logins : WF_vars(Login(l))
    /\ \A t \in Tokens : SF_vars(\E l \in Logins : Begin(l, t))
FairSpec == Spec /\ Fairness

--------------------------------------------------------------------------------
(* Properties *)

(* An external identity reaches an account through an email it has proved to own, or not
   at all: neither races nor removals map it to anybody else's. *)
MappedByVerifiedEmail ==
    \A k \in Subjects :
        mapping[k] # 0 =>
            \E t \in Tokens : t.sub = k /\ t.verified /\ t.email = email[mapping[k]]

(* "Drop the dangling row": a mapping is only changed while its account is there by a
   login that had found another account of this identity missing. *)
LiveMappingKept ==
    [][\A s \in Subjects :
          mapping[s] \in exists /\ mapping'[s] # mapping[s]
          => \E l \in Logins : /\ pc[l] = "drop" /\ Sub(l) = s
                               /\ found[l] \notin exists \cup {mapping[s]}]_vars

(* linkedFromLegacyEmail, "the number they steer by": an identity is not counted as linked
   to an existing account its own login provisioned, whatever failed or raced in between,
   unless its mapping was dropped while the account was there. *)
NotInflated ==
    \A k \in legacy \ overtaken : mapping[k] \in exists => born[mapping[k]] # k

(* "The loser must not fail a login that is perfectly valid", for good: when
   administrators let things be and nobody is disabled, whoever has a verified email gets
   in, over dangling mappings, lost races and failed transactions. *)
LoginsHeal ==
    <>[][~Admin]_vars /\ <>[](active = exists)
    => \A t \in Tokens : t.verified =>
          []<>(\E l \in Logins : token[l] = t /\ Succeeds(l))

(* "An IdP-side email change must not create a second account". *)
NoSecondAccount ==
    \A k \in Subjects : \A u, v \in exists : born[u] = k /\ born[v] = k => u = v
================================================================================
