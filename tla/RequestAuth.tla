------------------------------ MODULE RequestAuth ------------------------------
(***************************************************************************)
(* How a request of an App is authenticated and authorised: the strategy   *)
(* registry and the guards of plugin-host-nest, the OIDC strategy with     *)
(* JwtVerifierService, the API key strategy, its limiter and the older     *)
(* ApiKeyGuard, and the guards a route adds: system administrators,        *)
(* permissions, scopes, domain events, metadata.                           *)
(*                                                                         *)
(* A request is the code between two awaits: the fetch of a signing key,   *)
(* the reads of the account, its roles and the key.  Administrators change *)
(* the account and the key meanwhile.  Mapping an external identity to the *)
(* account is OidcIdentity; here a login's account is known.               *)
(***************************************************************************)
EXTENDS Naturals, FiniteSets, Sequences

CONSTANTS
    Requests,
    Apps,           \* Apps: the modules they import, and whether RBAC is among them
    Roles,          \* role names, "ADMIN" among them
    Grant,          \* role -> [policy, permissions]
    Reads,          \* the permissions that end in _READ
    Routes,         \* [kinds, guard, needs, legacy]: what a controller declares
    Credentials,    \* <<token, API key header>>: what requests carry
    Accounts,       \* states of the account: [row, roles]
    KeyRows,        \* states of the API key: [active, until, role, scopes, actor]
    Limit, Window, MaxNow, MaxChanges, MaxFaults, MaxRequests

VARIABLES
    boot,           \* registering, up, or failed
    modules,        \* modules whose onModuleInit is to run
    registered,     \* the registry
    policy,         \* an RBAC policy is installed
    account, key, now,
    bucket,         \* the limiter's window of the key, if any
    request,
    changes, faults, arrived,
    sawAccount, sawKey,  \* history: the states each request has overlapped
    passes          \* history: the times at which the limiter let the key through

vars == <<boot, modules, registered, policy, account, key, now, bucket, request, changes, faults,
          arrived, sawAccount, sawKey, passes>>

world == <<boot, modules, registered, policy, account, key, now, changes, arrived, sawAccount,
           sawKey>>

NoOne == [kind |-> "nobody", roles |-> {}, scopes |-> {}, actor |-> "none"]
Idle == [at |-> "idle", tried |-> {}, asked |-> 0, row |-> {}, who |-> NoOne]

Init ==
    /\ boot = "registering" /\ registered = {}
    /\ \E app \in Apps : modules = app.modules /\ policy = app.policy
    /\ account \in {a \in Accounts : a.row = "active"} /\ key \in {k \in KeyRows : k.active} /\ now = 0
    /\ bucket = {} /\ request = [r \in Requests |-> Idle]
    /\ changes = 0 /\ faults = 0 /\ arrived = 0
    /\ sawAccount = [r \in Requests |-> {}] /\ sawKey = [r \in Requests |-> {}]
    /\ passes = << >>

--------------------------------------------------------------------------------
(* Boot: AuthenticationStrategyRegistry *)

Strategy(m) == [id |-> m.id, kind |-> m.kind]
Named(id) == \E s \in registered : s.id = id
NeverSecond(m) == FALSE                 \* mutant: the kinds are not counted
SecondLogin(m) == m.kind = "interactive" /\ \E s \in registered : s.kind = "interactive"

(* onModuleInit: the modules of this repository ask `has` before they register. *)
Register(m) ==
    /\ boot = "registering" /\ m \in modules
    /\ modules' = modules \ {m}
    /\ IF m.asks /\ Named(m.id) THEN UNCHANGED <<boot, registered>>
       ELSE IF Named(m.id) \/ SecondLogin(m) THEN boot' = "failed" /\ UNCHANGED registered
       ELSE registered' = registered \cup {Strategy(m)} /\ UNCHANGED boot
    /\ UNCHANGED <<policy, account, key, now, bucket, request, changes, faults, arrived,
                   sawAccount, sawKey, passes>>

Listen ==
    /\ boot = "registering" /\ modules = {} /\ boot' = "up"
    /\ UNCHANGED <<modules, registered, policy, account, key, now, bucket, request, changes,
                   faults, arrived, sawAccount, sawKey, passes>>

--------------------------------------------------------------------------------
(* What guards decide on *)

Rank(p) == CASE p = "ALLOW_ALL" -> 2 [] p = "READ_ALL" -> 1 [] p = "DENY_ALL" -> 0

(* buildUserContext; without RBAC a person has no roles. *)
Policy(rs) ==
    LET held == {Grant[r].policy : r \in rs} \cup {"DENY_ALL"}
    IN  CHOOSE p \in held : \A q \in held : Rank(q) <= Rank(p)
PermissionsOf(rs) == UNION {Grant[r].permissions : r \in rs}

(* matchScope; a scope is <<module, action>>, and "*" is <<"*", "*">>. *)
Everything == <<"*", "*">>
ScopeGiven(granted, need) ==
    \/ Everything \in granted
    \/ \E g \in granted : g[1] = need[1] /\ g[2] \in {"*", need[2]}
Scoped(who, needs) == \A n \in needs : ScopeGiven(who.scopes, n)

SystemAdmin(who) == "ADMIN" \in who.roles
PermissionGiven(who, needs) ==
    \/ needs = {} \/ SystemAdmin(who)
    \/ Policy(who.roles) = "ALLOW_ALL"
    \/ Policy(who.roles) = "READ_ALL" /\ needs \cap Reads # {}
    \/ needs \cap PermissionsOf(who.roles) # {}
ScopeGuard(who, needs) == who.kind = "person" \/ (needs # {} /\ Scoped(who, needs))
DomainEventsAdminGuard(who, needs) ==
    \/ who.kind = "person" /\ {"ADMIN", "admin"} \cap who.roles # {}
    \/ who.kind = "machine" /\ needs # {} /\ Scoped(who, needs)
MetadataScopeGuard(who) ==
    who.kind = "person" \/ ScopeGiven(who.scopes, <<"metadata", "read">>)

Authorised(who, route) ==
    CASE route.guard = "none" -> TRUE
      [] route.guard = "admin" -> SystemAdmin(who)
      [] route.guard = "permission" -> PermissionGiven(who, route.needs)
      [] route.guard = "scope" -> ScopeGuard(who, route.needs)
      [] route.guard = "events" -> DomainEventsAdminGuard(who, route.needs)
      [] route.guard = "metadata" -> MetadataScopeGuard(who)

(* resolveActingUserId refuses a key without an account to write for. *)
CanWrite(who) == who.actor # "none"

--------------------------------------------------------------------------------
(* AppspineAuthGuard: interactive strategies, then machine ones, each kind by id. *)

Candidates(route) == {s \in registered : s.kind \in route.kinds}
Before(s, t) ==
    \/ s.kind = "interactive" /\ t.kind = "machine"
    \/ s.kind = t.kind /\ s.id < t.id
Untried(q) == {s \in Candidates(q.route) : s.id \notin q.tried}
IsNext(s, q) == s \in Untried(q) /\ \A t \in Untried(q) \ {s} : Before(s, t)

Set(r, q) == request' = [request EXCEPT ![r] = q]
Refuse(r, status) == Set(r, [request[r] EXCEPT !.at = status, !.row = {}])

(* attach, the route's guards, and the handler's start: no await in between. *)
Serve(r, who) ==
    IF ~Authorised(who, request[r].route) THEN Refuse(r, "403")
    ELSE IF request[r].route.writes /\ ~CanWrite(who) THEN Refuse(r, "403")
    ELSE Set(r, [request[r] EXCEPT !.at = "served", !.row = {}, !.who = who])

Arrive(r, route, c) ==
    /\ boot = "up" /\ request[r] = Idle /\ arrived < MaxRequests /\ arrived' = arrived + 1
    /\ Set(r, [at |-> "guard", tried |-> {}, asked |-> 0, row |-> {}, who |-> NoOne,
               route |-> route, token |-> c[1], header |-> c[2]])
    /\ sawAccount' = [sawAccount EXCEPT ![r] = {account}]
    /\ sawKey' = [sawKey EXCEPT ![r] = {[row |-> key, now |-> now]}]
    /\ UNCHANGED <<boot, modules, registered, policy, account, key, now, bucket, changes, faults, passes>>

Kept == UNCHANGED <<world, bucket, passes>>

(* No strategy is registered, or none recognises a credential. *)
Exhausted(r) ==
    /\ request[r].at = "guard" /\ ~request[r].route.legacy /\ Untried(request[r]) = {}
    /\ Refuse(r, "401")
    /\ Kept /\ UNCHANGED faults

(* OidcInteractiveStrategy.authenticate: one well-formed Bearer header or null. *)
TryLogin(r) ==
    LET q == request[r] IN
    \E s \in registered :
        /\ q.at = "guard" /\ ~q.route.legacy /\ s.kind = "interactive" /\ IsNext(s, q)
        /\ IF q.token = "none" THEN Set(r, [q EXCEPT !.tried = @ \cup {s.id}])
           ELSE IF q.token = "no kid" THEN Refuse(r, "401")
           ELSE Set(r, [q EXCEPT !.at = "jwks"])
        /\ Kept /\ UNCHANGED faults

(* getOidcSigningKey, then the signature with issuer and audience, the authorized party and
   the email, which need no await. *)
LoginStrategies == {s \in registered : s.kind = "interactive"}
OnInvalid(q) == [q EXCEPT !.at = "401"]
VerifyToken(r) ==
    LET q == request[r] IN
    /\ q.at = "jwks"
    /\ \/ /\ IF q.token = "good" THEN Set(r, [q EXCEPT !.at = "account"]) ELSE Set(r, OnInvalid(q))
          /\ UNCHANGED faults
       \/ faults < MaxFaults /\ faults' = faults + 1 /\ Set(r, OnInvalid(q))
    /\ Kept

(* buildPrincipal reads the account, and in another statement its roles. *)
ReadAccount(r) ==
    /\ request[r].at = "account"
    /\ IF account.row = "active" THEN Set(r, [request[r] EXCEPT !.at = "roles"])
       ELSE Refuse(r, "401")
    /\ Kept /\ UNCHANGED faults
ReadRoles(r) ==
    /\ request[r].at = "roles"
    /\ Serve(r, [kind |-> "person", roles |-> IF policy THEN account.roles ELSE {},
                 scopes |-> {}, actor |-> "self"])
    /\ Kept /\ UNCHANGED faults

--------------------------------------------------------------------------------
(* ApiKeyMachineStrategy.authenticate; the limiter.  `now` is taken before the read. *)

Asks(r) == Set(r, [request[r] EXCEPT !.at = "lookup", !.asked = now])
TryKey(r) ==
    LET q == request[r] IN
    \E s \in registered :
        /\ q.at = "guard" /\ ~q.route.legacy /\ s.kind = "machine" /\ IsNext(s, q)
        /\ IF q.header = "none" THEN Set(r, [q EXCEPT !.tried = @ \cup {s.id}])
           ELSE IF q.header = "malformed" \/ ~policy THEN Refuse(r, "401")
           ELSE Asks(r)
        /\ Kept /\ UNCHANGED faults

(* ApiKeyGuard.canActivate, for routes that still name it: false is a 403. *)
LegacyGuard(r) ==
    LET q == request[r] IN
    /\ q.at = "guard" /\ q.route.legacy
    /\ IF q.header \in {"none", "malformed"} \/ ~policy THEN Refuse(r, "403") ELSE Asks(r)
    /\ Kept /\ UNCHANGED faults

Usable(k, t) == k.active /\ k.until > t
LookupKey(r) ==
    LET q == request[r] IN
    /\ q.at = "lookup"
    /\ IF q.header = "known" /\ Usable(key, q.asked)
       THEN Set(r, [q EXCEPT !.at = "limit", !.row = {key}])
       ELSE Refuse(r, IF q.route.legacy THEN "403" ELSE "401")
    /\ Kept /\ UNCHANGED faults

(* ApiKeyRateLimiter.check, and the principal. *)
Stale(b) == now - b.start >= Window
NewBucket == [count |-> 1, start |-> now]
Checked == IF \E b \in bucket : ~Stale(b) THEN {[b EXCEPT !.count = @ + 1] : b \in bucket}
           ELSE {NewBucket}
Allowed(bs) == \A b \in bs : b.count = 1 \/ b.count <= Limit
Limited(r) ==
    LET q == request[r] IN
    /\ q.at = "limit"
    /\ bucket' = Checked
    /\ IF Allowed(Checked)
       THEN /\ \E k \in q.row :
                Serve(r, [kind |-> "machine", roles |-> {k.role}, scopes |-> k.scopes,
                          actor |-> IF k.actor = "active" THEN "bound" ELSE "none"])
            /\ passes' = Append(passes, now)
       ELSE Refuse(r, "429") /\ UNCHANGED passes
    /\ UNCHANGED <<world, faults>>

Evict ==
    /\ \E b \in bucket : now - b.start >= 2 * Window
    /\ bucket' = {}
    /\ UNCHANGED <<world, request, faults, passes>>

--------------------------------------------------------------------------------
(* Meanwhile *)

Open(r) == request[r].at \notin {"idle", "served", "401", "403", "429"}
Witness(a, k, t) ==
    /\ sawAccount' = [r \in Requests |-> IF Open(r) THEN sawAccount[r] \cup {a} ELSE sawAccount[r]]
    /\ sawKey' = [r \in Requests |->
                    IF Open(r) THEN sawKey[r] \cup {[row |-> k, now |-> t]} ELSE sawKey[r]]

ChangeAccount ==
    /\ boot = "up" /\ changes < MaxChanges /\ changes' = changes + 1
    /\ account.row # "gone" /\ \E a \in Accounts : a # account /\ account' = a
    /\ Witness(account', key, now)
    /\ UNCHANGED <<boot, modules, registered, policy, key, now, bucket, request, faults,
                   arrived, passes>>
ChangeKey ==
    /\ boot = "up" /\ changes < MaxChanges /\ changes' = changes + 1
    /\ \E k \in KeyRows : k # key /\ key' = k
    /\ Witness(account, key', now)
    /\ UNCHANGED <<boot, modules, registered, policy, account, now, bucket, request, faults,
                   arrived, passes>>
Tick ==
    /\ boot = "up" /\ now < MaxNow /\ now' = now + 1
    /\ Witness(account, key, now')
    /\ UNCHANGED <<boot, modules, registered, policy, account, key, bucket, request, changes,
                   faults, arrived, passes>>

(* The answer is sent; the next request takes its place. *)
Answered(r) ==
    /\ request[r].at \in {"served", "401", "403", "429"}
    /\ Set(r, Idle)
    /\ sawAccount' = [sawAccount EXCEPT ![r] = {}] /\ sawKey' = [sawKey EXCEPT ![r] = {}]
    /\ UNCHANGED <<boot, modules, registered, policy, account, key, now, bucket, changes, faults,
                   arrived, passes>>

Step(r) ==
    \/ Exhausted(r) \/ TryLogin(r) \/ VerifyToken(r) \/ ReadAccount(r) \/ ReadRoles(r)
    \/ TryKey(r) \/ LegacyGuard(r) \/ LookupKey(r) \/ Limited(r) \/ Answered(r)
    \/ \E route \in Routes, c \in Credentials : Arrive(r, route, c)

Next ==
    \/ \E m \in modules : Register(m)
    \/ Listen \/ Evict \/ ChangeAccount \/ ChangeKey \/ Tick
    \/ \E r \in Requests : Step(r)

Spec == Init /\ [][Next]_vars

--------------------------------------------------------------------------------
(* Properties *)

(* strategy-registry.ts:47-51: an App that listens has one way to log in at most, whatever
   order its modules came in. *)
OneLogin ==
    /\ boot = "up" => Cardinality(LoginStrategies) <= 1
    /\ \A s, t \in registered : s.id = t.id => s = t

Presented(q) == q.token # "none" /\ \E s \in Candidates(q.route) : s.kind = "interactive"

(* strategy-registry.ts:29-32, jwt-verifier.service.ts:165, api-key-machine.strategy.ts:67: who
   is served had, at some moment of the request, the account, the roles or the key it is
   served for, and a key never stands in for a login that was presented and refused. *)
ServedRightly ==
    \A r \in Requests : LET q == request[r] IN q.at = "served" =>
        /\ Authorised(q.who, q.route)
        /\ q.who.kind = "person" =>
            /\ q.token = "good" /\ "interactive" \in q.route.kinds
            /\ \E a \in sawAccount[r] : a.row = "active"
            /\ \E a \in sawAccount[r] : q.who.roles \in {a.roles, {}}
        /\ q.who.kind = "machine" =>
            /\ "machine" \in q.route.kinds /\ ~Presented(q)
            /\ \E s, t \in sawKey[r] :
                Usable(s.row, t.now) /\ q.who.roles = {s.row.role} /\ q.who.scopes = s.row.scopes

Person(rs) == [kind |-> "person", roles |-> rs, scopes |-> {}, actor |-> "self"]

(* jwt-verifier.service.ts:213-236: a good login is refused only for what was true at some
   moment of the request, or for a fetch that failed. *)
RefusedForCause ==
    \A r \in Requests : LET q == request[r] IN
        (q.at \in {"401", "403"} /\ q.token = "good" /\ Presented(q)) =>
            \/ faults > 0
            \/ \E a \in sawAccount[r] : a.row # "active"
            \/ \E a \in sawAccount[r] :
                ~Authorised(Person(IF policy THEN a.roles ELSE {}), q.route)

(* api-key-rate-limiter.ts:21-39: fixed windows let less than twice the limit through in any
   stretch of a window's length. *)
Most == IF Limit = 0 THEN 1 ELSE Limit
LimitHolds ==
    \A i \in DOMAIN passes :
        Cardinality({j \in DOMAIN passes : passes[j] \in passes[i]..(passes[i] + Window - 1)})
            < 2 * Most

AnswersRightly == OneLogin /\ ServedRightly /\ RefusedForCause /\ LimitHolds
================================================================================
