----------------------------- MODULE DelegatedAuth -----------------------------
(***************************************************************************)
(* The endpoints of oidc-auth that accept tokens another App exchanged:    *)
(* validateDelegatedProfiles at boot, DelegatedAuthGuard with the verifier *)
(* and the claim checks, the mapping to a local account (never or just in  *)
(* time, JwtVerifierService.provision) and the bounded security log.       *)
(*                                                                         *)
(* A request is the code between two awaits: the signing key, the lookup   *)
(* by email, the creation of an account, the reads of the account and of   *)
(* its roles.  Other requests and administrators run in between.           *)
(***************************************************************************)
EXTENDS Naturals, FiniteSets

CONSTANTS
    Requests,
    Configurations, \* what forFeature() may be given: functions from names to profiles
    Tokens,         \* claims of the tokens that come
    Emails,
    MaxAgeCap,      \* MAX_TOKEN_AGE_SECONDS
    LogLimit, Window,   \* MAX_EVENTS_PER_BUCKET, WINDOW_MS
    MaxNow, MaxChanges, MaxFaults, MaxRequests

VARIABLES
    profiles,       \* the configuration; empty when boot refused it
    users,          \* email -> [id, active], for the accounts there are
    nextId, now,
    request,
    log,            \* <<profile, category>> -> [count, suppressed, start]
    timer,          \* the flush timer runs
    changes, faults, arrived,
    rejected, lines,    \* history, by <<profile, category>>: rejections; lines and what they sum up
    creators,       \* history: accounts and the profile their request came by
    saw             \* history: what each request could find under its email meanwhile

vars == <<profiles, users, nextId, now, request, log, timer, changes, faults, arrived, rejected,
          lines, creators, saw>>

--------------------------------------------------------------------------------
(* Boot *)

(* validateProfile; `wellFormed` stands for the syntax of urls, names and lists. *)
InNamespace(p) == \A s \in p.scopes : s.in = p.namespace
ValidProfile(p) ==
    /\ p.wellFormed /\ (p.https \/ p.insecure)
    /\ p.clients # {} /\ p.scopes # {}
    /\ p.audience \notin p.more
    /\ InNamespace(p)
    /\ p.maxAge \in 1..MaxAgeCap
    /\ p.tolerance < p.maxAge
    /\ p.provisioning \in {"never", "jit", "absent"}

(* validateDelegatedJwksUrl *)
KeysReachable(c, https) == https \/ \A n \in DOMAIN c : c[n].insecure

ValidConfiguration(c, https) ==
    /\ DOMAIN c # {} /\ \A n \in DOMAIN c : ValidProfile(c[n])
    /\ KeysReachable(c, https)

Resolved(c) ==
    [n \in DOMAIN c |->
        [c[n] EXCEPT !.provisioning = IF @ = "absent" THEN "never" ELSE @]]

Idle == [at |-> "idle"]
LogKeys == {<<n, c>> : n \in UNION {DOMAIN f : f \in Configurations},
                    c \in {"identity_mapping_failed", "token_rejected", "internal_error"}}

Init ==
    /\ \E c \in Configurations, https \in BOOLEAN :
        profiles = IF ValidConfiguration(c, https) THEN Resolved(c) ELSE << >>
    /\ users \in {[e \in S |-> [id |-> 1, active |-> b]] : S \in {{}} \cup {{e} : e \in Emails}, b \in BOOLEAN}
    /\ nextId = 2 /\ now = 0
    /\ request = [r \in Requests |-> Idle]
    /\ log = << >> /\ timer = TRUE
    /\ changes = 0 /\ faults = 0 /\ arrived = 0
    /\ rejected = [k \in LogKeys |-> 0] /\ lines = [k \in LogKeys |-> 0]
    /\ creators = {} /\ saw = [r \in Requests |-> {}]

--------------------------------------------------------------------------------
(* The claims *)

(* verifySignature: RS256, the profile's issuer, and the expiry with its tolerance. *)
Signed(t, p) == t.signed /\ t.issuer = p.issuer /\ now < t.exp + p.tolerance
AccessTokenType(t) == t.typ = "bearer" \/ t.header = "at+jwt"
Audience(t, p) == p.audience \in t.aud /\ t.aud \subseteq {p.audience} \cup p.more
(* azp or client_id, in agreement *)
ClientIds(t) == {t.azp, t.clientId} \ {"none"}
Client(t, p) == Cardinality(ClientIds(t)) = 1 /\ ClientIds(t) \subseteq p.clients
ScopesGranted(t, p) ==
    /\ p.scopes \subseteq t.scopes
    /\ \A s \in t.scopes : s.in = p.namespace => s \in p.scopes
Age(t, p) ==
    /\ t.exp > t.iat
    /\ t.iat <= now + p.tolerance
    /\ t.exp - t.iat <= p.maxAge + p.tolerance
    /\ now <= t.iat + p.maxAge + p.tolerance

Accepted(t, p) ==
    /\ Signed(t, p) /\ AccessTokenType(t) /\ Audience(t, p) /\ Client(t, p)
    /\ t.sub /\ ScopesGranted(t, p) /\ Age(t, p)

--------------------------------------------------------------------------------
(* DelegatedSecurityEventLogger *)

Full(b) == b.count >= LogLimit
Over(b) == now - b.start >= Window
Put(f, k, v) == [x \in DOMAIN f \cup {k} |-> IF x = k THEN v ELSE f[x]]
Add(f, k, n) == [f EXCEPT ![k] = @ + n]

(* The bucket a rejection falls in, and what is summed up when an old one is replaced. *)
Fresh(k) == k \notin DOMAIN log \/ Over(log[k])
Bucket(k) == IF Fresh(k) THEN [count |-> 0, suppressed |-> 0, start |-> now] ELSE log[k]
Summed(k) == IF k \in DOMAIN log /\ Over(log[k]) THEN log[k].suppressed ELSE 0

RecordRejection(k) ==
    LET b == Bucket(k) IN
    /\ log' = Put(log, k, IF Full(b) THEN [b EXCEPT !.suppressed = @ + 1]
                          ELSE [b EXCEPT !.count = @ + 1])
    /\ lines' = Add(lines, k, Summed(k) + (IF Full(b) THEN 0 ELSE 1))
    /\ rejected' = Add(rejected, k, 1)

Only(f, S) == [k \in S |-> f[k]]
SumUp(S) == [k \in LogKeys |-> lines[k] + (IF k \in S THEN log[k].suppressed ELSE 0)]
Dropped(S) == lines                            \* mutant: buckets go without a summary
Told(S) == SumUp(S)

FlushExpired ==
    LET gone == {k \in DOMAIN log : Over(log[k])} IN
    /\ timer /\ gone # {}
    /\ lines' = Told(gone) /\ log' = Only(log, DOMAIN log \ gone)
    /\ UNCHANGED <<profiles, users, nextId, now, request, timer, changes, faults, arrived,
                   rejected, creators, saw>>

(* onModuleDestroy: requests under way go on. *)
Destroy ==
    /\ timer /\ timer' = FALSE
    /\ lines' = Told(DOMAIN log) /\ log' = << >>
    /\ UNCHANGED <<profiles, users, nextId, now, request, changes, faults, arrived, rejected,
                   creators, saw>>

--------------------------------------------------------------------------------
(* DelegatedAuthGuard.canActivate *)

Calm == UNCHANGED <<profiles, users, nextId, now, log, timer, changes, arrived, rejected, lines,
                    creators, saw>>
Go(r, stage) == request' = [request EXCEPT ![r].at = stage]

(* The catch: one opaque 401, and a category in the log. *)
Reject(r, category) ==
    /\ Go(r, "401")
    /\ RecordRejection(<<request[r].by, category>>)
    /\ UNCHANGED <<profiles, users, nextId, now, timer, changes, arrived, creators, saw>>

Profile(r) == profiles[request[r].by]
Under(e) == IF e \in DOMAIN users THEN users[e] ELSE [id |-> 0, active |-> FALSE]
Found(r) == Under(request[r].token.email)

(* A handler without @DelegatedProfile() answers 401, one with a profile that is not there
   500, and a request without a bearer token 401, before the try: nothing changes.  Decoding
   the token needs no await. *)
Arrive(r, n, t) ==
    /\ n \in DOMAIN profiles /\ t.bearer
    /\ request[r] = Idle /\ arrived < MaxRequests /\ arrived' = arrived + 1
    /\ request' = [request EXCEPT ![r] =
                    [at |-> IF t.kid THEN "jwks" ELSE "401", by |-> n, token |-> t, user |-> 0,
                     good |-> Accepted(t, profiles[n])]]
    /\ saw' = [saw EXCEPT ![r] = {Under(t.email)}]
    /\ IF t.kid THEN UNCHANGED <<log, lines, rejected>>
       ELSE RecordRejection(<<n, "token_rejected">>)
    /\ UNCHANGED <<profiles, users, nextId, now, timer, changes, faults, creators>>

(* The key may not be had; the checks after it need no await, nor does the mapper until it
   looks the email up. *)
VerifyToken(r) ==
    LET t == request[r].token IN
    /\ request[r].at = "jwks"
    /\ \/ /\ IF ~Accepted(t, Profile(r)) THEN Reject(r, "token_rejected")
             ELSE IF t.email = "none" \/ ~t.verified THEN Reject(r, "identity_mapping_failed")
             ELSE Go(r, "find") /\ Calm
          /\ UNCHANGED faults
       \/ faults < MaxFaults /\ faults' = faults + 1 /\ Reject(r, "token_rejected")

(* findByEmail, for either provisioning. *)
FindAccount(r) ==
    LET u == Found(r) IN
    /\ request[r].at = "find" /\ UNCHANGED faults
    /\ IF u.active
       THEN /\ request' = [request EXCEPT ![r].user = u.id,
                    ![r].at = IF Profile(r).provisioning = "jit" THEN "account" ELSE "roles"]
            /\ Calm
       ELSE IF Profile(r).provisioning = "never" THEN Reject(r, "identity_mapping_failed")
       ELSE IF u.id # 0 THEN Reject(r, "token_rejected")
       ELSE Go(r, "create") /\ Calm

(* provision: the email is unique.  The audit record after it is best effort. *)
Create(r) ==
    LET e == request[r].token.email IN
    /\ request[r].at = "create"
    /\ \/ /\ e \notin DOMAIN users /\ UNCHANGED faults
          /\ users' = Put(users, e, [id |-> nextId, active |-> TRUE])
          /\ nextId' = nextId + 1
          /\ creators' = creators \cup {<<nextId, request[r].by>>}
          /\ request' = [request EXCEPT ![r].user = nextId, ![r].at = "account"]
          /\ saw' = [q \in Requests |->
                        IF request[q] # Idle /\ request[q].token.email = e
                        THEN saw[q] \cup {users'[e]} ELSE saw[q]]
          /\ UNCHANGED <<profiles, now, log, timer, changes, arrived, rejected, lines>>
       \/ /\ \/ e \in DOMAIN users /\ UNCHANGED faults
             \/ e \notin DOMAIN users /\ faults < MaxFaults /\ faults' = faults + 1
          /\ Go(r, "reread") /\ Calm

(* The loser of two creations takes the winner's account. *)
Reread(r) ==
    LET u == Found(r) IN
    /\ request[r].at = "reread" /\ UNCHANGED faults
    /\ IF u.id = 0 THEN Reject(r, "internal_error")
       ELSE IF ~u.active THEN Reject(r, "token_rejected")
       ELSE request' = [request EXCEPT ![r].user = u.id, ![r].at = "account"] /\ Calm

(* buildPrincipal, for just in time provisioning. *)
ReadAccount(r) ==
    /\ request[r].at = "account" /\ UNCHANGED faults
    /\ IF Found(r).active /\ Found(r).id = request[r].user THEN Go(r, "roles") /\ Calm
       ELSE Reject(r, "token_rejected")

(* rolesForUser; the principal and the delegation context are attached. *)
ReadRoles(r) ==
    /\ request[r].at = "roles" /\ UNCHANGED faults
    /\ Go(r, "served") /\ Calm

Answered(r) ==
    /\ request[r].at \in {"served", "401"}
    /\ request' = [request EXCEPT ![r] = Idle] /\ saw' = [saw EXCEPT ![r] = {}]
    /\ UNCHANGED <<profiles, users, nextId, now, log, timer, changes, faults, arrived, rejected,
                   lines, creators>>

--------------------------------------------------------------------------------
(* Meanwhile: administrators switch an account off or on, or remove it. *)

ChangeAccount(e) ==
    /\ changes < MaxChanges /\ changes' = changes + 1
    /\ e \in DOMAIN users
    /\ \/ users' = [users EXCEPT ![e].active = ~@]
       \/ users' = Only(users, DOMAIN users \ {e})
    /\ saw' = [q \in Requests |->
                IF request[q] # Idle /\ request[q].token.email = e
                THEN saw[q] \cup {[id |-> users[e].id, active |-> e \in DOMAIN users' /\ users'[e].active]}
                ELSE saw[q]]
    /\ UNCHANGED <<profiles, nextId, now, request, log, timer, faults, arrived, rejected, lines, creators>>

Tick ==
    /\ now < MaxNow /\ now' = now + 1
    /\ UNCHANGED <<profiles, users, nextId, request, log, timer, changes, faults, arrived,
                   rejected, lines, creators, saw>>

Step(r) ==
    \/ \E n \in DOMAIN profiles, t \in Tokens : Arrive(r, n, t)
    \/ VerifyToken(r) \/ FindAccount(r) \/ Create(r) \/ Reread(r)
    \/ ReadAccount(r) \/ ReadRoles(r) \/ Answered(r)

Next ==
    \/ \E r \in Requests : Step(r)
    \/ \E e \in Emails : ChangeAccount(e)
    \/ Tick \/ FlushExpired \/ Destroy

Spec == Init /\ [][Next]_vars

--------------------------------------------------------------------------------
(* Properties *)

(* delegated-jwt-verifier.service.ts:48-56, jwt-verifier.service.ts:150-155: a request is
   served for an account that was active under its verified email meanwhile, a profile that
   never provisions creates none ... *)
ServedRightly ==
    /\ \A r \in Requests : request[r].at = "served" =>
        /\ request[r].token.verified /\ request[r].token.bearer
        /\ \E u \in saw[r] : u.active /\ u.id = request[r].user
    /\ \A c \in creators : profiles[c[2]].provisioning = "jit"

(* ... and jwt-verifier.service.ts:123-125: a login that would have been good is refused only
   for a fault, or when its account was off or removed meanwhile. *)
Good(r) ==
    LET q == request[r] IN
    /\ q.token.kid /\ q.token.verified
    /\ q.token.email # "none" /\ Profile(r).provisioning = "jit" /\ q.good
    /\ Accepted(q.token, Profile(r))
RefusedForCause ==
    \A r \in Requests :
        (request[r].at = "401" /\ Good(r)) =>
            faults > 0 \/ \E u \in saw[r] : u.id # 0 /\ ~u.active

(* delegated-claims.util.ts:81-102: a token is good for what it was exchanged for: two
   profiles of one namespace accept it only when they ask for the same scopes. *)
OneDelegationPerToken ==
    \A m, n \in DOMAIN profiles : \A t \in Tokens :
        /\ profiles[m].namespace = profiles[n].namespace
        /\ Accepted(t, profiles[m]) /\ Accepted(t, profiles[n])
        => profiles[m].scopes = profiles[n].scopes

(* delegated-security-event-logger.ts:21-79: every rejection has its line, is in the sum of a
   line, or waits in a bucket for that. *)
RejectionsTold ==
    \A k \in LogKeys :
        rejected[k] = lines[k] + (IF k \in DOMAIN log THEN log[k].suppressed ELSE 0)

DelegatedRightly == ServedRightly /\ RefusedForCause /\ OneDelegationPerToken /\ RejectionsTold
================================================================================
