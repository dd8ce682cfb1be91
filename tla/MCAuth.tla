-------------------------------- MODULE MCAuth --------------------------------
(* An App and who its requests are served for, for MCServices: the host that composes the App,
   requests of an App, requests with tokens that another App exchanged, and the tools of an MCP
   server.  One behaviour is of one part; parts that name a variable alike share it. *)
EXTENDS Integers, Sequences, TLC

CONSTANTS HostSelections, AuthRequests, HostedApps, AuthRoles, RoleGrants, ReadPermissions, GuardedRoutes,
          PresentedCredentials, LoginAccounts, ApiKeyRows, KeyLimit, KeyWindow,
          AuthTicks, AuthChanges, AuthFaults, AuthCalls,      \* of an App's requests
          Twins,    \* delegated requests under way at once
          LoginEmails, Delegations, ExchangedTokens, AgeCap, EventLimit, EventWindow,
          DelegatedTicks, DelegatedChanges, DelegatedFaults, DelegatedCalls,   \* of them
          ToolLists, ToolPrefixes, StateKeys, KeyHolders, HeldScopes, ToolCalls,
          InputRounds, StateTtl, ToolTicks, MaxStates, MaxRestarts   \* of an MCP server

VARIABLES
    boot, modules, registered, policy, account, apiKey, window, request, sawAccount, sawKey, passes,
    profiles, accounts, nextId, log, timer, rejected, lines, creators, saw,
    prefix, secret, todo, toolMap, logicalTools, pushed, up, states, toolCall, restarts,
    clock, changes, mishaps, arrived,
    selected, unparsed, stage, needs, round, imports, strategies, bound

--------------------------------------------------------------------------------
(* Apps with and without RBAC, with two login modules, with one key module imported twice; a
   route for each guard. *)

Module(id, kind, asks) == [id |-> id, kind |-> kind, asks |-> asks]
App(m, rbac) == [modules |-> m, policy |-> rbac]
Login == Module(2, "interactive", TRUE)
ApiKeys == Module(1, "machine", TRUE)
Granting(p, ps) == [policy |-> p, permissions |-> ps]
Route(ks, g, n, w, l) == [kinds |-> ks, guard |-> g, needs |-> n, writes |-> w, legacy |-> l]
Either == {"interactive", "machine"}
KeyRow(u, role, scopes, actor) ==
    [active |-> TRUE, until |-> u, role |-> role, scopes |-> scopes, actor |-> actor]
Person(state, role) == [row |-> state, roles |-> {role}]

FourApps ==
    {App({Login, ApiKeys}, rbac) : rbac \in BOOLEAN}
    \cup {App({Login, Module(3, "interactive", FALSE), ApiKeys}, TRUE),
          App({ApiKeys, Module(1, "machine", FALSE)}, TRUE)}
TwoGrants == "ADMIN" :> Granting("DENY_ALL", {}) @@ "READER" :> Granting("READ_ALL", {<<"X", "read">>})
OneRead == {<<"A", "read">>}
SixRoutes ==
    {Route(Either, "events", {<<"e", "write">>}, TRUE, FALSE),
     Route(Either, "metadata", {}, FALSE, FALSE),
     Route({"interactive"}, "admin", {}, FALSE, FALSE),
     Route({"machine"}, "none", {}, FALSE, FALSE),
     Route({"machine"}, "scope", {<<"e", "read">>}, FALSE, TRUE),
     Route(Either, "permission", {<<"A", "read">>}, TRUE, FALSE)}
SevenCredentials ==
    {<<"none", "none">>, <<"good", "known">>, <<"bad", "known">>, <<"no kid", "none">>,
     <<"none", "known">>, <<"none", "unknown">>, <<"none", "malformed">>}
ThreeAccounts ==
    {Person("active", "ADMIN"), Person("active", "READER"), Person("inactive", "ADMIN")}
ThreeKeyRows ==
    {KeyRow(9, "READER", {<<"*", "*">>}, "active"), KeyRow(9, "READER", {<<"e", "read">>}, "none"),
     KeyRow(1, "ADMIN", {<<"e", "*">>}, "inactive")}

(* A route that still names ApiKeyGuard takes keys alone; the limiter counts. *)
ASSUME AuthAssumption ==
    /\ \A x \in GuardedRoutes : x.legacy => x.kinds = {"machine"}
    /\ KeyLimit \in Nat /\ KeyWindow \in Nat \ {0}

Auth == INSTANCE RequestAuth
    WITH Requests <- AuthRequests, Apps <- HostedApps, Roles <- AuthRoles, Grant <- RoleGrants,
         Reads <- ReadPermissions, Routes <- GuardedRoutes, Credentials <- PresentedCredentials,
         Accounts <- LoginAccounts, KeyRows <- ApiKeyRows, Limit <- KeyLimit, Window <- KeyWindow,
         MaxNow <- AuthTicks, MaxChanges <- AuthChanges, MaxFaults <- AuthFaults,
         MaxRequests <- AuthCalls,
         key <- apiKey, bucket <- window, now <- clock, faults <- mishaps

--------------------------------------------------------------------------------
(* Two profiles of one namespace; configurations boot refuses; tokens one step off. *)

Scope(n) == [in |-> "deleg", name |-> n]
Foreign == [in |-> "other", name |-> "x"]
Profile(scopes, provisioning) ==
    [wellFormed |-> TRUE, https |-> TRUE, insecure |-> FALSE, issuer |-> "idp",
     audience |-> "own", more |-> {"other"}, clients |-> {"c1"}, scopes |-> scopes,
     namespace |-> "deleg", maxAge |-> 1, tolerance |-> 0, provisioning |-> provisioning]
Token(scopes) ==
    [bearer |-> TRUE, kid |-> TRUE, signed |-> TRUE, issuer |-> "idp", typ |-> "bearer",
     header |-> "JWT", aud |-> {"own"}, azp |-> "c1", clientId |-> "none", sub |-> TRUE,
     scopes |-> scopes, iat |-> 0, exp |-> 1, email |-> "e", verified |-> TRUE]
Two(first, second) == "a" :> first @@ "b" :> second
ReadJit == Profile({Scope("r")}, "jit")

FourDelegations ==
    {Two(ReadJit, Profile({Scope("w")}, "absent")),
     Two(ReadJit, Profile({Foreign}, "jit")),
     "a" :> [ReadJit EXCEPT !.insecure = TRUE, !.https = FALSE],
     "a" :> [Profile({Scope("r")}, "never") EXCEPT !.tolerance = 1]}
SixTokens ==
    {Token({Scope("r")}),
     [Token({Scope("r"), Scope("w")}) EXCEPT !.typ = "id", !.header = "at+jwt"],
     [Token({Scope("r")}) EXCEPT !.verified = FALSE],
     [Token({Scope("r")}) EXCEPT !.kid = FALSE],
     [Token({}) EXCEPT !.bearer = FALSE],
     [Token({Scope("r")}) EXCEPT !.clientId = "c2", !.iat = 2, !.exp = 3]}

(* Profiles are records of these fields; ages, tolerances and times are numbers. *)
ASSUME DelegationAssumption ==
    /\ \A c \in Delegations : \A n \in DOMAIN c :
          /\ DOMAIN c[n] = {"wellFormed", "https", "insecure", "issuer", "audience", "more",
                            "clients", "scopes", "namespace", "maxAge", "tolerance", "provisioning"}
          /\ c[n].maxAge \in Int /\ c[n].tolerance \in Int
    /\ \A t \in ExchangedTokens : t.iat \in Int /\ t.exp \in Int
    /\ EventLimit \in Nat /\ EventWindow \in Nat

Delegated == INSTANCE DelegatedAuth
    WITH Requests <- Twins, Emails <- LoginEmails, MaxAgeCap <- AgeCap, LogLimit <- EventLimit,
         Window <- EventWindow, MaxNow <- DelegatedTicks, MaxChanges <- DelegatedChanges,
         MaxFaults <- DelegatedFaults, MaxRequests <- DelegatedCalls,
         Configurations <- Delegations, Tokens <- ExchangedTokens,
         users <- accounts, now <- clock, faults <- mishaps

--------------------------------------------------------------------------------
(* Two tools, or one declared twice; two keys, one with less. *)

Tool(n, action) == [name |-> n, scopes |-> {<<"m", action>>}, again |-> TRUE]
TwoTools == {<<Tool("x", "read"), Tool("y", "write")>>, <<Tool("x", "read"), Tool("x", "write")>>}
TwoHolders == <<{<<"m", "*">>}, {<<"m", "read">>}>>

(* Tools are declared in sequences, and rounds counted. *)
Declarable == UNION {{x[i] : i \in DOMAIN x} : x \in ToolLists}
ASSUME ToolAssumption ==
    /\ \A x \in ToolLists : x \in Seq(Declarable)
    /\ InputRounds \in Nat

Mcp == INSTANCE McpServer
    WITH Declared <- ToolLists, Prefixes <- ToolPrefixes, Keys <- StateKeys, Callers <- KeyHolders,
         Scopes <- HeldScopes, Calls <- ToolCalls, MaxRounds <- InputRounds, Ttl <- StateTtl,
         MaxNow <- ToolTicks, now <- clock, call <- toolCall

--------------------------------------------------------------------------------
(* Every selection of this repository's plugins but one: metadata-schema, which nothing needs
   and which needs what domain-events needs, comes with domain-events only. *)

Selected ==
    {S \in SUBSET ((1..12) \X {1} \cup {<<6, 2>>}) : <<8, 1>> \in S <=> <<2, 1>> \in S}

(* An inventory names plugins of this repository. *)
ASSUME SelectionAssumption == \A S \in HostSelections : \A x \in S : x[1] \in 1..12
Host == INSTANCE AppHost WITH Selections <- HostSelections

--------------------------------------------------------------------------------
(* The sum of the four *)

requestVars == <<boot, modules, registered, policy, account, apiKey, window, sawAccount, sawKey, passes>>
profileVars == <<profiles, accounts, nextId, log, timer, rejected, lines, creators, saw>>
toolVars    == <<prefix, secret, todo, toolMap, logicalTools, pushed, up, states, toolCall, restarts>>
commonVars  == <<clock, changes, mishaps, arrived>>
hostVars    == <<selected, unparsed, stage, needs, round, imports, strategies, bound>>
authVars    == <<requestVars, profileVars, toolVars, request, commonVars, hostVars>>

RequestsOff ==
    /\ boot = "off" /\ modules = {} /\ registered = {} /\ policy = FALSE /\ account = {}
    /\ apiKey = {} /\ window = {} /\ sawAccount = {} /\ sawKey = {} /\ passes = {}
ProfilesOff ==
    /\ profiles = {} /\ accounts = {} /\ nextId = 0 /\ log = {} /\ timer = FALSE
    /\ rejected = {} /\ lines = {} /\ creators = {} /\ saw = {}
ToolsOff ==
    /\ prefix = "off" /\ secret = "off" /\ todo = <<>> /\ toolMap = {} /\ logicalTools = <<>>
    /\ pushed = {} /\ up = FALSE /\ states = {} /\ toolCall = {} /\ restarts = 0

HostOff ==
    /\ selected = {} /\ unparsed = {} /\ stage = "off" /\ needs = <<>> /\ round = {} /\ imports = <<>>
    /\ strategies = {} /\ bound = {}

AuthParts == {"auth", "delegated", "mcp"}
AuthInit(part) ==
    /\ IF part = "auth" THEN Auth!Init ELSE RequestsOff
    /\ IF part = "delegated" THEN Delegated!Init ELSE ProfilesOff
    /\ IF part = "mcp" THEN Mcp!Init ELSE ToolsOff
    /\ part \notin {"auth", "delegated"} => request = {} /\ changes = 0 /\ mishaps = 0 /\ arrived = 0
    /\ part \notin AuthParts => clock = 0
    /\ IF part = "host" THEN Host!Init ELSE HostOff

AuthNext(part) ==
    \/ part = "auth" /\ Auth!Next /\ UNCHANGED <<profileVars, toolVars, hostVars>>
    \/ part = "delegated" /\ Delegated!Next /\ UNCHANGED <<requestVars, toolVars, hostVars>>
    \/ part = "mcp" /\ Mcp!Next
       /\ UNCHANGED <<requestVars, profileVars, request, changes, mishaps, arrived, hostVars>>
    \/ part = "host" /\ Host!Next
       /\ UNCHANGED <<requestVars, profileVars, toolVars, request, commonVars>>
================================================================================
