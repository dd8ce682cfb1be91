------------------------------ MODULE MCServices ------------------------------
(* What an App's server relies on, for TLC: one behaviour is of one part, access control,
   delegated token exchanges, webhooks, the evolution of a contract's schema, the contract
   registry, or a part of MCAuth, MCTools or MCFrontend. *)
EXTENDS AccessControl, MCAuth, MCTools, MCFrontend, Integers

CONSTANTS RunParts,                \* the parts this instance runs
          alice, bob, admin, user, r, s, p1, k, one, two,
          ThrottleWindow, ThrottleLimit, FailureThreshold, CircuitCooldown, LinesLimit,
          PolicyMaxExpires, ThrottleTicks, ThrottleCalls,     \* of exchanges
          WebhookEvents, DeliveryTimeout, FreshWindow, KeyOverlap, ClockSkews,
          DeliveryBudget, DeliveryTicks,                      \* of webhooks
          SchemaKeys, SchemaValues, ContractSchemas, MaxReleases, MaxDocuments,
          CapabilityVersions, PayloadSchemas, PartyApps, HandEdits

(* The windows and limits are positive integers: module-options-validation.ts:39-45 and
   api-key.dto.ts. *)
ASSUME ThrottleAssumption ==
    /\ ThrottleWindow \in Nat \ {0} /\ ThrottleLimit \in Nat \ {0}
    /\ FailureThreshold \in Nat \ {0} /\ CircuitCooldown \in Nat /\ LinesLimit \in Nat

(* A request that is awaited is fresh whatever the clocks, and a rotated secret outlives it. *)
ASSUME DeliveryAssumption ==
    /\ DeliveryTimeout \in Nat /\ FreshWindow \in Nat /\ KeyOverlap \in Nat
    /\ DeliveryTimeout <= KeyOverlap
    /\ ClockSkews \subseteq Int
    /\ \A x \in ClockSkews : 0 <= FreshWindow + x /\ DeliveryTimeout + x <= FreshWindow

(* Sizes and bounds of schemas are numbers. *)
ASSUME SchemaAssumption ==
    /\ \A x \in SchemaValues : x.size \in Int
    /\ \A x \in ContractSchemas : \A z \in DOMAIN x.properties :
          x.properties[z].low \in Int /\ x.properties[z].high \in Int

(* The receiver's clock one tick behind the sender's, with it, or one ahead. *)
OneTick == {-1, 0, 1}

(* Requests of one kind are alike, and so are exchanges. *)
Alike == Permutations(Procs)

VARIABLES
    part,
    now, bucket, failures, openUntil, call, keyBucket, logBucket, suppressed, disposed,
    exchanges, sent, passed, waitUntil, outages, logged, rejections, late,
    skew, sender, secrets, enabled, wire, waiting, verdict, attempts, applied,
    schema, profile, stored, releases, passedOver,
    capability, binding, lock, index, runtime, approved, edits

--------------------------------------------------------------------------------
(* Overlapping exchanges. *)
Exchange == INSTANCE DelegatedExchange
    WITH Calls <- Procs, Window <- ThrottleWindow, Limit <- ThrottleLimit,
         Threshold <- FailureThreshold, Cooldown <- CircuitCooldown, LogLimit <- LinesLimit,
         MaxExpires <- PolicyMaxExpires, MaxNow <- ThrottleTicks, MaxExchanges <- ThrottleCalls

(* Events on their way. *)
Webhook == INSTANCE WebhookDelivery
    WITH Events <- WebhookEvents, Horizon <- DeliveryTicks, Timeout <- DeliveryTimeout,
         Window <- FreshWindow, Overlap <- KeyOverlap, Skews <- ClockSkews,
         MaxAttempts <- DeliveryBudget, keys <- secrets

--------------------------------------------------------------------------------
(* Schemas of two properties, the first of ten leaf schemas, and one that requires a key it
   does not declare. *)
Str(n) == [type |-> "string", size |-> n]
Num(n) == [type |-> "number", size |-> n]
Leaf == [type |-> {"string"}, enum |-> {}, pattern |-> {}, low |-> -1, high |-> -1]
Leaves ==
    {Leaf, [Leaf EXCEPT !.type = {"number"}], [Leaf EXCEPT !.type = {}],
     [Leaf EXCEPT !.enum = {Str(1)}], [Leaf EXCEPT !.enum = {Str(1), Str(2)}],
     [Leaf EXCEPT !.enum = {Str(2)}],
     [Leaf EXCEPT !.pattern = {Str(1)}], [Leaf EXCEPT !.pattern = {Str(2)}],
     [Leaf EXCEPT !.low = 2], [Leaf EXCEPT !.low = 1, !.high = 1]}
Objects ==
    {[properties |-> [z \in {"a"} |-> l], required |-> req, closed |-> c] :
        l \in Leaves, req \in SUBSET {"a"}, c \in BOOLEAN}
    \cup {[properties |-> [z \in {"b"} |-> Leaf], required |-> req, closed |-> c] :
        req \in SUBSET {"b"}, c \in BOOLEAN}
    \cup {[properties |-> [z \in {"a", "b"} |-> IF z = "a" THEN l ELSE Leaf],
           required |-> req, closed |-> FALSE] :
        l \in Leaves, req \in {{}, {"a"}, {"b"}}}

    \cup {[properties |-> [z \in {"a"} |-> Leaf], required |-> {"b"}, closed |-> FALSE]}
SomeValues == {Str(1), Str(2), Num(1)}

Evolution == INSTANCE SchemaEvolution
    WITH Keys <- SchemaKeys, Values <- SchemaValues, Schemas <- ContractSchemas

(* Versions of a capability, and the payload schemas they have. *)
Registry == INSTANCE ContractRegistry
    WITH Versions <- CapabilityVersions, Payloads <- PayloadSchemas, Apps <- PartyApps,
         MaxEdits <- HandEdits

--------------------------------------------------------------------------------
(* The sum of the parts *)

exchangeVars == <<bucket, failures, openUntil, call, keyBucket, logBucket, suppressed, disposed,
                  exchanges, sent, passed, waitUntil, outages, logged, rejections, late>>
webhookVars  == <<skew, sender, secrets, enabled, wire, waiting, verdict, attempts, applied>>
schemaVars   == <<schema, profile, stored, releases, passedOver>>
registryVars == <<capability, binding, lock, index, runtime, approved, edits>>
sumVars      == <<part, vars, now, exchangeVars, webhookVars, schemaVars, registryVars, authVars,
                  toolingVars, pageVars>>

ExchangeOff ==
    /\ bucket = {} /\ failures = {} /\ openUntil = {} /\ call = {} /\ keyBucket = {}
    /\ logBucket = {} /\ suppressed = {} /\ disposed = {} /\ exchanges = {} /\ sent = {}
    /\ passed = {} /\ waitUntil = {} /\ outages = {} /\ logged = {} /\ rejections = {} /\ late = {}
WebhookOff ==
    /\ skew = {} /\ sender = {} /\ secrets = {} /\ enabled = {} /\ wire = {} /\ waiting = {}
    /\ verdict = {} /\ attempts = {} /\ applied = {}
RegistryOff ==
    /\ capability = {} /\ binding = {} /\ lock = {} /\ index = {} /\ runtime = {}
    /\ approved = {} /\ edits = {}

SumInit ==
    /\ part \in RunParts
    /\ AuthInit(part) /\ ToolingInit(part) /\ PageInit(part)
    /\ Init /\ (part # "access" => service = {})
    /\ IF part = "exchange" THEN Exchange!Init ELSE ExchangeOff
    /\ IF part = "webhook" THEN Webhook!Init ELSE WebhookOff
    /\ IF part = "schema" THEN Evolution!Init
       ELSE schema = {} /\ profile = {} /\ stored = {} /\ releases = {} /\ passedOver = {}
    /\ IF part = "registry" THEN Registry!Init ELSE RegistryOff
    /\ part \notin {"exchange", "webhook"} => now = 0

ServiceSteps ==
    \/ /\ part = "access" /\ Next
       /\ UNCHANGED <<now, exchangeVars, webhookVars, schemaVars, registryVars>>
    \/ /\ part = "exchange" /\ Exchange!Next
       /\ UNCHANGED <<vars, webhookVars, schemaVars, registryVars>>
    \/ /\ part = "webhook" /\ Webhook!Next
       /\ UNCHANGED <<vars, exchangeVars, schemaVars, registryVars>>
    \/ /\ part = "schema" /\ Evolution!Next
       /\ UNCHANGED <<vars, now, exchangeVars, webhookVars, registryVars>>
    \/ /\ part = "registry" /\ Registry!Next
       /\ UNCHANGED <<vars, now, exchangeVars, webhookVars, schemaVars>>
serviceVars == <<vars, now, exchangeVars, webhookVars, schemaVars, registryVars>>

SumNext ==
    \/ ServiceSteps /\ UNCHANGED <<part, authVars, toolingVars, pageVars>>
    \/ AuthNext(part) /\ UNCHANGED <<part, serviceVars, toolingVars, pageVars>>
    \/ ToolingNext(part) /\ UNCHANGED <<part, serviceVars, authVars, pageVars>>
    \/ PageNext(part) /\ UNCHANGED <<part, serviceVars, authVars, toolingVars>>

SumSpec == SumInit /\ [][SumNext]_sumVars

--------------------------------------------------------------------------------
(* The properties of the parts, each for the behaviours of its part. *)

(* OutboundThrottle and SecurityEventLog: no window lets twice its limit through, who waits
   Retry-After is served, the circuit counts the outages since the last success, and every
   rejection is in the log or counted in a line of it. *)
ThrottleHonest == part = "exchange" => /\ Exchange!CallsBounded /\ Exchange!RetryAfterHonest
                         /\ Exchange!CircuitCountsOutages /\ Exchange!RejectionsTold

(* The webhook sender: what it takes for processed was applied, and nothing but a spent
   budget ends an event otherwise. *)
WebhooksEndRightly == part = "webhook" => Webhook!ProcessedWasApplied /\ Webhook!OnlyTheBudgetKills

(* compareContracts: documents written under a release stay readable under later compatible ones,
   but for the keys that its rules pass over. *)
StoredStillRead == part = "schema" => Evolution!StoredStillRead

(* contract-cli: green checks mean that the runtime is of the content that was pinned, and
   content that was locked stays. *)
GreenMeansPinned == part = "registry" => Registry!GreenMeansPinned /\ Registry!LockedContentStays

(* The guards of an App: one way to log in, nobody is served for an account, role or key that
   it did not have, a good login is refused for a cause only, and the limiter's bound. *)
AnswersRightly == part = "auth" => Auth!AnswersRightly

(* Delegated endpoints: the same for tokens that were exchanged, one delegation for a token,
   and every rejection in the log or a sum of it. *)
DelegatedRightly == part = "delegated" => Delegated!DelegatedRightly

(* The MCP server: rounds of input are bounded, and the catalogue tells the truth. *)
McpRightly == part = "mcp" => Mcp!McpRightly

(* createAppspineModule: an App whose plugins resolve starts, what its manifests list reaches
   the classes that take it, and a hook finds what was promised. *)
HostSound == part = "host" => Host!HostSound

(* resolver/index.ts: "Optional capabilities nothing provides. The instance still boots". *)
BootsWithoutOptional == part = "host" => Host!BootsWithoutOptional

(* What plugins declare: a plan of reconcilePermissions carried out leaves nothing to do and is
   the plan the frozen checker makes; parsePluginManifest keeps every code of the frozen
   checker, and a pinned digest changes with what it covers. *)
DeclaredAsFrozen ==
    /\ part = "permissions" => Plans!AppliedPlanSettles /\ Plans!AsFrozen
    /\ part = "loader" => Loader!FrozenCodesKept /\ Loader!PinDetectsChange

(* An App that follows the packages: when the drift checks are green, the packages' statements
   run on what was deployed; when a codemod ends with 0, every import has its owner and every
   name its meaning. *)
AppKeepsUp ==
    /\ part = "drift" => Drift!DriftIsCaught
    /\ part = "codemods" => Codemods!MigratedRightly

(* The pages: no notification is shown as read that is not, a new key's secret is shown, an
   error that is shown is the last call's, and the shell is as it was left. *)
PagesHonest ==
    /\ part = "menu" => Menu!NoFalseRead
    /\ part = "console" => Console!ConsoleRight
    /\ part = "shell" => Shell!ShellKept
================================================================================
