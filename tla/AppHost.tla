-------------------------------- MODULE AppHost --------------------------------
(***************************************************************************)
(* createAppspineModule and AppspinePluginHost of                          *)
(* @appspine/plugin-host-nest, with the plugins of this repository: an     *)
(* App's inventory is resolved, the plugins' modules are composed, Nest    *)
(* instantiates them, the strategies register, the capabilities are bound  *)
(* and the lifecycle boots.                                                *)
(*                                                                         *)
(* Plugins are numbered in the order of their ids.  A manifest is what the *)
(* resolver reads of it; a module is the tokens it exports, those its      *)
(* classes cannot do without, and those they take when there are any.      *)
(***************************************************************************)
EXTENDS Naturals, FiniteSets, Sequences

CONSTANT Selections        \* the inventories: sets of <<plugin, instance>>

VARIABLES
    selected,       \* the inventory's entries
    unparsed,       \* the configRefs whose value the plugin's schema refuses
    stage,          \* "resolve", "prepare", "compose", "init", "boot", "ready", or how it failed
    needs,          \* instance -> the instances it depends on
    round,          \* of the resolved order: the instances that became free together, not composed yet
    imports,        \* composed instance -> the modules its module imports
    strategies,     \* AuthenticationStrategyRegistry: [id, kind]
    bound           \* CapabilityRegistry: the names with a value

vars == <<selected, unparsed, stage, needs, round, imports, strategies, bound>>

--------------------------------------------------------------------------------
(* The manifests *)

Official ==
    [id |-> 0, multiple |-> FALSE, provides |-> {}, requires |-> {}, optionalRequires |-> {},
     replaces |-> {}, conflicts |-> {}, policy |-> FALSE, configRef |-> "", local |-> FALSE,
     official |-> TRUE, exclusive |-> {}, shared |-> {}, health |-> {}]
Names(S) == S \X {0}

AuditLog ==
    [Official EXCEPT !.id = 1, !.provides = {"audit-sink"}, !.requires = Names({"prisma"}),
        !.shared = {"AuditLogModule", "AuditLog"}]
DomainEvents ==
    [Official EXCEPT !.id = 2, !.provides = {"domain-events"},
        !.requires = Names({"prisma", "principal-context"}),
        !.optionalRequires =
            Names({"audit-sink", "machine-auth-provider", "rbac-policy", "scope-matcher"}),
        !.exclusive = {"domain-events"}, !.health = {"domain-events"},
        !.shared = {"DomainEventsModule", "DomainEvent", "DomainEventDelivery",
                    "IntegrationEventReceipt"}]
HealthCheck ==
    [Official EXCEPT !.id = 3, !.provides = {"health-indicator"}, !.requires = Names({"prisma"}),
        !.exclusive = {"health", "admin/plugins"}, !.shared = {"HealthModule"},
        !.health = {"health-check"}]
IdentityCore ==
    [Official EXCEPT !.id = 4, !.provides = {"identity-store"},
        !.requires = Names({"prisma", "principal-context"}),
        !.optionalRequires = Names({"audit-sink"}),
        !.exclusive = {"users"}, !.shared = {"IdentityCoreModule", "User"}]
M2mApiKey ==
    [Official EXCEPT !.id = 5, !.provides = {"machine-auth-provider", "scope-matcher"},
        !.requires = Names({"identity-store", "prisma", "principal-context",
                            "authentication-strategy-registry"}),
        !.optionalRequires = Names({"audit-sink", "rbac-policy"}),
        !.exclusive = {"api-keys"}, !.shared = {"ApiKeysModule", "ApiKey"}]
MasterDataClient ==
    [Official EXCEPT !.id = 6, !.multiple = TRUE, !.provides = {"master-data-client"},
        !.requires = Names({"identity-delegation"}),
        !.optionalRequires = Names({"audit-sink"}), !.policy = TRUE,
        !.configRef = "masterData", !.shared = {"MasterDataClientModule"},
        !.health = {"master-data-client"}]
McpServer ==
    [Official EXCEPT !.id = 7, !.provides = {"mcp-tools"}, !.requires = Names({"principal-context"}),
        !.optionalRequires = Names({"audit-sink", "machine-auth-provider", "scope-matcher"}),
        !.exclusive = {"mcp"}, !.shared = {"McpModule"}, !.health = {"mcp-server"}]
MetadataSchema ==
    [Official EXCEPT !.id = 8, !.provides = {"metadata-schema"}, !.requires = Names({"prisma"}),
        !.optionalRequires = Names({"scope-matcher"}),
        !.exclusive = {"metadata"}, !.shared = {"MetaModule"}]
Notification ==
    [Official EXCEPT !.id = 9, !.provides = {"notification-inbox"},
        !.requires = Names({"prisma", "principal-context"}),
        !.optionalRequires = Names({"audit-sink", "rbac-policy"}),
        !.shared = {"NotificationModule", "Notification"}, !.health = {"notification"}]
OidcAuth ==
    [Official EXCEPT !.id = 10,
        !.provides = {"interactive-auth-provider", "delegated-identity-verifier"},
        !.requires = Names({"identity-store", "authentication-strategy-registry",
                            "principal-context", "prisma", "audit-sink"}),
        !.optionalRequires = Names({"rbac-policy"}), !.configRef = "oidc",
        !.exclusive = {"auth"}, !.shared = {"OidcAuthModule", "OidcIdentity"}]
OidcDelegation ==
    [Official EXCEPT !.id = 11, !.provides = {"identity-delegation"},
        !.configRef = "oidcDelegation",
        !.shared = {"OidcDelegationModule"}, !.health = {"oidc-delegation"}]
Rbac ==
    [Official EXCEPT !.id = 12, !.provides = {"rbac-policy"},
        !.requires = Names({"identity-store", "prisma", "principal-context"}),
        !.optionalRequires = Names({"audit-sink"}),
        !.exclusive = {"roles"}, !.shared = {"RbacModule", "Role", "RolePermission", "UserRole"}]

Manifests ==
    {AuditLog, DomainEvents, HealthCheck, IdentityCore, M2mApiKey, MasterDataClient, McpServer,
     MetadataSchema, Notification, OidcAuth, OidcDelegation, Rbac}

--------------------------------------------------------------------------------
(* The modules.  Of several exported classes, those another package injects. *)

Auth == {"AuthenticationStrategyRegistry", "PrincipalContextService"}    \* what guards take
Module(exports, needed, taken) == [exports |-> exports, injects |-> needed, optional |-> taken]

AuditLogModule == Module({"AuditLogService", "audit-sink"}, {}, {})
DomainEventsModule == Module({"domain-events"}, Auth, {"scope-matcher"})
PluginCatalogController == {"AppspinePluginHost"}
HealthModule == Module({}, Auth, PluginCatalogController)
UsersService == {"rbac-policy"}
UsersController == {"audit-sink"}
IdentityCoreModule == Module({"identity-store"}, Auth, UsersService \cup UsersController)
ApiKeysController == {"AuditLogService"}
ApiKeysModule ==
    Module({"scope-matcher"}, Auth \cup ApiKeysController \cup {"identity-store"}, {"rbac-policy"})
MasterDataModule == Module({"master-data-client"}, {}, {})
McpModule == Module({"mcp-tools"}, Auth, {"scope-matcher"})
MetaModule == Module({"metadata-schema"}, Auth, {"scope-matcher"})
NotificationModule == Module({"notification-inbox"}, {}, {})
JwtVerifierService == {"rbac-policy"}
OidcIdentityService == {"identity-store", "audit-sink"}
OidcAuthModule == Module({}, Auth \cup OidcIdentityService, JwtVerifierService)
OidcDelegationModule == Module({"identity-delegation"}, {}, {})
RolesController == {"AuditLogService"}
RbacModule == Module({"rbac-policy"}, Auth \cup RolesController, {})

Backend ==
    <<AuditLogModule, DomainEventsModule, HealthModule, IdentityCoreModule, ApiKeysModule,
      MasterDataModule, McpModule, MetaModule, NotificationModule, OidcAuthModule,
      OidcDelegationModule, RbacModule>>

AuthInfrastructure ==
    [exports |-> Auth \cup {"principal-context", "authentication-strategy-registry"}]

--------------------------------------------------------------------------------
(* prepare: resolution and configuration *)

HostCapabilities == {"prisma"}          \* of the configuration; its module is global in the App
HostCapabilityNames ==
    HostCapabilities \cup {"principal-context", "authentication-strategy-registry"}

InventoryEntries ==
    {[id |-> s[1], n |-> s[2], enabled |-> TRUE, required |-> TRUE, configRef |-> ""] :
        s \in selected}

(* resolvePlugins, on this App's entries. *)
Graph == INSTANCE PluginResolver
    WITH Inputs <- {},
         input <- [manifests |-> Manifests, entries |-> InventoryEntries,
                   host |-> Names(HostCapabilityNames)],
         instances <- InventoryEntries, dependsOn <- needs,
         todo <- {}, disabled <- {}, diagnostics <- {}, infos <- {}, phase <- "order",
         result <- "none", waiting <- needs, remaining <- {}, ready <- {}, order <- <<>>

Init ==
    /\ selected \in Selections
    /\ unparsed \in {{}} \cup {{m.configRef} : m \in {x \in Manifests :
                                      x.configRef # "" /\ \E s \in selected : s[1] = x.id}}
    /\ stage = "resolve" /\ needs = <<>> /\ round = {} /\ imports = <<>> /\ strategies = {}
    /\ bound = Names(HostCapabilities)

Resolve ==
    /\ stage = "resolve"
    /\ stage' = IF Graph!GraphFaults = {} THEN "prepare" ELSE "rejected"
    /\ needs' = [e \in InventoryEntries |-> Graph!Needed(e)]
    /\ UNCHANGED <<selected, unparsed, round, imports, strategies, bound>>

(* Instances that all wait for one another: topologicalOrder has none to begin with. *)
Waiting == {e \in InventoryEntries : needs[e] # {}}
Cyclic == \E S \in SUBSET Waiting : S # {} /\ \A e \in S : needs[e] \cap S # {}
Misconfigured == \E e \in InventoryEntries : Graph!ManifestOf(e).configRef \in unparsed

(* Every configuration is parsed before the first factory is called. *)
Prepare ==
    /\ stage = "prepare"
    /\ stage' = IF Cyclic THEN "rejected" ELSE IF Misconfigured THEN "invalid-config" ELSE "compose"
    /\ UNCHANGED <<selected, unparsed, needs, round, imports, strategies, bound>>

--------------------------------------------------------------------------------
(* Module assembly, in the resolved order *)

Uncomposed == InventoryEntries \ DOMAIN imports
Frontier   == {e \in Uncomposed : needs[e] \subseteq DOMAIN imports}
Round      == IF round = {} THEN Frontier ELSE round

RequiredModules(e) ==                   \* mutant: what it can do without is not imported
    {f \in needs[e] : \E k \in Graph!Wanted(e) : k \in Graph!ProvidedCapabilities(f)}
    \cap DOMAIN imports
ResolvedDependencyModules(e) == needs[e] \cap DOMAIN imports

Compose(e) ==
    /\ stage = "compose" /\ Graph!IsFirst(e, Round)
    /\ round' = Round \ {e}
    /\ imports' = [f \in DOMAIN imports \cup {e} |->
                      IF f = e THEN ResolvedDependencyModules(e) ELSE imports[f]]
    /\ UNCHANGED <<selected, unparsed, stage, needs, strategies, bound>>

--------------------------------------------------------------------------------
(* Nest: a class gets what its own module, a global one or an imported one exports. *)

Visible(e) ==
    Backend[e.id].exports \cup AuthInfrastructure.exports
    \cup UNION {Backend[f.id].exports : f \in imports[e]}
Missing(e) == Backend[e.id].injects \ Visible(e)
Injected(e) == Backend[e.id].optional \cap Visible(e)

Instantiate ==
    /\ stage = "compose" /\ Uncomposed = {}
    /\ stage' = IF \A e \in InventoryEntries : Missing(e) = {} THEN "init" ELSE "unresolved-dependency"
    /\ UNCHANGED <<selected, unparsed, needs, round, imports, strategies, bound>>

Strategy(e) ==
    CASE e.id = OidcAuth.id -> {[id |-> "oidc", kind |-> "interactive"]}
      [] e.id = M2mApiKey.id -> {[id |-> "api-key", kind |-> "machine"]}
      [] OTHER -> {}

(* onModuleInit of the two modules that log in, in any order. *)
OnModuleInit(e) ==
    /\ stage = "init" /\ Strategy(e) \ strategies # {}
    /\ strategies' = strategies \cup Strategy(e)
    /\ UNCHANGED <<selected, unparsed, stage, needs, round, imports, bound>>

Initialised ==
    /\ stage = "init" /\ \A e \in InventoryEntries : Strategy(e) \subseteq strategies
    /\ stage' = "boot"
    /\ UNCHANGED <<selected, unparsed, needs, round, imports, strategies, bound>>

(* moduleRef.get(token, strict: false), for the names of graph.providers. *)
Resolvable ==
    {k \in UNION {Graph!ProvidedCapabilities(e) : e \in InventoryEntries} :
        \E e \in InventoryEntries : k \in Graph!ProvidedCapabilities(e) /\ k[1] \in Backend[e.id].exports}
NotificationValidates ==
    (\E e \in InventoryEntries : e.id = Notification.id) => <<"prisma", 0>> \in bound

OnApplicationBootstrap ==
    /\ stage = "boot"
    /\ bound' = bound \cup Resolvable
    /\ stage' = IF NotificationValidates THEN "ready" ELSE "boot-aborted"
    /\ UNCHANGED <<selected, unparsed, needs, round, imports, strategies>>

Next ==
    \/ Resolve
    \/ Prepare
    \/ \E e \in InventoryEntries : Compose(e)
    \/ Instantiate
    \/ \E e \in InventoryEntries : OnModuleInit(e)
    \/ Initialised
    \/ OnApplicationBootstrap

Spec == Init /\ [][Next]_vars

--------------------------------------------------------------------------------
(* Properties *)

Has(m) == \E e \in InventoryEntries : e.id = m.id

(* "a misconfigured App fails while building the module tree": an App that resolves has every
   provider that its modules cannot do without, save the one below. *)
AcceptedStarts ==
    stage = "unresolved-dependency" => ~Has(AuditLog) /\ (Has(Rbac) \/ Has(M2mApiKey))

(* "Mirror each resolved dependency edge into the consumer's DynamicModule": what a manifest
   lists, optionally or not, reaches the classes that take it whenever some plugin of the App
   provides it, and only then. *)
PortsReach ==
    stage \in {"init", "boot", "ready"} =>
        \A e \in InventoryEntries : \A t \in Backend[e.id].optional :
            <<t, 0>> \in Graph!Wanted(e) \cup Graph!Optional(e) =>
                (t \in Injected(e) <=> \E f \in InventoryEntries \ {e} : t \in Backend[f.id].exports)

(* Ready: logins of a kind are possible exactly when a plugin provides them, one of each, and
   a hook finds every capability that was promised, save those without an injectable. *)
ReadyIsComplete ==
    stage = "ready" =>
        /\ \A f, g \in strategies : f.kind = g.kind => f = g
        /\ (\E f \in strategies : f.kind = "interactive") <=> Has(OidcAuth)
        /\ (\E f \in strategies : f.kind = "machine") <=> Has(M2mApiKey)
        /\ \A e \in InventoryEntries : \A k \in Graph!Wanted(e) :
              k \in bound \/ k[1] \in {"machine-auth-provider", "interactive-auth-provider"}

HostSound == AcceptedStarts /\ PortsReach /\ ReadyIsComplete

(* "Optional capabilities nothing provides. The instance still boots": Nest misses nothing
   that the provider of an unresolved optional capability would have brought. *)
BootsWithoutOptional ==
    stage = "unresolved-dependency" =>
        \E e \in InventoryEntries : \E t \in Missing(e) :
            \A k \in Graph!Unresolved(e) :
                \A m \in Manifests : k[1] \in m.provides => t \notin Backend[m.id].exports
================================================================================
