------------------------------- MODULE MCTools -------------------------------
(* What plugins declare and who reads it, for MCServices: the plans for an App's permissions,
   the loader of manifests, the checks of an App's copy of the models, and the codemods that move
   its imports.  One behaviour is of one part. *)
EXTENDS Naturals, Sequences, TLC

CONSTANTS PlanReleases, PlanGenerations,                            \* of permissions
          LoaderManifests, LoaderParts, LoaderHosts, PackageVersions, PackageEdits,
          IndexNames, DriftEdits, DriftMigrations,                  \* of an App's models
          FoundApps, WrittenImports, CodemodEdits, CodemodRuns      \* of an App's imports

VARIABLES table, twice, desired, target, plan, planned, refused, inForce,
          pkg, pin, pinned, result, defined, packageEdits,
          app, deployed, indexes, live, scoped, beyond, schemaEdits, migrations,
          files, meant, job, verdictOf, codeEdits, jobs

--------------------------------------------------------------------------------
(* Permission plans: releases of up to two of these declarations. *)

Declaration(id, label, alias) == [id |-> id, label |-> label, aliasOf |-> alias]
Declarations ==
    {Declaration("p", "a", ""), Declaration("p", "b", ""), Declaration("q", "a", ""),
     Declaration("q", "a", "p"), Declaration("r", "b", "q"), Declaration("q", "a", "q")}

UpToTwo == {{}} \cup {{x, y} : x, y \in Declarations}

Plans == INSTANCE PermissionPlan
    WITH Releases <- PlanReleases, NoAlias <- "", MaxGeneration <- PlanGenerations

--------------------------------------------------------------------------------
(* The loader, on manifests that break one schema keyword and one rule. *)

Plain ==
    [broken |-> {}, provides |-> {"DOMAIN_EVENTS"}, requires |-> {}, conflicts |-> {},
     replaces |-> {}, appLocal |-> FALSE, environment |-> {}, workers |-> "own",
     health |-> "own", metrics |-> "own", multiple |-> FALSE, config |-> FALSE,
     backend |-> TRUE, engine |-> [api |-> {1, 2}, react |-> {1}]]

Odd ==
    {[keyword |-> k, at |-> "elsewhere"] :
        k \in {"required", "additionalProperties", "pattern", "type"}}
    \cup {[keyword |-> "const", at |-> "schemaVersion"],
          [keyword |-> "minProperties", at |-> "facets"], [keyword |-> "pattern", at |-> "engine"]}

(* A list with an item that is no string. *)
Mixed(m, list, names) == [m EXCEPT !.broken = {[keyword |-> "type", at |-> list]}, ![list] = names]

RuleBreakers(m) ==
    {m, [m EXCEPT !.provides = {"INTERACTIVE"}], [m EXCEPT !.provides = {"STRATEGIES"}],
     [m EXCEPT !.provides = {"PRISMA"}], [m EXCEPT !.requires = {"DOMAIN_EVENTS"}],
     [m EXCEPT !.requires = {"acme"}], [m EXCEPT !.conflicts = {"self"}],
     [m EXCEPT !.replaces = {"other"}], [m EXCEPT !.replaces = {"self"}, !.appLocal = TRUE],
     [m EXCEPT !.environment = {"unmarked secret"}], [m EXCEPT !.workers = "foreign"],
     [m EXCEPT !.health = "foreign"], [m EXCEPT !.metrics = "foreign"],
     [m EXCEPT !.multiple = TRUE], [m EXCEPT !.engine.api = {}],
     [m EXCEPT !.engine.react = {3}]}

Authored ==
    RuleBreakers(Plain)
    \cup {[Plain EXCEPT !.broken = {x}, !.conflicts = {"self"}] : x \in Odd}
    \cup {Mixed(Plain, "provides", {"INTERACTIVE"}), Mixed(Plain, "conflicts", {"self"}),
          Mixed([Plain EXCEPT !.conflicts = {"self"}], "provides", {"DOMAIN_EVENTS"}),
          Mixed([Plain EXCEPT !.provides = {"INTERACTIVE"}], "conflicts", {}),
          Mixed(Plain, "requires", {"DOMAIN_EVENTS"})}
    \cup {[Plain EXCEPT !.broken = {[keyword |-> "type", at |-> "workers"]},
                        !.workers = "no string"]}
Loading ==
    {[api |-> [kind |-> "version", of |-> {1}], react |-> [kind |-> "none"]],
     [api |-> [kind |-> "version", of |-> {3}], react |-> [kind |-> "version", of |-> {1}]],
     [api |-> [kind |-> "range", of |-> {2, 3}], react |-> [kind |-> "range", of |-> {1, 2}]],
     [api |-> [kind |-> "version", of |-> {1}], react |-> [kind |-> "bad"]]}

UpToOne == {{}, {"backend"}, {"config"}}

(* appspine.plugin.v1.json, the schema: it has minProperties for the facets only. *)
ASSUME ManifestAssumption ==
    \A m \in LoaderManifests : \A x \in m.broken : x.keyword = "minProperties" => x.at = "facets"

Loader == INSTANCE PluginManifest
    WITH Manifests <- LoaderManifests, Definitions <- LoaderParts, Hosts <- LoaderHosts,
         Versions <- PackageVersions, MaxEdits <- PackageEdits, edits <- packageEdits

(* Any field of a model may be edited, and any index be created, dropped or renamed. *)
Drift == INSTANCE SchemaDrift
    WITH Names <- IndexNames, MaxEdits <- DriftEdits, MaxMigrations <- DriftMigrations

--------------------------------------------------------------------------------
(* The codemods, on Apps of two files: imports of every package that they know, with a name that
   moves, one that stays, one that nobody owns, an alias and a type. *)

Name(n) == [name |-> n, local |-> n, type |-> FALSE]
As(x, n) == [x EXCEPT !.local = n]
Typed(x) == [x EXCEPT !.type = TRUE]
From(p, names) == [form |-> "named", from |-> p, names |-> names, typed |-> FALSE]
TypesFrom(p, names) == [form |-> "named", from |-> p, names |-> {Typed(x) : x \in names}, typed |-> TRUE]
Whole(form, p) == [form |-> form, from |-> p, names |-> {}, typed |-> FALSE]

Imports ==
    {From("@appspine/auth", {Name("CurrentUser"), As(Name("UsersService"), "Accounts"), Typed(Name("UserContext"))}),
     From("@appspine/auth", {Name("AuthModule"), Name("JwtAuthGuard")}),
     TypesFrom("@appspine/auth", {Name("UserContext"), Name("UsersService")}),
     From("@appspine/m2m-api-key", {As(Name("JwtOrApiKeyGuard"), "Guard"), Name("ApiKeysModule")}),
     TypesFrom("@appspine/m2m-api-key", {Name("JwtOrApiKeyGuard")}),
     From("@appspine/frontend-shell", {Name("Button"), Name("UsersTable"), Typed(Name("ApiKeysTableKey"))}),
     TypesFrom("@appspine/frontend-shell", {Name("RolesTable"), Name("UserRoleOption")}),
     From("@appspine/frontend-shell/notification", {Name("NotificationBell")}),
     Whole("namespace", "@appspine/auth"), Whole("bare", "@appspine/auth"),
     Whole("namespace", "@appspine/m2m-api-key"), Whole("unparsed", "")}

TwoFiles == {<<{x}, {y}>> : x, y \in Imports}

(* An import is of a form and from a module, and its specifiers have a name and a local name. *)
Shaped(x) ==
    /\ x = [form |-> x.form, from |-> x.from, names |-> x.names, typed |-> x.typed]
    /\ x.typed \in BOOLEAN
    /\ \A n \in x.names : n = [name |-> n.name, local |-> n.local, type |-> n.type]
ASSUME ImportAssumption ==
    /\ \A x \in WrittenImports : Shaped(x)
    /\ \A f \in FoundApps : /\ f \in Seq({f[i] : i \in DOMAIN f})
                           /\ \A i \in DOMAIN f : \A x \in f[i] : Shaped(x)

Codemods == INSTANCE MigrationCodemod
    WITH Apps <- FoundApps, Statements <- WrittenImports,
         MaxEdits <- CodemodEdits, MaxRuns <- CodemodRuns, verdict <- verdictOf

--------------------------------------------------------------------------------
(* The sum of the parts *)

planVars   == <<table, twice, desired, target, plan, planned, refused, inForce>>
loaderVars == <<pkg, pin, pinned, result, defined, packageEdits>>
driftVars  == <<app, deployed, indexes, live, scoped, beyond, schemaEdits, migrations>>
movedVars   == <<files, meant, job, verdictOf, codeEdits, jobs>>
toolingVars == <<planVars, loaderVars, driftVars, movedVars>>

PlanOff ==
    /\ table = {} /\ twice = {} /\ desired = {} /\ target = {} /\ plan = {} /\ planned = {}
    /\ refused = {} /\ inForce = {}
LoaderOff ==
    pkg = {} /\ pin = {} /\ pinned = {} /\ result = {} /\ defined = {} /\ packageEdits = {}
DriftOff ==
    /\ app = {} /\ deployed = {} /\ indexes = {} /\ live = {} /\ scoped = {} /\ beyond = {}
    /\ schemaEdits = {} /\ migrations = {}
MovedOff ==
    files = {} /\ meant = {} /\ job = {} /\ verdictOf = {} /\ codeEdits = {} /\ jobs = {}

ToolingInit(part) ==
    /\ IF part = "permissions" THEN Plans!Init ELSE PlanOff
    /\ IF part = "loader" THEN Loader!Init ELSE LoaderOff
    /\ IF part = "drift" THEN Drift!Init ELSE DriftOff
    /\ IF part = "codemods" THEN Codemods!Init ELSE MovedOff
ToolingNext(part) ==
    \/ part = "permissions" /\ Plans!Next /\ UNCHANGED <<loaderVars, driftVars, movedVars>>
    \/ part = "loader" /\ Loader!Next /\ UNCHANGED <<planVars, driftVars, movedVars>>
    \/ part = "drift" /\ Drift!Next /\ UNCHANGED <<planVars, loaderVars, movedVars>>
    \/ part = "codemods" /\ Codemods!Next /\ UNCHANGED <<planVars, loaderVars, driftVars>>
================================================================================
