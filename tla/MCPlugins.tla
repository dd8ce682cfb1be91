------------------------------- MODULE MCPlugins -------------------------------
(* The plugin platform for TLC: one behaviour is of one part, the lifecycle of a resolved
   graph, the resolver, the CLI's workspace, the generators, or the worker of the domain-events
   plugin.  Parts that name a variable alike share it. *)
EXTENDS PluginLifecycle, Integers, Sequences, FiniteSets, TLC

CONSTANTS
    RunParts,                     \* the parts this instance runs
    Resolutions,                  \* what resolvePlugins is called with
    Generations,                  \* the graphs the generators are called with
    Packages, Presets, Copies, Versions, Manifest, PresetDoc, Ambient, Secrets, FirstFile,
    MaxCommands, MaxEdits,        \* the workspace and its bounds
    a, b, c, Broken, None, Absent, NItems

ASSUME ResolverAssumption ==
    \A x \in Resolutions :
        IsFiniteSet(x.entries) /\ \A e \in x.entries : e.id \in Nat /\ e.n \in Nat

Entries == [plugin : Packages, instance : Copies, enabled : BOOLEAN, required : BOOLEAN,
            configRef : STRING]
InventoryFiles == [plugins : SUBSET Entries, presets : SUBSET Presets]

ASSUME WorkspaceAssumption ==
    /\ FirstFile \in InventoryFiles /\ 1 \in Versions
    /\ \A p \in Packages, v \in Versions : Manifest[p][v].configRef \in STRING
    /\ \A q \in Presets, v \in Versions : PresetDoc[q][v] \subseteq Entries
    /\ "COMPOSITION FAILED" \notin Packages
    /\ {"digest", "packages"} \cap DOMAIN None = {}     \* None is not what a file contains

VARIABLES
    part,
    input, todo, instances, disabled, diagnostics, infos, dependsOn, waiting, remaining, order,
    phase, ready, result, graph, list, degree,
    inventory, dependencies, installed, patched, presetVersion, artifacts, made, lock, writes,
    answer, commands, edits,
    txn, seq, nextSeq, deliveryStatus, attempts, lockedBy, backoff, nextLease, expired,
    enabled, timer, pc, stmts, staleBefore, lease, batch, copy, cur, outcome, retries, faults,
    handled, fatal

--------------------------------------------------------------------------------
(* The lifecycle: a chain, instance 2 with only a register hook. *)

AllHooks  == Instances \X (BootStages \cup {"shutdown"})
MostHooks == {h \in AllHooks : h[1] = 2 => h[2] = "register"}
Chain     == [i \in Instances |-> IF i = 1 THEN {} ELSE {i - 1}]

--------------------------------------------------------------------------------
(* Inputs of the resolver.  Plugin 1 is a singleton, 2 has instances, 3 is an App's own
   plugin that may replace what plugin 1 contributes. *)

Entry(i, n, on, req, ref) ==
    [id |-> i, n |-> n, enabled |-> on, required |-> req, configRef |-> ref]

Plugin(i, gives, wants, wishes) ==
    [id |-> i, multiple |-> i = 2, provides |-> gives, requires |-> wants,
     optionalRequires |-> wishes, replaces |-> {}, conflicts |-> {}, policy |-> i # 1,
     configRef |-> IF i = 1 THEN "one" ELSE "", local |-> i = 3, official |-> i # 3,
     exclusive |-> {},
     shared |-> IF i = 2 THEN {"x", "y"} ELSE IF i = 1 THEN {"z"} ELSE {"w"},
     health |-> IF i = 2 THEN {"h"} ELSE {}]

A == <<"a", 0>>
B == <<"b", 0>>

Graphs ==
    {{Plugin(1, g1, n1, w1), Plugin(2, g2, n2, {}), Plugin(3, g3, n3, w3)} :
        g1 \in {{"a"}, {}}, n1 \in {{}, {B}}, w1 \in {{}, {B}},
        g2 \in {{"b"}, {"a", "b"}}, n2 \in {{}, {A}, {B}},
        g3 \in {{}, {"b"}}, n3 \in {{}, {<<"b", 2>>}, {A}}, w3 \in {{}, {B}, {<<"b", 1>>}}}

Replacing ==
    {{Plugin(2, {}, {A}, {}),
      [Plugin(1, {"a"}, {}, {}) EXCEPT !.exclusive = {"r"}, !.conflicts = x],
      [Plugin(3, g, {A}, {}) EXCEPT !.exclusive = {"r"}, !.replaces = s, !.official = o]} :
        g \in {{"a"}, {"c"}}, o \in BOOLEAN, x \in {{}, {3}},
        s \in SUBSET {[plugin |-> 1, contribution |-> <<"r", 0>>],
                      [plugin |-> 2, contribution |-> <<"r", 0>>]}}

Install == {Entry(1, 1, TRUE, TRUE, ""), Entry(2, 1, TRUE, TRUE, ""), Entry(2, 2, TRUE, FALSE, "")}
Inventories ==
    {Install, Install \cup {Entry(3, 1, TRUE, TRUE, "")},
     {Entry(2, 2, TRUE, TRUE, ""), Entry(3, 1, TRUE, FALSE, "three")}}
Faulty ==
    {Install \cup {Entry(1, 1, FALSE, TRUE, "")},
     Install \cup {Entry(1, 2, TRUE, FALSE, "two"), Entry(3, 1, FALSE, TRUE, "")},
     {Entry(1, 1, TRUE, TRUE, "one"), Entry(3, 1, TRUE, TRUE, ""), Entry(4, 1, TRUE, TRUE, "")},
     {Entry(1, 1, TRUE, TRUE, "one"), Entry(2, 1, TRUE, TRUE, ""), Entry(3, 1, TRUE, TRUE, "")}}

Input(ms, es, hs) == [manifests |-> ms, entries |-> es, host |-> hs]

Inputs ==
    {Input(ms, es, {}) : ms \in Graphs, es \in Inventories}
    \cup {Input(ms, es, {}) : ms \in Replacing, es \in Faulty}
    \cup {Input(ms \cup {Plugin(1, {"b"}, {}, {})}, Install, {B}) : ms \in Replacing}

Resolver == INSTANCE PluginResolver WITH Inputs <- Resolutions

--------------------------------------------------------------------------------
(* The workspace.  Package c needs what b gives, version 2 of c also augments a model
   nobody owns; both presets contribute b. *)

Plugged(i, req) ==
    [plugin |-> i, instance |-> 1, enabled |-> TRUE, required |-> req, configRef |-> ""]
Body(gives, wants, augs) ==
    [provides |-> gives, requires |-> wants, owns |-> gives, augments |-> augs,
     policy |-> gives = {}, multiple |-> gives = {}, configRef |-> ""]
Packaged ==
    (a :> (1 :> Body({"x"}, {"host"}, {}) @@ 2 :> [Body({"x"}, {}, {}) EXCEPT !.configRef = "a"]))
    @@ (b :> (1 :> Body({"y"}, {}, {}) @@ 2 :> Body({"x", "y"}, {}, {"x"})))
    @@ (c :> (1 :> Body({}, {"y"}, {}) @@ 2 :> Body({}, {}, {"z"})))
Contributed ==
    1 :> (1 :> {Plugged(b, TRUE)} @@ 2 :> {}) @@ 2 :> (1 :> {Plugged(b, FALSE)} @@ 2 :> {Plugged(c, TRUE)})

NoFile == [none |-> TRUE]
Opening == [plugins |-> {Plugged(a, TRUE)}, presets |-> {1}]

Workspace == INSTANCE PluginWorkspace WITH Instances <- Copies, Start <- FirstFile

--------------------------------------------------------------------------------
(* The generators: all orders of up to NItems items with all `before` and `after`, two
   instances of one plugin, and all ways three plugins own and augment. *)

Item(i, o, before, after) ==
    [id |-> i, order |-> o, before |-> before, after |-> after, slot |-> "top"]
Active(nav, slots) ==
    [byName |-> TRUE, hasFrontend |-> TRUE, nav |-> nav, slots |-> slots, pages |-> <<>>,
     namespace |-> <<>>, prisma |-> Absent]

Lists ==
    UNION {{[i \in 1..n |-> Item(i, f[i][1], f[i][2], f[i][3])] :
               f \in [1..n -> {0, 1} \X (0..n) \X (0..n)]} : n \in 0..2}
LongLists ==
    {[i \in 1..NItems |-> Item(i, (i * 2) % 3, f[i][1], f[i][2])] :
        f \in [1..NItems -> {<<0, 0>>} \cup ((0..NItems) \X {0}) \cup ({0} \X (1..2))]}
Sorts == {<<Active(l, <<>>)>> : l \in Lists \cup LongLists}
Twice ==
    {<<x, x, y>> : x \in {Active(<<Item(1, 0, 0, 2)>>, <<Item(3, 0, 0, 0)>>)},
                   y \in {Active(<<Item(2, 0, 0, 0)>>, <<Item(4, 0, i, 0)>>) : i \in {0, 3}}}

Page(i, route) == [id |-> i, route |-> route]
Paged ==
    {<<[Active(<<Item(1, 0, 0, 0)>>, <<>>) EXCEPT !.pages = <<Page(1, x)>>, !.namespace = <<n>>],
       [Active(<<>>, <<>>) EXCEPT !.pages = <<Page(2, 2)>>, !.namespace = <<2>>, !.byName = y]>> :
         x \in 1..2, n \in 1..2, y \in BOOLEAN}

Prisma(i, os, es, as, f) ==
    [Active(<<>>, <<>>) EXCEPT !.hasFrontend = FALSE,
        !.prisma = [plugin |-> i, owns |-> os, enums |-> es, augments |-> as,
                    fragment |-> IF f THEN os ELSE Absent]]
Augment(m, o, t) == [model |-> m, field |-> "f", owner |-> o, type |-> t]
Schemas ==
    {<<Prisma(1, o1, {"e"}, {}, f), Prisma(2, o2, e2, a2, TRUE), Prisma(3, o3, {}, a3, TRUE)>> :
        o1 \in {{"A"}, {"A", "B"}}, f \in BOOLEAN, o2 \in SUBSET {"B", "C"}, e2 \in {{}, {"e"}},
        a2 \in {{}} \cup {{Augment("A", o, t)} : o \in {1, 3}, t \in {"Int", Absent}},
        o3 \in SUBSET {"C"}, a3 \in {{}} \cup {{Augment(m, o, "Int")} : m \in {"A", "B"}, o \in {1, 2}}}

AllGenerations == Sorts \cup Twice \cup Paged \cup Schemas

Artifacts == INSTANCE PluginArtifacts WITH Graphs <- Generations

Items == [id : Nat \ {0}, order : Int, before : Nat, after : Nat, slot : STRING]
SortedLists(g) ==
    {Artifacts!NavigationItems(g)} \cup {Artifacts!SlotItems(g, slot) : slot \in Artifacts!Slots(g)}

ASSUME GenerationAssumption ==
    \A g \in Generations :
        /\ SortedLists(g) \subseteq Seq(Items)
        /\ IsFiniteSet(DOMAIN g)
        /\ \A d \in Artifacts!Contributions(g) : d.plugin \in Nat /\ d.owns # Absent

--------------------------------------------------------------------------------
(* The dispatcher: one replica, an event with two deliveries, one crash, shutdown or failing
   call. *)
Dispatcher == INSTANCE DomainEventDispatcher
    WITH Events <- {1}, Deliveries <- {1, 2}, EventOf <- [d \in {1, 2} |-> 1],
         HandlerOf <- [d \in {1, 2} |-> d], Workers <- {1}, Registry <- [w \in {1} |-> {1, 2}],
         Bound <- {}, BatchSize <- 2, MaxAttempts <- 2, NoDelivery <- 0, MaxLeases <- 5,
         MaxRetries <- 0, MaxFaults <- 1, status <- deliveryStatus

--------------------------------------------------------------------------------
(* The sum of the parts *)

resolverVars  == <<input, todo, instances, disabled, diagnostics, infos, dependsOn, waiting,
                   remaining, order>>
artifactVars  == <<graph, list, degree>>
sharedVars    == <<phase, ready, result, edits>>
workspaceVars == <<inventory, dependencies, installed, patched, presetVersion, artifacts, made,
                   lock, writes, answer, commands>>
workerVars    == <<txn, seq, nextSeq, deliveryStatus, attempts, lockedBy, backoff, nextLease,
                   expired, enabled, timer, pc, stmts, staleBefore, lease, batch, copy, cur,
                   outcome, retries, faults, handled, fatal>>
toolVars      == <<resolverVars, artifactVars, sharedVars, workspaceVars>>
sumVars       == <<part, vars, toolVars, workerVars>>

ResolverOff ==
    /\ input = {} /\ todo = {} /\ instances = {} /\ disabled = {} /\ diagnostics = {}
    /\ infos = {} /\ dependsOn = {} /\ waiting = {} /\ remaining = {} /\ order = {}
ArtifactsOff == graph = {} /\ list = {} /\ degree = {}
WorkspaceOff ==
    /\ inventory = {} /\ dependencies = {} /\ installed = {} /\ patched = {} /\ presetVersion = {}
    /\ artifacts = {} /\ made = {} /\ lock = {} /\ writes = {} /\ answer = {} /\ commands = {}
WorkerOff ==
    /\ txn = {} /\ seq = {} /\ nextSeq = {} /\ deliveryStatus = {} /\ attempts = {}
    /\ lockedBy = {} /\ backoff = {} /\ nextLease = {} /\ expired = {} /\ enabled = {}
    /\ timer = {} /\ pc = {} /\ stmts = {} /\ staleBefore = {} /\ lease = {} /\ batch = {}
    /\ copy = {} /\ cur = {} /\ outcome = {} /\ retries = {} /\ faults = {} /\ handled = {}
    /\ fatal = {}

SumInit ==
    /\ part \in RunParts /\ Init
    /\ IF part = "resolver" THEN Resolver!Init
       ELSE ResolverOff /\ (part # "artifacts" => phase = "off" /\ ready = {})
    /\ IF part = "artifacts" THEN Artifacts!Init ELSE ArtifactsOff
    /\ IF part = "workspace" THEN Workspace!Init ELSE WorkspaceOff
    /\ IF part = "dispatcher" THEN Dispatcher!Init ELSE WorkerOff
    /\ part \notin {"resolver", "artifacts"} => result = {}
    /\ part # "workspace" => edits = {}

ResolverSteps ==
    /\ part = "resolver" /\ Resolver!Next
    /\ UNCHANGED <<part, vars, artifactVars, workspaceVars, edits, workerVars>>
ToolSteps ==
    \/ /\ part = "artifacts" /\ Artifacts!Next
       /\ UNCHANGED <<part, vars, resolverVars, workspaceVars, edits>>
    \/ /\ part = "workspace" /\ Workspace!Next
       /\ UNCHANGED <<part, vars, resolverVars, artifactVars, phase, ready, result>>
SumNext ==
    \/ part = "lifecycle" /\ Next /\ UNCHANGED <<part, toolVars, workerVars>>
    \/ ResolverSteps
    \/ ToolSteps /\ UNCHANGED workerVars
    \/ part = "dispatcher" /\ Dispatcher!Next /\ UNCHANGED <<part, vars, toolVars>>

(* What the parts assume themselves. *)
SumFairness ==
    /\ WF_vars(part = "lifecycle" /\ BootSteps)
    /\ \A call \in Calls : WF_vars(part = "lifecycle" /\ StopSteps(call))
    /\ WF_sumVars(ResolverSteps)
    /\ WF_workerVars(part = "dispatcher" /\ Dispatcher!Proceed(1))
    /\ SF_workerVars(part = "dispatcher" /\ \E S \in SUBSET {1, 2} : Dispatcher!Claim(1, S, "ok"))
    /\ WF_workerVars(part = "dispatcher" /\ Dispatcher!LeaseExpires)
    /\ \A d \in {1, 2} : WF_workerVars(part = "dispatcher" /\ Dispatcher!BackoffElapses(d))

SumSpec == SumInit /\ [][SumNext]_sumVars /\ SumFairness

--------------------------------------------------------------------------------
(* The properties of the parts, each for the behaviours of its part. *)

(* resolvePlugins: an accepted graph registers every provider before what requires it. *)
ProvidersFirst == part = "resolver" => Resolver!ProvidersFirst

(* topologicalOrder: among the instances that are free the lowest is next, whatever order
   the inventory lists them in; and a graph with a cycle is rejected, naming it. *)
CanonicalOrCyclic == part = "resolver" => Resolver!OrderIsCanonical /\ Resolver!CycleReported

(* checkOwnership: no exclusive contribution of an accepted graph has two owners, unless an
   App's own plugin replaces it. *)
NoTwoOwners == part = "resolver" => Resolver!NoTwoOwners

(* sortWithDependencies orders or throws, and compose() writes what a plugin augments into
   its owner's model, once. *)
GeneratedSoundly == part = "artifacts" => Artifacts!SortedOrThrown /\ Artifacts!AugmentedOnce

(* plugin build: its own --check and doctor find nothing stale after it. *)
BuildConverges == part = "workspace" => Workspace!BuildConverges

(* plugin build --check and doctor: neither calls files current that were generated from
   something else, and they agree. *)
DriftIsSeen == part = "workspace" => Workspace!StaleArtifactsAreSeen /\ Workspace!DoctorAgreesWithCheck

(* shared.ts: "If `add` used a laxer check than `validate`, the CLI could write an inventory
   that its own validator rejects". *)
AddKeepsValid == part = "workspace" => Workspace!AddKeepsValid

(* DomainEventDispatcherService: every delivery of a committed event is decided, over a crash,
   a shutdown, lost answers, stale leases and failing handlers. *)
EveryDeliverySettles ==
    \A d \in {1, 2} :
        (part = "dispatcher" /\ Dispatcher!Visible(d))
            ~> (part = "dispatcher" /\ Dispatcher!Settled(d))

(* boot(), shutdown() and resolvePlugins() return: a hook that hangs does not keep the
   runner from finishing, a cycle does not keep the resolver busy. *)
EverythingReturns ==
    /\ part = "lifecycle" => BootEnds /\ ShutdownEnds
    /\ <>(part = "resolver" => result # "none")
================================================================================
