----------------------------- MODULE PluginResolver -----------------------------
(***************************************************************************)
(* resolvePlugins of @appspine/plugin-api/resolver: an App's inventory and *)
(* the manifests of the installed packages become a registration order, or *)
(* are rejected.                                                           *)
(*                                                                         *)
(* Plugin ids and instance ids are numbers, compared as the code compares  *)
(* strings; instance 1 is "default".  A capability or a contribution is a  *)
(* pair of its name and the instance qualifying it, 0 for the bare name.   *)
(***************************************************************************)
EXTENDS Naturals, Sequences, FiniteSets

CONSTANT Inputs    \* [manifests, entries, host]: what resolvePlugins is called with

VARIABLES
    input,          \* the ResolveOptions of this call
    todo,           \* inventory entries not read yet
    instances,      \* the enabled entries that became instances
    disabled,       \* the keys of the disabled ones
    diagnostics,    \* the codes reported, those with severity "info" in `infos`
    infos,
    phase, result,
    dependsOn,      \* instance -> the instances it must be registered after
    waiting,        \* topologicalOrder: what an instance still waits for,
    remaining,      \* ... the instances not ordered yet,
    ready,          \* ... the frontier being emptied
    order

vars == <<input, todo, instances, disabled, diagnostics, infos, phase, result,
          dependsOn, waiting, remaining, ready, order>>

Key(e) == <<e.id, e.n>>
Before(e, f) == e.id < f.id \/ (e.id = f.id /\ e.n < f.n)

AnyOf(e, S) == e \in S            \* mutant: the frontier is not sorted
IsFirst(e, S) == e \in S /\ \A f \in S : ~Before(f, e)

Init ==
    /\ input \in Inputs
    /\ todo = input.entries /\ instances = {} /\ disabled = {}
    /\ diagnostics = {} /\ infos = {} /\ phase = "read" /\ result = "none"
    /\ dependsOn = <<>> /\ waiting = <<>> /\ remaining = {} /\ ready = {} /\ order = <<>>

--------------------------------------------------------------------------------
(* Reading the inventory *)

(* The id, or the package name: what an inventory entry may refer to.  Manifests that
   share one are reported, and the first wins. *)
Found(e) == {m \in input.manifests : m.id = e.id}
ManifestOf(e) == CHOOSE m \in input.manifests : m.id = e.id

Ambiguous == \E m1, m2 \in input.manifests : m1 # m2 /\ m1.id = m2.id

Report(code, condition) == IF condition THEN {code} ELSE {}

EntryFaults(e) ==
    LET m == ManifestOf(e) IN
    Report("optional-without-failure-policy", ~e.required /\ ~m.policy)
    \cup Report("config-ref-mismatch",
                e.configRef # "" /\ m.configRef # "" /\ e.configRef # m.configRef)
    \cup Report("app-local-claim-from-official-scope", m.local /\ m.official)

Seen == {Key(e) : e \in instances} \cup disabled

Read(e) ==
    /\ phase = "read" /\ IsFirst(e, todo)
    /\ todo' = todo \ {e}
    /\ \/ /\ Found(e) = {}
          /\ diagnostics' = diagnostics \cup {"unknown-plugin"}
          /\ UNCHANGED <<instances, disabled>>
       \/ /\ Found(e) # {} /\ Key(e) \in Seen
          /\ diagnostics' = diagnostics \cup {"duplicate-instance"}
          /\ UNCHANGED <<instances, disabled>>
       \/ /\ Found(e) # {} /\ Key(e) \notin Seen /\ ~e.enabled
          /\ disabled' = disabled \cup {Key(e)}
          /\ UNCHANGED <<instances, diagnostics>>
       \/ /\ Found(e) # {} /\ Key(e) \notin Seen /\ e.enabled
          /\ instances' = instances \cup {e}
          /\ diagnostics' = diagnostics \cup EntryFaults(e)
          /\ UNCHANGED disabled
    /\ UNCHANGED <<input, infos, phase, result, dependsOn, waiting, remaining, ready, order>>

--------------------------------------------------------------------------------
(* The checks over all instances *)

Bare(S) == {<<x, 0>> : x \in S}
Qualified(S, n) == {<<x, n>> : x \in S}

(* A multi-instance plugin answers to the bare name and to the qualified one. *)
ProvidedCapabilities(e) ==
    LET m == ManifestOf(e) IN
    Bare(m.provides) \cup (IF m.multiple THEN Qualified(m.provides, e.n) ELSE {})

Providers(c) == {e \in instances : c \in ProvidedCapabilities(e)}
Enabled == {e.id : e \in instances}
Replaces(e) == ManifestOf(e).replaces                \* records [plugin, contribution]
Replaced == {r.plugin : r \in UNION {Replaces(e) : e \in instances}}
Owners(c) == {e.id : e \in Providers(c)}

ContestedByName(c) == {}          \* mutant: providers of one capability are not compared
Contested(c) ==
    IF Cardinality(Owners(c)) < 2 THEN {} ELSE Owners(c) \ Replaced

(* collectContributions: the kinds that matter here.  Routes, tokens and workers are
   "exclusive"; modules and models are "shared" by the instances of one plugin; the
   health indicator of a multi-instance plugin is qualified. *)
Contributions(e) ==
    LET m == ManifestOf(e) IN
    {[kind |-> "exclusive", value |-> v] : v \in Bare(m.exclusive)}
    \cup {[kind |-> "shared", value |-> v] : v \in Bare(m.shared)}
    \cup {[kind |-> "health", value |-> v] :
            v \in (IF m.multiple THEN Qualified(m.health, e.n) ELSE Bare(m.health))}

Suppressed(e, x) ==
    \E f \in instances : [plugin |-> e.id, contribution |-> x.value] \in Replaces(f)
Contributors(x) == {e \in instances : x \in Contributions(e) /\ ~Suppressed(e, x)}
Duplicated(x) ==
    /\ Cardinality(Contributors(x)) > 1
    /\ x.kind = "shared" => Cardinality({e.id : e \in Contributors(x)}) > 1

FirstProvider(e, c) ==            \* mutant: only one provider is waited for
    {f \in Providers(c) \ {e} : IsFirst(f, Providers(c) \ {e})}
External(e, c) == Providers(c) \ {e}

Wanted(e) == ManifestOf(e).requires \ input.host
Optional(e) == ManifestOf(e).optionalRequires \ input.host
Needed(e) == UNION {External(e, k) : k \in Wanted(e) \cup Optional(e)}
Unresolved(e) == {k \in Optional(e) : External(e, k) = {}}
Unserved(e) == {k \in Wanted(e) : External(e, k) = {}}

Capabilities == UNION {ProvidedCapabilities(e) : e \in instances}

GraphFaults ==
    Report("ambiguous-plugin-reference", Ambiguous)
    \cup Report("singleton-cardinality-violation",
            \E e \in instances : \E f \in instances \ {e} :
                e.id = f.id /\ ~ManifestOf(e).multiple)
    \cup Report("plugin-conflict",
            \E e \in instances : ManifestOf(e).conflicts \cap Enabled # {})
    \cup Report("duplicate-capability-provider",
            \E k \in Capabilities : Cardinality(Contested(k)) > 1)
    \cup Report("host-capability-overridden", input.host \cap Capabilities # {})
    \cup Report("replaces-target-missing", ~(Replaced \subseteq Enabled))
    \cup Report("missing-required-capability",
            \E e \in instances : Unserved(e) # {})
    \cup Report("duplicate-contribution",
            \E x \in UNION {Contributions(e) : e \in instances} : Duplicated(x))

Check ==
    /\ phase = "read" /\ todo = {}
    /\ phase' = "order"
    /\ diagnostics' = diagnostics \cup GraphFaults
    /\ infos' = UNION {{<<e, k>> : k \in Unresolved(e)} : e \in instances}
    /\ dependsOn' = [e \in instances |-> Needed(e)]
    /\ waiting' = dependsOn' /\ remaining' = instances
    /\ UNCHANGED <<input, todo, instances, disabled, result, ready, order>>

--------------------------------------------------------------------------------
(* topologicalOrder *)

FrontierOfAll == {e \in instances : waiting[e] = {}}    \* mutant: nothing leaves the map
Frontier == {e \in remaining : waiting[e] = {}}

Round ==
    /\ phase = "order" /\ ready = {} /\ Frontier # {}
    /\ ready' = Frontier
    /\ UNCHANGED <<input, todo, instances, disabled, diagnostics, infos, phase, result,
                   dependsOn, waiting, remaining, order>>

Push(e) ==
    /\ phase = "order" /\ IsFirst(e, ready)
    /\ ready' = ready \ {e}
    /\ order' = Append(order, e)
    /\ remaining' = remaining \ {e}
    /\ waiting' = [f \in instances |-> waiting[f] \ {e}]
    /\ UNCHANGED <<input, todo, instances, disabled, diagnostics, infos, phase, result, dependsOn>>

Verdict(codes) == IF codes = {} THEN "ok" ELSE "rejected"

EndsWhenEmpty == remaining = {}   \* mutant: `while (remaining.size > 0)` and no way out
LoopEnds == Frontier = {}

NoCycleFound == {}                \* mutant: the loop stops, and nothing is said
CycleFound == IF remaining = {} THEN {} ELSE {"dependency-cycle"}

(* No instance is ready: all are ordered, or those left wait for each other. *)
Finish ==
    /\ phase = "order" /\ ready = {} /\ LoopEnds
    /\ phase' = "done"
    /\ diagnostics' = diagnostics \cup CycleFound
    /\ result' = Verdict(diagnostics')
    /\ UNCHANGED <<input, todo, instances, disabled, infos, dependsOn, waiting, remaining,
                   ready, order>>

Next ==
    \/ \E e \in todo : Read(e)
    \/ Check
    \/ Round
    \/ \E e \in ready : Push(e)
    \/ Finish

Spec == Init /\ [][Next]_vars

(* One synchronous function: it runs until it returns. *)
FairSpec == Spec /\ WF_vars(Next)

--------------------------------------------------------------------------------
(* Properties *)

TypeOK ==
    /\ input \in Inputs /\ todo \subseteq input.entries /\ instances \subseteq input.entries
    /\ phase \in {"read", "order", "done"} /\ result \in {"none", "ok", "rejected"}
    /\ phase # "read" =>
        /\ dependsOn \in [instances -> SUBSET instances]
        /\ waiting \in [instances -> SUBSET instances]
    /\ remaining \subseteq instances /\ ready \subseteq remaining
    /\ order \in Seq(instances)

(* "orders dependants after their providers": in an accepted graph every enabled
   instance is registered exactly once, every capability it requires is the host's or
   provided by an instance registered before it, and so is everyone else who provides
   what it requires, optionally or not. *)
ProvidersFirst ==
    result = "ok" =>
        /\ {order[q] : q \in DOMAIN order} = instances
        /\ \A p, q \in DOMAIN order : order[p] = order[q] => p = q
        /\ \A q \in DOMAIN order :
              /\ \A k \in Wanted(order[q]) : \E p \in 1..(q - 1) : order[p] \in Providers(k)
              /\ \A k \in Wanted(order[q]) \cup Optional(order[q]) :
                    Providers(k) \ {order[q]} \subseteq {order[p] : p \in 1..(q - 1)}

(* The length of the longest chain of dependencies that starts at e. *)
IsDepth(d) ==
    \A e \in instances :
        /\ \A f \in dependsOn[e] : d[f] < d[e]
        /\ d[e] # 1 => \E f \in dependsOn[e] : d[e] = d[f] + 1

(* The order is a function of the input, whatever order it was handed in: instances
   are sorted by the length of their longest chain of dependencies, then by key. *)
OrderIsCanonical ==
    result = "ok" =>
        \E d \in [instances -> 1..Len(order)] : IsDepth(d) /\
            \A p, q \in DOMAIN order :
                p < q <=> \/ d[order[p]] < d[order[q]]
                          \/ d[order[p]] = d[order[q]] /\ Before(order[p], order[q])

(* "detects a dependency cycle instead of hanging or dropping nodes": a cycle is
   reported exactly when there is one, instances that all wait for each other. *)
CycleReported ==
    phase = "done" =>
        ("dependency-cycle" \in diagnostics
            <=> \E S \in SUBSET instances : S # {} /\ \A e \in S : dependsOn[e] \cap S # {})

(* An accepted graph leaves no doubt whom a requirement resolves to: the providers of
   one capability belong to one plugin, but for plugins some instance replaces; and no
   two instances answer to one route, token or worker that nobody replaces. *)
NoTwoOwners ==
    result = "ok" =>
        /\ \A e \in instances : \A k \in Wanted(e) \cup Optional(e) :
              \A f, g \in Providers(k) : f.id # g.id => {f.id, g.id} \cap Replaced # {}
        /\ \A e, f \in instances : e # f =>
              \A v \in ManifestOf(e).exclusive \cap ManifestOf(f).exclusive :
                  \E g \in instances, p \in {e.id, f.id} :
                      [plugin |-> p, contribution |-> <<v, 0>>] \in Replaces(g)

(* The resolution returns, with cycles too. *)
Returns == <>(result # "none")
================================================================================
