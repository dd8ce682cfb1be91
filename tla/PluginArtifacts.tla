---------------------------- MODULE PluginArtifacts ----------------------------
(***************************************************************************)
(* What the generators of @appspine/plugin-cli put into the artefacts of a *)
(* resolved graph: the frontend lists and their order (frontend-generator),*)
(* and the composed Prisma schema (prisma-composer).                       *)
(*                                                                         *)
(* The input is the graph's instances in registration order.  Ids, routes  *)
(* and plugins are numbers, compared as the code compares strings; 0 is an *)
(* absent `before` or `after`.                                             *)
(***************************************************************************)
EXTENDS Integers, SequencesExt

CONSTANTS Graphs,    \* sequences of instances, see ActiveFrontend and Contributions
          Absent     \* no Prisma type, no fragment

VARIABLES graph,     \* the resolved graph generated from
          list,      \* the items being ordered: navigation, or one slot's contributions
          ready,     \* sortWithDependencies: the frontier, as positions in list,
          degree,    \* ... what each id still waits for,
          result,    \* ... the items ordered so far
          phase

vars == <<graph, list, ready, degree, result, phase>>

--------------------------------------------------------------------------------
(* The lists *)

(* Manifests are looked up by package name among what the inventory's references loaded:
   an entry that refers to its plugin by bare id is not found. *)
ActiveFrontend(g) == SelectSeq(g, LAMBDA x : x.byName /\ x.hasFrontend)

NavigationItems(g) ==
    FlattenSeq([i \in DOMAIN ActiveFrontend(g) |-> ActiveFrontend(g)[i].nav])

SlotItems(g, slot) ==
    FlattenSeq([i \in DOMAIN ActiveFrontend(g) |->
        SelectSeq(ActiveFrontend(g)[i].slots, LAMBDA x : x.slot = slot)])
Slots(g) == UNION {{x.slot : x \in ToSet(ActiveFrontend(g)[i].slots)} : i \in DOMAIN ActiveFrontend(g)}

(* Pages and namespaces are taken in turn; the second to claim a route, a page id or a
   namespace throws. *)
Pages(g) == FlattenSeq([i \in DOMAIN ActiveFrontend(g) |-> ActiveFrontend(g)[i].pages])
AdminRoutes(g) ==
    IF \E i, j \in DOMAIN Pages(g) : i < j /\
          (Pages(g)[i].route = Pages(g)[j].route \/ Pages(g)[i].id = Pages(g)[j].id)
    THEN "thrown" ELSE "written"
Namespaces(g) ==
    FlattenSeq([i \in DOMAIN ActiveFrontend(g) |-> ActiveFrontend(g)[i].namespace])
I18n(g) == IF IsInjective(Namespaces(g)) THEN "written" ELSE "thrown"

--------------------------------------------------------------------------------
(* sortWithDependencies *)

Ids(l) == {l[i].id : i \in DOMAIN l}
Edges(l) ==
    {<<x.id, x.before>> : x \in {y \in ToSet(l) : y.before \in Ids(l)}}
    \cup {<<x.after, x.id>> : x \in {y \in ToSet(l) : y.after \in Ids(l)}}

(* itemMap: of two items with one id the later is kept. *)
PositionOf(l, id) ==
    CHOOSE i \in DOMAIN l : l[i].id = id /\ \A j \in DOMAIN l : l[j].id = id => j <= i

Before(x, y) == x.order < y.order \/ (x.order = y.order /\ x.id < y.id)

(* sortReady: the frontier is a set of positions in the list.  Its head is the first of the
   least: only items that share an id tie, and those enter the frontier together, in the
   list's order. *)
Foremost(l, S) ==
    CHOOSE i \in S : \A j \in S : ~Before(l[j], l[i]) /\ (j < i => Before(l[i], l[j]))

Begin(l) ==
    /\ phase = "generate"
    /\ list' = l /\ result' = IF Len(l) <= 1 THEN l ELSE <<>>
    /\ degree' = [x \in Ids(l) |-> Cardinality({e \in Edges(l) : e[2] = x})]
    /\ ready' = {i \in DOMAIN l : ~\E e \in Edges(l) : e[2] = l[i].id}
    /\ phase' = IF Len(l) <= 1 THEN "sorted" ELSE "sort"
    /\ UNCHANGED graph

Freed(x) == {e[2] : e \in {d \in Edges(list) : d[1] = x.id}}
NowReady(x) == {n \in Freed(x) : degree[n] = 1}

Shift ==
    /\ phase = "sort" /\ ready # {}
    /\ LET at == Foremost(list, ready)
           x  == list[at]
       IN
       /\ result' = Append(result, x)
       /\ ready' = (ready \ {at}) \cup {PositionOf(list, n) : n \in NowReady(x)}
       /\ degree' = [n \in DOMAIN degree |->
                        IF n \in Freed(x) THEN degree[n] - 1 ELSE degree[n]]
    /\ UNCHANGED <<graph, list, phase>>

End ==
    /\ phase = "sort" /\ ready = {}
    /\ phase' = IF Len(result) = Len(list) THEN "sorted" ELSE "thrown"
    /\ UNCHANGED <<graph, list, ready, degree, result>>

--------------------------------------------------------------------------------
(* compose: one contribution per package *)

Contributions(g) == {g[i].prisma : i \in {j \in DOMAIN g : g[j].prisma # Absent}}

Owning(cs, m) == {c \in cs : m \in c.owns}
OwnerOf(cs, m) ==                       \* the first to claim it, by plugin
    CHOOSE c \in Owning(cs, m) : \A d \in Owning(cs, m) : c.plugin <= d.plugin

Collisions(cs) ==
    {"owner-collision" : m \in {n \in UNION {c.owns : c \in cs} : Cardinality(Owning(cs, n)) > 1}}
    \cup {"enum-owner-collision" :
            m \in {n \in UNION {c.enums : c \in cs} : \E c, d \in cs : c # d /\ n \in c.enums \cap d.enums}}

AugmentFaults(cs, a) ==
    IF Owning(cs, a.model) = {} THEN {"missing-augmentation-target"}
    ELSE (IF a.owner # OwnerOf(cs, a.model).plugin THEN {"augmentation-owner-mismatch"} ELSE {})
         \cup (IF a.type = Absent THEN {"augmentation-without-type"} ELSE {})

(* What two plugins add alike is two augmentations; a plugin lists its own once each. *)
Augments(cs) ==
    UNION {{[model |-> a.model, field |-> a.field, owner |-> a.owner, type |-> a.type,
             plugin |-> c.plugin] : a \in c.augments} : c \in cs}
Faults(cs) == Collisions(cs) \cup UNION {AugmentFaults(cs, a) : a \in Augments(cs)}

(* injectAugmentations: the fields end up in the text of their model, if the owner ships a
   fragment and the model is in it. *)
NoneWritten(c, a) == a.plugin = c.plugin     \* mutant: fields go to the fragment of who adds them
InjectedInto(c, a) == c.fragment # Absent /\ a.model \in c.owns \cap c.fragment
Schema(cs) == {[in |-> x[1].plugin, augment |-> x[2]] :
                  x \in {y \in cs \X Augments(cs) : InjectedInto(y[1], y[2])}}

(* 051-pl0-prisma-composer-check.mjs: the rules as frozen before there was a composer. *)
FrozenFaults(cs) ==
    {"owner-collision" : m \in {n \in UNION {c.owns : c \in cs} : \E c, d \in cs : c # d /\ n \in c.owns \cap d.owns}}
    \cup {"missing-augmentation-target" : a \in {b \in Augments(cs) : Owning(cs, b.model) = {}}}

--------------------------------------------------------------------------------
Init ==
    /\ graph \in Graphs /\ phase = "generate"
    /\ list = <<>> /\ ready = {} /\ degree = <<>> /\ result = <<>>

Order == Begin(NavigationItems(graph)) \/ \E slot \in Slots(graph) : Begin(SlotItems(graph, slot))

Fail ==
    /\ phase = "generate" /\ "thrown" \in {AdminRoutes(graph), I18n(graph)}
    /\ phase' = "failed" /\ UNCHANGED <<graph, list, ready, degree, result>>

Next == Order \/ Fail \/ Shift \/ End

Spec == Init /\ [][Next]_vars

--------------------------------------------------------------------------------
(* Properties *)

Distinct(l) == \A i, j \in DOMAIN l : l[i].id = l[j].id => i = j
Precedes(x, y) == x.before = y.id \/ y.after = x.id
Respects(order) == \A i, j \in DOMAIN order : Precedes(order[i], order[j]) => i < j
Orders(l) == {[i \in DOMAIN l |-> l[p[i]]] : p \in {q \in [DOMAIN l -> DOMAIN l] : IsInjective(q)}}

(* sortWithDependencies returns its items, each once, in an order that respects every
   `before` and `after`, and throws just when there is none: items with ids of their own.
   The order is the one `order` and id ask for: two neighbours are out of that order only
   when the first is what the second waited for. *)
SortedOrThrown ==
    Distinct(list) =>
        /\ phase = "sorted" =>
              /\ result \in Orders(list) /\ (Len(list) > 1 => Respects(result))
              /\ \A i \in 1..(Len(result) - 1) :
                    Before(result[i + 1], result[i]) => Precedes(result[i], result[i + 1])
        /\ phase = "thrown" => \A order \in Orders(list) : ~Respects(order)

(* The composer accepts no more than the frozen rules do; of what it accepts, where every
   owner ships the text of its models, what each plugin adds is written, and into the text of
   the owner it names only. *)
AugmentedOnce ==
    LET cs == Contributions(graph) IN
    /\ FrozenFaults(cs) \subseteq Faults(cs)
    /\ Faults(cs) = {} /\ (\A c \in cs : c.fragment = c.owns) =>
          \A a \in Augments(cs) :
              {x.in : x \in {y \in Schema(cs) : y.augment = a}} = {a.owner}

(* prisma-composer.ts: an augmentation is never silently dropped. *)
NothingDropped ==
    LET cs == Contributions(graph) IN
    Faults(cs) = {} => \A a \in Augments(cs) : \E x \in Schema(cs) : x.augment = a
(* frontend-generator.ts: what throws in the order of navigation items is a cycle. *)
OnlyCyclesThrow ==
    phase = "thrown" => \A order \in Orders(list) : ~Respects(order)
================================================================================
