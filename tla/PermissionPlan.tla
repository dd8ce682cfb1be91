----------------------------- MODULE PermissionPlan -----------------------------
(***************************************************************************)
(* The permission catalogue of an App over its releases: a release brings  *)
(* the permissions its plugins declare (permission-reconciler.ts of        *)
(* @appspine/plugin-cli), reconcilePermissions plans the way there from    *)
(* the records the App has, and an adapter of the App (external) carries   *)
(* out the operations one by one.  The adapter may stop in between; a plan *)
(* is then made again from what is there.  Beside it stand the rules as    *)
(* 051-pl0-permission-reconciler-check.mjs froze them before there was a   *)
(* reconciler.                                                             *)
(***************************************************************************)
EXTENDS Integers, FiniteSets

CONSTANTS
    Releases,        \* what plugins may declare: sets of [id, label, aliasOf]; all ids are of
                     \* the form <plugin>:<resource>:<action>
    NoAlias,
    MaxGeneration    \* bound

VARIABLES
    table,           \* the App's records: id -> [label, retired, generation]
    twice,           \* a hand-edited store holds an id twice
    desired,         \* the release being installed
    target,          \* ... its generation
    plan,            \* operations still to carry out
    planned,         \* a plan was made for this release
    refused,         \* the codes reconcilePermissions reported instead
    inForce          \* history: the ids that were not retired when the plan was made

vars == <<table, twice, desired, target, plan, planned, refused, inForce>>

Known == DOMAIN table
IdsOf(d) == {e.id : e \in d}
Largest(S) == CHOOSE n \in S : \A m \in S : m <= n
Newest(t) == Largest({0} \cup {t[id].generation : id \in DOMAIN t})

--------------------------------------------------------------------------------
(* desiredPermissionsFrom: what a plugin declares outside its own namespace is left out.
   A release is what remains. *)

Faults(t, d, g) ==
    (IF Newest(t) > g THEN {"downgrade-blocked"} ELSE {})
    \cup (IF \E e, f \in d : e # f /\ e.id = f.id THEN {"duplicate-permission-id"} ELSE {})
    \cup (IF \E e \in d : e.aliasOf # NoAlias /\ e.aliasOf \notin DOMAIN t
          THEN {"alias-target-not-found"} ELSE {})
    \cup (IF \E e \in d : e.aliasOf = e.id THEN {"self-alias"} ELSE {})

AliasedAway(d) == {e.aliasOf : e \in d} \ {NoAlias}

AddOnly(t, e) ==                 \* mutant: a changed label is not noticed
    [id |-> e.id, label |-> e.label,
     op |-> IF e.aliasOf # NoAlias THEN "alias" ELSE IF e.id \notin DOMAIN t THEN "add" ELSE "no-op"]
Op(t, e) ==
    [id |-> e.id, label |-> e.label,
     op |-> IF e.aliasOf # NoAlias THEN "alias"
            ELSE IF e.id \notin DOMAIN t THEN "add"
            ELSE IF t[e.id].label # e.label THEN "update-display" ELSE "no-op"]

Gone(t, d) == DOMAIN t \ (IdsOf(d) \cup AliasedAway(d))
Retirements(t, d) ==
    {[id |-> id, label |-> t[id].label, op |-> "retire"] : id \in {i \in Gone(t, d) : ~t[i].retired}}

Reconcile(t, d) == {Op(t, e) : e \in d} \cup Retirements(t, d)

(* reconcile of the frozen script.  Ids that occur twice, declared or stored, and a downgrade are
   reported alone; aliases are looked at after that, and what is retired is retired again. *)
FrozenUpFront(t, again, d, g) ==
    (IF again \/ \E e \in d : \E f \in d \ {e} : f.id = e.id THEN {"duplicate-permission-id"} ELSE {})
    \cup (IF Newest(t) > g THEN {"downgrade-blocked"} ELSE {})

FrozenFaults(t, again, d, g) ==
    IF FrozenUpFront(t, again, d, g) # {} THEN FrozenUpFront(t, again, d, g)
    ELSE IF \E e \in d : e.aliasOf \notin DOMAIN t \cup {NoAlias} THEN {"alias-target-not-found"} ELSE {}

FrozenPlan(t, d) ==
    LET Row(e, op) == [id |-> e.id, label |-> e.label, op |-> op]
        renamed == {e \in d : e.aliasOf # NoAlias}
        kept    == {e \in d \ renamed : e.id \in DOMAIN t}
        same    == {e \in kept : t[e.id].label = e.label}
    IN {Row(e, "alias") : e \in renamed}
       \cup {Row(e, "add") : e \in (d \ renamed) \ kept}
       \cup {Row(e, "update-display") : e \in kept \ same}
       \cup {Row(e, "no-op") : e \in same}
       \cup {[id |-> id, label |-> t[id].label, op |-> "retire"] :
                 id \in {i \in DOMAIN t : (\A e \in d : e.id # i) /\ (\A e \in renamed : e.aliasOf # i)}}

--------------------------------------------------------------------------------
(* Releases *)

NoPlan == plan' = {} /\ planned' = FALSE /\ inForce' = {}

Init ==
    /\ table = [id \in {} |-> 0] /\ twice = FALSE /\ desired = {} /\ target = 0
    /\ plan = {} /\ planned = FALSE /\ refused = {} /\ inForce = {}

Release ==
    /\ \E d \in Releases, g \in {target, target + 1} : g \in 1..MaxGeneration /\ desired' = d /\ target' = g
    /\ NoPlan /\ refused' = {}
    /\ UNCHANGED <<table, twice>>

(* An older release, rolled back to. *)
RollBack ==
    /\ target > 1 /\ target' = target - 1
    /\ desired' \in Releases
    /\ NoPlan /\ refused' = {}
    /\ UNCHANGED <<table, twice>>

MakePlan ==
    /\ target > 0
    /\ refused' = Faults(table, desired, target)
    /\ plan' = IF refused' = {} THEN Reconcile(table, desired) ELSE {}
    /\ planned' = (refused' = {})
    /\ inForce' = IF refused' = {} THEN {id \in Known : ~table[id].retired} ELSE {}
    /\ UNCHANGED <<table, twice, desired, target>>

Record(o) ==
    IF o.op = "retire" THEN [table[o.id] EXCEPT !.retired = TRUE, !.generation = target]
    ELSE [label |-> o.label, retired |-> o.id \in Known /\ table[o.id].retired, generation |-> target]

(* The adapter: one operation is one step. *)
Apply ==
    /\ \E o \in plan :
          /\ plan' = plan \ {o}
          /\ table' = IF o.op = "no-op" THEN table
                      ELSE [id \in Known \cup {o.id} |-> IF id = o.id THEN Record(o) ELSE table[id]]
    /\ UNCHANGED <<twice, desired, target, planned, refused, inForce>>

(* The deployment stops; the rest of the plan is lost. *)
Stop ==
    /\ plan # {} /\ NoPlan
    /\ UNCHANGED <<table, twice, desired, target, refused>>

(* A record is put into the store twice by hand, or the second copy taken out again. *)
HandEdit ==
    /\ Known # {} /\ twice' = ~twice
    /\ UNCHANGED <<table, desired, target, plan, planned, refused, inForce>>

Next == Release \/ RollBack \/ MakePlan \/ Apply \/ Stop \/ HandEdit
Spec == Init /\ [][Next]_vars

--------------------------------------------------------------------------------
(* Properties *)

(* Where a plan was carried out to its end nothing is left to change: planning again brings
   only no-ops and the aliases again, every declared id is there under its label, what it
   replaces is still in force unless it was retired before, and nothing else is active. *)
AppliedPlanSettles ==
    planned /\ plan = {} =>
        /\ \A o \in Reconcile(table, desired) : o.op \in {"no-op", "alias"}
        /\ \A e \in desired : e.id \in Known /\ table[e.id].label = e.label
        /\ \A id \in AliasedAway(desired) \cap inForce : ~table[id].retired
        /\ \A id \in Known : ~table[id].retired => id \in IdsOf(desired) \cup AliasedAway(desired)

(* What became of the frozen rules.  The package refuses for every reason the frozen script has,
   but that it takes a store with an id twice; beside those it refuses aliases of an id to itself,
   and it names missing aliases where the script stops before.  Where both plan, the plans differ
   only in the retirement of what is retired already. *)
AsFrozen ==
    LET package == Faults(table, desired, target)
        frozen  == FrozenFaults(table, twice, desired, target)
    IN /\ frozen \ package \subseteq (IF twice THEN {"duplicate-permission-id"} ELSE {})
       /\ package \ frozen \subseteq
              {"self-alias"} \cup (IF FrozenUpFront(table, twice, desired, target) # {}
                                 THEN {"alias-target-not-found"} ELSE {})
       /\ package = {} /\ frozen = {} =>
              /\ Reconcile(table, desired) \subseteq FrozenPlan(table, desired)
              /\ \A o \in FrozenPlan(table, desired) \ Reconcile(table, desired) :
                    o.op = "retire" /\ table[o.id].retired
================================================================================
