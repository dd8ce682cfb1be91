---------------------------- MODULE PluginLifecycle ----------------------------
(***************************************************************************)
(* PluginLifecycleRunner of @appspine/plugin-api and the Nest host around  *)
(* it: boot() drives validate, register and ready of every plugin instance *)
(* in dependency order, shutdown() releases the started ones in reverse.   *)
(*                                                                         *)
(* Every hook is raced against a timer.  The runner gives up on a hook     *)
(* that is too slow, but nothing cancels it: it may still settle, at any   *)
(* later moment.  Instances are numbered in registration order.            *)
(***************************************************************************)
EXTENDS Naturals

CONSTANTS
    N,           \* instances 1..N, the order of ResolutionGraph
    Fatal,       \* required, or without optionalFailurePolicy
    Hooks,       \* the hooks the instances define, as pairs <<instance, stage>>
    Needs,       \* the providers an instance depends on
    Calls        \* calls of shutdown(): a signal, during boot too, or app.close()

Instances  == 1..N
BootStages == {"validate", "register", "ready"}

ASSUME LifecycleAssumption ==
    /\ N \in Nat \ {0}
    /\ Fatal \subseteq Instances
    /\ Hooks \subseteq Instances \X (BootStages \cup {"shutdown"})
    /\ Needs \in [Instances -> SUBSET Instances]
    /\ \A i \in Instances : \A j \in Needs[i] : j < i

VARIABLES
    boot, at, stage,           \* progress of boot(): instance and stage it is at
    status, started, aborted,  \* catalog entries, `started`, the abort flag
    hook, gaveUp,              \* boot hooks called; those the runner stopped awaiting
    owns,                      \* what register and ready acquired and shutdown releases
    stopping, left, stop,      \* progress of each shutdown(): instances still to do, hooks
    verdict,                   \* ... the problems it reports
    orderly                    \* history: the calls that began when boot was over

bootVars == <<boot, at, stage, started, aborted>>
hookVars == <<hook, gaveUp>>
stopVars == <<stopping, left, stop, verdict, orderly>>
vars     == <<bootVars, status, hookVars, owns, stopVars>>

Promise == {"none", "running", "ok", "threw"}
Status  == {"pending", "validated", "registered", "ready", "degraded", "failed",
            "not-reached", "stopped"}

TypeOK ==
    /\ boot \in {"new", "stage", "await", "done"} /\ at \in 1..(N + 1)
    /\ stage \in BootStages
    /\ status \in [Instances -> Status] /\ started \subseteq Instances
    /\ aborted \in BOOLEAN
    /\ hook \in [Instances -> [BootStages -> Promise]]
    /\ gaveUp \subseteq Instances \X BootStages
    /\ owns \in [Instances -> SUBSET {"register", "ready"}]
    /\ stopping \in [Calls -> {"none", "next", "await", "done"}]
    /\ left \in [Calls -> SUBSET Instances]
    /\ stop \in [Calls -> [Instances -> Promise]]
    /\ verdict \in [Calls -> SUBSET {"timeout", "failed"}] /\ orderly \subseteq Calls

Init ==
    /\ boot = "new" /\ at = 1 /\ stage = "validate"
    /\ status = [i \in Instances |-> "pending"] /\ started = {} /\ aborted = FALSE
    /\ hook = [i \in Instances |-> [s \in BootStages |-> "none"]] /\ gaveUp = {}
    /\ owns = [i \in Instances |-> {}]
    /\ stopping = [c \in Calls |-> "none"] /\ left = [c \in Calls |-> {}]
    /\ stop = [c \in Calls |-> [i \in Instances |-> "none"]] /\ verdict = [c \in Calls |-> {}]
    /\ orderly = {}

--------------------------------------------------------------------------------
(* boot, runBootStages *)

StartedAtReady(s) == s = "ready"    \* mutant: pushed once the instance is ready
Registers(s) == s = "register"      \* the stage after which an instance is in `started`

StatusAfter(s) == CASE s = "validate" -> "validated"
                    [] s = "register" -> "registered"
                    [] s = "ready" -> "ready"

NextPastEnd ==    \* mutant: the loop bound is off by one
    /\ at' = at + 1 /\ stage' = "validate"
    /\ boot' = IF at > N THEN "done" ELSE "stage"

NextInstance ==
    /\ at' = at + 1 /\ stage' = "validate"
    /\ boot' = IF at = N THEN "done" ELSE "stage"

(* advance: the stage passed, with or without a hook. *)
Advance ==
    /\ status' = [status EXCEPT ![at] = StatusAfter(stage)]
    /\ started' = IF Registers(stage) THEN started \cup {at} ELSE started
    /\ IF stage = "ready" THEN NextInstance
       ELSE /\ stage' = IF stage = "validate" THEN "register" ELSE "ready"
            /\ boot' = "stage"
            /\ UNCHANGED at
    /\ UNCHANGED aborted

(* An instance whose failure degrades it lets the boot go on; any other ends it, and
   the instances behind it are not reached. *)
StatusOnFailureKept(i) == status[i]    \* mutant: the entry keeps its last stage
StatusOnFailure(i) == IF i \in Fatal THEN "failed" ELSE "degraded"

BootGoesOn ==    \* mutant: the loop goes on after a fatal failure
    /\ status' = [status EXCEPT ![at] = StatusOnFailure(at)]
    /\ aborted' = (aborted \/ at \in Fatal)
    /\ started' = started
    /\ NextInstance

BootFails ==
    /\ started' = started
    /\ IF at \in Fatal
       THEN /\ status' = [i \in Instances |-> IF i = at THEN StatusOnFailure(i)
                                              ELSE IF i > at THEN "not-reached" ELSE status[i]]
            /\ aborted' = TRUE /\ boot' = "done"
            /\ UNCHANGED <<at, stage>>
       ELSE /\ status' = [status EXCEPT ![at] = StatusOnFailure(at)]
            /\ NextInstance
            /\ UNCHANGED aborted

Boot ==
    /\ boot = "new"
    /\ boot' = "stage"
    /\ UNCHANGED <<at, stage, started, aborted, status, hookVars, owns, stopVars>>

SkipStage ==
    /\ boot = "stage" /\ <<at, stage>> \notin Hooks
    /\ Advance
    /\ UNCHANGED <<hookVars, owns, stopVars>>

CallHook ==
    /\ boot = "stage" /\ <<at, stage>> \in Hooks
    /\ boot' = "await"
    /\ hook' = [hook EXCEPT ![at][stage] = "running"]
    /\ UNCHANGED <<at, stage, started, aborted, status, gaveUp, owns, stopVars>>

(* A hook settles.  If the runner still awaits it, its continuation runs at once. *)
HookSettles(i, s, r) ==
    /\ hook[i][s] = "running"
    /\ hook' = [hook EXCEPT ![i][s] = r]
    /\ owns' = IF r = "ok" /\ s # "validate" THEN [owns EXCEPT ![i] = @ \cup {s}] ELSE owns
    /\ IF boot = "await" /\ at = i /\ stage = s
       THEN IF r = "ok" THEN Advance ELSE BootFails
       ELSE UNCHANGED <<bootVars, status>>
    /\ UNCHANGED <<gaveUp, stopVars>>

(* withTimeout: the timer wins the race, the hook goes on. *)
NoTimer(progress) == FALSE         \* mutant: the hook is awaited without a timer
TimerFires(progress) == progress = "await"

HookTimesOut ==
    /\ TimerFires(boot)
    /\ gaveUp' = gaveUp \cup {<<at, stage>>}
    /\ BootFails
    /\ UNCHANGED <<hook, owns, stopVars>>

--------------------------------------------------------------------------------
(* shutdown *)

IsFirst(i, S) == i \in S /\ \A j \in S : i <= j    \* mutant: registration order
IsLast(i, S) == i \in S /\ \A j \in S : i >= j     \* [...started].reverse()

(* The iteration takes a copy of `started`. *)
Shutdown(c) ==
    /\ stopping[c] = "none"
    /\ orderly' = IF boot = "done" THEN orderly \cup {c} ELSE orderly
    /\ left' = [left EXCEPT ![c] = started]
    /\ stopping' = [stopping EXCEPT ![c] = IF started = {} THEN "done" ELSE "next"]
    /\ UNCHANGED <<bootVars, status, hookVars, owns, stop, verdict>>

StopNext(c, i) ==
    /\ left' = [left EXCEPT ![c] = @ \ {i}]
    /\ stopping' = [stopping EXCEPT ![c] = IF left[c] = {i} THEN "done" ELSE "next"]

SkipStop(c, i) ==
    /\ stopping[c] = "next" /\ IsLast(i, left[c]) /\ <<i, "shutdown">> \notin Hooks
    /\ status' = [status EXCEPT ![i] = "stopped"]
    /\ StopNext(c, i)
    /\ UNCHANGED <<bootVars, hookVars, owns, stop, verdict, orderly>>

CallStop(c, i) ==
    /\ stopping[c] = "next" /\ IsLast(i, left[c]) /\ <<i, "shutdown">> \in Hooks
    /\ stop' = [stop EXCEPT ![c][i] = "running"]
    /\ stopping' = [stopping EXCEPT ![c] = "await"]
    /\ UNCHANGED <<bootVars, status, hookVars, owns, left, verdict, orderly>>

StopSettles(c, i, r) ==
    /\ stop[c][i] = "running"
    /\ stop' = [stop EXCEPT ![c][i] = r]
    /\ owns' = IF r = "ok" THEN [owns EXCEPT ![i] = {}] ELSE owns
    /\ IF i \in left[c]
       THEN /\ StopNext(c, i)
            /\ status' = IF r = "ok" THEN [status EXCEPT ![i] = "stopped"] ELSE status
            /\ verdict' = IF r = "ok" THEN verdict
                          ELSE [verdict EXCEPT ![c] = @ \cup {"failed"}]
       ELSE UNCHANGED <<left, stopping, status, verdict>>
    /\ UNCHANGED <<bootVars, hookVars, orderly>>

ReportNothing == {}                \* mutant: a timeout is stepped over in silence
ReportTimeout == {"timeout"}

StopTimesOut(c, i) ==
    /\ TimerFires(stopping[c]) /\ IsLast(i, left[c])
    /\ verdict' = [verdict EXCEPT ![c] = @ \cup ReportTimeout]
    /\ StopNext(c, i)
    /\ UNCHANGED <<bootVars, status, hookVars, owns, stop, orderly>>

--------------------------------------------------------------------------------
Settled == {"ok", "threw"}

Runner ==
    \/ Boot \/ SkipStage \/ CallHook \/ HookTimesOut
    \/ \E c \in Calls, i \in Instances : SkipStop(c, i) \/ CallStop(c, i) \/ StopTimesOut(c, i)

Next ==
    \/ Runner
    \/ \E i \in Instances, s \in BootStages, r \in Settled : HookSettles(i, s, r)
    \/ \E c \in Calls : Shutdown(c) \/ \E i \in Instances, r \in Settled : StopSettles(c, i, r)

Spec == Init /\ [][Next]_vars

(* The event loop runs the runner's own continuations and timers.  Hooks get no
   fairness: they may hang for ever. *)
BootSteps    == SkipStage \/ CallHook \/ HookTimesOut
StopSteps(c) ==
    \E i \in Instances : SkipStop(c, i) \/ CallStop(c, i) \/ StopTimesOut(c, i)
FairSpec     == Spec /\ WF_vars(BootSteps) /\ \A c \in Calls : WF_vars(StopSteps(c))

--------------------------------------------------------------------------------
(* Properties *)

(* aggregateHealth *)
Health ==
    IF \E i \in Instances : status[i] \in {"failed", "not-reached"} THEN "failed"
    ELSE IF \E i \in Instances : status[i] = "degraded" THEN "degraded" ELSE "ready"

(* "Never hides a degraded instance": after boot, and until the app is shut down,
   health is "failed" exactly when boot was aborted, and "ready" only if every hook
   that was called settled well and in time. *)
HealthHonest ==
    boot = "done" /\ (\A c \in Calls : stopping[c] = "none")
    => /\ (Health = "failed") <=> aborted
       /\ (Health = "ready") <=>
             gaveUp = {} /\ \A h \in Hooks : h[2] # "shutdown" => hook[h[1]][h[2]] = "ok"

(* A hook of a fatal instance that threw or was too slow, even if it settles well
   later, keeps the instances behind it untouched: none of their hooks ever runs and
   shutdown never stops them. *)
AbortIsFinal ==
    \A i \in Fatal, s \in BootStages :
        hook[i][s] = "threw" \/ <<i, s>> \in gaveUp
        => \A j \in Instances : j > i =>
              j \notin started /\ \A t \in BootStages : hook[j][t] = "none"

(* The runner knows every owner it can know: what a boot hook acquired is in the
   hands of a started instance, unless the runner had given up on that very hook. *)
OwnersKnown ==
    \A i \in Instances : \A s \in owns[i] : i \in started \/ <<i, s>> \in gaveUp

(* What happens to the resources of an instance that defines a shutdown hook when a
   shutdown() reports no problem and boot was over before it began: all of them are
   released, except those of a hook the runner had given up on. *)
CleanShutdownReleases ==
    \A c \in orderly, i \in Instances :
        /\ stopping[c] = "done" /\ verdict[c] = {} /\ <<i, "shutdown">> \in Hooks
        => \A s \in owns[i] : <<i, s>> \in gaveUp

(* "in exactly the reverse order": a shutdown() calls the hook of an instance only
   when it is done with every instance that depends on it and is still started. *)
StopsDependantsFirst ==
    [][\A c \in Calls, i \in Instances :
          stop[c][i] = "none" /\ stop'[c][i] = "running"
          => \A j \in left[c] : i \notin Needs[j]]_vars

(* A hook that hangs does not keep boot() or shutdown() from finishing. *)
BootEnds     == boot = "stage" ~> boot = "done"
ShutdownEnds == \A c \in Calls : stopping[c] # "none" ~> stopping[c] = "done"

(* The comment on `started`: "Instances that reached at least `register` and
   therefore own resources to release".  After a shutdown() that reported no problem
   the instances with a shutdown hook own nothing. *)
EveryOwnerReleased ==
    \A c \in Calls, i \in Instances :
        stopping[c] = "done" /\ verdict[c] = {} /\ <<i, "shutdown">> \in Hooks => owns[i] = {}

(* "a dependant must not start registering before the provider it depends on is
   ready" *)
ProvidersReady ==
    [][\A i \in Instances :
          hook[i]["register"] = "none" /\ hook'[i]["register"] = "running"
          => \A p \in Needs[i] : status[p] = "ready"]_vars
================================================================================
