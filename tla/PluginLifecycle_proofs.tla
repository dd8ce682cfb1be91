------------------------- MODULE PluginLifecycle_proofs -------------------------
(***************************************************************************)
(* Safety of the plugin lifecycle for any number of instances, hooks and   *)
(* shutdown() calls.  The inductive invariant says where the runner is:    *)
(* nothing ahead of `at` was touched, a failed fatal instance ends the     *)
(* boot at itself, a hook that is still running is either the awaited one  *)
(* or one the runner gave up on, and a shutdown() that began after boot    *)
(* has released what it is done with.  A second one, for the time before   *)
(* any shutdown(), says that the catalog agrees with the hooks: an         *)
(* instance behind `at` is ready, with all its stages passed, or degraded, *)
(* with one that failed.                                                   *)
(***************************************************************************)
EXTENDS PluginLifecycle, TLAPS

USE LifecycleAssumption DEF bootVars, hookVars, stopVars, Settled

(* The instances the boot loop has not come to are untouched. *)
Ahead ==
    \A i \in Instances : i > at =>
        i \notin started /\ \A s \in BootStages : hook[i][s] = "none"

(* While it works on an instance, the runner is inside the list; it awaits a hook
   that runs; in the last stage the instance is already in `started`. *)
Position ==
    /\ boot # "done" => at \in Instances
    /\ boot = "new" => stage = "validate"
    /\ stage = "ready" /\ boot # "done" => at \in started

(* The boot loop stands still at a fatal instance whose hook failed. *)
FatalStops ==
    \A i \in Fatal, s \in BootStages :
        hook[i][s] = "threw" \/ <<i, s>> \in gaveUp => boot = "done" /\ at = i

(* A running boot hook is awaited, or was given up on. *)
Running ==
    \A i \in Instances, s \in BootStages :
        hook[i][s] = "running"
        => <<i, s>> \in gaveUp \/ (boot = "await" /\ at = i /\ stage = s)

(* Every instance that a shutdown() begun after boot is done with, and has not
   reported, owns only what late hooks acquired. *)
Released ==
    /\ \A c \in Calls : stopping[c] = "none" => left[c] = {}
    /\ \A c \in orderly :
        /\ boot = "done" /\ stopping[c] # "none"
        /\ \A i \in started \ left[c] :
              verdict[c] = {} /\ <<i, "shutdown">> \in Hooks
              => \A s \in owns[i] : <<i, s>> \in gaveUp
        /\ stopping[c] = "done" => left[c] = {}

LInv == TypeOK /\ Ahead /\ Position /\ FatalStops /\ Running /\ OwnersKnown /\ Released

(* A hook the runner gave up on may still acquire something. *)
LEMMA LateOwns ==
  ASSUME TypeOK, Released, UNCHANGED <<bootVars, gaveUp, stopVars>>,
         \A i \in Instances : \A s \in owns'[i] : s \in owns[i] \/ <<i, s>> \in gaveUp
  PROVE  Released'
<1>1. ASSUME NEW c \in orderly, NEW i \in started \ left[c], verdict[c] = {},
             <<i, "shutdown">> \in Hooks, NEW s \in owns'[i]
      PROVE  <<i, s>> \in gaveUp
  <2>1. i \in Instances BY DEF TypeOK
  <2>2. s \in owns[i] => <<i, s>> \in gaveUp BY <1>1 DEF Released
  <2>3. QED BY <2>1, <2>2
<1>2. QED BY <1>1 DEF Released

(* The invariant holds initially. *)
LEMMA LifecycleInit == Init => LInv
<1> SUFFICES ASSUME Init PROVE LInv OBVIOUS
<1>1. TypeOK
  <2>1. at \in 1..(N + 1) BY DEF Init
  <2>2. [s \in BootStages |-> "none"] \in [BootStages -> Promise]
        /\ [i \in Instances |-> "none"] \in [Instances -> Promise]
    BY DEF Promise
  <2>3. hook \in [Instances -> [BootStages -> Promise]] /\ stop \in [Calls -> [Instances -> Promise]]
    BY <2>2 DEF Init
  <2>4. QED BY <2>1, <2>3 DEF Init, TypeOK, BootStages, Status
<1>2. Ahead /\ FatalStops /\ Running /\ OwnersKnown
  BY DEF Init, Ahead, FatalStops, Running, OwnersKnown
<1>3. Position /\ Released
  BY DEF Init, Position, Released, Instances
<1>4. QED BY <1>1, <1>2, <1>3 DEF LInv

(* What passing or failing a stage does to the boot loop. *)
LEMMA BootMoves ==
  ASSUME TypeOK, at \in Instances, Advance \/ BootFails
  PROVE  /\ boot' \in {"stage", "done"} /\ aborted' \in BOOLEAN
         /\ stage' \in BootStages /\ at' \in {at, at + 1} /\ at' \in 1..(N + 1)
         /\ status' \in [Instances -> Status]
         /\ boot' = "stage" => at' \in Instances
         /\ boot' = "stage" /\ stage' = "ready" => at' = at /\ stage = "register" /\ Advance
         /\ started' = started \/ (started' = started \cup {at} /\ stage = "register" /\ Advance)
         /\ Advance /\ stage = "register" => at \in started'
         /\ BootFails /\ at \in Fatal => boot' = "done" /\ at' = at
<1> USE DEF TypeOK, BootStages, Instances
<1>0. BootFails /\ at \in Fatal => boot' = "done" /\ at' = at
  BY DEF BootFails
<1>1. CASE Advance
  <2>1. status' \in [Instances -> Status]
    BY <1>1 DEF Advance, StatusAfter, Status
  <2>2. CASE stage = "ready"
    BY <1>0, <1>1, <2>1, <2>2 DEF Advance, NextInstance, Registers
  <2>3. CASE stage # "ready"
    BY <1>0, <1>1, <2>1, <2>3 DEF Advance, Registers
  <2>4. QED BY <2>2, <2>3
<1>2. CASE BootFails /\ at \in Fatal
  <2>1. status' \in [Instances -> Status]
    BY <1>2 DEF BootFails, StatusOnFailure, Status
  <2>2. boot' = "done" /\ aborted' = TRUE /\ started' = started /\ UNCHANGED <<at, stage>>
    BY <1>2 DEF BootFails
  <2>3. CASE Advance BY <1>1, <2>3
  <2>4. CASE ~Advance BY <2>1, <2>2, <2>4
  <2>5. QED BY <2>3, <2>4
<1>3. CASE BootFails /\ at \notin Fatal
  <2>1. status' \in [Instances -> Status]
    BY <1>3 DEF BootFails, StatusOnFailure, Status
  <2>2. NextInstance /\ started' = started /\ UNCHANGED aborted
    BY <1>3 DEF BootFails
  <2>3. CASE Advance BY <1>1, <2>3
  <2>4. CASE ~Advance BY <1>0, <2>1, <2>2, <2>4 DEF NextInstance
  <2>5. QED BY <2>3, <2>4
<1>4. QED BY <1>1, <1>2, <1>3

(* The boot loop's own steps preserve the invariant. *)
LEMMA BootStep ==
  ASSUME LInv, Boot \/ SkipStage \/ CallHook
  PROVE  LInv'
<1> USE DEF LInv
<1>0. at \in Instances BY DEF Boot, SkipStage, CallHook, Position
<1>1. CASE Boot
  BY <1>1 DEF Boot, TypeOK, Ahead, Position, FatalStops, Running, OwnersKnown, Released
<1>2. CASE SkipStage
  <2>0. boot = "stage" /\ Advance /\ UNCHANGED <<hookVars, owns, stopVars>>
    BY <1>2 DEF SkipStage
  <2>1. TypeOK' BY <1>0, <2>0, BootMoves DEF TypeOK, Instances
  <2>2. Ahead' BY <1>0, <2>0, BootMoves DEF Ahead, TypeOK, Instances
  <2>3. Position' BY <1>0, <2>0, BootMoves DEF Position
  <2>4. Running' BY <2>0, BootMoves DEF Running
  <2>5. OwnersKnown' BY <1>0, <2>0, BootMoves DEF OwnersKnown
  <2>6. Released' BY <2>0 DEF Released
  <2>7. FatalStops' BY <2>0 DEF FatalStops
  <2>8. QED BY <2>1, <2>2, <2>3, <2>4, <2>5, <2>6, <2>7
<1>3. CASE CallHook
  <2>0. /\ boot = "stage" /\ boot' = "await"
        /\ hook' = [hook EXCEPT ![at] = [hook[at] EXCEPT ![stage] = "running"]]
        /\ UNCHANGED <<at, stage, started, aborted, status, gaveUp, owns, stopVars>>
    BY <1>3 DEF CallHook
  <2>1. TypeOK' BY <1>0, <2>0 DEF TypeOK, Promise
  <2>2. Ahead'
    <3>1. \A i \in Instances : i > at => i # at /\ hook'[i] = hook[i]
      BY <1>0, <2>0 DEF TypeOK, Instances
    <3>2. QED BY <2>0, <3>1 DEF Ahead
  <2>3. Position' BY <2>0 DEF Position
  <2>4. Running' BY <2>0 DEF Running, TypeOK
  <2>5. OwnersKnown' /\ Released' BY <2>0 DEF OwnersKnown, Released
  <2>6. FatalStops' BY <2>0 DEF FatalStops, TypeOK
  <2>7. QED BY <2>1, <2>2, <2>3, <2>4, <2>5, <2>6
<1>4. QED BY <1>1, <1>2, <1>3

(* A boot hook that settles, in time or late, preserves the invariant. *)
LEMMA SettleStep ==
  ASSUME LInv, NEW i \in Instances, NEW s \in BootStages, NEW r \in Settled,
         HookSettles(i, s, r)
  PROVE  LInv'
<1> USE DEF LInv
<1> DEFINE awaited == boot = "await" /\ at = i /\ stage = s
<1>1. /\ hook[i][s] = "running" /\ hook' = [hook EXCEPT ![i] = [hook[i] EXCEPT ![s] = r]]
      /\ UNCHANGED <<gaveUp, stopVars>>
      /\ owns' = IF r = "ok" /\ s # "validate" THEN [owns EXCEPT ![i] = owns[i] \cup {s}] ELSE owns
      /\ awaited => IF r = "ok" THEN Advance ELSE BootFails
      /\ ~awaited => UNCHANGED <<bootVars, status>>
  BY DEF HookSettles
<1>2. /\ hook' \in [Instances -> [BootStages -> Promise]]
      /\ owns' \in [Instances -> SUBSET {"register", "ready"}]
  BY <1>1 DEF TypeOK, Promise, BootStages
<1>3. \A j \in Instances, t \in BootStages :
          hook'[j][t] = "running" => hook[j][t] = "running" /\ <<j, t>> # <<i, s>>
  BY <1>1 DEF TypeOK
<1>4. \A j \in Instances : \A t \in owns'[j] : t \in owns[j] \/ (j = i /\ t = s /\ r = "ok")
  BY <1>1 DEF TypeOK
<1>5. ~(i > at)
  BY <1>1 DEF Ahead
<1>6. \A j \in Instances : j > at => \A t \in BootStages : hook'[j][t] = "none"
  BY <1>1, <1>5 DEF Ahead, TypeOK
<1>7. \A j \in Instances, t \in BootStages :
          hook'[j][t] = "threw" => hook[j][t] = "threw" \/ (j = i /\ t = s /\ r = "threw")
  BY <1>1 DEF TypeOK
<1>8. CASE awaited
  <2>1. (Advance \/ BootFails) /\ (r = "ok" => Advance)
    BY <1>1, <1>8
  <2>2. TypeOK' BY <1>1, <1>2, <1>8, <2>1, BootMoves DEF TypeOK
  <2>3. at \in Nat /\ \A j \in Instances : j \in Nat
    BY DEF TypeOK, Instances
  <2>4. Ahead' BY <1>6, <1>8, <2>1, <2>3, BootMoves DEF Ahead
  <2>5. Position' BY <1>8, <2>1, BootMoves DEF Position
  <2>6. Running' BY <1>1, <1>3, <1>8, <2>1, BootMoves DEF Running
  <2>7. OwnersKnown'
    <3>1. r = "ok" /\ s \in {"register", "ready"} => i \in started'
      BY <1>8, <2>1, BootMoves DEF Position
    <3>2. s = "validate" => owns' = owns
      BY <1>1
    <3>3. QED BY <1>1, <1>4, <1>8, <2>1, <3>1, <3>2, BootMoves DEF OwnersKnown, BootStages
  <2>8. Released' BY <1>1, <1>8 DEF Released
  <2>9. FatalStops'
    <3>1. ASSUME NEW j \in Fatal, NEW t \in BootStages,
                 hook'[j][t] = "threw" \/ <<j, t>> \in gaveUp'
          PROVE  j = at /\ r = "threw"
      BY <1>1, <1>8, <1>7, <3>1 DEF FatalStops
    <3>2. r = "threw" => BootFails
      BY <1>1, <1>8
    <3>3. QED BY <1>8, <3>1, <3>2, BootMoves DEF FatalStops, Position
  <2>10. QED BY <2>2, <2>4, <2>5, <2>6, <2>7, <2>8, <2>9
<1>9. CASE ~awaited
  <2>1. UNCHANGED <<bootVars, status, gaveUp, stopVars>> BY <1>1, <1>9
  <2>2. <<i, s>> \in gaveUp BY <1>1, <1>9 DEF Running
  <2>3. TypeOK' BY <1>2, <2>1 DEF TypeOK
  <2>4. Ahead' /\ Position' /\ Running' BY <1>3, <1>6, <2>1 DEF Ahead, Position, Running
  <2>5. OwnersKnown' BY <1>4, <2>1, <2>2 DEF OwnersKnown
  <2>6. Released'
    <3>1. \A j \in Instances : \A t \in owns'[j] : t \in owns[j] \/ <<j, t>> \in gaveUp
      BY <1>4, <2>2
    <3>2. QED BY <2>1, <3>1, LateOwns
  <2>7. FatalStops' BY <1>7, <2>1, <2>2 DEF FatalStops
  <2>8. QED BY <2>3, <2>4, <2>5, <2>6, <2>7
<1>10. QED BY <1>8, <1>9

(* Giving up on a hook preserves the invariant. *)
LEMMA TimeoutStep ==
  ASSUME LInv, HookTimesOut PROVE LInv'
<1> USE DEF LInv
<1>1. /\ boot = "await" /\ at \in Instances /\ gaveUp' = gaveUp \cup {<<at, stage>>} /\ BootFails
      /\ started' = started /\ UNCHANGED <<hook, owns, stopVars>>
  BY DEF HookTimesOut, TimerFires, BootFails, Position
<1>2. TypeOK' BY <1>1, BootMoves DEF TypeOK
<1>3. Ahead' BY <1>1, BootMoves DEF Ahead, TypeOK, Instances
<1>4. Position' BY <1>1, BootMoves DEF Position
<1>5. Running' BY <1>1 DEF Running
<1>6. OwnersKnown' /\ Released' BY <1>1 DEF OwnersKnown, Released
<1>7. FatalStops'
  <2>1. ASSUME NEW j \in Fatal, NEW t \in BootStages,
               hook'[j][t] = "threw" \/ <<j, t>> \in gaveUp'
        PROVE  j = at
    BY <1>1, <2>1 DEF FatalStops
  <2>2. QED BY <1>1, <2>1, BootMoves DEF FatalStops
<1>8. QED BY <1>2, <1>3, <1>4, <1>5, <1>6, <1>7

(* The steps of a shutdown() preserve the invariant. *)
LEMMA StopStep ==
  ASSUME LInv, NEW c \in Calls,
         \/ Shutdown(c)
         \/ \E i \in Instances : SkipStop(c, i) \/ CallStop(c, i) \/ StopTimesOut(c, i)
         \/ \E i \in Instances, r \in Settled : StopSettles(c, i, r)
  PROVE  LInv'
<1> USE DEF LInv
<1>1. CASE Shutdown(c)
  <2>1. TypeOK' BY <1>1 DEF Shutdown, TypeOK
  <2>2. Ahead' /\ Position' /\ FatalStops' /\ Running' /\ OwnersKnown'
    BY <1>1 DEF Shutdown, Ahead, Position, FatalStops, Running, OwnersKnown
  <2>3. Released' BY <1>1 DEF Shutdown, Released, TypeOK
  <2>4. QED BY <2>1, <2>2, <2>3
<1>2. ASSUME NEW i \in Instances, SkipStop(c, i) PROVE LInv'
  <2>1. TypeOK' BY <1>2 DEF SkipStop, StopNext, TypeOK, Status
  <2>2. Ahead' /\ Position' /\ FatalStops' /\ Running' /\ OwnersKnown'
    BY <1>2 DEF SkipStop, Ahead, Position, FatalStops, Running, OwnersKnown
  <2>3. Released'
    <3>1. /\ left'[c] = left[c] \ {i} /\ stopping'[c] = IF left[c] = {i} THEN "done" ELSE "next"
          /\ \A d \in Calls \ {c} : left'[d] = left[d] /\ stopping'[d] = stopping[d]
      BY <1>2 DEF SkipStop, StopNext, TypeOK
    <3>2. UNCHANGED <<bootVars, hookVars, owns, verdict, orderly>>
          /\ <<i, "shutdown">> \notin Hooks /\ stopping[c] = "next"
      BY <1>2 DEF SkipStop
    <3>3. \A d \in Calls : stopping'[d] = "none" => left'[d] = {}
      BY <3>1 DEF Released
    <3>4. ASSUME NEW d \in orderly, NEW j \in started \ left'[d], verdict[d] = {},
                 <<j, "shutdown">> \in Hooks, NEW t \in owns[j]
          PROVE  <<j, t>> \in gaveUp
      <4>1. d \in Calls BY DEF TypeOK
      <4>2. j \notin left[d] BY <3>1, <3>2, <3>4, <4>1
      <4>3. QED BY <3>4, <4>2 DEF Released
    <3>5. ASSUME NEW d \in orderly
          PROVE  boot = "done" /\ stopping'[d] # "none" /\ (stopping'[d] = "done" => left'[d] = {})
      <4>1. d \in Calls BY DEF TypeOK
      <4>2. QED BY <3>1, <4>1 DEF Released
    <3>6. QED BY <3>2, <3>3, <3>4, <3>5 DEF Released
  <2>4. QED BY <2>1, <2>2, <2>3
<1>3. ASSUME NEW i \in Instances, CallStop(c, i) PROVE LInv'
  <2>0. stop' = [stop EXCEPT ![c] = [stop[c] EXCEPT ![i] = "running"]] BY <1>3 DEF CallStop
  <2>1. TypeOK' BY <1>3, <2>0 DEF CallStop, TypeOK, Promise
  <2>2. Ahead' /\ Position' /\ FatalStops' /\ Running' /\ OwnersKnown'
    BY <1>3 DEF CallStop, Ahead, Position, FatalStops, Running, OwnersKnown
  <2>3. Released' BY <1>3 DEF CallStop, Released, TypeOK
  <2>4. QED BY <2>1, <2>2, <2>3
<1>4. ASSUME NEW i \in Instances, StopTimesOut(c, i) PROVE LInv'
  <2>1. TypeOK' BY <1>4 DEF StopTimesOut, StopNext, TypeOK, ReportTimeout
  <2>2. Ahead' /\ Position' /\ FatalStops' /\ Running' /\ OwnersKnown'
    BY <1>4 DEF StopTimesOut, Ahead, Position, FatalStops, Running, OwnersKnown
  <2>3. Released'
    <3>1. /\ verdict'[c] # {} /\ stopping'[c] \in {"next", "done"}
          /\ (stopping'[c] = "done" => left'[c] = {}) /\ stopping[c] = "await"
      BY <1>4 DEF StopTimesOut, StopNext, ReportTimeout, TypeOK, TimerFires
    <3>2. \A d \in Calls \ {c} : /\ verdict'[d] = verdict[d] /\ left'[d] = left[d]
                                /\ stopping'[d] = stopping[d]
      BY <1>4 DEF StopTimesOut, StopNext, TypeOK
    <3>3. UNCHANGED <<bootVars, hookVars, owns, orderly>> /\ orderly \subseteq Calls
      BY <1>4 DEF StopTimesOut, TypeOK
    <3>4. QED BY <3>1, <3>2, <3>3 DEF Released
  <2>4. QED BY <2>1, <2>2, <2>3
<1>5. ASSUME NEW i \in Instances, NEW r \in Settled, StopSettles(c, i, r) PROVE LInv'
  <2>0. /\ stop' = [stop EXCEPT ![c] = [stop[c] EXCEPT ![i] = r]]
        /\ owns' = IF r = "ok" THEN [owns EXCEPT ![i] = {}] ELSE owns
        /\ UNCHANGED <<bootVars, hookVars, orderly>>
        /\ i \in left[c] => /\ StopNext(c, i)
                            /\ status' = IF r = "ok" THEN [status EXCEPT ![i] = "stopped"] ELSE status
                            /\ verdict' = IF r = "ok" THEN verdict
                                          ELSE [verdict EXCEPT ![c] = verdict[c] \cup {"failed"}]
        /\ i \notin left[c] => UNCHANGED <<left, stopping, status, verdict>>
    BY <1>5 DEF StopSettles
  <2>1. TypeOK'
    <3>1. stop' \in [Calls -> [Instances -> Promise]] /\ owns' \in [Instances -> SUBSET {"register", "ready"}]
      BY <2>0 DEF TypeOK, Promise
    <3>2. /\ left' \in [Calls -> SUBSET Instances] /\ verdict' \in [Calls -> SUBSET {"timeout", "failed"}]
          /\ stopping' \in [Calls -> {"none", "next", "await", "done"}]
          /\ status' \in [Instances -> Status]
      <4>1. CASE i \notin left[c] BY <2>0, <4>1 DEF TypeOK
      <4>2. CASE i \in left[c]
        <5>1. verdict' \in [Calls -> SUBSET {"timeout", "failed"}]
          <6>1. verdict[c] \cup {"failed"} \in SUBSET {"timeout", "failed"} BY DEF TypeOK
          <6>2. verdict \in [Calls -> SUBSET {"timeout", "failed"}] BY DEF TypeOK
          <6>3. [verdict EXCEPT ![c] = verdict[c] \cup {"failed"}] \in [Calls -> SUBSET {"timeout", "failed"}]
            BY <6>1, <6>2
          <6>4. QED BY <2>0, <4>2, <6>2, <6>3
        <5>2. status' \in [Instances -> Status]
          BY <2>0, <4>2 DEF TypeOK, Status
        <5>3. /\ left' = [left EXCEPT ![c] = left[c] \ {i}]
              /\ stopping' = [stopping EXCEPT ![c] = IF left[c] = {i} THEN "done" ELSE "next"]
          BY <2>0, <4>2 DEF StopNext
        <5>4. left' \in [Calls -> SUBSET Instances]
          BY <5>3 DEF TypeOK
        <5>5. stopping' \in [Calls -> {"none", "next", "await", "done"}]
          BY <5>3 DEF TypeOK
        <5>6. QED BY <5>1, <5>2, <5>4, <5>5
      <4>3. QED BY <4>1, <4>2
    <3>3. QED BY <2>0, <3>1, <3>2 DEF TypeOK
  <2>2. \A j \in Instances : owns'[j] \subseteq owns[j]
    BY <2>0 DEF TypeOK
  <2>3. Ahead' /\ Position' /\ FatalStops' /\ Running' /\ OwnersKnown'
    BY <2>0, <2>2 DEF Ahead, Position, FatalStops, Running, OwnersKnown
  <2>4. Released'
    <3>1. CASE i \notin left[c]
      <4>1. UNCHANGED <<bootVars, hookVars, left, stopping, verdict, orderly>> BY <2>0, <3>1
      <4>2. started \subseteq Instances BY DEF TypeOK
      <4>3. QED BY <2>2, <4>1, <4>2 DEF Released
    <3>2. CASE i \in left[c]
      <4>1. \A d \in Calls \ {c} : /\ verdict'[d] = verdict[d] /\ left'[d] = left[d]
                                  /\ stopping'[d] = stopping[d]
        BY <2>0, <3>2 DEF StopNext, TypeOK
      <4>2. /\ left'[c] = left[c] \ {i} /\ stopping'[c] = IF left[c] = {i} THEN "done" ELSE "next"
            /\ r # "ok" => verdict'[c] # {}
            /\ r = "ok" => verdict'[c] = verdict[c] /\ owns'[i] = {}
        <5>1. left'[c] = left[c] \ {i} /\ stopping'[c] = IF left[c] = {i} THEN "done" ELSE "next"
          BY <2>0, <3>2 DEF StopNext, TypeOK
        <5>2. r # "ok" => "failed" \in verdict'[c]
          BY <2>0, <3>2 DEF TypeOK
        <5>3. r = "ok" => verdict'[c] = verdict[c] /\ owns'[i] = {}
          BY <2>0, <3>2 DEF TypeOK
        <5>4. QED BY <5>1, <5>2, <5>3
      <4>3. stopping[c] # "none"
        BY <3>2 DEF Released
      <4>4. \A d \in Calls : stopping'[d] = "none" => left'[d] = {}
        BY <4>1, <4>2 DEF Released
      <4>5. ASSUME NEW d \in orderly'
            PROVE  /\ boot' = "done" /\ stopping'[d] # "none"
                   /\ \A j \in started' \ left'[d] :
                         verdict'[d] = {} /\ <<j, "shutdown">> \in Hooks
                         => \A s \in owns'[j] : <<j, s>> \in gaveUp'
                   /\ stopping'[d] = "done" => left'[d] = {}
        <5>1. boot' = "done" /\ started' = started /\ gaveUp' = gaveUp /\ d \in orderly /\ d \in Calls
          BY <2>0, <4>3, <4>5 DEF Released, TypeOK
        <5>2. stopping'[d] # "none" /\ (stopping'[d] = "done" => left'[d] = {})
          BY <4>1, <4>2, <5>1 DEF Released
        <5>3. ASSUME NEW j \in started' \ left'[d], verdict'[d] = {}, <<j, "shutdown">> \in Hooks,
                     NEW t \in owns'[j]
              PROVE  <<j, t>> \in gaveUp'
          <6>1. j \in Instances /\ t \in owns[j] BY <2>2, <5>1, <5>3 DEF TypeOK
          <6>2. j \notin left[d] /\ verdict[d] = {}
            <7>1. CASE d # c BY <4>1, <5>1, <5>3, <7>1
            <7>2. CASE d = c
              <8>1. r = "ok" BY <4>2, <5>3, <7>2
              <8>2. verdict[c] = {} /\ owns'[i] = {} BY <4>2, <5>3, <7>2, <8>1
              <8>3. QED BY <4>2, <5>3, <7>2, <8>2
            <7>3. QED BY <7>1, <7>2
          <6>3. QED BY <5>1, <5>3, <6>1, <6>2 DEF Released
        <5>4. QED BY <5>1, <5>2, <5>3
      <4>6. QED BY <4>4, <4>5 DEF Released
    <3>3. QED BY <3>1, <3>2
  <2>5. QED BY <2>1, <2>3, <2>4
<1>6. QED BY <1>1, <1>2, <1>3, <1>4, <1>5

(* The invariant is inductive. *)
LEMMA LifecycleStep == LInv /\ [Next]_vars => LInv'
<1> SUFFICES ASSUME LInv, [Next]_vars PROVE LInv' OBVIOUS
<1>1. CASE UNCHANGED vars
  <2>1. UNCHANGED <<bootVars, status, hookVars, owns, stopVars>> BY <1>1 DEF vars
  <2>2. TypeOK' BY <2>1 DEF LInv, TypeOK
  <2>3. Ahead' /\ Position' BY <2>1 DEF LInv, Ahead, Position
  <2>4. FatalStops' /\ Running' BY <2>1 DEF LInv, FatalStops, Running
  <2>5. OwnersKnown' /\ Released' BY <2>1 DEF LInv, OwnersKnown, Released
  <2>6. QED BY <2>2, <2>3, <2>4, <2>5 DEF LInv
<1>2. QED
  BY <1>1, BootStep, SettleStep, TimeoutStep, StopStep DEF Next, Runner

--------------------------------------------------------------------------------
(* What health reports after boot. *)

(* No shutdown() has begun. *)
Quiet == \A c \in Calls : stopping[c] = "none"

Untouched(i, s) == <<i, s>> \notin gaveUp /\ hook[i][s] = "none"

(* The stage went well: it has no hook, or its hook settled well and in time. *)
Passed(i, s) == <<i, s>> \notin gaveUp /\ (<<i, s>> \in Hooks => hook[i][s] = "ok")

(* A hook of the instance threw or was too slow. *)
Failing(i) ==
    \E s \in BootStages : <<i, s>> \in gaveUp \/ (<<i, s>> \in Hooks /\ hook[i][s] = "threw")

Before(s, t) ==
    <<s, t>> \in {<<"validate", "register">>, <<"validate", "ready">>, <<"register", "ready">>}

Defined == \A i \in Instances, s \in BootStages : hook[i][s] # "none" => <<i, s>> \in Hooks

(* Behind `at` an instance is ready, and all its stages went well, or degraded, and one
   did not. *)
Visited ==
    \A i \in Instances : i < at =>
        \/ status[i] = "ready" /\ \A s \in BootStages : Passed(i, s)
        \/ status[i] = "degraded" /\ Failing(i)

(* At `at`, the stages before `stage` went well and those after it are untouched. *)
Visiting ==
    boot # "done" =>
        /\ status[at] \in {"pending", "validated", "registered"}
        /\ \A s \in BootStages : /\ Before(s, stage) => Passed(at, s)
                                 /\ Before(stage, s) => Untouched(at, s)
        /\ <<at, stage>> \notin gaveUp
        /\ hook[at][stage] = IF boot = "await" THEN "running" ELSE "none"

ToVisit ==
    \A i \in Instances : i > at =>
        /\ \A s \in BootStages : Untouched(i, s)
        /\ status[i] = IF aborted THEN "not-reached" ELSE "pending"

(* A boot that was aborted stands at the failed instance, one that was not is past the
   last. *)
Ended ==
    IF aborted THEN boot = "done" /\ at \in Instances /\ status[at] = "failed" /\ Failing(at)
    ELSE boot = "done" => at = N + 1

Reported == Defined /\ Visited /\ Visiting /\ ToVisit /\ Ended

HInv == Quiet => Reported

(* The bookkeeping of health holds initially. *)
LEMMA HealthInit == Init => HInv
<1> SUFFICES ASSUME Init PROVE Reported BY DEF HInv
<1>1. at = 1 /\ 1 \in Instances /\ stage = "validate" /\ boot = "new" /\ aborted = FALSE
  BY DEF Init, Instances
<1>2. \A i \in Instances, s \in BootStages : Untouched(i, s) BY DEF Init, Untouched
<1>3. \A i \in Instances : status[i] = "pending" BY DEF Init
<1>4. Defined BY <1>2 DEF Defined, Untouched
<1>5. Visited BY <1>1 DEF Visited, Instances
<1>6. Visiting
  BY <1>1, <1>2, <1>3 DEF Visiting, Before, Untouched, BootStages
<1>7. ToVisit BY <1>1, <1>2, <1>3 DEF ToVisit
<1>8. Ended BY <1>1 DEF Ended
<1>9. QED BY <1>4, <1>5, <1>6, <1>7, <1>8 DEF Reported

(* The runner takes note of a stage that went well or of one that failed: what it has
   written about the instances agrees with their hooks again. *)
LEMMA StageEnds ==
  ASSUME TypeOK, TypeOK', Reported, Defined', at \in Instances, boot # "done",
         \A i \in Instances, s \in BootStages : <<i, s>> # <<at, stage>> =>
            hook'[i][s] = hook[i][s] /\ (<<i, s>> \in gaveUp' <=> <<i, s>> \in gaveUp),
         \/ /\ Advance /\ <<at, stage>> \notin gaveUp'
            /\ <<at, stage>> \in Hooks => hook'[at][stage] = "ok"
         \/ /\ BootFails
            /\ <<at, stage>> \in gaveUp'
               \/ (<<at, stage>> \in Hooks /\ hook'[at][stage] = "threw")
  PROVE  Reported'
<1> USE DEF Reported
<1>0. ~aborted /\ at \in Nat /\ (\A i \in Instances : i \in Nat) /\ stage \in BootStages
  BY DEF Ended, TypeOK, Instances
<1> DEFINE Same(i, s) == hook'[i][s] = hook[i][s] /\ (<<i, s>> \in gaveUp' <=> <<i, s>> \in gaveUp)
<1>a. \A i \in Instances, s \in BootStages : i # at \/ s # stage => Same(i, s)
  OBVIOUS
<1> HIDE DEF Same
<1>b. \A i \in Instances, s \in BootStages : Same(i, s) => (Passed(i, s)' <=> Passed(i, s))
  BY DEF Same, Passed
<1>c. \A i \in Instances, s \in BootStages : Same(i, s) => (Untouched(i, s)' <=> Untouched(i, s))
  BY DEF Same, Untouched
<1>d. \A i \in Instances : i # at => (Failing(i)' <=> Failing(i))
  BY <1>a DEF Same, Failing
<1>1. CASE Advance /\ <<at, stage>> \notin gaveUp'
           /\ (<<at, stage>> \in Hooks => hook'[at][stage] = "ok")
  <2>1. /\ status' = [status EXCEPT ![at] = StatusAfter(stage)] /\ ~aborted'
    BY <1>0, <1>1 DEF Advance
  <2>2. CASE stage = "ready"
    <3>1. at' = at + 1 /\ stage' = "validate" /\ boot' = IF at = N THEN "done" ELSE "stage"
      BY <1>1, <2>2 DEF Advance, NextInstance
    <3>2. status'[at] = "ready" BY <2>1, <2>2 DEF StatusAfter, TypeOK
    <3>3. ASSUME NEW s \in BootStages
          PROVE  <<at, s>> \notin gaveUp' /\ (<<at, s>> \in Hooks => hook'[at][s] = "ok")
      <4>1. CASE s = stage BY <1>1, <4>1
      <4>2. CASE s # stage
        BY <1>a, <2>2, <4>2 DEF Visiting, Before, Passed, Same, BootStages
      <4>3. QED BY <4>1, <4>2
    <3>4. Visited'
      <4>1. SUFFICES ASSUME NEW i \in Instances, i < at'
                     PROVE  \/ status'[i] = "ready" /\ \A s \in BootStages : Passed(i, s)'
                            \/ status'[i] = "degraded" /\ Failing(i)'
        BY DEF Visited
      <4>2. CASE i = at BY <3>2, <3>3, <4>2 DEF Passed
      <4>3. CASE i # at
        <5>1. i < at BY <1>0, <3>1, <4>1, <4>3
        <5>2. status'[i] = status[i] BY <2>1, <4>3 DEF TypeOK
        <5>3. QED BY <1>a, <1>b, <1>d, <4>3, <5>1, <5>2 DEF Visited
      <4>4. QED BY <4>2, <4>3
    <3>5. ToVisit'
      <4>1. \A i \in Instances : i > at' => i > at /\ i # at /\ status'[i] = status[i]
        BY <1>0, <2>1, <3>1 DEF TypeOK
      <4>2. QED BY <1>0, <1>a, <1>c, <2>1, <4>1 DEF ToVisit
    <3>6. Ended' BY <2>1, <3>1 DEF Ended
    <3>7. Visiting'
      <4>1. SUFFICES ASSUME boot' # "done"
                     PROVE  /\ status'[at'] = "pending"
                            /\ \A s \in BootStages :
                                  <<at', s>> \notin gaveUp' /\ hook'[at'][s] = "none"
        BY <3>1, <4>1 DEF Visiting, Before, Untouched, BootStages
      <4>2. at' \in Instances /\ at' > at /\ at' # at
        BY <1>0, <3>1, <4>1 DEF Instances
      <4>3. status'[at'] = status[at'] BY <2>1, <4>2 DEF TypeOK
      <4>4. PICK k \in Instances : k = at' BY <4>2
      <4>5. \A s \in BootStages : Untouched(k, s)' BY <1>a, <1>c, <4>2, <4>4 DEF ToVisit
      <4>6. QED BY <1>0, <4>2, <4>3, <4>4, <4>5 DEF ToVisit, Untouched
    <3>8. QED BY <3>4, <3>5, <3>6, <3>7
  <2>3. CASE stage # "ready"
    <3>1. at' = at /\ boot' = "stage" /\ stage' = IF stage = "validate" THEN "register" ELSE "ready"
      BY <1>1, <2>3 DEF Advance
    <3>2. status'[at] \in {"validated", "registered"}
      BY <1>0, <2>1, <2>3 DEF StatusAfter, TypeOK, BootStages
    <3>3. \A i \in Instances : i # at => status'[i] = status[i] BY <2>1 DEF TypeOK
    <3>4. Visited'
      BY <1>0, <1>a, <1>b, <1>d, <3>1, <3>3 DEF Visited
    <3>5. ToVisit'
      BY <1>0, <1>a, <1>c, <2>1, <3>1, <3>3 DEF ToVisit
    <3>6. Ended' BY <2>1, <3>1 DEF Ended
    <3>7. Visiting'
      <4>1. \A s \in BootStages : Before(s, stage') => (Passed(at, s) /\ s # stage) \/ s = stage
        BY <1>0, <2>3, <3>1 DEF Visiting, Before, BootStages
      <4>2. \A s \in BootStages : Before(stage', s) => Untouched(at, s) /\ s # stage
        BY <1>0, <2>3, <3>1 DEF Visiting, Before, BootStages
      <4>3. Untouched(at, stage') /\ stage' # stage /\ stage' \in BootStages
        BY <1>0, <2>3, <3>1 DEF Visiting, Before, BootStages
      <4>4. \A s \in BootStages : Before(s, stage') =>
               <<at, s>> \notin gaveUp' /\ (<<at, s>> \in Hooks => hook'[at][s] = "ok")
        BY <1>1, <1>a, <4>1 DEF Passed, Same
      <4>5. \A s \in BootStages : Before(stage', s) => <<at, s>> \notin gaveUp' /\ hook'[at][s] = "none"
        BY <1>a, <4>2 DEF Untouched, Same
      <4>6. <<at, stage'>> \notin gaveUp' /\ hook'[at][stage'] = "none"
        BY <1>a, <4>3 DEF Untouched, Same
      <4>7. QED BY <3>1, <3>2, <4>4, <4>5, <4>6 DEF Visiting, Passed, Untouched
    <3>8. QED BY <3>4, <3>5, <3>6, <3>7
  <2>4. QED BY <2>2, <2>3
<1>2. CASE BootFails /\ (<<at, stage>> \in gaveUp'
                         \/ (<<at, stage>> \in Hooks /\ hook'[at][stage] = "threw"))
  <2>1. \E s \in BootStages : \/ <<at, s>> \in gaveUp'
                              \/ <<at, s>> \in Hooks /\ hook'[at][s] = "threw"
    BY <1>0, <1>2
  <2>2. CASE at \in Fatal
    <3>1. at' = at /\ stage' = stage /\ boot' = "done" /\ aborted'
          /\ status' = [i \in Instances |-> IF i = at THEN "failed"
                                            ELSE IF i > at THEN "not-reached" ELSE status[i]]
      BY <1>2, <2>2 DEF BootFails, StatusOnFailure
    <3>2. Visited'
      <4>1. \A i \in Instances : i < at => i # at /\ status'[i] = status[i]
        BY <1>0, <3>1
      <4>2. QED BY <1>a, <1>b, <1>d, <3>1, <4>1 DEF Visited
    <3>3. ToVisit'
      <4>1. \A i \in Instances : i > at => i # at /\ status'[i] = "not-reached"
        BY <1>0, <3>1
      <4>2. QED BY <1>a, <1>c, <3>1, <4>1 DEF ToVisit
    <3>4. Visiting' BY <3>1 DEF Visiting
    <3>5. Ended'
      <4>1. status'[at] = "failed" BY <3>1
      <4>2. QED BY <2>1, <3>1, <4>1 DEF Ended, Failing
    <3>6. QED BY <3>2, <3>3, <3>4, <3>5
  <2>3. CASE at \notin Fatal
    <3>1. at' = at + 1 /\ stage' = "validate" /\ boot' = (IF at = N THEN "done" ELSE "stage")
          /\ ~aborted' /\ status' = [status EXCEPT ![at] = "degraded"]
      BY <1>0, <1>2, <2>3 DEF BootFails, StatusOnFailure, NextInstance
    <3>2. status'[at] = "degraded" BY <3>1 DEF TypeOK
    <3>4. Visited'
      <4>1. SUFFICES ASSUME NEW i \in Instances, i < at'
                     PROVE  \/ status'[i] = "ready" /\ \A s \in BootStages : Passed(i, s)'
                            \/ status'[i] = "degraded" /\ Failing(i)'
        BY DEF Visited
      <4>2. CASE i = at BY <2>1, <3>2, <4>2 DEF Failing
      <4>3. CASE i # at
        <5>1. i < at BY <1>0, <3>1, <4>1, <4>3
        <5>2. status'[i] = status[i] BY <3>1, <4>3 DEF TypeOK
        <5>3. QED BY <1>a, <1>b, <1>d, <4>3, <5>1, <5>2 DEF Visited
      <4>4. QED BY <4>2, <4>3
    <3>5. ToVisit'
      <4>1. \A i \in Instances : i > at' => i > at /\ i # at /\ status'[i] = status[i]
        BY <1>0, <3>1 DEF TypeOK
      <4>2. QED BY <1>0, <1>a, <1>c, <3>1, <4>1 DEF ToVisit
    <3>6. Ended' BY <3>1 DEF Ended
    <3>7. Visiting'
      <4>1. SUFFICES ASSUME boot' # "done"
                     PROVE  /\ status'[at'] = "pending"
                            /\ \A s \in BootStages :
                                  <<at', s>> \notin gaveUp' /\ hook'[at'][s] = "none"
        BY <3>1, <4>1 DEF Visiting, Before, Untouched, BootStages
      <4>2. at' \in Instances /\ at' > at /\ at' # at
        BY <1>0, <3>1, <4>1 DEF Instances
      <4>3. status'[at'] = status[at'] BY <3>1, <4>2 DEF TypeOK
      <4>4. PICK k \in Instances : k = at' BY <4>2
      <4>5. \A s \in BootStages : Untouched(k, s)' BY <1>a, <1>c, <4>2, <4>4 DEF ToVisit
      <4>6. QED BY <1>0, <4>2, <4>3, <4>4, <4>5 DEF ToVisit, Untouched
    <3>8. QED BY <3>4, <3>5, <3>6, <3>7
  <2>4. QED BY <2>2, <2>3
<1>3. QED BY <1>1, <1>2

(* Every step of the runner keeps what it has written in agreement with the hooks. *)
LEMMA HealthStep ==
  ASSUME LInv, LInv', HInv, [Next]_vars PROVE HInv'
<1> SUFFICES ASSUME Quiet' PROVE Reported' BY DEF HInv
<1> USE DEF LInv
<1>1. ASSUME \A c \in Calls : stopping[c] # "none" => stopping'[c] # "none"
      PROVE  Reported
  BY <1>1 DEF HInv, Quiet
<1>2. \A c \in Calls : stopping[c] # "none" => stopping'[c] # "none"
  <2>1. CASE UNCHANGED stopping BY <2>1
  <2>2. ASSUME NEW c \in Calls, NEW i \in Instances, StopNext(c, i)
        PROVE  \A d \in Calls : stopping[d] # "none" => stopping'[d] # "none"
    BY <2>2 DEF StopNext, TypeOK
  <2>3. ASSUME NEW c \in Calls, NEW i \in Instances, CallStop(c, i)
        PROVE  \A d \in Calls : stopping[d] # "none" => stopping'[d] # "none"
    BY <2>3 DEF CallStop, TypeOK
  <2>4. ASSUME NEW c \in Calls, Shutdown(c)
        PROVE  \A d \in Calls : stopping[d] # "none" => stopping'[d] # "none"
    BY <2>4 DEF Shutdown, TypeOK
  <2>5. \/ UNCHANGED stopping
        \/ \E c \in Calls, i \in Instances : StopNext(c, i) \/ CallStop(c, i)
        \/ \E c \in Calls : Shutdown(c)
    BY DEF Next, Runner, Boot, SkipStage, CallHook, HookTimesOut, HookSettles, SkipStop,
           StopTimesOut, StopSettles, vars
  <2>6. QED BY <2>1, <2>2, <2>3, <2>4, <2>5
<1>3. Reported BY <1>1, <1>2
<1>4. CASE UNCHANGED <<bootVars, status, hookVars>>
  BY <1>3, <1>4 DEF Reported, Defined, Visited, Visiting, ToVisit, Ended, Passed, Untouched, Failing
<1>5. CASE Boot
  BY <1>3, <1>5 DEF Boot, Reported, Defined, Visited, Visiting, ToVisit, Ended, Passed, Untouched,
                    Failing
<1>6. CASE SkipStage
  <2>1. boot = "stage" /\ Advance /\ <<at, stage>> \notin Hooks /\ UNCHANGED <<hook, gaveUp>>
    BY <1>6 DEF SkipStage
  <2>2. at \in Instances /\ <<at, stage>> \notin gaveUp
    BY <1>3, <2>1 DEF Position, Reported, Visiting
  <2>3. Defined' BY <1>3, <2>1 DEF Reported, Defined
  <2>4. QED BY <1>3, <2>1, <2>2, <2>3, StageEnds
<1>7. CASE CallHook
  <2>1. /\ boot = "stage" /\ boot' = "await" /\ <<at, stage>> \in Hooks
        /\ hook' = [hook EXCEPT ![at] = [hook[at] EXCEPT ![stage] = "running"]]
        /\ UNCHANGED <<at, stage, aborted, status, gaveUp>>
    BY <1>7 DEF CallHook
  <2>2. at \in Instances /\ stage \in BootStages BY <2>1 DEF Position, TypeOK
  <2>3. /\ hook'[at][stage] = "running" /\ hook[at][stage] = "none"
        /\ \A i \in Instances, s \in BootStages : i # at \/ s # stage => hook'[i][s] = hook[i][s]
    BY <1>3, <2>1, <2>2 DEF TypeOK, Reported, Visiting
  <2>4. Defined' BY <1>3, <2>1, <2>3 DEF Reported, Defined
  <2>5. Visited'
    <3>1. \A i \in Instances : i < at => i # at BY <2>2 DEF Instances
    <3>2. \A i \in Instances : i < at => (Failing(i) => Failing(i)')
      BY <2>1, <2>3, <3>1 DEF Failing
    <3>3. \A i \in Instances, s \in BootStages : i < at => (Passed(i, s) => Passed(i, s)')
      BY <2>1, <2>3, <3>1 DEF Passed
    <3>4. QED BY <1>3, <2>1, <3>2, <3>3 DEF Reported, Visited
  <2>6. Visiting'
    <3>1. \A s \in BootStages : Before(s, stage) \/ Before(stage, s) => s # stage
      BY DEF Before
    <3>2. QED BY <1>3, <2>1, <2>2, <2>3, <3>1 DEF Reported, Visiting, Passed, Untouched
  <2>7. ToVisit'
    <3>1. \A i \in Instances : i > at => i # at BY <2>2 DEF Instances
    <3>2. QED BY <1>3, <2>1, <2>3, <3>1 DEF Reported, ToVisit, Untouched
  <2>8. Ended' BY <1>3, <2>1 DEF Reported, Ended
  <2>9. QED BY <2>4, <2>5, <2>6, <2>7, <2>8 DEF Reported
<1>8. CASE HookTimesOut
  <2>1. /\ boot = "await" /\ at \in Instances /\ gaveUp' = gaveUp \cup {<<at, stage>>} /\ BootFails
        /\ UNCHANGED hook
    BY <1>8 DEF HookTimesOut, TimerFires, Position
  <2>2. Defined' BY <1>3, <2>1 DEF Reported, Defined
  <2>3. QED BY <1>3, <2>1, <2>2, StageEnds
<1>9. ASSUME NEW i \in Instances, NEW s \in BootStages, NEW r \in Settled, HookSettles(i, s, r)
      PROVE  Reported'
  <2>1. /\ hook[i][s] = "running" /\ hook' = [hook EXCEPT ![i] = [hook[i] EXCEPT ![s] = r]]
        /\ UNCHANGED gaveUp
    BY <1>9 DEF HookSettles
  <2>2. /\ hook'[i][s] = r
        /\ \A j \in Instances, t \in BootStages : <<j, t>> # <<i, s>> => hook'[j][t] = hook[j][t]
    BY <2>1 DEF TypeOK
  <2>3. <<i, s>> \in Hooks BY <1>3, <2>1 DEF Reported, Defined
  <2>4. Defined' BY <1>3, <2>2, <2>3 DEF Reported, Defined
  <2>5. CASE boot = "await" /\ at = i /\ stage = s
    <3>1. IF r = "ok" THEN Advance ELSE BootFails BY <1>9, <2>5 DEF HookSettles
    <3>2. <<at, stage>> \notin gaveUp' BY <1>3, <2>1, <2>5 DEF Reported, Visiting
    <3>3. QED BY <1>3, <2>1, <2>2, <2>3, <2>4, <2>5, <3>1, <3>2, StageEnds DEF Settled
  <2>6. CASE ~(boot = "await" /\ at = i /\ stage = s)
    <3>1. UNCHANGED <<bootVars, status>> BY <1>9, <2>6 DEF HookSettles
    <3>2. <<i, s>> \in gaveUp /\ <<i, s>> \in gaveUp' BY <2>1, <2>6 DEF Running
    <3>3. \A j \in Instances, t \in BootStages : Passed(j, t) => Passed(j, t)'
      BY <2>1, <2>2, <3>2 DEF Passed
    <3>4. \A j \in Instances, t \in BootStages : Untouched(j, t) => Untouched(j, t)'
      BY <2>1, <2>2, <3>2 DEF Untouched
    <3>5. \A j \in Instances : Failing(j) => Failing(j)'
      BY <2>1, <2>2, <3>2 DEF Failing
    <3>6. Visited' /\ ToVisit' /\ Ended'
      BY <1>3, <3>1, <3>3, <3>4, <3>5 DEF Reported, Visited, ToVisit, Ended
    <3>7. Visiting'
      <4>1. boot # "done" => <<at, stage>> # <<i, s>> BY <1>3, <3>2 DEF Reported, Visiting
      <4>2. boot # "done" => at \in Instances /\ stage \in BootStages BY DEF Position, TypeOK
      <4>3. boot # "done" => \A t \in BootStages :
              (Passed(at, t) => <<at, t>> \notin gaveUp' /\ (<<at, t>> \in Hooks => hook'[at][t] = "ok"))
              /\ (Untouched(at, t) => <<at, t>> \notin gaveUp' /\ hook'[at][t] = "none")
        BY <2>1, <2>2, <3>2, <4>2 DEF Passed, Untouched
      <4>4. QED
        BY <1>3, <2>1, <2>2, <3>1, <4>1, <4>2, <4>3 DEF Reported, Visiting, Passed, Untouched
    <3>8. QED BY <2>4, <3>6, <3>7 DEF Reported
  <2>7. QED BY <2>5, <2>6
<1>10. ASSUME NEW c \in Calls, NEW i \in Instances,
              SkipStop(c, i) \/ CallStop(c, i) \/ StopTimesOut(c, i)
       PROVE  UNCHANGED <<bootVars, status, hookVars>>
  <2>1. stopping[c] # "none" BY <1>10 DEF SkipStop, CallStop, StopTimesOut, TimerFires
  <2>2. QED BY <1>2, <2>1 DEF Quiet
<1>11. ASSUME NEW c \in Calls, NEW i \in Instances, NEW r \in Settled, StopSettles(c, i, r)
       PROVE  UNCHANGED <<bootVars, status, hookVars>>
  <2>1. stopping[c] = "none" BY <1>2 DEF Quiet
  <2>2. i \notin left[c] BY <2>1 DEF Released
  <2>3. QED BY <1>11, <2>2 DEF StopSettles
<1>12. CASE \E c \in Calls : Shutdown(c)
  BY <1>4, <1>12 DEF Shutdown
<1>13. CASE UNCHANGED vars BY <1>4, <1>13 DEF vars
<1>14. QED
  BY <1>4, <1>5, <1>6, <1>7, <1>8, <1>9, <1>10, <1>11, <1>12, <1>13 DEF Next, Runner

(* Everything the runner's bookkeeping says holds in every reachable state. *)
THEOREM LifecycleInvariance == Spec => []LInv
  BY LifecycleInit, LifecycleStep, PTL DEF Spec

(* Type correctness of the runner. *)
THEOREM LifecycleTypes == Spec => []TypeOK
  BY LifecycleInvariance, PTL DEF LInv

(* Whatever a boot hook acquired is in the hands of a started instance, unless the
   runner had given up on the hook. *)
THEOREM OwnersTheorem == Spec => []OwnersKnown
  BY LifecycleInvariance, PTL DEF LInv

(* A failed fatal hook leaves the instances behind it untouched for good. *)
THEOREM AbortTheorem == Spec => []AbortIsFinal
<1>1. LInv => AbortIsFinal
  BY DEF LInv, Ahead, FatalStops, AbortIsFinal
<1>2. QED BY <1>1, LifecycleInvariance, PTL

(* A shutdown() that reports no problem, called after boot, released everything. *)
THEOREM CleanTheorem == Spec => []CleanShutdownReleases
<1>1. LInv => CleanShutdownReleases
  BY DEF LInv, OwnersKnown, Released, CleanShutdownReleases
<1>2. QED BY <1>1, LifecycleInvariance, PTL

(* Health never hides a degraded instance: after boot, and until the app is shut down,
   it is "failed" exactly when boot was aborted, and "ready" exactly when every hook
   settled well and in time. *)
THEOREM HealthTheorem == Spec => []HealthHonest
<1>1. LInv /\ HInv => HealthHonest
  <2> SUFFICES ASSUME LInv, Reported, boot = "done"
               PROVE  /\ (Health = "failed") <=> aborted
                      /\ (Health = "ready") <=>
                            gaveUp = {}
                            /\ \A h \in Hooks : h[2] # "shutdown" => hook[h[1]][h[2]] = "ok"
    BY DEF HInv, Quiet, HealthHonest
  <2> USE DEF LInv, Reported
  <2> DEFINE wrong == \E i \in Instances : status[i] \in {"failed", "not-reached"}
             worse == \E i \in Instances : status[i] = "degraded"
             well  == /\ gaveUp = {}
                      /\ \A h \in Hooks : h[2] # "shutdown" => hook[h[1]][h[2]] = "ok"
  <2>1. /\ (Health = "failed") <=> wrong
        /\ (Health = "ready") <=> ~wrong /\ ~worse
    BY DEF Health
  <2>2. aborted => wrong BY DEF Ended
  <2>3. ~aborted => /\ at = N + 1
                    /\ \A i \in Instances :
                          \/ status[i] = "ready" /\ \A s \in BootStages : Passed(i, s)
                          \/ status[i] = "degraded" /\ Failing(i)
    BY DEF Ended, Visited, Instances
  <2>4. wrong <=> aborted BY <2>2, <2>3
  <2>5. ASSUME NEW i \in Instances, Failing(i) PROVE ~well
    <3>1. PICK s \in BootStages :
             <<i, s>> \in gaveUp \/ (<<i, s>> \in Hooks /\ hook[i][s] = "threw")
      BY <2>5 DEF Failing
    <3>2. CASE <<i, s>> \in gaveUp BY <3>2
    <3>3. CASE <<i, s>> \in Hooks /\ hook[i][s] = "threw"
      <4>1. <<i, s>>[1] = i /\ <<i, s>>[2] = s /\ s # "shutdown" BY DEF BootStages
      <4>2. QED BY <3>3, <4>1
    <3>4. QED BY <3>1, <3>2, <3>3
  <2>6. ~wrong /\ ~worse => well
    <3>1. SUFFICES ASSUME ~aborted, \A i \in Instances, s \in BootStages : Passed(i, s)
                   PROVE  well
      BY <2>2, <2>3
    <3>2. gaveUp = {}
      <4>1. SUFFICES ASSUME NEW g \in gaveUp PROVE FALSE OBVIOUS
      <4>2. PICK i \in Instances, s \in BootStages : g = <<i, s>> BY DEF TypeOK
      <4>3. QED BY <3>1, <4>2 DEF Passed
    <3>3. ASSUME NEW h \in Hooks, h[2] # "shutdown" PROVE hook[h[1]][h[2]] = "ok"
      <4>1. h[1] \in Instances /\ h[2] \in BootStages /\ h = <<h[1], h[2]>> BY <3>3
      <4>2. QED BY <3>1, <4>1 DEF Passed
    <3>4. QED BY <3>2, <3>3
  <2>7. well => ~wrong /\ ~worse
    <3>1. aborted => at \in Instances /\ Failing(at) BY DEF Ended
    <3>2. worse => \E i \in Instances : Failing(i) BY <2>3, <3>1
    <3>3. QED BY <2>4, <2>5, <3>1, <3>2
  <2>8. QED BY <2>1, <2>4, <2>6, <2>7
<1>2. Init => LInv /\ HInv BY LifecycleInit, HealthInit
<1>3. LInv /\ HInv /\ [Next]_vars => LInv' /\ HInv' BY LifecycleStep, HealthStep
<1>4. QED BY <1>1, <1>2, <1>3, PTL DEF Spec

(* shutdown() stops dependants before what they depend on, also while booting. *)
THEOREM ReverseTheorem == Spec => StopsDependantsFirst
<1> DEFINE A == \A c \in Calls, i \in Instances :
                  stop[c][i] = "none" /\ stop'[c][i] = "running"
                  => \A j \in left[c] : i \notin Needs[j]
<1>1. ASSUME LInv, Next PROVE A
  <2> SUFFICES ASSUME NEW c \in Calls, NEW i \in Instances, NEW j \in left[c],
                      stop[c][i] = "none", stop'[c][i] = "running", i \in Needs[j]
               PROVE  FALSE
    OBVIOUS
  <2>1. \A d \in Calls, k \in Instances : stop'[d][k] # stop[d][k] /\ stop'[d][k] = "running"
                                        => CallStop(d, k)
    <3>1. CASE UNCHANGED stop BY <3>1
    <3>2. ASSUME NEW d \in Calls, NEW k \in Instances, CallStop(d, k)
          PROVE  \A e \in Calls, m \in Instances : stop'[e][m] # stop[e][m] => e = d /\ m = k
      <4>1. stop' = [stop EXCEPT ![d] = [stop[d] EXCEPT ![k] = "running"]] BY <3>2 DEF CallStop
      <4>2. QED BY <4>1 DEF LInv, TypeOK
    <3>3. ASSUME NEW d \in Calls, NEW k \in Instances, NEW r \in Settled, StopSettles(d, k, r)
          PROVE  \A e \in Calls, m \in Instances : stop'[e][m] # stop[e][m] => stop'[e][m] = r
      <4>1. stop' = [stop EXCEPT ![d] = [stop[d] EXCEPT ![k] = r]] BY <3>3 DEF StopSettles
      <4>2. QED BY <1>1, <4>1 DEF LInv, TypeOK
    <3>4. \/ UNCHANGED stop
          \/ \E d \in Calls, k \in Instances : CallStop(d, k)
          \/ \E d \in Calls, k \in Instances, r \in Settled : StopSettles(d, k, r)
      BY <1>1 DEF Next, Runner, Boot, SkipStage, CallHook, HookTimesOut, HookSettles, SkipStop,
                  StopTimesOut, Shutdown
    <3>5. QED BY <3>1, <3>2, <3>3, <3>4
  <2>2. CallStop(c, i) BY <2>1
  <2>3. i < j /\ i \in Nat /\ j \in Nat
    BY <1>1 DEF LInv, TypeOK, Instances
  <2>4. QED BY <2>2, <2>3 DEF CallStop, IsLast
<1>2. LInv /\ [Next]_vars => [A]_vars
  BY <1>1
<1>3. QED
  BY <1>2, LifecycleInvariance, PTL DEF Spec, StopsDependantsFirst
================================================================================
