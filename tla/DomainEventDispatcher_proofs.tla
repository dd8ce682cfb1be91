---------------------- MODULE DomainEventDispatcher_proofs ----------------------
(***************************************************************************)
(* IInv of DomainEventDispatcher is inductive, for any number of events,   *)
(* deliveries and replicas and any value of the bounds, and the properties *)
(* it implies.  A replica's step is cut twice: RowStep says all it can do  *)
(* to one delivery row, BatchStep all it can do to one replica's batch;    *)
(* the parts of the invariant follow from these two without unfolding the  *)
(* actions again.                                                          *)
(***************************************************************************)
EXTENDS DomainEventDispatcher, TLAPS
USE OutboxAssumption DEF outbox, rows, clock, tick, claimed, history

Taken(w, d) ==
    NoHandler(w, d) \/ BindingDisabled(w, d) \/ BindingLookupFails(w, d) \/ StartHandler(w, d)
Returns(w) ==
    \E o \in {"processed", "ignored", "terminal", "retry"} : HandlerReturns(w, o)

(* processDelivery starts a row in one of four ways, all of them Take. *)
LEMMA TakenIsTake ==
  ASSUME NEW w \in Workers, NEW d \in Deliveries, Taken(w, d)
  PROVE  \/ Take(w, d, "complete", "no_handler")
         \/ Take(w, d, "complete", "disabled")
         \/ Take(w, d, "complete", "retry")
         \/ Take(w, d, "handling", "none")
  BY DEF Taken, NoHandler, BindingDisabled, BindingLookupFails, StartHandler

(* Only reclaimStaleLocks, claimDueDeliveries and completeDelivery write delivery rows. *)
LEMMA RowWriters ==
  ASSUME NEW w \in Workers, Replica(w)
  PROVE  \/ UNCHANGED rows
         \/ \E k \in Stmt, a \in Answer : Reclaim(w, k, a)
         \/ \E S \in SUBSET Deliveries, a \in Answer : Claim(w, S, a)
         \/ \E a \in Answer : Complete(w, a)
  BY DEF Replica, Start, Stop, Tick, Crash, Restart, ClaimNothing, NoHandler, BindingDisabled,
         BindingLookupFails, StartHandler, Take, HandlerReturns, EndTick

(* The steps that touch a replica's claimed rows or the handler history. *)
LEMMA BatchWriters ==
  ASSUME NEW w \in Workers, Replica(w)
  PROVE  \/ UNCHANGED claimed /\ UNCHANGED history
         \/ Crash(w) \/ EndTick(w) \/ Returns(w)
         \/ \E S \in SUBSET Deliveries, a \in Answer : Claim(w, S, a)
         \/ \E d \in Deliveries : Taken(w, d)
         \/ \E a \in Answer : Complete(w, a)
  BY DEF Replica, Start, Stop, Tick, Restart, Reclaim, ClaimNothing, Returns, Taken

(* A replica's step keeps the columns of the delivery rows in their types. *)
LEMMA RowT ==
  ASSUME TypeOK, StageInv, NEW w \in Workers, Replica(w) PROVE RowTypes'
<1> USE DEF TypeOK, RowTypes
<1>1. ASSUME NEW k \in Stmt, NEW a \in Answer, Reclaim(w, k, a)
      PROVE  RowTypes'
  BY <1>1 DEF Reclaim, Unlock, Status
<1>2. ASSUME NEW S \in SUBSET Deliveries, NEW a \in Answer, Claim(w, S, a)
      PROVE  RowTypes'
  <2>1. CASE Applies(a) BY <1>2, <2>1 DEF Claim, LeaseId, Status, ClockTypes
  <2>2. CASE ~Applies(a) BY <1>2, <2>2 DEF Claim
  <2> QED BY <2>1, <2>2
<1>3. ASSUME NEW a \in Answer, Complete(w, a)
       PROVE  RowTypes'
  <2>1. cur[w] \in Deliveries BY <1>3 DEF StageInv, Complete, BatchTypes
  <2>2. NextAttempts(w) \in Nat BY <2>1 DEF NextAttempts, BatchTypes
  <2>3. CompletionStatus(w) \in Status BY DEF CompletionStatus, Status
  <2>4. CompletionBackoff(w) \in {"due", "waiting"} BY <2>1 DEF CompletionBackoff
  <2>5. QED BY <1>3, <2>2, <2>3, <2>4 DEF Complete
<1>4. QED
  BY <1>1, <1>2, <1>3, RowWriters

(* A replica's step keeps the lease counter in its type and leaves events alone. *)
LEMMA ClockT ==
  ASSUME TypeOK, NEW w \in Workers, Replica(w) PROVE ClockTypes' /\ OutboxTypes'
  <1>1. /\ expired' = expired /\ nextLease' \in {nextLease, nextLease + 1}
        /\ UNCHANGED outbox
  BY DEF Replica, Start, Stop, Tick, Crash, Restart, ClaimNothing, NoHandler, BindingDisabled,
         BindingLookupFails, StartHandler, Take, HandlerReturns, EndTick, Reclaim, Claim, Complete
  <1>2. QED BY <1>1 DEF TypeOK, ClockTypes, OutboxTypes

(* A replica's step keeps timers, stages and reclaim statements in their types. *)
LEMMA TickT ==
  ASSUME TypeOK, NEW w \in Workers, Replica(w) PROVE TickTypes'
<1> USE DEF TypeOK, TickTypes, Stage
<1>1. CASE Start(w) \/ Stop(w) \/ Tick(w)
  BY <1>1 DEF Start, Stop, Tick, BeginTick, ClockTypes
<1>2. CASE Crash(w) \/ Restart(w) \/ ClaimNothing(w) \/ EndTick(w) \/ Returns(w)
  BY <1>2 DEF Crash, Restart, ClaimNothing, EndTick, Returns, HandlerReturns
<1>3. ASSUME NEW k \in Stmt, NEW a \in Answer, Reclaim(w, k, a)
      PROVE  TickTypes'
  BY <1>3 DEF Reclaim
<1>4. ASSUME NEW S \in SUBSET Deliveries, NEW a \in Answer, Claim(w, S, a)
      PROVE  TickTypes'
  BY <1>4 DEF Claim
<1>5. ASSUME NEW d \in Deliveries, Taken(w, d) PROVE TickTypes'
  BY <1>5, TakenIsTake DEF Take
<1>6. ASSUME NEW a \in Answer, Complete(w, a) PROVE TickTypes'
  BY <1>6 DEF Complete
<1>7. QED
  BY <1>1, <1>2, <1>3, <1>4, <1>5, <1>6 DEF Replica, Taken, Returns

(* A replica's step keeps leases, batches, copies and outcomes in their types. *)
LEMMA BatchT ==
  ASSUME TypeOK, NEW w \in Workers, Replica(w) PROVE BatchTypes'
<1> USE DEF TypeOK, BatchTypes
<1>0. ASSUME DropBatch(w) PROVE BatchTypes'
  <2>1. [d \in Deliveries |-> 0] \in [Deliveries -> Nat]  OBVIOUS
  <2>2. QED BY <1>0, <2>1 DEF DropBatch, Outcome
<1>1. CASE Crash(w) \/ EndTick(w)
  BY <1>0, <1>1 DEF Crash, EndTick
<1>2. CASE Returns(w)
  BY <1>2 DEF Returns, HandlerReturns, Outcome
<1>3. ASSUME NEW S \in SUBSET Deliveries, NEW a \in Answer, Claim(w, S, a)
      PROVE  BatchTypes'
  <2>1. [d \in Deliveries |-> IF d \in S THEN attempts[d] ELSE 0] \in [Deliveries -> Nat]
    BY DEF RowTypes
  <2>2. CASE a = "ok"
    <3>1. /\ lease' = [lease EXCEPT ![w] = nextLease] /\ batch' = [batch EXCEPT ![w] = S]
          /\ copy' = [copy EXCEPT ![w] = [d \in Deliveries |-> IF d \in S THEN attempts[d] ELSE 0]]
          /\ UNCHANGED <<cur, outcome>>
      BY <1>3, <2>2 DEF Claim, LeaseId
    <3>2. lease' \in [Workers -> Nat]
      BY <3>1 DEF ClockTypes
    <3>3. QED BY <2>1, <3>1, <3>2
  <2>3. CASE a # "ok" BY <1>3, <2>3 DEF Claim
  <2>4. QED BY <2>2, <2>3
<1>4. ASSUME NEW d \in Deliveries, Taken(w, d) PROVE BatchTypes'
  <2>1. ASSUME NEW st, NEW o \in Outcome, Take(w, d, st, o) PROVE BatchTypes'
    BY <2>1 DEF Take
  <2>2. QED BY <1>4, <2>1, TakenIsTake DEF Outcome
<1>5. ASSUME NEW a \in Answer, Complete(w, a) PROVE BatchTypes'
  <2>1. [copy[w] EXCEPT ![cur[w]] = 0] \in [Deliveries -> Nat] OBVIOUS
  <2>2. CASE a = "ok"
    <3>1. /\ batch' = [batch EXCEPT ![w] = batch[w] \ {cur[w]}]
          /\ copy' = [copy EXCEPT ![w] = [copy[w] EXCEPT ![cur[w]] = 0]]
          /\ cur' = [cur EXCEPT ![w] = NoDelivery] /\ outcome' = [outcome EXCEPT ![w] = "none"]
          /\ UNCHANGED lease
      BY <1>5, <2>2 DEF Complete
    <3>2. "none" \in Outcome BY DEF Outcome
    <3>3. QED BY <2>1, <3>1, <3>2
  <2>3. CASE a # "ok" /\ outcome[w] \in {"processed", "disabled"}
    BY <1>5, <2>3 DEF Complete, Outcome
  <2>4. CASE a # "ok" /\ outcome[w] \notin {"processed", "disabled"}
    BY <1>0, <1>5, <2>4 DEF Complete
  <2>5. QED BY <2>2, <2>3, <2>4
<1>6. QED
  BY <1>1, <1>2, <1>3, <1>4, <1>5, BatchWriters

(* A replica's step keeps the counters and the handler history in their types. *)
LEMMA OtherT ==
  ASSUME TypeOK, StageInv, NEW w \in Workers, Replica(w) PROVE OtherTypes'
<1>1. faults' \in {faults, faults + 1} /\ UNCHANGED <<enabled, retries>>
  BY DEF Replica, Start, Stop, Tick, Crash, Restart, ClaimNothing, NoHandler, BindingDisabled,
         BindingLookupFails, StartHandler, Take, HandlerReturns, EndTick, Reclaim, Claim, Complete,
         Charge
<1>2. UNCHANGED history \/ Returns(w)
  BY DEF Replica, Start, Stop, Tick, Crash, Restart, ClaimNothing, NoHandler, BindingDisabled,
         BindingLookupFails, StartHandler, Take, Returns, EndTick, Reclaim, Claim, Complete
<1>3. (handled' \subseteq Deliveries /\ fatal' \subseteq Deliveries)
  BY <1>2 DEF Returns, HandlerReturns, StageInv, TypeOK, BatchTypes, OtherTypes
<1>4. QED
  BY <1>1, <1>3 DEF TypeOK, OtherTypes

(* A replica has a lease, a batch and a current row exactly in the stages that work on one. *)
LEMMA StageStep ==
  ASSUME TypeOK, StageInv, LeaseInv, NEW w \in Workers, Replica(w) PROVE StageInv'
<1> DEFINE Ok(v) == /\ pc[v] \in {"handling", "complete"} => cur[v] \in batch[v]
                    /\ Working(v) <=> lease[v] # 0
                    /\ ~Working(v) => batch[v] = {}
<1>0. \A v \in Workers \ {w} : Ok(v)'
  <2>1. \A v \in Workers \ {w} : /\ pc'[v] = pc[v] /\ cur'[v] = cur[v]
                               /\ lease'[v] = lease[v] /\ batch'[v] = batch[v]
    <3>1. \A v \in Workers \ {w} : pc'[v] = pc[v]
      BY DEF Replica, Start, Stop, Tick, BeginTick, Crash, Restart, ClaimNothing, NoHandler,
             BindingDisabled, BindingLookupFails, StartHandler, Take, HandlerReturns, EndTick,
             Reclaim, Claim, Complete, TypeOK, TickTypes
    <3>2. \A v \in Workers \ {w} : /\ cur'[v] = cur[v]
                               /\ lease'[v] = lease[v] /\ batch'[v] = batch[v]
      BY BatchWriters, TakenIsTake DEF Crash, Returns, Take, HandlerReturns, EndTick, DropBatch, Claim, Complete, TypeOK, BatchTypes
    <3>3. QED BY <3>1, <3>2
  <2>2. QED BY <2>1 DEF StageInv, Working
<1>1. Ok(w)'
  <2> USE DEF TypeOK, TickTypes, BatchTypes, StageInv, Working
  <2>1. CASE Start(w) \/ Stop(w) \/ Tick(w)
    BY <2>1 DEF Start, Stop, Tick, BeginTick
  <2>2. CASE Crash(w) \/ EndTick(w)
    BY <2>2 DEF Crash, EndTick, DropBatch
  <2>3. CASE Restart(w) \/ ClaimNothing(w) \/ Returns(w)
    BY <2>3 DEF Restart, ClaimNothing, Returns, HandlerReturns
  <2>4. ASSUME NEW k \in Stmt, NEW a \in Answer, Reclaim(w, k, a)
        PROVE  Ok(w)'
    BY <2>4 DEF Reclaim
  <2>5. ASSUME NEW S \in SUBSET Deliveries, NEW a \in Answer, Claim(w, S, a)
        PROVE  Ok(w)'
    <3>1. nextLease # 0 BY DEF LeaseInv, ClockTypes
    <3>2. CASE a = "ok" BY <2>5, <3>1, <3>2 DEF Claim, LeaseId
    <3>3. CASE a # "ok" BY <2>5, <3>3 DEF Claim
    <3>4. QED BY <3>2, <3>3
  <2>6. ASSUME NEW d \in Deliveries, Taken(w, d) PROVE Ok(w)'
    <3>1. ASSUME NEW st \in {"handling", "complete"}, NEW o, Take(w, d, st, o) PROVE Ok(w)'
      BY <3>1 DEF Take, IsNext
    <3>2. QED BY <2>6, <3>1, TakenIsTake
  <2>7. ASSUME NEW a \in Answer, Complete(w, a) PROVE Ok(w)'
    <3>1. CASE a = "ok" BY <2>7, <3>1 DEF Complete
    <3>2. CASE a # "ok" /\ outcome[w] \in {"processed", "disabled"}
      BY <2>7, <3>2 DEF Complete
    <3>3. CASE a # "ok" /\ outcome[w] \notin {"processed", "disabled"}
      BY <2>7, <3>3 DEF Complete, DropBatch
    <3>4. QED BY <3>1, <3>2, <3>3
  <2>8. QED
    BY <2>1, <2>2, <2>3, <2>4, <2>5, <2>6, <2>7 DEF Replica, Taken, Returns
<1>2. QED BY <1>0, <1>1 DEF StageInv

(* Lease numbers in use were handed out, and a reclaim only looks at stale ones. *)
LEMMA LeaseStep ==
  ASSUME TypeOK, LeaseInv, NEW w \in Workers, Replica(w) PROVE LeaseInv'
<1>0. 0 < nextLease
  BY DEF TypeOK, ClockTypes, LeaseInv
<1>1. expired' = expired /\ (nextLease' = nextLease \/ nextLease' = nextLease + 1)
  BY DEF Replica, Start, Stop, Tick, Crash, Restart, ClaimNothing, NoHandler, BindingDisabled,
         BindingLookupFails, StartHandler, Take, HandlerReturns, EndTick, Reclaim, Claim, Complete
<1>2. \A v \in Workers :
          lease'[v] = lease[v] \/ lease'[v] = 0 \/ (lease'[v] = nextLease /\ nextLease' = nextLease + 1)
  BY BatchWriters, TakenIsTake DEF Crash, Returns, Take, HandlerReturns, EndTick, DropBatch, Claim,
     Applies, LeaseId, Complete, TypeOK, BatchTypes
<1>3. \A d \in Deliveries :
          lockedBy'[d] = lockedBy[d] \/ lockedBy'[d] = 0 \/ (lockedBy'[d] = nextLease /\ nextLease' = nextLease + 1)
  BY RowWriters DEF Reclaim, Unlock, Claim, LeaseId, Complete, TypeOK, RowTypes
<1>8. \A v \in Workers : staleBefore'[v] <= expired'
  <2>1. \A v \in Workers :
            staleBefore'[v] = staleBefore[v] \/ staleBefore'[v] = 0 \/ staleBefore'[v] = expired
    <3>1. CASE Start(w) \/ Tick(w) \/ Crash(w) \/ \E k \in Stmt, a \in Answer : Reclaim(w, k, a)
      BY <3>1 DEF Start, Tick, BeginTick, Crash, Reclaim, TypeOK, TickTypes
    <3>2. CASE UNCHANGED staleBefore
      BY <3>2
    <3>3. QED
      BY <3>1, <3>2 DEF Replica, Stop, Restart, ClaimNothing, NoHandler, BindingDisabled,
         BindingLookupFails, StartHandler, Take, HandlerReturns, EndTick, Claim, Complete
  <2>2. \A v \in Workers : staleBefore[v] \in Nat /\ staleBefore[v] <= expired
    BY DEF TypeOK, TickTypes, LeaseInv
  <2>3. QED BY <1>1, <2>1, <2>2 DEF TypeOK, ClockTypes
<1>4. \A v \in Workers : lease'[v] < nextLease'
  <2> TAKE v \in Workers
  <2>1. lease[v] \in Nat /\ nextLease \in Nat /\ lease[v] < nextLease
    BY DEF TypeOK, ClockTypes, BatchTypes, LeaseInv
  <2>2. QED BY <1>0, <1>1, <1>2, <2>1
<1>5. \A d \in Deliveries : lockedBy'[d] < nextLease'
  <2> TAKE d \in Deliveries
  <2>1. lockedBy[d] \in Nat /\ nextLease \in Nat /\ lockedBy[d] < nextLease
    BY DEF TypeOK, ClockTypes, RowTypes, LeaseInv
  <2>2. QED BY <1>0, <1>1, <1>3, <2>1
<1>6. expired' < nextLease'
  BY <1>1 DEF TypeOK, ClockTypes, LeaseInv
<1>7. QED BY <1>4, <1>5, <1>6, <1>8 DEF LeaseInv

(* What a replica's step does to one row, and to the batches. *)
LEMMA RowStep ==
  ASSUME IInv, NEW w \in Workers, Replica(w), NEW d \in Deliveries
  PROVE  \/ /\ status'[d] = status[d] /\ attempts'[d] = attempts[d] /\ lockedBy'[d] = lockedBy[d]
         \/ /\ status[d] = "PROCESSING" /\ lockedBy'[d] = 0 /\ attempts'[d] = attempts[d] + 1
            /\ \/ status'[d] = "DEAD_LETTER" /\ attempts[d] + 1 >= MaxAttempts
               \/ status'[d] = "PENDING" /\ attempts[d] + 1 < MaxAttempts
         \/ /\ Due(d) /\ attempts'[d] = attempts[d]
            /\ status'[d] = "PROCESSING" /\ lockedBy'[d] = nextLease
            /\ nextLease' = nextLease + 1
         \/ /\ status[d] = "PROCESSING" /\ lockedBy'[d] = 0 /\ attempts'[d] = attempts[d]
            /\ pc[w] = "complete" /\ cur[w] = d
            /\ \/ status'[d] = "PROCESSED" /\ outcome[w] = "processed"
               \/ status'[d] = "IGNORED"
               \/ status'[d] = "DEAD_LETTER" /\ outcome[w] = "terminal"
               \/ status'[d] = "PENDING"
<1>1. ASSUME NEW k \in Stmt, NEW a \in Answer, Reclaim(w, k, a),
             status'[d] # status[d] \/ attempts'[d] # attempts[d] \/ lockedBy'[d] # lockedBy[d]
      PROVE  /\ status[d] = "PROCESSING" /\ lockedBy'[d] = 0 /\ attempts'[d] = attempts[d] + 1
             /\ \/ status'[d] = "DEAD_LETTER" /\ attempts[d] + 1 >= MaxAttempts
                \/ status'[d] = "PENDING" /\ attempts[d] + 1 < MaxAttempts
  <2>1. attempts[d] \in Nat BY DEF IInv, TypeOK, RowTypes
  <2>2. d \in Reclaimable(k, staleBefore[w])
    BY <1>1, <2>1 DEF Reclaim, Unlock
  <2>3. status[d] = "PROCESSING" /\ (k = "dead_letter" <=> attempts[d] >= MaxAttempts - 1)
    BY <2>2 DEF Reclaimable, Abandoned
  <2>4. lockedBy'[d] = 0 /\ attempts'[d] = attempts[d] + 1
        /\ status'[d] = IF k = "dead_letter" THEN "DEAD_LETTER" ELSE "PENDING"
    BY <1>1, <2>1, <2>2 DEF Reclaim, Unlock
  <2>5. QED BY <2>1, <2>3, <2>4
<1>2. ASSUME NEW S \in SUBSET Deliveries, NEW a \in Answer, Claim(w, S, a),
             status'[d] # status[d] \/ attempts'[d] # attempts[d] \/ lockedBy'[d] # lockedBy[d]
      PROVE  /\ Due(d) /\ attempts'[d] = attempts[d]
             /\ status'[d] = "PROCESSING" /\ lockedBy'[d] = nextLease
             /\ nextLease' = nextLease + 1
  <2>1. S \subseteq {f \in Deliveries : Due(f)}
    BY <1>2 DEF Claim, Claimable, IsBatch
  <2>2. d \in S /\ Applies(a)
    BY <1>2 DEF Claim, IInv, TypeOK, RowTypes
  <2>3. QED BY <1>2, <2>1, <2>2 DEF Claim, LeaseId
<1>3. ASSUME NEW a \in Answer, Complete(w, a),
             status'[d] # status[d] \/ attempts'[d] # attempts[d] \/ lockedBy'[d] # lockedBy[d]
      PROVE  \/ /\ status[d] = "PROCESSING" /\ lockedBy'[d] = 0 /\ attempts'[d] = attempts[d] + 1
                /\ \/ status'[d] = "DEAD_LETTER" /\ attempts[d] + 1 >= MaxAttempts
                   \/ status'[d] = "PENDING" /\ attempts[d] + 1 < MaxAttempts
             \/ /\ status[d] = "PROCESSING" /\ lockedBy'[d] = 0 /\ attempts'[d] = attempts[d]
                /\ pc[w] = "complete" /\ cur[w] = d
                /\ \/ status'[d] = "PROCESSED" /\ outcome[w] = "processed"
                   \/ status'[d] = "IGNORED"
                   \/ status'[d] = "DEAD_LETTER" /\ outcome[w] = "terminal"
                   \/ status'[d] = "PENDING"
  <2>1. cur[w] = d /\ Holds(w, d) /\ pc[w] = "complete"
    BY <1>3 DEF Complete, IInv, TypeOK, RowTypes
  <2>2. d \in batch[w] BY <2>1 DEF IInv, StageInv
  <2>3. copy[w][d] = attempts[d] BY <2>1, <2>2 DEF IInv, CopyIsCurrent
  <2>4. /\ status'[d] = CompletionStatus(w) /\ attempts'[d] = NextAttempts(w) /\ lockedBy'[d] = 0
    BY <1>3, <2>1 DEF Complete, IInv, TypeOK, RowTypes
  <2>5. NextAttempts(w) = IF outcome[w] = "retry" THEN attempts[d] + 1 ELSE attempts[d]
    BY <2>1, <2>3 DEF NextAttempts
  <2>6. outcome[w] # "none" BY <2>1 DEF IInv, OutcomeInv
  <2>7. attempts[d] \in Nat /\ outcome[w] \in Outcome BY DEF IInv, TypeOK, RowTypes, BatchTypes
  <2>8. QED
    BY <2>1, <2>4, <2>5, <2>6, <2>7 DEF CompletionStatus, Exhausted, Holds, Outcome
<1>4. QED
  BY <1>1, <1>2, <1>3, RowWriters

(* What a replica's step does to the batch of any replica: nothing, dropping it, filling
   it with the rows it put under a fresh lease, or removing the row it completed. *)
LEMMA BatchStep ==
  ASSUME IInv, NEW w \in Workers, Replica(w), NEW v \in Workers
  PROVE  \/ lease'[v] = lease[v] /\ batch'[v] = batch[v] /\ copy'[v] = copy[v]
         \/ lease'[v] = 0 /\ batch'[v] = {}
         \/ /\ v = w /\ lease'[v] = nextLease /\ nextLease' = nextLease + 1
            /\ \A d \in Deliveries : d \in batch'[v] <=> lockedBy'[d] = nextLease
            /\ \A d \in batch'[v] : copy'[v][d] = attempts'[d]
         \/ /\ v = w /\ lease'[v] = lease[v] /\ batch'[v] = batch[v] \ {cur[v]}
            /\ lockedBy'[cur[v]] # lease[v]
            /\ \A d \in batch'[v] : copy'[v][d] = copy[v][d]
<1> USE DEF IInv, TypeOK, BatchTypes
<1>1. ASSUME Crash(w) \/ EndTick(w)
      PROVE  (lease'[v] = lease[v] /\ batch'[v] = batch[v] /\ copy'[v] = copy[v])
             \/ (lease'[v] = 0 /\ batch'[v] = {})
  BY <1>1 DEF Crash, EndTick, DropBatch
<1>2. ASSUME Returns(w) \/ \E d \in Deliveries : Taken(w, d)
      PROVE  lease'[v] = lease[v] /\ batch'[v] = batch[v] /\ copy'[v] = copy[v]
  BY <1>2, TakenIsTake DEF Returns, HandlerReturns, Take
<1>3. ASSUME NEW S \in SUBSET Deliveries, NEW a \in Answer, Claim(w, S, a),
             ~(lease'[v] = lease[v] /\ batch'[v] = batch[v] /\ copy'[v] = copy[v])
      PROVE  /\ v = w /\ lease'[v] = nextLease /\ nextLease' = nextLease + 1
             /\ \A d \in Deliveries : d \in batch'[v] <=> lockedBy'[d] = nextLease
             /\ \A d \in batch'[v] : copy'[v][d] = attempts'[d]
  <2>1. a = "ok" /\ v = w
    BY <1>3 DEF Claim
  <2>2. /\ lease'[v] = nextLease /\ nextLease' = nextLease + 1 /\ batch'[v] = S
        /\ copy'[v] = [d \in Deliveries |-> IF d \in S THEN attempts[d] ELSE 0]
        /\ attempts' = attempts
        /\ lockedBy' = [d \in Deliveries |-> IF d \in S THEN nextLease ELSE lockedBy[d]]
    BY <1>3, <2>1 DEF Claim, LeaseId, Applies
  <2>3. \A d \in Deliveries : lockedBy[d] # nextLease
    BY DEF LeaseInv, RowTypes, ClockTypes
  <2>4. QED BY <2>1, <2>2, <2>3
<1>4. ASSUME NEW a \in Answer, Complete(w, a),
             ~(lease'[v] = lease[v] /\ batch'[v] = batch[v] /\ copy'[v] = copy[v]),
             ~(lease'[v] = 0 /\ batch'[v] = {})
      PROVE  /\ v = w /\ lease'[v] = lease[v] /\ batch'[v] = batch[v] \ {cur[v]}
             /\ lockedBy'[cur[v]] # lease[v]
             /\ \A d \in batch'[v] : copy'[v][d] = copy[v][d]
  <2>1. v = w /\ a = "ok"
    BY <1>4 DEF Complete, DropBatch
  <2>2. lease'[v] = lease[v] /\ batch'[v] = batch[v] \ {cur[v]}
        /\ copy'[v] = [copy[v] EXCEPT ![cur[v]] = 0]
    BY <1>4, <2>1 DEF Complete
  <2>3. cur[v] \in batch[v] /\ cur[v] \in Deliveries /\ lease[v] # 0 /\ pc[v] = "complete"
    BY <1>4, <2>1 DEF Complete, StageInv, Working
  <2>4. lockedBy'[cur[v]] # lease[v]
    <3>1. CASE Holds(w, cur[w])
      BY <1>4, <2>1, <2>3, <3>1 DEF Complete, Applies, RowTypes
    <3>2. CASE ~Holds(w, cur[w])
      BY <1>4, <2>1, <2>3, <3>2 DEF Complete, Holds, OneHolder
    <3>3. QED BY <3>1, <3>2
  <2>5. \A d \in batch'[v] : copy'[v][d] = copy[v][d]
    BY <2>2
  <2>6. QED BY <2>1, <2>2, <2>4, <2>5
<1>5. QED
  BY <1>1, <1>2, <1>3, <1>4, BatchWriters

(* A replica's step preserves OneHolder. *)
LEMMA HolderStep ==
  ASSUME IInv, NEW w \in Workers, Replica(w) PROVE OneHolder'
<1> USE DEF IInv, OneHolder
<1>0. \A d \in Deliveries : lockedBy[d] # nextLease /\ lockedBy[d] \in Nat
  BY DEF LeaseInv, TypeOK, RowTypes, ClockTypes
<1>1. nextLease # 0 /\ \A v \in Workers : lease[v] # nextLease
  BY DEF LeaseInv, TypeOK, BatchTypes, ClockTypes
<1>2. ASSUME NEW d \in Deliveries
      PROVE (status'[d] = "PROCESSING") <=> (lockedBy'[d] # 0)
  BY <1>1, RowStep
<1>3. ASSUME NEW u \in Workers, NEW v \in Workers, lease'[u] # 0, lease'[u] = lease'[v]
      PROVE  u = v
  BY <1>1, <1>3, BatchStep
<1>4. ASSUME NEW v \in Workers, NEW d \in Deliveries, lease'[v] # 0, lockedBy'[d] = lease'[v]
      PROVE  d \in batch'[v]
  <2>1. CASE lease'[v] = lease[v] /\ batch'[v] = batch[v]
    <3>1. lockedBy[d] = lease[v]
      BY <1>1, <1>4, <2>1, RowStep
    <3>2. QED BY <1>4, <2>1, <3>1
  <2>2. CASE lease'[v] = nextLease /\ \A f \in Deliveries : f \in batch'[v] <=> lockedBy'[f] = nextLease
    BY <1>4, <2>2
  <2>3. CASE lease'[v] = lease[v] /\ batch'[v] = batch[v] \ {cur[v]} /\ lockedBy'[cur[v]] # lease[v]
    <3>1. lockedBy[d] = lease[v] /\ d # cur[v]
      BY <1>1, <1>4, <2>3, RowStep
    <3>2. QED BY <1>4, <2>3, <3>1
  <2>4. QED BY <1>4, <2>1, <2>2, <2>3, BatchStep
<1>5. QED BY <1>2, <1>3, <1>4

(* A replica's step preserves CopyIsCurrent: a claimed copy goes stale only with its lease. *)
LEMMA CopyStep ==
  ASSUME IInv, NEW w \in Workers, Replica(w) PROVE CopyIsCurrent'
<1> SUFFICES ASSUME NEW v \in Workers, NEW d \in batch'[v],
                    status'[d] = "PROCESSING", lockedBy'[d] = lease'[v], d \in Deliveries
             PROVE  copy'[v][d] = attempts'[d]
  <2>1. batch' \in [Workers -> SUBSET Deliveries] BY BatchT DEF IInv, BatchTypes
  <2>2. QED BY <2>1 DEF CopyIsCurrent, Holds
<1>0. nextLease # 0 /\ \A u \in Workers : lease[u] # nextLease
  BY DEF IInv, LeaseInv, TypeOK, BatchTypes, ClockTypes
<1>1. CASE /\ lease'[v] = lease[v] /\ d \in batch[v] /\ copy'[v][d] = copy[v][d]
  <2>1. status[d] = "PROCESSING" /\ lockedBy[d] = lease[v] /\ attempts'[d] = attempts[d]
    BY <1>0, <1>1, RowStep DEF IInv, OneHolder
  <2>2. QED BY <1>1, <2>1 DEF IInv, CopyIsCurrent, Holds
<1>2. CASE \A f \in batch'[v] : copy'[v][f] = attempts'[f]
  BY <1>2
<1>3. QED BY <1>1, <1>2, BatchStep

(* A replica's step preserves AttemptBudget. *)
LEMMA BudgetStep ==
  ASSUME IInv, NEW w \in Workers, Replica(w) PROVE AttemptBudget'
<1> SUFFICES ASSUME NEW d \in Deliveries
             PROVE  /\ attempts'[d] <= MaxAttempts + retries[d]
                    /\ status'[d] \in {"PENDING", "PROCESSING"}
                       => attempts'[d] < MaxAttempts + retries[d]
  <2>1. UNCHANGED retries
    BY DEF Replica, Start, Stop, Tick, Crash, Restart, ClaimNothing, NoHandler, BindingDisabled,
           BindingLookupFails, StartHandler, Take, HandlerReturns, EndTick, Reclaim, Claim,
           Complete
  <2>2. QED BY <2>1 DEF AttemptBudget
<1>1. attempts[d] \in Nat /\ retries[d] \in Nat
  BY DEF IInv, TypeOK, RowTypes, OtherTypes
<1>2. /\ attempts[d] <= MaxAttempts + retries[d]
      /\ status[d] \in {"PENDING", "PROCESSING"} => attempts[d] < MaxAttempts + retries[d]
  BY DEF IInv, AttemptBudget
<1>3. QED BY <1>1, <1>2, RowStep DEF Due

(* An outcome waiting to be written is one the handler produced. *)
LEMMA OutcomeStep ==
  ASSUME IInv, NEW w \in Workers, Replica(w)
  PROVE  OutcomeInv' /\ handled \subseteq handled' /\ fatal \subseteq fatal'
<1>1. handled \subseteq handled' /\ fatal \subseteq fatal'
  BY BatchWriters, TakenIsTake DEF Crash, EndTick, Returns, HandlerReturns, Claim, Take, Complete
<1> DEFINE Ok(v) ==
      /\ pc[v] = "complete" => outcome[v] # "none"
      /\ pc[v] = "complete" /\ outcome[v] = "processed" => cur[v] \in handled
      /\ pc[v] = "complete" /\ outcome[v] = "terminal" => cur[v] \in fatal
<1>2. ASSUME NEW v \in Workers PROVE Ok(v)'
  <2> USE DEF IInv, TypeOK, TickTypes, BatchTypes
  <2>0. Ok(v) BY DEF OutcomeInv
  <2>1. CASE UNCHANGED <<cur, outcome>> /\ (pc'[v] = "complete" => pc[v] = "complete")
    BY <1>1, <2>0, <2>1
  <2>2. ASSUME Start(w) \/ Stop(w) \/ Tick(w) \/ Restart(w) \/ ClaimNothing(w)
               \/ (\E k \in Stmt, a \in Answer : Reclaim(w, k, a))
               \/ (\E S \in SUBSET Deliveries, a \in Answer : Claim(w, S, a))
        PROVE  Ok(v)'
    BY <2>1, <2>2 DEF Start, Stop, Tick, BeginTick, Restart, ClaimNothing, Reclaim, Claim
  <2>3. CASE Crash(w) \/ EndTick(w)
    BY <1>1, <2>0, <2>3 DEF Crash, EndTick, DropBatch
  <2>4. CASE Returns(w)
    BY <1>1, <2>0, <2>4 DEF Returns, HandlerReturns
  <2>5. ASSUME NEW d \in Deliveries, Taken(w, d) PROVE Ok(v)'
    BY <1>1, <2>0, <2>5, TakenIsTake DEF Take
  <2>6. ASSUME NEW a \in Answer, Complete(w, a) PROVE Ok(v)'
    BY <1>1, <2>0, <2>6 DEF Complete, DropBatch
  <2>7. QED BY <2>2, <2>3, <2>4, <2>5, <2>6 DEF Replica, Taken, Returns
<1>3. QED BY <1>1, <1>2 DEF OutcomeInv

(* A replica's step preserves VerdictJustified. *)
LEMMA VerdictStep ==
  ASSUME IInv, NEW w \in Workers, Replica(w) PROVE VerdictJustified'
<1>1. handled \subseteq handled' /\ fatal \subseteq fatal'
  BY OutcomeStep
<1>2. UNCHANGED outbox
  BY DEF Replica, Start, Stop, Tick, Crash, Restart, ClaimNothing, NoHandler, BindingDisabled,
         BindingLookupFails, StartHandler, Take, HandlerReturns, EndTick, Reclaim, Claim, Complete
<1>3. ASSUME NEW d \in Deliveries
      PROVE  /\ status'[d] = "PROCESSED" => d \in handled'
             /\ status'[d] = "DEAD_LETTER" => attempts'[d] >= MaxAttempts \/ d \in fatal'
             /\ ~Visible(d) => status'[d] = "PENDING" /\ attempts'[d] = 0
  <2>1. attempts[d] \in Nat BY DEF IInv, TypeOK, RowTypes
  <2>2. /\ status[d] = "PROCESSED" => d \in handled
        /\ status[d] = "DEAD_LETTER" => attempts[d] >= MaxAttempts \/ d \in fatal
        /\ ~Visible(d) => status[d] = "PENDING" /\ attempts[d] = 0
    BY DEF IInv, VerdictJustified
  <2>3. /\ pc[w] = "complete" /\ outcome[w] = "processed" => cur[w] \in handled
        /\ pc[w] = "complete" /\ outcome[w] = "terminal" => cur[w] \in fatal
    BY DEF IInv, OutcomeInv
  <2>4. status'[d] = "PROCESSED" => d \in handled'
    <3>1. status'[d] = "PROCESSED" /\ status[d] # "PROCESSED"
          => pc[w] = "complete" /\ cur[w] = d /\ outcome[w] = "processed"
      BY RowStep
    <3>2. QED BY <1>1, <2>2, <2>3, <3>1
  <2>5. status'[d] = "DEAD_LETTER" => attempts'[d] >= MaxAttempts \/ d \in fatal'
    BY <1>1, <2>1, <2>2, <2>3, RowStep
  <2>6. ~Visible(d) => status'[d] = "PENDING" /\ attempts'[d] = 0
    BY <2>2, RowStep DEF Due
  <2>7. QED BY <2>4, <2>5, <2>6
<1>4. QED BY <1>2, <1>3 DEF VerdictJustified, Visible

(* A replica's step preserves every part of the inductive invariant. *)
LEMMA ReplicaStep ==
  ASSUME IInv, NEW w \in Workers, Replica(w) PROVE IInv'
  BY RowT, ClockT, TickT, BatchT, OtherT, StageStep, LeaseStep, HolderStep, CopyStep,
     BudgetStep, OutcomeStep, VerdictStep DEF IInv, TypeOK

--------------------------------------------------------------------------------
(* Applications, administrators and time. *)

(* Recording an event and ending its transaction preserve the inductive invariant. *)
LEMMA RecordStep ==
  ASSUME IInv, NEW e \in Events,
         Record(e) \/ \E end \in {"committed", "rolled_back"} : EndTxn(e, end)
  PROVE  IInv'
<1>1. UNCHANGED <<rows, clock, enabled, timer, tick, claimed, retries, faults, history>>
  BY DEF Record, EndTxn
<1>2. OutboxTypes'
  BY DEF Record, EndTxn, IInv, TypeOK, OutboxTypes, TxnState
<1>3. \A d \in Deliveries : Visible(d) => Visible(d)'
  BY DEF Record, EndTxn, IInv, TypeOK, OutboxTypes, Visible
<1>4. QED
  BY <1>1, <1>2, <1>3 DEF IInv, TypeOK, RowTypes, ClockTypes, TickTypes, BatchTypes, OtherTypes,
     StageInv, Working, LeaseInv, OneHolder, CopyIsCurrent, Holds, AttemptBudget, OutcomeInv,
     VerdictJustified

(* Admin retry and ignore preserve the inductive invariant. *)
LEMMA AdminStep ==
  ASSUME IInv, NEW d \in Deliveries, RetryDelivery(d) \/ IgnoreDelivery(d)
  PROVE  IInv'
<1>0. status[d] = "DEAD_LETTER" /\ lockedBy[d] = 0 /\ Visible(d)
  BY DEF RetryDelivery, IgnoreDelivery, IInv, OneHolder
<1>1. /\ UNCHANGED <<outbox, attempts, clock, enabled, timer, tick, claimed, faults, history>>
      /\ lockedBy' = lockedBy
  BY <1>0 DEF RetryDelivery, IgnoreDelivery, IInv, TypeOK, RowTypes
<1>2. /\ status' \in [Deliveries -> Status] /\ backoff' \in [Deliveries -> {"due", "waiting"}]
      /\ retries' \in [Deliveries -> Nat]
  BY DEF RetryDelivery, IgnoreDelivery, IInv, TypeOK, RowTypes, OtherTypes, Status
<1>3. \A f \in Deliveries : \/ status'[f] = status[f] /\ retries'[f] = retries[f]
                            \/ f = d /\ status'[f] = "IGNORED" /\ retries'[f] = retries[f]
                            \/ f = d /\ status'[f] = "PENDING" /\ retries'[f] = retries[f] + 1
  BY DEF RetryDelivery, IgnoreDelivery, IInv, TypeOK, RowTypes, OtherTypes
<1>4. TypeOK'
  BY <1>1, <1>2 DEF IInv, TypeOK, OutboxTypes, RowTypes, ClockTypes, TickTypes, BatchTypes,
     OtherTypes
<1>5. StageInv' /\ LeaseInv' /\ OutcomeInv'
  BY <1>1 DEF IInv, StageInv, Working, LeaseInv, OutcomeInv
<1>6. OneHolder'
  BY <1>0, <1>1, <1>3 DEF IInv, OneHolder
<1>7. CopyIsCurrent'
  BY <1>1, <1>3 DEF IInv, TypeOK, BatchTypes, CopyIsCurrent, Holds
<1>8. AttemptBudget'
  <2>1. \A f \in Deliveries : attempts[f] \in Nat /\ retries[f] \in Nat
    BY DEF IInv, TypeOK, RowTypes, OtherTypes
  <2>2. QED BY <1>0, <1>1, <1>3, <2>1 DEF IInv, AttemptBudget
<1>9. VerdictJustified'
  BY <1>0, <1>1, <1>3 DEF IInv, VerdictJustified, Visible
<1>10. QED BY <1>4, <1>5, <1>6, <1>7, <1>8, <1>9 DEF IInv

(* Passing time and toggled bindings preserve the inductive invariant. *)
LEMMA EnvironmentStep ==
  ASSUME IInv, Time \/ \E e \in Events : ToggleBinding(e)
  PROVE  IInv'
<1>1. /\ UNCHANGED <<outbox, status, attempts, lockedBy, nextLease, timer, tick, claimed, retries,
                     faults, history>>
      /\ backoff' \in [Deliveries -> {"due", "waiting"}] /\ enabled' \subseteq Bound
      /\ expired' \in Nat /\ expired' < nextLease /\ expired <= expired'
  BY DEF Time, LeaseExpires, BackoffElapses, ToggleBinding, IInv, TypeOK, RowTypes, OtherTypes,
         ClockTypes, LeaseInv
<1>2. TypeOK'
  BY <1>1 DEF IInv, TypeOK, OutboxTypes, RowTypes, ClockTypes, TickTypes, BatchTypes, OtherTypes
<1>3. LeaseInv'
  <2>1. \A w \in Workers : staleBefore[w] \in Nat /\ staleBefore[w] <= expired /\ expired \in Nat
    BY DEF IInv, TypeOK, ClockTypes, TickTypes, LeaseInv
  <2>2. QED BY <1>1, <2>1 DEF IInv, LeaseInv
<1>4. QED
  BY <1>1, <1>2, <1>3 DEF IInv, StageInv, Working, OneHolder, CopyIsCurrent, Holds,
     AttemptBudget, OutcomeInv, VerdictJustified, Visible

--------------------------------------------------------------------------------
(* The theorems. *)

(* The inductive invariant holds initially. *)
LEMMA InitIInv == Init => IInv
<1> SUFFICES ASSUME Init PROVE IInv OBVIOUS
<1>1. TypeOK
  BY DEF Init, TypeOK, OutboxTypes, RowTypes, ClockTypes, TickTypes, BatchTypes, OtherTypes,
     TxnState, Status, Stage, Outcome
<1>2. StageInv /\ LeaseInv /\ OneHolder /\ CopyIsCurrent
  BY DEF Init, StageInv, Working, LeaseInv, OneHolder, CopyIsCurrent
<1>3. AttemptBudget /\ OutcomeInv /\ VerdictJustified
  BY DEF Init, AttemptBudget, OutcomeInv, VerdictJustified
<1>4. QED BY <1>1, <1>2, <1>3 DEF IInv

(* Every step preserves the inductive invariant. *)
LEMMA StepIInv == IInv /\ [Next]_vars => IInv'
<1> SUFFICES ASSUME IInv, [Next]_vars PROVE IInv' OBVIOUS
<1>1. CASE UNCHANGED vars
  BY <1>1 DEF vars, IInv, TypeOK, OutboxTypes, RowTypes, ClockTypes, TickTypes, BatchTypes,
     OtherTypes, StageInv, Working, LeaseInv, OneHolder, CopyIsCurrent, Holds, AttemptBudget,
     OutcomeInv, VerdictJustified, Visible
<1>2. QED
  BY <1>1, ReplicaStep, RecordStep, AdminStep, EnvironmentStep DEF Next, Application

(* Every part of the inductive invariant holds in every reachable state. *)
THEOREM Invariance == Spec => []IInv
  BY InitIInv, StepIInv, PTL DEF Spec

(* Type correctness. *)
THEOREM TypeCorrect == Spec => []TypeOK
  BY Invariance, PTL DEF IInv

(* completeDelivery's lease guard is enough: leases tell replicas apart. *)
THEOREM LeaseSafety == Spec => []OneHolder
  BY Invariance, PTL DEF IInv

(* Attempts never exceed what maxAttempts and the admin retries allow. *)
THEOREM Budget == Spec => []AttemptBudget
  BY Invariance, PTL DEF IInv

(* PROCESSED and DEAD_LETTER have their cause; uncommitted rows are untouched. *)
THEOREM Verdicts == Spec => []VerdictJustified
  BY Invariance, PTL DEF IInv

(* A row whose lease is not stale loses it only to the replica completing it. *)
LEMMA OnlyHolderStep ==
  ASSUME IInv, [Next]_vars, NEW d \in Deliveries,
         lockedBy[d] > expired, lockedBy'[d] # lockedBy[d]
  PROVE  \E w \in Workers : lease[w] = lockedBy[d] /\ cur[w] = d /\ pc[w] = "complete"
<1>0. lockedBy[d] # 0 /\ status[d] = "PROCESSING"
  BY DEF IInv, TypeOK, RowTypes, ClockTypes, OneHolder
<1>1. PICK w \in Workers : Replica(w)
  <2>1. ~UNCHANGED vars
    BY DEF vars
  <2>2. ASSUME NEW e \in Events,
               Record(e) \/ ToggleBinding(e)
                 \/ \E end \in {"committed", "rolled_back"} : EndTxn(e, end)
        PROVE  FALSE
    BY <2>2 DEF Record, ToggleBinding, EndTxn
  <2>3. ASSUME NEW f \in Deliveries, RetryDelivery(f) \/ IgnoreDelivery(f) PROVE FALSE
    BY <1>0, <2>3 DEF RetryDelivery, IgnoreDelivery, IInv, TypeOK, RowTypes
  <2>4. ~Time
    BY DEF Time, LeaseExpires, BackoffElapses
  <2>5. QED BY <2>1, <2>2, <2>3, <2>4 DEF Next, Application
<1>2. ASSUME NEW k \in Stmt, NEW a \in Answer, Reclaim(w, k, a) PROVE FALSE
  <2>1. d \in Reclaimable(k, staleBefore[w])
    BY <1>2 DEF Reclaim, Unlock, IInv, TypeOK, RowTypes
  <2>2. lockedBy[d] <= staleBefore[w]
    BY <2>1 DEF Reclaimable, Abandoned
  <2>3. staleBefore[w] <= expired /\ staleBefore[w] \in Nat /\ expired \in Nat /\ lockedBy[d] \in Nat
    BY DEF IInv, LeaseInv, TypeOK, TickTypes, ClockTypes, RowTypes
  <2>4. QED BY <2>2, <2>3
<1>3. ASSUME NEW S \in SUBSET Deliveries, NEW a \in Answer, Claim(w, S, a) PROVE FALSE
  BY <1>0, <1>3 DEF Claim, Claimable, IsBatch, Due, IInv, TypeOK, RowTypes
<1>4. ASSUME NEW a \in Answer, Complete(w, a)
      PROVE  lease[w] = lockedBy[d] /\ cur[w] = d /\ pc[w] = "complete"
  BY <1>4 DEF Complete, Holds, IInv, TypeOK, RowTypes
<1>5. QED BY <1>1, <1>2, <1>3, <1>4, RowWriters

(* Before its lease is stale, only the replica that claimed a row ends it. *)
THEOREM HolderEnds == Spec => OnlyHolderEnds
<1> DEFINE A == \A d \in Deliveries :
                  lockedBy[d] > expired /\ lockedBy'[d] # lockedBy[d]
                  => \E w \in Workers : lease[w] = lockedBy[d] /\ cur[w] = d /\ pc[w] = "complete"
<1>1. IInv /\ [Next]_vars => [A]_vars
  BY OnlyHolderStep
<1>2. QED
  BY <1>1, Invariance, PTL DEF Spec, OnlyHolderEnds

(* completeDelivery reads the copy it claimed, and still counts from the row. *)
THEOREM CopyTheorem == Spec => []CopyIsCurrent
  BY Invariance, PTL DEF IInv

--------------------------------------------------------------------------------
(* Handlers that run at the same time. *)

(* Until its lease is stale, a replica's row stays under it, except the row whose
   completion is being written: that one may be settled while the answer was lost. *)
Kept ==
    \A w \in Workers, d \in Deliveries :
        d \in batch[w] /\ lease[w] > expired
        => lockedBy[d] = lease[w] \/ (pc[w] = "complete" /\ cur[w] = d)

(* A replica that is writing a completion goes on with the same row, or gives its batch
   or the row up. *)
LEMMA CompletingStays ==
  ASSUME IInv, NEW w \in Workers, Replica(w), NEW v \in Workers, pc[v] = "complete",
         lease'[v] = lease[v], batch'[v] = batch[v]
  PROVE  pc'[v] = "complete" /\ cur'[v] = cur[v]
<1>0. lease[v] # 0 /\ cur[v] \in batch[v] BY DEF IInv, StageInv, Working
<1> USE DEF IInv, TypeOK, TickTypes, BatchTypes
<1>1. CASE Crash(w) \/ EndTick(w) \/ Restart(w) \/ ClaimNothing(w) \/ Returns(w)
  BY <1>0, <1>1 DEF Crash, EndTick, Restart, ClaimNothing, Returns, HandlerReturns, DropBatch
<1>2. CASE Start(w) \/ Stop(w) \/ Tick(w)
  BY <1>2 DEF Start, Stop, Tick, BeginTick
<1>3. ASSUME NEW k \in Stmt, NEW a \in Answer, Reclaim(w, k, a)
      PROVE  pc'[v] = "complete" /\ cur'[v] = cur[v]
  BY <1>3 DEF Reclaim
<1>4. ASSUME NEW S \in SUBSET Deliveries, NEW a \in Answer, Claim(w, S, a)
      PROVE  pc'[v] = "complete" /\ cur'[v] = cur[v]
  BY <1>4 DEF Claim
<1>5. ASSUME NEW d \in Deliveries, Taken(w, d)
      PROVE  pc'[v] = "complete" /\ cur'[v] = cur[v]
  BY <1>5, TakenIsTake DEF Take
<1>6. ASSUME NEW a \in Answer, Complete(w, a)
      PROVE  pc'[v] = "complete" /\ cur'[v] = cur[v]
  <2>1. CASE v # w BY <1>6, <2>1 DEF Complete, DropBatch
  <2>2. CASE v = w BY <1>0, <1>6, <2>2 DEF Complete, DropBatch
  <2>3. QED BY <2>1, <2>2
<1>7. QED BY <1>1, <1>2, <1>3, <1>4, <1>5, <1>6 DEF Replica, Taken, Returns

(* Every step keeps the rows of a lease that is not stale under it. *)
LEMMA KeptStep ==
  ASSUME IInv, Kept, [Next]_vars PROVE Kept'
<1> SUFFICES ASSUME NEW v \in Workers, NEW d \in Deliveries,
                    d \in batch'[v], lease'[v] > expired', lockedBy'[d] # lease'[v]
             PROVE  pc'[v] = "complete" /\ cur'[v] = d
  BY DEF Kept
<1>0. /\ \A w \in Workers : lease[w] \in Nat
      /\ lockedBy[d] \in Nat /\ expired \in Nat /\ nextLease \in Nat
  BY DEF IInv, TypeOK, BatchTypes, RowTypes, ClockTypes
<1>1. ASSUME d \in batch[v], lease[v] > expired, lease'[v] = lease[v]
      PROVE  pc[v] = "complete" /\ cur[v] = d
  <2>1. CASE lockedBy[d] # lease[v] BY <1>1, <2>1 DEF Kept
  <2>2. CASE lockedBy[d] = lease[v]
    <3>1. PICK w \in Workers : lease[w] = lockedBy[d] /\ cur[w] = d /\ pc[w] = "complete"
      BY <1>1, <2>2, OnlyHolderStep
    <3>2. w = v BY <1>0, <1>1, <2>2, <3>1 DEF IInv, OneHolder
    <3>3. QED BY <3>1, <3>2
  <2>3. QED BY <2>1, <2>2
<1>2. ASSUME NEW w \in Workers, Replica(w) PROVE pc'[v] = "complete" /\ cur'[v] = d
  <2>1. expired' = expired
    BY <1>2 DEF Replica, Start, Stop, Tick, Crash, Restart, ClaimNothing, NoHandler,
                BindingDisabled, BindingLookupFails, StartHandler, Take, HandlerReturns, EndTick,
                Reclaim, Claim, Complete
  <2>2. CASE lease'[v] = lease[v] /\ batch'[v] = batch[v]
    BY <1>1, <1>2, <2>1, <2>2, CompletingStays
  <2>3. CASE lease'[v] = lease[v] /\ batch'[v] = batch[v] \ {cur[v]}
    BY <1>1, <2>1, <2>3
  <2>4. QED BY <1>2, <2>2, <2>3, BatchStep
<1>3. CASE UNCHANGED vars \/ Application \/ Time
  <2>1. UNCHANGED <<pc, lease, batch, cur>> /\ (expired' = expired \/ expired' = expired + 1)
    BY <1>3 DEF vars, Application, Time, Record, ToggleBinding, EndTxn, RetryDelivery,
                IgnoreDelivery, LeaseExpires, BackoffElapses
  <2>2. lease[v] > expired BY <1>0, <2>1
  <2>3. QED BY <1>1, <2>1, <2>2
<1>4. QED BY <1>2, <1>3 DEF Next

(* claimDueDeliveries and staleLockMs: two replicas are in the handler of one delivery
   only after the lease of one of them has gone stale. *)
THEOREM ParallelTheorem == Spec => []ParallelOnlyWhenStale
<1>1. Init => Kept BY DEF Init, Kept
<1>2. IInv /\ Kept => ParallelOnlyWhenStale
  <2> SUFFICES ASSUME IInv, Kept, NEW w \in Workers, NEW v \in Workers, w # v,
                      pc[w] = "handling", pc[v] = "handling", cur[w] = cur[v],
                      lease[w] > expired, lease[v] > expired
               PROVE  FALSE
    BY DEF ParallelOnlyWhenStale, IInv, TypeOK, BatchTypes, ClockTypes
  <2>1. cur[w] \in batch[w] /\ cur[w] \in batch[v] /\ cur[w] \in Deliveries
    BY DEF IInv, StageInv, TypeOK, BatchTypes
  <2>2. lease[w] # 0 /\ lease[w] = lockedBy[cur[w]] /\ lease[v] = lockedBy[cur[w]]
    BY <2>1 DEF Kept, IInv, StageInv, Working
  <2>3. QED BY <2>2 DEF IInv, OneHolder
<1>3. IInv /\ Kept /\ [Next]_vars => Kept' BY KeptStep
<1>4. QED BY <1>1, <1>2, <1>3, Invariance, PTL DEF Spec

--------------------------------------------------------------------------------
(* Refinement: every step is a step of OutboxLedger, or leaves it alone. *)

(* A reclaim statement abandons the stale rows of its half of the attempts range. *)
LEMMA ReclaimAbandons ==
  ASSUME IInv, NEW w \in Workers, NEW k \in Stmt, NEW a \in Answer, Reclaim(w, k, a)
  PROVE  [Ledger!Next]_(Ledger!vars)
<1> DEFINE R == IF Applies(a) THEN Reclaimable(k, staleBefore[w]) ELSE {}
<1>1. R \in SUBSET Deliveries
  BY DEF Reclaimable
<1>2. \A d \in R : /\ status[d] = "PROCESSING" /\ lockedBy[d] <= expired
                   /\ (k = "dead_letter") <=> (attempts[d] + 1 >= MaxAttempts)
  <2>1. /\ staleBefore[w] <= expired /\ staleBefore[w] \in Nat /\ expired \in Nat
        /\ \A d \in Deliveries : lockedBy[d] \in Nat /\ attempts[d] \in Nat
    BY DEF IInv, LeaseInv, TypeOK, TickTypes, ClockTypes, RowTypes
  <2>2. QED BY <2>1 DEF Reclaimable, Abandoned
<1>3. /\ status' = [d \in Deliveries |->
              IF d \in R THEN IF k = "dead_letter" THEN "DEAD_LETTER" ELSE "PENDING" ELSE status[d]]
      /\ attempts' = [d \in Deliveries |-> attempts[d] + IF d \in R THEN 1 ELSE 0]
      /\ lockedBy' = [d \in Deliveries |-> IF d \in R THEN 0 ELSE lockedBy[d]]
      /\ UNCHANGED <<txn, nextLease, expired>>
  BY DEF Reclaim, Unlock
<1>4. status' = [d \in Deliveries |-> IF d \in R THEN Ledger!AfterFailure(d) ELSE status[d]]
  BY <1>1, <1>2, <1>3 DEF Ledger!AfterFailure
<1>5. Ledger!Abandon(R)
  BY <1>2, <1>3, <1>4 DEF Ledger!Abandon, Ledger!Fail, Visible
<1>6. QED BY <1>1, <1>5 DEF Ledger!Next

(* A claim takes published pending rows, or nothing. *)
LEMMA ClaimClaims ==
  ASSUME IInv, NEW w \in Workers, NEW S \in SUBSET Deliveries, NEW a \in Answer, Claim(w, S, a)
  PROVE  [Ledger!Next]_(Ledger!vars)
<1>1. \A d \in S : Visible(d) /\ status[d] = "PENDING"
  BY DEF Claim, Claimable, IsBatch, Due
<1>2. CASE Applies(a)
  <2>1. Ledger!Claim(S)
    BY <1>1, <1>2 DEF Claim, LeaseId, Ledger!Claim, Visible
  <2>2. QED BY <2>1 DEF Ledger!Next
<1>3. CASE ~Applies(a)
  BY <1>3 DEF Claim, Ledger!vars, Visible
<1>4. QED BY <1>2, <1>3

(* A completion settles the row, puts it back, or fails it once, or changes nothing. *)
LEMMA CompleteFinishes ==
  ASSUME IInv, NEW w \in Workers, NEW a \in Answer, Complete(w, a)
  PROVE  [Ledger!Next]_(Ledger!vars)
<1> DEFINE d == cur[w]
<1>0. UNCHANGED <<txn, nextLease, expired>>
  BY DEF Complete
<1>1. CASE ~(Applies(a) /\ Holds(w, d))
  BY <1>0, <1>1 DEF Complete, Ledger!vars, Visible
<1>2. CASE Applies(a) /\ Holds(w, d)
  <2>1. /\ status' = [status EXCEPT ![d] = CompletionStatus(w)]
        /\ attempts' = [attempts EXCEPT ![d] = NextAttempts(w)]
        /\ lockedBy' = [lockedBy EXCEPT ![d] = 0]
    BY <1>2 DEF Complete
  <2>2. /\ status[d] = "PROCESSING" /\ d \in batch[w] /\ d \in Deliveries
        /\ outcome[w] \in Outcome \ {"none"}
    BY <1>2 DEF Complete, Holds, IInv, StageInv, OutcomeInv, TypeOK, BatchTypes
  <2>3. copy[w][d] = attempts[d]
    BY <1>2, <2>2 DEF IInv, CopyIsCurrent
  <2>4. /\ status \in [Deliveries -> Status] /\ attempts \in [Deliveries -> Nat]
        /\ lockedBy \in [Deliveries -> Nat]
    BY DEF IInv, TypeOK, RowTypes
  <2>5. CASE outcome[w] = "retry"
    <3>1. NextAttempts(w) = attempts[d] + 1 /\ CompletionStatus(w) = Ledger!AfterFailure(d)
      BY <2>3, <2>5 DEF NextAttempts, CompletionStatus, Exhausted, Ledger!AfterFailure
    <3>2. /\ status' = [f \in Deliveries |-> IF f \in {d} THEN Ledger!AfterFailure(f) ELSE status[f]]
          /\ attempts' = [f \in Deliveries |-> attempts[f] + IF f \in {d} THEN 1 ELSE 0]
          /\ lockedBy' = [f \in Deliveries |-> IF f \in {d} THEN 0 ELSE lockedBy[f]]
      <4>1. status' = [f \in Deliveries |-> IF f \in {d} THEN Ledger!AfterFailure(f) ELSE status[f]]
        BY <2>1, <2>4, <3>1
      <4>2. attempts' = [f \in Deliveries |-> attempts[f] + IF f \in {d} THEN 1 ELSE 0]
        <5>1. attempts' = [f \in Deliveries |-> IF f = d THEN attempts[d] + 1 ELSE attempts[f]]
          BY <2>1, <2>4, <3>1
        <5>2. \A f \in Deliveries : attempts[f] + 0 = attempts[f]
          BY <2>4
        <5>3. QED BY <5>1, <5>2
      <4>3. lockedBy' = [f \in Deliveries |-> IF f \in {d} THEN 0 ELSE lockedBy[f]]
        BY <2>1, <2>4
      <4>4. QED BY <4>1, <4>2, <4>3
    <3>3. Ledger!Fail({d})
      BY <1>0, <2>2, <3>2 DEF Ledger!Fail, Visible
    <3>4. QED BY <2>2, <3>3 DEF Ledger!Next
  <2>6. CASE outcome[w] # "retry"
    <3>1. CompletionStatus(w) \in {"PROCESSED", "IGNORED", "DEAD_LETTER", "PENDING"}
      BY DEF CompletionStatus
    <3>2. attempts' = attempts
      BY <2>1, <2>3, <2>4, <2>6 DEF NextAttempts
    <3>3. Ledger!Finish(d, CompletionStatus(w))
      BY <1>0, <2>1, <2>2, <3>2 DEF Ledger!Finish, Visible
    <3>4. QED BY <2>2, <3>1, <3>3 DEF Ledger!Next
  <2>7. QED BY <2>5, <2>6
<1>3. QED BY <1>1, <1>2

(* Every step of a replica maps to a ledger step or a stutter. *)
LEMMA ReplicaLedger ==
  ASSUME IInv, NEW w \in Workers, Replica(w)
  PROVE  [Ledger!Next]_(Ledger!vars)
<1>1. CASE UNCHANGED rows
  <2>1. UNCHANGED <<txn, expired>>
    BY DEF Replica, Start, Stop, Tick, Crash, Restart, ClaimNothing, NoHandler, BindingDisabled,
       BindingLookupFails, StartHandler, Take, HandlerReturns, EndTick, Reclaim, Claim, Complete
  <2>2. UNCHANGED nextLease \/ \E S \in SUBSET Deliveries, a \in Answer : Claim(w, S, a)
    BY DEF Replica, Start, Stop, Tick, Crash, Restart, ClaimNothing, NoHandler, BindingDisabled,
       BindingLookupFails, StartHandler, Take, HandlerReturns, EndTick, Reclaim, Complete
  <2>3. CASE UNCHANGED nextLease BY <1>1, <2>1, <2>3 DEF Ledger!vars, Visible
  <2>4. QED BY <2>2, <2>3, ClaimClaims
<1>2. QED
  BY <1>1, RowWriters, ReclaimAbandons, ClaimClaims, CompleteFinishes

(* So does every step of applications, administrators and time. *)
LEMMA OutsideLedger ==
  ASSUME IInv, Application \/ Time
  PROVE  [Ledger!Next]_(Ledger!vars)
<1>1. ASSUME NEW e \in Events, Record(e) \/ ToggleBinding(e)
      PROVE  [Ledger!Next]_(Ledger!vars)
  <2>1. \A d \in Deliveries : Visible(d)' <=> Visible(d)
    BY <1>1 DEF Record, ToggleBinding, Visible, IInv, TypeOK, OutboxTypes
  <2>2. UNCHANGED <<status, attempts, lockedBy, nextLease, expired>>
    BY <1>1 DEF Record, ToggleBinding
  <2>3. QED BY <2>1, <2>2 DEF Ledger!vars
<1>2. ASSUME NEW e \in Events, NEW end \in {"committed", "rolled_back"}, EndTxn(e, end)
      PROVE  [Ledger!Next]_(Ledger!vars)
  <2> DEFINE S == {d \in Deliveries : EventOf[d] = e /\ end = "committed"}
  <2>1. {d \in Deliveries : Visible(d)}' = {d \in Deliveries : Visible(d)} \cup S
    BY <1>2 DEF EndTxn, Visible, IInv, TypeOK, OutboxTypes
  <2>2. UNCHANGED <<status, attempts, lockedBy, nextLease, expired>>
    BY <1>2 DEF EndTxn
  <2>3. Ledger!Publish(S)
    BY <2>1, <2>2 DEF Ledger!Publish
  <2>4. QED BY <2>3 DEF Ledger!Next
<1>3. ASSUME NEW d \in Deliveries, RetryDelivery(d) \/ IgnoreDelivery(d)
      PROVE  [Ledger!Next]_(Ledger!vars)
  <2>1. lockedBy' = lockedBy
    BY <1>3 DEF RetryDelivery, IgnoreDelivery, IInv, TypeOK, RowTypes, OneHolder
  <2>2. \E s \in {"PENDING", "IGNORED"} : Ledger!Decide(d, s)
    BY <1>3, <2>1 DEF RetryDelivery, IgnoreDelivery, Ledger!Decide, Visible
  <2>3. QED BY <2>2 DEF Ledger!Next
<1>4. CASE Time
  <2>1. Ledger!Expire \/ UNCHANGED <<txn, status, attempts, lockedBy, nextLease, expired>>
    BY <1>4 DEF Time, LeaseExpires, BackoffElapses, Ledger!Expire, Visible
  <2>2. QED BY <2>1 DEF Ledger!Next, Ledger!vars, Visible
<1>5. QED BY <1>1, <1>2, <1>3, <1>4 DEF Application

(* However replicas interleave, crash or lose answers, the delivery rows move as the
   abstract ledger allows: one attempt per failure, decisions final, leases fresh. *)
THEOREM Refinement == Spec => LedgerSpec
<1>1. Init => Ledger!Init
  BY DEF Init, Ledger!Init, Visible
<1>2. IInv /\ [Next]_vars => [Ledger!Next]_(Ledger!vars)
  <2>1. CASE UNCHANGED vars
    BY <2>1 DEF vars, Ledger!vars, Visible
  <2>2. QED BY <2>1, ReplicaLedger, OutsideLedger DEF Next
<1>3. QED
  BY <1>1, <1>2, Invariance, PTL DEF Spec, LedgerSpec, Ledger!Spec
================================================================================
