------------------------- MODULE DomainEventDispatcher -------------------------
(***************************************************************************)
(* The transactional outbox of @appspine/domain-events: events are         *)
(* recorded in a business transaction together with one delivery row per   *)
(* subscribed handler, and several replicas of the dispatcher service      *)
(* claim, execute and complete those rows through the database.            *)
(*                                                                         *)
(* The database is the shared state; one SQL statement (or interactive     *)
(* transaction) is one step.  A replica's in-memory state is per worker    *)
(* and lost when it crashes.  Wall-clock time is kept only as far as the   *)
(* code looks at it: leases are numbered in the order their lockedAt was   *)
(* taken, and "expired" is the newest lease older than staleLockMs.        *)
(***************************************************************************)
EXTENDS Naturals, FiniteSets

CONSTANTS
    Events,      \* domain events an application may record
    Deliveries,  \* outbox rows, unique per event and handler key
    EventOf,     \* the event of a delivery
    HandlerOf,   \* the handler key of a delivery
    Workers,     \* replicas running DomainEventDispatcherService
    Registry,    \* handler keys DomainEventRegistry resolves, per replica
    Bound,       \* events carrying an integrationBindingId
    BatchSize, MaxAttempts,
    NoDelivery,
    MaxLeases,   \* bound: claims that take rows
    MaxRetries,  \* bound: admin retries of one delivery
    MaxFaults    \* bound: crashes, shutdowns and failed database calls

ASSUME OutboxAssumption ==
    /\ EventOf \in [Deliveries -> Events]
    /\ Bound \subseteq Events
    /\ NoDelivery \notin Deliveries
    /\ BatchSize \in Nat \ {0}
    /\ MaxAttempts \in Nat \ {0}
    /\ MaxLeases \in Nat /\ MaxRetries \in Nat /\ MaxFaults \in Nat

VARIABLES
    txn, seq, nextSeq,                     \* recording transactions, domain_events.seq
    status, attempts, lockedBy, backoff,   \* columns of domain_event_deliveries
    nextLease, expired,                    \* lease ids handed out; newest stale one
    enabled,                               \* bound events whose binding is enabled
    timer, pc, stmts, staleBefore,         \* a replica: interval timer, tick progress
    lease, batch, copy, cur, outcome,      \* ... its claimed rows and current delivery
    retries, faults,                       \* counters behind the bounds
    handled, fatal                         \* history: see HandlerReturns

outbox  == <<txn, seq, nextSeq>>
rows    == <<status, attempts, lockedBy, backoff>>
clock   == <<nextLease, expired>>
tick    == <<pc, stmts, staleBefore>>
claimed == <<lease, batch, copy, cur, outcome>>
history == <<handled, fatal>>
vars    == <<outbox, rows, clock, enabled, timer, tick, claimed, retries, faults,
             history>>

--------------------------------------------------------------------------------
(* Types *)

Status   == {"PENDING", "PROCESSING", "PROCESSED", "DEAD_LETTER", "IGNORED"}
TxnState == {"none", "open", "committed", "rolled_back"}
Stage    == {"down", "idle", "reclaim", "claim", "process", "handling", "complete"}
Stmt     == {"dead_letter", "requeue"}     \* the two updateMany of reclaimStaleLocks
Outcome  == {"none", "processed", "ignored", "terminal", "retry", "no_handler",
             "disabled"}

OutboxTypes == txn \in [Events -> TxnState] /\ seq \in [Events -> Nat] /\ nextSeq \in Nat
RowTypes ==
    /\ status \in [Deliveries -> Status] /\ attempts \in [Deliveries -> Nat]
    /\ lockedBy \in [Deliveries -> Nat] /\ backoff \in [Deliveries -> {"due", "waiting"}]
ClockTypes == nextLease \in Nat /\ expired \in Nat
TickTypes ==
    /\ timer \in [Workers -> {"on", "off"}] /\ pc \in [Workers -> Stage]
    /\ stmts \in [Workers -> SUBSET Stmt] /\ staleBefore \in [Workers -> Nat]
BatchTypes ==
    /\ lease \in [Workers -> Nat] /\ batch \in [Workers -> SUBSET Deliveries]
    /\ copy \in [Workers -> [Deliveries -> Nat]]
    /\ cur \in [Workers -> Deliveries \cup {NoDelivery}]
    /\ outcome \in [Workers -> Outcome]
OtherTypes ==
    /\ enabled \subseteq Bound /\ retries \in [Deliveries -> Nat] /\ faults \in Nat
    /\ handled \subseteq Deliveries /\ fatal \subseteq Deliveries

TypeOK ==
    /\ OutboxTypes /\ RowTypes /\ ClockTypes /\ TickTypes /\ BatchTypes /\ OtherTypes

Visible(d) == txn[EventOf[d]] = "committed"
DueUncommitted(d) == status[d] = "PENDING" /\ backoff[d] = "due"    \* mutant: dirty read
Due(d)     == Visible(d) /\ status[d] = "PENDING" /\ backoff[d] = "due"
Settled(d) == status[d] \in {"PROCESSED", "DEAD_LETTER", "IGNORED"}

(* What a database call can do, as its caller sees it: succeed, fail without
   effect, or take effect while the caller gets an error (a lost answer). *)
Answer     == {"ok", "failed", "lost"}
Applies(a) == a # "failed"
Charge(a)  == IF a = "ok" THEN UNCHANGED faults
              ELSE faults < MaxFaults /\ faults' = faults + 1

Init ==
    /\ txn = [e \in Events |-> "none"] /\ seq = [e \in Events |-> 0] /\ nextSeq = 1
    /\ status = [d \in Deliveries |-> "PENDING"]
    /\ attempts = [d \in Deliveries |-> 0]
    /\ lockedBy = [d \in Deliveries |-> 0]
    /\ backoff = [d \in Deliveries |-> "due"]
    /\ nextLease = 1 /\ expired = 0 /\ enabled = Bound
    /\ timer = [w \in Workers |-> "off"] /\ pc = [w \in Workers |-> "idle"]
    /\ stmts = [w \in Workers |-> {}] /\ staleBefore = [w \in Workers |-> 0]
    /\ lease = [w \in Workers |-> 0] /\ batch = [w \in Workers |-> {}]
    /\ copy = [w \in Workers |-> [d \in Deliveries |-> 0]]
    /\ cur = [w \in Workers |-> NoDelivery] /\ outcome = [w \in Workers |-> "none"]
    /\ retries = [d \in Deliveries |-> 0] /\ faults = 0
    /\ handled = {} /\ fatal = {}

--------------------------------------------------------------------------------
(* DomainEventsService.record, inside the caller's transaction *)

Record(e) ==
    /\ txn[e] = "none"
    /\ txn' = [txn EXCEPT ![e] = "open"]
    /\ seq' = [seq EXCEPT ![e] = nextSeq]
    /\ nextSeq' = nextSeq + 1
    /\ UNCHANGED <<rows, clock, enabled, timer, tick, claimed, retries, faults, history>>

(* The caller's transaction ends; seq values were assigned at INSERT, so rows can
   become visible in another order. *)
EndTxn(e, end) ==
    /\ txn[e] = "open"
    /\ txn' = [txn EXCEPT ![e] = end]
    /\ UNCHANGED <<seq, nextSeq, rows, clock, enabled, timer, tick, claimed, retries,
                   faults, history>>

--------------------------------------------------------------------------------
(* start, stop, and the life of the process *)

BeginTick(w) ==
    /\ pc' = [pc EXCEPT ![w] = "reclaim"]
    /\ stmts' = [stmts EXCEPT ![w] = Stmt]
    /\ staleBefore' = [staleBefore EXCEPT ![w] = expired]

Start(w) ==
    /\ timer[w] = "off" /\ pc[w] # "down"
    /\ timer' = [timer EXCEPT ![w] = "on"]
    /\ IF pc[w] = "idle" THEN BeginTick(w) ELSE UNCHANGED tick
    /\ UNCHANGED <<outbox, rows, clock, enabled, claimed, retries, faults, history>>

Stop(w) ==
    /\ timer[w] = "on" /\ faults < MaxFaults
    /\ faults' = faults + 1
    /\ timer' = [timer EXCEPT ![w] = "off"]
    /\ UNCHANGED <<outbox, rows, clock, enabled, tick, claimed, retries, history>>

Tick(w) ==
    /\ timer[w] = "on" /\ pc[w] = "idle"
    /\ BeginTick(w)
    /\ UNCHANGED <<outbox, rows, clock, enabled, timer, claimed, retries, faults, history>>

DropBatch(w) ==
    /\ lease' = [lease EXCEPT ![w] = 0]
    /\ batch' = [batch EXCEPT ![w] = {}]
    /\ copy' = [copy EXCEPT ![w] = [d \in Deliveries |-> 0]]
    /\ cur' = [cur EXCEPT ![w] = NoDelivery]
    /\ outcome' = [outcome EXCEPT ![w] = "none"]

Crash(w) ==
    /\ pc[w] # "down" /\ faults < MaxFaults
    /\ faults' = faults + 1
    /\ pc' = [pc EXCEPT ![w] = "down"]
    /\ stmts' = [stmts EXCEPT ![w] = {}]
    /\ staleBefore' = [staleBefore EXCEPT ![w] = 0]
    /\ timer' = [timer EXCEPT ![w] = "off"]
    /\ DropBatch(w)
    /\ UNCHANGED <<outbox, rows, clock, enabled, retries, history>>

Restart(w) ==
    /\ pc[w] = "down"
    /\ pc' = [pc EXCEPT ![w] = "idle"]
    /\ UNCHANGED <<outbox, rows, clock, enabled, timer, stmts, staleBefore, claimed,
                   retries, faults, history>>

--------------------------------------------------------------------------------
(* reclaimStaleLocks *)

AbandonedAnyAge(d, before) == status[d] = "PROCESSING"    \* mutant: no lockedAt test
Abandoned(d, before) == status[d] = "PROCESSING" /\ lockedBy[d] <= before

ReclaimableWithGap(k, before) ==    \* mutant: gt and lt, nothing takes the border
    {d \in Deliveries : /\ Abandoned(d, before)
                        /\ IF k = "dead_letter" THEN attempts[d] > MaxAttempts - 1
                                                ELSE attempts[d] < MaxAttempts - 1}

Reclaimable(k, before) ==
    {d \in Deliveries : /\ Abandoned(d, before)
                        /\ (k = "dead_letter") <=> (attempts[d] >= MaxAttempts - 1)}

LockKept(R) == lockedBy    \* mutant: lockedBy not reset
Unlock(R) == [d \in Deliveries |-> IF d \in R THEN 0 ELSE lockedBy[d]]

(* One of the two updateMany statements ends.  The tick goes on to claim once both
   have; if one is rejected, Promise.all rejects, the tick ends and the other
   statement is left behind on its own. *)
Reclaim(w, k, a) ==
    /\ k \in stmts[w]
    /\ LET R == IF Applies(a) THEN Reclaimable(k, staleBefore[w]) ELSE {}
       IN  /\ status' = [d \in Deliveries |->
                 IF d \in R THEN IF k = "dead_letter" THEN "DEAD_LETTER" ELSE "PENDING"
                            ELSE status[d]]
           /\ attempts' = [d \in Deliveries |-> attempts[d] + IF d \in R THEN 1 ELSE 0]
           /\ lockedBy' = Unlock(R)
    /\ stmts' = [stmts EXCEPT ![w] = @ \ {k}]
    /\ staleBefore' = [staleBefore EXCEPT ![w] = IF stmts[w] = {k} THEN 0 ELSE @]
    /\ pc' = [pc EXCEPT ![w] = IF @ # "reclaim" THEN @
                               ELSE IF a # "ok" THEN "idle"
                               ELSE IF stmts[w] = {k} THEN "claim" ELSE @]
    /\ Charge(a)
    /\ UNCHANGED <<outbox, backoff, clock, enabled, timer, claimed, retries, history>>

--------------------------------------------------------------------------------
(* claimDueDeliveries *)

(* ORDER BY seq LIMIT batchSize, over the due rows not locked by another claim. *)
IsBatch(S, avail) ==
    /\ S \subseteq avail
    /\ Cardinality(S) <= BatchSize
    /\ S # avail => Cardinality(S) = BatchSize
    /\ \A d \in S, f \in avail \ S : seq[EventOf[d]] <= seq[EventOf[f]]

(* FOR UPDATE SKIP LOCKED: rows may be skipped while another replica is claiming. *)
Claimable(w, S) ==
    \E skipped \in SUBSET {d \in Deliveries : Due(d)} :
        /\ skipped # {} => \E v \in Workers \ {w} : pc[v] = "claim"
        /\ IsBatch(S, {d \in Deliveries : Due(d)} \ skipped)

LeaseIdOfProcess(w) == 1    \* mutant: hostname:pid alone, alike in every container
LeaseId(w) == nextLease     \* workerId:randomUUID(), one per claim

ClaimNothing(w) ==
    /\ pc[w] = "claim"
    /\ Claimable(w, {}) \/ nextLease > MaxLeases
    /\ pc' = [pc EXCEPT ![w] = "idle"]
    /\ UNCHANGED <<outbox, rows, clock, enabled, timer, stmts, staleBefore, claimed,
                   retries, faults, history>>

Claim(w, S, a) ==
    /\ pc[w] = "claim" /\ S # {} /\ nextLease <= MaxLeases
    /\ Claimable(w, S)
    /\ Charge(a)
    /\ IF Applies(a)
       THEN /\ status' = [d \in Deliveries |-> IF d \in S THEN "PROCESSING" ELSE status[d]]
            /\ lockedBy' = [d \in Deliveries |-> IF d \in S THEN LeaseId(w) ELSE lockedBy[d]]
            /\ nextLease' = nextLease + 1
       ELSE UNCHANGED <<status, lockedBy, nextLease>>
    /\ IF a = "ok"
       THEN /\ pc' = [pc EXCEPT ![w] = "process"]
            /\ lease' = [lease EXCEPT ![w] = LeaseId(w)]
            /\ batch' = [batch EXCEPT ![w] = S]
            /\ copy' = [copy EXCEPT ![w] =
                           [d \in Deliveries |-> IF d \in S THEN attempts[d] ELSE 0]]
       ELSE /\ pc' = [pc EXCEPT ![w] = "idle"]
            /\ UNCHANGED <<lease, batch, copy>>
    /\ UNCHANGED <<outbox, attempts, backoff, expired, enabled, timer, stmts, staleBefore,
                   cur, outcome, retries, history>>

--------------------------------------------------------------------------------
(* processDelivery *)

(* The batch is worked off in seq order. *)
IsNext(w, d) ==
    d \in batch[w] /\ \A f \in batch[w] : seq[EventOf[d]] <= seq[EventOf[f]]

Take(w, d, stage, o) ==
    /\ pc[w] = "process" /\ IsNext(w, d)
    /\ pc' = [pc EXCEPT ![w] = stage]
    /\ cur' = [cur EXCEPT ![w] = d]
    /\ outcome' = [outcome EXCEPT ![w] = o]
    /\ UNCHANGED <<outbox, rows, clock, enabled, timer, stmts, staleBefore, lease, batch,
                   copy, retries, faults, history>>

Resolved(w, d) == HandlerOf[d] \in Registry[w]
Disabled(d)    == EventOf[d] \in Bound \ enabled

NoHandler(w, d) ==
    /\ ~Resolved(w, d)
    /\ Take(w, d, "complete", "no_handler")

BindingDisabled(w, d) ==
    /\ Resolved(w, d) /\ Disabled(d)
    /\ Take(w, d, "complete", "disabled")

(* The app's bindingEnabled lookup rejects: caught like a handler error. *)
BindingLookupFails(w, d) ==
    /\ Resolved(w, d) /\ EventOf[d] \in Bound
    /\ Take(w, d, "complete", "retry")

StartHandler(w, d) ==
    /\ Resolved(w, d) /\ ~Disabled(d)
    /\ Take(w, d, "handling", "none")

(* handler.handle settles: normally, or with DomainEventIgnoredError,
   DomainEventTerminalError or any other error.  History: the deliveries whose
   handler ever finished, and those it ever declared terminal. *)
HandlerReturns(w, o) ==
    /\ pc[w] = "handling"
    /\ pc' = [pc EXCEPT ![w] = "complete"]
    /\ outcome' = [outcome EXCEPT ![w] = o]
    /\ handled' = IF o = "processed" THEN handled \cup {cur[w]} ELSE handled
    /\ fatal' = IF o = "terminal" THEN fatal \cup {cur[w]} ELSE fatal
    /\ UNCHANGED <<outbox, rows, clock, enabled, timer, stmts, staleBefore, lease, batch,
                   copy, cur, retries, faults>>

(* The columns each outcome writes; markFailed counts from the claimed copy. *)
NextAttemptsAlways(w) ==    \* mutant: a disabled binding costs an attempt too
    IF outcome[w] \in {"retry", "disabled"} THEN copy[w][cur[w]] + 1 ELSE copy[w][cur[w]]

NextAttempts(w) ==
    IF outcome[w] = "retry" THEN copy[w][cur[w]] + 1 ELSE copy[w][cur[w]]

ExhaustedLate(n) == n > MaxAttempts    \* mutant: off by one
Exhausted(n) == n >= MaxAttempts

CompletionStatusOfSpec(w) ==    \* mutant: the status names of specs/topics/domain-events.md
    CASE outcome[w] = "processed" -> "COMPLETED"
      [] outcome[w] \in {"ignored", "no_handler"} -> "IGNORED"
      [] OTHER -> IF Exhausted(NextAttempts(w)) THEN "FAILED" ELSE "PENDING"

CompletionStatus(w) ==
    CASE outcome[w] = "processed" -> "PROCESSED"
      [] outcome[w] \in {"ignored", "no_handler"} -> "IGNORED"
      [] outcome[w] = "terminal" -> "DEAD_LETTER"
      [] outcome[w] = "disabled" -> "PENDING"
      [] OTHER -> IF Exhausted(NextAttempts(w)) THEN "DEAD_LETTER" ELSE "PENDING"

CompletionBackoff(w) ==
    IF outcome[w] = "retry" /\ ~Exhausted(NextAttempts(w)) THEN "waiting"
    ELSE IF outcome[w] \in {"retry", "disabled"} THEN "due" ELSE backoff[cur[w]]

(* The WHERE of completeDelivery: still PROCESSING under the lease this replica took. *)
HoldsByStatus(w, d) == status[d] = "PROCESSING"    \* mutant: lease not compared
Holds(w, d) == status[d] = "PROCESSING" /\ lockedBy[d] = lease[w]

(* completeDelivery, and where its rejection leads: inside the try block it becomes
   one more failure to mark, anywhere else it ends the tick and the rest of the
   batch stays PROCESSING. *)
Complete(w, a) ==
    /\ pc[w] = "complete"
    /\ IF Applies(a) /\ Holds(w, cur[w])
       THEN /\ status' = [status EXCEPT ![cur[w]] = CompletionStatus(w)]
            /\ attempts' = [attempts EXCEPT ![cur[w]] = NextAttempts(w)]
            /\ backoff' = [backoff EXCEPT ![cur[w]] = CompletionBackoff(w)]
            /\ lockedBy' = [lockedBy EXCEPT ![cur[w]] = 0]
       ELSE UNCHANGED rows
    /\ \/ /\ a = "ok"
          /\ pc' = [pc EXCEPT ![w] = "process"]
          /\ batch' = [batch EXCEPT ![w] = @ \ {cur[w]}]
          /\ copy' = [copy EXCEPT ![w][cur[w]] = 0]
          /\ cur' = [cur EXCEPT ![w] = NoDelivery]
          /\ outcome' = [outcome EXCEPT ![w] = "none"]
          /\ UNCHANGED lease
       \/ /\ a # "ok" /\ outcome[w] \in {"processed", "disabled"}
          /\ outcome' = [outcome EXCEPT ![w] = "retry"]
          /\ UNCHANGED <<pc, lease, batch, copy, cur>>
       \/ /\ a # "ok" /\ outcome[w] \notin {"processed", "disabled"}
          /\ pc' = [pc EXCEPT ![w] = "idle"]
          /\ DropBatch(w)
    /\ Charge(a)
    /\ UNCHANGED <<outbox, clock, enabled, timer, stmts, staleBefore, retries, history>>

EndTick(w) ==
    /\ pc[w] = "process" /\ batch[w] = {}
    /\ pc' = [pc EXCEPT ![w] = "idle"]
    /\ DropBatch(w)
    /\ UNCHANGED <<outbox, rows, clock, enabled, timer, stmts, staleBefore, retries, faults,
                   history>>

--------------------------------------------------------------------------------
(* DomainEventsAdminService: both updates are guarded on DEAD_LETTER *)

RetryDelivery(d) ==
    /\ Visible(d) /\ status[d] = "DEAD_LETTER" /\ retries[d] < MaxRetries
    /\ status' = [status EXCEPT ![d] = "PENDING"]
    /\ backoff' = [backoff EXCEPT ![d] = "due"]
    /\ lockedBy' = [lockedBy EXCEPT ![d] = 0]
    /\ retries' = [retries EXCEPT ![d] = @ + 1]
    /\ UNCHANGED <<outbox, attempts, clock, enabled, timer, tick, claimed, faults, history>>

IgnoreDelivery(d) ==
    /\ Visible(d) /\ status[d] = "DEAD_LETTER"
    /\ status' = [status EXCEPT ![d] = "IGNORED"]
    /\ lockedBy' = [lockedBy EXCEPT ![d] = 0]
    /\ UNCHANGED <<outbox, attempts, backoff, clock, enabled, timer, tick, claimed, retries,
                   faults, history>>

--------------------------------------------------------------------------------
(* Time and the operator *)

LeaseExpires ==
    /\ expired < nextLease - 1
    /\ expired' = expired + 1
    /\ UNCHANGED <<outbox, rows, nextLease, enabled, timer, tick, claimed, retries, faults,
                   history>>

BackoffElapses(d) ==
    /\ backoff[d] = "waiting"
    /\ backoff' = [backoff EXCEPT ![d] = "due"]
    /\ UNCHANGED <<outbox, status, attempts, lockedBy, clock, enabled, timer, tick, claimed,
                   retries, faults, history>>

ToggleBinding(e) ==
    /\ e \in Bound
    /\ enabled' = IF e \in enabled THEN enabled \ {e} ELSE enabled \cup {e}
    /\ UNCHANGED <<outbox, rows, clock, timer, tick, claimed, retries, faults, history>>

--------------------------------------------------------------------------------
Replica(w) ==
    \/ Start(w) \/ Stop(w) \/ Tick(w) \/ Crash(w) \/ Restart(w)
    \/ \E k \in Stmt, a \in Answer : Reclaim(w, k, a)
    \/ ClaimNothing(w)
    \/ \E S \in SUBSET Deliveries, a \in Answer : Claim(w, S, a)
    \/ \E d \in Deliveries : NoHandler(w, d) \/ BindingDisabled(w, d)
                              \/ BindingLookupFails(w, d) \/ StartHandler(w, d)
    \/ \E o \in {"processed", "ignored", "terminal", "retry"} : HandlerReturns(w, o)
    \/ \E a \in Answer : Complete(w, a)
    \/ EndTick(w)

Application ==
    \/ \E e \in Events : Record(e) \/ ToggleBinding(e)
    \/ \E e \in Events, end \in {"committed", "rolled_back"} : EndTxn(e, end)
    \/ \E d \in Deliveries : RetryDelivery(d) \/ IgnoreDelivery(d)

Time == LeaseExpires \/ \E d \in Deliveries : BackoffElapses(d)

Next == (\E w \in Workers : Replica(w)) \/ Application \/ Time

Spec == Init /\ [][Next]_vars

(***************************************************************************)
(* Fairness.  The interval timer keeps a running replica going, the        *)
(* deployment restarts a dead one, handlers settle (the dispatcher has no  *)
(* timeout of its own), time passes, and rows skipped as locked are not    *)
(* skipped for ever: whoever holds the lock takes them.  Nothing forces    *)
(* crashes, shutdowns, administrators or failing calls.                    *)
(***************************************************************************)
Proceed(w) ==
    \/ Start(w) \/ Tick(w) \/ Restart(w) \/ ClaimNothing(w) \/ EndTick(w)
    \/ \E k \in Stmt, a \in Answer : Reclaim(w, k, a)
    \/ \E S \in SUBSET Deliveries, a \in Answer : Claim(w, S, a)
    \/ \E d \in Deliveries : NoHandler(w, d) \/ BindingDisabled(w, d) \/ StartHandler(w, d)
    \/ \E o \in {"processed", "ignored", "terminal", "retry"} : HandlerReturns(w, o)
    \/ \E a \in Answer : Complete(w, a)

Fairness ==
    /\ \A w \in Workers : WF_vars(Proceed(w))
    /\ SF_vars(\E w \in Workers, S \in SUBSET Deliveries : Claim(w, S, "ok"))
    /\ WF_vars(LeaseExpires)
    /\ \A d \in Deliveries : WF_vars(BackoffElapses(d))

FairSpec == Spec /\ Fairness

--------------------------------------------------------------------------------
(* Properties *)

(* completeDelivery's lease guard only protects a row if leases identify replicas:
   a row is under a lease exactly while it is PROCESSING, no two replicas work under
   the same lease, and a row under a replica's lease is still in that replica's
   batch, so its outcome is still to be written. *)
OneHolder ==
    /\ \A d \in Deliveries : (status[d] = "PROCESSING") <=> (lockedBy[d] # 0)
    /\ \A w, v \in Workers : lease[w] # 0 /\ lease[w] = lease[v] => w = v
    /\ \A w \in Workers, d \in Deliveries :
          lease[w] # 0 /\ lockedBy[d] = lease[w] => d \in batch[w]

(* A handler runs on two replicas at once for one delivery only after staleLockMs
   has passed since one of them claimed it: the batch shares a lock time, so this
   can be a row the slow replica had not even started when the other took it. *)
ParallelOnlyWhenStale ==
    \A w, v \in Workers :
        /\ w # v /\ pc[w] = "handling" /\ pc[v] = "handling" /\ cur[w] = cur[v]
        => lease[w] <= expired \/ lease[v] <= expired

(* markFailed computes from the row as it was claimed; whenever that write can still
   land, the copy is what the row says, so no attempt is lost or counted twice. *)
CopyIsCurrent ==
    \A w \in Workers : \A d \in batch[w] : Holds(w, d) => copy[w][d] = attempts[d]

(* "Attempts (including the one that reclaimed a stale lock) before a delivery is
   dead-lettered": an undecided row has attempts left; every admin retry, which
   keeps the count, allows one more and only one. *)
AttemptBudget ==
    \A d \in Deliveries :
        /\ attempts[d] <= MaxAttempts + retries[d]
        /\ status[d] \in {"PENDING", "PROCESSING"} => attempts[d] < MaxAttempts + retries[d]

(* A verdict has its cause: PROCESSED rows had a handler run to its end, dead letters
   used up their attempts or were declared terminal by a handler, and a row of an
   uncommitted or rolled-back transaction was never touched. *)
VerdictJustified ==
    \A d \in Deliveries :
        /\ status[d] = "PROCESSED" => d \in handled
        /\ status[d] = "DEAD_LETTER" => attempts[d] >= MaxAttempts \/ d \in fatal
        /\ ~Visible(d) => status[d] = "PENDING" /\ attempts[d] = 0

(* The facts the invariants above rest on: which stages hold a batch and a current
   delivery, that lease numbers in use were handed out, and that an outcome waiting
   to be written is one the handler produced. *)
Working(w) == pc[w] \in {"process", "handling", "complete"}

StageInv ==
    \A w \in Workers :
        /\ pc[w] \in {"handling", "complete"} => cur[w] \in batch[w]
        /\ Working(w) <=> lease[w] # 0
        /\ ~Working(w) => batch[w] = {}

LeaseInv ==
    /\ expired < nextLease
    /\ \A w \in Workers : lease[w] < nextLease /\ staleBefore[w] <= expired
    /\ \A d \in Deliveries : lockedBy[d] < nextLease

OutcomeInv ==
    \A w \in Workers :
        /\ pc[w] = "complete" => outcome[w] # "none"
        /\ pc[w] = "complete" /\ outcome[w] = "processed" => cur[w] \in handled
        /\ pc[w] = "complete" /\ outcome[w] = "terminal" => cur[w] \in fatal

(* The inductive invariant. *)
IInv == /\ TypeOK /\ StageInv /\ LeaseInv /\ OneHolder /\ CopyIsCurrent
        /\ AttemptBudget /\ OutcomeInv /\ VerdictJustified

(* Until its lease is stale, a row is taken from a replica by nobody: only the
   replica that claimed it ends its PROCESSING, with that row's outcome in hand. *)
OnlyHolderEnds ==
    [][\A d \in Deliveries :
          lockedBy[d] > expired /\ lockedBy'[d] # lockedBy[d]
          => \E w \in Workers : lease[w] = lockedBy[d] /\ cur[w] = d /\ pc[w] = "complete"]_vars

(* Every step of every replica, at any moment, is a legal step of the rows. *)
Ledger == INSTANCE OutboxLedger WITH published <- {d \in Deliveries : Visible(d)}
LedgerSpec == Ledger!Spec

(* Every delivery of a committed event is decided, over crashes, shutdowns, lost
   answers, stale leases and failing handlers. *)
EveryDeliverySettles == \A d \in Deliveries : Visible(d) ~> Settled(d)
================================================================================
