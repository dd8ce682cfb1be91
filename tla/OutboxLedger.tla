------------------------------ MODULE OutboxLedger ------------------------------
(***************************************************************************)
(* What the outbox promises about its delivery rows, whoever works on      *)
(* them: a row is handed out under one fresh lease at a time, every        *)
(* failure costs exactly one attempt of the row as it is now, a failure    *)
(* that uses up the attempts dead-letters it, PROCESSED and IGNORED are    *)
(* final, and only an administrator revives a dead letter.  There are no   *)
(* replicas, batches, stale copies or lost answers here.                   *)
(***************************************************************************)
EXTENDS Naturals

CONSTANTS Deliveries, MaxAttempts

VARIABLES published,   \* rows whose transaction committed
          status, attempts, lockedBy,
          nextLease, expired

vars == <<published, status, attempts, lockedBy, nextLease, expired>>

Init ==
    /\ published = {}
    /\ status = [d \in Deliveries |-> "PENDING"]
    /\ attempts = [d \in Deliveries |-> 0]
    /\ lockedBy = [d \in Deliveries |-> 0]
    /\ nextLease = 1 /\ expired = 0

Publish(S) ==
    /\ published' = published \cup S
    /\ UNCHANGED <<status, attempts, lockedBy, nextLease, expired>>

(* A claim takes published pending rows under a lease nobody had before. *)
Claim(S) ==
    /\ S \subseteq published /\ \A d \in S : status[d] = "PENDING"
    /\ status' = [d \in Deliveries |-> IF d \in S THEN "PROCESSING" ELSE status[d]]
    /\ lockedBy' = [d \in Deliveries |-> IF d \in S THEN nextLease ELSE lockedBy[d]]
    /\ nextLease' = nextLease + 1
    /\ UNCHANGED <<published, attempts, expired>>

(* A row under a lease is settled, or put back at no cost (binding disabled). *)
Finish(d, s) ==
    /\ status[d] = "PROCESSING"
    /\ status' = [status EXCEPT ![d] = s]
    /\ lockedBy' = [lockedBy EXCEPT ![d] = 0]
    /\ UNCHANGED <<published, attempts, nextLease, expired>>

AfterFailure(d) == IF attempts[d] + 1 >= MaxAttempts THEN "DEAD_LETTER" ELSE "PENDING"

(* The rows of S, all under a lease, fail once each. *)
Fail(S) ==
    /\ \A d \in S : status[d] = "PROCESSING"
    /\ status' = [d \in Deliveries |-> IF d \in S THEN AfterFailure(d) ELSE status[d]]
    /\ attempts' = [d \in Deliveries |-> attempts[d] + IF d \in S THEN 1 ELSE 0]
    /\ lockedBy' = [d \in Deliveries |-> IF d \in S THEN 0 ELSE lockedBy[d]]
    /\ UNCHANGED <<published, nextLease, expired>>

(* Several rows at once fail only because their lease went stale. *)
Abandon(S) == (\A d \in S : lockedBy[d] <= expired) /\ Fail(S)

Decide(d, s) ==
    /\ status[d] = "DEAD_LETTER"
    /\ status' = [status EXCEPT ![d] = s]
    /\ UNCHANGED <<published, attempts, lockedBy, nextLease, expired>>

Expire ==
    /\ expired < nextLease - 1
    /\ expired' = expired + 1
    /\ UNCHANGED <<published, status, attempts, lockedBy, nextLease>>

Next ==
    \/ \E S \in SUBSET Deliveries : Publish(S) \/ Claim(S) \/ Abandon(S)
    \/ \E d \in Deliveries :
          \/ \E s \in {"PROCESSED", "IGNORED", "DEAD_LETTER", "PENDING"} : Finish(d, s)
          \/ Fail({d})
          \/ \E s \in {"PENDING", "IGNORED"} : Decide(d, s)
    \/ Expire

Spec == Init /\ [][Next]_vars
=================================================================================
