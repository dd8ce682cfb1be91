--------------------------- MODULE IntegrationReceipt ---------------------------
(***************************************************************************)
(* The inbox of external events (withIntegrationEventReceipt): deliveries  *)
(* arrive at least once and several at a time; the receipt row and the     *)
(* business change share one transaction, and the unique index on the      *)
(* source's event id decides which transaction runs the business callback. *)
(***************************************************************************)
EXTENDS Naturals

CONSTANTS
    Consumers,          \* executions of withIntegrationEventReceipt that may overlap
    Envelopes, Events,  \* envelopes that arrive, and the (sourceApp, eventId) pairs
    EventOf, Content,   \* an envelope's event, and its payload digest, contract and binding
    Tampered,           \* envelopes whose payload does not have the digest they state
    NoReceipt,          \* no row, no envelope
    MaxFaults           \* bound: failing callbacks, crashes, redeliveries of what was answered

ASSUME ReceiptAssumption ==
    /\ EventOf \in [Envelopes -> Events]
    /\ Tampered \subseteq Envelopes /\ NoReceipt \notin Envelopes
    /\ MaxFaults \in Nat

VARIABLES
    receipts,           \* the committed rows: per event the envelope it was written for
    at, job,            \* per execution, the statement it is at and its envelope
    answer,             \* per envelope, the last answer the sender got
    runs,               \* history: per event, callbacks that took effect
    faults

vars == <<receipts, at, job, answer, runs, faults>>

TypeOK ==
    /\ receipts \in [Events -> Envelopes \cup {NoReceipt}]
    /\ at \in [Consumers -> {"idle", "find", "create", "process", "resolve"}]
    /\ job \in [Consumers -> Envelopes \cup {NoReceipt}]
    /\ answer \in [Envelopes -> {"none", "processed", "duplicate", "rejected"}]
    /\ runs \in [Events -> Nat] /\ faults \in 0..MaxFaults

Init ==
    /\ receipts = [e \in Events |-> NoReceipt]
    /\ at = [c \in Consumers |-> "idle"] /\ job = [c \in Consumers |-> NoReceipt]
    /\ answer = [v \in Envelopes |-> "none"]
    /\ runs = [e \in Events |-> 0] /\ faults = 0

Fault == faults < MaxFaults /\ faults' = faults + 1

EventAt(c) == EventOf[job[c]]

Goto(c, where) == at' = [at EXCEPT ![c] = where] /\ UNCHANGED job
Return(c) == at' = [at EXCEPT ![c] = "idle"] /\ job' = [job EXCEPT ![c] = NoReceipt]

--------------------------------------------------------------------------------
(* assertMatchingReceipt: digest, contract and binding must be those of the row. *)
SameEventOnly(v, row) == EventOf[v] = EventOf[row]      \* mutant: the id alone decides
Matches(v, row) == Content[v] = Content[row]

AnswerFrom(c, row) ==
    answer' = [answer EXCEPT ![job[c]] = IF Matches(job[c], row) THEN "duplicate" ELSE "rejected"]

(* The sender delivers until it is answered, and again when the answer was lost. *)
Deliver(c, v) ==
    /\ at[c] = "idle"
    /\ IF answer[v] = "none" THEN UNCHANGED faults ELSE Fault
    /\ IF v \in Tampered
       THEN answer' = [answer EXCEPT ![v] = "rejected"] /\ UNCHANGED <<at, job>>
       ELSE /\ at' = [at EXCEPT ![c] = "find"] /\ job' = [job EXCEPT ![c] = v]
            /\ UNCHANGED answer
    /\ UNCHANGED <<receipts, runs>>

Find(c) ==
    /\ at[c] = "find"
    /\ LET row == receipts[EventAt(c)]
       IN  IF row = NoReceipt THEN Goto(c, "create") /\ UNCHANGED answer
           ELSE Return(c) /\ AnswerFrom(c, row)
    /\ UNCHANGED <<receipts, runs, faults>>

(* The insert waits for an uncommitted row with the same key. *)
InsertWaits(c) == \E d \in Consumers \ {c} : at[d] = "process" /\ EventAt(d) = EventAt(c)

RunAnyway == "process"             \* mutant: a conflict does not stop the callback
OnConflict == "resolve"

InsertOwnTransaction(e, v) == receipts' = [receipts EXCEPT ![e] = v]   \* mutant
InsertUncommitted(e, v) == UNCHANGED receipts

Create(c) ==
    /\ at[c] = "create" /\ ~InsertWaits(c)
    /\ IF receipts[EventAt(c)] = NoReceipt
       THEN Goto(c, "process") /\ InsertUncommitted(EventAt(c), job[c])
       ELSE Goto(c, OnConflict) /\ UNCHANGED receipts
    /\ UNCHANGED <<answer, runs, faults>>

(* process(tx) succeeds and the transaction commits. *)
Commit(c) ==
    /\ at[c] = "process"
    /\ receipts' = [receipts EXCEPT ![EventAt(c)] = job[c]]
    /\ runs' = [runs EXCEPT ![EventAt(c)] = @ + 1]
    /\ answer' = [answer EXCEPT ![job[c]] = "processed"]
    /\ Return(c)
    /\ UNCHANGED faults

(* The read outside the failed transaction. *)
Resolve(c) ==
    /\ at[c] = "resolve"
    /\ LET row == receipts[EventAt(c)]
       IN  IF row = NoReceipt THEN UNCHANGED answer ELSE AnswerFrom(c, row)
    /\ Return(c)
    /\ UNCHANGED <<receipts, runs, faults>>

(* A statement or the callback throws, or the process dies: the transaction rolls back. *)
Abort(c) ==
    /\ at[c] # "idle" /\ Fault
    /\ Return(c)
    /\ UNCHANGED <<receipts, answer, runs>>

Work(c) == Find(c) \/ Create(c) \/ Commit(c) \/ Resolve(c)
Receive == \E c \in Consumers : Work(c) \/ Abort(c) \/ \E v \in Envelopes : Deliver(c, v)

Next == Receive
Spec == Init /\ [][Next]_vars

--------------------------------------------------------------------------------
(* Properties *)

(* "never run the business callback twice": whatever arrives how often and at the same
   time, one callback takes effect per event, and exactly when a receipt says so. *)
ProcessedOnce == \A e \in Events : runs[e] = (IF receipts[e] = NoReceipt THEN 0 ELSE 1)

(* A sender that is told "processed" or "duplicate" sent what was processed; one that is
   told off for good sent something else than what holds its event's receipt. *)
AnswersTrue ==
    \A v \in Envelopes :
        LET row == receipts[EventOf[v]]
        IN  /\ answer[v] \in {"processed", "duplicate"} =>
                   row # NoReceipt /\ Content[row] = Content[v] /\ runs[EventOf[v]] = 1
            /\ answer[v] = "rejected" =>
                   \/ v \in Tampered
                   \/ row # NoReceipt /\ Content[row] # Content[v]

(* What overlapping executions, redeliveries, failures and the read outside the failed
   transaction amount to: every arrival is answered in one indivisible step, which runs
   the callback, recognises what was processed, or turns the envelope away. *)
ProcessOnce(v) ==
    /\ v \notin Tampered /\ receipts[EventOf[v]] = NoReceipt
    /\ receipts' = [receipts EXCEPT ![EventOf[v]] = v]
    /\ runs' = [runs EXCEPT ![EventOf[v]] = 1]
    /\ answer' = [answer EXCEPT ![v] = "processed"]

AnswerAgain(v) ==
    /\ v \notin Tampered /\ receipts[EventOf[v]] # NoReceipt
    /\ answer' = [answer EXCEPT ![v] =
                     IF Content[v] = Content[receipts[EventOf[v]]] THEN "duplicate" ELSE "rejected"]
    /\ UNCHANGED <<receipts, runs>>

TurnAway(v) ==
    /\ v \in Tampered
    /\ answer' = [answer EXCEPT ![v] = "rejected"]
    /\ UNCHANGED <<receipts, runs>>

AtomicInit ==
    /\ receipts = [e \in Events |-> NoReceipt] /\ runs = [e \in Events |-> 0]
    /\ answer = [v \in Envelopes |-> "none"]
AtomicNext == \E v \in Envelopes : ProcessOnce(v) \/ AnswerAgain(v) \/ TurnAway(v)
AtomicInbox == AtomicInit /\ [][AtomicNext]_<<receipts, runs, answer>>
================================================================================
