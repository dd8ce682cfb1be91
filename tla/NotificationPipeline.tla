--------------------------- MODULE NotificationPipeline ---------------------------
(***************************************************************************)
(* From an event of another app to the bell of a user: the inbound receipt *)
(* (IntegrationReceipt), whose business callback notifies in the same      *)
(* transaction, the inbox (NotificationInbox) and the polling controller   *)
(* (NotificationPolling).                                                  *)
(***************************************************************************)
EXTENDS IntegrationReceipt, FiniteSets

CONSTANTS Notes, Users, OwnerOf, Reader, Requests,
          NoteOf,       \* the notification each envelope's callback writes
          MaxBusy       \* bound: deliveries and requests under way at once

ASSUME PipelineAssumption == NoteOf \in [Envelopes -> Notes]

VARIABLES inbox, active, visible, timer, request, counted, latest, inFlight, shown, settled

Bell == INSTANCE NotificationPolling

bellVars == <<active, visible, timer, request, counted, latest, inFlight, shown, settled>>
allVars == <<vars, inbox, bellVars>>

PipelineTypeOK == TypeOK /\ Bell!InboxTypeOK /\ Bell!PollTypeOK

PipelineInit == Init /\ Bell!InboxInit /\ Bell!PollInit

(* The callback's createMany becomes visible with the commit. *)
Deliveries == UNCHANGED <<inbox, bellVars>>
Notifying(c) == Commit(c) /\ Bell!Notify({NoteOf[job[c]]}) /\ UNCHANGED bellVars
Consume(c) ==
    \/ Notifying(c)
    \/ (Find(c) \/ Create(c) \/ Resolve(c)) /\ Deliveries

Room == Cardinality({c \in Consumers : at'[c] # "idle"})
        + Cardinality({r \in Requests : request'[r] # "free"}) <= MaxBusy

Arrive(v) == \E c \in Consumers : Deliver(c, v) /\ Deliveries /\ Room

RequestFails ==
    /\ Fault
    /\ \E r \in Requests : Bell!Reject(r)
    /\ UNCHANGED <<receipts, at, job, answer, runs, inbox>>

PipelineNext ==
    \/ \E v \in Envelopes : Arrive(v)
    \/ \E c \in Consumers : Consume(c) \/ (Abort(c) /\ Deliveries)
    \/ \E u \in Users : Bell!UserAct(u) /\ UNCHANGED <<vars, bellVars>>
    \/ Bell!Poll /\ UNCHANGED <<vars, inbox>> /\ Room
    \/ RequestFails

(* Statements and calls that do not fail return; the sender retries until it is answered
   and the interval timer fires.  These two are strongly fair because MaxBusy, which the
   program does not have, may disable them now and then. *)
PipelineFairness ==
    /\ \A c \in Consumers : WF_allVars(Consume(c))
    /\ \A v \in Envelopes : SF_allVars(answer[v] = "none" /\ Arrive(v))
    /\ \A r \in Requests : WF_allVars(Bell!Answer(r) /\ UNCHANGED <<vars, inbox>>)
    /\ SF_allVars(Bell!Tick /\ UNCHANGED <<vars, inbox>> /\ Room)

PipelineSpec == PipelineInit /\ [][PipelineNext]_allVars /\ PipelineFairness

--------------------------------------------------------------------------------
(* Properties *)

NoStaleCount == Bell!NoStaleCount
BellTracksInbox == Bell!BellTracksInbox

(* Every event that arrives intact is processed in the end, whatever failed on the way,
   and the notification of the envelope that was processed is there. *)
EveryEventNotifies ==
    \A v \in Envelopes \ Tampered :
        <>(\E w \in Envelopes : receipts[EventOf[v]] = w /\ NoteOf[w] \in inbox.rows)
================================================================================
