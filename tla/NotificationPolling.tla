--------------------------- MODULE NotificationPolling ---------------------------
(***************************************************************************)
(* createNotificationPollingController: one controller that shows a user's *)
(* unread count.  requestSequence only ever decides whether a request is   *)
(* the latest one, so it is represented by the latest request; a count is  *)
(* represented by the set of notifications it counted.  The option enabled *)
(* has its default, true.                                                  *)
(***************************************************************************)
EXTENDS NotificationInbox

CONSTANTS
    Reader,             \* the user whose bell it is
    Requests            \* bound: loadUnreadCount calls that may be under way at once

VARIABLES
    active, visible, timer,
    request, counted,   \* per call: its progress, and what the server counted
    latest, inFlight,   \* sets of at most one call: holds requestSequence, is shared by refresh
    shown,              \* the last onCount
    settled             \* history: what the reader had read or archived at the last forceRefresh

callVars  == <<request, counted, latest, inFlight>>
shownVars == <<shown, settled>>
pollVars  == <<active, visible, timer, callVars, shownVars>>

PollTypeOK ==
    /\ active \in BOOLEAN /\ visible \in BOOLEAN /\ timer \in BOOLEAN
    /\ request \in [Requests -> {"free", "sent", "served"}]
    /\ counted \in [Requests -> SUBSET Notes]
    /\ latest \subseteq Requests /\ inFlight \subseteq Requests
    /\ Cardinality(latest) <= 1 /\ Cardinality(inFlight) <= 1
    /\ shown \subseteq Notes /\ settled \subseteq Notes

PollInit ==
    /\ active = FALSE /\ visible = TRUE /\ timer = FALSE
    /\ request = [r \in Requests |-> "free"] /\ counted = [r \in Requests |-> {}]
    /\ latest = {} /\ inFlight = {} /\ shown = {} /\ settled = {}

SequenceShared(r) == latest' = latest \cup {r}  \* mutant: older calls stay current
TakeSequence(r) == latest' = {r}

IssueRequest ==
    \E r \in Requests :
        /\ request[r] = "free"
        /\ request' = [request EXCEPT ![r] = "sent"]
        /\ TakeSequence(r) /\ inFlight' = {r}
        /\ UNCHANGED counted

(* refresh joins the call in flight, an abandoned one too. *)
Refreshes(isActive, isVisible) == isActive /\ isVisible /\ inFlight = {}
Refresh(isActive, isVisible) ==
    IF Refreshes(isActive, isVisible) THEN IssueRequest ELSE UNCHANGED callVars

ForceRefresh ==
    /\ active
    /\ IssueRequest
    /\ settled' = (inbox.read \cup inbox.archived) \cap Owned(Reader)
    /\ UNCHANGED <<active, visible, timer, shown>>

(* The interval timer. *)
Tick ==
    /\ timer
    /\ Refresh(active, visible)
    /\ UNCHANGED <<active, visible, timer, shownVars>>

Start ==
    /\ ~active
    /\ active' = TRUE /\ timer' = TRUE
    /\ Refresh(TRUE, visible)
    /\ UNCHANGED <<visible, shownVars>>

Stop ==
    /\ active' = FALSE /\ timer' = FALSE
    /\ latest' = {}
    /\ UNCHANGED <<visible, request, counted, inFlight, shownVars>>

SetVisible(v) ==
    /\ visible' = v
    /\ IF v THEN Refresh(active, v) ELSE UNCHANGED callVars
    /\ UNCHANGED <<active, timer, shownVars>>

(* The server counts, some time between the call and its answer. *)
Serve(r) ==
    /\ request[r] = "sent"
    /\ request' = [request EXCEPT ![r] = "served"]
    /\ counted' = [counted EXCEPT ![r] = Unread(Reader)]
    /\ UNCHANGED <<active, visible, timer, latest, inFlight, shownVars>>

InFlightKept(r) == inFlight         \* mutant: a finished call is joined for ever
InFlightWithout(r) == inFlight \ {r}

Finish(r) ==                        \* .finally
    /\ request' = [request EXCEPT ![r] = "free"]
    /\ counted' = [counted EXCEPT ![r] = {}]
    /\ inFlight' = InFlightWithout(r)
    /\ UNCHANGED <<active, visible, timer, latest, settled>>

AnyAnswer(r) == TRUE                \* mutant: the last answer to arrive is shown
IsLatest(r) == r \in latest

Settle(r) ==
    /\ request[r] = "served"
    /\ shown' = IF IsLatest(r) THEN counted[r] ELSE shown
    /\ Finish(r)

Reject(r) ==
    /\ request[r] # "free"
    /\ UNCHANGED shown
    /\ Finish(r)

Answer(r) == Serve(r) \/ Settle(r)
Poll ==
    \/ Start \/ Stop \/ Tick \/ ForceRefresh
    \/ \E v \in BOOLEAN : SetVisible(v)
    \/ \E r \in Requests : Answer(r)

--------------------------------------------------------------------------------
(* Properties *)

(* What the reader had read or archived before refreshing by hand is not counted in any
   count that appears afterwards, however late the answers to older calls arrive; and
   nothing appears on a controller that was stopped. *)
NoStaleCount == [][shown' # shown => active /\ shown' \cap settled = {}]_pollVars

(* A controller that is left running in a visible page ends up showing what the server
   counts, unless it is refreshed by hand for ever. *)
BellTracksInbox ==
    <>[](active /\ visible) /\ <>[][~ForceRefresh]_pollVars
    => <>[](shown = Unread(Reader))
================================================================================
