----------------------- MODULE NotificationPipeline_proofs -----------------------
(* The receipt inbox, alone and in the pipeline, processes an event once and answers
   truthfully, for any number of deliveries, envelopes and faults; and the bell shows no
   stale count, for any number of notifications and calls. *)
EXTENDS NotificationPipeline, FiniteSetTheorems, TLAPS

(* An execution that is at a statement has an envelope, with the payload it states. *)
JobInv == \A c \in Consumers : at[c] # "idle" => job[c] \in Envelopes \ Tampered

(* Whoever runs the business callback holds the only insert of the event's key. *)
SoleInsert ==
    \A c \in Consumers :
        at[c] = "process" =>
            /\ receipts[EventAt(c)] = NoReceipt
            /\ \A d \in Consumers : at[d] = "process" /\ EventAt(d) = EventAt(c) => d = c

RInv == TypeOK /\ JobInv /\ SoleInsert /\ ProcessedOnce /\ AnswersTrue

receiptVars == <<receipts, at, job, answer, runs>>

(* No row, no run, no answer. *)
LEMMA InitRInv == Init => RInv
  BY ReceiptAssumption
  DEF Init, RInv, TypeOK, JobInv, SoleInsert, ProcessedOnce, AnswersTrue, EventAt

(* Steps that leave the receipts and their executions alone. *)
LEMMA StutterStep ==
  ASSUME RInv, UNCHANGED receiptVars, faults' \in 0..MaxFaults
  PROVE  RInv'
  BY DEF RInv, TypeOK, JobInv, SoleInsert, ProcessedOnce, AnswersTrue, EventAt, receiptVars

(* Faults are counted up to their bound. *)
LEMMA FaultsBounded ==
  ASSUME RInv, Next PROVE faults' \in 0..MaxFaults
  BY ReceiptAssumption
  DEF RInv, TypeOK, Next, Receive, Work, Deliver, Find, Create, Commit, Resolve, Abort, Fault

(* A delivery gets to findReceipt, or is turned away for its payload. *)
LEMMA DeliverStep ==
  ASSUME RInv, NEW c \in Consumers, NEW v \in Envelopes, Deliver(c, v), faults' \in 0..MaxFaults
  PROVE  RInv'
<1> USE DEF RInv
<1>1. UNCHANGED <<receipts, runs>> BY DEF Deliver
<1>2. CASE v \in Tampered
  <2>1. UNCHANGED <<at, job>> /\ answer' = [answer EXCEPT ![v] = "rejected"] BY <1>2 DEF Deliver
  <2>2. TypeOK' /\ JobInv' /\ SoleInsert' /\ ProcessedOnce'
    BY <1>1, <2>1 DEF TypeOK, JobInv, SoleInsert, ProcessedOnce, EventAt
  <2>3. AnswersTrue' BY <1>1, <1>2, <2>1 DEF AnswersTrue, TypeOK
  <2>4. QED BY <2>2, <2>3
<1>3. CASE v \notin Tampered
  <2>1. /\ at' = [at EXCEPT ![c] = "find"] /\ job' = [job EXCEPT ![c] = v]
        /\ UNCHANGED answer
    BY <1>3 DEF Deliver
  <2>2. TypeOK' /\ JobInv' BY <1>1, <1>3, <2>1 DEF TypeOK, JobInv
  <2>3. SoleInsert' BY <1>1, <2>1 DEF TypeOK, SoleInsert, EventAt
  <2>4. ProcessedOnce' /\ AnswersTrue' BY <1>1, <2>1 DEF ProcessedOnce, AnswersTrue
  <2>5. QED BY <2>2, <2>3, <2>4
<1>4. QED BY <1>2, <1>3

(* What answering from a row does to the invariant: the row was committed. *)
LEMMA AnswerStep ==
  ASSUME RInv, NEW c \in Consumers, at[c] # "idle", UNCHANGED <<receipts, runs>>,
         receipts[EventAt(c)] # NoReceipt, AnswerFrom(c, receipts[EventAt(c)])
  PROVE  answer' \in [Envelopes -> {"none", "processed", "duplicate", "rejected"}] /\ AnswersTrue'
<1>1. job[c] \in Envelopes /\ EventAt(c) \in Events
  BY ReceiptAssumption DEF RInv, JobInv, EventAt
<1>2. runs[EventAt(c)] = 1 BY <1>1 DEF RInv, ProcessedOnce
<1>3. QED
  BY <1>1, <1>2 DEF RInv, TypeOK, AnswersTrue, AnswerFrom, Matches, EventAt

(* Returning without a commit. *)
LEMMA ReturnStep ==
  ASSUME RInv, NEW c \in Consumers, Return(c), UNCHANGED <<receipts, runs>>,
         answer' \in [Envelopes -> {"none", "processed", "duplicate", "rejected"}],
         AnswersTrue', faults' \in 0..MaxFaults
  PROVE  RInv'
<1> USE DEF RInv, Return
<1>1. TypeOK' /\ JobInv' BY DEF TypeOK, JobInv
<1>2. SoleInsert' BY DEF TypeOK, SoleInsert, EventAt
<1>3. ProcessedOnce' BY DEF ProcessedOnce
<1>4. QED BY <1>1, <1>2, <1>3

(* Going on to a statement other than the callback. *)
LEMMA GotoStep ==
  ASSUME RInv, NEW c \in Consumers, NEW s \in {"create", "resolve"}, at[c] # "idle", Goto(c, s),
         UNCHANGED <<receipts, answer, runs>>, faults' \in 0..MaxFaults
  PROVE  RInv'
<1> USE DEF RInv, Goto
<1>1. TypeOK' /\ JobInv' BY DEF TypeOK, JobInv
<1>2. SoleInsert' BY DEF TypeOK, SoleInsert, EventAt
<1>3. ProcessedOnce' /\ AnswersTrue' BY DEF ProcessedOnce, AnswersTrue
<1>4. QED BY <1>1, <1>2, <1>3

(* The insert succeeds only without a committed row and without another insert. *)
LEMMA CreateStep ==
  ASSUME RInv, NEW c \in Consumers, Create(c), faults' \in 0..MaxFaults
  PROVE  RInv'
<1>1. CASE receipts[EventAt(c)] # NoReceipt
  <2>1. Goto(c, "resolve") /\ UNCHANGED <<receipts, answer, runs>> /\ at[c] # "idle"
    BY <1>1 DEF Create, OnConflict
  <2>2. QED BY <2>1, GotoStep
<1>2. CASE receipts[EventAt(c)] = NoReceipt
  <2>1. /\ at' = [at EXCEPT ![c] = "process"] /\ ~InsertWaits(c) /\ at[c] = "create"
        /\ UNCHANGED <<job, receipts, answer, runs>>
    BY <1>2 DEF Create, Goto, InsertUncommitted
  <2>2. TypeOK' /\ JobInv' BY <2>1 DEF RInv, TypeOK, JobInv
  <2>3. SoleInsert'
    <3>1. \A d \in Consumers : at[d] = "process" /\ EventAt(d) = EventAt(c) => d = c
      BY <2>1 DEF InsertWaits
    <3>2. \A d \in Consumers : EventAt(d)' = EventAt(d) BY <2>1 DEF EventAt
    <3>3. QED BY <1>2, <2>1, <3>1, <3>2 DEF RInv, TypeOK, SoleInsert
  <2>4. ProcessedOnce' /\ AnswersTrue' BY <2>1 DEF RInv, ProcessedOnce, AnswersTrue
  <2>5. QED BY <2>2, <2>3, <2>4 DEF RInv
<1>3. QED BY <1>1, <1>2

(* The commit is the only write of a receipt, and there was none. *)
LEMMA CommitStep ==
  ASSUME RInv, NEW c \in Consumers, Commit(c), faults' \in 0..MaxFaults
  PROVE  RInv'
<1> DEFINE e == EventAt(c)
<1>1. /\ at[c] = "process"
      /\ receipts' = [receipts EXCEPT ![e] = job[c]] /\ runs' = [runs EXCEPT ![e] = @ + 1]
      /\ answer' = [answer EXCEPT ![job[c]] = "processed"]
      /\ at' = [at EXCEPT ![c] = "idle"] /\ job' = [job EXCEPT ![c] = NoReceipt]
  BY DEF Commit, Return
<1>2. job[c] \in Envelopes /\ e \in Events /\ job[c] # NoReceipt /\ e = EventOf[job[c]]
  BY <1>1, ReceiptAssumption DEF RInv, JobInv, EventAt
<1>3. receipts[e] = NoReceipt /\ runs[e] = 0
  BY <1>1, <1>2 DEF RInv, SoleInsert, ProcessedOnce
<1>4. TypeOK' /\ JobInv' BY <1>1, <1>2, <1>3 DEF RInv, TypeOK, JobInv
<1>5. SoleInsert'
  <2>1. \A d \in Consumers \ {c} : EventAt(d)' = EventAt(d) /\ at'[d] = at[d]
    BY <1>1 DEF RInv, TypeOK, EventAt
  <2>2. \A d \in Consumers \ {c} : at[d] = "process" => EventAt(d) # e
    BY <1>1 DEF RInv, SoleInsert
  <2>3. at'[c] = "idle" BY <1>1 DEF RInv, TypeOK
  <2>4. \A d \in Consumers \ {c} : at[d] = "process" => receipts'[EventAt(d)] = receipts[EventAt(d)]
    BY <1>1, <2>2 DEF RInv, TypeOK
  <2>5. QED BY <2>1, <2>2, <2>3, <2>4 DEF RInv, SoleInsert
<1>6. ProcessedOnce' BY <1>1, <1>2, <1>3 DEF RInv, TypeOK, ProcessedOnce
<1>7. AnswersTrue' BY <1>1, <1>2, <1>3, ReceiptAssumption DEF RInv, TypeOK, AnswersTrue
<1>8. QED BY <1>4, <1>5, <1>6, <1>7 DEF RInv

(* Every step of the receipt inbox preserves the invariant. *)
LEMMA ReceiptStep ==
  ASSUME RInv, Next PROVE RInv'
<1>1. faults' \in 0..MaxFaults BY FaultsBounded
<1>2. ASSUME NEW c \in Consumers, Find(c) PROVE RInv'
  <2>1. at[c] # "idle" /\ UNCHANGED <<receipts, runs>> BY <1>2 DEF Find
  <2>2. CASE receipts[EventAt(c)] = NoReceipt
    BY <1>1, <1>2, <2>1, <2>2, GotoStep DEF Find
  <2>3. CASE receipts[EventAt(c)] # NoReceipt
    BY <1>1, <1>2, <2>1, <2>3, AnswerStep, ReturnStep DEF Find
  <2>4. QED BY <2>2, <2>3
<1>3. ASSUME NEW c \in Consumers, Resolve(c) PROVE RInv'
  <2>1. at[c] # "idle" /\ UNCHANGED <<receipts, runs>> /\ Return(c) BY <1>3 DEF Resolve
  <2>2. CASE receipts[EventAt(c)] = NoReceipt
    <3>1. UNCHANGED answer BY <1>3, <2>2 DEF Resolve
    <3>2. QED BY <1>1, <2>1, <3>1, ReturnStep DEF RInv, TypeOK, AnswersTrue
  <2>3. CASE receipts[EventAt(c)] # NoReceipt
    BY <1>1, <1>3, <2>1, <2>3, AnswerStep, ReturnStep DEF Resolve
  <2>4. QED BY <2>2, <2>3
<1>4. ASSUME NEW c \in Consumers, Abort(c) PROVE RInv'
  BY <1>1, <1>4, ReturnStep DEF Abort, RInv, TypeOK, AnswersTrue
<1>5. QED
  BY <1>1, <1>2, <1>3, <1>4, CreateStep, CommitStep, DeliverStep DEF Next, Receive, Work

(* An answer from a committed row is the abstract inbox's; an execution without an answer is
   not seen by it. *)
LEMMA AnswerRefines ==
  ASSUME RInv, NEW c \in Consumers, at[c] # "idle", UNCHANGED <<receipts, runs>>,
         \/ receipts[EventAt(c)] # NoReceipt /\ AnswerFrom(c, receipts[EventAt(c)])
         \/ UNCHANGED answer
  PROVE  [AtomicNext]_<<receipts, runs, answer>>
<1>1. job[c] \in Envelopes /\ job[c] \notin Tampered BY DEF RInv, JobInv
<1>2. CASE UNCHANGED answer BY <1>2
<1>3. CASE receipts[EventAt(c)] # NoReceipt /\ AnswerFrom(c, receipts[EventAt(c)])
  <2>1. AnswerAgain(job[c])
    BY <1>1, <1>3 DEF AnswerAgain, AnswerFrom, Matches, EventAt
  <2>2. QED BY <1>1, <2>1 DEF AtomicNext
<1>4. QED BY <1>2, <1>3

(* The commit is the step that processes; no step but it, an answer and the refusal of a
   payload is visible. *)
LEMMA ReceiptRefines ==
  ASSUME RInv, [Next]_vars PROVE [AtomicNext]_<<receipts, runs, answer>>
<1>1. CASE UNCHANGED vars BY <1>1 DEF vars
<1>2. ASSUME NEW c \in Consumers, NEW v \in Envelopes, Deliver(c, v)
      PROVE  [AtomicNext]_<<receipts, runs, answer>>
  <2>1. UNCHANGED <<receipts, runs>> BY <1>2 DEF Deliver
  <2>2. CASE v \in Tampered
    <3>1. TurnAway(v) BY <1>2, <2>1, <2>2 DEF Deliver, TurnAway
    <3>2. QED BY <3>1 DEF AtomicNext
  <2>3. CASE v \notin Tampered
    <3>1. UNCHANGED answer BY <1>2, <2>3 DEF Deliver
    <3>2. QED BY <2>1, <3>1
  <2>4. QED BY <2>2, <2>3
<1>3. ASSUME NEW c \in Consumers, Find(c) \/ Create(c) \/ Resolve(c) \/ Abort(c)
      PROVE  [AtomicNext]_<<receipts, runs, answer>>
  <2>1. UNCHANGED <<receipts, runs>> /\ at[c] # "idle"
    BY <1>3 DEF Find, Create, Resolve, Abort, InsertUncommitted
  <2>2. \/ receipts[EventAt(c)] # NoReceipt /\ AnswerFrom(c, receipts[EventAt(c)])
        \/ UNCHANGED answer
    BY <1>3 DEF Find, Create, Resolve, Abort
  <2>3. QED BY <2>1, <2>2, AnswerRefines
<1>4. ASSUME NEW c \in Consumers, Commit(c)
      PROVE  [AtomicNext]_<<receipts, runs, answer>>
  <2>1. job[c] \in Envelopes /\ job[c] \notin Tampered /\ EventAt(c) \in Events
    BY <1>4, ReceiptAssumption DEF Commit, RInv, JobInv, EventAt
  <2>2. receipts[EventAt(c)] = NoReceipt /\ runs[EventAt(c)] = 0
    BY <1>4, <2>1 DEF Commit, RInv, SoleInsert, ProcessedOnce
  <2>3. runs' = [runs EXCEPT ![EventAt(c)] = 1] BY <1>4, <2>1, <2>2 DEF Commit, RInv, TypeOK
  <2>4. ProcessOnce(job[c]) BY <1>4, <2>1, <2>2, <2>3 DEF Commit, ProcessOnce, EventAt
  <2>5. QED BY <2>1, <2>4 DEF AtomicNext
<1>5. QED BY <1>1, <1>2, <1>3, <1>4 DEF Next, Receive, Work

(* Every step of the pipeline is one of the receipt inbox or leaves it alone. *)
LEMMA PipelineStep ==
  ASSUME RInv, [PipelineNext]_allVars PROVE RInv'
<1>1. CASE UNCHANGED allVars
  BY <1>1, StutterStep DEF allVars, vars, receiptVars, RInv, TypeOK
<1>2. ASSUME NEW v \in Envelopes, Arrive(v) PROVE Next
  BY <1>2 DEF Arrive, Next, Receive
<1>3. ASSUME NEW c \in Consumers, Consume(c) \/ (Abort(c) /\ Deliveries) PROVE Next
  BY <1>3 DEF Consume, Notifying, Next, Receive, Work
<1>4. CASE \/ \E u \in Users : Bell!UserAct(u) /\ UNCHANGED <<vars, bellVars>>
           \/ Bell!Poll /\ UNCHANGED <<vars, inbox>> /\ Room
  BY <1>4, StutterStep DEF vars, receiptVars, RInv, TypeOK
<1>5. CASE RequestFails
  <2>1. faults' \in 0..MaxFaults
    BY <1>5, ReceiptAssumption DEF RequestFails, Fault, RInv, TypeOK
  <2>2. QED BY <1>5, <2>1, StutterStep DEF RequestFails, receiptVars
<1>6. QED
  BY <1>1, <1>2, <1>3, <1>4, <1>5, ReceiptStep DEF PipelineNext

--------------------------------------------------------------------------------
(* The bell. *)

(* One call at most is the latest, one at most is shared by refresh. *)
OneCall == (\A q, r \in latest : q = r) /\ (\A q, r \in inFlight : q = r)

(* The latest call is of a controller that runs. *)
LatestRuns == latest # {} => active

(* What the latest call counted, if the server has counted already, is free of what the
   reader had settled at the last refresh by hand. *)
FreshCount ==
    \A r \in latest : request[r] = "served" => counted[r] \cap settled = {}

(* What was settled by then is settled now: nothing is unread again. *)
SettledStays == settled \subseteq inbox.read \cup inbox.archived

BInv ==
    /\ Bell!InboxTypeOK /\ Bell!PollTypeOK
    /\ OneCall /\ LatestRuns /\ FreshCount /\ SettledStays

(* A set in which any two elements are equal has at most one, counted by the module or
   by the instance of it that the bell has. *)
LEMMA AtMostOne ==
  ASSUME NEW S, \A q, r \in S : q = r
  PROVE  Bell!Cardinality(S) <= 1
<1>0. Bell!Cardinality(S) = Cardinality(S) BY DEF Bell!Cardinality, Cardinality
<1>1. CASE S = {} BY <1>0, <1>1, FS_EmptySet
<1>2. ASSUME NEW x \in S PROVE Bell!Cardinality(S) <= 1
  <2>1. S = {x} BY <1>2
  <2>2. Cardinality({x}) = 1 BY FS_Singleton
  <2>3. QED BY <1>0, <2>1, <2>2
<1>3. QED BY <1>1, <1>2

(* The bell starts stopped, with nothing shown. *)
LEMMA BellInit == PipelineInit => BInv
<1> SUFFICES ASSUME PipelineInit PROVE BInv OBVIOUS
<1> USE DEF PipelineInit, Bell!InboxInit, Bell!PollInit
<1>1. Bell!Cardinality({}) <= 1 BY AtMostOne
<1>2. Bell!InboxTypeOK BY DEF Bell!InboxTypeOK
<1>3. Bell!PollTypeOK BY <1>1 DEF Bell!PollTypeOK
<1>4. OneCall /\ LatestRuns /\ FreshCount /\ SettledStays
  BY DEF OneCall, LatestRuns, FreshCount, SettledStays
<1>5. QED BY <1>2, <1>3, <1>4 DEF BInv

(* Steps that leave the bell alone keep its part of the invariant. *)
LEMMA BellRests ==
  ASSUME BInv, UNCHANGED bellVars, Bell!InboxTypeOK',
         inbox.read \subseteq inbox'.read, inbox.archived \subseteq inbox'.archived
  PROVE  BInv'
<1>1. Bell!PollTypeOK' BY DEF BInv, Bell!PollTypeOK, bellVars
<1>2. OneCall' /\ LatestRuns' /\ FreshCount' /\ SettledStays'
  BY DEF BInv, OneCall, LatestRuns, FreshCount, SettledStays, bellVars
<1>3. QED BY <1>1, <1>2 DEF BInv

(* A new call replaces the latest one and has counted nothing. *)
LEMMA IssueStep ==
  ASSUME BInv, Bell!IssueRequest, UNCHANGED <<inbox, shown>>,
         active', active' \in BOOLEAN, visible' \in BOOLEAN, timer' \in BOOLEAN,
         settled' \subseteq Notes, settled' \subseteq inbox.read \cup inbox.archived
  PROVE  BInv'
<1> PICK r \in Requests :
        /\ request[r] = "free" /\ request' = [request EXCEPT ![r] = "sent"]
        /\ latest' = {r} /\ inFlight' = {r} /\ UNCHANGED counted
  BY DEF Bell!IssueRequest, Bell!TakeSequence
<1>1. Bell!Cardinality({r}) <= 1 BY AtMostOne
<1>2. request' \in [Requests -> {"free", "sent", "served"}] /\ request'[r] = "sent"
  BY DEF BInv, Bell!PollTypeOK
<1>3. Bell!PollTypeOK' BY <1>1, <1>2 DEF BInv, Bell!PollTypeOK
<1>4. Bell!InboxTypeOK' BY DEF BInv, Bell!InboxTypeOK
<1>5. OneCall' /\ LatestRuns' /\ FreshCount' /\ SettledStays'
  BY <1>2 DEF OneCall, LatestRuns, FreshCount, SettledStays
<1>6. QED BY <1>3, <1>4, <1>5 DEF BInv

(* refresh issues a call or joins one. *)
LEMMA RefreshStep ==
  ASSUME BInv, NEW isActive \in BOOLEAN, NEW isVisible \in BOOLEAN,
         Bell!Refresh(isActive, isVisible), UNCHANGED <<inbox, shown, settled>>,
         isActive => active', active => active',
         active' \in BOOLEAN, visible' \in BOOLEAN, timer' \in BOOLEAN
  PROVE  BInv'
<1>1. CASE Bell!Refreshes(isActive, isVisible)
  <2>1. Bell!IssueRequest /\ active' BY <1>1 DEF Bell!Refresh, Bell!Refreshes
  <2>2. QED BY <2>1, IssueStep DEF BInv, Bell!PollTypeOK, SettledStays
<1>2. CASE ~Bell!Refreshes(isActive, isVisible)
  <2>1. UNCHANGED <<request, counted, latest, inFlight>> BY <1>2 DEF Bell!Refresh, Bell!callVars
  <2>2. Bell!PollTypeOK' BY <2>1 DEF BInv, Bell!PollTypeOK
  <2>3. QED
    BY <2>1, <2>2 DEF BInv, Bell!InboxTypeOK, OneCall, LatestRuns, FreshCount, SettledStays
<1>3. QED BY <1>1, <1>2

(* A call is over, answered or failed. *)
LEMMA FinishStep ==
  ASSUME BInv, NEW r \in Requests, Bell!Finish(r), shown' \subseteq Notes, UNCHANGED inbox
  PROVE  BInv'
<1>1. /\ request' = [request EXCEPT ![r] = "free"] /\ counted' = [counted EXCEPT ![r] = {}]
      /\ inFlight' = inFlight \ {r} /\ UNCHANGED <<active, visible, timer, latest, settled>>
  BY DEF Bell!Finish, Bell!InFlightWithout
<1>2. OneCall' BY <1>1 DEF BInv, OneCall
<1>3. Bell!Cardinality(inFlight') <= 1 BY <1>2, AtMostOne DEF OneCall
<1>4. Bell!PollTypeOK' BY <1>1, <1>3 DEF BInv, Bell!PollTypeOK
<1>5. FreshCount'
  <2>1. \A q \in Requests : request'[q] = "served" => request[q] = "served" /\ counted'[q] = counted[q]
    BY <1>1 DEF BInv, Bell!PollTypeOK
  <2>2. QED BY <1>1, <2>1 DEF BInv, Bell!PollTypeOK, FreshCount
<1>6. Bell!InboxTypeOK' /\ LatestRuns' /\ SettledStays'
  BY <1>1 DEF BInv, Bell!InboxTypeOK, LatestRuns, SettledStays
<1>7. QED BY <1>2, <1>4, <1>5, <1>6 DEF BInv

(* The server counts what is unread now, so nothing that is settled. *)
LEMMA ServeStep ==
  ASSUME BInv, NEW r \in Requests, Bell!Serve(r), UNCHANGED inbox PROVE BInv'
<1>1. /\ request' = [request EXCEPT ![r] = "served"]
      /\ counted' = [counted EXCEPT ![r] = Bell!Unread(Reader)]
      /\ UNCHANGED <<active, visible, timer, latest, inFlight, shown, settled>>
  BY DEF Bell!Serve, Bell!shownVars
<1>2. Bell!Unread(Reader) \subseteq Notes /\ Bell!Unread(Reader) \cap settled = {}
  BY DEF BInv, SettledStays, Bell!Unread, Bell!InboxTypeOK
<1>3. Bell!PollTypeOK' BY <1>1, <1>2 DEF BInv, Bell!PollTypeOK
<1>4. FreshCount'
  <2>1. counted'[r] = Bell!Unread(Reader)
        /\ \A q \in Requests \ {r} : request'[q] = request[q] /\ counted'[q] = counted[q]
    BY <1>1 DEF BInv, Bell!PollTypeOK
  <2>2. QED BY <1>1, <1>2, <2>1 DEF BInv, Bell!PollTypeOK, FreshCount
<1>5. Bell!InboxTypeOK' /\ OneCall' /\ LatestRuns' /\ SettledStays'
  BY <1>1 DEF BInv, Bell!InboxTypeOK, OneCall, LatestRuns, SettledStays
<1>6. QED BY <1>3, <1>4, <1>5 DEF BInv

(* Every step of the controller preserves the invariant. *)
LEMMA PollStep ==
  ASSUME BInv, Bell!Poll, UNCHANGED inbox PROVE BInv'
<1>0. active \in BOOLEAN /\ visible \in BOOLEAN /\ timer \in BOOLEAN
  BY DEF BInv, Bell!PollTypeOK
<1>1. CASE Bell!Start
  BY <1>0, <1>1, RefreshStep DEF Bell!Start, Bell!shownVars
<1>2. CASE Bell!Tick
  BY <1>0, <1>2, RefreshStep DEF Bell!Tick, Bell!shownVars
<1>3. ASSUME NEW v \in BOOLEAN, Bell!SetVisible(v) PROVE BInv'
  <2>1. CASE v BY <1>0, <1>3, <2>1, RefreshStep DEF Bell!SetVisible, Bell!shownVars
  <2>2. CASE ~v
    <3>1. UNCHANGED <<active, timer, request, counted, latest, inFlight, shown, settled>>
          /\ visible' = v
      BY <1>3, <2>2 DEF Bell!SetVisible, Bell!shownVars, Bell!callVars
    <3>2. Bell!PollTypeOK' BY <3>1 DEF BInv, Bell!PollTypeOK
    <3>3. QED
      BY <3>1, <3>2 DEF BInv, Bell!InboxTypeOK, OneCall, LatestRuns, FreshCount, SettledStays
  <2>3. QED BY <2>1, <2>2
<1>4. CASE Bell!ForceRefresh
  <2>1. /\ Bell!IssueRequest /\ active /\ UNCHANGED <<active, visible, timer, shown>>
        /\ settled' = (inbox.read \cup inbox.archived) \cap Bell!Owned(Reader)
    BY <1>4 DEF Bell!ForceRefresh
  <2>2. settled' \subseteq Notes /\ settled' \subseteq inbox.read \cup inbox.archived
    BY <2>1 DEF Bell!Owned
  <2>3. QED BY <1>0, <2>1, <2>2, IssueStep
<1>5. CASE Bell!Stop
  <2>1. /\ active' = FALSE /\ timer' = FALSE /\ latest' = {}
        /\ UNCHANGED <<visible, request, counted, inFlight, shown, settled>>
    BY <1>5 DEF Bell!Stop, Bell!shownVars
  <2>2. Bell!Cardinality({}) <= 1 BY AtMostOne
  <2>3. Bell!PollTypeOK' BY <2>1, <2>2 DEF BInv, Bell!PollTypeOK
  <2>4. QED
    BY <2>1, <2>3 DEF BInv, Bell!InboxTypeOK, OneCall, LatestRuns, FreshCount, SettledStays
<1>6. ASSUME NEW r \in Requests, Bell!Settle(r) PROVE BInv'
  <2>1. shown' \subseteq Notes BY <1>6 DEF Bell!Settle, BInv, Bell!PollTypeOK
  <2>2. QED BY <1>6, <2>1, FinishStep DEF Bell!Settle
<1>7. QED
  BY <1>1, <1>2, <1>3, <1>4, <1>5, <1>6, ServeStep DEF Bell!Poll, Bell!Answer

(* What users do to the inbox is for good. *)
LEMMA UserStep ==
  ASSUME BInv, NEW u \in Users, Bell!UserAct(u)
  PROVE  /\ Bell!InboxTypeOK'
         /\ inbox.read \subseteq inbox'.read /\ inbox.archived \subseteq inbox'.archived
<1> USE DEF BInv, Bell!InboxTypeOK
<1>1. Bell!Unread(u) \subseteq Notes BY DEF Bell!Unread
<1>2. CASE Bell!MarkAllRead(u) BY <1>1, <1>2 DEF Bell!MarkAllRead
<1>3. ASSUME NEW n \in Notes, Bell!MarkRead(n, u) \/ Bell!Archive(n, u)
      PROVE  /\ Bell!InboxTypeOK'
             /\ inbox.read \subseteq inbox'.read /\ inbox.archived \subseteq inbox'.archived
  BY <1>3 DEF Bell!MarkRead, Bell!Archive
<1>4. QED BY <1>2, <1>3 DEF Bell!UserAct

(* Every step of the pipeline preserves the bell's invariant. *)
LEMMA BellStep ==
  ASSUME RInv, BInv, [PipelineNext]_allVars PROVE BInv'
<1>1. CASE UNCHANGED <<inbox, bellVars>>
  BY <1>1, BellRests DEF BInv, Bell!InboxTypeOK
<1>2. ASSUME NEW c \in Consumers, Notifying(c) PROVE BInv'
  <2>1. job[c] \in Envelopes BY <1>2 DEF Notifying, Commit, RInv, JobInv
  <2>2. inbox' = [inbox EXCEPT !.rows = @ \cup {NoteOf[job[c]]}] /\ UNCHANGED bellVars
    BY <1>2 DEF Notifying, Bell!Notify
  <2>3. NoteOf[job[c]] \in Notes BY <2>1, PipelineAssumption
  <2>4. QED BY <2>2, <2>3, BellRests DEF BInv, Bell!InboxTypeOK
<1>3. ASSUME NEW u \in Users, Bell!UserAct(u), UNCHANGED bellVars PROVE BInv'
  BY <1>3, UserStep, BellRests
<1>4. CASE RequestFails
  <2>1. PICK r \in Requests : Bell!Reject(r) BY <1>4 DEF RequestFails
  <2>2. UNCHANGED inbox /\ shown' \subseteq Notes
    BY <1>4, <2>1 DEF RequestFails, Bell!Reject, BInv, Bell!PollTypeOK
  <2>3. QED BY <2>1, <2>2, FinishStep DEF Bell!Reject
<1>5. QED
  BY <1>1, <1>2, <1>3, <1>4, PollStep
  DEF PipelineNext, Arrive, Consume, Deliveries, allVars

(* The inductive invariant of the receipt inbox, on its own: types, executions with an
   envelope, one insert per key, and the two properties. *)
THEOREM ReceiptInvariance == Spec => []RInv
<1>1. ASSUME RInv, [Next]_vars PROVE RInv'
  <2>1. CASE UNCHANGED vars BY <1>1, <2>1, StutterStep DEF vars, receiptVars, RInv, TypeOK
  <2>2. QED BY <1>1, <2>1, ReceiptStep
<1>2. QED BY <1>1, InitRInv, PTL DEF Spec

(* ... and in the pipeline, where notifications, users and the bell act in between. *)
THEOREM PipelineInvariance == PipelineSpec => []RInv
<1>1. PipelineInit => RInv BY InitRInv DEF PipelineInit
<1>2. QED BY <1>1, PipelineStep, PTL DEF PipelineSpec

(* withIntegrationEventReceipt, for its callers: however executions overlap, fail and are
   redelivered, what is committed and answered is what one step per arrival would do. *)
THEOREM AtomicTheorem == Spec => AtomicInbox
<1>1. Init => AtomicInit BY DEF Init, AtomicInit
<1>2. QED BY <1>1, ReceiptInvariance, ReceiptRefines, PTL DEF Spec, AtomicInbox

(* ... and in the pipeline, whose other steps leave the inbox alone. *)
THEOREM PipelineAtomic == PipelineSpec => AtomicInbox
<1>1. PipelineInit => AtomicInit BY DEF PipelineInit, Init, AtomicInit
<1>2. RInv /\ [PipelineNext]_allVars => [AtomicNext]_<<receipts, runs, answer>>
  <2> SUFFICES ASSUME RInv, [PipelineNext]_allVars
               PROVE  [AtomicNext]_<<receipts, runs, answer>>
    OBVIOUS
  <2>1. Next \/ UNCHANGED <<receipts, runs, answer>>
    <3>1. ASSUME NEW v \in Envelopes, Arrive(v) PROVE Next
      BY <3>1 DEF Arrive, Next, Receive
    <3>2. ASSUME NEW c \in Consumers, Consume(c) \/ (Abort(c) /\ Deliveries) PROVE Next
      BY <3>2 DEF Consume, Notifying, Next, Receive, Work
    <3>3. QED BY <3>1, <3>2 DEF PipelineNext, RequestFails, vars, allVars
  <2>2. CASE Next BY <2>2, ReceiptRefines
  <2>3. QED BY <2>1, <2>2
<1>3. QED BY <1>1, <1>2, PipelineInvariance, PTL DEF PipelineSpec, AtomicInbox

(* withIntegrationEventReceipt: one business callback takes effect per event. *)
THEOREM OnceTheorem == PipelineSpec => []ProcessedOnce
  BY PipelineInvariance, PTL DEF RInv

(* withIntegrationEventReceipt: "duplicate" and "processed" are true of what was sent,
   and only what differs from what was processed is rejected. *)
THEOREM AnswersTheorem == PipelineSpec => []AnswersTrue
  BY PipelineInvariance, PTL DEF RInv

(* Type correctness of the receipt inbox, the notifications and the bell together. *)
THEOREM PipelineTypes == PipelineSpec => []PipelineTypeOK
<1>1. PipelineInit => RInv /\ BInv BY InitRInv, BellInit DEF PipelineInit
<1>2. RInv /\ BInv /\ [PipelineNext]_allVars => RInv' /\ BInv' BY PipelineStep, BellStep
<1>3. RInv /\ BInv => PipelineTypeOK BY DEF RInv, BInv, PipelineTypeOK
<1>4. QED BY <1>1, <1>2, <1>3, PTL DEF PipelineSpec

(* createNotificationPollingController: a count that appears is of a running controller
   and leaves out what the reader had read or archived when last refreshing by hand. *)
THEOREM NoStaleTheorem == PipelineSpec => NoStaleCount
<1> DEFINE A == shown' # shown => active /\ shown' \cap settled = {}
<1>1. ASSUME BInv, PipelineNext PROVE A
  <2> SUFFICES ASSUME shown' # shown PROVE active /\ shown' \cap settled = {} OBVIOUS
  <2>1. PICK r \in Requests : Bell!Settle(r)
    BY <1>1 DEF PipelineNext, Arrive, Consume, Notifying, Deliveries, bellVars, RequestFails,
                Bell!Reject, Bell!Poll, Bell!Answer, Bell!Start, Bell!Stop, Bell!Tick,
                Bell!ForceRefresh, Bell!SetVisible, Bell!Serve, Bell!shownVars
  <2>2. r \in latest /\ shown' = counted[r] /\ request[r] = "served"
    BY <2>1 DEF Bell!Settle, Bell!IsLatest
  <2>3. QED BY <1>1, <2>2 DEF BInv, LatestRuns, FreshCount
<1>2. BInv /\ [PipelineNext]_allVars => [A]_(Bell!pollVars)
  BY <1>1 DEF allVars, bellVars, Bell!pollVars, Bell!callVars, Bell!shownVars
<1>3. PipelineInit => RInv /\ BInv BY InitRInv, BellInit DEF PipelineInit
<1>4. RInv /\ BInv /\ [PipelineNext]_allVars => RInv' /\ BInv' BY PipelineStep, BellStep
<1>5. QED BY <1>2, <1>3, <1>4, PTL DEF PipelineSpec, NoStaleCount, Bell!NoStaleCount
================================================================================
