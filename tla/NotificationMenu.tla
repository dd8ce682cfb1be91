---------------------------- MODULE NotificationMenu ----------------------------
(***************************************************************************)
(* The menu of the notification bell (@appspine/notification frontend):    *)
(* the list it shows while loads, clicks, "mark all read", timeouts and    *)
(* failures overlap.  NotificationPolling models the badge's count.        *)
(*                                                                         *)
(* A list is a function from the notifications it holds, numbered in the   *)
(* order of their creation, to whether they are shown as read.             *)
(***************************************************************************)
EXTENDS Naturals, FiniteSets

CONSTANTS
    Ids,            \* notifications: 1..n
    Linked,         \* those with a page of their own
    MaxItems,       \* the list's length
    MaxLoads, MaxMarks, MaxFaults, MaxReads     \* bounds

VARIABLES
    inbox,          \* the server's rows
    recent,         \* [items, loading, error]
    optimistic,     \* the lists that stand in for recent.items: {} or one
    open, markingAll,
    count, pollingError,    \* of useNotificationPolling
    loads,          \* loads in flight: [n, for, answer]
    marks,          \* marks in flight
    made,           \* numbers given to loads and marks
    reads, faults,
    mixed           \* history: the list was restored to one that held another mark's guess

vars == <<inbox, recent, optimistic, open, markingAll, count, pollingError, loads, marks, made,
          reads, faults, mixed>>

None == [i \in {} |-> FALSE]
Unread(list) == {i \in DOMAIN list : ~list[i]}
AllRead(list) == [i \in DOMAIN list |-> TRUE]
Newest(list) == [i \in {j \in DOMAIN list : Cardinality({k \in DOMAIN list : k > j}) < MaxItems} |-> list[i]]

displayItems == IF optimistic = {} THEN recent.items ELSE CHOOSE l \in optimistic : TRUE
canMarkAllRead == IF pollingError THEN Unread(displayItems) # {} ELSE count > 0

Fresh == [items |-> None, loading |-> FALSE, error |-> FALSE]
Page ==
    /\ recent = Fresh /\ optimistic = {} /\ open = FALSE /\ markingAll = FALSE
    /\ loads = {} /\ mixed = FALSE

Init ==
    /\ inbox = [i \in {1} |-> FALSE] /\ Page
    /\ count = 1 /\ pollingError = FALSE
    /\ marks = {} /\ made = [load |-> 0, mark |-> 0] /\ reads = 0 /\ faults = 0

--------------------------------------------------------------------------------
(* The list *)

Load(whom) ==
    /\ made.load < MaxLoads
    /\ made' = [made EXCEPT !.load = @ + 1]
    /\ recent' = [recent EXCEPT !.loading = TRUE, !.error = FALSE]
    /\ loads' = loads \cup {[n |-> made.load, for |-> whom, answer |-> {}]}

handleOpenChange ==
    \/ ~open /\ open' = TRUE /\ Load("user")
       /\ UNCHANGED <<inbox, optimistic, markingAll, count, pollingError, marks, reads, faults, mixed>>
    \/ open /\ open' = FALSE
       /\ UNCHANGED <<inbox, recent, optimistic, markingAll, count, pollingError, loads, marks,
                      made, reads, faults, mixed>>
Retry ==
    /\ open /\ ~recent.loading /\ recent.error /\ Load("user")
    /\ UNCHANGED <<inbox, optimistic, open, markingAll, count, pollingError, marks, reads, faults, mixed>>

AnswerLoad(l) ==
    /\ l.answer = {}
    /\ loads' = (loads \ {l}) \cup {[l EXCEPT !.answer = {Newest(inbox)}]}
    /\ UNCHANGED <<inbox, recent, optimistic, open, markingAll, count, pollingError, marks, made,
                   reads, faults, mixed>>

(* The end of loadRecent, and of handleMarkAllRead when it waits for this load. *)
Ends(l) ==
    /\ loads' = loads \ {l}
    /\ markingAll' = (markingAll /\ l.for # "mark all")
    /\ UNCHANGED <<inbox, open, count, pollingError, marks, made, reads>>
Loaded(l) ==
    /\ l.answer # {}
    /\ recent' = [items |-> CHOOSE x \in l.answer : TRUE, loading |-> FALSE, error |-> FALSE]
    /\ optimistic' = {} /\ mixed' = FALSE
    /\ Ends(l) /\ UNCHANGED faults
LoadFails(l) ==
    /\ faults < MaxFaults /\ faults' = faults + 1
    /\ recent' = [recent EXCEPT !.loading = FALSE, !.error = TRUE]
    /\ Ends(l) /\ UNCHANGED <<optimistic, mixed>>

--------------------------------------------------------------------------------
(* Marks *)

InFlight == {m \in marks : m.at \in {"sent", "applied"}}
Mark(kind, what, guess) ==
    /\ made.mark < MaxMarks
    /\ made' = [made EXCEPT !.mark = @ + 1]
    /\ marks' = marks \cup {[n |-> made.mark, kind |-> kind, what |-> what, at |-> "sent",
                             previous |-> displayItems, amid |-> mixed \/ InFlight # {}]}
    /\ optimistic' = {guess}
    /\ UNCHANGED <<inbox, recent, count, pollingError, loads, reads, faults, mixed>>

handleMarkAllRead ==
    /\ open /\ ~markingAll /\ canMarkAllRead
    /\ Mark("all", DOMAIN displayItems, AllRead(displayItems))
    /\ markingAll' = TRUE /\ UNCHANGED open

(* A click on an item closes the menu. *)
handleNotificationClick(i) ==
    /\ open /\ ~recent.loading /\ ~recent.error /\ i \in Unread(displayItems)
    /\ Mark("one", {i}, [displayItems EXCEPT ![i] = TRUE])
    /\ open' = FALSE /\ UNCHANGED markingAll

(* The server's two updates. *)
Applied(m) == [i \in DOMAIN inbox |-> inbox[i] \/ m.kind = "all" \/ i \in m.what]
ServerMarks(m) ==
    /\ m.at \in {"sent", "late"}
    /\ inbox' = Applied(m)
    /\ marks' = (marks \ {m}) \cup (IF m.at = "late" THEN {} ELSE {[m EXCEPT !.at = "applied"]})
    /\ UNCHANGED <<recent, optimistic, open, markingAll, count, pollingError, loads, made, reads,
                   faults, mixed>>

Refreshed == count' = Cardinality(Unread(inbox)) /\ pollingError' = FALSE
Leave ==            \* window.location.assign
    /\ recent' = Fresh /\ optimistic' = {} /\ open' = FALSE /\ markingAll' = FALSE
    /\ loads' = {} /\ mixed' = FALSE

(* The requests that left the page go on at the server. *)
Abandoned(m) == {[x EXCEPT !.at = "late"] : x \in {y \in marks \ {m} : y.at # "applied"}}
Follows(m) ==       \* to the page of the notification, if it has one
    IF m.kind = "one" /\ m.what \subseteq Linked
    THEN Leave /\ marks' = Abandoned(m)
    ELSE marks' = (marks \ {m}) /\ UNCHANGED <<open, loads, recent>>

MarkedOne(m) ==
    /\ m.kind = "one" /\ m.at = "applied"
    /\ Refreshed /\ Follows(m)
    /\ IF m.what \subseteq Linked THEN TRUE ELSE UNCHANGED <<optimistic, markingAll, mixed>>
    /\ UNCHANGED <<inbox, made, reads, faults>>

(* "Marking" ends with the load that follows. *)
MarkedAll(m) ==
    /\ m.kind = "all" /\ m.at = "applied"
    /\ marks' = marks \ {m}
    /\ Refreshed /\ Load("mark all")
    /\ UNCHANGED <<inbox, optimistic, open, markingAll, reads, faults, mixed>>

(* A bug: the next load is trusted to put the list right. *)
KeepGuess(m) == optimistic

(* The catch blocks: the list as it was before the click. *)
Rollback(m) == {m.previous}
Missed(m) ==
    /\ faults < MaxFaults /\ faults' = faults + 1
    /\ Follows(m)
    /\ IF m.kind = "one" /\ m.what \subseteq Linked THEN TRUE
       ELSE /\ optimistic' = Rollback(m) /\ mixed' = (mixed \/ m.amid)
            /\ markingAll' = (markingAll /\ m.kind # "all")
    /\ UNCHANGED <<inbox, count, pollingError, made, reads>>
Fails(m) == m.at \in {"sent", "applied"} /\ Missed(m)

(* MARK_READ_TIMEOUT_MS: the server may still mark it. *)
TimesOut(m) ==
    /\ m.kind = "one" /\ m.at = "sent" /\ faults < MaxFaults /\ faults' = faults + 1
    /\ IF m.what \subseteq Linked
       THEN Leave /\ marks' = Abandoned(m) \cup {[m EXCEPT !.at = "late"]}
       ELSE /\ marks' = (marks \ {m}) \cup {[m EXCEPT !.at = "late"]}
            /\ optimistic' = Rollback(m) /\ mixed' = (mixed \/ m.amid)
            /\ UNCHANGED <<recent, open, markingAll, loads>>
    /\ UNCHANGED <<inbox, count, pollingError, made, reads>>

(* A notification that is shown as read takes the user to its page at once. *)
Visit(i) ==
    /\ open /\ ~recent.loading /\ ~recent.error
    /\ i \in Linked \cap (DOMAIN displayItems \ Unread(displayItems))
    /\ Leave /\ marks' = {[x EXCEPT !.at = "late"] : x \in {y \in marks : y.at # "applied"}}
    /\ UNCHANGED <<inbox, count, pollingError, made, reads, faults>>

--------------------------------------------------------------------------------
(* Elsewhere *)

Client == <<recent, optimistic, open, markingAll, loads, marks, made, mixed>>
Arrives ==
    /\ \E i \in Ids \ DOMAIN inbox :
          /\ \A j \in Ids : j < i => j \in DOMAIN inbox
          /\ inbox' = [j \in DOMAIN inbox \cup {i} |-> j # i /\ inbox[j]]
    /\ UNCHANGED <<Client, count, pollingError, reads, faults>>
ReadElsewhere ==
    /\ reads < MaxReads /\ reads' = reads + 1
    /\ \E i \in Unread(inbox) : inbox' = [inbox EXCEPT ![i] = TRUE]
    /\ UNCHANGED <<Client, count, pollingError, faults>>
Poll ==
    /\ \/ Refreshed /\ UNCHANGED faults
       \/ ~pollingError /\ pollingError' = TRUE /\ faults < MaxFaults /\ faults' = faults + 1
          /\ UNCHANGED count
    /\ UNCHANGED <<inbox, Client, reads>>

Next ==
    \/ handleOpenChange \/ Retry \/ handleMarkAllRead
    \/ \E i \in Ids : handleNotificationClick(i) \/ Visit(i)
    \/ \E l \in loads : AnswerLoad(l) \/ Loaded(l) \/ LoadFails(l)
    \/ \E m \in marks : ServerMarks(m) \/ MarkedOne(m) \/ MarkedAll(m) \/ Fails(m) \/ TimesOut(m)
    \/ Arrives \/ ReadElsewhere \/ Poll

Spec == Init /\ [][Next]_vars

--------------------------------------------------------------------------------
(* Nothing is shown as read that is not: what the list shows as read is read, or is being
   marked, unless the list was restored to one that held the guess of another click. *)
NoFalseRead ==
    mixed \/ \A i \in DOMAIN displayItems :
                displayItems[i] => inbox[i] \/ \E m \in marks : m.at = "sent" /\ i \in m.what
================================================================================
