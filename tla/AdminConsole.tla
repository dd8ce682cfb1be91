----------------------------- MODULE AdminConsole -----------------------------
(***************************************************************************)
(* The admin pages' widgets: the actions of a row (users, roles, API keys, *)
(* deliveries) and the dialogs that create them.  One behaviour is of one  *)
(* widget, whose page may be stale: another tab changes the same row.      *)
(*                                                                         *)
(* Every widget runs its calls in one useTransition and disables its       *)
(* buttons meanwhile; Escape still closes a dialog.                        *)
(***************************************************************************)
EXTENDS Naturals, FiniteSets

CONSTANTS MaxCalls, MaxEdits     \* bounds: calls of the widget, changes by another tab

VARIABLES
    widget,
    stored, shown,      \* the row at the server, and as the page last rendered it
    dialog,             \* the dialogs that are open
    transition,         \* calls in flight: [name, value, left, result]
    error,              \* the call whose error is shown: {} or one
    created,            \* a new key's secret: {} or one
    copied,
    called, changed,
    last,               \* history: the call that ended last, and whether it failed
    missed              \* history: how secrets were missed

vars == <<widget, stored, shown, dialog, transition, error, created, copied, called, changed,
          last, missed>>
history == <<last, missed>>

Creates == {"create user", "create role", "create key"}
Rows == {"user row", "role row", "key row", "deliveries"}

--------------------------------------------------------------------------------
(* What each widget offers: dialogs to open, and calls made at once. *)

Offer(dialogs, calls) == [dialogs |-> dialogs, calls |-> calls]
UserRow == Offer({"choice"} \cup (IF shown.fixed THEN {} ELSE {"delete"}), {"active", "marked"})
RoleRow == Offer({"choice"} \cup (IF shown.fixed \/ shown.used THEN {} ELSE {"delete"}), {})
KeyRow  == Offer({"choice", "delete"}, {"active"})
Deliveries == Offer({}, IF shown.dead THEN {"retry", "ignore"} ELSE {})
CreateUser == Offer({"create"}, {})
CreateRole == Offer({"create"}, {})
CreateKey  == Offer({"create"}, {})

Offered ==
    CASE widget = "user row"    -> UserRow
      [] widget = "role row"    -> RoleRow
      [] widget = "key row"     -> KeyRow
      [] widget = "deliveries"  -> Deliveries
      [] widget = "create user" -> CreateUser
      [] widget = "create role" -> CreateRole
      [] widget = "create key"  -> CreateKey

(* What the requests ask of the server, and what it does when it accepts them.  A toggle asks
   for the opposite of what the page shows. *)
Asked(name) ==
    CASE name = "active" -> {~shown.active}
      [] name = "marked" -> {~shown.marked}
      [] OTHER -> BOOLEAN
UserRequests(c) ==
    CASE c.name = "active" -> [stored EXCEPT !.active = c.value]
      [] c.name = "marked" -> [stored EXCEPT !.marked = c.value]
      [] c.name = "choice" -> [stored EXCEPT !.choice = c.value]
      [] c.name = "delete" -> [stored EXCEPT !.gone = TRUE]
      [] OTHER -> stored
RoleRequests(c) ==
    CASE c.name = "choice" -> [stored EXCEPT !.choice = c.value]
      [] c.name = "delete" -> [stored EXCEPT !.gone = TRUE]
      [] OTHER -> stored
KeyRequests(c) ==
    CASE c.name = "active" -> [stored EXCEPT !.active = c.value]
      [] c.name = "choice" -> [stored EXCEPT !.choice = c.value]
      [] c.name = "delete" -> [stored EXCEPT !.gone = TRUE]
      [] OTHER -> stored
DeliveryRequests(c) == [stored EXCEPT !.dead = FALSE]
Requests(c) ==
    CASE widget \in {"user row", "create user"} -> UserRequests(c)
      [] widget \in {"role row", "create role"} -> RoleRequests(c)
      [] widget \in {"key row", "create key"}   -> KeyRequests(c)
      [] widget = "deliveries" -> DeliveryRequests(c)

(* The ADMIN role's dialog has its policy disabled, so the form holds none: the request says
   null, which the server's schema refuses.  Rows that are gone, and roles and accounts the
   service protects, are refused too. *)
MustRefuse(c) ==
    \/ stored.gone
    \/ widget = "role row" /\ c.name = "choice" /\ stored.fixed
    \/ widget = "role row" /\ c.name = "delete" /\ (stored.fixed \/ stored.used)
    \/ widget = "deliveries" /\ ~stored.dead

--------------------------------------------------------------------------------
Init ==
    /\ widget \in Creates \cup Rows
    /\ stored \in [active : {TRUE}, marked : {FALSE}, choice : {FALSE}, fixed : BOOLEAN,
                   used : {FALSE}, dead : {TRUE}, gone : {FALSE}]
    /\ shown = stored
    /\ dialog = {} /\ transition = {} /\ error = {} /\ created = {} /\ copied = FALSE
    /\ called = 0 /\ changed = 0
    /\ last = [name |-> "none", failed |-> FALSE] /\ missed = {}

isPending == transition # {}

(* A secret that leaves the widget's state unseen, or never reaches it. *)
Unseen(why) == missed' = missed \cup why

setOpen(d) ==
    /\ d \in Offered.dialogs /\ d \notin dialog /\ dialog = {}
    /\ dialog' = {d}
    /\ error' = IF widget \in Creates THEN {} ELSE error
    /\ created' = {} /\ copied' = FALSE
    /\ Unseen({x.why : x \in {y \in created : ~y.seen}})
    /\ UNCHANGED <<widget, stored, shown, transition, called, changed, last>>

(* Cancel and Done are disabled while a call runs, or until the key is copied; Escape is not. *)
Close(d) ==
    /\ d \in dialog /\ dialog' = {}
    /\ transition' = {IF c.name = d THEN [c EXCEPT !.left = TRUE] ELSE c : c \in transition}
    /\ UNCHANGED <<widget, stored, shown, error, created, copied, called, changed, history>>

handleCopy ==
    /\ created # {} /\ dialog # {} /\ ~copied /\ copied' = TRUE
    /\ UNCHANGED <<widget, stored, shown, dialog, transition, error, created, called, changed, history>>

(* toggleActive, toggleServiceAccount, handleRolesSubmit, handleEditSubmit, handleDelete,
   handleActingUserSubmit, handleRetry, handleIgnore, handleSubmit *)
Enabled(name) == ~isPending /\ (name \in Offered.calls \/ (name \in dialog /\ created = {}))
Call(name) ==
    /\ Enabled(name)
    /\ called < MaxCalls /\ called' = called + 1
    /\ error' = {}
    /\ \E v \in Asked(name) :
          transition' = transition \cup {[name |-> name, value |-> v, left |-> FALSE, result |-> "sent"]}
    /\ UNCHANGED <<widget, stored, shown, dialog, created, copied, changed, history>>

Serve(c) ==
    /\ c.result = "sent"
    /\ \/ /\ ~MustRefuse(c) /\ stored' = Requests(c)
          /\ transition' = (transition \ {c}) \cup {[c EXCEPT !.result = "done"]}
       \/ /\ UNCHANGED stored
          /\ transition' = (transition \ {c}) \cup {[c EXCEPT !.result = "refused"]}
    /\ UNCHANGED <<widget, shown, dialog, error, created, copied, called, changed, history>>

(* A bug: the dialog that shows the key closes like the others. *)
ClosesAlways(c) == {c.name}

(* What a success closes; the dialog of a new key stays, to show it. *)
Closes(c) == IF widget = "create key" THEN {} ELSE {c.name}
Succeeds(c) ==
    /\ c.result = "done"
    /\ transition' = transition \ {c}
    /\ dialog' = dialog \ Closes(c)
    /\ created' = IF widget = "create key"
                  THEN {[seen |-> c.name \in dialog', why |-> IF c.left THEN "left" ELSE "hidden"]}
                  ELSE created
    /\ last' = [name |-> c.name, failed |-> FALSE]
    /\ UNCHANGED <<widget, stored, shown, error, copied, called, changed, missed>>

(* runAction: the message of the API, or the fallback when no answer came. *)
Fails(c) ==
    /\ transition' = transition \ {c}
    /\ error' = {c.name}
    /\ last' = [name |-> c.name, failed |-> TRUE]
    /\ Unseen(IF widget = "create key" /\ c.result = "done" THEN {"lost"} ELSE {})
    /\ UNCHANGED <<widget, stored, shown, dialog, created, copied, called, changed>>

(* Another tab, and the page rendered anew. *)
Elsewhere ==
    /\ widget \in Rows /\ changed < MaxEdits /\ changed' = changed + 1
    /\ stored' \in {[stored EXCEPT !.active = ~@], [stored EXCEPT !.used = ~@],
                    [stored EXCEPT !.dead = ~@], [stored EXCEPT !.gone = TRUE]}
    /\ UNCHANGED <<widget, shown, dialog, transition, error, created, copied, called, history>>
Render ==
    /\ shown # stored /\ ~stored.gone /\ shown' = stored
    /\ UNCHANGED <<widget, stored, dialog, transition, error, created, copied, called, changed, history>>

Next ==
    \/ \E d \in {"choice", "delete", "create"} : setOpen(d) \/ Close(d)
    \/ handleCopy
    \/ \E n \in {"active", "marked", "choice", "delete", "retry", "ignore", "create"} : Call(n)
    \/ \E c \in transition : Serve(c) \/ Succeeds(c) \/ Fails(c)
    \/ Elsewhere \/ Render

Spec == Init /\ [][Next]_vars

--------------------------------------------------------------------------------
(* A key's secret is shown once: it is missed only when its answer was lost, or when the
   administrator closed the dialog before the answer came. *)
SecretShown == "hidden" \notin missed

(* A widget has one call at most in flight, and an error that it shows is of the call that
   ended last, whatever was opened, closed or pressed meanwhile. *)
ErrorsAreCurrent ==
    /\ Cardinality(transition) <= 1
    /\ error # {} => last.failed /\ error = {last.name}

ConsoleRight == SecretShown /\ ErrorsAreCurrent
================================================================================
