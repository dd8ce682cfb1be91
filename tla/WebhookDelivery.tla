--------------------------- MODULE WebhookDelivery ---------------------------
(***************************************************************************)
(* A domain event on its way to another App as a signed webhook:           *)
(* postDomainEventWebhookV2 sends it, verifyDomainEventWebhookV2 checks    *)
(* it, the receiver applies it under its receipt, classifyHttpOutcome      *)
(* turns the answer into the dispatcher's verdict.  Between the two lies   *)
(* a network that delays, repeats and loses, two clocks, and a secret that *)
(* operators rotate: at the receiver first, which keeps the previous       *)
(* secret for Overlap, then at the sender.                                 *)
(***************************************************************************)
EXTENDS Integers, FiniteSets

CONSTANTS
    Events,
    Horizon,        \* bound: ticks of the clock
    Timeout,        \* the sender gives up on an answer after that many ticks
    Window,         \* the receiver's freshness window, maxAgeMs
    Overlap,        \* how long a rotated secret stays valid
    Skews,          \* how far the receiver's clock may be ahead (or behind)
    MaxAttempts     \* the dispatcher's attempt budget

VARIABLES
    now,
    skew,           \* receiver clock - sender clock
    sender,         \* the secret it signs with
    keys,           \* the receiver's WebhookKey: secret, previousSecret and its expiry
    enabled,        \* bindingEnabled(bindingId)
    wire,           \* every request ever sent: the network may deliver it again
    waiting,        \* the request the sender awaits an answer to, or None
    verdict,        \* per event: pending, processed, or dead
    attempts,       \* per event
    applied         \* events whose receipt and effect are committed
vars == <<now, skew, sender, keys, enabled, wire, waiting, verdict, attempts, applied>>

None == [event |-> "none"]
ReceiverNow == now + skew

-----------------------------------------------------------------------------
\* buildWebhookV2Headers and createWebhookV2Signature over method, target,
\* timestamp, event, capability, binding and body digest: the signature is the
\* secret and what it covers.
Signed(e) == [event |-> e, stamp |-> now, signature |-> <<sender, e, now>>]

Age(m) == IF ReceiverNow >= m.stamp THEN ReceiverNow - m.stamp ELSE m.stamp - ReceiverNow

\* Mutant of Fresh: the window is open at its edge.
Inside(m) == Age(m) < Window
Fresh(m) == Age(m) <= Window

\* Mutant of Secrets: a rotation takes effect at once.
CurrentOnly == {keys.secret}
Secrets == {keys.secret}
           \cup (IF keys.previous # 0 /\ keys.expires >= ReceiverNow
                 THEN {keys.previous} ELSE {})
SignedRightly(m) == \E s \in Secrets : m.signature = <<s, m.event, m.stamp>>

\* Mutant of Verified: a disabled binding takes the request for later.
AcceptedForLater(m) ==
    IF ~Fresh(m) \/ ~SignedRightly(m) THEN 401 ELSE IF enabled THEN 200 ELSE 202
\* verifyDomainEventWebhookV2: the status the receiver answers before it looks
\* at its receipts.
Verified(m) ==
    IF ~Fresh(m) \/ ~SignedRightly(m) THEN 401 ELSE IF enabled THEN 200 ELSE 503

\* classifyHttpOutcome
Classified(status) ==
    CASE status \in 200..299 -> "processed"
      [] status = 409 -> "processed"      \* already_processed, for this event
      [] status \in {408, 425, 429} \/ status >= 500 -> "retryable"
      [] OTHER -> "terminal"

-----------------------------------------------------------------------------
Init ==
    /\ now = 0
    /\ skew \in Skews
    /\ sender = 1
    /\ keys = [secret |-> 1, previous |-> 0, expires |-> 0]
    /\ enabled = TRUE
    /\ wire = {}
    /\ waiting = None
    /\ verdict = [e \in Events |-> "pending"]
    /\ attempts = [e \in Events |-> 0]
    /\ applied = {}

\* An attempt of the dispatcher: a fresh timestamp, the same event id.
Post(e) ==
    /\ waiting = None
    /\ verdict[e] = "pending"
    /\ waiting' = Signed(e)
    /\ wire' = wire \cup {Signed(e)}
    /\ attempts' = [attempts EXCEPT ![e] = @ + 1]
    /\ UNCHANGED <<now, skew, sender, keys, enabled, verdict, applied>>

\* The attempt of the awaited request ends; a spent budget makes it final.
Settle(outcome) ==
    LET e == waiting.event
    IN /\ verdict' = [verdict EXCEPT ![e] =
             CASE outcome = "processed" -> "processed"
               [] outcome = "terminal" -> "dead: rejected"
               [] outcome = "retryable" ->
                     IF attempts[e] >= MaxAttempts THEN "dead: budget" ELSE "pending"]
       /\ waiting' = None

\* A request, or a copy of an old one, reaches the receiver: 200 applies the
\* event once (409 tells a repetition), and the answer arrives only while the
\* sender still waits for that very request.
Receive(m, answered) ==
    LET status == IF Verified(m) = 200 /\ m.event \in applied THEN 409 ELSE Verified(m)
    IN /\ m \in wire
       /\ applied' = IF status = 200 THEN applied \cup {m.event} ELSE applied
       /\ IF answered
          THEN waiting = m /\ Settle(Classified(status))
          ELSE UNCHANGED <<verdict, waiting>>
       /\ UNCHANGED <<now, skew, sender, keys, enabled, wire, attempts>>

\* postToFixedDestination: no answer, a reset, a timeout; the deadline bounds
\* how long a request is awaited.
GiveUp ==
    /\ waiting # None
    /\ Settle("retryable")
    /\ UNCHANGED <<now, skew, sender, keys, enabled, wire, attempts, applied>>

\* Operators: the receiver rotates, the sender follows; the App is disabled
\* and enabled.
Rotate ==
    /\ keys.previous = 0
    /\ keys' = [secret |-> 2, previous |-> keys.secret, expires |-> ReceiverNow + Overlap]
    /\ UNCHANGED <<now, skew, sender, enabled, wire, waiting, verdict, attempts, applied>>
Follow ==
    /\ sender # keys.secret
    /\ sender' = keys.secret
    /\ UNCHANGED <<now, skew, keys, enabled, wire, waiting, verdict, attempts, applied>>
Toggle ==
    /\ enabled' = ~enabled
    /\ UNCHANGED <<now, skew, sender, keys, wire, waiting, verdict, attempts, applied>>

\* Time passes; an awaited request is given up in time, and the sender follows
\* a rotation before what it last signed could outlive the overlap.
Tick ==
    /\ now < Horizon
    /\ waiting # None => now - waiting.stamp < Timeout
    /\ sender # keys.secret => ReceiverNow + Timeout < keys.expires
    /\ now' = now + 1
    /\ UNCHANGED <<skew, sender, keys, enabled, wire, waiting, verdict, attempts, applied>>

Next ==
    \/ \E e \in Events : Post(e)
    \/ \E m \in wire, answered \in BOOLEAN : Receive(m, answered)
    \/ GiveUp \/ Rotate \/ Follow \/ Toggle \/ Tick

Spec == Init /\ [][Next]_vars

-----------------------------------------------------------------------------
\* What the sender counts as processed was applied by the receiver, lost
\* answers, repetitions and rotations notwithstanding.
ProcessedWasApplied ==
    \A e \in Events : verdict[e] = "processed" => e \in applied

\* With clocks that differ by no more than the window leaves, and a sender that
\* follows a rotation in time, no event is rejected for good: only a spent
\* budget ends an event unprocessed.  A rejection is 401, which is terminal.
OnlyTheBudgetKills == \A e \in Events : verdict[e] # "dead: rejected"
=============================================================================
