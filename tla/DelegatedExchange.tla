--------------------------- MODULE DelegatedExchange ---------------------------
(***************************************************************************)
(* OidcDelegationService.exchange under one policy: the sanity check of    *)
(* the subject token, the outbound throttle (rate window and circuit), the *)
(* call of Keycloak's token endpoint, what its answer is made of, and the  *)
(* log of rejections.  Exchanges overlap; an answer arrives whenever it    *)
(* does.  ApiKeyRateLimiter of m2m-api-key is the same window with a       *)
(* Retry-After, kept here beside its twin.                                 *)
(*                                                                         *)
(* Time is counted in units; a timer fires at any moment once it is due.   *)
(***************************************************************************)
EXTENDS Naturals, FiniteSets, Sequences

CONSTANTS
    Calls,          \* exchanges that may be under way at once
    Window,         \* WINDOW_MS
    Limit,          \* maxExchangesPerMinutePerPolicy, or rateLimit of a key
    Threshold,      \* failureThreshold
    Cooldown,       \* cooldownMs
    LogLimit,       \* REJECTIONS_PER_MINUTE
    MaxExpires,     \* maxExpiresInSeconds of the policy
    MaxNow, MaxExchanges

VARIABLES
    now,
    bucket,         \* the policy's window: [count, start], or Empty
    failures, openUntil, \* its circuit: absent is <<0, 0>>
    call,           \* exchanges waiting for the token endpoint
    keyBucket,      \* the window of an API key
    logBucket, suppressed, disposed, \* SecurityEventLog
    exchanges,
    sent, passed,   \* history: times of outbound calls, of requests served for the key
    waitUntil,      \* history: when the last refused key request may come again, 0 if none
    outages, logged, rejections, late \* history: what the properties count

vars == <<now, bucket, failures, openUntil, call, keyBucket, logBucket, suppressed, disposed,
          exchanges, sent, passed, waitUntil, outages, logged, rejections, late>>
circuit == <<failures, openUntil>>
counters == <<outages, rejections, logged, late>>
keyVars == <<keyBucket, passed, waitUntil>>

Empty == [count |-> 0, start |-> 0]
TooShort(b) == b.count = 0 \/ now - b.start >= Window - 1 \* mutant: the window ends early
Stale(b) == b.count = 0 \/ now - b.start >= Window

(* RollingWindowRateLimiter.tryConsume: the bucket after it, and whether it admits. *)
Consume(b) == IF Stale(b) THEN [count |-> 1, start |-> now] ELSE [b EXCEPT !.count = @ + 1]
Admits(b, limit) == b.count <= limit

Init ==
    /\ now = 1 /\ bucket = Empty /\ failures = 0 /\ openUntil = 0
    /\ call = [c \in Calls |-> "none"]
    /\ keyBucket = Empty /\ logBucket = Empty /\ suppressed = 0 /\ disposed = FALSE
    /\ exchanges = 0 /\ sent = << >> /\ passed = << >> /\ waitUntil = 0
    /\ outages = 0 /\ logged = 0 /\ rejections = 0 /\ late = 0

Tick == now < MaxNow /\ now' = now + 1
        /\ UNCHANGED <<bucket, circuit, call, keyVars, logBucket, suppressed, disposed, exchanges,
                       sent, counters>>

--------------------------------------------------------------------------------
(* The token endpoint *)

(* How a request ends: no response at all, a body that stops half-way, text that is not JSON,
   or a JSON body with what the code looks at. *)
Answers ==
    [how : {"timeout", "refused"}] \cup
    [how : {"cut", "text"}, status : {200, 400, 503}] \cup
    [how : {"json"}, status : {200}, complete : BOOLEAN, refresh : BOOLEAN, expires : 0..MaxExpires + 1] \cup
    [how : {"json"}, status : {400, 503},
     error : {"invalid_grant", "invalid_scope", "access_denied", "invalid_request", "other"},
     disabled : BOOLEAN]

Denial(error, disabled) ==
    CASE error = "invalid_grant" -> "invalid_subject_token"
      [] error \in {"invalid_scope", "access_denied"} -> "exchange_denied"
      [] error = "invalid_request" -> IF disabled THEN "policy_violation" ELSE "exchange_denied"
      [] OTHER -> "malformed_provider_response"

(* validateSuccessResponse; MAX_SANE_EXPIRES_IN_SECONDS is above every policy's maximum. *)
WellFormed(a) == a.complete /\ ~a.refresh /\ a.expires > 0

(* The provider's error category, or "success"; of a JSON body below 500 first. *)
JsonCategory(a) ==
    IF a.status = 400 THEN Denial(a.error, a.disabled)
    ELSE IF WellFormed(a) THEN "success" ELSE "malformed_provider_response"
StatusLast(a) ==                               \* mutant: a 5xx page that is not JSON is malformed
    CASE a.how \in {"timeout", "refused"} -> "provider_unavailable"
      [] a.how \in {"cut", "text"} -> "malformed_provider_response"
      [] a.how = "json" -> IF a.status >= 500 THEN "provider_unavailable" ELSE JsonCategory(a)
Category(a) ==
    CASE a.how \in {"timeout", "refused"} -> "provider_unavailable"
      [] a.how = "cut" -> "malformed_provider_response"       \* normalizeError of a plain Error
      [] a.how \in {"text", "json"} ->
            IF a.status >= 500 THEN "provider_unavailable"
            ELSE IF a.how = "text" THEN "malformed_provider_response" ELSE JsonCategory(a)

(* assertProviderResult *)
Outcome(a) ==
    IF Category(a) = "success" /\ a.expires > MaxExpires THEN "policy_violation" ELSE Category(a)

--------------------------------------------------------------------------------
(* SecurityEventLog: one category stands for all, each has a bucket of its own. *)

Reject ==
    /\ rejections' = rejections + 1
    /\ logBucket' = Consume(logBucket)
    /\ IF Admits(Consume(logBucket), LogLimit)
       THEN logged' = logged + 1 /\ UNCHANGED <<suppressed, late>>
       ELSE /\ suppressed' = suppressed + 1 /\ logged' = logged
            /\ late' = IF disposed THEN late + 1 ELSE late

NoRejection == UNCHANGED <<rejections, logBucket, logged, suppressed, late>>

Summarised == logged' = logged + suppressed /\ suppressed' = 0
Dropped == logged' = logged /\ suppressed' = 0 \* mutant: the counters are cleared, not logged
FlushSuppressed == Summarised

Flush ==
    /\ ~disposed /\ suppressed > 0
    /\ FlushSuppressed
    /\ UNCHANGED <<now, bucket, circuit, call, keyVars, logBucket, disposed, exchanges, sent,
                   outages, rejections, late>>

(* OidcDelegationService.dispose; exchanges under way go on. *)
Dispose ==
    /\ ~disposed
    /\ disposed' = TRUE
    /\ FlushSuppressed
    /\ UNCHANGED <<now, bucket, circuit, call, keyVars, logBucket, exchanges, sent, outages,
                   rejections, late>>

--------------------------------------------------------------------------------
(* exchange *)

(* isCircuitOpen forgets a circuit whose time is over. *)
CircuitOpen == now < openUntil
Expired == openUntil > 0 /\ ~CircuitOpen

(* Up to the first await.  A token of another client stops before the throttle. *)
Exchange(c, foreign) ==
    /\ call[c] = "none" /\ exchanges < MaxExchanges
    /\ exchanges' = exchanges + 1
    /\ IF foreign THEN Reject /\ UNCHANGED <<bucket, circuit, call, sent, outages>>
       ELSE IF CircuitOpen THEN Reject /\ UNCHANGED <<bucket, circuit, call, sent, outages>>
       ELSE /\ bucket' = Consume(bucket)
            /\ failures' = (IF Expired THEN 0 ELSE failures)
            /\ openUntil' = (IF Expired THEN 0 ELSE openUntil)
            /\ outages' = (IF Expired THEN 0 ELSE outages)
            /\ IF Admits(bucket', Limit)
               THEN /\ call' = [call EXCEPT ![c] = "sent"] /\ sent' = sent \o <<now>>
                    /\ NoRejection
               ELSE Reject /\ UNCHANGED <<call, sent>>
    /\ UNCHANGED <<now, keyVars, disposed>>

RecordSuccess == failures' = 0 /\ openUntil' = 0 /\ outages' = 0
RecordFailure ==
    /\ failures' = failures + 1
    /\ openUntil' = IF failures' >= Threshold THEN now + Cooldown ELSE 0

(* Outages, told by what happened and not by the code's categories. *)
Outage(a) == a.how \in {"timeout", "refused"} \/ (a.how \in {"text", "json"} /\ a.status >= 500)

Answer(c, a) ==
    /\ call[c] = "sent"
    /\ call' = [call EXCEPT ![c] = "none"]
    /\ IF Outcome(a) = "success" THEN RecordSuccess /\ NoRejection
       ELSE /\ Reject
            /\ outages' = IF Outage(a) THEN outages + 1 ELSE outages
            /\ IF Outcome(a) = "provider_unavailable" THEN RecordFailure ELSE UNCHANGED circuit
    /\ UNCHANGED <<now, bucket, keyVars, disposed, exchanges, sent>>

--------------------------------------------------------------------------------
(* ApiKeyRateLimiter.check: the first request of a window is served whatever the limit. *)

RoundedDown == Window - (now - keyBucket.start) - 1   \* mutant: floor instead of ceil
RetryAfter == Window - (now - keyBucket.start)

KeyRequest ==
    /\ exchanges < MaxExchanges /\ exchanges' = exchanges + 1
    /\ keyBucket' = Consume(keyBucket)
    /\ IF Stale(keyBucket) \/ Admits(keyBucket', Limit)
       THEN passed' = passed \o <<now>> /\ waitUntil' = 0
       ELSE waitUntil' = now + RetryAfter /\ UNCHANGED passed
    /\ UNCHANGED <<now, bucket, circuit, call, logBucket, suppressed, disposed, sent, counters>>

(* The eviction timers of the limiters. *)
Evicted(b) == IF now - b.start >= 2 * Window THEN Empty ELSE b
Evict ==
    /\ bucket' = Evicted(bucket) /\ keyBucket' = Evicted(keyBucket)
    /\ logBucket' = Evicted(logBucket)
    /\ UNCHANGED <<now, circuit, call, passed, waitUntil, suppressed, disposed, exchanges, sent,
                   counters>>

Next ==
    \/ Tick \/ Evict \/ Flush \/ Dispose \/ KeyRequest
    \/ \E c \in Calls : \/ \E foreign \in BOOLEAN : Exchange(c, foreign)
                        \/ \E a \in Answers : Answer(c, a)

Spec == Init /\ [][Next]_vars

--------------------------------------------------------------------------------
(* Properties *)

(* outbound-throttle.ts:7-12, api-key-rate-limiter.ts:23: a window that starts with its first
   call lets at most 2 * Limit - 1 calls through in any period of its length. *)
CallsBounded ==
    \A times \in {sent, passed} : \A i \in DOMAIN times :
        Cardinality({j \in DOMAIN times : times[j] \in times[i]..(times[i] + Window - 1)}) < 2 * Limit

(* outbound-throttle.ts:48-56: the circuit counts exactly the provider's outages since its
   last success, never the throttle's own refusals, and is open only for enough of them. *)
CircuitCountsOutages ==
    /\ failures = outages
    /\ openUntil > 0 <=> failures >= Threshold

(* security-event-log.ts:4-7: every rejection is logged or counted in a summary, also by
   dispose, except what is suppressed after it. *)
RejectionsTold ==
    /\ logged + suppressed = rejections
    /\ disposed => suppressed = late

(* api-key-rate-limiter.ts:35: a client that waits Retry-After is served when it comes. *)
RetryAfterHonest == waitUntil > 0 /\ now >= waitUntil => Stale(keyBucket)
================================================================================
