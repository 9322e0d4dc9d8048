---------------------------- MODULE RetrySchedule ----------------------------
(***************************************************************************)
(* When the Attempts of one Delivery are made: what an answer says about   *)
(* the next one, what the retry policy makes of it, and the delay its job  *)
(* is given. What becomes of jobs that are lost is in DeliveryPipeline.    *)
(*                                                                         *)
(* A unit of time is the resolution of Retry-After and of the jitter.      *)
(***************************************************************************)
EXTENDS Integers

CONSTANTS
    MaxAttempts, Base, Cap,   \* DELIVERY_MAX_ATTEMPTS, DELIVERY_BACKOFF_MS and _MAX_MS
    Seconds, Dates,           \* the numbers and the dates an Endpoint may send
    MaxTime,                  \* bound on the clock
    MaxFailures,              \* bound on the outcomes that are not persisted
    Undefined                 \* no Retry-After, and no promise

ScheduleAssumption ==
    /\ MaxAttempts \in Nat \ {0} /\ Base \in Nat \ {0} /\ Cap \in Nat
    /\ Seconds \subseteq Int /\ Dates \subseteq Nat
    /\ MaxTime \in Nat /\ MaxFailures \in Nat /\ Undefined \notin Int

VARIABLES
    now,
    phase,        \* of the job: "delayed", "posting", "recording" or "closed"
    due,          \* when the delayed job is promoted
    attemptCount,
    statusCode,   \* of the POST that was made last, by its class
    retryAfterMs, \* what was parsed of its answer
    asked,        \* history: the answer's time and the time it asks to wait for
    failures

vars == <<now, phase, due, attemptCount, statusCode, retryAfterMs, asked, failures>>

\* 429 and 503 may carry a Retry-After that is read; 408 and the other 5xx, and
\* a POST that had no answer, are retried without.
Codes == {"success", "throttled", "retryable", "refused"}
Nothing == [at |-> 0, until |-> Undefined]

Init ==
    /\ now = 0 /\ phase = "delayed" /\ due = 0 /\ attemptCount = 0
    /\ statusCode = "success" /\ retryAfterMs = Undefined /\ asked = Nothing /\ failures = 0

NotNegative(t) == IF t < 0 THEN 0 ELSE t

\* parseRetryAfterMs. A header that is missing or says neither is Undefined.
Headers ==
    {[kind |-> "seconds", value |-> s] : s \in Seconds}
        \cup {[kind |-> "date", value |-> d] : d \in Dates} \cup {[kind |-> "unread", value |-> 0]}

ParseRetryAfter(header) ==
    IF header.kind = "unread" THEN Undefined
    ELSE NotNegative(IF header.kind = "date" THEN header.value - now ELSE header.value)

\* Full jitter below the doubled base and the cap.
Jittered(n) == {d \in 0..Cap : d <= Base * 2 ^ (n - 1)}

\* Mutant: the cap is on the exponential alone.
Delays_Uncapped(n, wait) == IF wait # Undefined THEN {wait} ELSE Jittered(n)

\* Mutant: what was asked for is spread as well.
Delays_Spread(n, wait) == IF wait # Undefined THEN {d \in 0..Cap : d <= wait} ELSE Jittered(n)

\* computeBackoffDelayMs
Delays(n, wait) ==
    IF wait # Undefined THEN {IF wait < Cap THEN wait ELSE Cap} ELSE Jittered(n)

\* BullMQ promotes the job, now or later.
Attempt ==
    /\ phase = "delayed" /\ due <= now
    /\ phase' = "posting"
    /\ UNCHANGED <<now, due, attemptCount, statusCode, retryAfterMs, asked, failures>>

Answer(code, header) ==
    /\ phase = "posting" /\ phase' = "recording"
    /\ statusCode' = code
    /\ retryAfterMs' = IF code = "throttled" THEN ParseRetryAfter(header) ELSE Undefined
    /\ asked' =
          IF code = "throttled" /\ header.kind # "unread"
          THEN [at |-> now,
                until |-> IF header.kind = "date" THEN header.value ELSE now + header.value]
          ELSE Nothing
    /\ UNCHANGED <<now, due, attemptCount, failures>>

Wait(d) == phase' = "delayed" /\ due' = now + d

Retryable == statusCode \in {"throttled", "retryable"}

\* finishAttempt, and what processDelivery throws after it.
Record ==
    /\ phase = "recording"
    /\ attemptCount' = attemptCount + 1
    /\ \/ /\ ~Retryable \/ attemptCount + 1 >= MaxAttempts
          /\ phase' = "closed" /\ UNCHANGED due
       \/ /\ Retryable /\ attemptCount + 1 < MaxAttempts
          /\ \E d \in Delays(attemptCount + 1, retryAfterMs) : Wait(d)
    /\ UNCHANGED <<now, statusCode, retryAfterMs, asked, failures>>

\* finishAttempt's catch: whatever the answer was, and without its Retry-After.
PersistFails ==
    /\ phase = "recording" /\ failures < MaxFailures /\ failures' = failures + 1
    /\ \E d \in Jittered(attemptCount + 1) : Wait(d)
    /\ asked' = Nothing
    /\ UNCHANGED <<now, attemptCount, statusCode, retryAfterMs>>

Tick ==
    /\ now < MaxTime /\ now' = now + 1
    /\ UNCHANGED <<phase, due, attemptCount, statusCode, retryAfterMs, asked, failures>>

Next ==
    \/ Attempt
    \/ \E code \in Codes, header \in Headers : Answer(code, header)
    \/ Record \/ PersistFails \/ Tick

Spec == Init /\ [][Next]_vars
-----------------------------------------------------------------------------
TypeOK ==
    /\ now \in Nat /\ phase \in {"delayed", "posting", "recording", "closed"} /\ due \in Nat
    /\ attemptCount \in 0..MaxAttempts /\ statusCode \in Codes
    /\ retryAfterMs \in Nat \cup {Undefined}
    /\ asked \in [at : Nat, until : Int \cup {Undefined}] /\ failures \in 0..MaxFailures

\* However far off an Endpoint asks to be left alone, by a number or a date, no
\* Attempt is put off by more than the cap.
WaitBounded == phase = "delayed" => due - now <= Cap

\* The next Attempt of a throttled Delivery is not made before the time the
\* Endpoint asked for, or the cap after its answer, however long the draining
\* of its body and the recording take in between. (An outcome that could not be
\* persisted forgets what was asked.)
AskedIsWaited ==
    phase = "delayed" /\ asked.until # Undefined =>
        due >= asked.until \/ due >= asked.at + Cap
=============================================================================
