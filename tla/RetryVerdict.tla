----------------------------- MODULE RetryVerdict -----------------------------
(***************************************************************************)
(* One dead-lettered Delivery's row in a Broadcast's panel: the operator   *)
(* retries it, the worker makes the Attempt some time later, and the row   *)
(* announces the verdict it reads off the polled Delivery, while polls are *)
(* late and other operators retry the same Delivery.                       *)
(***************************************************************************)
EXTENDS Integers, FiniteSets

CONSTANTS
    None,        \* null, or nothing under way
    First,       \* the Attempts made when it was dead-lettered
    MaxAttempts, \* the worker's budget, since raised or still the same
    MaxRetries,  \* bound on the retries accepted
    MaxLoads     \* bound on the times the row is opened

VerdictAssumption ==
    /\ First \in Nat /\ MaxAttempts \in Nat /\ MaxRetries \in Nat /\ MaxLoads \in Nat
    /\ None \notin Nat \cup [count : Nat, step : {"sent", "accepted", "refused"}]

VARIABLES
    server,    \* the Delivery's row: its status and attempt_count
    delivery,  \* the prop the row is given by the polled Broadcast detail
    poll,      \* a Broadcast detail on its way
    request,   \* POST /deliveries/:deliveryId/retry under way, from the press to its last effect
    awaiting,  \* awaitingVerdict: attemptCountAtRetry
    outcome,   \* retryOutcome: the Attempt it names, and its verdict
    attempts,  \* the timeline: how many Attempts it shows
    loads,     \* GET /deliveries/:deliveryId/attempts under way, with what it read
    accepted,  \* history: the Attempts made when this row's retry was accepted
    others,    \* history: another operator's retry was accepted
    overtaken, \* history: an older timeline landed over a newer one
    retries, opened

vars == <<server, delivery, poll, request, awaiting, outcome, attempts, loads,
          accepted, others, overtaken, retries, opened>>

Settled == {"succeeded", "failed", "dead_lettered"}
\* What of the budget is left at first, and an Attempt for every retry.
MostAttempts == (IF First > MaxAttempts THEN First ELSE MaxAttempts) + MaxRetries
Rows == [status : Settled \cup {"pending", "in_progress"}, count : First..MostAttempts]

Init ==
    /\ server = [status |-> "dead_lettered", count |-> First]
    /\ delivery = server
    /\ poll = None /\ request = None
    /\ awaiting = None /\ outcome = None
    /\ attempts = None /\ loads = {}
    /\ accepted = None /\ others = FALSE /\ overtaken = FALSE
    /\ retries = 0 /\ opened = 0

-----------------------------------------------------------------------------
(* The API and the worker.                                                 *)

\* retryDeadLetteredDelivery: the status goes back, the count stays.
Retry ==
    /\ server.status = "dead_lettered" /\ retries < MaxRetries
    /\ server' = [server EXCEPT !.status = "pending"]
    /\ retries' = retries + 1

OthersRetry ==
    /\ Retry /\ others' = TRUE
    /\ UNCHANGED <<delivery, poll, request, awaiting, outcome, attempts, loads, accepted, overtaken, opened>>

Take ==
    /\ server.status = "pending"
    /\ server' = [server EXCEPT !.status = "in_progress"]
    /\ UNCHANGED <<delivery, poll, request, awaiting, outcome, attempts, loads, accepted, others, overtaken, retries, opened>>

\* A retryable outcome goes back to pending while the budget lasts.
Attempt ==
    /\ server.status = "in_progress"
    /\ \E s \in (Settled \ {"dead_lettered"})
                  \cup {IF server.count + 1 < MaxAttempts THEN "pending" ELSE "dead_lettered"} :
          server' = [status |-> s, count |-> server.count + 1]
    /\ UNCHANGED <<delivery, poll, request, awaiting, outcome, attempts, loads, accepted, others, overtaken, retries, opened>>

-----------------------------------------------------------------------------
(* The row.                                                                *)

Read == {server.count}

\* Mutant: the status alone is a verdict.
Verdict_StatusAlone(at, d) == d.status \in Settled

\* The effect on [awaitingVerdict, delivery]: is there one to announce?
Verdict(at, d) == d.count > at /\ d.status \in Settled

\* The render of a row that awaits its verdict since `at`, given `d`.
Render(at, d) ==
    IF at # None /\ Verdict(at, d)
    THEN awaiting' = None /\ outcome' = [n |-> d.count, ok |-> d.status = "succeeded"]
    ELSE awaiting' = at /\ UNCHANGED outcome

\* The press binds the Delivery as it is on screen.
Press ==
    /\ delivery.status = "dead_lettered" /\ awaiting = None /\ request = None
    /\ retries < MaxRetries
    /\ request' = [count |-> delivery.count, step |-> "sent"]
    /\ outcome' = None
    /\ UNCHANGED <<server, delivery, poll, awaiting, attempts, loads, accepted, others, overtaken, retries, opened>>

Accept ==
    /\ request # None /\ request.step = "sent"
    /\ \/ /\ Retry
          /\ request' = [request EXCEPT !.step = "accepted"]
          /\ accepted' = server.count
       \/ /\ server.status # "dead_lettered"
          /\ request' = [request EXCEPT !.step = "refused"]
          /\ UNCHANGED <<server, accepted, retries>>
    /\ UNCHANGED <<delivery, poll, awaiting, outcome, attempts, loads, others, overtaken, opened>>

\* Mutant: the count is read off the screen when the answer comes.
CountAtRetry_Latest == delivery.count

CountAtRetry == request.count

\* 409 or another failure: the row says so, and nothing is awaited.
Refused ==
    /\ request # None /\ request.step = "refused"
    /\ request' = None
    /\ UNCHANGED <<server, delivery, poll, awaiting, outcome, attempts, loads, accepted, others, overtaken, retries, opened>>

\* The Delivery may have been polled since the press: the effect then
\* announces at once.
Answered ==
    /\ request # None /\ request.step = "accepted"
    /\ Render(CountAtRetry, delivery)
    /\ loads' = loads \cup Read
    /\ request' = [step |-> "loading", read |-> server.count]
    /\ UNCHANGED <<server, delivery, poll, attempts, accepted, others, overtaken, retries, opened>>

\* After its timeline, onRetried fetches the Broadcast again, over a poll.
Finish ==
    /\ request # None /\ request.step = "loading" /\ request.read \notin loads
    /\ request' = None /\ poll' = server
    /\ UNCHANGED <<server, delivery, awaiting, outcome, attempts, loads, accepted, others, overtaken, retries, opened>>

LoadLands(n) ==
    /\ attempts' = n /\ loads' = loads \ {n}
    /\ overtaken' = (overtaken \/ (attempts # None /\ attempts > n))
    /\ UNCHANGED <<server, delivery, poll, request, awaiting, outcome, accepted, others, retries, opened>>

\* Opening the row loads its timeline afresh.
Open ==
    /\ opened < MaxLoads /\ opened' = opened + 1
    /\ attempts' = None /\ loads' = loads \cup Read
    /\ UNCHANGED <<server, delivery, poll, request, awaiting, outcome, accepted, others, overtaken, retries>>

Poll ==
    /\ poll = None /\ poll' = server
    /\ UNCHANGED <<server, delivery, request, awaiting, outcome, attempts, loads, accepted, others, overtaken, retries, opened>>

\* Mutant: the timeline is left as it is.
AnnounceReads_Not == {}

\* The announcement loads the timeline it names.
AnnounceReads == Read

\* The Broadcast detail lands and the row's effect runs.
PollLands ==
    /\ poll # None /\ poll' = None
    /\ delivery' = poll
    /\ Render(awaiting, poll)
    /\ loads' = loads \cup (IF awaiting # None /\ awaiting' = None THEN AnnounceReads ELSE {})
    /\ UNCHANGED <<server, request, attempts, accepted, others, overtaken, retries, opened>>

Next ==
    \/ OthersRetry \/ Take \/ Attempt
    \/ Press \/ Accept \/ Refused \/ Answered \/ Finish
    \/ \E n \in loads : LoadLands(n)
    \/ Open \/ Poll \/ PollLands

Spec == Init /\ [][Next]_vars

\* Requests are answered, the worker works and the poll goes on; nobody has
\* to press anything.
Fairness ==
    /\ WF_vars(Take) /\ WF_vars(Attempt)
    /\ WF_vars(Accept) /\ WF_vars(Refused) /\ WF_vars(Answered) /\ WF_vars(Finish)
    /\ WF_vars(\E n \in loads : LoadLands(n))
    /\ WF_vars(Poll) /\ WF_vars(PollLands)

FairSpec == Spec /\ Fairness
-----------------------------------------------------------------------------
(* Properties.                                                             *)

TypeOK ==
    /\ server \in Rows /\ delivery \in Rows
    /\ poll = None \/ poll \in Rows
    /\ awaiting \in Nat \cup {None}
    /\ outcome = None \/ outcome.n \in Nat
    /\ attempts \in Nat \cup {None}
    /\ retries \in 0..MaxRetries /\ opened \in 0..MaxLoads

\* What the row announces is the doing of the retry: unless somebody else
\* retried the same Delivery, it names an Attempt made after it was accepted.
VerdictIsOwn == (outcome # None /\ ~others) => outcome.n > accepted

\* Every retry that was accepted is told its verdict, however fast the worker
\* is and whichever polls meet the answer.
VerdictArrives == (request # None /\ request.step = "accepted") ~> outcome # None

\* With the announcement comes the Attempt it names, once the timeline has
\* loaded. (An older timeline may land last; the code does not prevent it.)
TimelineNamesAttempt ==
    (outcome # None /\ loads = {} /\ ~overtaken) => attempts # None /\ attempts >= outcome.n
=============================================================================
