------------------------- MODULE EndpointAutoDisable -------------------------
(***************************************************************************)
(* One Endpoint, the Deliveries aimed at it, the workers that record their *)
(* outcomes and then run maybeAutoDisableEndpoint (packages/db/src/        *)
(* repositories/endpoints.ts), and the operator who switches the Endpoint  *)
(* on and off or retries a dead-lettered Delivery.                         *)
(*                                                                         *)
(* maybeAutoDisableEndpoint is three SELECTs and an UPDATE with no         *)
(* transaction around them, and its `now` was read before the outcome was  *)
(* recorded: every other worker, the operator and the retention sweeper    *)
(* may act in between.                                                     *)
(***************************************************************************)
EXTENDS Naturals, FiniteSetsExt

CONSTANTS
    Deliveries,   \* the Deliveries aimed at the Endpoint
    Processors,   \* processDelivery calls that may run at once
    Window,       \* ENDPOINT_AUTO_DISABLE_AFTER_MS, in ticks
    Prunable,     \* the statuses in which the sweeper may find an expired Delivery
    MaxTime,      \* bound of the clock
    NoDelivery

Never == 0        \* a null timestamp; the clock starts at 1

ASSUME AutoDisableAssumption ==
    /\ Window \in Nat
    /\ Prunable \subseteq {"open", "succeeded", "failed", "dead_lettered"}
    /\ MaxTime \in Nat \ {0}
    /\ NoDelivery \notin Deliveries

VARIABLES
    delivery,  \* status ("open": pending or in_progress) and updatedAt
    endpoint,  \* whether its row is there, enabled and autoDisabledAt
    call,      \* the local state of each processDelivery call
    clock

vars == <<delivery, endpoint, call, clock>>

Failures == {"failed", "dead_lettered"}
Closed == {"succeeded"} \cup Failures
Times == Never..MaxTime

\* The awaits a call may stand before.
Steps == {"idle", "complete", "endpoint", "success", "streak", "disable"}

\* `before` is history: the last success recorded when the check began.
IdleCall == [at |-> "idle", delivery |-> NoDelivery, outcome |-> "none", time |-> Never,
             lastSuccess |-> Never, start |-> Never, before |-> Never]

TypeOK ==
    /\ delivery \in [Deliveries -> [status : {"open", "swept"} \cup Closed, updatedAt : Times]]
    /\ endpoint \in [present : BOOLEAN, enabled : BOOLEAN, autoDisabledAt : Times]
    /\ call \in [Processors -> [at : Steps,
                                delivery : Deliveries \cup {NoDelivery},
                                outcome : Closed \cup {"none"},
                                time : Times, lastSuccess : Times, start : Times, before : Times]]
    /\ \A p \in Processors : call[p].at # "idle" =>
          call[p].delivery \in Deliveries /\ call[p].outcome \in Closed
    /\ clock \in 1..MaxTime

Init ==
    /\ delivery = [d \in Deliveries |-> [status |-> "open", updatedAt |-> Never]]
    /\ endpoint = [present |-> TRUE, enabled |-> TRUE, autoDisabledAt |-> Never]
    /\ call = [p \in Processors |-> IdleCall]
    /\ clock = 1

At(p, step) == call[p].at = step

-----------------------------------------------------------------------------
(* The rule, as SQL computes it from the rows as they are.                 *)

\* max(updated_at) over the succeeded Deliveries.
LastSuccess == Max({Never} \cup {delivery[d].updatedAt :
                                   d \in {e \in Deliveries : delivery[e].status = "succeeded"}})

\* Mutant: every failure counts, whatever success came after it.
FailuresAfter_Any(success) ==
    {delivery[d].updatedAt : d \in {e \in Deliveries : delivery[e].status \in Failures}}

\* updated_at of the failures after a success: its minimum starts the streak.
FailuresAfter(success) ==
    {delivery[d].updatedAt : d \in {e \in Deliveries :
        delivery[e].status \in Failures /\ delivery[e].updatedAt > success}}

\* Mutant: the streak must be longer than the window.
LongEnough_Longer(start, time) == time - start > Window

LongEnough(start, time) == time - start >= Window

\* ADR 0003's rule, judged on the rows of one instant.
StreakDue(time) ==
    \E start \in FailuresAfter(LastSuccess) : start + Window <= time

-----------------------------------------------------------------------------
(* processDelivery from the outcome of the POST on.                        *)

\* The POST is over and `at` is read. A retryable outcome leaves the Delivery
\* open, which neither query looks at, and is left out.
Try(p, d) ==
    /\ At(p, "idle")
    /\ delivery[d].status = "open"
    /\ \A q \in Processors : call[q].delivery # d
    /\ \E outcome \in Closed :
          call' = [call EXCEPT ![p] = [IdleCall EXCEPT
                      !.at = "complete", !.delivery = d, !.outcome = outcome, !.time = clock]]
    /\ UNCHANGED <<delivery, endpoint, clock>>

\* Mutant: dated by the moment from which the streak counts.
Completed_Ahead(c) == [status |-> c.outcome, updatedAt |-> c.time + Window]

\* The row as completeDelivery leaves it: dated when the POST was over.
Completed(c) == [status |-> c.outcome, updatedAt |-> c.time]

\* completeDelivery; the foreign key refuses it for a deleted Delivery.
Complete(p) ==
    LET d == call[p].delivery IN
    /\ At(p, "complete")
    /\ delivery[d].status # "swept"
    /\ delivery' = [delivery EXCEPT ![d] = Completed(call[p])]
    /\ call' = [call EXCEPT ![p] = IF call[p].outcome = "succeeded" THEN IdleCall
                                   ELSE [@ EXCEPT !.at = "endpoint", !.before = LastSuccess]]
    /\ UNCHANGED <<endpoint, clock>>

ReadEndpoint(p) ==
    /\ At(p, "endpoint")
    /\ call' = [call EXCEPT ![p] =
          IF endpoint.present /\ endpoint.enabled /\ endpoint.autoDisabledAt = Never
          THEN [@ EXCEPT !.at = "success"] ELSE IdleCall]
    /\ UNCHANGED <<delivery, endpoint, clock>>

ReadLastSuccess(p) ==
    /\ At(p, "success")
    /\ call' = [call EXCEPT ![p].at = "streak", ![p].lastSuccess = LastSuccess]
    /\ UNCHANGED <<delivery, endpoint, clock>>

\* The check goes on if the streak it reads is long enough.
ReadStreak(p) ==
    LET failures == FailuresAfter(call[p].lastSuccess) IN
    /\ At(p, "streak")
    /\ call' = [call EXCEPT ![p] =
          IF failures # {} /\ LongEnough(Min(failures), call[p].time)
          THEN [@ EXCEPT !.at = "disable", !.start = Min(failures)] ELSE IdleCall]
    /\ UNCHANGED <<delivery, endpoint, clock>>

\* The guard of the UPDATE: it looks at auto_disabled_at and nothing else.
CanDisable == endpoint.present /\ endpoint.autoDisabledAt = Never

Disable(p) ==
    /\ At(p, "disable")
    /\ endpoint' = IF CanDisable
                   THEN [endpoint EXCEPT !.enabled = FALSE, !.autoDisabledAt = call[p].time]
                   ELSE endpoint
    /\ call' = [call EXCEPT ![p] = IdleCall]
    /\ UNCHANGED <<delivery, clock>>

\* A database error, a refused write or a crash ends the call where it stands.
Abandon(p) ==
    /\ ~At(p, "idle")
    /\ call' = [call EXCEPT ![p] = IdleCall]
    /\ UNCHANGED <<delivery, endpoint, clock>>

-----------------------------------------------------------------------------
(* The operator, the sweeper and the clock.                                *)

\* Mutant: re-enabling forgets the mark.
Patched_KeepsMark(on) == [endpoint EXCEPT !.enabled = on]

\* What PATCH writes: re-enabling clears the mark, switching off keeps it.
Patched(on) == [endpoint EXCEPT !.enabled = on,
                                !.autoDisabledAt = IF on THEN Never ELSE @]

Patch(on) ==
    /\ endpoint.present
    /\ endpoint' = Patched(on)
    /\ UNCHANGED <<delivery, call, clock>>

\* Mutant: anything finished may be retried.
Retriable_Finished(d) == delivery[d].status \in Closed

\* retryDeadLetteredDelivery's guard.
Retriable(d) == delivery[d].status = "dead_lettered"

Retry(d) ==
    /\ Retriable(d)
    /\ delivery' = [delivery EXCEPT ![d] = [status |-> "open", updatedAt |-> clock]]
    /\ UNCHANGED <<endpoint, call, clock>>

Swept == [status |-> "swept", updatedAt |-> Never]

Sweep(d) ==
    /\ delivery[d].status \in Prunable
    /\ delivery' = [delivery EXCEPT ![d] = Swept]
    /\ UNCHANGED <<endpoint, call, clock>>

\* A hard delete; the Deliveries go with it.
DeleteEndpoint ==
    /\ endpoint.present
    /\ endpoint' = [endpoint EXCEPT !.present = FALSE]
    /\ delivery' = [d \in Deliveries |-> Swept]
    /\ UNCHANGED <<call, clock>>

Tick ==
    /\ clock < MaxTime
    /\ clock' = clock + 1
    /\ UNCHANGED <<delivery, endpoint, call>>

Processor(p) ==
    \/ \E d \in Deliveries : Try(p, d)
    \/ Complete(p)
    \/ ReadEndpoint(p)
    \/ ReadLastSuccess(p)
    \/ ReadStreak(p)
    \/ Disable(p)
    \/ Abandon(p)

Next ==
    \/ \E p \in Processors : Processor(p)
    \/ \E on \in BOOLEAN : Patch(on)
    \/ \E d \in Deliveries : Retry(d) \/ Sweep(d)
    \/ DeleteEndpoint
    \/ Tick

Spec == Init /\ [][Next]_vars

-----------------------------------------------------------------------------
(* Properties.                                                             *)

(* An Endpoint marked auto-disabled is off: fan-out and the dashboard read *)
(* the two columns separately, and the worker's UPDATE, PATCH and each     *)
(* other's stale checks may arrive in any order.                           *)
AutoDisabledIsOff == endpoint.autoDisabledAt # Never => ~endpoint.enabled

(* An UPDATE is only reached on a streak that no success known when the    *)
(* failure was recorded interrupts, and that lasts the whole window up to  *)
(* that failure (maybeAutoDisableEndpoint's two SELECTs). It holds while   *)
(* the sweeper finds no success to delete: history is kept for 30 days by  *)
(* default, and a streak is due after one hour.                            *)
NoInterveningSuccess ==
    \A p \in Processors : At(p, "disable") =>
        /\ call[p].start > call[p].before
        /\ call[p].start + Window <= call[p].time

(* Why it does: until everything is deleted, no success known to a check   *)
(* can be undone, since a row about to be written is not a success.        *)
EvidenceStands ==
    LET Gone == \A d \in Deliveries : delivery[d].status = "swept" IN
    /\ \A p, q \in Processors : p # q /\ ~At(p, "idle") /\ ~At(q, "idle")
          => call[p].delivery # call[q].delivery
    /\ \A p \in Processors : At(p, "complete")
          => delivery[call[p].delivery].status \in {"open", "swept"}
    /\ \A p \in Processors : Gone \/ call[p].before <= LastSuccess
    /\ \A p \in Processors : At(p, "streak")
          => Gone \/ call[p].before <= call[p].lastSuccess

(* A check that reads the rows and gives up was right to: at the moment it *)
(* does, the streak on the rows is not due by its own clock. A success     *)
(* that commits between the two SELECTs must not hide one.                 *)
NoMissedDisable ==
    [][\A p \in Processors : ReadStreak(p) /\ call'[p].at = "idle"
          => ~StreakDue(call[p].time)]_vars

(* What the comment at endpoints.ts:154-159 says: the Endpoint is disabled *)
(* when "consecutive failures (no intervening success)" span the window:   *)
(* no success recorded by then lies between the start of the streak and    *)
(* the failure that ends it. One that commits after the SELECT of the last *)
(* success, with the time its POST ended, breaks it.                       *)
DisabledWithoutSuccess ==
    [][\A p \in Processors : Disable(p) /\ endpoint' # endpoint
          => \A d \in Deliveries : delivery[d].status = "succeeded"
                => delivery[d].updatedAt \notin call[p].start..call[p].time]_vars
=============================================================================
