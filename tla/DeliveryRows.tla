---------------------------- MODULE DeliveryRows ----------------------------
(***************************************************************************)
(* The vocabulary of the `delivery` and `attempt` rows (packages/db/src/   *)
(* schema.ts) and the rule that turns the outcome of one HTTP try into the *)
(* Delivery's next status (apps/api/src/worker/processDelivery.ts).        *)
(***************************************************************************)
EXTENDS Naturals

CONSTANTS
    Deliveries,   \* the Deliveries of one Broadcast
    MaxAttempts   \* DELIVERY_MAX_ATTEMPTS of the worker

ASSUME RowsAssumption == MaxAttempts \in Nat \ {0}

\* "absent" is a Delivery whose row was deleted.
OpenStatus == {"pending", "in_progress"}
FinalStatus == {"succeeded", "failed"}
Status == OpenStatus \cup FinalStatus \cup {"dead_lettered", "absent"}

\* How one HTTP try ended: a 2xx, a response that is not worth retrying, or a
\* timeout, a network error or a status isRetryableOutcome accepts.
Outcomes == {"ok", "permanent", "transient"}

Attempt == [n : Nat, outcome : Outcomes]

\* Mutant: one Attempt more than MaxAttempts.
StatusAfter_OneMore(o, n) ==
    CASE o = "ok" -> "succeeded"
      [] o = "permanent" -> "failed"
      [] o = "transient" -> IF n > MaxAttempts THEN "dead_lettered" ELSE "pending"

\* Mutant: a transient outcome is always worth another Attempt.
StatusAfter_NeverDead(o, n) ==
    CASE o = "ok" -> "succeeded"
      [] o = "permanent" -> "failed"
      [] o = "transient" -> "pending"

\* The status the n-th Attempt leaves behind.
StatusAfter(o, n) ==
    CASE o = "ok" -> "succeeded"
      [] o = "permanent" -> "failed"
      [] o = "transient" -> IF n >= MaxAttempts THEN "dead_lettered" ELSE "pending"
=============================================================================
