-------------------------- MODULE DeliveryLifecycle --------------------------
(***************************************************************************)
(* What a Delivery promises its readers (the dashboard, the operator, the  *)
(* auto-disable rule), whatever worker, queue or database trouble lies     *)
(* behind it: the lifecycle of packages/db/src/schema.ts's `delivery` row  *)
(* with its `attempt` rows.                                                *)
(*                                                                         *)
(* An Attempt is recorded at most once per number, in order, and only on a *)
(* Delivery that is not finished; its outcome and number alone decide the  *)
(* new status; only an operator brings a dead-lettered Delivery back, and  *)
(* nothing brings back a succeeded or failed one.                          *)
(***************************************************************************)
EXTENDS DeliveryRows

VARIABLES
    status,        \* delivery.status, or "absent" once the row is deleted
    attemptCount,  \* delivery.attempt_count
    attempts       \* the attempt rows of each Delivery

lifecycleVars == <<status, attemptCount, attempts>>

Init ==
    /\ status = [d \in Deliveries |-> "pending"]
    /\ attemptCount = [d \in Deliveries |-> 0]
    /\ attempts = [d \in Deliveries |-> {}]

Claim(d) ==
    /\ status[d] = "pending"
    /\ status' = [status EXCEPT ![d] = "in_progress"]
    /\ UNCHANGED <<attemptCount, attempts>>

Release(d) ==
    /\ status[d] = "in_progress"
    /\ status' = [status EXCEPT ![d] = "pending"]
    /\ UNCHANGED <<attemptCount, attempts>>

Record(d, o) ==
    LET n == attemptCount[d] + 1
    IN  /\ status[d] \in OpenStatus
        /\ status' = [status EXCEPT ![d] = StatusAfter(o, n)]
        /\ attemptCount' = [attemptCount EXCEPT ![d] = n]
        /\ attempts' = [attempts EXCEPT ![d] = @ \cup {[n |-> n, outcome |-> o]}]

Requeue(d) ==
    /\ status[d] = "dead_lettered"
    /\ status' = [status EXCEPT ![d] = "pending"]
    /\ UNCHANGED <<attemptCount, attempts>>

\* Retention, fan-out rollback or an Endpoint's deletion, by cascade.
Delete(D) ==
    /\ status' = [d \in Deliveries |-> IF d \in D THEN "absent" ELSE status[d]]
    /\ attemptCount' = [d \in Deliveries |-> IF d \in D THEN 0 ELSE attemptCount[d]]
    /\ attempts' = [d \in Deliveries |-> IF d \in D THEN {} ELSE attempts[d]]

Next ==
    \/ \E d \in Deliveries :
        \/ Claim(d)
        \/ Release(d)
        \/ \E o \in Outcomes : Record(d, o)
        \/ Requeue(d)
    \/ \E D \in SUBSET Deliveries : Delete(D)

Spec == Init /\ [][Next]_lifecycleVars
=============================================================================
