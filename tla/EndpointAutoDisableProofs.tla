---------------------- MODULE EndpointAutoDisableProofs ----------------------
(***************************************************************************)
(* Proofs about EndpointAutoDisable, for every set of Deliveries and of    *)
(* processors, every window and every bound of the clock.                  *)
(***************************************************************************)
EXTENDS EndpointAutoDisable, WellFoundedInduction, TLAPS

-----------------------------------------------------------------------------
(* Min and Max of the sets of times the two SELECTs aggregate.             *)

LEMMA MinIsLeast ==
    ASSUME NEW S \in SUBSET Nat, S # {}
    PROVE  Min(S) \in S /\ \A x \in S : Min(S) <= x
  <1>. DEFINE R == {ss \in Nat \X Nat : ss[1] < ss[2]}
  <1>1. IsWellFoundedOn(R, Nat)
    BY NatLessThanWellFounded DEF OpToRel
  <1>2. PICK m \in S : \A y \in S : ~(<<y, m>> \in R)
    <2>. HIDE DEF R
    <2>. QED BY <1>1, WFMin
  <1>3. \A y \in S : m <= y
    <2> SUFFICES ASSUME NEW y \in S PROVE m <= y
      OBVIOUS
    <2>1. y \in Nat /\ m \in Nat /\ ~(<<y, m>> \in R)
      BY <1>2
    <2>. QED BY <2>1, SMT
  <1>. QED BY <1>3 DEF Min

LEMMA MaxIsGreatest ==
    ASSUME NEW S, NEW n \in Nat, S \subseteq 0..n, S # {}
    PROVE  Max(S) \in S /\ \A x \in S : x <= Max(S)
  <1>. DEFINE T == {n - x : x \in S}
  <1>1. T \in SUBSET Nat /\ T # {}
    OBVIOUS
  <1>2. Min(T) \in T /\ \A y \in T : Min(T) <= y
    BY <1>1, MinIsLeast
  <1>3. PICK m \in S : Min(T) = n - m
    BY <1>2
  <1>4. \A x \in S : x <= m
    <2> SUFFICES ASSUME NEW x \in S PROVE x <= m
      OBVIOUS
    <2>1. n - x \in T
      OBVIOUS
    <2>2. n - m <= n - x
      BY <1>2, <1>3, <2>1
    <2>. QED BY <2>2, SMT
  <1>. QED BY <1>4 DEF Max

-----------------------------------------------------------------------------
(* Types.                                                                  *)

Calls == [at : Steps, delivery : Deliveries \cup {NoDelivery}, outcome : Closed \cup {"none"},
          time : Times, lastSuccess : Times, start : Times, before : Times]

Rows == [status : {"open", "swept"} \cup Closed, updatedAt : Times]

Successes(rows) == {Never} \cup {rows[d].updatedAt :
                       d \in {e \in Deliveries : rows[e].status = "succeeded"}}

\* The last success is one of the times on the rows, and the latest.
LEMMA LatestSuccess ==
    ASSUME NEW rows \in [Deliveries -> Rows]
    PROVE  /\ Max(Successes(rows)) \in Times
           /\ Max(Successes(rows)) \in Successes(rows)
           /\ \A t \in Successes(rows) : t <= Max(Successes(rows))
  <1>1. Successes(rows) \subseteq 0..MaxTime /\ Successes(rows) # {}
    BY AutoDisableAssumption DEF Successes, Rows, Times, Never
  <1>. HIDE DEF Successes
  <1>2. Max(Successes(rows)) \in Successes(rows) /\ \A t \in Successes(rows) : t <= Max(Successes(rows))
    BY <1>1, MaxIsGreatest, AutoDisableAssumption
  <1>. QED BY <1>1, <1>2 DEF Times, Never

LEMMA LastSuccessType ==
    ASSUME delivery \in [Deliveries -> Rows] PROVE LastSuccess \in Times
  BY LatestSuccess DEF LastSuccess, Successes

\* A streak starts with one of its failures.
LEMMA StreakStart ==
    ASSUME delivery \in [Deliveries -> Rows], NEW t \in Times, FailuresAfter(t) # {}
    PROVE  /\ Min(FailuresAfter(t)) \in FailuresAfter(t)
           /\ Min(FailuresAfter(t)) \in Times
           /\ Min(FailuresAfter(t)) > t
  <1>1. FailuresAfter(t) \subseteq Times /\ \A s \in FailuresAfter(t) : s > t
    BY DEF FailuresAfter, Rows
  <1>2. FailuresAfter(t) \in SUBSET Nat
    BY <1>1, AutoDisableAssumption DEF Times, Never
  <1>3. Min(FailuresAfter(t)) \in FailuresAfter(t)
    BY <1>2, MinIsLeast
  <1>. QED BY <1>1, <1>3

\* The type invariant holds initially.
LEMMA TypeInit == Init => TypeOK
  BY AutoDisableAssumption
  DEF Init, TypeOK, IdleCall, Steps, Times, Never, Closed, Failures

LEMMA IdleCallType ==
    IdleCall \in [at : Steps, delivery : Deliveries \cup {NoDelivery},
                  outcome : Closed \cup {"none"},
                  time : Times, lastSuccess : Times, start : Times, before : Times]
  BY AutoDisableAssumption DEF IdleCall, Steps, Times, Never, Closed

\* Every step keeps the types.
LEMMA TypeStep == TypeOK /\ [Next]_vars => TypeOK'
  <1>. SUFFICES ASSUME TypeOK, [Next]_vars PROVE TypeOK'
    OBVIOUS
  <1>. USE AutoDisableAssumption, IdleCallType
  <1>0. LastSuccess \in Times /\ clock \in Times /\ Never \in Times
    BY LastSuccessType DEF TypeOK, Rows, Times, Never
  <1>1. ASSUME NEW p \in Processors, NEW d \in Deliveries, Try(p, d)
        PROVE TypeOK'
    <2>1. PICK outcome \in Closed :
            call' = [call EXCEPT ![p] = [IdleCall EXCEPT
                       !.at = "complete", !.delivery = d, !.outcome = outcome, !.time = clock]]
      BY <1>1 DEF Try
    <2>. QED BY <1>0, <1>1, <2>1 DEF TypeOK, Try, IdleCall, Steps
  <1>2. ASSUME NEW p \in Processors, Complete(p)
        PROVE TypeOK'
    <2>1. Completed(call[p]) \in Rows
      BY <1>2 DEF TypeOK, Complete, At, Completed, Rows
    <2>2. (delivery \in [Deliveries -> Rows])'
      BY <1>2, <2>1 DEF TypeOK, Complete, Rows
    <2>. QED BY <1>0, <1>2, <2>2 DEF TypeOK, Complete, Steps, Rows, At, IdleCall
  <1>3. ASSUME NEW p \in Processors, ReadEndpoint(p)
        PROVE TypeOK'
    BY <1>3 DEF TypeOK, At, IdleCall, ReadEndpoint, Steps
  <1>4. ASSUME NEW p \in Processors, ReadLastSuccess(p)
        PROVE TypeOK'
    <2>1. call' = [call EXCEPT ![p] = [call[p] EXCEPT !.at = "streak", !.lastSuccess = LastSuccess]]
      BY <1>4 DEF TypeOK, ReadLastSuccess
    <2>. QED BY <1>0, <1>4, <2>1 DEF TypeOK, At, ReadLastSuccess, Steps
  <1>5. ASSUME NEW p \in Processors, ReadStreak(p)
        PROVE TypeOK'
    <2>. DEFINE failures == FailuresAfter(call[p].lastSuccess)
    <2>1. failures # {} => Min(failures) \in Times
      BY StreakStart DEF TypeOK, Rows
    <2>. HIDE DEF failures
    <2>2. \/ call'[p] = [call[p] EXCEPT !.at = "disable", !.start = Min(failures)] /\ failures # {}
          \/ call'[p] = IdleCall
      BY <1>5 DEF TypeOK, ReadStreak, failures
    <2>3. call' = [call EXCEPT ![p] = call'[p]]
      BY <1>5 DEF TypeOK, ReadStreak
    <2>. QED BY <1>5, <2>1, <2>2, <2>3 DEF TypeOK, At, IdleCall, ReadStreak, Steps
  <1>6. ASSUME NEW p \in Processors, Disable(p)
        PROVE TypeOK'
    BY <1>6 DEF TypeOK, At, IdleCall, Disable
  <1>7. ASSUME NEW p \in Processors, Abandon(p)
        PROVE TypeOK'
    BY <1>7 DEF TypeOK, At, IdleCall, Abandon
  <1>8. ASSUME NEW on \in BOOLEAN, Patch(on)
        PROVE TypeOK'
    BY <1>0, <1>8 DEF TypeOK, Patch, Patched
  <1>9. ASSUME NEW d \in Deliveries, Retry(d)
        PROVE TypeOK'
    BY <1>0, <1>9 DEF TypeOK, Retry
  <1>10. ASSUME NEW d \in Deliveries, Sweep(d)
         PROVE TypeOK'
    BY <1>0, <1>10 DEF TypeOK, Sweep, Swept
  <1>11. CASE DeleteEndpoint
    BY <1>0, <1>11 DEF TypeOK, DeleteEndpoint, Swept
  <1>12. CASE Tick
    BY <1>12 DEF TypeOK, Tick
  <1>13. CASE UNCHANGED vars
    BY <1>13 DEF TypeOK, vars
  <1>. QED BY <1>1, <1>2, <1>3, <1>4, <1>5, <1>6, <1>7, <1>8, <1>9, <1>10, <1>11,
              <1>12, <1>13 DEF Next, Processor

(* Rows, calls, the Endpoint and the clock keep their types.               *)
THEOREM TypeCorrect == Spec => []TypeOK
  BY TypeInit, TypeStep, PTL DEF Spec

-----------------------------------------------------------------------------
(* The mark and the switch.                                                *)

MarkInv == TypeOK /\ AutoDisabledIsOff

LEMMA MarkStep == MarkInv /\ [Next]_vars => AutoDisabledIsOff'
  <1>. SUFFICES ASSUME MarkInv, [Next]_vars PROVE AutoDisabledIsOff'
    OBVIOUS
  <1>. USE DEF MarkInv, AutoDisabledIsOff
  <1>1. ASSUME NEW p \in Processors, Disable(p) PROVE AutoDisabledIsOff'
    BY <1>1 DEF TypeOK, Disable
  <1>2. ASSUME NEW on \in BOOLEAN, Patch(on) PROVE AutoDisabledIsOff'
    BY <1>2 DEF TypeOK, Patch, Patched
  <1>3. CASE DeleteEndpoint
    BY <1>3 DEF TypeOK, DeleteEndpoint
  <1>4. CASE UNCHANGED endpoint
    BY <1>4
  <1>. QED BY <1>1, <1>2, <1>3, <1>4
           DEF Next, Processor, Try, Complete, ReadEndpoint, ReadLastSuccess, ReadStreak,
               Abandon, Retry, Sweep, Tick, vars

(* An Endpoint marked auto-disabled is off, whatever the order in which    *)
(* the workers' UPDATEs and the operator's PATCHes arrive.                 *)
THEOREM MarkedIsOff == Spec => []AutoDisabledIsOff
  <1>1. Init => MarkInv
    BY TypeInit DEF Init, MarkInv, AutoDisabledIsOff
  <1>2. MarkInv /\ [Next]_vars => MarkInv'
    BY TypeStep, MarkStep DEF MarkInv
  <1>3. MarkInv => AutoDisabledIsOff
    BY DEF MarkInv
  <1>. QED BY <1>1, <1>2, <1>3, PTL DEF Spec

-----------------------------------------------------------------------------
(* The evidence of a check.                                                *)

Gone == \A d \in Deliveries : delivery[d].status = "swept"

\* A step that undoes no success does not move the last one back.
LEMMA SuccessesStay ==
    ASSUME TypeOK, TypeOK',
           \A d \in Deliveries : delivery[d].status = "succeeded" => delivery'[d] = delivery[d]
    PROVE  LastSuccess <= LastSuccess'
  <1>1. delivery \in [Deliveries -> Rows] /\ delivery' \in [Deliveries -> Rows]
    BY DEF TypeOK, Rows
  <1>2. Successes(delivery) \subseteq Successes(delivery')
    BY <1>1 DEF Successes
  <1>3. Max(Successes(delivery)) <= Max(Successes(delivery'))
    BY <1>1, <1>2, LatestSuccess
  <1>. QED BY <1>3 DEF LastSuccess, Successes

\* While no success is pruned, a step undoes no success or leaves no row.
LEMMA SuccessStep ==
    ASSUME TypeOK, EvidenceStands, "succeeded" \notin Prunable, [Next]_vars
    PROVE  \/ Gone'
           \/ \A d \in Deliveries : delivery[d].status = "succeeded" => delivery'[d] = delivery[d]
  <1>1. ASSUME NEW p \in Processors, Complete(p)
        PROVE \A d \in Deliveries : delivery[d].status = "succeeded" => delivery'[d] = delivery[d]
    BY <1>1 DEF TypeOK, EvidenceStands, Complete, At
  <1>2. ASSUME NEW e \in Deliveries, Retry(e)
        PROVE \A d \in Deliveries : delivery[d].status = "succeeded" => delivery'[d] = delivery[d]
    BY <1>2 DEF TypeOK, Retry, Retriable
  <1>3. ASSUME NEW e \in Deliveries, Sweep(e)
        PROVE \A d \in Deliveries : delivery[d].status = "succeeded" => delivery'[d] = delivery[d]
    BY <1>3 DEF TypeOK, Sweep
  <1>4. CASE DeleteEndpoint
    BY <1>4 DEF DeleteEndpoint, Swept, Gone
  <1>5. CASE UNCHANGED delivery
    BY <1>5
  <1>. QED BY <1>1, <1>2, <1>3, <1>4, <1>5
           DEF Next, Processor, Try, ReadEndpoint, ReadLastSuccess, ReadStreak,
               Disable, Abandon, Patch, Tick, vars

\* Once no row is left, none comes back.
LEMMA GoneStays ==
    ASSUME TypeOK, Gone, [Next]_vars PROVE Gone'
  <1>1. ASSUME NEW p \in Processors, Complete(p) PROVE FALSE
    BY <1>1 DEF TypeOK, Complete, At, Gone
  <1>2. ASSUME NEW d \in Deliveries, Retry(d) \/ Sweep(d) PROVE FALSE
    BY <1>2, AutoDisableAssumption DEF Retry, Retriable, Sweep, Gone
  <1>3. CASE DeleteEndpoint
    BY <1>3 DEF DeleteEndpoint, Swept, Gone
  <1>4. CASE UNCHANGED delivery
    BY <1>4 DEF Gone
  <1>. QED BY <1>1, <1>2, <1>3, <1>4
           DEF Next, Processor, Try, ReadEndpoint, ReadLastSuccess, ReadStreak,
               Disable, Abandon, Patch, Tick, vars

Exclusive == \A p, q \in Processors : p # q /\ ~At(p, "idle") /\ ~At(q, "idle")
                => call[p].delivery # call[q].delivery

StillOpen == \A p \in Processors : At(p, "complete")
                => delivery[call[p].delivery].status \in {"open", "swept"}

Known == \A p \in Processors : Gone \/ call[p].before <= LastSuccess

Seen == \A p \in Processors : At(p, "streak") => Gone \/ call[p].before <= call[p].lastSuccess

EvidenceInv == TypeOK /\ EvidenceStands /\ NoInterveningSuccess

LEMMA EvidenceParts == EvidenceStands <=> Exclusive /\ StillOpen /\ Known /\ Seen
  BY DEF EvidenceStands, Exclusive, StillOpen, Known, Seen, Gone

\* What a step of p leaves of a call: it stays, goes on with its Delivery or ends.
LEMMA CallStep ==
    ASSUME TypeOK, [Next]_vars, NEW p \in Processors
    PROVE  \/ call'[p] = call[p]
           \/ call'[p] = IdleCall
           \/ \E d \in Deliveries : Try(p, d)
           \/ Complete(p)
           \/ ReadEndpoint(p)
           \/ ReadLastSuccess(p)
           \/ ReadStreak(p)
  <1>1. ASSUME NEW q \in Processors, Processor(q)
        PROVE q # p => call'[p] = call[p]
    BY <1>1 DEF TypeOK, Processor, Try, Complete, ReadEndpoint, ReadLastSuccess, ReadStreak,
                Disable, Abandon
  <1>2. Disable(p) \/ Abandon(p) => call'[p] = IdleCall
    BY DEF TypeOK, Disable, Abandon
  <1>3. CASE UNCHANGED call
    BY <1>3
  <1>. QED BY <1>1, <1>2, <1>3 DEF Next, Processor, Patch, Retry, Sweep, DeleteEndpoint, Tick, vars

\* A call that goes on keeps its Delivery and is past the recording of its outcome.
LEMMA CallGoesOn ==
    ASSUME TypeOK, [Next]_vars, NEW p \in Processors,
           call'[p] # call[p], ~(\E d \in Deliveries : Try(p, d))
    PROVE  \/ call'[p].at = "idle"
           \/ /\ call[p].at # "idle"
              /\ call'[p].at \notin {"idle", "complete"}
              /\ call'[p].delivery = call[p].delivery
  <1>1. IdleCall.at = "idle"
    BY DEF IdleCall
  <1>2. CASE Complete(p)
    BY <1>1, <1>2 DEF TypeOK, Complete, At
  <1>3. CASE ReadEndpoint(p)
    BY <1>1, <1>3 DEF TypeOK, ReadEndpoint, At
  <1>4. CASE ReadLastSuccess(p)
    BY <1>1, <1>4 DEF TypeOK, ReadLastSuccess, At
  <1>5. CASE ReadStreak(p)
    <2>. DEFINE failures == FailuresAfter(call[p].lastSuccess)
    <2>1. \/ call' = [call EXCEPT ![p] = [call[p] EXCEPT !.at = "disable", !.start = Min(failures)]]
          \/ call' = [call EXCEPT ![p] = IdleCall]
      BY <1>5 DEF TypeOK, ReadStreak
    <2>. HIDE DEF failures
    <2>2. call[p].at = "streak"
      BY <1>5 DEF ReadStreak, At
    <2>. QED BY <1>1, <2>1, <2>2 DEF TypeOK
  <1>. QED BY <1>1, <1>2, <1>3, <1>4, <1>5, CallStep

LEMMA ExclusiveStep == TypeOK /\ Exclusive /\ [Next]_vars => Exclusive'
  <1>. SUFFICES ASSUME TypeOK, Exclusive, [Next]_vars PROVE Exclusive'
    OBVIOUS
  <1>1. ASSUME NEW p \in Processors, NEW d \in Deliveries, Try(p, d) PROVE Exclusive'
    <2>1. call'[p].delivery = d
      BY <1>1 DEF TypeOK, Try, IdleCall
    <2>2. \A q \in Processors : q # p => call'[q] = call[q] /\ call[q].delivery # d
      BY <1>1 DEF TypeOK, Try
    <2>. QED BY <2>1, <2>2 DEF Exclusive, At
  <1>2. CASE \A p \in Processors :
               call'[p].at = "idle" \/ (call'[p].delivery = call[p].delivery /\ call[p].at # "idle")
    BY <1>2 DEF Exclusive, At
  <1>3. ASSUME NEW p \in Processors, ~(\E d \in Deliveries : Try(p, d))
        PROVE call'[p].at = "idle" \/ (call'[p].delivery = call[p].delivery /\ call[p].at # "idle")
    <2>1. call'[p] = call[p] => \/ call'[p].at = "idle"
                                \/ (call'[p].delivery = call[p].delivery /\ call[p].at # "idle")
      OBVIOUS
    <2>. QED BY <1>3, <2>1, CallGoesOn
  <1>. QED BY <1>1, <1>2, <1>3

LEMMA StillOpenStep == TypeOK /\ Exclusive /\ StillOpen /\ [Next]_vars => StillOpen'
  <1>. SUFFICES ASSUME TypeOK, Exclusive, StillOpen, [Next]_vars,
                       NEW p \in Processors, At(p, "complete")'
                PROVE  delivery'[call'[p].delivery].status \in {"open", "swept"}
    BY DEF StillOpen
  <1>1. ASSUME NEW d \in Deliveries, Try(p, d)
        PROVE delivery'[call'[p].delivery].status \in {"open", "swept"}
    BY <1>1 DEF TypeOK, Try, IdleCall
  <1>2. CASE call'[p] = call[p]
    <2>. DEFINE d == call[p].delivery
    <2>1. d \in Deliveries /\ delivery[d].status \in {"open", "swept"} /\ call[p].at = "complete"
      BY <1>2 DEF TypeOK, StillOpen, At
    <2>2. ASSUME NEW q \in Processors, Complete(q) PROVE delivery'[d] = delivery[d]
      <3>1. q # p
        <4>1. IdleCall.at = "idle"
          BY DEF IdleCall
        <4>2. call'[q].at # "complete"
          BY <2>2, <4>1 DEF TypeOK, Complete
        <4>. QED BY <1>2, <2>1, <4>2
      <3>2. call[q].delivery # d
        BY <2>1, <2>2, <3>1 DEF Exclusive, Complete, At
      <3>. QED BY <2>1, <2>2, <3>2 DEF TypeOK, Complete
    <2>3. ASSUME NEW e \in Deliveries, Retry(e) \/ Sweep(e)
          PROVE delivery'[d].status \in {"open", "swept"}
      BY <2>1, <2>3 DEF TypeOK, Retry, Retriable, Sweep, Swept
    <2>4. CASE DeleteEndpoint
      BY <1>2, <2>1, <2>4 DEF TypeOK, DeleteEndpoint, Swept
    <2>5. CASE UNCHANGED delivery
      BY <1>2, <2>1, <2>5
    <2>6. delivery'[d].status \in {"open", "swept"}
      BY <1>2, <2>1, <2>2, <2>3, <2>4, <2>5
         DEF Next, Processor, Try, ReadEndpoint, ReadLastSuccess, ReadStreak,
             Disable, Abandon, Patch, Tick, vars
    <2>. QED BY <1>2, <2>6
  <1>3. CASE call'[p].at # "complete"
    BY <1>3 DEF At
  <1>4. ~(call'[p] = call[p]) /\ ~(\E d \in Deliveries : Try(p, d)) => call'[p].at # "complete"
    BY CallGoesOn
  <1>. QED BY <1>1, <1>2, <1>3, <1>4

\* A call takes note of the last success only when it records its failure.
LEMMA BeforeStep ==
    ASSUME TypeOK, [Next]_vars, NEW p \in Processors
    PROVE  call'[p].before \in {call[p].before, Never, LastSuccess}
  <1>1. IdleCall.before = Never
    BY DEF IdleCall
  <1>2. ASSUME NEW d \in Deliveries, Try(p, d) PROVE call'[p].before = Never
    BY <1>2 DEF TypeOK, Try, IdleCall
  <1>3. CASE Complete(p)
    BY <1>1, <1>3 DEF TypeOK, Complete
  <1>4. CASE ReadEndpoint(p)
    BY <1>1, <1>4 DEF TypeOK, ReadEndpoint
  <1>5. CASE ReadLastSuccess(p)
    BY <1>5 DEF TypeOK, ReadLastSuccess
  <1>6. CASE ReadStreak(p)
    <2>. DEFINE failures == FailuresAfter(call[p].lastSuccess)
    <2>1. \/ call' = [call EXCEPT ![p] = [call[p] EXCEPT !.at = "disable", !.start = Min(failures)]]
          \/ call' = [call EXCEPT ![p] = IdleCall]
      BY <1>6 DEF TypeOK, ReadStreak
    <2>. HIDE DEF failures
    <2>2. call'[p].before = call[p].before \/ call'[p] = IdleCall
      BY <2>1 DEF TypeOK
    <2>. QED BY <1>1, <2>2
  <1>. QED BY <1>1, <1>2, <1>3, <1>4, <1>5, <1>6, CallStep

LEMMA KnownStep ==
    ASSUME TypeOK, TypeOK', EvidenceStands, "succeeded" \notin Prunable, [Next]_vars
    PROVE  Known'
  <1>. SUFFICES ASSUME NEW p \in Processors, ~Gone'
                PROVE  call'[p].before <= LastSuccess'
    BY DEF Known
  <1>1. LastSuccess <= LastSuccess'
    BY SuccessStep, SuccessesStay
  <1>2. call[p].before <= LastSuccess
    BY EvidenceParts, GoneStays DEF Known
  <1>3. LastSuccess \in Times /\ Never <= LastSuccess
    BY LastSuccessType, AutoDisableAssumption DEF TypeOK, Rows, Times, Never
  <1>4. LastSuccess' \in Times
    <2>1. delivery' \in [Deliveries -> Rows]
      BY DEF TypeOK, Rows
    <2>. QED BY <2>1, LatestSuccess DEF LastSuccess, Successes
  <1>5. call[p].before \in Times
    BY DEF TypeOK
  <1>6. call'[p].before <= LastSuccess
    <2>1. call'[p].before \in {call[p].before, Never, LastSuccess}
      BY BeforeStep
    <2>2. LastSuccess <= LastSuccess
      BY <1>3, AutoDisableAssumption DEF Times, Never
    <2>. QED BY <1>2, <1>3, <2>1, <2>2
  <1>7. call'[p].before \in Times
    BY DEF TypeOK
  <1>. QED BY <1>1, <1>3, <1>4, <1>6, <1>7, AutoDisableAssumption DEF Times, Never

\* A call is about to read the streak because it was, or has read the last success.
LEMMA StreakEntered ==
    ASSUME TypeOK, [Next]_vars, NEW p \in Processors, At(p, "streak")'
    PROVE  \/ call'[p] = call[p] /\ At(p, "streak")
           \/ /\ ReadLastSuccess(p)
              /\ call'[p].lastSuccess = LastSuccess
              /\ call'[p].before = call[p].before
  <1>1. call'[p].at = "streak"
    BY DEF At
  <1>2. CASE call'[p] = call[p]
    BY <1>1, <1>2 DEF At
  <1>3. CASE ReadLastSuccess(p)
    BY <1>3 DEF TypeOK, ReadLastSuccess
  <1>4. IdleCall.at = "idle"
    BY DEF IdleCall
  <1>5. ASSUME NEW d \in Deliveries, Try(p, d) PROVE FALSE
    BY <1>1, <1>5 DEF TypeOK, Try, IdleCall
  <1>6. ASSUME Complete(p) PROVE FALSE
    BY <1>1, <1>4, <1>6 DEF TypeOK, Complete, At
  <1>7. ~ReadEndpoint(p)
    BY <1>1, <1>4 DEF TypeOK, ReadEndpoint
  <1>8. ASSUME ReadStreak(p) PROVE FALSE
    <2>. DEFINE failures == FailuresAfter(call[p].lastSuccess)
    <2>1. \/ call' = [call EXCEPT ![p] = [call[p] EXCEPT !.at = "disable", !.start = Min(failures)]]
          \/ call' = [call EXCEPT ![p] = IdleCall]
      BY <1>8 DEF TypeOK, ReadStreak
    <2>. HIDE DEF failures
    <2>2. call \in [Processors -> Calls] /\ call[p] \in Calls
      BY DEF TypeOK, Calls
    <2>3. CASE call' = [call EXCEPT ![p] = [call[p] EXCEPT !.at = "disable", !.start = Min(failures)]]
      <3>1. call'[p] = [call[p] EXCEPT !.at = "disable", !.start = Min(failures)]
        BY <2>2, <2>3
      <3>. QED BY <1>1, <2>2, <3>1 DEF Calls
    <2>4. CASE call' = [call EXCEPT ![p] = IdleCall]
      <3>1. call'[p] = IdleCall
        BY <2>2, <2>4
      <3>. QED BY <1>1, <1>4, <3>1
    <2>. QED BY <2>1, <2>3, <2>4
  <1>. QED BY <1>1, <1>2, <1>3, <1>4, <1>5, <1>6, <1>7, <1>8, CallStep

LEMMA SeenStep ==
    ASSUME TypeOK, TypeOK', EvidenceStands, [Next]_vars
    PROVE  Seen'
  <1>. SUFFICES ASSUME NEW p \in Processors, At(p, "streak")', ~Gone'
                PROVE  call'[p].before <= call'[p].lastSuccess
    BY DEF Seen
  <1>1. ~Gone
    BY GoneStays
  <1>2. CASE call'[p] = call[p] /\ At(p, "streak")
    BY <1>1, <1>2, EvidenceParts DEF Seen
  <1>3. CASE call'[p].lastSuccess = LastSuccess /\ call'[p].before = call[p].before
    <2>1. call[p].before <= LastSuccess
      BY <1>1, EvidenceParts DEF Known
    <2>. QED BY <1>3, <2>1
  <1>. QED BY <1>2, <1>3, StreakEntered

LEMMA NoInterveningSuccessStep ==
    ASSUME TypeOK, TypeOK', EvidenceStands, NoInterveningSuccess, [Next]_vars
    PROVE  NoInterveningSuccess'
  <1>. SUFFICES ASSUME NEW p \in Processors, At(p, "disable")'
                PROVE  /\ call'[p].start > call'[p].before
                       /\ call'[p].start + Window <= call'[p].time
    BY DEF NoInterveningSuccess
  <1>1. CASE call'[p] = call[p]
    BY <1>1 DEF NoInterveningSuccess, At
  <1>2. IdleCall.at = "idle"
    BY DEF IdleCall
  <1>3. CASE ReadStreak(p)
    <2>. DEFINE failures == FailuresAfter(call[p].lastSuccess)
    <2>1. /\ failures # {} /\ LongEnough(Min(failures), call[p].time)
          /\ call' = [call EXCEPT ![p] = [call[p] EXCEPT !.at = "disable", !.start = Min(failures)]]
      BY <1>2, <1>3 DEF TypeOK, ReadStreak, At
    <2>2. delivery \in [Deliveries -> Rows] /\ call[p].lastSuccess \in Times
          /\ call[p].before \in Times /\ call[p].time \in Times
      BY DEF TypeOK, Rows
    <2>3. Min(failures) \in Times /\ Min(failures) > call[p].lastSuccess
      BY <2>1, <2>2, StreakStart
    <2>4. ~Gone
      BY <2>1, <2>2 DEF Gone, FailuresAfter, Failures
    <2>5. call[p].before <= call[p].lastSuccess
      BY <1>3, <2>4, EvidenceParts DEF Seen, ReadStreak
    <2>. HIDE DEF failures
    <2>6. /\ call'[p].start = Min(failures)
          /\ call'[p].before = call[p].before
          /\ call'[p].time = call[p].time
      BY <2>1 DEF TypeOK
    <2>7. Min(failures) > call[p].before
      BY <2>2, <2>3, <2>5, AutoDisableAssumption DEF Times, Never
    <2>8. Min(failures) + Window <= call[p].time
      BY <2>1, <2>2, <2>3, AutoDisableAssumption DEF Times, Never, LongEnough
    <2>. QED BY <2>6, <2>7, <2>8
  <1>4. ASSUME NEW d \in Deliveries, Try(p, d) PROVE FALSE
    BY <1>4 DEF TypeOK, Try, IdleCall, At
  <1>5. CASE Complete(p)
    BY <1>2, <1>5 DEF TypeOK, Complete, At
  <1>6. CASE ReadEndpoint(p)
    BY <1>2, <1>6 DEF TypeOK, ReadEndpoint, At
  <1>7. CASE ReadLastSuccess(p)
    BY <1>7 DEF TypeOK, ReadLastSuccess, At
  <1>. QED BY <1>1, <1>2, <1>3, <1>4, <1>5, <1>6, <1>7, CallStep DEF At

LEMMA EvidenceInit == Init => EvidenceInv
  <1>. SUFFICES ASSUME Init PROVE EvidenceInv
    OBVIOUS
  <1>1. TypeOK
    BY TypeInit
  <1>2. \A p \in Processors : call[p].at = "idle" /\ call[p].before = Never
    BY DEF Init, IdleCall
  <1>3. LastSuccess \in Times
    BY <1>1, LastSuccessType DEF TypeOK, Rows
  <1>4. Never <= LastSuccess
    BY <1>3, AutoDisableAssumption DEF Times, Never
  <1>5. Exclusive /\ StillOpen /\ Known /\ Seen
    BY <1>2, <1>4 DEF Exclusive, StillOpen, Known, Seen, At
  <1>6. NoInterveningSuccess
    BY <1>2 DEF NoInterveningSuccess, At
  <1>. QED BY <1>1, <1>5, <1>6, EvidenceParts DEF EvidenceInv

LEMMA EvidenceStep == "succeeded" \notin Prunable /\ EvidenceInv /\ [Next]_vars => EvidenceInv'
  <1>. SUFFICES ASSUME "succeeded" \notin Prunable, EvidenceInv, [Next]_vars PROVE EvidenceInv'
    OBVIOUS
  <1>1. TypeOK /\ EvidenceStands /\ NoInterveningSuccess
    BY DEF EvidenceInv
  <1>2. TypeOK'
    BY <1>1, TypeStep
  <1>3. Exclusive' /\ StillOpen'
    BY <1>1, EvidenceParts, ExclusiveStep, StillOpenStep
  <1>4. Known' /\ Seen' /\ NoInterveningSuccess'
    BY <1>1, <1>2, KnownStep, SeenStep, NoInterveningSuccessStep
  <1>5. EvidenceStands'
    BY <1>3, <1>4 DEF EvidenceStands, Exclusive, StillOpen, Known, Seen, Gone
  <1>. QED BY <1>2, <1>4, <1>5 DEF EvidenceInv

(* While no success is pruned, a worker only comes to disable an           *)
(* Endpoint on failures that span the window with no success, recorded     *)
(* before the last of them was, in between.                                *)
THEOREM NoKnownSuccessIntervenes ==
    ASSUME "succeeded" \notin Prunable PROVE Spec => []NoInterveningSuccess
  <1>1. EvidenceInv /\ [Next]_vars => EvidenceInv'
    BY EvidenceStep
  <1>2. EvidenceInv => NoInterveningSuccess
    BY DEF EvidenceInv
  <1>. QED BY <1>1, <1>2, EvidenceInit, PTL DEF Spec

(* While no success is pruned, what a worker has read towards a            *)
(* disable stays true until it acts: its Delivery is closed and held by it *)
(* alone, and no success it has not seen was recorded before it decided.   *)
THEOREM EvidenceIsStable ==
    ASSUME "succeeded" \notin Prunable PROVE Spec => []EvidenceStands
  <1>1. EvidenceInv /\ [Next]_vars => EvidenceInv'
    BY EvidenceStep
  <1>2. EvidenceInv => EvidenceStands
    BY DEF EvidenceInv
  <1>. QED BY <1>1, <1>2, EvidenceInit, PTL DEF Spec

-----------------------------------------------------------------------------
(* What the two SELECTs cannot overlook.                                   *)

\* The success a check has read is not later than the last one on the rows.
NotAhead == \A p \in Processors : At(p, "streak") => Gone \/ call[p].lastSuccess <= LastSuccess

LEMMA NotAheadStep ==
    ASSUME TypeOK, TypeOK', EvidenceStands, NotAhead, "succeeded" \notin Prunable, [Next]_vars
    PROVE  NotAhead'
  <1>. SUFFICES ASSUME NEW p \in Processors, At(p, "streak")', ~Gone'
                PROVE  call'[p].lastSuccess <= LastSuccess'
    BY DEF NotAhead
  <1>1. LastSuccess <= LastSuccess' /\ ~Gone
    BY SuccessStep, SuccessesStay, GoneStays
  <1>2. LastSuccess \in Times /\ call[p].lastSuccess \in Times
    BY LastSuccessType DEF TypeOK, Rows
  <1>3. LastSuccess' \in Times
    <2>1. delivery' \in [Deliveries -> Rows]
      BY DEF TypeOK, Rows
    <2>. QED BY <2>1, LatestSuccess DEF LastSuccess, Successes
  <1>4. call'[p].lastSuccess = LastSuccess
        \/ (call'[p] = call[p] /\ call[p].lastSuccess <= LastSuccess)
    BY <1>1, StreakEntered DEF NotAhead
  <1>. QED BY <1>1, <1>2, <1>3, <1>4, AutoDisableAssumption DEF Times, Never

\* A streak that is due on the rows is due to a check that has read no later success.
LEMMA DueIsFound ==
    ASSUME TypeOK, NEW t \in Times, NEW time \in Times, t <= LastSuccess, StreakDue(time)
    PROVE  FailuresAfter(t) # {} /\ LongEnough(Min(FailuresAfter(t)), time)
  <1>1. PICK start \in FailuresAfter(LastSuccess) : start + Window <= time
    BY DEF StreakDue
  <1>2. /\ delivery \in [Deliveries -> Rows] /\ LastSuccess \in Nat /\ t \in Nat /\ time \in Nat
        /\ Window \in Nat
    BY LastSuccessType, AutoDisableAssumption DEF TypeOK, Rows, Times, Never
  <1>3. start \in FailuresAfter(t) /\ start \in Nat
    <2>1. PICK d \in Deliveries : /\ delivery[d].status \in Failures
                                  /\ delivery[d].updatedAt > LastSuccess
                                  /\ start = delivery[d].updatedAt
      BY DEF FailuresAfter
    <2>2. start \in Nat /\ start > t
      BY <1>2, <2>1, AutoDisableAssumption DEF Rows, Times, Never
    <2>. QED BY <2>1, <2>2 DEF FailuresAfter
  <1>4. FailuresAfter(t) \in SUBSET Nat
    BY <1>2, AutoDisableAssumption DEF FailuresAfter, Rows, Times, Never
  <1>5. Min(FailuresAfter(t)) \in Nat /\ Min(FailuresAfter(t)) <= start
    BY <1>3, <1>4, MinIsLeast
  <1>6. time - Min(FailuresAfter(t)) >= Window
    BY <1>1, <1>2, <1>3, <1>5
  <1>. QED BY <1>3, <1>6 DEF LongEnough

LEMMA MissedNone ==
    ASSUME TypeOK, NotAhead, NEW p \in Processors, ReadStreak(p), call'[p].at = "idle"
    PROVE  ~StreakDue(call[p].time)
  <1>. SUFFICES ASSUME StreakDue(call[p].time) PROVE FALSE
    OBVIOUS
  <1>. DEFINE failures == FailuresAfter(call[p].lastSuccess)
  <1>1. call[p].lastSuccess \in Times /\ call[p].time \in Times
    BY DEF TypeOK
  <1>2. ~Gone
    BY DEF StreakDue, FailuresAfter, Failures, Gone
  <1>3. call[p].lastSuccess <= LastSuccess
    BY <1>2 DEF ReadStreak, NotAhead
  <1>4. failures # {} /\ LongEnough(Min(failures), call[p].time)
    BY <1>1, <1>3, DueIsFound
  <1>5. call' = [call EXCEPT ![p] = [call[p] EXCEPT !.at = "disable", !.start = Min(failures)]]
    BY <1>4 DEF ReadStreak
  <1>. HIDE DEF failures
  <1>6. call'[p] = [call[p] EXCEPT !.at = "disable", !.start = Min(failures)] /\ call[p] \in Calls
    BY <1>5 DEF TypeOK, Calls
  <1>7. call'[p].at = "disable"
    BY <1>6 DEF Calls
  <1>. QED BY <1>7

(* While no success is pruned, a check that reads the rows and gives up    *)
(* overlooks no streak that is due, though a success may commit between    *)
(* its two SELECTs.                                                        *)
THEOREM NoDisableIsMissed ==
    ASSUME "succeeded" \notin Prunable PROVE Spec => NoMissedDisable
  <1>. DEFINE Inv == EvidenceInv /\ NotAhead
  <1>1. Init => Inv
    <2>1. Init => NotAhead
      BY DEF Init, NotAhead, IdleCall, At
    <2>. QED BY <2>1, EvidenceInit
  <1>2. Inv /\ [Next]_vars => Inv'
    <2>. SUFFICES ASSUME Inv, [Next]_vars PROVE Inv'
      OBVIOUS
    <2>1. EvidenceInv'
      BY EvidenceStep
    <2>. QED BY <2>1, NotAheadStep DEF EvidenceInv
  <1>3. Inv /\ [Next]_vars =>
          [\A p \in Processors : ReadStreak(p) /\ call'[p].at = "idle"
              => ~StreakDue(call[p].time)]_vars
    BY MissedNone DEF EvidenceInv
  <1>. QED BY <1>1, <1>2, <1>3, PTL DEF Spec, NoMissedDisable
=============================================================================
