----------------------- MODULE DeliveryPipelineProofs -----------------------
(***************************************************************************)
(* Proofs about DeliveryPipeline, for every set of Deliveries, workers and *)
(* requests, every finite set of processors and every bound: the type      *)
(* invariant, the inductive invariant IInv and the safety properties that  *)
(* follow from it; then, each on an invariant of its own beside IInv, who  *)
(* holds a job, what the POSTs cost, and that no Delivery is stranded.     *)
(***************************************************************************)
EXTENDS DeliveryPipeline, FiniteSetTheorems, TLAPS

Jobs == [state : JobStates, lock : Processors \cup {NoLock}, made : Nat, stalls : Nat]

\* Moving a job to another state, with any lock and counts, gives a job.
LEMMA MovedJob ==
    ASSUME NEW j \in Jobs, NEW s \in JobStates, NEW l \in Processors \cup {NoLock},
           NEW m \in Nat, NEW k \in Nat
    PROVE  /\ [j EXCEPT !.state = s, !.lock = l] \in Jobs
           /\ [j EXCEPT !.state = s, !.lock = l, !.made = m] \in Jobs
           /\ [j EXCEPT !.state = s, !.lock = l, !.stalls = k] \in Jobs
  BY DEF Jobs

\* Every operation of the queue turns a job into a job.
LEMMA JobOperations ==
    ASSUME NEW j \in Jobs
    PROVE  /\ NoJob \in Jobs
           /\ AddJob(j) \in Jobs
           /\ RemoveJob(j) \in Jobs
           /\ PromoteJob(j) \in Jobs
           /\ StallJob(j) \in Jobs
           /\ \A P \in SUBSET Processors : DropLock(j, P) \in Jobs
  <1>1. NoJob \in Jobs
    BY DEF NoJob, Jobs, JobStates
  <1>2. AddJob(j) \in Jobs /\ RemoveJob(j) \in Jobs
    BY <1>1 DEF AddJob, RemoveJob, NoJob, Jobs, JobStates
  <1>3. PromoteJob(j) \in Jobs
    BY DEF PromoteJob, Jobs, JobStates
  <1>4. j.stalls + 1 \in Nat
    BY DEF Jobs
  <1>5. StallJob(j) \in Jobs
    BY <1>4, MovedJob DEF StallJob, JobStates
  <1>6. \A P \in SUBSET Processors : DropLock(j, P) \in Jobs
    BY DEF DropLock, Jobs
  <1>7. QED
    BY <1>1, <1>2, <1>3, <1>5, <1>6

LEMMA ProcessorJobOperations ==
    ASSUME NEW j \in Jobs, NEW p \in Processors
    PROVE  /\ TakeJob(j, p) \in Jobs
           /\ CompleteJob(j, p) \in Jobs
           /\ FailJob(j, p) \in Jobs
           /\ RetryJob(j, p) \in Jobs
  <1>1. TakeJob(j, p) \in Jobs
    BY DEF TakeJob, Jobs, JobStates
  <1>2. j.made + 1 \in Nat
    BY DEF Jobs
  <1>3. CompleteJob(j, p) \in Jobs
    <2>1. [j EXCEPT !.state = "completed", !.lock = NoLock] \in Jobs
      BY DEF Jobs, JobStates
    <2>. QED BY <2>1 DEF CompleteJob
  <1>4. FailJob(j, p) \in Jobs
    <2>1. [j EXCEPT !.state = "failed", !.lock = NoLock, !.made = @ + 1] \in Jobs
      BY <1>2 DEF Jobs, JobStates
    <2>. QED BY <2>1 DEF FailJob
  <1>5. RetryJob(j, p) \in Jobs
    BY <1>2, <1>4, MovedJob DEF RetryJob, JobStates
  <1>6. QED
    BY <1>1, <1>3, <1>4, <1>5

\* An outcome decides one of four statuses, none of which deletes the row.
LEMMA StatusAfterType ==
    ASSUME NEW o \in Outcomes, NEW n \in Nat
    PROVE  StatusAfter(o, n) \in {"succeeded", "failed", "dead_lettered", "pending"}
  BY DEF StatusAfter, Outcomes

LEMMA ResultOfType ==
    ASSUME NEW s \in {"succeeded", "failed", "dead_lettered", "pending"}
    PROVE  ResultOf(s) \in {"returned", "autoDisable", "retryable"}
  BY DEF ResultOf
-----------------------------------------------------------------------------
(* The typing of one processor's state, of one request's, and of the rows. *)

Calls == [at : {"idle"} \cup CallSteps \cup Results,
          delivery : Deliveries \cup {NoDelivery},
          seen : Nat,
          outcome : Outcomes \cup {"none"}]

\* What TypeOK says of one processor.
CallOK(c) ==
    /\ c \in Calls
    /\ c.at = "idle" <=> c.delivery = NoDelivery
    /\ c.at = "complete" => c.outcome # "none"

ProcessorsOK == processor \in [Processors -> Calls] /\ \A p \in Processors : CallOK(processor[p])

\* A busy processor that moves on to another step of its call stays well typed.
LEMMA MovedCall ==
    ASSUME NEW c, CallOK(c), c.at # "idle",
           NEW s \in (CallSteps \cup Results) \ {"complete"}
    PROVE  CallOK([c EXCEPT !.at = s])
  BY DEF CallOK, Calls, CallSteps, Results

LEMMA ReadCall ==
    ASSUME NEW c, CallOK(c), c.at # "idle", NEW n \in Nat
    PROVE  CallOK([c EXCEPT !.at = "mark", !.seen = n])
  BY DEF CallOK, Calls, CallSteps

LEMMA FetchedCall ==
    ASSUME NEW c, CallOK(c), c.at # "idle", NEW o \in Outcomes
    PROVE  CallOK([c EXCEPT !.at = "complete", !.outcome = o])
  BY DEF CallOK, Calls, CallSteps, Outcomes

LEMMA StartedCall ==
    ASSUME NEW d \in Deliveries
    PROVE  CallOK([Idle EXCEPT !.at = "get", !.delivery = d]) /\ CallOK(Idle)
  BY PipelineAssumption DEF CallOK, Calls, Idle, CallSteps, Results, Outcomes

RowsOK ==
    /\ status \in [Deliveries -> Status]
    /\ attemptCount \in [Deliveries -> Nat]
    /\ attempts \in [Deliveries -> SUBSET Attempt]

JobsOK == job \in [Deliveries -> Jobs]

ApiOK ==
    /\ fanOut \in {"enqueue", "rollback", "done"}
    /\ request \in [Requests -> [at : {"idle", "read", "check", "remove", "add"},
                                 delivery : Deliveries \cup {NoDelivery}]]
    /\ \A r \in Requests : request[r].at = "idle" <=> request[r].delivery = NoDelivery
    /\ retries \in [Deliveries -> Nat]

CountersOK == posts \in [Deliveries -> Nat] /\ faults \in Nat
WorkersOK == worker \in [Workers -> {"running", "closing"}]

LEMMA TypeParts ==
    /\ TypeOK <=> RowsOK /\ JobsOK /\ ProcessorsOK /\ ApiOK /\ CountersOK /\ WorkersOK
    /\ TypeOK' <=> RowsOK' /\ JobsOK' /\ ProcessorsOK' /\ ApiOK' /\ CountersOK' /\ WorkersOK'
  BY DEF TypeOK, RowsOK, JobsOK, ProcessorsOK, ApiOK, CountersOK, WorkersOK, CallOK,
         Calls, Jobs, At, Target

LEMMA InitType == Init => TypeOK
  <1> SUFFICES ASSUME Init PROVE TypeOK
    OBVIOUS
  <1>1. RowsOK /\ ApiOK /\ CountersOK /\ WorkersOK
    BY PipelineAssumption DEF Init, RowsOK, ApiOK, CountersOK, WorkersOK, Status,
         OpenStatus, FinalStatus, Quiet, Attempt
  <1>2. JobsOK
    BY DEF Init, JobsOK, Jobs, NoJob, JobStates
  <1>3. ProcessorsOK
    BY DEF Init, ProcessorsOK, CallOK, Calls, Idle, CallSteps, Results
  <1>4. QED
    BY <1>1, <1>2, <1>3, TypeParts

\* What a step does to one processor, and to one job, keeps all well typed.
LEMMA UpdateProcessor ==
    ASSUME ProcessorsOK, NEW p \in Processors, NEW c, CallOK(c),
           processor' = [processor EXCEPT ![p] = c]
    PROVE  ProcessorsOK'
  BY DEF ProcessorsOK, CallOK

LEMMA UpdateJob ==
    ASSUME JobsOK, NEW d \in Deliveries, NEW j \in Jobs, job' = [job EXCEPT ![d] = j]
    PROVE  JobsOK'
  BY DEF JobsOK

\* Goto, of a busy processor to any step but "complete".
LEMMA GotoOK ==
    ASSUME ProcessorsOK, NEW p \in Processors, ~At(p, "idle"),
           NEW s \in (CallSteps \cup Results) \ {"complete"}, Goto(p, s)
    PROVE  ProcessorsOK'
  <1>1. CallOK(processor[p]) /\ processor[p].at # "idle"
    BY DEF ProcessorsOK, At
  <1>2. CallOK([processor[p] EXCEPT !.at = s])
    BY <1>1, MovedCall
  <1>3. processor' = [processor EXCEPT ![p] = [processor[p] EXCEPT !.at = s]]
    BY DEF Goto
  <1>4. QED
    BY <1>2, <1>3, UpdateProcessor

LEMMA BusyTarget ==
    ASSUME ProcessorsOK, NEW p \in Processors, ~At(p, "idle")
    PROVE  Target(p) \in Deliveries
  BY DEF ProcessorsOK, CallOK, Calls, At, Target

LEMMA CascadeOK ==
    ASSUME RowsOK, NEW D \in SUBSET Deliveries, CascadeDelete(D)
    PROVE  RowsOK'
  BY DEF RowsOK, CascadeDelete, Status

-----------------------------------------------------------------------------
(* Type correctness, one lemma for the API, one for the processors.        *)

LEMMA FaultType == ASSUME faults \in Nat, NEW k, Fault(k) PROVE faults' \in Nat
  BY DEF Fault

LEMMA ApiType ==
    ASSUME TypeOK,
           \/ FanOut \/ ApiDies
           \/ \E r \in Requests :
                \/ \E d \in Deliveries : RetryDeadLettered(r, d)
                \/ RequestStep(r) \/ RequestFails(r)
    PROVE  TypeOK'
  <1> USE TypeParts
  <1>1. CASE EnqueueBulk
    <2>1. JobsOK'
      BY <1>1, JobOperations DEF EnqueueBulk, JobsOK
    <2>2. RowsOK' /\ ProcessorsOK' /\ ApiOK' /\ CountersOK' /\ WorkersOK'
      BY <1>1, FaultType DEF EnqueueBulk, RowsOK, ProcessorsOK, ApiOK, CountersOK, WorkersOK, rowVars
    <2>3. QED
      BY <2>1, <2>2
  <1>2. CASE EnqueueBulkFails
    BY <1>2, FaultType DEF EnqueueBulkFails, RowsOK, JobsOK, ProcessorsOK, ApiOK, CountersOK, WorkersOK, rowVars
  <1>3. CASE RollBack
    <2>1. RowsOK'
      BY <1>3, CascadeOK DEF RollBack, RowsOK, rowVars
    <2>2. JobsOK' /\ ProcessorsOK' /\ ApiOK' /\ CountersOK' /\ WorkersOK'
      BY <1>3, FaultType DEF RollBack, JobsOK, ProcessorsOK, ApiOK, CountersOK, WorkersOK
    <2>3. QED
      BY <2>1, <2>2
  <1>4. CASE ApiDies
    BY <1>4, FaultType DEF ApiDies, Quiet, RowsOK, JobsOK, ProcessorsOK, ApiOK, CountersOK, WorkersOK, rowVars
  <1>5. ASSUME NEW r \in Requests, NEW d \in Deliveries, RetryDeadLettered(r, d)
        PROVE  TypeOK'
    <2>1. RowsOK'
      BY <1>5 DEF RetryDeadLettered, RowsOK, Status, OpenStatus
    <2>2. ApiOK'
      BY <1>5, PipelineAssumption DEF RetryDeadLettered, ApiOK
    <2>3. JobsOK' /\ ProcessorsOK' /\ CountersOK' /\ WorkersOK'
      BY <1>5 DEF RetryDeadLettered, JobsOK, ProcessorsOK, CountersOK, WorkersOK
    <2>4. QED
      BY <2>1, <2>2, <2>3
  <1>6. ASSUME NEW r \in Requests, RequestStep(r) \/ RequestFails(r)
        PROVE  TypeOK'
    <2>1. RowsOK' /\ ProcessorsOK' /\ CountersOK' /\ WorkersOK'
      BY <1>6, FaultType DEF RequestStep, RequestFails, ReadDetail, CheckJob, RemoveFinishedJob,
         Enqueue, RowsOK, ProcessorsOK, CountersOK, WorkersOK, rowVars
    <2>2. request[r].at # "idle" => request[r].delivery \in Deliveries
      BY <1>6 DEF ApiOK
    <2>3. JobsOK'
      <3>1. CASE RemoveFinishedJob(r)
        BY <3>1, <2>2, JobOperations DEF RemoveFinishedJob, JobsOK
      <3>2. CASE Enqueue(r)
        BY <3>2, <2>2, JobOperations DEF Enqueue, JobsOK
      <3>3. CASE ReadDetail(r) \/ CheckJob(r) \/ RequestFails(r)
        BY <3>3 DEF ReadDetail, CheckJob, RequestFails, JobsOK
      <3>4. QED
        BY <1>6, <3>1, <3>2, <3>3 DEF RequestStep
    <2>4. ApiOK'
      BY <1>6 DEF RequestStep, RequestFails, ReadDetail, CheckJob, RemoveFinishedJob,
         Enqueue, ApiOK, Quiet
    <2>5. QED
      BY <2>1, <2>3, <2>4
  <1>7. QED
    BY <1>1, <1>2, <1>3, <1>4, <1>5, <1>6 DEF FanOut

LEMMA CallType ==
    ASSUME TypeOK, NEW p \in Processors, Call(p)
    PROVE  TypeOK'
  <1> USE TypeParts
  <1>1. processor[p].at # "idle"
    BY DEF Call, GetDelivery, MarkInProgress, MarkMisses, Recheck, Fetch, Complete,
       CompleteFails, Reset, AutoDisable, CallRejects, Settle, SettleFails, At, Results
  <1>2. CallOK(processor[p]) /\ Target(p) \in Deliveries
    BY <1>1, BusyTarget DEF ProcessorsOK, At
  <1>3. WorkersOK' /\ ApiOK'
    BY DEF Call, GetDelivery, MarkInProgress, MarkMisses, Recheck, Fetch, Complete,
       CompleteFails, Reset, AutoDisable, CallRejects, Settle, SettleFails, WorkersOK, ApiOK, apiVars
  <1>4. CountersOK'
    <2>1. CASE Fetch(p)
      BY <1>2, <2>1 DEF Fetch, CountersOK
    <2>2. CASE ~Fetch(p)
      BY <2>2, FaultType DEF Call, GetDelivery, MarkInProgress, MarkMisses, Recheck, Complete,
         CompleteFails, Reset, AutoDisable, CallRejects, Settle, SettleFails, Replies, Rejects, CountersOK
    <2>3. QED
      BY <2>1, <2>2
  <1>5. JobsOK'
    <2>1. CASE Settle(p)
      <3>1. job[Target(p)] \in Jobs
        BY <1>2 DEF JobsOK
      <3>2. PICK j \in Jobs : job' = [job EXCEPT ![Target(p)] = j]
        <4>1. CASE At(p, "returned")
          BY <2>1, <3>1, <4>1, ProcessorJobOperations DEF Settle, At
        <4>2. CASE At(p, "retryable")
          BY <2>1, <3>1, <4>2, ProcessorJobOperations DEF Settle, At
        <4>3. CASE At(p, "threw")
          BY <2>1, <3>1, <4>3, ProcessorJobOperations DEF Settle, At
        <4>4. QED
          BY <2>1, <4>1, <4>2, <4>3 DEF Settle, At, Results
      <3>3. QED
        BY <1>2, <3>2, UpdateJob
    <2>2. CASE SettleFails(p)
      BY <1>2, <2>2, JobOperations DEF SettleFails, JobsOK
    <2>3. CASE ~Settle(p) /\ ~SettleFails(p)
      BY <2>3 DEF Call, GetDelivery, MarkInProgress, MarkMisses, Recheck, Fetch, Complete,
         CompleteFails, Reset, AutoDisable, CallRejects, JobsOK
    <2>4. QED
      BY <2>1, <2>2, <2>3
  <1>6. RowsOK'
    <2>1. CASE MarkInProgress(p)
      BY <1>2, <2>1 DEF MarkInProgress, RowsOK, Status, OpenStatus
    <2>2. CASE Complete(p)
      <3> DEFINE n == AttemptNumber(p)
                 o == processor[p].outcome
      <3>1. n \in Nat /\ o \in Outcomes
        BY <1>2, <2>2 DEF Complete, AttemptNumber, At, CallOK, Calls
      <3>2. StatusAfter(o, n) \in Status
        BY <3>1, StatusAfterType DEF Status, OpenStatus, FinalStatus
      <3>3. [n |-> n, outcome |-> o] \in Attempt
        BY <3>1 DEF Attempt
      <3>4. QED
        BY <1>2, <2>2, <3>1, <3>2, <3>3 DEF Complete, RowsOK
    <2>3. CASE Reset(p)
      BY <1>2, <2>3 DEF Reset, Released, RowsOK, Status, OpenStatus
    <2>4. CASE ~MarkInProgress(p) /\ ~Complete(p) /\ ~Reset(p)
      BY <2>4 DEF Call, GetDelivery, MarkMisses, Recheck, Fetch,
         CompleteFails, AutoDisable, CallRejects, Settle, SettleFails, RowsOK, rowVars
    <2>5. QED
      BY <2>1, <2>2, <2>3, <2>4
  <1>7. ProcessorsOK'
    <2> DEFINE Steps == (CallSteps \cup Results) \ {"complete"}
    <2>1. ASSUME NEW s \in Steps, Goto(p, s)
          PROVE  ProcessorsOK'
      BY <1>1, <2>1, GotoOK DEF At
    <2>2. CASE GetDelivery(p)
      <3>1. attemptCount[Target(p)] \in Nat
        BY <1>2 DEF RowsOK
      <3>2. CASE Goto(p, "returned")
        BY <2>1, <3>2 DEF Results
      <3>3. CASE processor' = [processor EXCEPT ![p].at = "mark", ![p].seen = attemptCount[Target(p)]]
        <4>1. CallOK([processor[p] EXCEPT !.at = "mark", !.seen = attemptCount[Target(p)]])
          BY <1>1, <1>2, <3>1, ReadCall
        <4>2. QED
          BY <3>3, <4>1, UpdateProcessor
      <3>4. QED
        BY <2>2, <3>2, <3>3 DEF GetDelivery
    <2>3. CASE MarkInProgress(p)
      BY <2>1, <2>3 DEF MarkInProgress, Replies, CallSteps, Results
    <2>4. CASE MarkMisses(p) \/ Recheck(p) \/ CompleteFails(p) \/ AutoDisable(p) \/ CallRejects(p)
      BY <2>1, <2>4 DEF MarkMisses, Recheck, CompleteFails, AutoDisable, CallRejects, CallSteps, Results
    <2>5. CASE Fetch(p)
      <3>1. PICK o \in Outcomes :
              processor' = [processor EXCEPT ![p].at = "complete", ![p].outcome = o]
        BY <2>5 DEF Fetch
      <3>2. CallOK([processor[p] EXCEPT !.at = "complete", !.outcome = o])
        BY <1>1, <1>2, FetchedCall
      <3>3. QED
        BY <3>1, <3>2, UpdateProcessor
    <2>6. CASE Complete(p)
      <3> DEFINE n == AttemptNumber(p)
                 o == processor[p].outcome
      <3>1. n \in Nat /\ o \in Outcomes
        BY <1>2, <2>6 DEF Complete, AttemptNumber, At, CallOK, Calls
      <3>2. ResultOf(StatusAfter(o, n)) \in Steps
        BY <3>1, StatusAfterType, ResultOfType DEF CallSteps, Results
      <3>3. QED
        BY <2>1, <2>6, <3>2 DEF Complete, Replies, CallSteps
    <2>7. CASE Reset(p)
      BY <2>1, <2>7 DEF Reset, Replies, Results
    <2>8. CASE Settle(p) \/ SettleFails(p)
      <3>1. CallOK(Idle)
        BY <1>2, StartedCall
      <3>2. QED
        BY <2>8, <3>1, UpdateProcessor DEF Settle, SettleFails
    <2>9. QED
      BY <2>2, <2>3, <2>4, <2>5, <2>6, <2>7, <2>8 DEF Call
  <1>8. QED
    BY <1>3, <1>4, <1>5, <1>6, <1>7

LEMMA QueueType ==
    ASSUME TypeOK,
           \/ \E p \in Processors, d \in Deliveries : Take(p, d)
           \/ \E d \in Deliveries : Promote(d) \/ Stall(d)
           \/ \E w \in Workers : Crash(w) \/ Shutdown(w) \/ Restart(w)
           \/ DeleteRows
    PROVE  TypeOK'
  <1> USE TypeParts
  <1>1. ASSUME NEW p \in Processors, NEW d \in Deliveries, Take(p, d)
        PROVE  TypeOK'
    <2>1. JobsOK'
      <3>1. TakeJob(job[d], p) \in Jobs
        BY ProcessorJobOperations DEF JobsOK
      <3>2. QED
        BY <1>1, <3>1, UpdateJob DEF Take
    <2>2. ProcessorsOK'
      BY <1>1, StartedCall, UpdateProcessor DEF Take
    <2>3. RowsOK' /\ ApiOK' /\ CountersOK' /\ WorkersOK'
      BY <1>1 DEF Take, RowsOK, ApiOK, CountersOK, WorkersOK, rowVars, apiVars
    <2>4. QED
      BY <2>1, <2>2, <2>3
  <1>2. ASSUME NEW d \in Deliveries, Promote(d) \/ Stall(d)
        PROVE  TypeOK'
    <2>1. JobsOK'
      BY <1>2, JobOperations DEF Promote, Stall, JobsOK
    <2>2. RowsOK' /\ ProcessorsOK' /\ ApiOK' /\ CountersOK' /\ WorkersOK'
      BY <1>2, FaultType DEF Promote, Stall, RowsOK, ProcessorsOK, ApiOK, CountersOK,
         WorkersOK, rowVars, apiVars
    <2>3. QED
      BY <2>1, <2>2
  <1>3. ASSUME NEW w \in Workers, Crash(w)
        PROVE  TypeOK'
    <2>1. JobsOK'
      BY <1>3, JobOperations DEF Crash, SlotsOf, JobsOK
    <2>2. ProcessorsOK'
      <3>1. CallOK(Idle)
        BY DEF CallOK, Calls, Idle
      <3>2. QED
        BY <1>3, <3>1 DEF Crash, SlotsOf, ProcessorsOK, CallOK
    <2>3. RowsOK' /\ ApiOK' /\ CountersOK' /\ WorkersOK'
      BY <1>3, FaultType DEF Crash, RowsOK, ApiOK, CountersOK, WorkersOK, rowVars, apiVars
    <2>4. QED
      BY <2>1, <2>2, <2>3
  <1>4. ASSUME NEW w \in Workers, Shutdown(w) \/ Restart(w)
        PROVE  TypeOK'
    BY <1>4, FaultType DEF Shutdown, Restart, RowsOK, JobsOK, ProcessorsOK, ApiOK,
       CountersOK, WorkersOK, rowVars, apiVars
  <1>5. CASE DeleteRows
    <2>1. RowsOK'
      BY <1>5, CascadeOK DEF DeleteRows
    <2>2. JobsOK' /\ ProcessorsOK' /\ ApiOK' /\ CountersOK' /\ WorkersOK'
      BY <1>5, FaultType DEF DeleteRows, JobsOK, ProcessorsOK, ApiOK, CountersOK,
         WorkersOK, apiVars
    <2>3. QED
      BY <2>1, <2>2
  <1>6. QED
    BY <1>1, <1>2, <1>3, <1>4, <1>5

LEMMA NextType == TypeOK /\ [Next]_vars => TypeOK'
  <1> SUFFICES ASSUME TypeOK, [Next]_vars PROVE TypeOK'
    OBVIOUS
  <1>1. CASE Next
    BY <1>1, ApiType, CallType, QueueType DEF Next
  <1>2. CASE UNCHANGED vars
    BY <1>2 DEF vars, TypeOK, At, Target
  <1>3. QED
    BY <1>1, <1>2

\* The rows, jobs, calls and requests keep their types, and a busy processor
\* or request always has a Delivery to work on.
THEOREM TypeCorrect == Spec => []TypeOK
  <1>1. QED
    BY InitType, NextType, PTL DEF Spec

-----------------------------------------------------------------------------
(* The rows of one Delivery: what an accepted completeDelivery does to them. *)

\* AttemptsNumbered and StatusExplained, of one Delivery with status s, count
\* c and Attempts A.
Numbered(A, c) ==
    /\ {a.n : a \in A} = 1..c
    /\ \A a, b \in A : a.n = b.n => a = b

Explained(s, A, c) ==
    s # "absent" =>
        /\ (s = "succeeded") <=> (\E a \in A : a.outcome = "ok")
        /\ (s = "failed") <=> (\E a \in A : a.outcome = "permanent")
        /\ \A a \in A : a.n < c => a.outcome = "transient"

\* The next number is free, and every number up to the count is taken.
LEMMA NumberTaken ==
    ASSUME NEW A \in SUBSET Attempt, NEW c \in Nat, Numbered(A, c), NEW k \in Nat
    PROVE  (\E a \in A : a.n = k + 1) <=> k < c
  <1>1. (\E a \in A : a.n = k + 1) <=> k + 1 \in {a.n : a \in A}
    OBVIOUS
  <1>2. k + 1 \in 1..c <=> k < c
    OBVIOUS
  <1>3. QED
    BY <1>1, <1>2 DEF Numbered

LEMMA NextIsFree ==
    ASSUME TypeOK, AttemptsNumbered, NEW d \in Deliveries
    PROVE  ~\E a \in attempts[d] : a.n = attemptCount[d] + 1
  <1>1. attempts[d] \in SUBSET Attempt /\ attemptCount[d] \in Nat
    BY DEF TypeOK
  <1>2. Numbered(attempts[d], attemptCount[d])
    BY DEF AttemptsNumbered, Numbered
  <1>3. ~(attemptCount[d] < attemptCount[d])
    BY <1>1
  <1>. QED BY <1>1, <1>2, <1>3, NumberTaken

LEMMA NumberAppended ==
    ASSUME NEW A \in SUBSET Attempt, NEW c \in Nat, Numbered(A, c), NEW o \in Outcomes
    PROVE  Numbered(A \cup {[n |-> c + 1, outcome |-> o]}, c + 1)
  <1> DEFINE new == [n |-> c + 1, outcome |-> o]
             B == A \cup {new}
  <1>1. {a.n : a \in B} = {a.n : a \in A} \cup {c + 1}
    <2>1. new.n = c + 1
      OBVIOUS
    <2> HIDE DEF new
    <2>2. QED
      BY <2>1
  <1>2. 1..(c + 1) = 1..c \cup {c + 1}
    OBVIOUS
  <1>3. \A a \in A : a.n # c + 1
    <2>1. \A a \in A : a.n \in 1..c
      BY DEF Numbered
    <2>2. QED
      BY <2>1
  <1>4. ASSUME NEW a \in B, NEW b \in B, a.n = b.n PROVE a = b
    BY <1>3, <1>4 DEF Numbered
  <1>5. QED
    BY <1>1, <1>2, <1>4 DEF Numbered

\* Recording an outcome on an open Delivery keeps its status explained.
LEMMA OutcomeExplained ==
    ASSUME NEW A \in SUBSET Attempt, NEW c \in Nat, Numbered(A, c),
           NEW s \in OpenStatus, Explained(s, A, c), NEW o \in Outcomes
    PROVE  Explained(StatusAfter(o, c + 1), A \cup {[n |-> c + 1, outcome |-> o]}, c + 1)
  <1> DEFINE new == [n |-> c + 1, outcome |-> o]
             B == A \cup {new}
             t == StatusAfter(o, c + 1)
  <1>1. \A a \in A : a.outcome = "transient"
    BY DEF Explained, OpenStatus, Attempt, Outcomes
  <1>2. \A a \in B : a.n < c + 1 => a.outcome = "transient"
    BY <1>1
  <1>3. (t = "succeeded" <=> o = "ok") /\ (t = "failed" <=> o = "permanent")
    BY DEF StatusAfter, Outcomes
  <1>4. (\E a \in B : a.outcome = "ok") <=> o = "ok"
    <2>1. new.outcome = o
      OBVIOUS
    <2> HIDE DEF new
    <2>2. QED
      BY <1>1, <2>1
  <1>5. (\E a \in B : a.outcome = "permanent") <=> o = "permanent"
    <2>1. new.outcome = o
      OBVIOUS
    <2> HIDE DEF new
    <2>2. QED
      BY <1>1, <2>1
  <1>6. QED
    BY <1>2, <1>3, <1>4, <1>5 DEF Explained

-----------------------------------------------------------------------------
(* Every step of the pipeline is a step of the Delivery lifecycle.         *)

LEMMA TargetType ==
    ASSUME TypeOK, NEW p \in Processors, ~At(p, "idle")
    PROVE  Target(p) \in Deliveries
  BY TypeParts, BusyTarget

\* A completeDelivery that the unique index lets through found the row as the
\* call read it: present, open, and with one Attempt fewer than its number.
LEMMA AcceptedWrite ==
    ASSUME TypeOK, AttemptsNumbered, NoStaleWrite, NEW p \in Processors, Complete(p)
    PROVE  /\ Target(p) \in Deliveries
           /\ status[Target(p)] \in OpenStatus
           /\ AttemptNumber(p) = attemptCount[Target(p)] + 1
           /\ processor[p].outcome \in Outcomes
  <1> DEFINE d == Target(p)
             k == processor[p].seen
  <1>1. d \in Deliveries /\ At(p, "complete") /\ ~Refused(p)
    BY TargetType DEF Complete, At
  <1>2. k \in Nat /\ attemptCount[d] \in Nat /\ attempts[d] \in SUBSET Attempt
    BY <1>1 DEF TypeOK
  <1>3. processor[p].outcome \in Outcomes
    BY <1>1 DEF TypeOK, At
  <1>4. Present(d) /\ ~\E a \in attempts[d] : a.n = k + 1
    BY <1>1 DEF Refused, Present, AttemptNumber
  <1>5. ~(k < attemptCount[d])
    BY <1>1, <1>2, <1>4, NumberTaken DEF AttemptsNumbered, Numbered
  <1>6. k <= attemptCount[d] /\ (k = attemptCount[d] => status[d] \in OpenStatus)
    BY <1>1, <1>4 DEF NoStaleWrite, At
  <1>7. k = attemptCount[d]
    BY <1>2, <1>5, <1>6
  <1>8. QED
    BY <1>1, <1>3, <1>6, <1>7 DEF AttemptNumber

\* The pipeline's steps as the rows see them: a worker's, a deletion, an
\* operator's retry (the only one that counts in `retries`), or none of these.
WorkStep ==
    \E d \in Deliveries :
        Lifecycle!Claim(d) \/ Lifecycle!Release(d) \/ \E o \in Outcomes : Lifecycle!Record(d, o)

DeleteStep == \E D \in SUBSET Deliveries : Lifecycle!Delete(D)

RequeueStep(d) ==
    /\ Lifecycle!Requeue(d)
    /\ retries' = [retries EXCEPT ![d] = @ + 1]

RowStep ==
    \/ UNCHANGED <<rowVars, retries>>
    \/ (WorkStep \/ DeleteStep) /\ UNCHANGED retries
    \/ \E d \in Deliveries : RequeueStep(d)

LEMMA CascadeIsDelete ==
    ASSUME NEW D \in SUBSET Deliveries, CascadeDelete(D)
    PROVE  DeleteStep
  BY DEF CascadeDelete, DeleteStep, Lifecycle!Delete

LEMMA CallRowStep ==
    ASSUME TypeOK, AttemptsNumbered, NoStaleWrite, NEW p \in Processors, Call(p)
    PROVE  RowStep
  <1>1. UNCHANGED retries
    BY DEF Call, GetDelivery, MarkInProgress, MarkMisses, Recheck, Fetch, Complete,
       CompleteFails, Reset, AutoDisable, CallRejects, Settle, SettleFails, apiVars
  <1>2. WorkStep \/ UNCHANGED rowVars
    <2>1. CASE MarkInProgress(p)
      <3>1. Target(p) \in Deliveries
        BY <2>1, TargetType DEF MarkInProgress, At
      <3>2. Lifecycle!Claim(Target(p))
        BY <2>1 DEF MarkInProgress, Lifecycle!Claim
      <3>3. QED
        BY <3>1, <3>2 DEF WorkStep
    <2>2. CASE Reset(p)
      <3>1. Target(p) \in Deliveries
        BY <2>2, TargetType DEF Reset, At
      <3>2. CASE status[Target(p)] = "in_progress"
        <4>1. Lifecycle!Release(Target(p))
          BY <2>2, <3>2, <3>1 DEF Reset, Released, Lifecycle!Release, TypeOK
        <4>2. QED
          BY <3>1, <4>1 DEF WorkStep
      <3>3. CASE status[Target(p)] # "in_progress"
        BY <2>2, <3>1, <3>3 DEF Reset, Released, TypeOK, rowVars
      <3>4. QED
        BY <3>2, <3>3
    <2>3. CASE Complete(p)
      <3> DEFINE d == Target(p)
                 o == processor[p].outcome
      <3>1. /\ d \in Deliveries
            /\ status[d] \in OpenStatus
            /\ AttemptNumber(p) = attemptCount[d] + 1
            /\ o \in Outcomes
        BY <2>3, AcceptedWrite
      <3>2. Lifecycle!Record(d, o)
        BY <2>3, <3>1 DEF Complete, Lifecycle!Record, Lifecycle!OpenStatus, OpenStatus,
           StatusAfter, Lifecycle!StatusAfter
      <3>3. QED
        BY <3>1, <3>2 DEF WorkStep
    <2>4. CASE ~MarkInProgress(p) /\ ~Reset(p) /\ ~Complete(p)
      BY <2>4 DEF Call, GetDelivery, MarkMisses, Recheck, Fetch,
         CompleteFails, AutoDisable, CallRejects, Settle, SettleFails
    <2>5. QED
      BY <2>1, <2>2, <2>3, <2>4
  <1>3. QED
    BY <1>1, <1>2 DEF RowStep

LEMMA StepIsRowStep ==
    ASSUME TypeOK, AttemptsNumbered, NoStaleWrite, [Next]_vars
    PROVE  RowStep
  <1>1. CASE FanOut \/ ApiDies \/ DeleteRows
    <2>1. UNCHANGED retries
      BY <1>1 DEF FanOut, EnqueueBulk, EnqueueBulkFails, RollBack, ApiDies, DeleteRows, apiVars
    <2>2. UNCHANGED rowVars \/ \E D \in SUBSET Deliveries : CascadeDelete(D)
      BY <1>1 DEF FanOut, EnqueueBulk, EnqueueBulkFails, RollBack, ApiDies, DeleteRows
    <2>3. QED
      BY <2>1, <2>2, CascadeIsDelete DEF RowStep
  <1>2. ASSUME NEW r \in Requests, NEW d \in Deliveries, RetryDeadLettered(r, d)
        PROVE  RowStep
    <2>1. RequeueStep(d)
      BY <1>2 DEF RetryDeadLettered, CanRetry, RequeueStep, Lifecycle!Requeue
    <2>2. QED
      BY <2>1 DEF RowStep
  <1>3. ASSUME NEW r \in Requests, RequestStep(r) \/ RequestFails(r)
        PROVE  RowStep
    BY <1>3 DEF RequestStep, RequestFails, ReadDetail, CheckJob, RemoveFinishedJob, Enqueue, RowStep
  <1>4. ASSUME NEW p \in Processors, NEW d \in Deliveries, Take(p, d)
        PROVE  RowStep
    BY <1>4 DEF Take, apiVars, RowStep
  <1>5. ASSUME NEW d \in Deliveries, Promote(d) \/ Stall(d)
        PROVE  RowStep
    BY <1>5 DEF Promote, Stall, apiVars, RowStep
  <1>6. ASSUME NEW w \in Workers, Crash(w) \/ Shutdown(w) \/ Restart(w)
        PROVE  RowStep
    BY <1>6 DEF Crash, Shutdown, Restart, apiVars, RowStep
  <1>7. CASE UNCHANGED vars
    BY <1>7 DEF vars, rowVars, RowStep
  <1>8. QED
    BY <1>1, <1>2, <1>3, <1>4, <1>5, <1>6, <1>7, CallRowStep DEF Next

LEMMA StepRefines ==
    ASSUME RowStep
    PROVE  [Lifecycle!Next]_rowVars
  <1>1. Lifecycle!Outcomes = Outcomes
    BY DEF Outcomes, Lifecycle!Outcomes
  <1>2. QED
    BY <1>1 DEF RowStep, WorkStep, DeleteStep, RequeueStep, Lifecycle!Next, rowVars

-----------------------------------------------------------------------------
(* What a row step keeps.                                                  *)

\* The rows of one Delivery after a step: the same, claimed or released,
\* deleted, brought back from dead_lettered, or one Attempt longer.
LEMMA RowCases ==
    ASSUME TypeOK, RowStep, NEW d \in Deliveries
    PROVE  \/ UNCHANGED <<status[d], attemptCount[d], attempts[d]>>
           \/ /\ status[d] \in OpenStatus /\ status'[d] \in OpenStatus
              /\ UNCHANGED <<attemptCount[d], attempts[d]>>
           \/ status'[d] = "absent" /\ attemptCount'[d] = 0 /\ attempts'[d] = {}
           \/ /\ status[d] = "dead_lettered" /\ status'[d] = "pending"
              /\ UNCHANGED <<attemptCount[d], attempts[d]>>
           \/ \E o \in Outcomes :
                /\ status[d] \in OpenStatus
                /\ status'[d] = StatusAfter(o, attemptCount[d] + 1)
                /\ attemptCount'[d] = attemptCount[d] + 1
                /\ attempts'[d] =
                     attempts[d] \cup {[n |-> attemptCount[d] + 1, outcome |-> o]}
  <1>1. CASE UNCHANGED rowVars
    BY <1>1 DEF rowVars
  <1>2. ASSUME NEW e \in Deliveries, Lifecycle!Claim(e) \/ Lifecycle!Release(e)
        PROVE  \/ UNCHANGED <<status[d], attemptCount[d], attempts[d]>>
               \/ /\ status[d] \in OpenStatus /\ status'[d] \in OpenStatus
                  /\ UNCHANGED <<attemptCount[d], attempts[d]>>
    BY <1>2 DEF Lifecycle!Claim, Lifecycle!Release, TypeOK, OpenStatus
  <1>3. ASSUME NEW e \in Deliveries, NEW o \in Outcomes, Lifecycle!Record(e, o)
        PROVE  \/ UNCHANGED <<status[d], attemptCount[d], attempts[d]>>
               \/ /\ status[d] \in OpenStatus
                  /\ status'[d] = StatusAfter(o, attemptCount[d] + 1)
                  /\ attemptCount'[d] = attemptCount[d] + 1
                  /\ attempts'[d] =
                       attempts[d] \cup {[n |-> attemptCount[d] + 1, outcome |-> o]}
    <2>1. Lifecycle!StatusAfter(o, attemptCount[e] + 1) = StatusAfter(o, attemptCount[e] + 1)
      BY DEF Lifecycle!StatusAfter, StatusAfter
    <2>2. CASE e = d
      BY <1>3, <2>1, <2>2 DEF Lifecycle!Record, Lifecycle!OpenStatus, OpenStatus, TypeOK
    <2>3. CASE e # d
      BY <1>3, <2>3 DEF Lifecycle!Record, TypeOK
    <2>4. QED
      BY <2>2, <2>3
  <1>4. CASE DeleteStep
    BY <1>4 DEF DeleteStep, Lifecycle!Delete
  <1>5. ASSUME NEW e \in Deliveries, RequeueStep(e)
        PROVE  \/ UNCHANGED <<status[d], attemptCount[d], attempts[d]>>
               \/ /\ status[d] = "dead_lettered" /\ status'[d] = "pending"
                  /\ UNCHANGED <<attemptCount[d], attempts[d]>>
    BY <1>5 DEF RequeueStep, Lifecycle!Requeue, TypeOK
  <1>6. QED
    BY <1>1, <1>2, <1>3, <1>4, <1>5 DEF RowStep, WorkStep

LEMMA AttemptsNumberedStep ==
    ASSUME TypeOK, RowStep, AttemptsNumbered
    PROVE  AttemptsNumbered'
  <1>1. ASSUME NEW d \in Deliveries
        PROVE  Numbered(attempts[d], attemptCount[d])'
    <2>1. Numbered(attempts[d], attemptCount[d])
      BY DEF AttemptsNumbered, Numbered
    <2>2. attempts[d] \in SUBSET Attempt /\ attemptCount[d] \in Nat
      BY DEF TypeOK
    <2>3. Numbered({}, 0)
      BY DEF Numbered
    <2>4. \A o \in Outcomes :
            Numbered(attempts[d] \cup {[n |-> attemptCount[d] + 1, outcome |-> o]},
                     attemptCount[d] + 1)
      BY <2>1, <2>2, NumberAppended
    <2>5. \/ UNCHANGED <<attemptCount[d], attempts[d]>>
          \/ attemptCount'[d] = 0 /\ attempts'[d] = {}
          \/ \E o \in Outcomes :
               /\ attemptCount'[d] = attemptCount[d] + 1
               /\ attempts'[d] = attempts[d] \cup {[n |-> attemptCount[d] + 1, outcome |-> o]}
      BY RowCases
    <2>6. Numbered(attempts'[d], attemptCount'[d])
      BY <2>1, <2>3, <2>4, <2>5
    <2>7. QED
      BY <2>6 DEF Numbered
  <1>2. QED
    BY <1>1 DEF AttemptsNumbered, Numbered

LEMMA StatusExplainedStep ==
    ASSUME TypeOK, RowStep, AttemptsNumbered, StatusExplained
    PROVE  StatusExplained'
  <1>1. ASSUME NEW d \in Deliveries
        PROVE  Explained(status'[d], attempts'[d], attemptCount'[d])
    <2>1. Numbered(attempts[d], attemptCount[d])
      BY DEF AttemptsNumbered, Numbered
    <2>2. Explained(status[d], attempts[d], attemptCount[d])
      BY DEF StatusExplained, Explained, Present
    <2>3. attempts[d] \in SUBSET Attempt /\ attemptCount[d] \in Nat
      BY DEF TypeOK
    <2>4. status[d] \in OpenStatus =>
            \A o \in Outcomes :
              Explained(StatusAfter(o, attemptCount[d] + 1),
                        attempts[d] \cup {[n |-> attemptCount[d] + 1, outcome |-> o]},
                        attemptCount[d] + 1)
      BY <2>1, <2>2, <2>3, OutcomeExplained
    <2>5. CASE UNCHANGED <<status[d], attemptCount[d], attempts[d]>>
      BY <2>2, <2>5
    <2>6. CASE /\ status[d] \in OpenStatus \cup {"dead_lettered"}
               /\ status'[d] \in OpenStatus
               /\ UNCHANGED <<attemptCount[d], attempts[d]>>
      BY <2>2, <2>6 DEF Explained, OpenStatus
    <2>7. CASE status'[d] = "absent"
      BY <2>7 DEF Explained
    <2>8. CASE /\ status[d] \in OpenStatus
               /\ \E o \in Outcomes :
                    /\ status'[d] = StatusAfter(o, attemptCount[d] + 1)
                    /\ attemptCount'[d] = attemptCount[d] + 1
                    /\ attempts'[d] =
                         attempts[d] \cup {[n |-> attemptCount[d] + 1, outcome |-> o]}
      BY <2>4, <2>8
    <2>9. QED
      BY <2>5, <2>6, <2>7, <2>8, RowCases DEF OpenStatus
  <1>2. QED
    BY <1>1 DEF StatusExplained, Explained, Present

LEMMA FinishedStep ==
    ASSUME TypeOK, RowStep, NEW d \in Deliveries, status[d] \in FinalStatus
    PROVE  \/ status'[d] = status[d] /\ attempts'[d] = attempts[d]
           \/ status'[d] = "absent"
  BY RowCases DEF FinalStatus, OpenStatus

\* A step that does not delete the row never lowers its count, and leaves an
\* open Delivery open unless it raises the count.
LEMMA RowsAdvance ==
    ASSUME TypeOK, RowStep, NEW d \in Deliveries, status'[d] # "absent"
    PROVE  /\ status[d] # "absent"
           /\ attemptCount'[d] >= attemptCount[d]
           /\ attemptCount'[d] = attemptCount[d] /\ status[d] \in OpenStatus
                => status'[d] \in OpenStatus
  <1>1. attemptCount[d] \in Nat
    BY DEF TypeOK
  <1>2. QED
    BY <1>1, RowCases DEF OpenStatus

-----------------------------------------------------------------------------
(* NoStaleWrite.                                                           *)

Reading == {"mark", "recheck", "fetch", "complete"}

\* Each processor after a step: no longer, or not yet, holding a reading; or
\* holding the one it held; or holding a fresh one.
Holds(p) == processor[p].at \in Reading

LEMMA ReadingStep ==
    ASSUME TypeOK, [Next]_vars, NEW p \in Processors, Holds(p)'
    PROVE  \/ /\ Holds(p)
              /\ processor'[p].seen = processor[p].seen
              /\ processor'[p].delivery = processor[p].delivery
           \/ /\ UNCHANGED rowVars
              /\ processor'[p].delivery \in Deliveries
              /\ processor'[p].seen = attemptCount[processor'[p].delivery]
              /\ status[processor'[p].delivery] \in OpenStatus
  <1> DEFINE Kept == /\ Holds(p)
                     /\ processor'[p].seen = processor[p].seen
                     /\ processor'[p].delivery = processor[p].delivery
             Fresh == /\ UNCHANGED rowVars
                      /\ processor'[p].delivery \in Deliveries
                      /\ processor'[p].seen = attemptCount[processor'[p].delivery]
                      /\ status[processor'[p].delivery] \in OpenStatus
  <1>1. processor'[p] = processor[p] => Kept
    BY DEF Holds
  <1>2. ASSUME NEW s, Goto(p, s), Holds(p) \/ s \notin Reading
        PROVE  Kept
    BY <1>2 DEF Goto, Holds, TypeOK
  <1>3. ASSUME Call(p)
        PROVE  Kept \/ Fresh
    <2>1. CASE GetDelivery(p)
      <3>1. CASE Goto(p, "returned")
        BY <1>2, <3>1 DEF Reading
      <3>2. CASE /\ status[Target(p)] \in OpenStatus
                 /\ processor' = [processor EXCEPT ![p].at = "mark",
                                                   ![p].seen = attemptCount[Target(p)]]
        <4>1. processor'[p].delivery = Target(p) /\ processor'[p].seen = attemptCount[Target(p)]
          BY <3>2 DEF TypeOK, Target
        <4>2. UNCHANGED rowVars /\ Target(p) \in Deliveries
          BY <2>1, TargetType DEF GetDelivery, At
        <4>3. QED
          BY <3>2, <4>1, <4>2
      <3>3. QED
        BY <2>1, <3>1, <3>2 DEF GetDelivery
    <2>2. CASE MarkInProgress(p) \/ MarkMisses(p) \/ Recheck(p)
      <3>1. Holds(p)
        BY <2>2 DEF MarkInProgress, MarkMisses, Recheck, At, Holds, Reading
      <3>2. \E s \in CallSteps \cup Results : Goto(p, s)
        BY <2>2 DEF MarkInProgress, MarkMisses, Recheck, Replies, CallSteps, Results
      <3>3. QED
        BY <1>2, <3>1, <3>2
    <2>3. CASE Fetch(p)
      BY <2>3 DEF Fetch, At, Holds, Reading, TypeOK
    <2>4. CASE Complete(p)
      BY <1>2, <2>4 DEF Complete, Replies, At, Holds, Reading
    <2>5. CASE CompleteFails(p) \/ Reset(p) \/ AutoDisable(p) \/ CallRejects(p)
      BY <1>2, <2>5 DEF CompleteFails, Reset, AutoDisable, CallRejects, Replies, Reading
    <2>6. CASE Settle(p) \/ SettleFails(p)
      BY <2>6 DEF Settle, SettleFails, Holds, Reading, Idle, TypeOK
    <2>7. QED
      BY <1>3, <2>1, <2>2, <2>3, <2>4, <2>5, <2>6 DEF Call
  <1>4. ASSUME NEW q \in Processors, q # p, Call(q)
        PROVE  processor'[p] = processor[p]
    BY <1>4 DEF Call, GetDelivery, MarkInProgress, MarkMisses, Recheck, Fetch, Complete,
       CompleteFails, Reset, AutoDisable, CallRejects, Settle, SettleFails, Replies, Goto, TypeOK
  <1>5. ASSUME NEW q \in Processors, NEW d \in Deliveries, Take(q, d)
        PROVE  processor'[p] = processor[p]
    BY <1>5 DEF Take, Holds, Reading, Idle, TypeOK
  <1>6. ASSUME NEW w \in Workers, Crash(w)
        PROVE  processor'[p] = processor[p]
    BY <1>6 DEF Crash, Holds, Reading, Idle, TypeOK
  <1>7. CASE UNCHANGED processor
    BY <1>1, <1>7
  <1>8. ASSUME \/ FanOut \/ ApiDies \/ DeleteRows \/ UNCHANGED vars
               \/ \E r \in Requests :
                    \/ \E d \in Deliveries : RetryDeadLettered(r, d)
                    \/ RequestStep(r) \/ RequestFails(r)
               \/ \E d \in Deliveries : Promote(d) \/ Stall(d)
               \/ \E w \in Workers : Shutdown(w) \/ Restart(w)
        PROVE  UNCHANGED processor
    BY <1>8 DEF FanOut, EnqueueBulk, EnqueueBulkFails, RollBack, ApiDies, DeleteRows, vars,
       RetryDeadLettered, RequestStep, RequestFails, ReadDetail, CheckJob, RemoveFinishedJob,
       Enqueue, Promote, Stall, Shutdown, Restart
  <1>9. QED
    BY <1>1, <1>3, <1>4, <1>5, <1>6, <1>7, <1>8 DEF Next

LEMMA NoStaleWriteStep ==
    ASSUME TypeOK, TypeOK', [Next]_vars, RowStep, NoStaleWrite
    PROVE  NoStaleWrite'
  <1> SUFFICES ASSUME NEW p \in Processors, Holds(p)', status'[processor'[p].delivery] # "absent"
               PROVE  LET d == processor'[p].delivery
                      IN  /\ processor'[p].seen <= attemptCount'[d]
                          /\ processor'[p].seen = attemptCount'[d] => status'[d] \in OpenStatus
    BY DEF NoStaleWrite, Holds, Reading, Present, Target
  <1> DEFINE d == processor'[p].delivery
             k == processor'[p].seen
  <1>1. d \in Deliveries /\ k \in Nat
    BY DEF TypeOK, Holds, Reading, At, Target
  <1>2. attemptCount[d] \in Nat /\ attemptCount'[d] \in Nat
    BY <1>1 DEF TypeOK
  <1>3. /\ status[d] # "absent"
        /\ attemptCount'[d] >= attemptCount[d]
        /\ attemptCount'[d] = attemptCount[d] /\ status[d] \in OpenStatus
             => status'[d] \in OpenStatus
    BY <1>1, RowsAdvance
  <1>4. CASE Holds(p) /\ k = processor[p].seen /\ d = processor[p].delivery
    <2>1. k <= attemptCount[d] /\ (k = attemptCount[d] => status[d] \in OpenStatus)
      BY <1>3, <1>4 DEF NoStaleWrite, Holds, Reading, Present, Target
    <2>2. QED
      BY <1>1, <1>2, <1>3, <2>1
  <1>5. CASE UNCHANGED rowVars /\ k = attemptCount[d] /\ status[d] \in OpenStatus
    BY <1>2, <1>5 DEF rowVars
  <1>6. QED
    BY <1>4, <1>5, ReadingStep

-----------------------------------------------------------------------------
(* AttemptBudget.                                                          *)

\* AttemptBudget of one Delivery with status s, count c and m operator retries.
Budgeted(s, c, m) ==
    s # "absent" =>
        /\ c <= MaxAttempts + m
        /\ s \in OpenStatus =>
             /\ c < MaxAttempts + m
             /\ m > 0 => c = MaxAttempts + m - 1
        /\ s = "dead_lettered" => c = MaxAttempts + m

LEMMA OutcomeBudgeted ==
    ASSUME NEW s \in OpenStatus, NEW c \in Nat, NEW m \in Nat, Budgeted(s, c, m),
           NEW o \in Outcomes
    PROVE  Budgeted(StatusAfter(o, c + 1), c + 1, m)
  <1>1. c + 1 <= MaxAttempts + m /\ (m > 0 => c + 1 = MaxAttempts + m)
    BY RowsAssumption DEF Budgeted, OpenStatus
  <1>2. CASE o \in {"ok", "permanent"}
    BY <1>1, <1>2 DEF Budgeted, StatusAfter, OpenStatus
  <1>3. CASE o = "transient"
    BY <1>1, <1>3, RowsAssumption DEF Budgeted, StatusAfter, OpenStatus
  <1>4. QED
    BY <1>2, <1>3 DEF Outcomes

LEMMA AttemptBudgetStep ==
    ASSUME TypeOK, TypeOK', RowStep, AttemptBudget
    PROVE  AttemptBudget'
  <1>1. ASSUME NEW d \in Deliveries
        PROVE  Budgeted(status'[d], attemptCount'[d], retries'[d])
    <2>1. attemptCount[d] \in Nat /\ retries[d] \in Nat
      BY DEF TypeOK
    <2>2. Budgeted(status[d], attemptCount[d], retries[d])
      BY <2>1, RowsAssumption DEF AttemptBudget, Budgeted, Present
    <2>3. CASE UNCHANGED <<rowVars, retries>>
      BY <2>2, <2>3 DEF rowVars
    <2>4. ASSUME NEW e \in Deliveries, RequeueStep(e)
          PROVE  Budgeted(status'[d], attemptCount'[d], retries'[d])
      <3>1. CASE e = d
        <4>1. /\ status[d] = "dead_lettered" /\ status'[d] = "pending"
              /\ attemptCount'[d] = attemptCount[d] /\ retries'[d] = retries[d] + 1
          BY <2>4, <3>1 DEF RequeueStep, Lifecycle!Requeue, TypeOK
        <4>2. QED
          BY <2>2, <2>1, <4>1, RowsAssumption DEF Budgeted, OpenStatus
      <3>2. CASE e # d
        BY <2>2, <2>4, <3>2 DEF RequeueStep, Lifecycle!Requeue, TypeOK
      <3>3. QED
        BY <3>1, <3>2
    <2>5. CASE WorkStep /\ UNCHANGED retries
      <3>1. PICK e \in Deliveries :
              Lifecycle!Claim(e) \/ Lifecycle!Release(e) \/ \E o \in Outcomes : Lifecycle!Record(e, o)
        BY <2>5 DEF WorkStep
      <3>2. CASE Lifecycle!Claim(e) \/ Lifecycle!Release(e)
        <4>1. /\ attemptCount'[d] = attemptCount[d]
              /\ status'[d] = status[d] \/ {status[d], status'[d]} \subseteq OpenStatus
          BY <3>2 DEF Lifecycle!Claim, Lifecycle!Release, TypeOK, OpenStatus
        <4>2. QED
          BY <2>2, <2>5, <4>1 DEF Budgeted, OpenStatus
      <3>3. ASSUME NEW o \in Outcomes, Lifecycle!Record(e, o)
            PROVE  Budgeted(status'[d], attemptCount'[d], retries'[d])
        <4>1. CASE e = d
          <5>1. /\ status[d] \in OpenStatus
                /\ status'[d] = StatusAfter(o, attemptCount[d] + 1)
                /\ attemptCount'[d] = attemptCount[d] + 1
            BY <3>3, <4>1 DEF Lifecycle!Record, Lifecycle!OpenStatus, OpenStatus,
               Lifecycle!StatusAfter, StatusAfter, TypeOK
          <5>2. QED
            BY <2>2, <2>1, <2>5, <5>1, OutcomeBudgeted
        <4>2. CASE e # d
          BY <2>2, <2>5, <3>3, <4>2 DEF Lifecycle!Record, TypeOK
        <4>3. QED
          BY <4>1, <4>2
      <3>4. QED
        BY <3>1, <3>2, <3>3
    <2>6. CASE DeleteStep /\ UNCHANGED retries
      <3>1. status'[d] = "absent" \/ UNCHANGED <<status[d], attemptCount[d]>>
        BY <2>6 DEF DeleteStep, Lifecycle!Delete
      <3>2. QED
        BY <2>2, <2>6, <3>1 DEF Budgeted
    <2>7. QED
      BY <2>3, <2>4, <2>5, <2>6 DEF RowStep
  <1>2. \A d \in Deliveries : attemptCount'[d] \in Nat /\ retries'[d] \in Nat
    BY DEF TypeOK
  <1>3. QED
    BY <1>1, <1>2, RowsAssumption DEF AttemptBudget, Budgeted, Present

-----------------------------------------------------------------------------
(* The inductive invariant and the theorems.                               *)

LEMMA InitInv == Init => IInv
  <1> SUFFICES ASSUME Init PROVE IInv
    OBVIOUS
  <1>1. AttemptsNumbered /\ StatusExplained
    BY DEF Init, AttemptsNumbered, StatusExplained
  <1>2. NoStaleWrite
    BY DEF Init, NoStaleWrite, Idle
  <1>3. AttemptBudget
    BY RowsAssumption DEF Init, AttemptBudget
  <1>4. QED
    BY <1>1, <1>2, <1>3, InitType DEF IInv

LEMMA NextInv ==
    ASSUME IInv, [Next]_vars
    PROVE  IInv' /\ RowStep
  <1>1. TypeOK'
    BY NextType DEF IInv
  <1>2. RowStep
    BY StepIsRowStep DEF IInv
  <1>3. AttemptsNumbered' /\ StatusExplained'
    BY <1>2, AttemptsNumberedStep, StatusExplainedStep DEF IInv
  <1>4. NoStaleWrite'
    BY <1>1, <1>2, NoStaleWriteStep DEF IInv
  <1>5. AttemptBudget'
    BY <1>1, <1>2, AttemptBudgetStep DEF IInv
  <1>6. QED
    BY <1>1, <1>2, <1>3, <1>4, <1>5 DEF IInv

\* The conjunction the four safety theorems below are read off.
THEOREM Inductive == Spec => []IInv
  <1>1. IInv /\ [Next]_vars => IInv'
    BY NextInv
  <1>2. QED
    BY <1>1, InitInv, PTL DEF Spec

\* Whatever crashes, expired locks, lost replies and operator retries put
\* processors in each other's way, the attempt rows of a Delivery are numbered
\* 1 to attempt_count without a gap or a repetition.
THEOREM AttemptsAreNumbered == Spec => []AttemptsNumbered
  <1>1. IInv => AttemptsNumbered
    BY DEF IInv
  <1>2. QED
    BY <1>1, Inductive, PTL

\* The status of a Delivery always agrees with its recorded Attempts.
THEOREM StatusIsExplained == Spec => []StatusExplained
  <1>1. IInv => StatusExplained
    BY DEF IInv
  <1>2. QED
    BY <1>1, Inductive, PTL

\* A call about to write has read the current row of an open Delivery, or its
\* Attempt number is taken: completeDelivery needs no guard on the status.
THEOREM WritesAreFresh == Spec => []NoStaleWrite
  <1>1. IInv => NoStaleWrite
    BY DEF IInv
  <1>2. QED
    BY <1>1, Inductive, PTL

\* No Delivery is tried beyond MaxAttempts plus its operator retries, and none
\* is dead-lettered before.
THEOREM BudgetIsKept == Spec => []AttemptBudget
  <1>1. IInv => AttemptBudget
    BY DEF IInv
  <1>2. QED
    BY <1>1, Inductive, PTL

\* A succeeded or failed Delivery is never reopened, restated or given another
\* Attempt.
THEOREM FinishedIsFinal == Spec => FinishedStaysFinished
  <1>1. IInv /\ [Next]_vars =>
          [\A d \in Deliveries : status[d] \in FinalStatus =>
              \/ status'[d] = status[d] /\ attempts'[d] = attempts[d]
              \/ status'[d] = "absent"]_rowVars
    BY NextInv, FinishedStep DEF IInv
  <1>2. QED
    BY <1>1, Inductive, PTL DEF Spec, FinishedStaysFinished

\* The pipeline, with all its processes and faults, implements the lifecycle
\* that the readers of the rows are promised.
THEOREM PipelineImplementsLifecycle == Spec => LifecycleSpec
  <1>1. Init => Lifecycle!Init
    BY DEF Init, Lifecycle!Init
  <1>2. IInv /\ [Next]_vars => [Lifecycle!Next]_(Lifecycle!lifecycleVars)
    BY NextInv, StepRefines DEF rowVars, Lifecycle!lifecycleVars
  <1>3. QED
    BY <1>1, <1>2, Inductive, PTL DEF Spec, LifecycleSpec, Lifecycle!Spec

-----------------------------------------------------------------------------
(* Who holds a job's lock.                                                 *)

\* A lock is held on an active job only, by a processor that works on it.
Locks == \A d \in Deliveries : job[d].lock # NoLock =>
            job[d].state = "active" /\ Target(job[d].lock) = d

\* What one call leaves alone, and where it leaves its own processor.
LEMMA CallFrame ==
    ASSUME TypeOK, NEW p \in Processors, Call(p)
    PROVE  /\ ~At(p, "idle")
           /\ UNCHANGED <<worker, apiVars>>
           /\ \A q \in Processors : q # p => processor'[q] = processor[q]
           /\ \/ UNCHANGED job /\ processor'[p].delivery = Target(p)
              \/ /\ Settle(p) \/ SettleFails(p)
                 /\ processor'[p] = Idle
  <1>1. ~At(p, "idle")
    BY DEF Call, GetDelivery, MarkInProgress, MarkMisses, Recheck, Fetch, Complete,
       CompleteFails, Reset, AutoDisable, CallRejects, Settle, SettleFails, At, Results
  <1>2. UNCHANGED <<worker, apiVars>>
    BY DEF Call, GetDelivery, MarkInProgress, MarkMisses, Recheck, Fetch, Complete,
       CompleteFails, Reset, AutoDisable, CallRejects, Settle, SettleFails
  <1>3. \A q \in Processors : q # p => processor'[q] = processor[q]
    BY DEF Call, GetDelivery, MarkInProgress, MarkMisses, Recheck, Fetch, Complete,
       CompleteFails, Reset, AutoDisable, CallRejects, Settle, SettleFails, Replies, Goto, TypeOK
  <1>4. CASE Settle(p) \/ SettleFails(p)
    BY <1>1, <1>2, <1>3, <1>4 DEF Settle, SettleFails, TypeOK
  <1>5. CASE ~Settle(p) /\ ~SettleFails(p)
    <2>1. UNCHANGED job
      BY <1>5 DEF Call, GetDelivery, MarkInProgress, MarkMisses, Recheck, Fetch, Complete,
         CompleteFails, Reset, AutoDisable, CallRejects
    <2>2. processor'[p].delivery = Target(p)
      BY <1>5 DEF Call, GetDelivery, MarkInProgress, MarkMisses, Recheck, Fetch, Complete,
         CompleteFails, Reset, AutoDisable, CallRejects, Replies, Goto, TypeOK, Target
    <2>. QED BY <1>1, <1>2, <1>3, <2>1, <2>2
  <1>. QED BY <1>4, <1>5

\* What p's answer to BullMQ does to a job: nothing to one it does not hold, and
\* the one it holds is given back.
LEMMA SettledJob ==
    ASSUME TypeOK, NEW p \in Processors, Settle(p), NEW d \in Deliveries
    PROVE  /\ ~(d = Target(p) /\ HoldsLock(job[d], p)) => job'[d] = job[d]
           /\ d = Target(p) /\ HoldsLock(job[d], p) =>
                \/ At(p, "returned") /\ job'[d] = CompleteJob(job[d], p)
                \/ At(p, "retryable") /\ job'[d] = RetryJob(job[d], p)
                \/ At(p, "threw") /\ job'[d] = FailJob(job[d], p)
           /\ d = Target(p) /\ HoldsLock(job[d], p) => job'[d].lock = NoLock
  <1>1. Target(p) \in Deliveries
    BY TargetType DEF Settle, Results, At
  <1>2. d # Target(p) => job'[d] = job[d]
    BY <1>1 DEF Settle, TypeOK
  <1>3. d = Target(p) =>
          \/ At(p, "returned") /\ job'[d] = CompleteJob(job[d], p)
          \/ At(p, "retryable") /\ job'[d] = RetryJob(job[d], p)
          \/ At(p, "threw") /\ job'[d] = FailJob(job[d], p)
    BY <1>1 DEF Settle, TypeOK, Results, At
  <1>4. ~HoldsLock(job[d], p) => /\ CompleteJob(job[d], p) = job[d]
                                 /\ RetryJob(job[d], p) = job[d]
                                 /\ FailJob(job[d], p) = job[d]
    BY DEF CompleteJob, RetryJob, FailJob
  <1>5. job[d] \in Jobs
    BY DEF TypeOK, Jobs
  <1>6. HoldsLock(job[d], p) => /\ CompleteJob(job[d], p).lock = NoLock
                                /\ RetryJob(job[d], p).lock = NoLock
                                /\ FailJob(job[d], p).lock = NoLock
    BY <1>5 DEF CompleteJob, RetryJob, FailJob, Jobs
  <1>. QED BY <1>2, <1>3, <1>4, <1>6

\* Without the call that holds it, a job only loses its lock.
LEMMA UnlockedJob ==
    ASSUME TypeOK, NEW d \in Deliveries, job[d].lock # NoLock => job[d].state = "active"
    PROVE  /\ AddJob(job[d]) = job[d] \/ AddJob(job[d]).lock = NoLock
           /\ RemoveJob(job[d]) = job[d] \/ RemoveJob(job[d]).lock = NoLock
           /\ job[d].state = "delayed" => PromoteJob(job[d]).lock = NoLock
           /\ StallJob(job[d]).lock = NoLock
  <1>1. job[d] \in Jobs
    BY DEF TypeOK, Jobs
  <1>. QED BY <1>1 DEF AddJob, RemoveJob, PromoteJob, StallJob, NoJob, Jobs

LEMMA LocksInit == Init => Locks
  BY DEF Init, Locks, NoJob

\* A job that keeps its lock keeps its state; a new lock is that of a processor
\* that has just taken the job.
LEMMA LockKept ==
    ASSUME TypeOK, Locks, [Next]_vars, NEW d \in Deliveries, job'[d].lock # NoLock
    PROVE  \/ /\ job'[d].lock = job[d].lock
              /\ job'[d].state = job[d].state
              /\ Target(job[d].lock)' = Target(job[d].lock)
           \/ \E p \in Processors :
                /\ Take(p, d)
                /\ job'[d].lock = p /\ job'[d].state = "active" /\ Target(p)' = d
  <1> DEFINE Kept == /\ job'[d].lock = job[d].lock
                     /\ job'[d].state = job[d].state
                     /\ Target(job[d].lock)' = Target(job[d].lock)
  <1>1. job[d] \in Jobs /\ job[d].lock \in Processors \cup {NoLock} /\ NoLock \notin Processors
    BY PipelineAssumption DEF TypeOK, Jobs
  <1>2. job[d].lock # NoLock => job[d].state = "active" /\ Target(job[d].lock) = d
    BY DEF Locks
  <1>3. ASSUME UNCHANGED processor, job'[d] = job[d] \/ job'[d].lock = NoLock
        PROVE  Kept
    BY <1>3 DEF Target
  <1>4. CASE \/ FanOut \/ ApiDies \/ DeleteRows \/ UNCHANGED vars
             \/ \E w \in Workers : Shutdown(w) \/ Restart(w)
    <2>1. UNCHANGED processor /\ job'[d] \in {job[d], AddJob(job[d])}
      BY <1>4 DEF FanOut, EnqueueBulk, EnqueueBulkFails, RollBack, ApiDies, DeleteRows,
         Shutdown, Restart, vars
    <2>. QED BY <1>2, <1>3, <2>1, UnlockedJob
  <1>5. ASSUME NEW r \in Requests,
               (\E e \in Deliveries : RetryDeadLettered(r, e)) \/ RequestStep(r) \/ RequestFails(r)
        PROVE  Kept
    <2>1. UNCHANGED processor
      BY <1>5 DEF RetryDeadLettered, RequestStep, RequestFails, ReadDetail, CheckJob,
         RemoveFinishedJob, Enqueue
    <2>2. job'[d] \in {job[d], AddJob(job[d]), RemoveJob(job[d])}
      BY <1>5 DEF RetryDeadLettered, RequestStep, RequestFails, ReadDetail, CheckJob,
         RemoveFinishedJob, Enqueue, TypeOK
    <2>. QED BY <1>2, <1>3, <2>1, <2>2, UnlockedJob
  <1>6. ASSUME NEW e \in Deliveries, Promote(e) \/ Stall(e)
        PROVE  Kept
    <2>1. UNCHANGED processor
      BY <1>6 DEF Promote, Stall
    <2>2. CASE e # d
      BY <1>3, <1>6, <2>1, <2>2 DEF Promote, Stall, TypeOK
    <2>3. CASE e = d
      <3>1. \/ job'[d] = StallJob(job[d])
            \/ job[d].state = "delayed" /\ job'[d] = PromoteJob(job[d])
        BY <1>6, <2>3 DEF Promote, Stall, TypeOK
      <3>. QED BY <1>1, <1>2, <1>3, <2>1, <3>1, UnlockedJob
    <2>. QED BY <2>2, <2>3
  <1>7. ASSUME NEW w \in Workers, Crash(w)
        PROVE  Kept
    <2>1. job'[d] = DropLock(job[d], SlotsOf(w))
      BY <1>7 DEF Crash
    <2>2. job'[d] = job[d] /\ job[d].lock \notin SlotsOf(w)
      BY <1>1, <2>1 DEF DropLock, Jobs
    <2>3. job[d].lock \in Processors
      BY <1>1, <2>2
    <2>. QED BY <1>7, <2>2, <2>3 DEF Crash, Target
  <1>8. ASSUME NEW p \in Processors, NEW e \in Deliveries, Take(p, e), e # d
        PROVE  Kept
    <2>1. job'[d] = job[d]
      BY <1>8 DEF Take, TypeOK
    <2>2. Target(p) = NoDelivery
      BY <1>8 DEF Take, TypeOK, At
    <2>3. job[d].lock # p
      BY <1>1, <1>2, <2>2, PipelineAssumption
    <2>. QED BY <1>1, <1>8, <2>1, <2>3 DEF Take, Target, TypeOK
  <1>9. ASSUME NEW p \in Processors, Take(p, d)
        PROVE  job'[d].lock = p /\ job'[d].state = "active" /\ Target(p)' = d
    <2>1. job'[d] = TakeJob(job[d], p) /\ processor'[p].delivery = d
      BY <1>9 DEF Take, TypeOK, Idle
    <2>. QED BY <1>1, <2>1 DEF TakeJob, Jobs, Target
  <1>10. ASSUME NEW p \in Processors, Call(p)
         PROVE  Kept
    <2>1. CASE UNCHANGED job /\ processor'[p].delivery = Target(p)
      BY <1>1, <1>10, <2>1, CallFrame DEF Target
    <2>2. CASE Settle(p)
      <3>1. job'[d] = job[d] /\ ~(d = Target(p) /\ HoldsLock(job[d], p))
        BY <2>2, SettledJob
      <3>2. job[d].lock # p
        BY <1>1, <1>2, <3>1 DEF HoldsLock
      <3>. QED BY <1>1, <1>10, <3>1, <3>2, CallFrame DEF Target
    <2>3. CASE SettleFails(p)
      <3>1. job[d].lock = p => d = Target(p)
        BY <1>1, <1>2
      <3>2. job'[d] = IF d = Target(p) THEN DropLock(job[d], {p}) ELSE job[d]
        BY <2>3 DEF SettleFails, TypeOK
      <3>3. job'[d] = job[d] /\ job[d].lock # p
        BY <1>1, <3>1, <3>2 DEF DropLock, Jobs
      <3>. QED BY <1>1, <1>10, <3>3, CallFrame DEF Target
    <2>. QED BY <1>10, <2>1, <2>2, <2>3, CallFrame
  <1>. QED BY <1>4, <1>5, <1>6, <1>7, <1>8, <1>9, <1>10 DEF Next

LEMMA LocksStep == TypeOK /\ Locks /\ [Next]_vars => Locks'
  BY LockKept DEF Locks

-----------------------------------------------------------------------------
(* Exclusive processing.                                                   *)

\* Every busy processor holds the lock of its job.
AllHold == \A p \in Processors : Target(p) # NoDelivery => HoldsLock(job[Target(p)], p)

\* A processor that holds its job's lock, and goes on with it, loses the lock
\* to the stalled check only.
LEMMA HoldKept ==
    ASSUME TypeOK, Locks, [Next]_vars, NEW p \in Processors, NEW d \in Deliveries,
           Target(p) = d, HoldsLock(job[d], p), Target(p)' # NoDelivery
    PROVE  \/ HoldsLock(job[d], p)' /\ Target(p)' = d
           \/ Stall(d) /\ Fault("lock")
  <1> DEFINE Goal == HoldsLock(job[d], p)' /\ Target(p)' = d
  <1>1. job[d] \in Jobs /\ job[d].state = "active" /\ job[d].lock = p /\ p # NoLock /\ d # NoDelivery
    BY PipelineAssumption DEF TypeOK, Jobs, HoldsLock
  <1>2. UNCHANGED processor /\ job'[d] = job[d] => Goal
    BY <1>1 DEF HoldsLock, Target
  <1>3. AddJob(job[d]) = job[d] /\ RemoveJob(job[d]) = job[d]
    BY <1>1 DEF AddJob, RemoveJob
  <1>4. CASE \/ FanOut \/ ApiDies \/ DeleteRows \/ UNCHANGED vars
             \/ \E w \in Workers : Shutdown(w) \/ Restart(w)
    BY <1>2, <1>3, <1>4 DEF FanOut, EnqueueBulk, EnqueueBulkFails, RollBack, ApiDies, DeleteRows,
       Shutdown, Restart, vars
  <1>5. ASSUME NEW r \in Requests,
               (\E e \in Deliveries : RetryDeadLettered(r, e)) \/ RequestStep(r) \/ RequestFails(r)
        PROVE  Goal
    <2>1. UNCHANGED processor
      BY <1>5 DEF RetryDeadLettered, RequestStep, RequestFails, ReadDetail, CheckJob,
         RemoveFinishedJob, Enqueue
    <2>2. job'[d] \in {job[d], AddJob(job[d]), RemoveJob(job[d])}
      BY <1>5 DEF RetryDeadLettered, RequestStep, RequestFails, ReadDetail, CheckJob,
         RemoveFinishedJob, Enqueue, TypeOK
    <2>. QED BY <1>2, <1>3, <2>1, <2>2
  <1>6. ASSUME NEW e \in Deliveries, Promote(e) \/ (Stall(e) /\ e # d)
        PROVE  Goal
    <2>1. UNCHANGED processor /\ e # d
      BY <1>1, <1>6 DEF Promote, Stall
    <2>. QED BY <1>2, <1>6, <2>1 DEF Promote, Stall, TypeOK
  <1>7. CASE Stall(d)
    BY <1>1, <1>7 DEF Stall
  <1>8. ASSUME NEW w \in Workers, Crash(w)
        PROVE  Goal
    <2>1. processor'[p] = IF p \in SlotsOf(w) THEN Idle ELSE processor[p]
      BY <1>8 DEF Crash
    <2>2. p \notin SlotsOf(w) /\ processor'[p] = processor[p]
      BY <2>1 DEF Target, Idle
    <2>3. job'[d] = job[d]
      BY <1>1, <1>8, <2>2 DEF Crash, DropLock
    <2>. QED BY <2>2, <2>3 DEF HoldsLock, Target
  <1>9. ASSUME NEW q \in Processors, NEW e \in Deliveries, Take(q, e)
        PROVE  Goal
    <2>1. e # d /\ q # p
      BY <1>1, <1>9 DEF Take, TypeOK, At, Target
    <2>2. job'[d] = job[d] /\ processor'[p] = processor[p]
      BY <1>9, <2>1 DEF Take, TypeOK
    <2>. QED BY <2>2 DEF HoldsLock, Target
  <1>10. ASSUME NEW q \in Processors, Call(q)
         PROVE  Goal
    <2>1. CASE UNCHANGED job /\ processor'[q].delivery = Target(q)
      BY <1>10, <2>1, CallFrame DEF Target, HoldsLock
    <2>2. CASE processor'[q] = Idle /\ (Settle(q) \/ SettleFails(q))
      <3>1. q # p /\ processor'[p] = processor[p]
        BY <1>10, <2>2, CallFrame DEF Target, Idle
      <3>2. job'[d] = job[d]
        <4>1. CASE Settle(q)
          BY <1>1, <3>1, <4>1, SettledJob DEF HoldsLock
        <4>2. CASE SettleFails(q)
          BY <1>1, <3>1, <4>2 DEF SettleFails, DropLock, TypeOK
        <4>. QED BY <2>2, <4>1, <4>2
      <3>. QED BY <3>1, <3>2 DEF HoldsLock, Target
    <2>. QED BY <1>10, <2>1, <2>2, CallFrame
  <1>. QED BY <1>4, <1>5, <1>6, <1>7, <1>8, <1>9, <1>10 DEF Next

\* A processor gets its Delivery by taking the job.
LEMMA TargetKept ==
    ASSUME TypeOK, [Next]_vars, NEW p \in Processors, Target(p)' # NoDelivery
    PROVE  \/ Target(p)' = Target(p)
           \/ \E d \in Deliveries : Take(p, d) /\ Target(p)' = d /\ HoldsLock(job[d], p)'
  <1>1. UNCHANGED processor => Target(p)' = Target(p)
    BY DEF Target
  <1>2. ASSUME NEW q \in Processors, NEW d \in Deliveries, Take(q, d)
        PROVE  \/ Target(p)' = Target(p)
               \/ Take(p, d) /\ Target(p)' = d /\ HoldsLock(job[d], p)'
    <2>1. CASE q # p
      BY <1>2, <2>1 DEF Take, TypeOK, Target
    <2>2. CASE q = p
      <3>1. job'[d] = TakeJob(job[d], p) /\ processor'[p].delivery = d
        BY <1>2, <2>2 DEF Take, TypeOK, Idle
      <3>2. job[d] \in Jobs
        BY DEF TypeOK, Jobs
      <3>. QED BY <1>2, <2>2, <3>1, <3>2 DEF TakeJob, Jobs, HoldsLock, Target
    <2>. QED BY <2>1, <2>2
  <1>3. ASSUME NEW w \in Workers, Crash(w)
        PROVE  Target(p)' = Target(p)
    BY <1>3 DEF Crash, Target, Idle
  <1>4. ASSUME NEW q \in Processors, Call(q)
        PROVE  Target(p)' = Target(p)
    BY <1>4, CallFrame DEF Target, Idle
  <1>5. ASSUME \/ FanOut \/ ApiDies \/ DeleteRows \/ UNCHANGED vars
               \/ \E r \in Requests :
                    \/ \E d \in Deliveries : RetryDeadLettered(r, d)
                    \/ RequestStep(r) \/ RequestFails(r)
               \/ \E d \in Deliveries : Promote(d) \/ Stall(d)
               \/ \E w \in Workers : Shutdown(w) \/ Restart(w)
        PROVE  UNCHANGED processor
    BY <1>5 DEF FanOut, EnqueueBulk, EnqueueBulkFails, RollBack, ApiDies, DeleteRows, vars,
       RetryDeadLettered, RequestStep, RequestFails, ReadDetail, CheckJob, RemoveFinishedJob,
       Enqueue, Promote, Stall, Shutdown, Restart
  <1>. QED BY <1>1, <1>2, <1>3, <1>4, <1>5 DEF Next

LEMMA AllHoldStep ==
    ASSUME "lock" \notin FaultKinds, TypeOK, Locks, AllHold, [Next]_vars
    PROVE  AllHold'
  <1>. SUFFICES ASSUME NEW p \in Processors, Target(p)' # NoDelivery
                PROVE  HoldsLock(job[Target(p)], p)'
    BY DEF AllHold
  <1>1. ~Fault("lock")
    BY DEF Fault
  <1>2. CASE Target(p)' = Target(p)
    <2>1. Target(p) \in Deliveries
      BY <1>2 DEF TypeOK, Target
    <2>2. HoldsLock(job[Target(p)], p)
      BY <1>2 DEF AllHold
    <2>3. HoldsLock(job'[Target(p)], p)
      BY <1>1, <2>1, <2>2, HoldKept DEF HoldsLock
    <2>. QED BY <1>2, <2>3 DEF HoldsLock
  <1>3. CASE \E d \in Deliveries : Take(p, d) /\ Target(p)' = d /\ HoldsLock(job[d], p)'
    BY <1>3 DEF HoldsLock
  <1>. QED BY <1>2, <1>3, TargetKept

\* Unless a live worker loses the lock of the job it runs, a Delivery is never
\* in the hands of two processors, whatever crashes, restarts, is deleted, fails
\* or is retried.
THEOREM ProcessingIsExclusive ==
    ASSUME "lock" \notin FaultKinds PROVE Spec => []ExclusiveProcessing
  <1> DEFINE Inv == TypeOK /\ Locks /\ AllHold
  <1>1. Init => Inv
    BY InitType, LocksInit DEF Init, AllHold, Target, Idle
  <1>2. Inv /\ [Next]_vars => Inv'
    BY NextType, LocksStep, AllHoldStep
  <1>3. Inv => ExclusiveProcessing
    BY DEF AllHold, HoldsLock, ExclusiveProcessing
  <1>. QED BY <1>1, <1>2, <1>3, PTL DEF Spec

-----------------------------------------------------------------------------
(* What the POSTs cost.                                                    *)

Trying == {"get", "mark", "recheck", "fetch"}

\* Only a fault can keep p, once it has tried d's Endpoint, from recording its
\* Attempt: it holds the lock, has its connections, and its number is the next.
Secure(p, d) ==
    /\ job[d].lock = p
    /\ PoolOpen(p)
    /\ At(p, "get") \/ processor[p].seen = attemptCount[d]

\* The calls whose POST, if they come to it, may stay unrecorded.
Doubtful(d) == {p \in Processors : Target(p) = d /\ processor[p].at \in Trying /\ ~Secure(p, d)}

\* A POST was made and its Attempt is about to be recorded.
Covered(d) == \E p \in Processors : Target(p) = d /\ At(p, "complete") /\ Secure(p, d)

\* POSTs, made or doubtful, beyond the recorded Attempts are paid for by faults.
PostsAccounted ==
    \A d \in Deliveries : Present(d) =>
        posts[d] + Cardinality(Doubtful(d))
            <= attemptCount[d] + faults + (IF Covered(d) THEN 1 ELSE 0)

LEMMA ProcessorCount ==
    ASSUME NEW S \in SUBSET Processors
    PROVE  /\ Cardinality(S) \in Nat
           /\ \A T \in SUBSET S : Cardinality(T) <= Cardinality(S)
           /\ \A T \in SUBSET Processors : \A x :
                /\ T \subseteq S \cup {x} => Cardinality(T) <= Cardinality(S) + 1
                /\ x \in S /\ T \subseteq S \ {x} => Cardinality(T) + 1 <= Cardinality(S)
           /\ S # {} => Cardinality(S) >= 1
  <1>1. IsFiniteSet(S)
    BY FS_Subset, PipelineAssumption
  <1>2. Cardinality(S) \in Nat
    BY <1>1, FS_CardinalityType
  <1>3. \A T \in SUBSET S : Cardinality(T) <= Cardinality(S)
    BY <1>1, FS_Subset
  <1>4. ASSUME NEW T \in SUBSET Processors, NEW x
        PROVE  /\ T \subseteq S \cup {x} => Cardinality(T) <= Cardinality(S) + 1
               /\ x \in S /\ T \subseteq S \ {x} => Cardinality(T) + 1 <= Cardinality(S)
    <2>1. /\ IsFiniteSet(S \cup {x}) /\ IsFiniteSet(S \ {x})
          /\ Cardinality(S \cup {x}) <= Cardinality(S) + 1
          /\ x \in S => Cardinality(S \ {x}) = Cardinality(S) - 1
      BY <1>1, <1>2, FS_AddElement, FS_RemoveElement
    <2>2. T \subseteq S \cup {x} => Cardinality(T) <= Cardinality(S \cup {x})
      BY <2>1, FS_Subset
    <2>3. T \subseteq S \ {x} => Cardinality(T) <= Cardinality(S \ {x})
      BY <2>1, FS_Subset
    <2>4. Cardinality(T) \in Nat /\ Cardinality(S \cup {x}) \in Nat /\ Cardinality(S \ {x}) \in Nat
      BY <2>1, FS_Subset, FS_CardinalityType, PipelineAssumption
    <2>. QED BY <1>2, <2>1, <2>2, <2>3, <2>4
  <1>5. S # {} => Cardinality(S) >= 1
    BY <1>1, <1>2, FS_EmptySet
  <1>. QED BY <1>2, <1>3, <1>4, <1>5

\* The four ways in which a step settles the account of a Delivery.
Billed(d) ==
    \/ /\ posts'[d] = posts[d]
       /\ Doubtful(d)' \subseteq Doubtful(d) /\ (Covered(d) => Covered(d)')
    \/ /\ posts'[d] = posts[d]
       /\ attemptCount'[d] + faults' > attemptCount[d] + faults
       /\ \/ Doubtful(d)' \subseteq Doubtful(d)
          \/ \E h : Doubtful(d)' \subseteq Doubtful(d) \cup {h} /\ ~Covered(d)
    \/ /\ posts'[d] = posts[d] + 1
       /\ \E p \in Doubtful(d) : Doubtful(d)' \subseteq Doubtful(d) \ {p}
       /\ Covered(d) => Covered(d)'
    \/ /\ posts'[d] = posts[d] + 1
       /\ Doubtful(d)' \subseteq Doubtful(d)
       /\ ~Covered(d) /\ Covered(d)'

LEMMA Balanced ==
    ASSUME TypeOK, TypeOK', PostsAccounted, NEW d \in Deliveries, Present(d),
           attemptCount'[d] >= attemptCount[d], faults' >= faults, Billed(d)
    PROVE  posts'[d] + Cardinality(Doubtful(d)')
             <= attemptCount'[d] + faults' + (IF Covered(d)' THEN 1 ELSE 0)
  <1> DEFINE D == Doubtful(d)
             E == Doubtful(d)'
             c == IF Covered(d) THEN 1 ELSE 0
             k == IF Covered(d)' THEN 1 ELSE 0
  <1>1. D \in SUBSET Processors /\ E \in SUBSET Processors
    BY DEF Doubtful
  <1>2. posts[d] + Cardinality(D) <= attemptCount[d] + faults + c
    BY DEF PostsAccounted
  <1>3. /\ posts[d] \in Nat /\ attemptCount[d] \in Nat /\ faults \in Nat
        /\ posts'[d] \in Nat /\ attemptCount'[d] \in Nat /\ faults' \in Nat
    BY DEF TypeOK
  <1>4. c \in 0..1 /\ k \in 0..1 /\ (Covered(d) <=> c = 1) /\ (Covered(d)' <=> k = 1)
    OBVIOUS
  <1>5. /\ Cardinality(D) \in Nat /\ Cardinality(E) \in Nat
        /\ E \subseteq D => Cardinality(E) <= Cardinality(D)
        /\ \A h : E \subseteq D \cup {h} => Cardinality(E) <= Cardinality(D) + 1
        /\ \A p \in D : E \subseteq D \ {p} => Cardinality(E) + 1 <= Cardinality(D)
    BY <1>1, ProcessorCount
  <1>. HIDE DEF D, E, c, k
  <1>6. \/ posts'[d] = posts[d] /\ Cardinality(E) <= Cardinality(D) /\ c <= k
        \/ /\ posts'[d] = posts[d]
           /\ attemptCount'[d] + faults' > attemptCount[d] + faults
           /\ \/ Cardinality(E) <= Cardinality(D)
              \/ Cardinality(E) <= Cardinality(D) + 1 /\ c = 0
        \/ posts'[d] = posts[d] + 1 /\ Cardinality(E) + 1 <= Cardinality(D) /\ c <= k
        \/ posts'[d] = posts[d] + 1 /\ Cardinality(E) <= Cardinality(D) /\ c = 0 /\ k = 1
    BY <1>4, <1>5 DEF D, E, Billed
  <1>7. posts'[d] + Cardinality(E) <= attemptCount'[d] + faults' + k
    BY <1>2, <1>3, <1>4, <1>5, <1>6
  <1>. QED BY <1>7 DEF E, k

\* Faults are only ever added, POSTs only by a call that makes one.
LEMMA CountersStep ==
    ASSUME TypeOK, [Next]_vars
    PROVE  /\ faults' \in Nat /\ faults' >= faults
           /\ UNCHANGED posts \/ \E p \in Processors : Fetch(p)
  <1>. DEFINE Charged == faults' = faults \/ faults' = faults + 1
              Posted == UNCHANGED posts \/ \E p \in Processors : Fetch(p)
  <1>1. ASSUME FanOut \/ ApiDies PROVE Charged /\ UNCHANGED posts
    BY <1>1 DEF FanOut, EnqueueBulk, EnqueueBulkFails, RollBack, ApiDies, Fault
  <1>2. ASSUME NEW r \in Requests, NEW d \in Deliveries, RetryDeadLettered(r, d)
        PROVE  Charged /\ UNCHANGED posts
    BY <1>2 DEF RetryDeadLettered
  <1>3. ASSUME NEW r \in Requests, RequestStep(r) \/ RequestFails(r)
        PROVE  Charged /\ UNCHANGED posts
    BY <1>3 DEF RequestStep, ReadDetail, CheckJob, RemoveFinishedJob, Enqueue, RequestFails,
         Fault
  <1>4. ASSUME NEW p \in Processors, NEW d \in Deliveries, Take(p, d)
        PROVE  Charged /\ UNCHANGED posts
    BY <1>4 DEF Take
  <1>5. ASSUME NEW p \in Processors, Call(p) PROVE Charged /\ Posted
    <2>1. CASE GetDelivery(p) \/ MarkMisses(p) \/ Recheck(p)
      BY <2>1 DEF GetDelivery, MarkMisses, Recheck
    <2>2. CASE MarkInProgress(p) \/ Reset(p)
      BY <2>2 DEF MarkInProgress, Reset, Replies, Fault
    <2>3. CASE Complete(p)
      BY <2>3 DEF Complete, Replies, Fault
    <2>4. CASE Fetch(p)
      BY <2>4 DEF Fetch
    <2>5. CASE CompleteFails(p) \/ CallRejects(p) \/ AutoDisable(p)
      BY <2>5 DEF CompleteFails, CallRejects, AutoDisable, Rejects, Fault
    <2>6. CASE Settle(p) \/ SettleFails(p)
      BY <2>6 DEF Settle, SettleFails, Fault
    <2>. QED BY <1>5, <2>1, <2>2, <2>3, <2>4, <2>5, <2>6 DEF Call
  <1>6. ASSUME NEW d \in Deliveries, Promote(d) \/ Stall(d)
        PROVE  Charged /\ UNCHANGED posts
    BY <1>6 DEF Promote, Stall, Fault
  <1>7. ASSUME NEW w \in Workers, Crash(w) \/ Shutdown(w) \/ Restart(w)
        PROVE  Charged /\ UNCHANGED posts
    BY <1>7 DEF Crash, Shutdown, Restart, Fault
  <1>8. ASSUME UNCHANGED vars \/ DeleteRows PROVE Charged /\ UNCHANGED posts
    BY <1>8 DEF vars, DeleteRows, Fault
  <1>9. Charged /\ Posted
    BY <1>1, <1>2, <1>3, <1>4, <1>5, <1>6, <1>7, <1>8 DEF Next
  <1>. QED BY <1>9 DEF TypeOK

\* A processor keeps its connections until its process is told to stop.
LEMMA PoolKept ==
    ASSUME TypeOK, [Next]_vars, NEW p \in Processors, PoolOpen(p)
    PROVE  PoolOpen(p)' \/ \E w \in Workers : Shutdown(w)
  <1>1. UNCHANGED worker \/ \E w \in Workers : Crash(w) \/ Shutdown(w) \/ Restart(w)
    BY DEF Next, FanOut, EnqueueBulk, EnqueueBulkFails, RollBack, ApiDies, RetryDeadLettered,
       RequestStep, RequestFails, ReadDetail, CheckJob, RemoveFinishedJob, Enqueue, Take, Call,
       GetDelivery, MarkInProgress, MarkMisses, Recheck, Fetch, Complete, CompleteFails, Reset,
       AutoDisable, CallRejects, Settle, SettleFails, Promote, Stall, DeleteRows, vars
  <1>2. ASSUME NEW w \in Workers, worker' = [worker EXCEPT ![w] = "running"]
        PROVE  PoolOpen(p)'
    BY <1>2, PipelineAssumption DEF PoolOpen, TypeOK
  <1>. QED BY <1>1, <1>2, SMTT(30) DEF Crash, Restart, PoolOpen

\* Who holds a lock and whose reading counts stays so.
LEMMA SecureKept ==
    ASSUME TypeOK, Locks, [Next]_vars, NEW d \in Deliveries, NEW q \in Processors,
           Secure(q, d), processor'[q] = processor[q], attemptCount'[d] = attemptCount[d],
           ~(Stall(d) /\ Fault("lock")), \A w \in Workers : ~Shutdown(w)
    PROVE  Secure(q, d)'
  <1>1. Target(q) = d /\ HoldsLock(job[d], q) /\ d # NoDelivery
    BY PipelineAssumption DEF Secure, Locks, HoldsLock
  <1>2. Target(q)' = d
    BY <1>1 DEF Target
  <1>3. HoldsLock(job[d], q)'
    BY <1>1, <1>2, HoldKept
  <1>4. PoolOpen(q)'
    BY PoolKept DEF Secure
  <1>. QED BY <1>3, <1>4 DEF Secure, HoldsLock, At

-----------------------------------------------------------------------------
(* What a call does to the account of a Delivery.                          *)

LEMMA CallAlone ==
    ASSUME TypeOK, NEW p \in Processors, Call(p)
    PROVE  (\A d \in Deliveries : ~Stall(d)) /\ (\A w \in Workers : ~Shutdown(w))
  <1>1. ~At(p, "idle") /\ UNCHANGED worker /\ (UNCHANGED job \/ processor'[p] = Idle)
    BY CallFrame
  <1>2. ASSUME NEW d \in Deliveries, Stall(d) PROVE FALSE
    <2>1. UNCHANGED processor /\ job'[d].stalls = job[d].stalls + 1 /\ job[d].stalls \in Nat
      BY <1>2 DEF Stall, StallJob, TypeOK
    <2>. QED BY <1>1, <2>1 DEF At, Idle
  <1>3. ASSUME NEW w \in Workers, Shutdown(w) PROVE FALSE
    BY <1>1, <1>3 DEF Shutdown, TypeOK
  <1>. QED BY <1>2, <1>3

\* The processors beside the one that steps.
LEMMA Bystanders ==
    ASSUME TypeOK, Locks, NEW p \in Processors, Call(p), [Next]_vars, NEW d \in Deliveries,
           attemptCount'[d] = attemptCount[d]
    PROVE  /\ Doubtful(d)' \subseteq Doubtful(d) \cup {p}
           /\ \A q \in Processors : q # p /\ Target(q) = d /\ At(q, "complete") /\ Secure(q, d)
                => Covered(d)'
  <1>1. ASSUME NEW q \in Processors, q # p
        PROVE  /\ processor'[q] = processor[q]
               /\ Secure(q, d) => Secure(q, d)'
    <2>1. processor'[q] = processor[q]
      BY <1>1, CallFrame
    <2>. QED BY <2>1, CallAlone, SecureKept
  <1>2. ASSUME NEW q \in Doubtful(d)', q # p PROVE q \in Doubtful(d)
    BY <1>1, <1>2 DEF Doubtful, Target
  <1>3. ASSUME NEW q \in Processors, q # p, Target(q) = d, At(q, "complete"), Secure(q, d)
        PROVE  Covered(d)'
    BY <1>1, <1>3 DEF Covered, Target, At
  <1>. QED BY <1>2, <1>3

LEMMA OtherRows ==
    ASSUME TypeOK, NEW p \in Processors, Call(p), NEW d \in Deliveries,
           Target(p) # d \/ (~Fetch(p) /\ ~Complete(p))
    PROVE  /\ Complete(p) => Target(p) # d
           /\ attemptCount'[d] = attemptCount[d]
           /\ posts'[d] = posts[d]
  BY DEF Call, GetDelivery, MarkInProgress, MarkMisses, Recheck, Fetch, Complete, CompleteFails,
     Reset, AutoDisable, CallRejects, Settle, SettleFails, TypeOK, rowVars

\* A call of another Delivery.
LEMMA ElsewhereBilled ==
    ASSUME TypeOK, Locks, NEW p \in Processors, Call(p), [Next]_vars, NEW d \in Deliveries,
           Target(p) # d
    PROVE  Billed(d)
  <1>1. attemptCount'[d] = attemptCount[d] /\ posts'[d] = posts[d]
    BY OtherRows
  <1>2. Target(p)' # d
    BY CallFrame, PipelineAssumption DEF Target, Idle
  <1>3. p \notin Doubtful(d)'
    BY <1>2 DEF Doubtful
  <1>4. Doubtful(d)' \subseteq Doubtful(d)
    BY <1>1, <1>3, Bystanders
  <1>5. Covered(d) => Covered(d)'
    BY <1>1, Bystanders DEF Covered
  <1>. QED BY <1>1, <1>4, <1>5 DEF Billed

\* A call that neither POSTs nor records, and is not about to record either.
LEMMA PassageBilled ==
    ASSUME TypeOK, Locks, NEW p \in Processors, Call(p), [Next]_vars, NEW d \in Deliveries,
           Target(p) = d, ~At(p, "complete"), ~Fetch(p)
    PROVE  Billed(d)
  <1>1. ~Complete(p) /\ ~CompleteFails(p)
    BY DEF Complete, CompleteFails
  <1>2. attemptCount'[d] = attemptCount[d] /\ posts'[d] = posts[d]
    BY <1>1, OtherRows
  <1>3. Covered(d) => Covered(d)'
    BY <1>2, Bystanders DEF Covered
  <1>4. ASSUME p \in Doubtful(d)' PROVE p \in Doubtful(d)
    <2>1. processor'[p].at \in Trying /\ Target(p)' = d /\ ~Secure(p, d)'
      BY <1>4 DEF Doubtful
    <2>2. CASE GetDelivery(p)
      <3>1. /\ At(p, "get") /\ UNCHANGED <<job, worker>>
            /\ processor'[p].at = "mark" => processor'[p].seen = attemptCount[d]
            /\ processor'[p].at \in {"mark", "returned"}
        BY <2>2 DEF GetDelivery, Goto, TypeOK, Target
      <3>2. Secure(p, d) => Secure(p, d)'
        BY <1>2, <2>1, <3>1 DEF Secure, PoolOpen, Trying
      <3>. QED BY <2>1, <3>1, <3>2 DEF Doubtful, Trying, At
    <2>3. CASE MarkInProgress(p) \/ MarkMisses(p) \/ Recheck(p)
      <3>1. /\ processor[p].at \in {"mark", "recheck"} /\ UNCHANGED <<job, worker>>
            /\ processor'[p].seen = processor[p].seen
        BY <2>3 DEF MarkInProgress, MarkMisses, Recheck, Replies, Goto, TypeOK, At
      <3>2. Secure(p, d) => Secure(p, d)'
        BY <1>2, <3>1 DEF Secure, PoolOpen, At
      <3>. QED BY <2>1, <3>1, <3>2 DEF Doubtful, Trying
    <2>4. CASE Reset(p) \/ AutoDisable(p) \/ CallRejects(p) \/ Settle(p) \/ SettleFails(p)
      <3>1. processor'[p].at \in Results \cup {"idle"}
        BY <2>4 DEF Reset, AutoDisable, CallRejects, Settle, SettleFails, Replies, Goto,
           TypeOK, Results, Idle
      <3>. QED BY <2>1, <3>1 DEF Trying, Results
    <2>. QED BY <1>1, <2>2, <2>3, <2>4 DEF Call
  <1>5. Doubtful(d)' \subseteq Doubtful(d)
    BY <1>2, <1>4, Bystanders
  <1>. QED BY <1>2, <1>3, <1>5 DEF Billed

LEMMA FetchBilled ==
    ASSUME TypeOK, Locks, NEW p \in Processors, Fetch(p), [Next]_vars, NEW d \in Deliveries,
           Target(p) = d
    PROVE  Billed(d)
  <1>1. /\ Call(p) /\ At(p, "fetch") /\ UNCHANGED <<rowVars, job, worker>>
        /\ posts'[d] = posts[d] + 1
    BY DEF Call, Fetch, TypeOK
  <1>2. /\ processor'[p].at = "complete"
        /\ processor'[p].seen = processor[p].seen
        /\ processor'[p].delivery = d
    BY DEF Fetch, TypeOK, Target
  <1>3. attemptCount'[d] = attemptCount[d]
    BY <1>1 DEF rowVars
  <1>4. p \notin Doubtful(d)'
    BY <1>2 DEF Doubtful, Trying
  <1>5. Doubtful(d)' \subseteq Doubtful(d) \ {p}
    BY <1>1, <1>3, <1>4, Bystanders
  <1>6. CASE p \in Doubtful(d)
    <2>1. Covered(d) => Covered(d)'
      BY <1>1, <1>3, Bystanders DEF Covered, At
    <2>. QED BY <1>1, <1>5, <1>6, <2>1 DEF Billed
  <1>7. CASE p \notin Doubtful(d)
    <2>1. Secure(p, d)
      BY <1>1, <1>7 DEF Doubtful, Trying, At
    <2>2. ~Covered(d)
      BY <1>1, <2>1 DEF Covered, Secure, At
    <2>3. Secure(p, d)'
      BY <1>1, <1>2, <1>3, <2>1 DEF Secure, At, PoolOpen
    <2>4. Covered(d)'
      BY <1>2, <2>3 DEF Covered, At, Target
    <2>. QED BY <1>1, <1>5, <2>2, <2>4 DEF Billed
  <1>. QED BY <1>6, <1>7

\* The Attempt is recorded: whoever holds the lock meanwhile is now behind.
LEMMA CompleteBilled ==
    ASSUME TypeOK, Locks, AttemptsNumbered, NoStaleWrite,
           NEW p \in Processors, Complete(p), [Next]_vars, NEW d \in Deliveries, Target(p) = d
    PROVE  Billed(d)
  <1> DEFINE h == job[d].lock
  <1>1. Call(p) /\ At(p, "complete") /\ UNCHANGED <<job, worker, posts>>
    BY DEF Call, Complete
  <1>2. attemptCount'[d] = attemptCount[d] + 1
    BY AcceptedWrite DEF Complete, TypeOK
  <1>3. attemptCount'[d] + faults' > attemptCount[d] + faults
    <2>1. faults \in Nat /\ faults' \in Nat /\ faults' >= faults /\ attemptCount[d] \in Nat
      BY CountersStep DEF TypeOK
    <2>. QED BY <1>2, <2>1
  <1>4. processor'[p].at \notin Trying
    <2>1. StatusAfter(processor[p].outcome, AttemptNumber(p))
            \in {"succeeded", "failed", "dead_lettered", "pending"}
      BY AcceptedWrite, StatusAfterType DEF TypeOK
    <2>2. ResultOf(StatusAfter(processor[p].outcome, AttemptNumber(p)))
            \in {"returned", "autoDisable", "retryable"}
      BY <2>1, ResultOfType
    <2>3. processor'[p].at \in {"returned", "autoDisable", "retryable", "reset"}
      BY <2>2 DEF Complete, Replies, Goto, TypeOK
    <2>. QED BY <2>3 DEF Trying
  <1>5. \A q \in Processors : q # p => processor'[q] = processor[q]
    BY <1>1, CallFrame
  <1>6. ASSUME NEW q \in Doubtful(d)', q # h PROVE q \in Doubtful(d)
    <2>1. q # p /\ processor'[q] = processor[q]
      BY <1>4, <1>5, <1>6 DEF Doubtful
    <2>. QED BY <1>6, <2>1 DEF Doubtful, Secure, Target
  <1>7. ASSUME h \in Doubtful(d)' PROVE ~Covered(d)
    <2>1. h # p /\ processor'[h] = processor[h] /\ processor'[h].at \in Trying
      BY <1>4, <1>5, <1>7 DEF Doubtful
    <2>. QED BY <2>1 DEF Covered, Secure, Trying, At
  <1>8. CASE h \in Doubtful(d)'
    BY <1>1, <1>3, <1>6, <1>7, <1>8 DEF Billed
  <1>9. CASE h \notin Doubtful(d)'
    BY <1>1, <1>3, <1>6, <1>9 DEF Billed
  <1>. QED BY <1>8, <1>9

\* The Attempt is refused: for a number that is taken, for want of connections,
\* or by a fault.
LEMMA CompleteFailsBilled ==
    ASSUME TypeOK, Locks, AttemptsNumbered, NoStaleWrite,
           NEW p \in Processors, CompleteFails(p), [Next]_vars,
           NEW d \in Deliveries, Target(p) = d, Present(d)
    PROVE  Billed(d)
  <1>1. Call(p) /\ At(p, "complete") /\ UNCHANGED <<rowVars, job, worker, posts>>
    BY DEF Call, CompleteFails
  <1>2. attemptCount'[d] = attemptCount[d] /\ posts'[d] = posts[d]
    BY <1>1 DEF rowVars
  <1>3. p \notin Doubtful(d)'
    BY DEF CompleteFails, Goto, Doubtful, Trying, TypeOK
  <1>4. Doubtful(d)' \subseteq Doubtful(d)
    BY <1>1, <1>2, <1>3, Bystanders
  <1>5. CASE Secure(p, d)
    <2>1. PoolOpen(p) /\ processor[p].seen = attemptCount[d]
      BY <1>1, <1>5 DEF Secure, At
    <2>2. ~Refused(p)
      <3>1. ~\E a \in attempts[d] : a.n = processor[p].seen + 1
        BY <2>1, NextIsFree
      <3>. QED BY <3>1 DEF Refused, AttemptNumber, Present
    <2>3. Fault("database")
      BY <2>1, <2>2 DEF CompleteFails, Rejects
    <2>4. attemptCount'[d] + faults' > attemptCount[d] + faults
      BY <1>2, <2>3 DEF Fault, TypeOK
    <2>. QED BY <1>2, <1>4, <2>4 DEF Billed
  <1>6. CASE ~Secure(p, d)
    <2>1. Covered(d) => Covered(d)'
      BY <1>1, <1>2, <1>6, Bystanders DEF Covered
    <2>. QED BY <1>2, <1>4, <2>1 DEF Billed
  <1>. QED BY <1>5, <1>6

LEMMA CallBilled ==
    ASSUME TypeOK, Locks, AttemptsNumbered, NoStaleWrite,
           NEW p \in Processors, Call(p), [Next]_vars, NEW d \in Deliveries, Present(d)
    PROVE  Billed(d)
  <1>1. CASE Target(p) # d
    BY <1>1, ElsewhereBilled
  <1>2. CASE Target(p) = d /\ At(p, "complete")
    <2>1. Complete(p) \/ CompleteFails(p)
      BY <1>2 DEF Call, GetDelivery, MarkInProgress, MarkMisses, Recheck, Fetch,
         Reset, AutoDisable, CallRejects, Settle, SettleFails, At, Results
    <2>. QED BY <1>2, <2>1, CompleteBilled, CompleteFailsBilled
  <1>3. CASE Target(p) = d /\ ~At(p, "complete")
    BY <1>3, FetchBilled, PassageBilled
  <1>. QED BY <1>1, <1>2, <1>3

-----------------------------------------------------------------------------
(* What every other step does to it.                                       *)

\* A step that moves no processor, and no one's lock or connections.
LEMMA StillBilled ==
    ASSUME TypeOK, Locks, [Next]_vars, NEW d \in Deliveries, UNCHANGED processor,
           attemptCount'[d] = attemptCount[d], posts'[d] = posts[d],
           ~(Stall(d) /\ Fault("lock")), \A w \in Workers : ~Shutdown(w)
    PROVE  Billed(d)
  <1>1. \A q \in Processors : Secure(q, d) => Secure(q, d)'
    BY SecureKept
  <1>2. Doubtful(d)' \subseteq Doubtful(d)
    BY <1>1 DEF Doubtful, Target
  <1>3. Covered(d) => Covered(d)'
    BY <1>1 DEF Covered, Target, At
  <1>. QED BY <1>2, <1>3 DEF Billed

\* A fault that takes the lock or the connections of whoever holds d's lock:
\* if it puts the holder's call in doubt, nobody else's Attempt was underway.
LEMMA HolderLostBilled ==
    ASSUME TypeOK, NEW d \in Deliveries, UNCHANGED <<processor, rowVars, posts>>,
           faults' = faults + 1
    PROVE  Billed(d)
  <1> DEFINE h == job[d].lock
  <1>1. attemptCount'[d] + faults' > attemptCount[d] + faults
    BY DEF TypeOK, rowVars
  <1>2. Doubtful(d)' \subseteq Doubtful(d) \cup {h}
    BY DEF Doubtful, Secure, Target
  <1>3. h \in Doubtful(d)' => ~Covered(d)
    BY DEF Doubtful, Covered, Secure, Trying, At
  <1>4. CASE h \in Doubtful(d)'
    BY <1>1, <1>2, <1>3, <1>4 DEF Billed
  <1>5. CASE h \notin Doubtful(d)'
    BY <1>1, <1>2, <1>5 DEF Billed
  <1>. QED BY <1>4, <1>5

LEMMA CrashBilled ==
    ASSUME TypeOK, NEW w \in Workers, Crash(w), NEW d \in Deliveries
    PROVE  Billed(d)
  <1>1. /\ attemptCount'[d] + faults' > attemptCount[d] + faults
        /\ posts'[d] = posts[d] /\ attemptCount'[d] = attemptCount[d]
    BY DEF Crash, Fault, TypeOK, rowVars
  <1>2. ASSUME NEW q \in Doubtful(d)' PROVE q \in Doubtful(d)
    <2>1. processor'[q].at \in Trying
      BY <1>2 DEF Doubtful
    <2>2. q \notin SlotsOf(w) /\ processor'[q] = processor[q]
      BY <1>2, <2>1 DEF Crash, Idle, Trying, Doubtful
    <2>3. Secure(q, d) => Secure(q, d)'
      BY <1>1, <1>2, <2>2, PipelineAssumption
         DEF Crash, Secure, PoolOpen, At, DropLock, SlotsOf, TypeOK, Doubtful
    <2>. QED BY <1>2, <2>2, <2>3 DEF Doubtful, Target
  <1>. QED BY <1>1, <1>2 DEF Billed

\* A processor that takes the job takes it with its lock.
LEMMA TakeBilled ==
    ASSUME TypeOK, Locks, [Next]_vars, NEW p \in Processors, NEW e \in Deliveries, Take(p, e),
           NEW d \in Deliveries
    PROVE  Billed(d)
  <1>1. /\ UNCHANGED <<rowVars, worker, posts>> /\ At(p, "idle") /\ PoolOpen(p)
        /\ attemptCount'[d] = attemptCount[d]
        /\ \A q \in Processors : q # p => processor'[q] = processor[q]
    BY DEF Take, rowVars, TypeOK, At, PoolOpen
  <1>2. processor'[p].at = "get" /\ processor'[p].delivery = e
    BY DEF Take, TypeOK, Idle
  <1>3. (\A w \in Workers : ~Shutdown(w)) /\ ~Stall(d)
    BY <1>1, <1>2 DEF Shutdown, Stall, At
  <1>4. \A q \in Processors : q # p /\ Secure(q, d) => Secure(q, d)'
    BY <1>1, <1>3, SecureKept
  <1>5. p \notin Doubtful(d)'
    <2>1. CASE e # d
      BY <1>2, <2>1 DEF Doubtful, Target
    <2>2. CASE e = d
      <3>1. job'[d].lock = p
        BY <2>2 DEF Take, TakeJob, TypeOK
      <3>2. Secure(p, d)'
        BY <1>1, <1>2, <3>1 DEF Secure, At, PoolOpen
      <3>. QED BY <3>2 DEF Doubtful
    <2>. QED BY <2>1, <2>2
  <1>6. Doubtful(d)' \subseteq Doubtful(d)
    BY <1>1, <1>4, <1>5 DEF Doubtful, Target
  <1>7. Covered(d) => Covered(d)'
    BY <1>1, <1>4 DEF Covered, Target, At
  <1>. QED BY <1>1, <1>6, <1>7 DEF Billed

\* Outside a call, a row that survives the step keeps its count.
LEMMA RowKept ==
    ASSUME TypeOK, [Next]_vars, \A p \in Processors : ~Call(p),
           NEW d \in Deliveries, Present(d)'
    PROVE  attemptCount'[d] = attemptCount[d]
  <1>1. ASSUME NEW D \in SUBSET Deliveries, CascadeDelete(D)
        PROVE  attemptCount'[d] = attemptCount[d]
    BY <1>1 DEF CascadeDelete, Present
  <1>2. CASE FanOut \/ DeleteRows
    BY <1>1, <1>2 DEF FanOut, EnqueueBulk, EnqueueBulkFails, RollBack, DeleteRows, rowVars
  <1>3. CASE ~FanOut /\ ~DeleteRows
    BY <1>3 DEF Next, vars, rowVars, ApiDies, RetryDeadLettered, RequestStep, RequestFails,
       ReadDetail, CheckJob, RemoveFinishedJob, Enqueue, Take, Promote, Stall, Crash, Shutdown,
       Restart
  <1>. QED BY <1>2, <1>3

LEMMA StepBilled ==
    ASSUME IInv, Locks, [Next]_vars, NEW d \in Deliveries, Present(d), Present(d)'
    PROVE  Billed(d)
  <1>1. TypeOK /\ AttemptsNumbered /\ NoStaleWrite
    BY DEF IInv
  <1>2. CASE \E p \in Processors : Call(p)
    BY <1>1, <1>2, CallBilled
  <1>3. CASE \E w \in Workers : Crash(w)
    BY <1>1, <1>3, CrashBilled
  <1>4. CASE \E p \in Processors, e \in Deliveries : Take(p, e)
    BY <1>1, <1>4, TakeBilled
  <1>5. CASE (Stall(d) /\ Fault("lock")) \/ \E w \in Workers : Shutdown(w)
    BY <1>1, <1>5, HolderLostBilled DEF Stall, Shutdown, Fault
  <1>6. CASE /\ \A p \in Processors : ~Call(p)
             /\ \A w \in Workers : ~Crash(w) /\ ~Shutdown(w)
             /\ \A p \in Processors, e \in Deliveries : ~Take(p, e)
             /\ ~(Stall(d) /\ Fault("lock"))
    <2>1. UNCHANGED processor
      BY <1>6 DEF Next, FanOut, EnqueueBulk, EnqueueBulkFails, RollBack, ApiDies, DeleteRows, vars,
         RetryDeadLettered, RequestStep, RequestFails, ReadDetail, CheckJob, RemoveFinishedJob,
         Enqueue, Promote, Stall, Restart
    <2>2. attemptCount'[d] = attemptCount[d]
      BY <1>1, <1>6, RowKept
    <2>3. posts'[d] = posts[d]
      BY <1>1, <1>6, CountersStep DEF Call
    <2>. QED BY <1>1, <1>6, <2>1, <2>2, <2>3, StillBilled
  <1>. QED BY <1>2, <1>3, <1>4, <1>5, <1>6

LEMMA PostsAccountedStep ==
    ASSUME IInv, IInv', RowStep, Locks, PostsAccounted, [Next]_vars
    PROVE  PostsAccounted'
  <1>1. TypeOK /\ TypeOK'
    BY DEF IInv
  <1>2. ASSUME NEW d \in Deliveries, Present(d)'
        PROVE  posts'[d] + Cardinality(Doubtful(d)')
                 <= attemptCount'[d] + faults' + (IF Covered(d)' THEN 1 ELSE 0)
    <2>1. Present(d) /\ attemptCount'[d] >= attemptCount[d]
      BY <1>1, <1>2, RowsAdvance DEF Present
    <2>2. faults' >= faults
      BY <1>1, CountersStep
    <2>3. Billed(d)
      BY <1>2, <2>1, StepBilled
    <2>. QED BY <1>1, <2>1, <2>2, <2>3, Balanced
  <1>. QED BY <1>2 DEF PostsAccounted

LEMMA PostsAccountedInit == Init => PostsAccounted
  <1>. SUFFICES ASSUME Init PROVE PostsAccounted
    OBVIOUS
  <1>1. \A d \in Deliveries : Doubtful(d) = {}
    BY DEF Init, Doubtful, Idle, Trying
  <1>2. Cardinality({}) = 0
    BY FS_EmptySet
  <1>. QED BY <1>1, <1>2 DEF Init, PostsAccounted

LEMMA AccountedIsBounded ==
    ASSUME TypeOK, PostsAccounted PROVE DuplicatesBounded
  <1>. SUFFICES ASSUME NEW d \in Deliveries, Present(d)
                PROVE  posts[d] <= attemptCount[d] + faults
                         + Cardinality({p \in Processors : Target(p) = d /\ At(p, "complete")})
    BY DEF DuplicatesBounded
  <1> DEFINE C == {p \in Processors : Target(p) = d /\ At(p, "complete")}
             k == IF Covered(d) THEN 1 ELSE 0
  <1>1. posts[d] + Cardinality(Doubtful(d)) <= attemptCount[d] + faults + k
    BY DEF PostsAccounted
  <1>2. Cardinality(Doubtful(d)) \in Nat
    BY ProcessorCount DEF Doubtful
  <1>3. Cardinality(C) \in Nat /\ (C # {} => Cardinality(C) >= 1)
    BY ProcessorCount
  <1>4. k \in Nat /\ k <= Cardinality(C)
    <2>1. Covered(d) => C # {}
      BY DEF Covered
    <2>. QED BY <1>3, <2>1
  <1>5. posts[d] \in Nat /\ attemptCount[d] \in Nat /\ faults \in Nat
    BY DEF TypeOK
  <1>. HIDE DEF C, k
  <1>6. posts[d] <= attemptCount[d] + faults + Cardinality(C)
    BY <1>1, <1>2, <1>3, <1>4, <1>5
  <1>. QED BY <1>6 DEF C

\* Each POST beyond the recorded Attempts, save those being recorded, costs a
\* crash, a lost lock, a shutdown or a failed call: for any number of
\* processors, retries and faults.
THEOREM DuplicatesAreBounded == Spec => []DuplicatesBounded
  <1> DEFINE Inv == IInv /\ Locks /\ PostsAccounted
  <1>1. Init => Inv
    BY InitInv, LocksInit, PostsAccountedInit
  <1>2. Inv /\ [Next]_vars => Inv'
    BY NextInv, LocksStep, PostsAccountedStep DEF IInv
  <1>3. Inv => DuplicatesBounded
    BY AccountedIsBounded DEF IInv
  <1>. QED BY <1>1, <1>2, <1>3, PTL DEF Spec

-----------------------------------------------------------------------------
(* What survives.                                                          *)

\* The faults the code is built to survive: fewer of them than would stall one
\* job too often, a queue that grants the worker's attempts, and no operator.
Benign ==
    /\ FaultKinds \subseteq {"crash", "redis", "delete"}
    /\ MaxFaults <= MaxStalledCount
    /\ MaxAttempts <= JobAttempts
    /\ MaxRetries = 0

Open(d) == status[d] \in OpenStatus

Calm ==
    /\ \A r \in Requests : request[r] = Quiet
    /\ \A d \in Deliveries : retries[d] = 0
    /\ \A w \in Workers : worker[w] = "running"
    /\ faults <= MaxFaults

\* A call leaves its job only when the Delivery is closed or will be tried again.
GoesOn(p) ==
    LET d == Target(p)
    IN  /\ ~At(p, "threw")
        /\ processor[p].at \in {"returned", "autoDisable", "reset"} => ~Open(d)
        /\ At(p, "recheck") => status[d] # "pending"
        /\ Holds(p) /\ Present(d) => processor[p].seen = attemptCount[d]
        /\ At(p, "retryable") /\ Open(d) => job[d].made + 1 <= attemptCount[d]

\* The job of an open Delivery is alive, with throws and stalls to spare.
Lives(d) ==
    /\ job[d].stalls <= faults
    /\ job[d].state = "active" /\ job[d].lock = NoLock => job[d].stalls + 1 <= faults
    /\ Open(d) =>
        /\ job[d].made <= attemptCount[d]
        /\ job[d].state \in LiveJobStates \/ (job[d].state = "none" /\ fanOut # "done")

Surviving ==
    /\ Calm
    /\ \A p \in Processors : GoesOn(p)
    /\ \A d \in Deliveries : Lives(d)

\* The calls that a benign fault does not cut short.
SafeCall(p) ==
    \/ GetDelivery(p) \/ MarkMisses(p) \/ Recheck(p) \/ Fetch(p) \/ AutoDisable(p)
    \/ MarkInProgress(p) /\ Goto(p, "fetch")
    \/ Complete(p) /\ Goto(p, ResultOf(StatusAfter(processor[p].outcome, AttemptNumber(p))))
    \/ CompleteFails(p) /\ Refused(p)
    \/ Reset(p) /\ Goto(p, "retryable")
    \/ Settle(p)
    \/ SettleFails(p)

LEMMA CalmCall ==
    ASSUME Benign, Calm, NEW p \in Processors, Call(p)
    PROVE  SafeCall(p)
  <1>1. PoolOpen(p)
    BY PipelineAssumption DEF Calm, PoolOpen
  <1>2. ~Fault("database")
    BY DEF Fault, Benign
  <1>3. ~Rejects(p) /\ \A s, l : Replies(p, s, l) => Goto(p, s)
    BY <1>1, <1>2 DEF Rejects, Replies
  <1>. QED BY <1>3 DEF Call, SafeCall, MarkInProgress, Complete, CompleteFails, Reset, CallRejects

\* The steps that are left, and the calm they leave.
LEMMA CalmStep ==
    ASSUME Benign, TypeOK, Calm, [Next]_vars
    PROVE  /\ Calm'
           /\ \/ UNCHANGED vars \/ FanOut \/ DeleteRows
              \/ \E p \in Processors, d \in Deliveries : Take(p, d)
              \/ \E p \in Processors : Call(p)
              \/ \E d \in Deliveries : Promote(d)
              \/ \E d \in Deliveries : Stall(d) /\ job[d].lock = NoLock /\ UNCHANGED faults
              \/ \E w \in Workers : Crash(w)
  <1>1. ~Fault("lock") /\ ~Fault("shutdown") /\ ~Fault("api")
    BY DEF Fault, Benign
  <1>2. ASSUME NEW r \in Requests PROVE ~RequestStep(r) /\ ~RequestFails(r)
    <2>1. request[r].at = "idle"
      BY DEF Calm, Quiet
    <2>. QED BY <2>1 DEF RequestStep, RequestFails, ReadDetail, CheckJob, RemoveFinishedJob, Enqueue
  <1>3. ASSUME NEW r \in Requests, NEW d \in Deliveries PROVE ~RetryDeadLettered(r, d)
    BY DEF RetryDeadLettered, Calm, Benign
  <1>4. ~ApiDies /\ \A w \in Workers : ~Shutdown(w) /\ ~Restart(w)
    BY <1>1 DEF ApiDies, Shutdown, Restart, Calm
  <1>5. \/ UNCHANGED vars \/ FanOut \/ DeleteRows
        \/ \E p \in Processors, d \in Deliveries : Take(p, d)
        \/ \E p \in Processors : Call(p)
        \/ \E d \in Deliveries : Promote(d)
        \/ \E d \in Deliveries : Stall(d) /\ job[d].lock = NoLock /\ UNCHANGED faults
        \/ \E w \in Workers : Crash(w)
    BY <1>1, <1>2, <1>3, <1>4 DEF Next, Stall
  <1>6. UNCHANGED <<request, retries>> /\ (UNCHANGED worker \/ \E w \in Workers : Crash(w))
    BY <1>5, CallFrame DEF FanOut, EnqueueBulk, EnqueueBulkFails, RollBack, DeleteRows, Take,
       Promote, Stall, Crash, apiVars, vars
  <1>7. \A w \in Workers : worker'[w] = "running"
    BY <1>6 DEF Crash, Calm, TypeOK
  <1>8. faults' <= MaxFaults
    <2>1. \A k : Fault(k) => faults' <= MaxFaults
      BY PipelineAssumption DEF Fault, TypeOK
    <2>2. faults' = faults \/ \E k : Fault(k)
      BY <1>5 DEF FanOut, EnqueueBulk, EnqueueBulkFails, RollBack, DeleteRows, Take, Promote, Stall,
         Crash, vars, Call, GetDelivery, MarkInProgress, MarkMisses, Recheck, Fetch, Complete,
         CompleteFails, Reset, AutoDisable, CallRejects, Settle, SettleFails, Replies, Rejects
    <2>. QED BY <2>1, <2>2 DEF Calm
  <1>. QED BY <1>5, <1>6, <1>7, <1>8 DEF Calm

\* While nobody asks for a retry, a closed Delivery stays closed.
LEMMA OpenRow ==
    ASSUME IInv, IInv', Calm, Calm', RowStep, NEW d \in Deliveries, Open(d)'
    PROVE  /\ Open(d) /\ Present(d)
           /\ attemptCount'[d] >= attemptCount[d]
           /\ attemptCount[d] < MaxAttempts
  <1>1. TypeOK /\ TypeOK' /\ AttemptBudget /\ AttemptBudget'
    BY DEF IInv
  <1>2. Present(d)' /\ Present(d) /\ attemptCount'[d] >= attemptCount[d]
    BY <1>1, RowsAdvance DEF Open, OpenStatus, Present
  <1>3. attemptCount[d] \in Nat /\ attemptCount'[d] \in Nat /\ retries[d] = 0 /\ retries'[d] = 0
    BY <1>1 DEF TypeOK, Calm
  <1>4. attemptCount'[d] < MaxAttempts
    BY <1>1, <1>2, <1>3, RowsAssumption DEF AttemptBudget, Open
  <1>5. status[d] = "dead_lettered" => attemptCount[d] = MaxAttempts
    BY <1>1, <1>2, <1>3, RowsAssumption DEF AttemptBudget
  <1>6. Open(d)
    BY <1>1, <1>2, <1>3, <1>4, <1>5, RowCases, RowsAssumption DEF Open, Present, OpenStatus
  <1>. QED BY <1>2, <1>3, <1>4, <1>6, RowsAssumption

\* What the others do to a Delivery in p's hands: delete it, at most.
LEMMA OthersStep ==
    ASSUME Benign, TypeOK, AllHold, Calm, [Next]_vars, NEW p \in Processors, ~Call(p),
           NEW d \in Deliveries, Target(p) = d
    PROVE  /\ job'[d].made = job[d].made
           /\ status'[d] = "absent" \/ (status'[d] = status[d] /\ attemptCount'[d] = attemptCount[d])
  <1> DEFINE Row == status'[d] = "absent" \/ (status'[d] = status[d] /\ attemptCount'[d] = attemptCount[d])
  <1>1. d # NoDelivery /\ HoldsLock(job[d], p)
    BY PipelineAssumption DEF AllHold
  <1>2. UNCHANGED rowVars => Row
    BY DEF rowVars
  <1>3. \A D \in SUBSET Deliveries : CascadeDelete(D) => Row
    BY DEF CascadeDelete
  <1>4. CASE UNCHANGED vars \/ FanOut \/ DeleteRows
    BY <1>1, <1>2, <1>3, <1>4 DEF FanOut, EnqueueBulk, EnqueueBulkFails, RollBack, DeleteRows,
       vars, rowVars, AddJob, HoldsLock
  <1>5. ASSUME NEW q \in Processors, NEW e \in Deliveries, Take(q, e)
        PROVE  job'[d].made = job[d].made /\ Row
    BY <1>1, <1>2, <1>5 DEF Take, HoldsLock, TypeOK
  <1>6. ASSUME NEW e \in Deliveries, Promote(e) \/ (Stall(e) /\ job[e].lock = NoLock)
        PROVE  job'[d].made = job[d].made /\ Row
    <2>1. e # d /\ UNCHANGED rowVars /\ job'[d] = job[d]
      BY <1>1, <1>6, PipelineAssumption DEF Promote, Stall, HoldsLock, TypeOK
    <2>. QED BY <1>2, <2>1
  <1>7. ASSUME NEW w \in Workers, Crash(w)
        PROVE  job'[d].made = job[d].made /\ Row
    BY <1>2, <1>7 DEF Crash, DropLock, TypeOK
  <1>8. ASSUME NEW q \in Processors, Call(q), q # p
        PROVE  job'[d].made = job[d].made /\ Row
    <2>1. Target(q) # d
      BY <1>1, <1>8 DEF AllHold, HoldsLock
    <2>2. job'[d] = job[d]
      <3>1. CASE UNCHANGED job
        BY <3>1
      <3>2. CASE Settle(q)
        BY <2>1, <3>2, SettledJob
      <3>3. CASE SettleFails(q)
        BY <2>1, <3>3 DEF SettleFails, TypeOK
      <3>. QED BY <1>8, <3>1, <3>2, <3>3, CallFrame
    <2>3. status'[d] = status[d] /\ attemptCount'[d] = attemptCount[d]
      BY <1>8, <2>1 DEF Call, GetDelivery, MarkInProgress, MarkMisses, Recheck, Fetch, Complete,
         CompleteFails, Reset, AutoDisable, CallRejects, Settle, SettleFails, TypeOK, rowVars
    <2>. QED BY <2>2, <2>3
  <1>. QED BY <1>4, <1>5, <1>6, <1>7, <1>8, CalmStep

\* A processor that a step leaves alone goes on as before.
LEMMA UntouchedGoesOn ==
    ASSUME Benign, TypeOK, AllHold, Calm, [Next]_vars,
           NEW p \in Processors, GoesOn(p), processor'[p] = processor[p], ~Call(p)
    PROVE  GoesOn(p)'
  <1> DEFINE d == Target(p)
  <1>1. Target(p)' = d /\ \A s : At(p, s)' <=> At(p, s)
    BY DEF Target, At
  <1>2. CASE At(p, "idle")
    BY <1>1, <1>2 DEF GoesOn, At, Holds, Reading
  <1>3. CASE ~At(p, "idle")
    <2>1. d \in Deliveries
      BY <1>3, TargetType
    <2>2. /\ job'[d].made = job[d].made
          /\ status'[d] = "absent" \/ (status'[d] = status[d] /\ attemptCount'[d] = attemptCount[d])
      BY <2>1, OthersStep
    <2>. QED BY <1>1, <2>2 DEF GoesOn, Open, OpenStatus, Present, Holds
  <1>. QED BY <1>2, <1>3

\* What its own call leads to.
LEMMA CallGoesOn ==
    ASSUME Benign, IInv, Surviving, NEW p \in Processors, Call(p)
    PROVE  GoesOn(p)'
  <1> DEFINE d == Target(p)
  <1>1. TypeOK /\ AttemptsNumbered /\ NoStaleWrite /\ Calm /\ GoesOn(p) /\ SafeCall(p) /\ PoolOpen(p)
    BY CalmCall, PipelineAssumption DEF IInv, Surviving, Calm, PoolOpen
  <1>2. d \in Deliveries /\ attemptCount[d] \in Nat /\ Lives(d)
    BY <1>1, CallFrame, TargetType DEF Surviving, TypeOK
  <1>3. \A s : Goto(p, s) => /\ processor'[p] = [processor[p] EXCEPT !.at = s]
                             /\ processor'[p].at = s
                             /\ processor'[p].delivery = d
                             /\ processor'[p].seen = processor[p].seen
    BY <1>1 DEF Goto, TypeOK, Target
  <1>4. CASE GetDelivery(p)
    <2>1. UNCHANGED <<job, rowVars>> /\ processor'[p].delivery = d
      <3>1. UNCHANGED <<job, rowVars>>
        BY <1>4 DEF GetDelivery
      <3>2. \/ processor' = [processor EXCEPT ![p].at = "mark", ![p].seen = attemptCount[d]]
            \/ Goto(p, "returned")
        BY <1>4 DEF GetDelivery
      <3>3. CASE Goto(p, "returned")
        BY <1>3, <3>1, <3>3
      <3>4. CASE processor' = [processor EXCEPT ![p].at = "mark", ![p].seen = attemptCount[d]]
        BY <1>1, <3>1, <3>4 DEF TypeOK, Target
      <3>. QED BY <3>2, <3>3, <3>4
    <2>2. \/ processor'[p].at = "mark" /\ processor'[p].seen = attemptCount[d]
          \/ processor'[p].at = "returned" /\ ~Open(d)
      <3>1. CASE status[d] \in OpenStatus
        <4>1. processor' = [processor EXCEPT ![p].at = "mark", ![p].seen = attemptCount[d]]
          BY <1>4, <3>1 DEF GetDelivery
        <4>. QED BY <1>1, <4>1 DEF TypeOK
      <3>2. CASE status[d] \notin OpenStatus
        BY <1>3, <1>4, <3>2 DEF GetDelivery, Open
      <3>. QED BY <3>1, <3>2
    <2>. QED BY <2>1, <2>2 DEF GoesOn, Holds, Reading, At, Target, Open, rowVars
  <1>5. CASE MarkInProgress(p) /\ Goto(p, "fetch")
    <2>1. /\ UNCHANGED <<job, attemptCount>> /\ At(p, "mark") /\ Present(d)
          /\ processor'[p] = [processor[p] EXCEPT !.at = "fetch"]
      BY <1>3, <1>5 DEF MarkInProgress, Present
    <2>. QED BY <1>1, <2>1 DEF GoesOn, Holds, Reading, At, Target, TypeOK
  <1>6. CASE MarkMisses(p)
    <2>1. /\ UNCHANGED <<job, rowVars>> /\ At(p, "mark") /\ status[d] # "pending"
          /\ processor'[p].at = "recheck"
      BY <1>3, <1>6 DEF MarkMisses
    <2>2. processor'[p].delivery = d /\ processor'[p].seen = processor[p].seen
      BY <1>3, <1>6 DEF MarkMisses
    <2>. QED BY <1>1, <2>1, <2>2 DEF GoesOn, Holds, Reading, At, Target, rowVars, Present
  <1>7. CASE Recheck(p)
    <2>1. status[d] = "in_progress" \/ ~Open(d)
      BY <1>1, <1>7 DEF Recheck, GoesOn, Open, OpenStatus
    <2>2. \/ processor'[p].at = "fetch"
          \/ processor'[p].at = "returned" /\ ~Open(d)
      BY <1>3, <1>7, <2>1 DEF Recheck, Readmits
    <2>. QED BY <1>1, <1>3, <1>7, <2>2 DEF Recheck, GoesOn, Holds, Reading, At, Target,
         rowVars, Present, Open
  <1>8. CASE Fetch(p)
    BY <1>1, <1>8 DEF Fetch, GoesOn, Holds, Reading, At, Target, rowVars, Present, TypeOK
  <1>9. CASE Complete(p) /\ Goto(p, ResultOf(StatusAfter(processor[p].outcome, AttemptNumber(p))))
    <2> DEFINE n == AttemptNumber(p)
               s == StatusAfter(processor[p].outcome, n)
    <2>1. n = attemptCount[d] + 1 /\ Open(d) /\ processor[p].outcome \in Outcomes
      BY <1>1, <1>9, AcceptedWrite DEF Open
    <2>2. s \in {"succeeded", "failed", "dead_lettered", "pending"}
      BY <1>2, <2>1, StatusAfterType
    <2>3. /\ status'[d] = s /\ attemptCount'[d] = attemptCount[d] + 1 /\ UNCHANGED job
          /\ processor'[p] = [processor[p] EXCEPT !.at = ResultOf(s)]
      BY <1>1, <1>2, <1>3, <1>9, <2>1 DEF Complete, TypeOK
    <2>4. job[d].made + 1 <= attemptCount'[d]
      BY <1>1, <1>2, <2>1, <2>3 DEF Lives, TypeOK
    <2>5. ResultOf(s) = "retryable" \/ (ResultOf(s) \in {"returned", "autoDisable"} /\ status'[d] \notin OpenStatus)
      BY <2>2, <2>3 DEF ResultOf, Open, OpenStatus
    <2>6. processor'[p].at = ResultOf(s) /\ Target(p)' = d
      BY <1>1, <2>3 DEF TypeOK, Target
    <2>. QED BY <2>3, <2>4, <2>5, <2>6 DEF GoesOn, Holds, Reading, At, Open
  <1>10. CASE CompleteFails(p) /\ Refused(p)
    <2>1. At(p, "complete") /\ UNCHANGED rowVars /\ processor'[p] = [processor[p] EXCEPT !.at = "reset"]
      BY <1>3, <1>10 DEF CompleteFails
    <2>2. ~Present(d)
      <3>1. Present(d) => processor[p].seen = attemptCount[d]
        BY <1>1, <2>1 DEF GoesOn, Holds, Reading, At
      <3>2. ~\E a \in attempts[d] : a.n = attemptCount[d] + 1
        BY <1>1, <1>2, NextIsFree
      <3>. QED BY <1>10, <3>1, <3>2 DEF Refused, AttemptNumber, Present
    <2>3. processor'[p].at = "reset" /\ Target(p)' = d /\ status'[d] \notin OpenStatus
      BY <1>1, <2>1, <2>2 DEF TypeOK, Target, Present, Open, OpenStatus, rowVars
    <2>. QED BY <2>3 DEF GoesOn, Holds, Reading, At, Open
  <1>11. CASE Reset(p) /\ Goto(p, "retryable")
    <2>1. ~Open(d) /\ status'[d] = Released(status[d])
      BY <1>1, <1>2, <1>11 DEF Reset, GoesOn, At, TypeOK
    <2>2. processor'[p].at = "retryable" /\ Target(p)' = d /\ status'[d] \notin OpenStatus
      BY <1>3, <1>11, <2>1 DEF Target, Open, OpenStatus, Released
    <2>. QED BY <2>2 DEF GoesOn, Holds, Reading, At, Open
  <1>12. CASE AutoDisable(p)
    <2>1. At(p, "autoDisable") /\ UNCHANGED rowVars /\ processor'[p].at = "returned"
      BY <1>3, <1>12 DEF AutoDisable
    <2>2. processor'[p].delivery = d /\ ~Open(d)
      BY <1>1, <1>3, <1>12, <2>1 DEF AutoDisable, GoesOn, At
    <2>. QED BY <2>1, <2>2 DEF GoesOn, Holds, Reading, At, Target, rowVars, Open
  <1>13. CASE Settle(p) \/ SettleFails(p)
    <2>1. processor'[p] = Idle
      BY <1>1, <1>13 DEF Settle, SettleFails, TypeOK
    <2>. QED BY <2>1 DEF GoesOn, Holds, Reading, At, Idle
  <1>. QED BY <1>1, <1>4, <1>5, <1>6, <1>7, <1>8, <1>9, <1>10, <1>11, <1>12, <1>13 DEF SafeCall

LEMMA GoesOnStep ==
    ASSUME Benign, IInv, AllHold, Surviving, [Next]_vars, NEW p \in Processors
    PROVE  GoesOn(p)'
  <1>1. TypeOK /\ Calm /\ GoesOn(p)
    BY DEF IInv, Surviving
  <1>2. CASE Call(p)
    BY <1>2, CallGoesOn
  <1>3. CASE ~Call(p) /\ processor'[p] = processor[p]
    BY <1>1, <1>3, UntouchedGoesOn
  <1>4. CASE ~Call(p) /\ processor'[p] # processor[p]
    <2>1. processor'[p].at \in {"idle", "get"}
      <3>1. ASSUME NEW q \in Processors, NEW d \in Deliveries, Take(q, d)
            PROVE  processor'[p].at \in {"idle", "get"}
        BY <1>1, <1>4, <3>1 DEF Take, TypeOK, Idle
      <3>2. ASSUME NEW w \in Workers, Crash(w)
            PROVE  processor'[p].at \in {"idle", "get"}
        BY <1>1, <1>4, <3>2 DEF Crash, TypeOK, Idle
      <3>3. ASSUME NEW q \in Processors, Call(q)
            PROVE  FALSE
        BY <1>1, <1>4, <3>3, CallFrame
      <3>. QED BY <1>1, <1>4, <3>1, <3>2, <3>3, CalmStep DEF FanOut, EnqueueBulk, EnqueueBulkFails,
           RollBack, DeleteRows, Promote, Stall, vars
    <2>. QED BY <2>1 DEF GoesOn, Holds, Reading, At
  <1>. QED BY <1>2, <1>3, <1>4

\* A job that no step touches lives on.
LEMMA UntouchedLives ==
    ASSUME IInv, IInv', Calm, Calm', RowStep, [Next]_vars,
           NEW d \in Deliveries, Lives(d), job'[d] = job[d], UNCHANGED fanOut
    PROVE  Lives(d)'
  <1>1. faults \in Nat /\ faults' \in Nat /\ faults' >= faults
    BY CountersStep DEF IInv, TypeOK
  <1>2. job[d].stalls \in Nat /\ job[d].made \in Nat /\ attemptCount[d] \in Nat /\ attemptCount'[d] \in Nat
    BY DEF IInv, TypeOK
  <1>3. Open(d)' => Open(d) /\ attemptCount'[d] >= attemptCount[d]
    BY OpenRow
  <1>. QED BY <1>1, <1>2, <1>3 DEF Lives

LEMMA FanOutLives ==
    ASSUME Benign, TypeOK, FanOut, NEW d \in Deliveries, Lives(d)
    PROVE  Lives(d)'
  <1>1. job[d] \in Jobs /\ faults \in Nat /\ attemptCount[d] \in Nat
    BY DEF TypeOK, Jobs
  <1>2. faults' \in Nat /\ faults' >= faults /\ \A k : Fault(k) => k # "database"
    BY <1>1 DEF FanOut, EnqueueBulk, EnqueueBulkFails, RollBack, Fault, Benign
  <1>3. CASE EnqueueBulk
    <2>1. UNCHANGED rowVars /\ job'[d] = AddJob(job[d])
      BY <1>3 DEF EnqueueBulk
    <2>2. CASE job[d].state = "none"
      <3>1. job'[d] = [NoJob EXCEPT !.state = "wait"]
        BY <2>1, <2>2 DEF AddJob
      <3>. QED BY <1>1, <1>2, <2>1, <3>1 DEF Lives, NoJob, LiveJobStates, rowVars
    <2>3. CASE job[d].state # "none"
      <3>1. job'[d] = job[d]
        BY <2>1, <2>3 DEF AddJob
      <3>. QED BY <1>1, <1>2, <2>1, <2>3, <3>1 DEF Lives, Jobs, Open, rowVars
    <2>. QED BY <2>2, <2>3
  <1>4. CASE EnqueueBulkFails
    BY <1>1, <1>2, <1>4 DEF EnqueueBulkFails, Lives, Jobs, Open, rowVars
  <1>5. CASE RollBack
    <2>1. status'[d] = "absent" /\ job'[d] = job[d] /\ UNCHANGED faults
      BY <1>2, <1>5 DEF RollBack, CascadeDelete
    <2>. QED BY <2>1 DEF Lives, Open, OpenStatus
  <1>. QED BY <1>3, <1>4, <1>5 DEF FanOut

LEMMA QueueLives ==
    ASSUME Benign, IInv, Calm, Locks, NEW d \in Deliveries, Lives(d),
           \/ \E p \in Processors : Take(p, d)
           \/ Promote(d)
           \/ Stall(d) /\ job[d].lock = NoLock /\ UNCHANGED faults
    PROVE  Lives(d)'
  <1>1. /\ job[d] \in Jobs /\ faults \in Nat /\ attemptCount[d] \in Nat
        /\ MaxStalledCount \in Nat /\ MaxFaults \in Nat
    BY PipelineAssumption, JobQueueAssumption DEF IInv, TypeOK, Jobs
  <1>2. UNCHANGED <<rowVars, faults, fanOut>>
    BY DEF Take, Promote, Stall, apiVars
  <1>3. ASSUME NEW p \in Processors, Take(p, d) PROVE Lives(d)'
    <2>1. job'[d] = TakeJob(job[d], p) /\ job[d].state = "wait"
      BY <1>3 DEF Take, IInv, TypeOK
    <2>. QED BY <1>1, <1>2, <2>1, PipelineAssumption DEF Lives, TakeJob, Jobs, LiveJobStates, Open, rowVars
  <1>4. CASE Promote(d)
    <2>1. job'[d] = PromoteJob(job[d]) /\ job[d].state = "delayed"
      BY <1>4 DEF Promote, IInv, TypeOK
    <2>. QED BY <1>1, <1>2, <2>1 DEF Lives, PromoteJob, Jobs, LiveJobStates, Open, rowVars
  <1>5. CASE Stall(d) /\ job[d].lock = NoLock
    <2>1. job'[d] = StallJob(job[d]) /\ job[d].state = "active"
      BY <1>5 DEF Stall, IInv, TypeOK
    <2>2. job[d].stalls + 1 <= faults /\ job[d].stalls \in Nat
      BY <1>1, <1>5, <2>1 DEF Lives, Jobs
    <2>3. ~(job[d].stalls + 1 > MaxStalledCount)
      BY <1>1, <2>2 DEF Benign, Calm
    <2>4. job'[d].state = "wait" /\ job'[d].stalls = job[d].stalls + 1 /\ job'[d].made = job[d].made
      BY <1>1, <2>1, <2>3 DEF StallJob, Jobs
    <2>. QED BY <1>2, <2>1, <2>2, <2>4 DEF Lives, LiveJobStates, Open, rowVars
  <1>. QED BY <1>3, <1>4, <1>5

\* A lock dropped by a fault has the fault to pay for the stall that follows.
LEMMA DroppedLives ==
    ASSUME TypeOK, NEW d \in Deliveries, Lives(d), UNCHANGED <<rowVars, fanOut>>,
           faults' = faults + 1, NEW S \in SUBSET Processors, job'[d] = DropLock(job[d], S)
    PROVE  Lives(d)'
  <1>1. job[d] \in Jobs /\ faults \in Nat /\ attemptCount[d] \in Nat
    BY DEF TypeOK, Jobs
  <1>2. /\ job'[d].state = job[d].state /\ job'[d].stalls = job[d].stalls /\ job'[d].made = job[d].made
        /\ job[d].stalls \in Nat
    BY <1>1 DEF DropLock, Jobs
  <1>. QED BY <1>1, <1>2 DEF Lives, Open, rowVars

LEMMA SettleLives ==
    ASSUME Benign, IInv, IInv', Calm, Calm', RowStep, AllHold, [Next]_vars,
           NEW p \in Processors, GoesOn(p), Settle(p), NEW d \in Deliveries, Lives(d)
    PROVE  Lives(d)'
  <1>1. TypeOK /\ UNCHANGED <<rowVars, faults, fanOut>>
    BY DEF Settle, IInv, apiVars
  <1>2. /\ job[d] \in Jobs /\ attemptCount[d] \in Nat
        /\ MaxAttempts \in Nat /\ JobAttempts \in Nat
    BY <1>1, RowsAssumption, JobQueueAssumption DEF TypeOK, Jobs
  <1>3. CASE job'[d] = job[d]
    BY <1>1, <1>3, UntouchedLives
  <1>4. CASE job'[d] # job[d]
    <2>1. d = Target(p) /\ HoldsLock(job[d], p)
      BY <1>1, <1>4, SettledJob
    <2>2. CASE At(p, "returned")
      <3>1. job'[d] = CompleteJob(job[d], p) /\ ~Open(d)
        BY <1>1, <2>1, <2>2, SettledJob DEF GoesOn, At
      <3>2. job'[d].stalls = job[d].stalls /\ job'[d].state = "completed"
        BY <1>2, <2>1, <3>1 DEF CompleteJob, Jobs
      <3>. QED BY <1>1, <3>1, <3>2 DEF Lives, Open, rowVars
    <2>3. CASE At(p, "retryable")
      <3>1. job'[d] = RetryJob(job[d], p)
        BY <1>1, <2>1, <2>3, SettledJob DEF At
      <3>2. job'[d].stalls = job[d].stalls /\ job'[d].state # "active"
        BY <1>2, <2>1, <3>1 DEF RetryJob, FailJob, Jobs
      <3>3. CASE Open(d)
        <4>1. job[d].made + 1 <= attemptCount[d]
          BY <2>1, <2>3, <3>3 DEF GoesOn
        <4>2. attemptCount[d] < MaxAttempts
          BY <1>1, <3>3, OpenRow DEF Open, rowVars
        <4>3. job[d].made + 1 < JobAttempts
          BY <1>2, <4>1, <4>2 DEF Benign, Jobs
        <4>4. job'[d].state = "delayed" /\ job'[d].made = job[d].made + 1
          BY <1>2, <2>1, <3>1, <4>3 DEF RetryJob, Jobs
        <4>. QED BY <1>1, <3>2, <4>1, <4>4 DEF Lives, LiveJobStates, rowVars
      <3>4. CASE ~Open(d)
        BY <1>1, <3>2, <3>4 DEF Lives, Open, rowVars
      <3>. QED BY <3>3, <3>4
    <2>. QED BY <2>2, <2>3 DEF Settle, Results, GoesOn, At
  <1>. QED BY <1>3, <1>4

LEMMA LivesStep ==
    ASSUME Benign, IInv, IInv', Locks, AllHold, Surviving, Calm', RowStep, [Next]_vars,
           NEW d \in Deliveries
    PROVE  Lives(d)'
  <1>1. TypeOK /\ Calm /\ Lives(d)
    BY DEF IInv, Surviving
  <1>2. CASE job'[d] = job[d] /\ UNCHANGED fanOut
    BY <1>1, <1>2, UntouchedLives
  <1>3. CASE FanOut
    BY <1>1, <1>3, FanOutLives
  <1>4. ASSUME NEW e \in Deliveries,
               \/ \E p \in Processors : Take(p, e)
               \/ Promote(e)
               \/ Stall(e) /\ job[e].lock = NoLock /\ UNCHANGED faults
        PROVE  Lives(d)'
    <2>1. CASE e = d
      BY <1>1, <1>4, <2>1, QueueLives
    <2>2. CASE e # d
      BY <1>1, <1>2, <1>4, <2>2 DEF Take, Promote, Stall, TypeOK, apiVars
    <2>. QED BY <2>1, <2>2
  <1>5. ASSUME NEW p \in Processors, Call(p)
        PROVE  Lives(d)'
    <2>1. UNCHANGED fanOut /\ GoesOn(p)
      BY <1>5, CallFrame, <1>1 DEF apiVars, Surviving
    <2>2. CASE UNCHANGED job
      BY <1>2, <2>1, <2>2
    <2>3. CASE Settle(p)
      BY <1>1, <2>1, <2>3, SettleLives
    <2>4. CASE SettleFails(p)
      <3>1. job'[d] = job[d] \/ job'[d] = DropLock(job[d], {p})
        BY <1>1, <2>4 DEF SettleFails, TypeOK
      <3>2. UNCHANGED <<rowVars, fanOut>> /\ faults' = faults + 1
        BY <2>4 DEF SettleFails, Fault, apiVars
      <3>. QED BY <1>1, <1>2, <3>1, <3>2, DroppedLives
    <2>. QED BY <1>1, <1>5, <2>2, <2>3, <2>4, CallFrame
  <1>6. ASSUME NEW w \in Workers, Crash(w)
        PROVE  Lives(d)'
    <2>1. /\ UNCHANGED <<rowVars, fanOut>> /\ faults' = faults + 1
          /\ job'[d] = DropLock(job[d], SlotsOf(w))
      BY <1>6 DEF Crash, Fault, apiVars
    <2>2. SlotsOf(w) \in SUBSET Processors
      BY DEF SlotsOf
    <2>. QED BY <1>1, <2>1, <2>2, DroppedLives
  <1>7. CASE UNCHANGED vars \/ DeleteRows
    BY <1>2, <1>7 DEF vars, DeleteRows, apiVars
  <1>. QED BY <1>1, <1>3, <1>4, <1>5, <1>6, <1>7, CalmStep

LEMMA SurvivingStep ==
    ASSUME Benign, IInv, IInv', Locks, AllHold, Surviving, RowStep, [Next]_vars
    PROVE  Surviving'
  <1>1. Calm'
    BY CalmStep DEF IInv, Surviving
  <1>. QED BY <1>1, GoesOnStep, LivesStep DEF Surviving

LEMMA SurvivingInit == Init => Surviving
  BY PipelineAssumption DEF Init, Surviving, Calm, GoesOn, Lives, Idle, NoJob, At, Holds, Reading

\* Whatever crashes, Redis failures and deletions the stalled check can absorb,
\* every open Delivery keeps a job that will run, until an operator steps in.
THEOREM NothingIsStranded ==
    ASSUME FaultKinds \subseteq {"crash", "redis", "delete"},
           MaxFaults <= MaxStalledCount, MaxAttempts <= JobAttempts, MaxRetries = 0
    PROVE  Spec => []NoStrandedDelivery
  <1> DEFINE Inv == IInv /\ Locks /\ AllHold /\ Surviving
  <1>1. Benign
    BY DEF Benign
  <1>2. "lock" \notin FaultKinds
    OBVIOUS
  <1>3. Init => Inv
    BY InitInv, LocksInit, SurvivingInit DEF Init, AllHold, Target, Idle
  <1>4. Inv /\ [Next]_vars => Inv'
    BY <1>1, <1>2, NextInv, LocksStep, AllHoldStep, SurvivingStep DEF IInv
  <1>5. Inv => NoStrandedDelivery
    BY DEF Surviving, Lives, Open, NoStrandedDelivery, Attended
  <1>. QED BY <1>3, <1>4, <1>5, PTL DEF Spec
=============================================================================
