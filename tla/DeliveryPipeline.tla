-------------------------- MODULE DeliveryPipeline --------------------------
(***************************************************************************)
(* One accepted Broadcast from its committed fan-out to the end of all its *)
(* Deliveries: the Postgres rows (packages/db), the BullMQ jobs (JobQueue),*)
(* the worker processes running processDelivery (apps/api/src/worker), the *)
(* API request that fans out and the API requests that retry a             *)
(* dead-lettered Delivery.                                                 *)
(*                                                                         *)
(* Every await of the code is a point where others may step in: a          *)
(* processor runs processDelivery one database call at a time, and a       *)
(* request one database or Redis call at a time.  A database call that     *)
(* fails may have been applied (a commit whose reply is lost) or not.      *)
(***************************************************************************)
EXTENDS JobQueue, DeliveryRows, FiniteSets

CONSTANTS
    Workers,      \* worker processes
    Processors,   \* their concurrency slots (WORKER_CONCURRENCY each)
    WorkerOf,     \* the process a slot belongs to
    Requests,     \* operator requests that may be in flight at once
    NoDelivery,   \* the Delivery of an idle processor or request
    FaultKinds,   \* the faults that may happen
    MaxFaults,    \* bound: how many of them
    MaxRetries    \* bound: operator retries of one Delivery

AllFaultKinds == {"database", "redis", "crash", "lock", "api", "shutdown", "delete"}

ASSUME PipelineAssumption ==
    /\ WorkerOf \in [Processors -> Workers]
    /\ NoDelivery \notin Deliveries
    /\ IsFiniteSet(Processors)
    /\ NoLock \notin Processors
    /\ FaultKinds \subseteq AllFaultKinds
    /\ MaxFaults \in Nat
    /\ MaxRetries \in Nat

VARIABLES
    status,        \* delivery.status, or "absent" once the row is deleted
    attemptCount,  \* delivery.attempt_count
    attempts,      \* the attempt rows of each Delivery
    job,           \* the BullMQ job of each Delivery
    processor,     \* the local state of each processDelivery call
    worker,        \* each worker process: "running", or "closing" after SIGTERM
    fanOut,        \* the request that accepted the Broadcast
    request,       \* the operator requests
    posts,         \* history: POSTs sent for each Delivery
    retries,       \* history: operator retries committed for each Delivery
    faults         \* history: faults so far

vars == <<status, attemptCount, attempts, job, processor, worker, fanOut,
          request, posts, retries, faults>>

rowVars == <<status, attemptCount, attempts>>
apiVars == <<fanOut, request, retries>>

\* Where a processDelivery call stands; the last three are its result on the
\* way to BullMQ: it returned, threw a RetryableDeliveryError, or threw.
CallSteps == {"get", "mark", "recheck", "fetch", "complete", "reset", "autoDisable"}
Results == {"returned", "retryable", "threw"}

Idle == [at |-> "idle", delivery |-> NoDelivery, seen |-> 0, outcome |-> "none"]
Quiet == [at |-> "idle", delivery |-> NoDelivery]

\* Deleting rows of `delivery` takes their `attempt` rows along.
CascadeDelete(D) ==
    /\ status' = [d \in Deliveries |-> IF d \in D THEN "absent" ELSE status[d]]
    /\ attemptCount' = [d \in Deliveries |-> IF d \in D THEN 0 ELSE attemptCount[d]]
    /\ attempts' = [d \in Deliveries |-> IF d \in D THEN {} ELSE attempts[d]]

At(p, step) == processor[p].at = step
Goto(p, step) == processor' = [processor EXCEPT ![p].at = step]
Target(p) == processor[p].delivery

TypeOK ==
    /\ status \in [Deliveries -> Status]
    /\ attemptCount \in [Deliveries -> Nat]
    /\ attempts \in [Deliveries -> SUBSET Attempt]
    /\ job \in [Deliveries -> [state : JobStates, lock : Processors \cup {NoLock},
                               made : Nat, stalls : Nat]]
    /\ processor \in [Processors -> [at : {"idle"} \cup CallSteps \cup Results,
                                     delivery : Deliveries \cup {NoDelivery},
                                     seen : Nat,
                                     outcome : Outcomes \cup {"none"}]]
    /\ worker \in [Workers -> {"running", "closing"}]
    /\ fanOut \in {"enqueue", "rollback", "done"}
    /\ request \in [Requests -> [at : {"idle", "read", "check", "remove", "add"},
                                 delivery : Deliveries \cup {NoDelivery}]]
    /\ posts \in [Deliveries -> Nat]
    /\ retries \in [Deliveries -> Nat]
    /\ faults \in Nat
    /\ \A p \in Processors :
        /\ At(p, "idle") <=> Target(p) = NoDelivery
        /\ At(p, "complete") => processor[p].outcome # "none"
    /\ \A r \in Requests : request[r].at = "idle" <=> request[r].delivery = NoDelivery

\* fanOutBroadcast just committed its transaction: the rows are there, the
\* jobs are not.
Init ==
    /\ status = [d \in Deliveries |-> "pending"]
    /\ attemptCount = [d \in Deliveries |-> 0]
    /\ attempts = [d \in Deliveries |-> {}]
    /\ job = [d \in Deliveries |-> NoJob]
    /\ processor = [p \in Processors |-> Idle]
    /\ worker = [w \in Workers |-> "running"]
    /\ fanOut = "enqueue"
    /\ request = [r \in Requests |-> Quiet]
    /\ posts = [d \in Deliveries |-> 0]
    /\ retries = [d \in Deliveries |-> 0]
    /\ faults = 0

Fault(kind) ==
    /\ kind \in FaultKinds
    /\ faults < MaxFaults
    /\ faults' = faults + 1

-----------------------------------------------------------------------------
(* The API process.                                                        *)

\* enqueueBulk: the ids are fresh, so removeFinishedJob finds nothing, and the
\* one addBulk transaction adds every job.
EnqueueBulk ==
    /\ fanOut = "enqueue"
    /\ job' = [d \in Deliveries |-> AddJob(job[d])]
    /\ \/ fanOut' = "done" /\ UNCHANGED faults
       \/ fanOut' = "rollback" /\ Fault("redis")      \* applied, reply lost
    /\ UNCHANGED <<rowVars, processor, worker, request, posts, retries>>

EnqueueBulkFails ==
    /\ fanOut = "enqueue"
    /\ Fault("redis")
    /\ fanOut' = "rollback"
    /\ UNCHANGED <<rowVars, job, processor, worker, request, posts, retries>>

\* The catch block: deleteBroadcastById, cascading to Deliveries and Attempts.
RollBack ==
    /\ fanOut = "rollback"
    /\ fanOut' = "done"
    /\ \/ CascadeDelete(Deliveries) /\ UNCHANGED faults
       \/ UNCHANGED rowVars /\ Fault("database")
    /\ UNCHANGED <<job, processor, worker, request, posts, retries>>

\* POST /deliveries/:id/retry, one call at a time; the UPDATE is guarded on
\* the status, so that a second request finds nothing to do.
\* Mutant: the UPDATE's guard lets a failed Delivery through.
CanRetry_AnyFailure(s) == s \in {"failed", "dead_lettered"}

CanRetry(s) == s = "dead_lettered"

RetryDeadLettered(r, d) ==
    /\ request[r].at = "idle"
    /\ retries[d] < MaxRetries
    /\ CanRetry(status[d])
    /\ status' = [status EXCEPT ![d] = "pending"]
    /\ retries' = [retries EXCEPT ![d] = @ + 1]
    /\ request' = [request EXCEPT ![r] = [at |-> "read", delivery |-> d]]
    /\ UNCHANGED <<attemptCount, attempts, job, processor, worker, fanOut, posts, faults>>

ReadDetail(r) ==
    /\ request[r].at = "read"
    /\ request' = [request EXCEPT ![r] =
                       IF status[request[r].delivery] = "absent"
                       THEN Quiet ELSE [@ EXCEPT !.at = "check"]]
    /\ UNCHANGED <<rowVars, job, processor, worker, fanOut, posts, retries, faults>>

\* removeFinishedJob: getJob and getState, then remove.
CheckJob(r) ==
    /\ request[r].at = "check"
    /\ request' = [request EXCEPT ![r].at =
                       IF job[request[r].delivery].state \in {"completed", "failed"}
                       THEN "remove" ELSE "add"]
    /\ UNCHANGED <<rowVars, job, processor, worker, fanOut, posts, retries, faults>>

RemoveFinishedJob(r) ==
    /\ request[r].at = "remove"
    /\ job' = [job EXCEPT ![request[r].delivery] = RemoveJob(@)]
    /\ request' = [request EXCEPT ![r].at = "add"]
    /\ UNCHANGED <<rowVars, processor, worker, fanOut, posts, retries, faults>>

Enqueue(r) ==
    /\ request[r].at = "add"
    /\ job' = [job EXCEPT ![request[r].delivery] = AddJob(@)]
    /\ request' = [request EXCEPT ![r] = Quiet]
    /\ UNCHANGED <<rowVars, processor, worker, fanOut, posts, retries, faults>>

\* A database or Redis call of the request fails: a 500, and what was done stays.
RequestFails(r) ==
    /\ request[r].at # "idle"
    /\ Fault(IF request[r].at = "read" THEN "database" ELSE "redis")
    /\ request' = [request EXCEPT ![r] = Quiet]
    /\ UNCHANGED <<rowVars, job, processor, worker, fanOut, posts, retries>>

\* The API process dies, and every request with it.
ApiDies ==
    /\ fanOut # "done" \/ \E r \in Requests : request[r] # Quiet
    /\ Fault("api")
    /\ fanOut' = "done"
    /\ request' = [r \in Requests |-> Quiet]
    /\ UNCHANGED <<rowVars, job, processor, worker, posts, retries>>

-----------------------------------------------------------------------------
(* A worker's processor: BullMQ hands it a job, it runs processDelivery.   *)

Take(p, d) ==
    /\ processor[p].at = "idle"
    /\ worker[WorkerOf[p]] = "running"
    /\ job[d].state = "wait"
    /\ job' = [job EXCEPT ![d] = TakeJob(@, p)]
    /\ processor' = [processor EXCEPT ![p] = [Idle EXCEPT !.at = "get", !.delivery = d]]
    /\ UNCHANGED <<rowVars, worker, apiVars, posts, faults>>

\* The process still has its connection pool: shutdown ends the pool without
\* waiting for worker.close().
PoolOpen(p) == worker[WorkerOf[p]] = "running"

\* A database call of p rejects, for the pool's end or for the database's.
Rejects(p) ==
    \/ ~PoolOpen(p) /\ UNCHANGED faults
    \/ PoolOpen(p) /\ Fault("database")

\* The call was made and applied; its reply arrived, or was lost.
Replies(p, ok, lost) ==
    /\ PoolOpen(p)
    /\ \/ Goto(p, ok) /\ UNCHANGED faults
       \/ Goto(p, lost) /\ Fault("database")

GetDelivery(p) ==
    LET d == Target(p)
    IN  /\ At(p, "get")
        /\ PoolOpen(p)
        /\ \/ /\ status[d] \in OpenStatus
              /\ processor' = [processor EXCEPT ![p].at = "mark",
                                                ![p].seen = attemptCount[d]]
           \/ status[d] \notin OpenStatus /\ Goto(p, "returned")
        /\ UNCHANGED <<rowVars, job, worker, apiVars, posts, faults>>

\* markDeliveryInProgress: the guarded UPDATE, and when it matches no row the
\* SELECT that admits an in_progress Delivery, a second statement.
MarkInProgress(p) ==
    /\ At(p, "mark")
    /\ status[Target(p)] = "pending"
    /\ status' = [status EXCEPT ![Target(p)] = "in_progress"]
    /\ Replies(p, "fetch", "threw")
    /\ UNCHANGED <<attemptCount, attempts, job, worker, apiVars, posts>>

MarkMisses(p) ==
    /\ At(p, "mark")
    /\ PoolOpen(p)
    /\ status[Target(p)] # "pending"
    /\ Goto(p, "recheck")
    /\ UNCHANGED <<rowVars, job, worker, apiVars, posts, faults>>

\* Mutant: a Delivery left in_progress by a dead worker is not re-admitted.
Readmits_Never(s) == FALSE

Readmits(s) == s = "in_progress"

Recheck(p) ==
    /\ At(p, "recheck")
    /\ PoolOpen(p)
    /\ Goto(p, IF Readmits(status[Target(p)]) THEN "fetch" ELSE "returned")
    /\ UNCHANGED <<rowVars, job, worker, apiVars, posts, faults>>

\* The POST and its outcome; a timeout or a network error is "transient".
Fetch(p) ==
    /\ At(p, "fetch")
    /\ \E o \in Outcomes :
         processor' = [processor EXCEPT ![p].at = "complete", ![p].outcome = o]
    /\ posts' = [posts EXCEPT ![Target(p)] = @ + 1]
    /\ UNCHANGED <<rowVars, job, worker, apiVars, faults>>

\* completeDelivery's transaction is refused: the Attempt row would break its
\* foreign key, or the unique (delivery_id, n).
\* Mutant: the number of the Attempt before.
AttemptNumber_OffByOne(p) == processor[p].seen

AttemptNumber(p) == processor[p].seen + 1

\* Mutant: an index on (delivery_id, n) that is not unique.
Refused_NoUniqueIndex(p) == status[Target(p)] = "absent"

Refused(p) ==
    \/ status[Target(p)] = "absent"
    \/ \E a \in attempts[Target(p)] : a.n = AttemptNumber(p)

\* Mutant: the status itself is handed to BullMQ.
ResultOf_Status(s) == IF s = "succeeded" THEN "returned" ELSE s

ResultOf(s) ==
    CASE s = "succeeded" -> "returned"
      [] s \in {"failed", "dead_lettered"} -> "autoDisable"
      [] s = "pending" -> "retryable"

\* The UPDATE has no guard on the status it replaces.
Complete(p) ==
    LET d == Target(p)
        n == AttemptNumber(p)
        o == processor[p].outcome
        s == StatusAfter(o, n)
    IN  /\ At(p, "complete")
        /\ ~Refused(p)
        /\ attempts' = [attempts EXCEPT ![d] = @ \cup {[n |-> n, outcome |-> o]}]
        /\ status' = [status EXCEPT ![d] = s]
        /\ attemptCount' = [attemptCount EXCEPT ![d] = n]
        /\ Replies(p, ResultOf(s), "reset")
        /\ UNCHANGED <<job, worker, apiVars, posts>>

CompleteFails(p) ==
    /\ At(p, "complete")
    /\ \/ Refused(p) /\ PoolOpen(p) /\ UNCHANGED faults
       \/ Rejects(p)
    /\ Goto(p, "reset")
    /\ UNCHANGED <<rowVars, job, worker, apiVars, posts>>

\* resetInProgressDeliveryToPending, in finishAttempt's catch block.
\* Mutant: the reset's UPDATE forgets its guard on in_progress.
Released_Unguarded(s) == "pending"

Released(s) == IF s = "in_progress" THEN "pending" ELSE s

Reset(p) ==
    LET d == Target(p)
    IN  /\ At(p, "reset")
        /\ status' = [status EXCEPT ![d] = Released(@)]
        /\ Replies(p, "retryable", "threw")
        /\ UNCHANGED <<attemptCount, attempts, job, worker, apiVars, posts>>

\* maybeAutoDisableEndpoint, after a failed or dead-lettered outcome; what it
\* does to the Endpoint changes nothing here.
AutoDisable(p) ==
    /\ At(p, "autoDisable")
    /\ PoolOpen(p)
    /\ Goto(p, "returned")
    /\ UNCHANGED <<rowVars, job, worker, apiVars, posts, faults>>

\* A database call outside finishAttempt's try block rejects: so does the job.
CallRejects(p) ==
    /\ processor[p].at \in {"get", "mark", "recheck", "reset", "autoDisable"}
    /\ Rejects(p)
    /\ Goto(p, "threw")
    /\ UNCHANGED <<rowVars, job, worker, apiVars, posts>>

\* The processor tells BullMQ the result, if it still holds the job's lock.
Settle(p) ==
    LET d == Target(p)
    IN  /\ processor[p].at \in Results
        /\ job' = [job EXCEPT ![d] =
                       CASE At(p, "returned")  -> CompleteJob(@, p)
                         [] At(p, "retryable") -> RetryJob(@, p)
                         [] At(p, "threw")     -> FailJob(@, p)]
        /\ processor' = [processor EXCEPT ![p] = Idle]
        /\ UNCHANGED <<rowVars, worker, apiVars, posts, faults>>

\* Redis does not answer: the job stays active, and its lock is renewed no more.
SettleFails(p) ==
    /\ processor[p].at \in Results
    /\ Fault("redis")
    /\ job' = [job EXCEPT ![Target(p)] = DropLock(@, {p})]
    /\ processor' = [processor EXCEPT ![p] = Idle]
    /\ UNCHANGED <<rowVars, worker, apiVars, posts>>

Call(p) ==
    \/ GetDelivery(p) \/ MarkInProgress(p) \/ MarkMisses(p) \/ Recheck(p)
    \/ Fetch(p) \/ Complete(p) \/ CompleteFails(p) \/ Reset(p)
    \/ AutoDisable(p) \/ CallRejects(p) \/ Settle(p) \/ SettleFails(p)

-----------------------------------------------------------------------------
(* BullMQ's own steps, and what happens to processes and rows.             *)

Promote(d) ==
    /\ job[d].state = "delayed"
    /\ job' = [job EXCEPT ![d] = PromoteJob(@)]
    /\ UNCHANGED <<rowVars, processor, worker, apiVars, posts, faults>>

\* The lock of an active job expired: its process died, or a live one failed
\* to renew it in time and keeps running the call unaware.
Stall(d) ==
    /\ job[d].state = "active"
    /\ \/ job[d].lock = NoLock /\ UNCHANGED faults
       \/ job[d].lock # NoLock /\ Fault("lock")
    /\ job' = [job EXCEPT ![d] = StallJob(@)]
    /\ UNCHANGED <<rowVars, processor, worker, apiVars, posts>>

SlotsOf(w) == {p \in Processors : WorkerOf[p] = w}

\* The process dies and is restarted: its calls are gone, its locks expire.
Crash(w) ==
    /\ \E p \in SlotsOf(w) : ~At(p, "idle")
    /\ Fault("crash")
    /\ processor' = [p \in Processors |-> IF p \in SlotsOf(w) THEN Idle ELSE processor[p]]
    /\ job' = [d \in Deliveries |-> DropLock(job[d], SlotsOf(w))]
    /\ worker' = [worker EXCEPT ![w] = "running"]
    /\ UNCHANGED <<rowVars, apiVars, posts>>

\* SIGTERM: no new jobs, and the pool is ended at once.
Shutdown(w) ==
    /\ worker[w] = "running"
    /\ Fault("shutdown")
    /\ worker' = [worker EXCEPT ![w] = "closing"]
    /\ UNCHANGED <<rowVars, job, processor, apiVars, posts>>

\* worker.close() resolved with the last call: exit, and the next process.
Restart(w) ==
    /\ worker[w] = "closing"
    /\ \A p \in SlotsOf(w) : At(p, "idle")
    /\ worker' = [worker EXCEPT ![w] = "running"]
    /\ UNCHANGED <<rowVars, job, processor, apiVars, posts, faults>>

\* The retention sweeper drops the Broadcast, or an operator deletes one
\* Delivery's Endpoint; the jobs stay in Redis.
DeleteRows ==
    /\ Fault("delete")
    /\ \/ CascadeDelete(Deliveries)
       \/ \E d \in Deliveries : CascadeDelete({d})
    /\ UNCHANGED <<job, processor, worker, apiVars, posts>>

-----------------------------------------------------------------------------

RequestStep(r) ==
    ReadDetail(r) \/ CheckJob(r) \/ RemoveFinishedJob(r) \/ Enqueue(r)

FanOut == EnqueueBulk \/ EnqueueBulkFails \/ RollBack

Next ==
    \/ FanOut
    \/ ApiDies
    \/ \E r \in Requests :
        \/ \E d \in Deliveries : RetryDeadLettered(r, d)
        \/ RequestStep(r)
        \/ RequestFails(r)
    \/ \E p \in Processors, d \in Deliveries : Take(p, d)
    \/ \E p \in Processors : Call(p)
    \/ \E d \in Deliveries : Promote(d) \/ Stall(d)
    \/ \E w \in Workers : Crash(w) \/ Shutdown(w) \/ Restart(w)
    \/ DeleteRows

Spec == Init /\ [][Next]_vars

\* What the code's scheduling guarantees: awaited calls return (the POST by
\* its timeout), the API's event loop goes on, BullMQ promotes due jobs and
\* runs its stalled check, an orchestrator restarts a process, and the wait
\* list is first in, first out, so that a waiting job gets a slot when slots
\* come free again and again.
Fairness ==
    /\ WF_vars(FanOut)
    /\ \A r \in Requests : WF_vars(RequestStep(r))
    /\ \A p \in Processors : WF_vars(Call(p))
    /\ \A d \in Deliveries :
        /\ SF_vars(\E p \in Processors : Take(p, d))
        /\ WF_vars(Promote(d))
        /\ WF_vars(Stall(d) /\ UNCHANGED faults)
    /\ \A w \in Workers : WF_vars(Restart(w))

FairSpec == Spec /\ Fairness
-----------------------------------------------------------------------------
(* Safety.                                                                 *)

Present(d) == status[d] # "absent"

\* The Attempts of a Delivery are numbered 1 to attempt_count, each number
\* once, however many processors worked on it: a stale processor's insert is
\* refused by the unique (delivery_id, n) and takes the status with it.
AttemptsNumbered ==
    \A d \in Deliveries :
        /\ {a.n : a \in attempts[d]} = 1..attemptCount[d]
        /\ \A a, b \in attempts[d] : a.n = b.n => a = b

\* The status tells the truth about the recorded Attempts: a Delivery is
\* succeeded or failed exactly when it has a 2xx or a non-retryable Attempt,
\* that Attempt is its last, and every earlier one called for a retry.
StatusExplained ==
    \A d \in Deliveries : Present(d) =>
        /\ (status[d] = "succeeded") <=> (\E a \in attempts[d] : a.outcome = "ok")
        /\ (status[d] = "failed") <=> (\E a \in attempts[d] : a.outcome = "permanent")
        /\ \A a \in attempts[d] : a.n < attemptCount[d] => a.outcome = "transient"

\* A call still on its way to completeDelivery either has read the row as it
\* is, and then the Delivery is open, or is behind, and then its Attempt
\* number is taken: no write is based on a stale read, without any lock.
NoStaleWrite ==
    \A p \in Processors :
        /\ processor[p].at \in {"mark", "recheck", "fetch", "complete"}
        /\ Present(Target(p))
        => /\ processor[p].seen <= attemptCount[Target(p)]
           /\ processor[p].seen = attemptCount[Target(p)] => status[Target(p)] \in OpenStatus

\* A Delivery is tried MaxAttempts times and once more per operator retry,
\* never beyond, and is dead-lettered exactly when that allowance is used up.
AttemptBudget ==
    \A d \in Deliveries : Present(d) =>
        LET budget == MaxAttempts + retries[d]
        IN  /\ attemptCount[d] <= budget
            /\ status[d] \in OpenStatus =>
                /\ attemptCount[d] < budget
                /\ retries[d] > 0 => attemptCount[d] = budget - 1
            /\ status[d] = "dead_lettered" => attemptCount[d] = budget

\* The Endpoint sees a POST that no Attempt records only at the price of a
\* fault each: duplicates are bounded by the crashes and losses, whatever the
\* retries, the redeliveries and the processors racing each other.
DuplicatesBounded ==
    \A d \in Deliveries : Present(d) =>
        posts[d] <= attemptCount[d] + faults
            + Cardinality({p \in Processors : Target(p) = d /\ At(p, "complete")})

\* While no live processor loses a lock, two of them never work on the same
\* Delivery, operator retries and restarts included.
ExclusiveProcessing ==
    \A p, q \in Processors : p # q /\ Target(p) # NoDelivery => Target(p) # Target(q)

\* Something will still move an open Delivery: its job will run, a processor
\* works on it, or a request is about to enqueue it.
Attended(d) ==
    \/ job[d].state \in LiveJobStates
    \/ fanOut # "done"
    \/ \E p \in Processors : Target(p) = d
    \/ \E r \in Requests : request[r].delivery = d

\* No Delivery is left pending or in_progress with nothing that will ever
\* move it: there is no reconciler, and the retry route answers 409.
NoStrandedDelivery ==
    \A d \in Deliveries : status[d] \in OpenStatus => Attended(d)

\* A processDelivery call that tried the Endpoint and then fails without asking
\* BullMQ for a retry has at least recorded its Attempt (worker/errors.ts: a
\* failure to persist the outcome "is retryable on every path").
PersistFailureRetried ==
    \A p \in Processors :
        At(p, "threw") /\ processor[p].outcome # "none" /\ Present(Target(p))
        => \E a \in attempts[Target(p)] : a.n = AttemptNumber(p)

\* The inductive invariant: none of its conjuncts is inductive on its own.
IInv == TypeOK /\ AttemptsNumbered /\ StatusExplained /\ NoStaleWrite /\ AttemptBudget

-----------------------------------------------------------------------------
(* Action properties, refinement and liveness.                             *)

\* A succeeded or failed Delivery keeps its status and its Attempts until it
\* is deleted, though completeDelivery's UPDATE does not look at the status.
FinishedStaysFinished ==
    [][\A d \in Deliveries : status[d] \in FinalStatus =>
          \/ status'[d] = status[d] /\ attempts'[d] = attempts[d]
          \/ status'[d] = "absent"]_rowVars

\* What readers of the rows are promised, as a specification of its own.
Lifecycle == INSTANCE DeliveryLifecycle
             WITH status <- status, attemptCount <- attemptCount, attempts <- attempts
LifecycleSpec == Lifecycle!Spec

\* Every Delivery comes to an end.
EveryDeliveryEnds ==
    \A d \in Deliveries : <>(status[d] \notin OpenStatus)
=============================================================================
