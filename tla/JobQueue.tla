------------------------------ MODULE JobQueue ------------------------------
(***************************************************************************)
(* BullMQ as apps/api/src uses it, one job per id: deliveryQueue.ts adds a *)
(* job under `jobId: deliveryId`, worker.ts runs it and answers a failed   *)
(* run with a backoff (or -1, no backoff).  BullMQ itself is a library: the *)
(* operators below are what the code and docs/research/redis-delivery-     *)
(* queue.md sections 3 and 4 rely on, and they are marked external, but    *)
(* for the options this repository chooses.                                *)
(*                                                                         *)
(* A job is a record.  `lock` is the processor that holds its lock (NoLock *)
(* when nobody renews it), `made` counts the runs that ended in a throw    *)
(* and `stalls` the times the job was found active without a live lock.    *)
(***************************************************************************)
EXTENDS Naturals

CONSTANTS
    JobAttempts,      \* `attempts` given to the job when it was added
    MaxStalledCount,  \* stalls a job survives; BullMQ's default is 1
    NoLock            \* the lock of a job nobody holds

ASSUME JobQueueAssumption ==
    /\ JobAttempts \in Nat \ {0}
    /\ MaxStalledCount \in Nat

JobStates == {"none", "wait", "delayed", "active", "completed", "failed"}

\* States in which the queue will still run, or is running, the job.
LiveJobStates == {"wait", "delayed", "active"}

NoJob == [state |-> "none", lock |-> NoLock, made |-> 0, stalls |-> 0]

\* Mutant: jobs added without a jobId, so that nothing is deduplicated.
AddJob_NoDedup(j) == [NoJob EXCEPT !.state = "wait"]

\* `add` with a custom id: a job that exists, in any state, is left alone.
AddJob(j) == IF j.state = "none" THEN [NoJob EXCEPT !.state = "wait"] ELSE j

\* `remove` takes a job out in any state but `active`, where it is locked.
RemoveJob(j) == IF j.state = "active" THEN j ELSE NoJob

TakeJob(j, p) == [j EXCEPT !.state = "active", !.lock = p]

PromoteJob(j) == [j EXCEPT !.state = "wait"]

\* A processor may only move a job whose lock it still holds.
HoldsLock(j, p) == j.state = "active" /\ j.lock = p

CompleteJob(j, p) ==
    IF HoldsLock(j, p) THEN [j EXCEPT !.state = "completed", !.lock = NoLock] ELSE j

\* The run threw and backoffStrategy answered -1: no retry.
FailJob(j, p) ==
    IF HoldsLock(j, p)
    THEN [j EXCEPT !.state = "failed", !.lock = NoLock, !.made = @ + 1]
    ELSE j

\* The run threw and backoffStrategy answered a delay: retried while the
\* throws so far stay below `attempts`.
RetryJob(j, p) ==
    IF HoldsLock(j, p) /\ j.made + 1 < JobAttempts
    THEN [j EXCEPT !.state = "delayed", !.lock = NoLock, !.made = @ + 1]
    ELSE FailJob(j, p)

\* The stalled check found the job active and its lock expired.
StallJob(j) ==
    [j EXCEPT !.state = IF j.stalls + 1 > MaxStalledCount THEN "failed" ELSE "wait",
              !.lock = NoLock,
              !.stalls = @ + 1]

\* A dead process renews no lock.
DropLock(j, procs) == IF j.lock \in procs THEN [j EXCEPT !.lock = NoLock] ELSE j
=============================================================================
