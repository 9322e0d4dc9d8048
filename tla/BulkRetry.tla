------------------------------- MODULE BulkRetry -------------------------------
(***************************************************************************)
(* The confirmed retry of all dead-lettered Deliveries of a Broadcast,     *)
(* request by request, with its report, while polls are late, other        *)
(* operators retry the same Deliveries and the worker buries them again.   *)
(***************************************************************************)
EXTENDS Integers, FiniteSets

CONSTANTS
    Deliveries,
    None,         \* null, or nothing under way
    MaxRetries    \* bound on the retries the API accepts

BulkAssumption ==
    /\ None \notin {"fulfilled", "rejected"} /\ MaxRetries \in Nat
    /\ \A asked \in SUBSET Deliveries : None \notin [asked -> {None, "fulfilled", "rejected"}]

VARIABLES
    dead,        \* the dead-lettered Deliveries, as the API has them
    deadLettered,\* the same as the panel was last told
    poll,        \* a Broadcast detail on its way
    confirming, retrying,
    results,     \* the calls of the batch under way: None, or what each came to
    outcomes,    \* the report
    queued,      \* history: what this batch's calls queued and said so
    retries

vars == <<dead, deadLettered, poll, confirming, retrying, results, outcomes, queued, retries>>

Init ==
    /\ dead \in SUBSET Deliveries /\ deadLettered = dead /\ poll = None
    /\ confirming = FALSE /\ retrying = FALSE
    /\ results = None /\ outcomes = None /\ queued = {} /\ retries = 0

OthersRetry(d) ==
    /\ d \in dead /\ retries < MaxRetries
    /\ dead' = dead \ {d} /\ retries' = retries + 1
    /\ UNCHANGED <<deadLettered, poll, confirming, retrying, results, outcomes, queued>>

\* A retried Delivery spends its one Attempt and is dead-lettered again.
Redead(d) ==
    /\ d \notin dead
    /\ dead' = dead \cup {d}
    /\ UNCHANGED <<deadLettered, poll, confirming, retrying, results, outcomes, queued, retries>>

-----------------------------------------------------------------------------
(* BulkRetryDeadLettered.                                                  *)

\* With its trigger, shown while there are dead letters.
OpenBulk ==
    /\ ~confirming /\ deadLettered # {}
    /\ confirming' = TRUE
    /\ UNCHANGED <<dead, deadLettered, poll, retrying, results, outcomes, queued, retries>>

\* Cancel is disabled while it retries, Escape is not.
CancelBulk ==
    /\ confirming /\ deadLettered # {}
    /\ confirming' = FALSE
    /\ UNCHANGED <<dead, deadLettered, poll, retrying, results, outcomes, queued, retries>>

ConfirmBulk ==
    /\ confirming /\ deadLettered # {} /\ ~retrying
    /\ retrying' = TRUE
    /\ results' = [d \in deadLettered |-> None]
    /\ queued' = {}
    /\ UNCHANGED <<dead, deadLettered, poll, confirming, outcomes, retries>>

\* POST /deliveries/:deliveryId/retry: answered, refused or failed, or done with
\* its answer lost.
RetryOne(d) ==
    /\ results # None /\ d \in DOMAIN results /\ results[d] = None
    /\ \/ /\ d \in dead /\ retries < MaxRetries
          /\ dead' = dead \ {d} /\ retries' = retries + 1
          /\ results' = [results EXCEPT ![d] = "fulfilled"]
          /\ queued' = queued \cup {d}
       \/ /\ results' = [results EXCEPT ![d] = "rejected"]
          /\ \/ UNCHANGED <<dead, retries>>
             \/ d \in dead /\ retries < MaxRetries /\ dead' = dead \ {d} /\ retries' = retries + 1
          /\ UNCHANGED queued
    /\ UNCHANGED <<deadLettered, poll, confirming, retrying, outcomes>>

\* Mutant: one rejection is everybody's, as with Promise.all.
Report_All ==
    LET ok == \A d \in DOMAIN results : results[d] = "fulfilled"
    IN [d \in DOMAIN results |-> ok]

Report == [d \in DOMAIN results |-> results[d] = "fulfilled"]

\* allSettled, then onSettled's refetch, which replaces a poll on its way.
Settle ==
    /\ results # None /\ \A d \in DOMAIN results : results[d] # None
    /\ outcomes' = Report
    /\ retrying' = FALSE /\ confirming' = FALSE /\ results' = None
    /\ poll' = [dead |-> dead]
    /\ UNCHANGED <<dead, deadLettered, queued, retries>>

Poll ==
    /\ poll = None /\ poll' = [dead |-> dead]
    /\ UNCHANGED <<dead, deadLettered, confirming, retrying, results, outcomes, queued, retries>>

\* Mutant: the section is mounted only while there are dead letters.
Mounted_WithDead == deadLettered' # {}

Mounted == TRUE

PollLands ==
    /\ poll # None /\ poll' = None
    /\ deadLettered' = poll.dead
    /\ IF Mounted THEN UNCHANGED <<confirming, outcomes>>
       ELSE confirming' = FALSE /\ outcomes' = None
    /\ UNCHANGED <<dead, retrying, results, queued, retries>>

Next ==
    \/ \E d \in Deliveries : OthersRetry(d) \/ Redead(d) \/ RetryOne(d)
    \/ OpenBulk \/ CancelBulk \/ ConfirmBulk \/ Settle \/ Poll \/ PollLands

Spec == Init /\ [][Next]_vars
-----------------------------------------------------------------------------
(* Properties.                                                             *)

TypeOK ==
    /\ dead \subseteq Deliveries /\ deadLettered \subseteq Deliveries
    /\ {confirming, retrying} \subseteq BOOLEAN
    /\ results # None => DOMAIN results \subseteq Deliveries
    /\ (results # None) = retrying
    /\ outcomes # None => DOMAIN outcomes \subseteq Deliveries
    /\ queued \subseteq Deliveries /\ retries \in 0..MaxRetries

\* The report says "queued" of exactly the Deliveries whose calls queued them
\* and said so, whichever others failed and whoever else retried them meanwhile.
ReportTrue ==
    (outcomes # None /\ ~retrying) => {d \in DOMAIN outcomes : outcomes[d]} = queued

ReportStandsStep == outcomes # None => (outcomes' = outcomes \/ Settle)

\* A report stays until the next batch's takes its place, also when the
\* Deliveries it is about are dead letters no more.
ReportStands == [][ReportStandsStep]_vars

=============================================================================
