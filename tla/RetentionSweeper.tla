--------------------------- MODULE RetentionSweeper ---------------------------
(***************************************************************************)
(* The retention sweep inside the worker: one when it boots, then one to   *)
(* each interval, whether or not the last one has ended. A sweep's cutoff  *)
(* is of the moment it was started; its DELETE comes when it comes, or     *)
(* fails. Stopping ends the interval and not the sweeps under way.         *)
(***************************************************************************)
EXTENDS Integers, FiniteSets

CONSTANTS
    Broadcasts,
    Windows,      \* the HISTORY_RETENTION_DAYS a worker may be started with
    Interval,
    MaxTime,      \* bound on the clock
    MaxSweeps,    \* bound on the sweeps of one process
    MaxUnderWay,  \* bound on the sweeps under way at once
    Never

RetentionAssumption ==
    /\ Windows \subseteq Nat \ {0} /\ Interval \in Nat \ {0} /\ Never \notin Int
    /\ MaxTime \in Nat /\ MaxSweeps \in Nat \ {0}

VARIABLES
    now,
    received,     \* received[b]: receivedAt of the row, or Never
    window,       \* of the worker that is up, or was last
    up,
    due,          \* the interval's next tick, or Never
    sweeps,       \* the sweeps under way
    count,        \* sweeps this worker has started
    swept         \* history: the last of its own sweeps that has succeeded, or 0

vars == <<now, received, window, up, due, sweeps, count, swept>>
worker == <<window, up, due, sweeps, count, swept>>

Init ==
    /\ now = 0 /\ received = [b \in Broadcasts |-> Never]
    /\ window \in Windows /\ up = FALSE /\ due = Never
    /\ sweeps = {} /\ count = 0 /\ swept = 0

Receive(b) ==
    /\ received[b] = Never
    /\ received' = [received EXCEPT ![b] = now]
    /\ UNCHANGED <<now, worker>>

Sweep(days, n) == [cutoff |-> now - days, days |-> days, n |-> n]

\* Mutant: the first sweep waits for the first interval.
AtBoot_Nothing(days) == {}

\* startRetentionSweeper prunes once before it sets the interval.
AtBoot(days) == {Sweep(days, 1)}

Boot(days) ==
    /\ ~up /\ Cardinality(sweeps) < MaxUnderWay /\ up' = TRUE /\ window' = days
    /\ sweeps' = sweeps \cup AtBoot(days)
    /\ count' = IF AtBoot(days) = {} THEN 0 ELSE 1
    /\ due' = now + Interval
    /\ swept' = 0
    /\ UNCHANGED <<now, received>>

Tick ==
    /\ due = now /\ count < MaxSweeps /\ Cardinality(sweeps) < MaxUnderWay
    /\ sweeps' = sweeps \cup {Sweep(window, count + 1)}
    /\ count' = count + 1
    /\ due' = now + Interval
    /\ UNCHANGED <<now, received, window, up, swept>>

\* Mutant: up to the cutoff and with it.
Older_OrEqual(b, cutoff) == received[b] # Never /\ received[b] <= cutoff

\* deleteBroadcastsReceivedBefore, strictly.
Older(b, cutoff) == received[b] # Never /\ received[b] < cutoff

SweepDeletes(s) ==
    /\ s \in sweeps /\ sweeps' = sweeps \ {s}
    /\ received' = [b \in Broadcasts |-> IF Older(b, s.cutoff) THEN Never ELSE received[b]]
    /\ swept' = IF s.n > swept THEN s.n ELSE swept
    /\ UNCHANGED <<now, window, up, due, count>>

\* It is logged, and the interval goes on.
SweepFails(s) ==
    /\ s \in sweeps /\ sweeps' = sweeps \ {s}
    /\ UNCHANGED <<now, received, window, up, due, count, swept>>

\* SIGTERM or a crash. A statement already sent may still be carried out, for
\* a process that is no more: 0.
Stop ==
    /\ up /\ up' = FALSE /\ due' = Never
    /\ sweeps' = {[s EXCEPT !.n = 0] : s \in sweeps}
    /\ UNCHANGED <<now, received, window, count, swept>>

\* Timers are not late.
Pass ==
    /\ due # now /\ now < MaxTime /\ now' = now + 1
    /\ UNCHANGED <<received, worker>>

Next ==
    \/ \E b \in Broadcasts : Receive(b)
    \/ \E days \in Windows : Boot(days)
    \/ Tick \/ Stop \/ Pass
    \/ \E s \in sweeps : SweepDeletes(s) \/ SweepFails(s)

Spec == Init /\ [][Next]_vars
-----------------------------------------------------------------------------
(* Properties.                                                             *)

TypeOK ==
    /\ now \in 0..MaxTime /\ received \in [Broadcasts -> 0..MaxTime \cup {Never}]
    /\ window \in Windows /\ up \in BOOLEAN
    /\ due # Never => due \in 0..(MaxTime + Interval)
    /\ \A s \in sweeps : s.days \in Windows /\ s.n \in 0..MaxSweeps
    /\ count \in 0..MaxSweeps /\ swept \in 0..count

NothingYoungSweptStep ==
    \A b \in Broadcasts, s \in sweeps :
       received[b] # Never /\ received'[b] = Never /\ s \notin sweeps'
           => now - received[b] > s.days

\* No sweep, however late its DELETE comes and whatever the worker has been
\* restarted with since, takes a Broadcast that is not older than the window it
\* was started with.
NothingYoungSwept == [][NothingYoungSweptStep]_vars

\* What is older than the window is gone as soon as the sweep of the boot is
\* through, and from then on at most an interval later; each sweep that has
\* failed since the last that succeeded, or is under way, costs one interval.
OldGoesInTime ==
    up /\ (swept > 0 \/ count = 0) =>
        \A b \in Broadcasts :
            received[b] # Never => now - received[b] <= window + Interval * (count - swept + 1)
=============================================================================
