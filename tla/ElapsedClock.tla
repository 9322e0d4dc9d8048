----------------------------- MODULE ElapsedClock -----------------------------
(***************************************************************************)
(* lib/elapsedClock.ts: the one timer behind every elapsed timestamp on    *)
(* the screen. It runs while some timestamp is mounted and the tab is      *)
(* visible, and what it last told the time to be is what all of them show. *)
(***************************************************************************)
EXTENDS Integers, FiniteSets

CONSTANTS
    Stamps,       \* the ElapsedTime components
    Tick,         \* TICK_MS
    Never         \* no timer

VARIABLES
    time,         \* Date.now()
    visible,      \* document.visibilityState
    listeners,
    now,          \* the module's `now`
    intervalId,   \* Never, or the due time of the interval it names
    intervals     \* the due times of all the browser's intervals of this module

vars == <<time, visible, listeners, now, intervalId, intervals>>

ClockAssumption == Tick \in Nat \ {0} /\ Never \notin Nat

\* The module is imported at startup.
Init ==
    /\ time = 0 /\ visible \in BOOLEAN /\ listeners = {} /\ now = 0
    /\ intervalId = Never /\ intervals = {}

\* Mutant: a second interval is set beside the first.
Running_Never == FALSE

Running == intervalId # Never

\* startTicking, with `seen` the visibility it finds.
StartTicking(seen) ==
    IF Running \/ ~seen
    THEN UNCHANGED <<intervalId, intervals>>
    ELSE intervalId' = time + Tick /\ intervals' = intervals \cup {time + Tick}

StopTicking == intervalId' = Never /\ intervals' = intervals \ {intervalId}

\* Mutant: the first timestamp reads the time the timer stopped at.
Resync_Never == now

\* The first subscriber after a quiet spell resyncs `now`.
Resync == IF listeners = {} THEN time ELSE now

Mount(s) ==
    /\ s \notin listeners
    /\ now' = Resync
    /\ listeners' = listeners \cup {s}
    /\ StartTicking(visible)
    /\ UNCHANGED <<time, visible>>

Unmount(s) ==
    /\ s \in listeners
    /\ listeners' = listeners \ {s}
    /\ IF listeners = {s} THEN StopTicking ELSE UNCHANGED <<intervalId, intervals>>
    /\ UNCHANGED <<time, visible, now>>

Hide ==
    /\ visible /\ visible' = FALSE
    /\ StopTicking
    /\ UNCHANGED <<time, listeners, now>>

Show ==
    /\ ~visible /\ visible' = TRUE
    /\ now' = time
    /\ StartTicking(TRUE)
    /\ UNCHANGED <<time, listeners>>

\* An interval fires when it is due, and is due again Tick later.
Fires(due) ==
    /\ due \in intervals /\ due = time
    /\ now' = time
    /\ intervals' = (intervals \ {due}) \cup {due + Tick}
    /\ intervalId' = IF intervalId = due THEN due + Tick ELSE intervalId
    /\ UNCHANGED <<time, visible, listeners>>

\* Time passes; what is due happens first.
Pass ==
    /\ time \notin intervals
    /\ time' = time + 1
    /\ UNCHANGED <<visible, listeners, now, intervalId, intervals>>

Next ==
    \/ \E s \in Stamps : Mount(s) \/ Unmount(s)
    \/ Hide \/ Show \/ (\E due \in intervals : Fires(due)) \/ Pass

Spec == Init /\ [][Next]_vars
-----------------------------------------------------------------------------
(* Properties.                                                             *)

TypeOK ==
    /\ time \in Nat /\ visible \in BOOLEAN /\ listeners \subseteq Stamps /\ now \in Nat
    /\ intervalId \in Nat \cup {Never} /\ intervals \subseteq Nat

\* A timestamp on a visible page is never more than one tick behind, whatever
\* was mounted, unmounted, hidden and shown before.
NeverBehind == visible /\ listeners # {} => now <= time /\ time - now <= Tick

\* There is never an interval the module has lost hold of: at most one runs,
\* the one stopTicking clears, and none while the page is hidden.
OneInterval ==
    /\ intervals = IF intervalId = Never THEN {} ELSE {intervalId}
    /\ ~visible => intervals = {}
=============================================================================
