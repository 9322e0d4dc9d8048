---------------------------- MODULE DelayedPending ----------------------------
(***************************************************************************)
(* useDelayedPending, the hook every waiting state of the dashboard is     *)
(* read through: a pending flag that turns on and off while the delay      *)
(* timer or the hold timer of an earlier turn runs. A timer fires at its   *)
(* due time or later, as setTimeout does.                                  *)
(***************************************************************************)
EXTENDS Integers

CONSTANTS
    Delay,    \* PENDING_DELAY_MS
    Hold,     \* PENDING_HOLD_MS
    Never     \* the null of shownAtRef and of an unset timer: no time

PendingAssumption == Delay \in Nat /\ Hold \in Nat /\ Never \notin Int

VARIABLES
    now,      \* Date.now()
    pending,  \* the flag the hook is given
    visible,  \* what it returns
    shownAt,  \* shownAtRef
    delayDue, \* when the delay timer fires, or Never
    holdDue,  \* when the hold timer fires, or Never
    since,    \* history: when the flag last turned on
    appeared  \* history: when `visible` last turned on

vars == <<now, pending, visible, shownAt, delayDue, holdDue, since, appeared>>

\* The page is loaded at time 0; the flag may be on at the first render.
Init ==
    /\ now = 0 /\ since = 0 /\ appeared = 0
    /\ pending \in BOOLEAN
    /\ visible = FALSE
    /\ shownAt = Never /\ holdDue = Never
    /\ delayDue = IF pending THEN Delay ELSE Never

\* Mutant: the hook's effect forgets when the state was shown.
ShownAtOn_Forgets == Never

\* What the effect does to shownAtRef when the flag turns on: nothing.
ShownAtOn == shownAt

\* Mutant: the effect has no cleanup.
DelayCleared_Never == delayDue

\* clearTimeout of the delay timer, the cleanup of the effect.
DelayCleared == Never

\* The effect for isPending: a running hold timer is cleared by its cleanup.
TurnOn ==
    /\ ~pending
    /\ pending' = TRUE /\ since' = now
    /\ delayDue' = now + Delay
    /\ holdDue' = Never
    /\ shownAt' = ShownAtOn
    /\ UNCHANGED <<now, visible, appeared>>

\* Mutant: what is left of the hold is measured from the flag's turning off.
Remaining_FromNow == Hold

Remaining == Hold - (now - shownAt)

\* The effect for ~isPending.
TurnOff ==
    /\ pending
    /\ pending' = FALSE
    /\ delayDue' = DelayCleared
    /\ \/ /\ shownAt = Never
          /\ visible' = FALSE /\ UNCHANGED <<shownAt, holdDue>>
       \/ /\ shownAt # Never /\ Remaining <= 0
          /\ visible' = FALSE /\ shownAt' = Never /\ UNCHANGED holdDue
       \/ /\ shownAt # Never /\ Remaining > 0
          /\ holdDue' = now + Remaining /\ UNCHANGED <<visible, shownAt>>
    /\ UNCHANGED <<now, since, appeared>>

\* A second showing within one hold starts the hold again.
DelayFires ==
    /\ delayDue # Never /\ now >= delayDue
    /\ visible' = TRUE /\ shownAt' = now /\ delayDue' = Never
    /\ appeared' = IF visible THEN appeared ELSE now
    /\ UNCHANGED <<now, pending, holdDue, since>>

HoldFires ==
    /\ holdDue # Never /\ now >= holdDue
    /\ visible' = FALSE /\ shownAt' = Never /\ holdDue' = Never
    /\ UNCHANGED <<now, pending, delayDue, since, appeared>>

Tick == now' = now + 1 /\ UNCHANGED <<pending, visible, shownAt, delayDue, holdDue, since, appeared>>

Timers == DelayFires \/ HoldFires

Next == TurnOn \/ TurnOff \/ Timers \/ Tick

Spec == Init /\ [][Next]_vars
-----------------------------------------------------------------------------
(* Properties.                                                             *)

Times == Nat \cup {Never}

TypeOK ==
    /\ now \in Nat /\ since \in Nat /\ appeared \in Nat
    /\ pending \in BOOLEAN /\ visible \in BOOLEAN
    /\ shownAt \in Times /\ delayDue \in Times /\ holdDue \in Times

\* A waiting state on screen is backed by the flag, or by a hold timer that
\* will take it away: no order of turns and timers leaves it there for good.
NeverStuck == (visible /\ ~pending) => holdDue # Never

\* A waiting state stays for at least Hold once it has appeared, however
\* often the flag turns off and on in between.
Held == (visible /\ ~visible') => now - appeared >= Hold
HoldHolds == [][Held]_vars

\* A waiting state appears only for a flag that has been on for Delay
\* without a break.
Slow == (~visible /\ visible') => (pending /\ now - since >= Delay)
OnlyWhenSlow == [][Slow]_vars

\* A waiting state whose flag turned off is gone once the hold, measured from
\* its showing, is over and the timer has run; it is not held anew by the
\* flag's turning off.
HoldNotExtended == holdDue # Never => holdDue <= shownAt + Hold
=============================================================================
