--------------------------- MODULE DashboardProofs ---------------------------
(***************************************************************************)
(* Proofs about the components of the dashboard, for every value of their  *)
(* constants: for each an invariant that its steps keep, the facts that    *)
(* follow from it, and what its steps never do. ComponentsProofs puts them *)
(* together. The two timers have theorems of their own, without the bound  *)
(* Components sets to their clocks.                                        *)
(***************************************************************************)
EXTENDS Components, Sequences, FiniteSets, PagingProofs, WellFoundedInduction

\* One component moves, and no other.
LEMMA Alone ==
    ASSUME [Next]_vars
    PROVE  /\ part' = part
           /\ part = "login" => [Login!Next]_loginVars
           /\ part = "ingest" => [Ingesting!Next]_ingestVars
           /\ part = "directory" => [Directory!Next]_directoryVars
           /\ part = "auth" => [Auth!Next]_authVars
           /\ part = "disable" => [Disable!Next]_disableVars
           /\ part = "page" => [Page!Next]_pageVars
           /\ part = "verdict" => [Verdict!Next]_verdictVars
           /\ part = "fresh" => [Fresh!Next]_freshVars
           /\ part = "pend" => [Pending!Next]_pendVars
           /\ part = "feed" => [Feed!Next]_feedVars
           /\ part = "roll" => [Rollup!Next]_rollVars
           /\ part = "bulk" => [Bulk!Next]_bulkVars
           /\ part = "replay" => [Replay!Next]_replayVars
           /\ part = "edit" => [Editor!Next]_editVars
           /\ part = "token" => [TokensTab!Next]_tokenVars
           /\ part = "clock" => [Clock!Next]_clockVars
           /\ part = "admin" => [Admin!Next]_adminVars
           /\ part = "view" => [View!Next]_viewVars
           /\ part = "create" => [Creation!Next]_createVars
           /\ part = "health" => [Health!Next]_healthVars
           /\ part = "relay" => [Relay!Next]_relayVars
           /\ part = "sweep" => [Sweeper!Next]_sweepVars
           /\ part = "schedule" => [Schedule!Next]_scheduleVars
  <1>1. CASE UNCHANGED vars
    BY <1>1 DEF vars
  <1>2. CASE Next
    BY <1>2 DEF Next, LoginSteps, IngestingSteps, DirectorySteps, AuthSteps, DisableSteps,
       PageSteps, VerdictSteps, FreshSteps, PendingSteps, FeedSteps, RollupSteps, BulkSteps,
       ReplaySteps, EditorSteps, TokensTabSteps, ClockSteps, AdminSteps, ViewSteps,
       CreationSteps, HealthSteps, RelaySteps, SweeperSteps, ScheduleSteps
  <1>. QED BY <1>1, <1>2

-----------------------------------------------------------------------------
(* The state of a wait: its delay and its hold.                            *)

\* What is on screen has been shown, not before it appeared.
PendShown ==
    /\ pendVisible => pendShownAt # NoTime /\ pendAppeared <= pendShownAt
    /\ pendShownAt # NoTime => pendVisible /\ pendShownAt <= pendNow

\* The hold timer runs only while the flag is off, to the end of the hold.
PendHoldTimer ==
    pendHoldDue # NoTime =>
        ~pendPending /\ pendShownAt # NoTime /\ pendHoldDue = pendShownAt + PendHold

\* The delay timer runs only while the flag is on, from when it turned on.
PendDelayTimer == pendDelayDue # NoTime => pendPending /\ pendDelayDue = pendSince + PendDelay

PendInv == Pending!TypeOK /\ PendShown /\ PendHoldTimer /\ PendDelayTimer /\ Pending!NeverStuck

\* Both timers are unset when the page is loaded, but for a first flag.
LEMMA PendBegins == ASSUME Pending!PendingAssumption PROVE Pending!Init => PendInv
  <1> SUFFICES ASSUME Pending!Init PROVE PendInv
    OBVIOUS
  <1>. USE DEF Pending!PendingAssumption, Pending!Init
  <1>1. ~pendVisible /\ PendDelay \in Nat /\ 0 + PendDelay = PendDelay
    BY SMT
  <1>2. Pending!TypeOK
    <2>1. pendDelayDue \in Nat \cup {NoTime}
      OBVIOUS
    <2>2. pendVisible \in BOOLEAN
      BY ZenonT(10)
    <2>. QED BY <2>1, <2>2 DEF Pending!TypeOK, Pending!Times
  <1>3. PendShown /\ PendHoldTimer /\ Pending!NeverStuck
    BY <1>1 DEF PendShown, PendHoldTimer, Pending!NeverStuck
  <1>4. PendDelayTimer
    BY <1>1 DEF PendDelayTimer
  <1>. QED BY <1>2, <1>3, <1>4 DEF PendInv

\* The flag turning on clears the hold timer and starts the delay timer.
LEMMA PendTurnOnKeeps ==
    ASSUME Pending!PendingAssumption, PendInv, Pending!TurnOn
    PROVE  PendInv'
  <1>. USE DEF Pending!PendingAssumption, PendInv, Pending!TurnOn, Pending!ShownAtOn,
       Pending!TypeOK, Pending!Times
  <1>1. Pending!TypeOK'
    OBVIOUS
  <1>2. PendShown' /\ Pending!NeverStuck'
    BY DEF PendShown, Pending!NeverStuck
  <1>3. PendHoldTimer' /\ PendDelayTimer'
    BY DEF PendHoldTimer, PendDelayTimer
  <1>. QED BY <1>1, <1>2, <1>3

\* The flag turning off takes the state away at once or leaves it to the hold
\* timer, which ends one hold after the showing.
LEMMA PendTurnOffKeeps ==
    ASSUME Pending!PendingAssumption, PendInv, Pending!TurnOff
    PROVE  PendInv'
  <1>. USE DEF Pending!PendingAssumption, PendInv, Pending!TypeOK, Pending!Times
  <1>1. pendHoldDue = NoTime
    BY DEF Pending!TurnOff, PendHoldTimer
  <1>2. CASE pendShownAt = NoTime
    <2>1. pendVisible' = FALSE /\ pendShownAt' = NoTime /\ pendHoldDue' = NoTime
      BY <1>1, <1>2 DEF Pending!TurnOff
    <2>. QED BY <1>2, <2>1 DEF Pending!TurnOff, Pending!DelayCleared, PendShown,
         PendHoldTimer, PendDelayTimer, Pending!NeverStuck
  <1>3. CASE pendShownAt # NoTime /\ Pending!Remaining <= 0
    <2>1. pendVisible' = FALSE /\ pendShownAt' = NoTime /\ pendHoldDue' = NoTime
      BY <1>1, <1>3 DEF Pending!TurnOff, Pending!Remaining
    <2>. QED BY <1>3, <2>1 DEF Pending!TurnOff, Pending!DelayCleared, PendShown,
         PendHoldTimer, PendDelayTimer, Pending!NeverStuck
  <1>4. CASE pendShownAt # NoTime /\ Pending!Remaining > 0
    <2>1. /\ pendHoldDue' = pendShownAt + PendHold /\ pendVisible' = pendVisible
          /\ pendShownAt' = pendShownAt
      BY <1>4 DEF Pending!TurnOff, Pending!Remaining
    <2>2. pendHoldDue' \in Nat
      BY <1>4, <2>1
    <2>. QED BY <1>4, <2>1, <2>2 DEF Pending!TurnOff, Pending!DelayCleared, PendShown,
         PendHoldTimer, PendDelayTimer, Pending!NeverStuck
  <1>5. pendShownAt # NoTime => Pending!Remaining \in Int
    BY DEF Pending!Remaining
  <1>. QED BY <1>2, <1>3, <1>4, <1>5

\* The delay timer shows the state while the flag is on, so that no hold timer
\* is left that would take it away.
LEMMA PendDelayFiresKeeps ==
    ASSUME Pending!PendingAssumption, PendInv, Pending!DelayFires
    PROVE  PendInv'
  <1>. USE DEF Pending!PendingAssumption, PendInv, Pending!DelayFires, Pending!TypeOK,
       Pending!Times
  <1>1. Pending!TypeOK'
    OBVIOUS
  <1>2. pendHoldDue = NoTime /\ pendPending
    BY DEF PendHoldTimer, PendDelayTimer
  <1>3. PendShown'
    BY DEF PendShown
  <1>4. PendHoldTimer' /\ PendDelayTimer' /\ Pending!NeverStuck'
    BY <1>2 DEF PendHoldTimer, PendDelayTimer, Pending!NeverStuck
  <1>. QED BY <1>1, <1>3, <1>4

\* The hold timer takes the state away and leaves nothing behind.
LEMMA PendHoldFiresKeeps ==
    ASSUME Pending!PendingAssumption, PendInv, Pending!HoldFires
    PROVE  PendInv'
  BY DEF Pending!PendingAssumption, PendInv, Pending!HoldFires, Pending!TypeOK,
       Pending!Times, PendShown, PendHoldTimer, PendDelayTimer, Pending!NeverStuck

LEMMA PendTickKeeps ==
    ASSUME Pending!PendingAssumption, PendInv, Pending!Tick
    PROVE  PendInv'
  BY DEF Pending!PendingAssumption, PendInv, Pending!Tick, Pending!TypeOK, Pending!Times,
       PendShown, PendHoldTimer, PendDelayTimer, Pending!NeverStuck

\* The invariant is inductive.
LEMMA PendGoesOn ==
    ASSUME Pending!PendingAssumption, PendInv, [Pending!Next]_(Pending!vars)
    PROVE  PendInv'
  <1>1. CASE Pending!TurnOn
    BY <1>1, PendTurnOnKeeps
  <1>2. CASE Pending!TurnOff
    BY <1>2, PendTurnOffKeeps
  <1>3. CASE Pending!DelayFires
    BY <1>3, PendDelayFiresKeeps
  <1>4. CASE Pending!HoldFires
    BY <1>4, PendHoldFiresKeeps
  <1>5. CASE Pending!Tick
    BY <1>5, PendTickKeeps
  <1>6. CASE UNCHANGED Pending!vars
    BY <1>6 DEF Pending!vars, PendInv, Pending!TypeOK, Pending!Times, PendShown,
         PendHoldTimer, PendDelayTimer, Pending!NeverStuck
  <1>. QED BY <1>1, <1>2, <1>3, <1>4, <1>5, <1>6 DEF Pending!Next, Pending!Timers

\* useDelayedPending's timers and its ref agree in every reachable state.
THEOREM PendInvariance == ASSUME Pending!PendingAssumption PROVE Pending!Spec => []PendInv
  <1>1. Pending!Init => PendInv
    BY PendBegins
  <1>2. PendInv /\ [Pending!Next]_(Pending!vars) => PendInv'
    BY PendGoesOn
  <1>. QED BY <1>1, <1>2, PTL DEF Pending!Spec

\* The hold that runs ends one hold after the showing.
LEMMA PendHoldIsKept ==
    ASSUME Pending!PendingAssumption, PendInv PROVE Pending!HoldNotExtended
  BY DEF Pending!PendingAssumption, PendInv, Pending!TypeOK, Pending!Times,
       PendHoldTimer, Pending!HoldNotExtended

\* Only a turn-off and the end of the hold take the state away.
LEMMA PendStepHeld ==
    ASSUME Pending!PendingAssumption, PendInv, [Pending!Next]_(Pending!vars)
    PROVE  Pending!Held
  <1> SUFFICES ASSUME pendVisible, ~pendVisible' PROVE pendNow - pendAppeared >= PendHold
    BY DEF Pending!Held
  <1>. USE DEF Pending!PendingAssumption, PendInv, Pending!TypeOK, Pending!Times, PendShown
  <1>1. CASE Pending!TurnOff
    <2>1. pendShownAt \in Nat /\ pendAppeared <= pendShownAt
      OBVIOUS
    <2>2. CASE Pending!Remaining <= 0
      BY <2>1, <2>2 DEF Pending!Remaining
    <2>3. CASE ~(Pending!Remaining <= 0)
      <3>1. Pending!Remaining > 0
        BY <2>1, <2>3 DEF Pending!Remaining
      <3>2. pendVisible' = pendVisible
        BY <1>1, <2>1, <2>3 DEF Pending!TurnOff
      <3>. QED BY <3>2
    <2>. QED BY <2>2, <2>3
  <1>2. CASE Pending!HoldFires
    BY <1>2 DEF Pending!HoldFires, PendHoldTimer
  <1>3. CASE Pending!TurnOn \/ Pending!DelayFires \/ Pending!Tick
    BY <1>3 DEF Pending!TurnOn, Pending!DelayFires, Pending!Tick
  <1>4. CASE UNCHANGED Pending!vars
    BY <1>4 DEF Pending!vars
  <1>. QED BY <1>1, <1>2, <1>3, <1>4 DEF Pending!Next, Pending!Timers

\* Only the delay timer shows the state.
LEMMA PendStepSlow ==
    ASSUME Pending!PendingAssumption, PendInv, [Pending!Next]_(Pending!vars)
    PROVE  Pending!Slow
  <1> SUFFICES ASSUME ~pendVisible, pendVisible'
               PROVE  pendPending /\ pendNow - pendSince >= PendDelay
    BY DEF Pending!Slow
  <1>. USE DEF Pending!PendingAssumption, PendInv, Pending!TypeOK, Pending!Times
  <1>1. CASE Pending!DelayFires
    BY <1>1 DEF Pending!DelayFires, PendDelayTimer
  <1>2. CASE Pending!TurnOn \/ Pending!TurnOff \/ Pending!HoldFires \/ Pending!Tick
    BY <1>2 DEF Pending!TurnOn, Pending!TurnOff, Pending!HoldFires, Pending!Tick
  <1>3. CASE UNCHANGED Pending!vars
    BY <1>3 DEF Pending!vars
  <1>. QED BY <1>1, <1>2, <1>3 DEF Pending!Next, Pending!Timers

\* A waiting state is never on screen without a flag or a timer that ends it.
THEOREM StateIsNeverStuck ==
    ASSUME Pending!PendingAssumption
    PROVE  Pending!Spec => []Pending!NeverStuck
  <1>1. PendInv => Pending!NeverStuck
    BY DEF PendInv
  <1>. QED BY <1>1, PendInvariance, PTL

\* The hold is measured from the showing and not from the flag's turning off.
THEOREM HoldIsNotExtended ==
    ASSUME Pending!PendingAssumption
    PROVE  Pending!Spec => []Pending!HoldNotExtended
  <1>1. PendInv => Pending!HoldNotExtended
    BY PendHoldIsKept
  <1>. QED BY <1>1, PendInvariance, PTL

\* Once on screen, a waiting state stays for the hold.
THEOREM StateIsHeld ==
    ASSUME Pending!PendingAssumption
    PROVE  Pending!Spec => Pending!HoldHolds
  <1>1. PendInv /\ [Pending!Next]_(Pending!vars) => [Pending!Held]_(Pending!vars)
    BY PendStepHeld
  <1>. QED BY <1>1, PendInvariance, PTL DEF Pending!Spec, Pending!HoldHolds

\* Nothing appears for a flag that was on for less than the delay.
THEOREM StateIsOnlyForTheSlow ==
    ASSUME Pending!PendingAssumption
    PROVE  Pending!Spec => Pending!OnlyWhenSlow
  <1>1. PendInv /\ [Pending!Next]_(Pending!vars) => [Pending!Slow]_(Pending!vars)
    BY PendStepSlow
  <1>. QED BY <1>1, PendInvariance, PTL DEF Pending!Spec, Pending!OnlyWhenSlow

-----------------------------------------------------------------------------
(* The clock the visible timestamps share.                                 *)

\* The interval runs in a visible page, is due within a tick, and fires at
\* most a tick after what it last showed.
ClockOnTime ==
    /\ clockNow <= clockTime
    /\ clockIntervalId # NoTime =>
          /\ clockVisible
          /\ clockTime <= clockIntervalId /\ clockIntervalId <= clockTime + ClockTick
          /\ clockListeners # {} => clockIntervalId <= clockNow + ClockTick

\* It runs for whoever looks.
ClockRunsForReaders == clockVisible /\ clockListeners # {} => clockIntervalId # NoTime

ClockInv == Clock!TypeOK /\ Clock!OneInterval /\ ClockOnTime /\ ClockRunsForReaders

LEMMA ClockBegins == ASSUME Clock!ClockAssumption PROVE Clock!Init => ClockInv
  <1> SUFFICES ASSUME Clock!Init PROVE ClockInv
    OBVIOUS
  <1>. USE DEF Clock!Init
  <1>1. Clock!TypeOK
    BY DEF Clock!TypeOK
  <1>2. Clock!OneInterval /\ ClockOnTime /\ ClockRunsForReaders
    BY DEF Clock!OneInterval, ClockOnTime, ClockRunsForReaders
  <1>. QED BY <1>1, <1>2 DEF ClockInv

\* Starting where nothing runs, or where nothing is to run, leaves at most one.
LEMMA ClockStartKeeps ==
    ASSUME Clock!ClockAssumption, ClockInv, NEW seen \in BOOLEAN, Clock!StartTicking(seen),
           clockVisible' = seen, clockIntervalId # NoTime => seen
    PROVE  /\ clockIntervalId' \in Nat \cup {NoTime} /\ clockIntervals' \subseteq Nat
           /\ Clock!OneInterval'
           /\ \/ clockIntervalId' = clockIntervalId
              \/ clockIntervalId = NoTime /\ seen /\ clockIntervalId' = clockTime + ClockTick
           /\ seen => clockIntervalId' # NoTime
  <1>. USE DEF Clock!ClockAssumption, ClockInv, Clock!TypeOK, Clock!OneInterval,
       Clock!StartTicking, Clock!Running
  <1>1. CASE Clock!Running \/ ~seen
    BY <1>1
  <1>2. CASE ~(Clock!Running \/ ~seen)
    BY <1>2
  <1>. QED BY <1>1, <1>2

\* Stopping leaves none.
LEMMA ClockStopKeeps ==
    ASSUME Clock!ClockAssumption, ClockInv, Clock!StopTicking
    PROVE  clockIntervalId' = NoTime /\ clockIntervals' = {} /\ Clock!OneInterval'
  BY DEF Clock!ClockAssumption, ClockInv, Clock!OneInterval, Clock!StopTicking

LEMMA ClockMountKeeps ==
    ASSUME Clock!ClockAssumption, ClockInv, NEW s \in ClockStamps, Clock!Mount(s)
    PROVE  ClockInv'
  <1>1. /\ clockIntervalId' \in Nat \cup {NoTime} /\ clockIntervals' \subseteq Nat
        /\ Clock!OneInterval'
        /\ \/ clockIntervalId' = clockIntervalId
           \/ /\ clockIntervalId = NoTime /\ clockVisible
              /\ clockIntervalId' = clockTime + ClockTick
        /\ clockVisible => clockIntervalId' # NoTime
    <2>1. clockVisible \in BOOLEAN /\ (clockIntervalId # NoTime => clockVisible)
      BY DEF ClockInv, Clock!TypeOK, ClockOnTime
    <2>. QED BY <2>1, ClockStartKeeps DEF Clock!Mount
  <1>2. clockNow' = IF clockListeners = {} THEN clockTime ELSE clockNow
    BY DEF Clock!Mount, Clock!Resync
  <1>3. Clock!TypeOK'
    BY <1>1, <1>2 DEF ClockInv, Clock!TypeOK, Clock!Mount
  <1>4. ClockOnTime'
    <2>. USE DEF Clock!ClockAssumption, ClockInv, Clock!TypeOK, ClockOnTime
    <2>1. CASE clockListeners = {}
      BY <1>1, <1>2, <2>1 DEF Clock!Mount
    <2>2. CASE clockListeners # {}
      BY <1>1, <1>2, <2>2 DEF Clock!Mount, ClockRunsForReaders
    <2>. QED BY <2>1, <2>2
  <1>5. ClockRunsForReaders'
    BY <1>1 DEF ClockRunsForReaders, Clock!Mount
  <1>. QED BY <1>1, <1>3, <1>4, <1>5 DEF ClockInv

LEMMA ClockUnmountKeeps ==
    ASSUME Clock!ClockAssumption, ClockInv, NEW s \in ClockStamps, Clock!Unmount(s)
    PROVE  ClockInv'
  <1>1. CASE clockListeners = {s}
    <2>1. clockIntervalId' = NoTime /\ clockIntervals' = {} /\ Clock!OneInterval'
      BY <1>1, ClockStopKeeps DEF Clock!Unmount
    <2>2. clockListeners' = {}
      BY <1>1 DEF Clock!Unmount
    <2>. QED BY <2>1, <2>2 DEF Clock!Unmount, ClockInv, Clock!TypeOK, ClockOnTime,
         ClockRunsForReaders
  <1>2. CASE clockListeners # {s}
    <2>1. UNCHANGED <<clockIntervalId, clockIntervals, clockTime, clockVisible,
         clockNow>> /\ clockListeners' \subseteq clockListeners
      BY <1>2 DEF Clock!Unmount
    <2>. QED BY <2>1 DEF ClockInv, Clock!TypeOK, Clock!OneInterval, ClockOnTime,
         ClockRunsForReaders
  <1>. QED BY <1>1, <1>2

LEMMA ClockHideKeeps == ASSUME Clock!ClockAssumption, ClockInv, Clock!Hide PROVE ClockInv'
  <1>1. clockIntervalId' = NoTime /\ clockIntervals' = {} /\ Clock!OneInterval'
    BY ClockStopKeeps DEF Clock!Hide
  <1>. QED BY <1>1 DEF Clock!Hide, ClockInv, Clock!TypeOK, ClockOnTime, ClockRunsForReaders

LEMMA ClockShowKeeps == ASSUME Clock!ClockAssumption, ClockInv, Clock!Show PROVE ClockInv'
  <1>1. /\ clockIntervalId' \in Nat \cup {NoTime} /\ clockIntervals' \subseteq Nat
        /\ Clock!OneInterval'
        /\ \/ clockIntervalId' = clockIntervalId
           \/ clockIntervalId = NoTime /\ clockIntervalId' = clockTime + ClockTick
        /\ clockIntervalId' # NoTime
    BY ClockStartKeeps DEF Clock!Show
  <1>2. clockIntervalId' = clockTime + ClockTick
    BY <1>1 DEF Clock!Show, ClockInv, ClockOnTime
  <1>3. Clock!TypeOK' /\ ClockOnTime' /\ ClockRunsForReaders'
    BY <1>1, <1>2 DEF Clock!Show, ClockInv, Clock!TypeOK, ClockOnTime, ClockRunsForReaders,
         Clock!ClockAssumption
  <1>. QED BY <1>1, <1>3 DEF ClockInv

\* What fires is the one interval.
LEMMA ClockFiresKeeps ==
    ASSUME Clock!ClockAssumption, ClockInv, NEW due \in clockIntervals, Clock!Fires(due)
    PROVE  ClockInv'
  <1>1. /\ due = clockIntervalId /\ clockIntervals = {due} /\ due = clockTime
        /\ clockIntervalId # NoTime /\ clockVisible
    BY DEF ClockInv, Clock!OneInterval, Clock!Fires
  <1>2. /\ clockIntervalId' = clockTime + ClockTick /\ clockNow' = clockTime
        /\ clockIntervals' = {clockTime + ClockTick}
    BY <1>1 DEF Clock!Fires
  <1>. QED BY <1>1, <1>2 DEF Clock!Fires, ClockInv, Clock!TypeOK, Clock!OneInterval,
       ClockOnTime, ClockRunsForReaders, Clock!ClockAssumption

LEMMA ClockPassKeeps == ASSUME Clock!ClockAssumption, ClockInv, Clock!Pass PROVE ClockInv'
  <1>1. clockIntervalId # NoTime => clockIntervalId # clockTime
    BY DEF Clock!Pass, ClockInv, Clock!OneInterval
  <1>. QED BY <1>1 DEF Clock!Pass, ClockInv, Clock!TypeOK, Clock!OneInterval, ClockOnTime,
       ClockRunsForReaders, Clock!ClockAssumption

\* The invariant is inductive.
LEMMA ClockGoesOn ==
    ASSUME Clock!ClockAssumption, ClockInv, [Clock!Next]_(Clock!vars)
    PROVE  ClockInv'
  <1>1. CASE \E s \in ClockStamps : Clock!Mount(s) \/ Clock!Unmount(s)
    BY <1>1, ClockMountKeeps, ClockUnmountKeeps
  <1>2. CASE Clock!Hide
    BY <1>2, ClockHideKeeps
  <1>3. CASE Clock!Show
    BY <1>3, ClockShowKeeps
  <1>4. CASE \E due \in clockIntervals : Clock!Fires(due)
    BY <1>4, ClockFiresKeeps
  <1>5. CASE Clock!Pass
    BY <1>5, ClockPassKeeps
  <1>6. CASE UNCHANGED Clock!vars
    BY <1>6 DEF Clock!vars, ClockInv, Clock!TypeOK, Clock!OneInterval, ClockOnTime,
         ClockRunsForReaders
  <1>. QED BY <1>1, <1>2, <1>3, <1>4, <1>5, <1>6 DEF Clock!Next

\* The one interval the module has is due when a visible page needs it.
THEOREM ClockInvariance == ASSUME Clock!ClockAssumption PROVE Clock!Spec => []ClockInv
  <1>1. Clock!Init => ClockInv
    BY ClockBegins
  <1>2. ClockInv /\ [Clock!Next]_(Clock!vars) => ClockInv'
    BY ClockGoesOn
  <1>. QED BY <1>1, <1>2, PTL DEF Clock!Spec

\* The module never loses hold of an interval, and a hidden page has none.
THEOREM OneIntervalRuns ==
    ASSUME Clock!ClockAssumption
    PROVE  Clock!Spec => []Clock!OneInterval
  <1>1. ClockInv => Clock!OneInterval
    BY DEF ClockInv
  <1>. QED BY <1>1, ClockInvariance, PTL

LEMMA ClockIsOnTime == ASSUME Clock!ClockAssumption, ClockInv PROVE Clock!NeverBehind
  BY DEF ClockInv, Clock!TypeOK, ClockOnTime, ClockRunsForReaders, Clock!NeverBehind,
         Clock!ClockAssumption

\* What a visible page shows is at most one tick old.
THEOREM ClockIsNeverBehind ==
    ASSUME Clock!ClockAssumption
    PROVE  Clock!Spec => []Clock!NeverBehind
  <1>1. ClockInv => Clock!NeverBehind
    BY ClockIsOnTime
  <1>. QED BY <1>1, ClockInvariance, PTL

-----------------------------------------------------------------------------
(* A polled list and the line that calls it current.                       *)

\* What a fetch has read, or has left on screen without an error, is no older
\* than the last Show; whether the tab is visible by now does not matter.
FreshInv ==
    /\ freshServer \in Nat /\ freshOwed \in 0..freshServer
    /\ freshRead \in Nat /\ freshData \in Nat
    /\ freshFetching /\ freshRead # 0 => freshRead >= freshOwed
    /\ ~freshFetching /\ ~freshIsError /\ freshData # 0 => freshData >= freshOwed

LEMMA FreshBegins == ASSUME Fresh!Init PROVE FreshInv
  BY DEF Fresh!Init, FreshInv

LEMMA FreshGoesOn == ASSUME FreshInv, [Fresh!Next]_freshVars PROVE FreshInv'
  <1>1. CASE Fresh!Change
    BY <1>1 DEF Fresh!Change, FreshInv
  <1>2. CASE Fresh!Poll
    BY <1>2 DEF Fresh!Poll, FreshInv
  <1>3. CASE Fresh!FetchReads
    BY <1>3 DEF Fresh!FetchReads, FreshInv
  <1>4. CASE Fresh!FetchLands
    BY <1>4 DEF Fresh!FetchLands, FreshInv
  <1>5. CASE Fresh!FetchFails
    BY <1>5 DEF Fresh!FetchFails, FreshInv
  <1>6. CASE Fresh!Hide \/ UNCHANGED freshVars
    BY <1>6 DEF Fresh!Hide, FreshInv, freshVars
  <1>7. CASE Fresh!Show
    <2>1. CASE Fresh!Joins
      BY <1>7, <2>1 DEF Fresh!Show, Fresh!RefetchOnVisible, FreshInv
    <2>2. CASE ~Fresh!Joins
      BY <1>7, <2>2 DEF Fresh!Show, Fresh!RefetchOnVisible, FreshInv
    <2>. QED BY <2>1, <2>2
  <1>. QED BY <1>1, <1>2, <1>3, <1>4, <1>5, <1>6, <1>7 DEF Fresh!Next

LEMMA FreshIsCurrent == ASSUME FreshInv PROVE Fresh!OkIsCurrent
  BY DEF FreshInv, Fresh!OkIsCurrent, Fresh!PollStatus

-----------------------------------------------------------------------------
(* The New Channel form.                                                   *)

CreationTyped ==
    /\ createRequest # NoValue =>
          createRequest \in [slug : Creation!Fields, at : {"sent", "made", "refused", "listing"}]
    /\ createFetch # NoValue =>
          createFetch = [read |-> createFetch.read, awaited |-> createFetch.awaited]
    /\ createOutcome = [how |-> createOutcome.how, slug |-> createOutcome.slug,
                        stands |-> createOutcome.stands, listed |-> createOutcome.listed]
    /\ createSlug \in Creation!Fields

\* A Channel just created is taken until someone deletes it, and what the
\* refetch awaited for it has read names it, if there was a list to refetch.
CreatedIsRead ==
    createOutcome.how = "made" /\ createOutcome.stands =>
        /\ createOutcome.slug \in createTaken
        /\ createList # NoValue /\ createFetch # NoValue /\ createFetch.awaited
              /\ createFetch.read # NoValue => createOutcome.slug \in createFetch.read

CreationInv ==
    /\ CreationTyped /\ CreatedIsRead
    /\ createRequest # NoValue => createCreating
    /\ createTouched => createLeft
    /\ Creation!NothingWrongSent /\ Creation!BannerIsOfLast

LEMMA CreationBegins == ASSUME Creation!Init PROVE CreationInv
  BY DEF Creation!Init, CreationInv, CreationTyped, CreatedIsRead,
       Creation!NothingWrongSent,
         Creation!BannerIsOfLast, Creation!Fields

LEMMA CreationGoesOn == ASSUME CreationInv, [Creation!Next]_createVars PROVE CreationInv'
  <1>. USE DEF CreationInv, CreationTyped, CreatedIsRead, Creation!NothingWrongSent,
           Creation!BannerIsOfLast, Creation!form, Creation!past
  <1>1. ASSUME NEW value \in Creation!Fields, Creation!Type(value) PROVE CreationInv'
    BY <1>1 DEF Creation!Type
  <1>2. CASE Creation!Blur
    BY <1>2 DEF Creation!Blur
  <1>3. CASE Creation!Press
    <2>1. CASE Creation!Gated
      BY <1>3, <2>1 DEF Creation!Press
    <2>2. CASE ~Creation!Gated
      BY <1>3, <2>2 DEF Creation!Press, Creation!Gated, Creation!BannerAtPress
    <2>. QED BY <2>1, <2>2
  <1>4. CASE Creation!Serve
    BY <1>4 DEF Creation!Serve
  <1>5. CASE Creation!Lose
    BY <1>5 DEF Creation!Lose
  <1>6. CASE Creation!Created
    BY <1>6 DEF Creation!Created, Creation!Refetch, Creation!TouchedAfter, Creation!Fields
  <1>7. CASE Creation!CreateFails
    BY <1>7 DEF Creation!CreateFails
  <1>8. CASE Creation!Poll \/ UNCHANGED createVars
    BY <1>8 DEF Creation!Poll, createVars
  <1>9. CASE Creation!FetchReads
    BY <1>9 DEF Creation!FetchReads
  <1>10. ASSUME NEW lands \in BOOLEAN, Creation!FetchSettles(lands) PROVE CreationInv'
    BY <1>10 DEF Creation!FetchSettles
  <1>11. ASSUME NEW s \in CreateSlugs, Creation!OthersChange(s) PROVE CreationInv'
    BY <1>11 DEF Creation!OthersChange
  <1>. HIDE DEF CreationInv
  <1>. QED BY <1>1, <1>2, <1>3, <1>4, <1>5, <1>6, <1>7, <1>8, <1>9, <1>10, <1>11
           DEF Creation!Next, Creation!Fields

LEMMA CreationIsHonest ==
    ASSUME CreationInv
    PROVE  Creation!NothingWrongSent /\ Creation!SilentUntilLeft /\ Creation!BannerIsOfLast
  BY DEF CreationInv, Creation!SilentUntilLeft, Creation!FieldError

LEMMA CreatedIsSeen ==
    ASSUME CreationInv, [Creation!Next]_createVars PROVE Creation!CreatedIsListedStep
  <1>. SUFFICES ASSUME createList # NoValue,
                       createCreating, ~createCreating', createOutcome'.how = "made",
                       createOutcome'.stands, createOutcome'.listed
                PROVE  createOutcome'.slug \in createList'
    BY DEF Creation!CreatedIsListedStep
  <1>1. CASE Creation!CreateFails
    BY <1>1 DEF Creation!CreateFails, CreationInv, CreationTyped
  <1>2. ASSUME NEW lands \in BOOLEAN, Creation!FetchSettles(lands)
        PROVE  createOutcome'.slug \in createList'
    BY <1>2 DEF Creation!FetchSettles, CreationInv, CreationTyped, CreatedIsRead
  <1>. QED BY <1>1, <1>2 DEF Creation!Next, Creation!Type, Creation!Blur, Creation!Press,
       Creation!Serve, Creation!Lose, Creation!Created, Creation!Poll, Creation!FetchReads,
       Creation!OthersChange, Creation!form, createVars

-----------------------------------------------------------------------------
(* The Endpoints tab.                                                      *)

EditorInv == Editor!DirtyExact /\ editDirty \in BOOLEAN

LEMMA EditorBegins == ASSUME Editor!Init PROVE EditorInv
  BY DEF Editor!Init, EditorInv, Editor!DirtyExact, Editor!Mounted

LEMMA EditorGoesOn == ASSUME EditorInv, [Editor!Next]_editVars PROVE EditorInv'
  <1>. USE DEF EditorInv, Editor!DirtyExact, Editor!Mounted, Editor!Listed
  <1>1. CASE UNCHANGED <<editList, editEditingId, editDirty, editForm>>
    BY <1>1
  <1>2. ASSUME NEW e, Editor!OpenEditor(e), UNCHANGED editList PROVE EditorInv'
    BY <1>2 DEF Editor!OpenEditor
  <1>3. ASSUME NEW e \in EditEndpoints, Editor!RowClick(e) PROVE EditorInv'
    BY <1>1, <1>2, <1>3 DEF Editor!RowClick
  <1>4. CASE Editor!PollLands
    BY <1>4 DEF Editor!PollLands, Editor!DirtyAfterPoll
  <1>5. CASE Editor!Type
    BY <1>5 DEF Editor!Type
  <1>6. CASE Editor!Cancel \/ Editor!DiscardAndSwitch \/ \E s \in editSaves : Editor!SaveAnswered(s)
    BY <1>2, <1>6 DEF Editor!Cancel, Editor!DiscardAndSwitch, Editor!SaveAnswered,
                      Editor!CloseEditing
  <1>. HIDE DEF EditorInv
  <1>. QED BY <1>1, <1>3, <1>4, <1>5, <1>6 DEF Editor!Next, Editor!OthersChange,
       Editor!OthersDelete, Editor!Commit, Editor!SaveFailed, Editor!Poll,
       Editor!KeepEditing,
       Editor!Submit, Editor!tab, editVars

LEMMA EditsAreGuarded ==
    ASSUME EditorInv, [Editor!Next]_editVars PROVE Editor!EditsGuardedStep
  <1>. SUFFICES ASSUME Editor!Unsaved, ~Editor!Cancel, ~Editor!DiscardAndSwitch,
       ~Editor!Saved
                PROVE  /\ editEditingId' = editEditingId
                       /\ editForm' = editForm \/ Editor!Type
                             \/ editList'[editEditingId] = Deleted
    BY DEF Editor!EditsGuardedStep
  <1>1. editEditingId # NoValue /\ editDirty
    BY DEF Editor!Unsaved, EditorInv, Editor!DirtyExact, Editor!Mounted
  <1>2. ASSUME NEW e \in EditEndpoints, Editor!RowClick(e)
        PROVE  UNCHANGED <<editEditingId, editForm>>
    BY <1>1, <1>2 DEF Editor!RowClick, Editor!MustAsk
  <1>. QED BY <1>2 DEF Editor!Next, Editor!Saved, Editor!OthersChange, Editor!OthersDelete,
       Editor!Commit, Editor!SaveFailed, Editor!Poll, Editor!PollLands, Editor!Type,
       Editor!KeepEditing, Editor!Submit, Editor!tab, editVars

-----------------------------------------------------------------------------
(* The retry of a batch.                                                   *)

BulkInv ==
    /\ bulkResults # NoValue =>
          bulkRetrying /\ bulkResults = [d \in DOMAIN bulkResults |-> bulkResults[d]]
    /\ bulkRetrying => bulkQueued = {d \in DOMAIN bulkResults : bulkResults[d] = "fulfilled"}
    /\ Bulk!ReportTrue

LEMMA BulkBegins == ASSUME Bulk!Init PROVE BulkInv
  BY DEF Bulk!Init, BulkInv, Bulk!ReportTrue

LEMMA BulkGoesOn ==
    ASSUME Bulk!BulkAssumption, BulkInv, [Bulk!Next]_bulkVars PROVE BulkInv'
  <1>. USE DEF BulkInv, Bulk!ReportTrue
  <1>1. CASE UNCHANGED <<bulkRetrying, bulkResults, bulkOutcomes, bulkQueued>>
    BY <1>1
  <1>2. CASE Bulk!ConfirmBulk
    BY <1>2 DEF Bulk!ConfirmBulk, Bulk!BulkAssumption
  <1>3. ASSUME NEW d \in BulkDeliveries, Bulk!RetryOne(d) PROVE BulkInv'
    <2>1. CASE /\ bulkResults' = [bulkResults EXCEPT ![d] = "fulfilled"]
               /\ bulkQueued' = bulkQueued \cup {d}
      BY <1>3, <2>1, ZenonT(30) DEF Bulk!RetryOne
    <2>2. CASE bulkResults' = [bulkResults EXCEPT ![d] = "rejected"] /\ bulkQueued' = bulkQueued
      BY <1>3, <2>2 DEF Bulk!RetryOne, Bulk!BulkAssumption
    <2>. QED BY <1>3, <2>1, <2>2 DEF Bulk!RetryOne
  <1>4. CASE Bulk!Settle
    BY <1>4 DEF Bulk!Settle, Bulk!Report
  <1>. HIDE DEF BulkInv
  <1>. QED BY <1>1, <1>2, <1>3, <1>4 DEF Bulk!Next, Bulk!OthersRetry, Bulk!Redead,
       Bulk!OpenBulk, Bulk!CancelBulk, Bulk!Poll, Bulk!PollLands, Bulk!Mounted, bulkVars

LEMMA ReportsStand == ASSUME [Bulk!Next]_bulkVars PROVE Bulk!ReportStandsStep
  BY DEF Bulk!ReportStandsStep, Bulk!Next, Bulk!OthersRetry, Bulk!Redead, Bulk!RetryOne,
         Bulk!OpenBulk, Bulk!CancelBulk, Bulk!ConfirmBulk, Bulk!Poll, Bulk!PollLands,
         Bulk!Mounted, bulkVars

-----------------------------------------------------------------------------
(* The replay of a Broadcast.                                              *)

\* What the question's own refetch has read, or a later one, and then the number
\* it names, was right while it was asked; a replay under way holds the button.
ReplayInv ==
    /\ replayRefetch # NoValue => replayRefetch = [read |-> replayRefetch.read]
    /\ replayAsking => Replay!Cardinality(replayEnabled) \in replaySeen
    /\ replayAsking /\ ~replayJoined /\ replayRefetch # NoValue /\ replayRefetch.read # NoValue
          => Replay!Cardinality(replayRefetch.read) \in replaySeen
    /\ Replay!AsksOfNow
    /\ replaySent \in {0, 1} /\ (replaySent = 1 => replayReplaying)
    /\ replayEnabled \in SUBSET ReplayEndpoints

LEMMA ReplayBegins == ASSUME Replay!Init PROVE ReplayInv
  BY DEF Replay!Init, ReplayInv, Replay!AsksOfNow, Replay!Started

LEMMA ReplayGoesOn ==
    ASSUME Replay!ReplayAssumption, ReplayInv, [Replay!Next]_replayVars
    PROVE  ReplayInv'
  <1>. USE DEF ReplayInv, Replay!AsksOfNow, Replay!query, Replay!Started
  <1>0. NoValue # Replay!Started /\ \A known \in SUBSET ReplayEndpoints : NoValue # [read |-> known]
    BY DEF Replay!ReplayAssumption
  <1>1. ASSUME NEW e \in ReplayEndpoints, Replay!Switch(e)
        PROVE  ReplayInv'
    BY <1>1 DEF Replay!Switch
  <1>2. CASE Replay!OpenReplay
    BY <1>0, <1>2 DEF Replay!OpenReplay, Replay!Refetches
  <1>3. CASE Replay!RefetchLands
    BY <1>3 DEF Replay!RefetchLands
  <1>4. CASE Replay!CancelReplay
    BY <1>4 DEF Replay!CancelReplay
  <1>5. CASE Replay!ConfirmReplay
    BY <1>5 DEF Replay!ConfirmReplay, Replay!ReplayBusy
  <1>6. CASE Replay!ReplayAnswered
    BY <1>6 DEF Replay!ReplayAnswered
  <1>7. CASE UNCHANGED replayVars
    BY <1>7 DEF replayVars
  <1>8. CASE Replay!Focus
    BY <1>0, <1>8 DEF Replay!Focus
  <1>9. CASE Replay!RefetchReads
    BY <1>0, <1>9 DEF Replay!RefetchReads
  <1>10. CASE Replay!RefetchFails
    BY <1>10 DEF Replay!RefetchFails
  <1>. HIDE DEF ReplayInv
  <1>. QED BY <1>1, <1>2, <1>3, <1>4, <1>5, <1>6, <1>7, <1>8, <1>9, <1>10 DEF Replay!Next

-----------------------------------------------------------------------------
(* The verdict on a retry.                                                 *)

VerdictRow == [status : Verdict!Settled \cup {"pending", "in_progress"}, count : Nat]
VerdictRequests ==
    [count : Nat, step : {"sent", "accepted", "refused"}] \cup [step : {"loading"}, read : Nat]

VerdictTyped ==
    /\ verdictServer \in VerdictRow /\ verdictDelivery \in VerdictRow
    /\ verdictDelivery.count <= verdictServer.count
    /\ verdictPoll # NoValue =>
          verdictPoll \in VerdictRow /\ verdictPoll.count <= verdictServer.count
    /\ verdictRequest # NoValue => verdictRequest \in VerdictRequests
    /\ verdictAwaiting # NoValue => verdictAwaiting \in Nat
    /\ verdictLoads \subseteq Nat /\ (verdictAttempts # NoValue => verdictAttempts \in Nat)
    /\ verdictOutcome # NoValue =>
          verdictOutcome.n \in Nat /\ verdictOutcome.n <= verdictServer.count

\* The Attempt announced is on the timeline, or will be with a load under way.
VerdictTimeline ==
    verdictOutcome # NoValue /\ ~verdictOvertaken =>
        \/ verdictAttempts # NoValue /\ verdictAttempts >= verdictOutcome.n
        \/ \E n \in verdictLoads : n >= verdictOutcome.n

\* While nobody else retries: whoever has seen the end of the retry that is
\* awaited has the row as it is, and so has every poll since.
VerdictAllSeen ==
    /\ verdictServer.status \in Verdict!Settled /\ verdictDelivery = verdictServer
    /\ verdictPoll # NoValue => verdictPoll = verdictServer
VerdictOver(row) == row.count > verdictAccepted /\ row.status \in Verdict!Settled
VerdictEndIsEnd ==
    /\ VerdictOver(verdictDelivery) => VerdictAllSeen
    /\ verdictPoll # NoValue /\ VerdictOver(verdictPoll) => verdictPoll = verdictServer
VerdictAsked(step) == verdictRequest # NoValue /\ verdictRequest.step = step

VerdictOfOwnRetry ==
    /\ VerdictAsked("sent") =>
          /\ verdictAwaiting = NoValue /\ verdictOutcome = NoValue
          /\ VerdictAllSeen /\ verdictServer.status = "dead_lettered"
          /\ verdictRequest.count = verdictServer.count
    /\ ~VerdictAsked("refused")
    /\ IF VerdictAsked("accepted") \/ verdictAwaiting # NoValue
       THEN /\ verdictAccepted \in Nat /\ VerdictEndIsEnd
            /\ VerdictAsked("accepted") =>
                  /\ verdictAwaiting = NoValue /\ verdictOutcome = NoValue
                  /\ verdictRequest.count = verdictAccepted
            /\ verdictAwaiting # NoValue => verdictAwaiting = verdictAccepted
       ELSE VerdictAllSeen
    /\ verdictOutcome # NoValue => verdictOutcome.n > verdictAccepted

VerdictInv ==
    /\ VerdictTyped /\ VerdictTimeline
    /\ verdictOthers \in BOOLEAN /\ verdictOvertaken \in BOOLEAN
    /\ ~verdictOthers => VerdictOfOwnRetry

LEMMA VerdictBegins ==
    ASSUME Verdict!VerdictAssumption, Verdict!Init PROVE VerdictInv
  <1>1. verdictServer \in VerdictRow /\ verdictServer.status \in Verdict!Settled
        /\ verdictDelivery = verdictServer
    BY DEF Verdict!VerdictAssumption, Verdict!Init, VerdictRow, Verdict!Settled
  <1>2. VerdictTyped
    BY <1>1 DEF Verdict!Init, VerdictTyped, VerdictRow
  <1>3. VerdictTimeline /\ VerdictOfOwnRetry /\ verdictOthers \in BOOLEAN
        /\ verdictOvertaken \in BOOLEAN
    BY <1>1 DEF Verdict!Init, VerdictTimeline, VerdictOfOwnRetry, VerdictAllSeen,
         VerdictAsked
  <1>. QED BY <1>2, <1>3 DEF VerdictInv

\* The type of every variable, and the order of what was read.
LEMMA VerdictTypedGoesOn ==
    ASSUME Verdict!VerdictAssumption, VerdictTyped, [Verdict!Next]_verdictVars
    PROVE  VerdictTyped' /\ verdictServer'.count >= verdictServer.count
  <1>. USE DEF VerdictTyped, VerdictRow, VerdictRequests, Verdict!Settled
  <1>1. CASE UNCHANGED verdictVars
    BY <1>1 DEF verdictVars
  <1>2. CASE Verdict!OthersRetry
    BY <1>2 DEF Verdict!OthersRetry, Verdict!Retry
  <1>3. CASE Verdict!Take
    BY <1>3 DEF Verdict!Take
  <1>4. CASE Verdict!Attempt
    <2>1. verdictServer' \in VerdictRow /\ verdictServer'.count = verdictServer.count + 1
      BY <1>4 DEF Verdict!Attempt
    <2>. QED BY <1>4, <2>1 DEF Verdict!Attempt
  <1>5. CASE Verdict!Press
    BY <1>5 DEF Verdict!Press
  <1>6. CASE Verdict!Accept
    <2>1. verdictRequest' \in VerdictRequests
      BY <1>6 DEF Verdict!Accept
    <2>2. verdictServer' \in VerdictRow /\ verdictServer'.count = verdictServer.count
      BY <1>6 DEF Verdict!Accept, Verdict!Retry
    <2>. QED BY <1>6, <2>1, <2>2 DEF Verdict!Accept
  <1>7. CASE Verdict!Refused
    BY <1>7 DEF Verdict!Refused
  <1>8. CASE Verdict!Answered
    <2>1. verdictRequest.count \in Nat /\ verdictRequest' \in VerdictRequests
          /\ verdictLoads' \subseteq Nat
      BY <1>8 DEF Verdict!Answered, Verdict!Read
    <2>2. verdictAwaiting' # NoValue => verdictAwaiting' \in Nat
      BY <1>8, <2>1 DEF Verdict!Answered, Verdict!Render, Verdict!CountAtRetry
    <2>3. verdictOutcome' # NoValue =>
             verdictOutcome'.n \in Nat /\ verdictOutcome'.n <= verdictServer.count
      BY <1>8 DEF Verdict!Answered, Verdict!Render
    <2>. QED BY <1>8, <2>1, <2>2, <2>3 DEF Verdict!Answered
  <1>9. CASE Verdict!Finish
    BY <1>9 DEF Verdict!Finish
  <1>10. ASSUME NEW n \in verdictLoads, Verdict!LoadLands(n)
         PROVE VerdictTyped' /\ verdictServer'.count >= verdictServer.count
    <2>1. n \in Nat /\ verdictAttempts' \in Nat /\ verdictLoads' \subseteq Nat
          /\ verdictServer.count \in Nat
      BY <1>10 DEF Verdict!LoadLands
    <2>. QED BY <1>10, <2>1 DEF Verdict!LoadLands
  <1>11. CASE Verdict!Open
    <2>1. verdictAttempts' = NoValue /\ verdictLoads' \subseteq Nat /\ verdictServer.count \in Nat
      BY <1>11 DEF Verdict!Open, Verdict!Read
    <2>. QED BY <1>11, <2>1 DEF Verdict!Open
  <1>12. CASE Verdict!Poll
    BY <1>12 DEF Verdict!Poll
  <1>13. CASE Verdict!PollLands
    <2>1. verdictPoll \in VerdictRow /\ verdictPoll.count <= verdictServer.count
          /\ verdictLoads' \subseteq Nat
      BY <1>13 DEF Verdict!PollLands, Verdict!AnnounceReads, Verdict!Read
    <2>2. (verdictAwaiting' # NoValue => verdictAwaiting' \in Nat)
          /\ (verdictOutcome' # NoValue =>
                 verdictOutcome'.n \in Nat /\ verdictOutcome'.n <= verdictServer.count)
      BY <1>13, <2>1 DEF Verdict!PollLands, Verdict!Render
    <2>. QED BY <1>13, <2>1, <2>2 DEF Verdict!PollLands
  <1>. HIDE DEF VerdictTyped
  <1>. QED BY <1>1, <1>2, <1>3, <1>4, <1>5, <1>6, <1>7, <1>8, <1>9, <1>10, <1>11, <1>12,
       <1>13
       DEF Verdict!Next

LEMMA VerdictTimelineGoesOn ==
    ASSUME Verdict!VerdictAssumption, VerdictTyped, VerdictTimeline,
           verdictOvertaken \in BOOLEAN, [Verdict!Next]_verdictVars
    PROVE  VerdictTimeline' /\ verdictOvertaken' \in BOOLEAN
  <1>. USE DEF VerdictTimeline
  <1>1. CASE UNCHANGED <<verdictOutcome, verdictAttempts, verdictLoads, verdictOvertaken>>
    BY <1>1
  <1>2. CASE Verdict!Press
    BY <1>2 DEF Verdict!Press
  <1>3. CASE Verdict!Answered
    BY <1>3 DEF Verdict!Answered, Verdict!Render, Verdict!Read, VerdictTyped, VerdictRow
  <1>4. ASSUME NEW n \in verdictLoads, Verdict!LoadLands(n)
        PROVE  VerdictTimeline' /\ verdictOvertaken' \in BOOLEAN
    <2>1. (verdictOvertaken \/ (verdictAttempts # NoValue /\ verdictAttempts > n) => verdictOvertaken')
          /\ verdictOvertaken' \in BOOLEAN /\ verdictAttempts' = n /\ n \in Nat
          /\ verdictLoads' = verdictLoads \ {n} /\ verdictOutcome' = verdictOutcome
      BY <1>4 DEF Verdict!LoadLands, VerdictTyped
    <2>2. CASE verdictOutcome # NoValue /\ ~verdictOvertaken'
      <3>1. verdictOutcome.n \in Nat
        BY <2>2 DEF VerdictTyped
      <3>2. CASE n >= verdictOutcome.n
        BY <2>1, <3>2 DEF Verdict!VerdictAssumption
      <3>3. CASE ~(n >= verdictOutcome.n)
        <4>1. ASSUME verdictAttempts # NoValue PROVE ~(verdictAttempts >= verdictOutcome.n)
          <5>1. verdictAttempts \in Nat
            BY <4>1 DEF VerdictTyped
          <5>2. ~(verdictAttempts > n)
            BY <2>1, <2>2, <4>1
          <5>. QED BY <2>1, <3>1, <3>3, <5>1, <5>2
        <4>2. PICK m \in verdictLoads : m >= verdictOutcome.n
          BY <2>1, <2>2, <4>1
        <4>. QED BY <2>1, <3>3, <4>2
      <3>. QED BY <3>2, <3>3
    <2>3. verdictOvertaken' \in BOOLEAN
      BY <2>1
    <2>. QED BY <2>1, <2>2, <2>3
  <1>5. CASE Verdict!Open
    BY <1>5 DEF Verdict!Open, Verdict!Read, VerdictTyped, VerdictRow
  <1>6. CASE Verdict!PollLands
    <2>1. CASE verdictAwaiting # NoValue /\ Verdict!Verdict(verdictAwaiting, verdictPoll)
      BY <1>6, <2>1 DEF Verdict!PollLands, Verdict!Render, Verdict!AnnounceReads,
           Verdict!Read,
           VerdictTyped, VerdictRow
    <2>2. CASE ~(verdictAwaiting # NoValue /\ Verdict!Verdict(verdictAwaiting, verdictPoll))
      BY <1>6, <2>2 DEF Verdict!PollLands, Verdict!Render, Verdict!AnnounceReads,
           Verdict!Read
    <2>. QED BY <2>1, <2>2
  <1>. HIDE DEF VerdictTimeline
  <1>. QED BY <1>1, <1>2, <1>3, <1>4, <1>5, <1>6
       DEF Verdict!Next, Verdict!OthersRetry, Verdict!Take, Verdict!Attempt, Verdict!Accept,
           Verdict!Refused, Verdict!Finish, Verdict!Poll, verdictVars

LEMMA VerdictOwnGoesOn ==
    ASSUME Verdict!VerdictAssumption, VerdictTyped, VerdictOfOwnRetry, ~verdictOthers,
           [Verdict!Next]_verdictVars, ~verdictOthers'
    PROVE  VerdictOfOwnRetry'
  <1>. USE DEF VerdictOfOwnRetry, VerdictAsked, VerdictAllSeen, VerdictEndIsEnd, VerdictOver
  <1>1. CASE UNCHANGED verdictVars
    BY <1>1 DEF verdictVars
  <1>2. CASE Verdict!OthersRetry
    BY <1>2 DEF Verdict!OthersRetry
  <1>3. CASE Verdict!Take
    BY <1>3 DEF Verdict!Take, Verdict!Settled, VerdictTyped, VerdictRow
  <1>4. CASE Verdict!Attempt
    BY <1>4 DEF Verdict!Attempt, Verdict!Settled, VerdictTyped, VerdictRow
  <1>5. CASE Verdict!Press
    BY <1>5 DEF Verdict!Press
  <1>6. CASE Verdict!Accept
    <2>1. Verdict!Retry /\ verdictAccepted' = verdictServer.count
          /\ verdictRequest' = [verdictRequest EXCEPT !.step = "accepted"]
      BY <1>6 DEF Verdict!Accept
    <2>2. verdictRequest' = [count |-> verdictServer.count, step |-> "accepted"]
          /\ verdictRequest' # NoValue
      BY <1>6, <2>1 DEF Verdict!Accept, VerdictTyped, VerdictRequests, VerdictRow,
           Verdict!VerdictAssumption
    <2>3. verdictServer' = [verdictServer EXCEPT !.status = "pending"]
          /\ verdictServer.count \in Nat /\ verdictServer'.count = verdictServer.count
      BY <2>1 DEF Verdict!Retry, VerdictTyped, VerdictRow
    <2>. QED BY <1>6, <2>1, <2>2, <2>3 DEF Verdict!Accept, VerdictTyped, VerdictRow
  <1>7. CASE Verdict!Refused
    BY <1>7 DEF Verdict!Refused
  <1>8. CASE Verdict!Answered
    <2>1. CASE Verdict!Verdict(verdictRequest.count, verdictDelivery)
      BY <1>8, <2>1 DEF Verdict!Answered, Verdict!Render, Verdict!Verdict,
           Verdict!CountAtRetry,
           Verdict!VerdictAssumption
    <2>2. CASE ~Verdict!Verdict(verdictRequest.count, verdictDelivery)
      BY <1>8, <2>2 DEF Verdict!Answered, Verdict!Render, Verdict!CountAtRetry,
           Verdict!VerdictAssumption
    <2>. QED BY <2>1, <2>2
  <1>9. CASE Verdict!Finish
    BY <1>9 DEF Verdict!Finish
  <1>10. ASSUME NEW n \in verdictLoads, Verdict!LoadLands(n) PROVE VerdictOfOwnRetry'
    BY <1>10 DEF Verdict!LoadLands
  <1>11. CASE Verdict!Open
    BY <1>11 DEF Verdict!Open
  <1>12. CASE Verdict!Poll
    BY <1>12 DEF Verdict!Poll
  <1>13. CASE Verdict!PollLands
    <2>1. CASE verdictAwaiting # NoValue /\ Verdict!Verdict(verdictAwaiting, verdictPoll)
      BY <1>13, <2>1 DEF Verdict!PollLands, Verdict!Render, Verdict!Verdict
    <2>2. CASE ~(verdictAwaiting # NoValue /\ Verdict!Verdict(verdictAwaiting, verdictPoll))
      BY <1>13, <2>2 DEF Verdict!PollLands, Verdict!Render
    <2>. QED BY <2>1, <2>2
  <1>. HIDE DEF VerdictOfOwnRetry
  <1>. QED BY <1>1, <1>2, <1>3, <1>4, <1>5, <1>6, <1>7, <1>8, <1>9, <1>10, <1>11, <1>12,
       <1>13
       DEF Verdict!Next

LEMMA VerdictGoesOn ==
    ASSUME Verdict!VerdictAssumption, VerdictInv, [Verdict!Next]_verdictVars PROVE VerdictInv'
  <1>1. VerdictTyped' BY VerdictTypedGoesOn DEF VerdictInv
  <1>2. VerdictTimeline' /\ verdictOvertaken' \in BOOLEAN BY VerdictTimelineGoesOn
       DEF VerdictInv
  <1>3. verdictOthers' \in BOOLEAN /\ (~verdictOthers' => ~verdictOthers)
    BY DEF VerdictInv, Verdict!Next, Verdict!OthersRetry, Verdict!Take, Verdict!Attempt,
         Verdict!Press,
       Verdict!Accept, Verdict!Refused, Verdict!Answered, Verdict!Finish, Verdict!LoadLands,
       Verdict!Open, Verdict!Poll, Verdict!PollLands, verdictVars
  <1>4. ~verdictOthers' => VerdictOfOwnRetry' BY <1>3, VerdictOwnGoesOn DEF VerdictInv
  <1>. QED BY <1>1, <1>2, <1>3, <1>4 DEF VerdictInv

LEMMA VerdictsAreTrue ==
    ASSUME VerdictInv PROVE Verdict!VerdictIsOwn /\ Verdict!TimelineNamesAttempt
  BY DEF VerdictInv, VerdictOfOwnRetry, VerdictTimeline, Verdict!VerdictIsOwn,
       Verdict!TimelineNamesAttempt

-----------------------------------------------------------------------------
(* The tokens of a Channel on its Settings tab.                            *)

TokenTyped ==
    /\ tokenStored \in [TokenChannels -> SUBSET TokenTokens]
    /\ tokenFresh \subseteq TokenTokens
    /\ tokenList \in [TokenChannels -> {NoValue} \cup SUBSET TokenTokens]
    /\ tokenLoadError \in [TokenChannels -> BOOLEAN]
    /\ tokenFetch \in [TokenChannels -> {NoValue, TokensTab!Unread} \cup [read : SUBSET TokenTokens]]
    /\ tokenChannelId \in TokenChannels
    /\ tokenMinted \in TokenTokens \cup {NoValue}
    /\ tokenMint # NoValue => tokenMint \in TokensTab!Mints

\* Every token is in one place: yet to be minted, or in one Channel.
TokenPlaces ==
    \A c \in TokenChannels :
        /\ tokenStored[c] \cap tokenFresh = {}
        /\ \A e \in TokenChannels : e # c => tokenStored[c] \cap tokenStored[e] = {}

\* A secret nobody has seen is not on show, nor withdrawn, nor the one a
\* revocation under way was pressed over.
TokenUnseen(t) ==
    /\ tokenMinted # t /\ t \notin tokenWithdrawn
    /\ tokenRevoke # NoValue => tokenRevoke.shown # t

TokenSecrets ==
    /\ tokenMinted \notin tokenWithdrawn /\ NoValue \notin tokenWithdrawn
    /\ tokenRevoke # NoValue => tokenRevoke.token # NoValue
    /\ \A t \in tokenFresh : TokenUnseen(t)
    /\ tokenMint # NoValue /\ tokenMint.at = "served" =>
          /\ tokenMint.token \in TokenTokens \ tokenFresh
          /\ TokenUnseen(tokenMint.token)
          /\ \A c \in TokenChannels : tokenMint.token \in tokenStored[c] => c = tokenMint.channel

TokenShown == tokenMinted # NoValue /\ tokenMinted \in tokenStored[tokenChannelId]

\* A list is as new as the token on show: it was read after the mint, or will
\* be read again for it.
TokenLists ==
    TokenShown =>
        /\ tokenFetch[tokenChannelId] # NoValue /\ tokenFetch[tokenChannelId].read # NoValue =>
              tokenMinted \in tokenFetch[tokenChannelId].read
        /\ \/ TokensTab!Listed(tokenMinted)
           \/ tokenLoadError[tokenChannelId]
           \/ /\ tokenMint # NoValue /\ tokenMint.at = "refetching"
              /\ tokenMint.channel = tokenChannelId

TokenInv == TokenTyped /\ TokenPlaces /\ TokenSecrets /\ TokenLists

LEMMA TokenBegins == ASSUME TokensTab!TokenAssumption, TokensTab!Init PROVE TokenInv
  <1>. USE DEF TokensTab!TokenAssumption, TokensTab!Init
  <1>1. TokenTyped
    <2>1. tokenStored \in [TokenChannels -> SUBSET TokenTokens]
      OBVIOUS
    <2>2. tokenFresh \subseteq TokenTokens /\ tokenChannelId \in TokenChannels
      OBVIOUS
    <2>3. /\ tokenList \in [TokenChannels -> {NoValue} \cup SUBSET TokenTokens]
          /\ tokenLoadError \in [TokenChannels -> BOOLEAN]
          /\ tokenFetch \in [TokenChannels -> {NoValue, TokensTab!Unread} \cup [read : SUBSET TokenTokens]]
      OBVIOUS
    <2>. QED BY <2>1, <2>2, <2>3 DEF TokenTyped
  <1>2. TokenPlaces
    <2>1. \A c \in TokenChannels : c # TokenHome => tokenStored[c] = {}
      OBVIOUS
    <2>2. ASSUME NEW c \in TokenChannels PROVE tokenStored[c] \cap tokenFresh = {}
      OBVIOUS
    <2>. QED BY <2>1, <2>2 DEF TokenPlaces
  <1>3. TokenSecrets
    BY DEF TokenSecrets, TokenUnseen
  <1>4. TokenLists
    BY DEF TokenLists, TokenShown
  <1>. QED BY <1>1, <1>2, <1>3, <1>4 DEF TokenInv

LEMMA TokenMintsAreCalls ==
    ASSUME TokensTab!TokenAssumption, tokenMint \in TokensTab!Mints
    PROVE  /\ tokenMint # NoValue
           /\ [tokenMint EXCEPT !.at = "refetching"] \in TokensTab!Mints
           /\ [tokenMint EXCEPT !.at = "refetching"] # NoValue
           /\ [tokenMint EXCEPT !.at = "refetching"].at = "refetching"
           /\ [tokenMint EXCEPT !.at = "refetching"].channel = tokenMint.channel
  <1>1. [tokenMint EXCEPT !.at = "refetching"] \in TokensTab!Mints
    BY DEF TokensTab!Mints
  <1>. QED BY <1>1 DEF TokensTab!TokenAssumption, TokensTab!Mints

LEMMA TokenTypedGoesOn ==
    ASSUME TokensTab!TokenAssumption, TokenTyped, TokenSecrets, [TokensTab!Next]_tokenVars
    PROVE  TokenTyped'
  <1>. USE DEF TokenTyped
  <1>1. CASE UNCHANGED tokenVars
    BY <1>1 DEF tokenVars
  <1>2. CASE TokensTab!Poll
    BY <1>2 DEF TokensTab!Poll, TokensTab!panel
  <1>3. ASSUME NEW c \in TokenChannels, TokensTab!FetchReads(c) PROVE TokenTyped'
    BY <1>3 DEF TokensTab!FetchReads, TokensTab!panel
  <1>4. ASSUME NEW c \in TokenChannels, TokensTab!FetchSettles(c) PROVE TokenTyped'
    <2>1. tokenList' \in [TokenChannels -> {NoValue} \cup SUBSET TokenTokens]
      <3>1. CASE /\ tokenFetch[c].read # NoValue
                 /\ tokenList' = [tokenList EXCEPT ![c] = tokenFetch[c].read]
        <4>1. tokenFetch[c] \in [read : SUBSET TokenTokens]
          BY <1>4, <3>1 DEF TokensTab!FetchSettles, TokensTab!Unread
        <4>. QED BY <3>1, <4>1
      <3>. QED BY <1>4, <3>1 DEF TokensTab!FetchSettles
    <2>2. tokenLoadError' \in [TokenChannels -> BOOLEAN]
      BY <1>4 DEF TokensTab!FetchSettles
    <2>3. tokenMint' # NoValue => tokenMint' = tokenMint
      BY <1>4 DEF TokensTab!FetchSettles, TokensTab!Awaited
    <2>. QED BY <1>4, <2>1, <2>2, <2>3 DEF TokensTab!FetchSettles
  <1>5. ASSUME NEW c \in TokenChannels, TokensTab!MoveTo(c) PROVE TokenTyped'
    BY <1>5 DEF TokensTab!MoveTo
  <1>6. CASE TokensTab!PressMint
    BY <1>6 DEF TokensTab!PressMint, TokensTab!Mints
  <1>7. ASSUME NEW t \in TokenTokens, TokensTab!MintServed(t) PROVE TokenTyped'
    <2>1. tokenMint \in TokensTab!Mints /\ tokenMint' \in TokensTab!Mints
          /\ tokenMint.channel \in TokenChannels
      BY <1>7 DEF TokensTab!MintServed, TokensTab!Mints
    <2>. QED BY <1>7, <2>1 DEF TokensTab!MintServed
  <1>8. CASE TokensTab!MintAnswered
    <2>1. tokenMint \in TokensTab!Mints /\ tokenMint.token \in TokenTokens
      BY <1>8 DEF TokensTab!MintAnswered, TokenSecrets
    <2>2. tokenMint' # NoValue => tokenMint' \in TokensTab!Mints
      BY <1>8, <2>1, TokenMintsAreCalls DEF TokensTab!MintAnswered, TokensTab!Refetching
    <2>. QED BY <1>8, <2>1, <2>2 DEF TokensTab!MintAnswered, TokensTab!Invalidates
  <1>9. CASE TokensTab!MintFails
    BY <1>9 DEF TokensTab!MintFails
  <1>10. ASSUME NEW t \in TokenTokens, TokensTab!OpenRevoke(t) PROVE TokenTyped'
    BY <1>10 DEF TokensTab!OpenRevoke
  <1>11. CASE TokensTab!CancelRevoke
    BY <1>11 DEF TokensTab!CancelRevoke
  <1>12. CASE TokensTab!ConfirmRevoke
    BY <1>12 DEF TokensTab!ConfirmRevoke
  <1>13. CASE TokensTab!RevokeServed
    BY <1>13 DEF TokensTab!RevokeServed
  <1>14. CASE TokensTab!RevokeAnswered
    BY <1>14 DEF TokensTab!RevokeAnswered, TokensTab!Invalidates
  <1>15. CASE TokensTab!RevokeFails
    BY <1>15 DEF TokensTab!RevokeFails
  <1>16. ASSUME NEW c \in TokenChannels, NEW t \in TokenTokens, TokensTab!OthersRevoke(c, t)
         PROVE TokenTyped'
    BY <1>16 DEF TokensTab!OthersRevoke, TokensTab!panel
  <1>. HIDE DEF TokenTyped
  <1>. QED BY <1>1, <1>2, <1>3, <1>4, <1>5, <1>6, <1>7, <1>8, <1>9, <1>10, <1>11, <1>12,
       <1>13,
              <1>14, <1>15, <1>16 DEF TokensTab!Next

\* A step that takes tokens away at most keeps every token in one place.
LEMMA TokenPlacesGoesOn ==
    ASSUME TokensTab!TokenAssumption, TokenTyped, TokenPlaces, [TokensTab!Next]_tokenVars
    PROVE  TokenPlaces'
  <1>1. CASE tokenFresh' = tokenFresh
             /\ \A c \in TokenChannels : tokenStored'[c] \subseteq tokenStored[c]
    BY <1>1 DEF TokenPlaces
  <1>2. ASSUME NEW t \in TokenTokens, TokensTab!MintServed(t) PROVE TokenPlaces'
    <2>1. tokenMint.channel \in TokenChannels /\ t \in tokenFresh /\ tokenFresh' = tokenFresh \ {t}
      BY <1>2 DEF TokensTab!MintServed, TokenTyped, TokensTab!Mints
    <2>2. \A c \in TokenChannels :
             tokenStored'[c] =
                 IF c = tokenMint.channel THEN tokenStored[c] \cup {t} ELSE tokenStored[c]
      BY <1>2, <2>1 DEF TokensTab!MintServed, TokenTyped
    <2>3. ASSUME NEW c \in TokenChannels PROVE tokenStored'[c] \cap tokenFresh' = {}
      BY <2>1, <2>2 DEF TokenPlaces
    <2>4. ASSUME NEW c \in TokenChannels, NEW e \in TokenChannels, e # c
          PROVE  tokenStored'[c] \cap tokenStored'[e] = {}
      <3>1. t \notin tokenStored[c] /\ t \notin tokenStored[e] /\ tokenStored[c] \cap tokenStored[e] = {}
        BY <2>1, <2>4 DEF TokenPlaces
      <3>. QED BY <2>2, <2>4, <3>1
    <2>. QED BY <2>3, <2>4 DEF TokenPlaces
  <1>3. CASE TokensTab!RevokeServed
    <2>1. tokenStored' = [tokenStored EXCEPT ![tokenRevoke.channel] =
                             tokenStored[tokenRevoke.channel] \ {tokenRevoke.token}]
          /\ tokenFresh' = tokenFresh
      BY <1>3 DEF TokensTab!RevokeServed
    <2>. QED BY <1>1, <2>1 DEF TokenTyped
  <1>4. ASSUME NEW c \in TokenChannels, NEW t \in TokenTokens, TokensTab!OthersRevoke(c, t)
        PROVE  TokenPlaces'
    <2>1. tokenStored' = [tokenStored EXCEPT ![c] = tokenStored[c] \ {t}] /\ tokenFresh' = tokenFresh
      BY <1>4 DEF TokensTab!OthersRevoke
    <2>. QED BY <1>1, <2>1 DEF TokenTyped
  <1>5. CASE UNCHANGED <<tokenStored, tokenFresh>>
    BY <1>5 DEF TokenPlaces
  <1>. QED BY <1>2, <1>3, <1>4, <1>5
       DEF TokensTab!Next, TokensTab!Poll, TokensTab!FetchReads, TokensTab!FetchSettles,
           TokensTab!MoveTo, TokensTab!PressMint, TokensTab!MintAnswered,
           TokensTab!MintFails,
           TokensTab!OpenRevoke, TokensTab!CancelRevoke, TokensTab!ConfirmRevoke,
           TokensTab!RevokeAnswered, TokensTab!RevokeFails, TokensTab!panel, tokenVars

LEMMA TokenSecretsGoesOn ==
    ASSUME TokensTab!TokenAssumption, TokenTyped, TokenPlaces, TokenSecrets,
           [TokensTab!Next]_tokenVars
    PROVE  TokenSecrets'
  <1>. USE DEF TokenSecrets, TokenUnseen
  <1>1. CASE UNCHANGED tokenVars
    BY <1>1 DEF tokenVars
  <1>2. CASE TokensTab!Poll
    BY <1>2 DEF TokensTab!Poll, TokensTab!panel
  <1>3. ASSUME NEW c \in TokenChannels, TokensTab!FetchReads(c) PROVE TokenSecrets'
    BY <1>3 DEF TokensTab!FetchReads, TokensTab!panel
  <1>4. ASSUME NEW c \in TokenChannels, TokensTab!FetchSettles(c) PROVE TokenSecrets'
    <2>1. tokenMint' \in {NoValue, tokenMint} /\ tokenRevoke' \in {NoValue, tokenRevoke}
      BY <1>4 DEF TokensTab!FetchSettles, TokensTab!Awaited
    <2>. QED BY <1>4, <2>1 DEF TokensTab!FetchSettles
  <1>5. ASSUME NEW c \in TokenChannels, TokensTab!MoveTo(c) PROVE TokenSecrets'
    BY <1>5 DEF TokensTab!MoveTo, TokensTab!TokenAssumption, TokenTyped
  <1>6. CASE TokensTab!PressMint
    BY <1>6 DEF TokensTab!PressMint
  <1>7. ASSUME NEW t \in TokenTokens, TokensTab!MintServed(t) PROVE TokenSecrets'
    <2>1. tokenMint' = [tokenMint EXCEPT !.at = "served", !.token = t]
          /\ tokenMint \in TokensTab!Mints /\ t \in tokenFresh /\ tokenFresh' = tokenFresh \ {t}
          /\ tokenStored' = [tokenStored EXCEPT ![tokenMint.channel] = @ \cup {t}]
      BY <1>7 DEF TokensTab!MintServed, TokenTyped
    <2>2. tokenMint'.token = t /\ tokenMint'.channel = tokenMint.channel
          /\ tokenMint.channel \in TokenChannels
      BY <2>1 DEF TokensTab!Mints
    <2>3. \A c \in TokenChannels : t \in tokenStored'[c] => c = tokenMint.channel
      BY <2>1, <2>2 DEF TokenTyped, TokenPlaces
    <2>. QED BY <1>7, <2>1, <2>2, <2>3 DEF TokensTab!MintServed, TokenTyped
  <1>8. CASE TokensTab!MintAnswered
    <2>1. tokenMint \in TokensTab!Mints /\ tokenMint.token \in TokenTokens \ tokenFresh
          /\ tokenMinted' = tokenMint.token /\ TokenUnseen(tokenMint.token)
      BY <1>8 DEF TokensTab!MintAnswered, TokenTyped
    <2>2. tokenMint' # NoValue => tokenMint'.at = "refetching"
      BY <1>8, <2>1, TokenMintsAreCalls DEF TokensTab!MintAnswered, TokensTab!Refetching
    <2>. QED BY <1>8, <2>1, <2>2 DEF TokensTab!MintAnswered, TokenTyped
  <1>9. CASE TokensTab!MintFails
    BY <1>9 DEF TokensTab!MintFails
  <1>10. ASSUME NEW t \in TokenTokens, TokensTab!OpenRevoke(t) PROVE TokenSecrets'
    BY <1>10 DEF TokensTab!OpenRevoke
  <1>11. CASE TokensTab!CancelRevoke
    BY <1>11 DEF TokensTab!CancelRevoke
  <1>12. CASE TokensTab!ConfirmRevoke
    <2>1. tokenRevoke'.shown = tokenMinted /\ tokenRevoke'.token # NoValue
      BY <1>12 DEF TokensTab!ConfirmRevoke
    <2>. QED BY <1>12, <2>1 DEF TokensTab!ConfirmRevoke
  <1>13. CASE TokensTab!RevokeServed
    BY <1>13 DEF TokensTab!RevokeServed, TokenTyped
  <1>14. CASE TokensTab!RevokeAnswered
    <2>1. tokenRevoke' # NoValue =>
             tokenRevoke'.shown = tokenRevoke.shown /\ tokenRevoke'.token = tokenRevoke.token
      BY <1>14 DEF TokensTab!RevokeAnswered, TokensTab!Refetching
    <2>2. tokenWithdrawn' = IF tokenRevoke.shown = tokenRevoke.token
                            THEN tokenWithdrawn \cup {tokenRevoke.shown} ELSE tokenWithdrawn
      BY <1>14 DEF TokensTab!RevokeAnswered
    <2>3. tokenMinted' = IF tokenRevoke.shown = tokenRevoke.token THEN NoValue ELSE tokenMinted
      BY <1>14 DEF TokensTab!RevokeAnswered, TokensTab!HidesSecret
    <2>4. tokenRevoke # NoValue /\ tokenMint' = tokenMint /\ tokenFresh' = tokenFresh
          /\ tokenStored' = tokenStored
      BY <1>14 DEF TokensTab!RevokeAnswered
    <2>5. tokenMinted' \notin tokenWithdrawn' /\ NoValue \notin tokenWithdrawn'
      BY <2>2, <2>3, <2>4
    <2>6. ASSUME NEW t \in TokenTokens, TokenUnseen(t) PROVE TokenUnseen(t)'
      <3>1. t # NoValue
        BY DEF TokensTab!TokenAssumption
      <3>. QED BY <2>1, <2>2, <2>3, <2>4, <2>6, <3>1
    <2>7. \A t \in tokenFresh : t \in TokenTokens
      BY DEF TokenTyped
    <2>. QED BY <2>1, <2>4, <2>5, <2>6, <2>7
  <1>15. CASE TokensTab!RevokeFails
    BY <1>15 DEF TokensTab!RevokeFails
  <1>16. ASSUME NEW c \in TokenChannels, NEW t \in TokenTokens, TokensTab!OthersRevoke(c, t)
         PROVE TokenSecrets'
    BY <1>16 DEF TokensTab!OthersRevoke, TokensTab!panel, TokenTyped
  <1>. HIDE DEF TokenSecrets
  <1>. QED BY <1>1, <1>2, <1>3, <1>4, <1>5, <1>6, <1>7, <1>8, <1>9, <1>10, <1>11, <1>12,
       <1>13,
              <1>14, <1>15, <1>16 DEF TokensTab!Next

LEMMA TokenListsGoesOn ==
    ASSUME TokensTab!TokenAssumption, TokenTyped, TokenSecrets, TokenLists,
           [TokensTab!Next]_tokenVars
    PROVE  TokenLists'
  <1>. USE DEF TokenLists, TokenShown, TokensTab!Listed
  <1>0. tokenChannelId \in TokenChannels
    BY DEF TokenTyped
  <1>1. CASE UNCHANGED <<tokenStored, tokenList, tokenLoadError, tokenFetch, tokenChannelId,
                         tokenMinted, tokenMint>>
    BY <1>1
  <1>2. CASE TokensTab!Poll
    BY <1>2 DEF TokensTab!Poll, TokensTab!panel, TokensTab!Unread, TokenTyped
  <1>3. ASSUME NEW c \in TokenChannels, TokensTab!FetchReads(c) PROVE TokenLists'
    BY <1>3 DEF TokensTab!FetchReads, TokensTab!panel, TokenTyped
  <1>4. ASSUME NEW c \in TokenChannels, TokensTab!FetchSettles(c) PROVE TokenLists'
    <2>1. UNCHANGED <<tokenStored, tokenChannelId, tokenMinted>>
      BY <1>4 DEF TokensTab!FetchSettles
    <2>2. CASE c = tokenChannelId
      BY <1>4, <2>1, <2>2 DEF TokensTab!FetchSettles, TokenTyped
    <2>3. CASE c # tokenChannelId
      <3>1. /\ tokenFetch'[tokenChannelId] = tokenFetch[tokenChannelId]
            /\ tokenList'[tokenChannelId] = tokenList[tokenChannelId]
            /\ tokenLoadError'[tokenChannelId] = tokenLoadError[tokenChannelId]
        BY <1>4, <2>3 DEF TokensTab!FetchSettles, TokenTyped
      <3>2. tokenMint # NoValue /\ tokenMint.channel = tokenChannelId => tokenMint' = tokenMint
        BY <1>4, <2>3 DEF TokensTab!FetchSettles, TokensTab!Awaited
      <3>. QED BY <2>1, <3>1, <3>2
    <2>. QED BY <2>2, <2>3
  <1>5. ASSUME NEW c \in TokenChannels, TokensTab!MoveTo(c) PROVE TokenLists'
    BY <1>5 DEF TokensTab!MoveTo
  <1>6. CASE TokensTab!PressMint
    BY <1>6 DEF TokensTab!PressMint
  <1>7. ASSUME NEW t \in TokenTokens, TokensTab!MintServed(t) PROVE TokenLists'
    <2>1. tokenMinted # t /\ tokenMint.at # "refetching"
      BY <1>7 DEF TokensTab!MintServed, TokenSecrets, TokenUnseen
    <2>2. tokenMinted \in tokenStored'[tokenChannelId] => tokenMinted \in tokenStored[tokenChannelId]
      BY <1>7, <2>1 DEF TokensTab!MintServed, TokenTyped
    <2>. QED BY <1>7, <2>1, <2>2 DEF TokensTab!MintServed
  <1>8. CASE TokensTab!MintAnswered
    <2>1. tokenMint \in TokensTab!Mints /\ tokenMinted' = tokenMint.token
          /\ UNCHANGED <<tokenStored, tokenChannelId>>
      BY <1>8 DEF TokensTab!MintAnswered, TokenTyped
    <2>2. ASSUME TokenShown' PROVE tokenMint.channel = tokenChannelId
      BY <1>8, <2>1, <2>2, <1>0 DEF TokensTab!MintAnswered, TokenSecrets
    <2>3. ASSUME TokenShown'
          PROVE /\ tokenMint' # NoValue /\ tokenMint'.at = "refetching"
                /\ tokenMint'.channel = tokenChannelId
                /\ tokenFetch'[tokenChannelId].read = NoValue
      BY <1>8, <1>0, <2>1, <2>2, <2>3, TokenMintsAreCalls
         DEF TokensTab!MintAnswered, TokensTab!Refetching, TokensTab!Invalidates,
              TokensTab!Unread,
             TokenTyped
    <2>. QED BY <2>1, <2>3
  <1>9. CASE TokensTab!MintFails
    BY <1>9 DEF TokensTab!MintFails
  <1>10. CASE TokensTab!RevokeServed
    <2>1. tokenMinted \in tokenStored'[tokenChannelId] => tokenMinted \in tokenStored[tokenChannelId]
      BY <1>10, <1>0 DEF TokensTab!RevokeServed, TokenTyped
    <2>. QED BY <1>10, <2>1 DEF TokensTab!RevokeServed
  <1>11. CASE TokensTab!RevokeAnswered
    <2>1. tokenMinted' \in {NoValue, tokenMinted}
      BY <1>11 DEF TokensTab!RevokeAnswered
    <2>2. tokenFetch'[tokenChannelId] = tokenFetch[tokenChannelId]
          \/ tokenFetch'[tokenChannelId].read = NoValue
      BY <1>11, <1>0 DEF TokensTab!RevokeAnswered, TokensTab!Invalidates, TokensTab!Unread,
           TokenTyped
    <2>. QED BY <1>11, <2>1, <2>2 DEF TokensTab!RevokeAnswered
  <1>12. ASSUME NEW c \in TokenChannels, NEW t \in TokenTokens, TokensTab!OthersRevoke(c, t)
         PROVE TokenLists'
    <2>1. tokenMinted \in tokenStored'[tokenChannelId] => tokenMinted \in tokenStored[tokenChannelId]
      BY <1>12, <1>0 DEF TokensTab!OthersRevoke, TokenTyped
    <2>. QED BY <1>12, <2>1 DEF TokensTab!OthersRevoke, TokensTab!panel
  <1>. HIDE DEF TokenLists
  <1>. QED BY <1>1, <1>2, <1>3, <1>4, <1>5, <1>6, <1>7, <1>8, <1>9, <1>10, <1>11, <1>12
       DEF TokensTab!Next, TokensTab!OpenRevoke, TokensTab!CancelRevoke,
            TokensTab!ConfirmRevoke,
           TokensTab!RevokeFails, tokenVars

LEMMA TokenGoesOn ==
    ASSUME TokensTab!TokenAssumption, TokenInv, [TokensTab!Next]_tokenVars PROVE TokenInv'
  BY TokenTypedGoesOn, TokenPlacesGoesOn, TokenSecretsGoesOn, TokenListsGoesOn DEF TokenInv

LEMMA SecretsAreKept ==
    ASSUME TokenInv PROVE TokensTab!RevokedSecretIsGone /\ TokensTab!SecretIsListed
  BY DEF TokenInv, TokenSecrets, TokenLists, TokenShown,
         TokensTab!RevokedSecretIsGone, TokensTab!SecretIsListed

-----------------------------------------------------------------------------
(* Signing in. First the limiter's windows and the attempts they counted.   *)

\* The first of the attempts that the current window has counted.
FirstOf(ip) == Len(loginTried[ip]) - loginWindows[ip].count + 1

\* The attempts of an Ip are in the order of their times; those the window has
\* counted are the last ones, and it ends its length after the first of them.
WindowCounts(ip) ==
    /\ loginWindows[ip].count <= Len(loginTried[ip])
    /\ \A j \in DOMAIN loginTried[ip] : loginTried[ip][j].at <= loginClock
    /\ \A i, j \in DOMAIN loginTried[ip] :
          i <= j => loginTried[ip][i].at <= loginTried[ip][j].at
    /\ Len(loginTried[ip]) > 0 => loginWindows[ip].count > 0
    /\ loginWindows[ip].count > 0 =>
          loginTried[ip][FirstOf(ip)].at + LoginWindowTicks = loginWindows[ip].resetAt

\* MaxAttempts before the window's first attempt the window was another; and
\* attempts so far apart that they cannot be of two windows next to each other
\* are a window's length apart.
WindowsApart(ip) ==
    /\ loginWindows[ip].count > 0 =>
          \A i \in DOMAIN loginTried[ip] : i + LoginMaxAttempts <= FirstOf(ip) =>
             loginTried[ip][i].at + LoginWindowTicks <= loginTried[ip][FirstOf(ip)].at
    /\ \A i, j \in DOMAIN loginTried[ip] : i + 2 * LoginMaxAttempts <= j + 1 =>
          loginTried[ip][i].at + LoginWindowTicks <= loginTried[ip][j].at

WindowsInv == \A ip \in LoginIps : WindowCounts(ip) /\ WindowsApart(ip)

\* What is under way with a request, and what came of it.
Told(w) ==
    /\ w.reply = "rate_limited" => w.kind = "login"
    /\ w.kind = Login!None => w.reply = Login!None

\* While nothing was lost, what a request w, a page p and a cookie k of one
\* browser have to do with the limiter's window of its Ip and with each other:
\* a refusal carries the end of a window that is full, and so does a page that
\* waits; a page agrees with its cookie, and so will the page that has yet to
\* take in an answer.
Fits(w, p, k, ip) ==
    /\ w.reply # "failed"
    /\ w.reply = "rate_limited" /\ w.resetAt > loginClock =>
          loginWindows[ip].resetAt = w.resetAt /\ Login!Limited(ip)
    /\ p.resetAt > loginClock =>
          loginWindows[ip].resetAt = p.resetAt /\ Login!Limited(ip)
    /\ w.kind = "login" /\ w.reply = "ok" => w.key = loginServerKey
    /\ w.kind = "session" /\ w.reply # Login!None => (w.reply = "ok" <=> k = loginServerKey)
    /\ w.kind = "logout" => w.reply \in {Login!None, "ok"}
    /\ p.session = "loggedIn" => k = loginServerKey
    /\ p.session = "loggedOut" => k # loginServerKey

AllTold == \A b \in LoginBrowsers : Told(loginWire[b])
AllFit ==
    loginFaults = 0 => \A b \in LoginBrowsers :
        Fits(loginWire[b], loginPage[b], loginCookie[b], LoginIpOf[b])

LoginInv == Login!TypeOK /\ WindowsInv /\ AllTold /\ AllFit

LoginWires ==
    [kind : {Login!None, "session", "login", "logout"}, key : LoginKeys \cup {Login!None},
     reply : {Login!None, "ok", "unauthorized", "rate_limited", "failed"},
     resetAt : Nat, retryAfter : Nat]
LoginPages == [session : {"checking", "loggedOut", "loggedIn"}, resetAt : Nat]

LEMMA LoginBegins == ASSUME Login!LoginAssumption, Login!Init PROVE LoginInv
  <1>. USE DEF Login!LoginAssumption, Login!Init, Login!NoWindow, Login!FreshPage,
       Login!Quiet
  <1>1. loginServerKey \in LoginKeys
    OBVIOUS
  <1>2. Login!TypeOK
    BY <1>1 DEF Login!TypeOK, Login!None
  <1>3. WindowsInv
    BY DEF WindowsInv, WindowCounts, WindowsApart
  <1>4. AllTold /\ AllFit
    BY <1>1 DEF AllTold, Told, AllFit, Fits, Login!None
  <1>. QED BY <1>2, <1>3, <1>4 DEF LoginInv

\* An attempt that passes the limiter joins the window, or begins one.
LEMMA AttemptCounts ==
    ASSUME Login!LoginAssumption, LoginInv, NEW ip \in LoginIps, ~Login!Limited(ip),
           NEW wrong \in BOOLEAN,
           loginWindows' = [loginWindows EXCEPT ![ip] = Login!Counted(ip)],
           loginTried' = [loginTried EXCEPT ![ip] =
              Append(@, [at |-> loginClock, wrong |-> wrong])],
           loginClock' = loginClock
    PROVE  /\ loginWindows' \in [LoginIps -> [count : 0..LoginMaxAttempts, resetAt : Nat]]
           /\ loginTried' \in [LoginIps -> Seq(Login!Entry)]
           /\ WindowsInv'
  <1>. DEFINE t == loginTried[ip]
              c == loginWindows[ip].count
              n == Len(t)
  <1>1. /\ t \in Seq(Login!Entry) /\ c \in 0..LoginMaxAttempts /\ n \in Nat
        /\ loginWindows[ip].resetAt \in Nat /\ loginClock \in Nat
        /\ LoginMaxAttempts \in Nat \ {0} /\ LoginWindowTicks \in Nat \ {0}
        /\ loginWindows[ip] = [count |-> c, resetAt |-> loginWindows[ip].resetAt]
    BY DEF LoginInv, Login!TypeOK, Login!LoginAssumption
  <1>2. /\ \A i \in DOMAIN t : t[i].at \in Nat /\ t[i].at <= loginClock
        /\ DOMAIN t = 1..n
    <2>1. DOMAIN t = 1..n /\ \A i \in 1..n : t[i] \in Login!Entry
      BY <1>1
    <2>2. \A i \in DOMAIN t : t[i].at <= loginClock
      BY DEF LoginInv, WindowsInv, WindowCounts
    <2>. QED BY <2>1, <2>2 DEF Login!Entry
  <1>3. /\ loginTried'[ip] = Append(t, [at |-> loginClock, wrong |-> wrong])
        /\ loginWindows'[ip] = Login!Counted(ip)
        /\ loginTried' \in [LoginIps -> Seq(Login!Entry)]
    BY <1>1 DEF LoginInv, Login!TypeOK, Login!Entry
  <1>4. /\ Len(loginTried'[ip]) = n + 1 /\ DOMAIN loginTried'[ip] = 1..(n + 1)
        /\ \A i \in 1..n : loginTried'[ip][i] = t[i]
        /\ loginTried'[ip][n + 1].at = loginClock
    BY <1>1, <1>2, <1>3
  <1>5. /\ Login!Counted(ip) \in [count : 0..LoginMaxAttempts, resetAt : Nat]
        /\ Login!WindowOver(ip) =>
              /\ Login!Counted(ip).count = 1
              /\ Login!Counted(ip).resetAt = loginClock + LoginWindowTicks
        /\ ~Login!WindowOver(ip) =>
              /\ c > 0 /\ c < LoginMaxAttempts
              /\ Login!Counted(ip).count = c + 1
              /\ Login!Counted(ip).resetAt = loginWindows[ip].resetAt
    BY <1>1 DEF Login!Counted, Login!WindowOver, Login!Limited
  <1>6. loginWindows' \in [LoginIps -> [count : 0..LoginMaxAttempts, resetAt : Nat]]
    BY <1>5 DEF LoginInv, Login!TypeOK
  <1>7. WindowCounts(ip) /\ WindowsApart(ip)
    BY DEF LoginInv, WindowsInv
  <1>. HIDE DEF t, c, n
  <1>8. WindowCounts(ip)' /\ WindowsApart(ip)'
    <2>1. CASE Login!WindowOver(ip)
      <3>1. FirstOf(ip)' = n + 1 /\ loginWindows'[ip].count = 1
        BY <1>1, <1>3, <1>4, <1>5, <2>1 DEF FirstOf
      <3>2. WindowCounts(ip)'
        BY <1>1, <1>2, <1>3, <1>4, <1>5, <1>7, <2>1, <3>1 DEF WindowCounts, t, n, c
      <3>3. ASSUME NEW i \in 1..n, i + LoginMaxAttempts <= n + 1
            PROVE  t[i].at + LoginWindowTicks <= loginClock
        <4>1. c > 0 /\ i <= FirstOf(ip) /\ FirstOf(ip) \in 1..n
          BY <1>1, <1>7, <3>3 DEF WindowCounts, FirstOf, t, n, c
        <4>2. t[i].at <= t[FirstOf(ip)].at
          BY <1>2, <1>7, <4>1 DEF WindowCounts, t
        <4>3. t[FirstOf(ip)].at + LoginWindowTicks <= loginClock
          BY <1>7, <2>1, <4>1 DEF WindowCounts, Login!WindowOver, t, c
        <4>. QED BY <1>1, <1>2, <4>1, <4>2, <4>3
      <3>4. ASSUME NEW i \in 1..(n + 1), i + LoginMaxAttempts <= n + 1
            PROVE  loginTried'[ip][i].at + LoginWindowTicks <= loginTried'[ip][n + 1].at
        <4>1. i \in 1..n
          BY <1>1, <3>4
        <4>. QED BY <1>4, <3>3, <3>4, <4>1
      <3>5. ASSUME NEW i \in 1..(n + 1), NEW j \in 1..(n + 1),
                   i + 2 * LoginMaxAttempts <= j + 1
            PROVE  loginTried'[ip][i].at + LoginWindowTicks <= loginTried'[ip][j].at
        <4>1. i \in 1..n /\ (j = n + 1 => i + LoginMaxAttempts <= n + 1)
          BY <1>1, <3>5
        <4>2. CASE j = n + 1
          BY <3>4, <4>1, <4>2
        <4>3. CASE j # n + 1
          <5>1. j \in 1..n
            BY <1>1, <4>3
          <5>2. t[i].at + LoginWindowTicks <= t[j].at
            BY <1>2, <1>7, <3>5, <4>1, <5>1 DEF WindowsApart, t
          <5>. QED BY <1>4, <4>1, <5>1, <5>2
        <4>. QED BY <4>2, <4>3
      <3>6. WindowsApart(ip)'
        BY <1>4, <3>1, <3>4, <3>5 DEF WindowsApart
      <3>. QED BY <3>2, <3>6
    <2>2. CASE ~Login!WindowOver(ip)
      <3>1. FirstOf(ip)' = FirstOf(ip) /\ FirstOf(ip) \in 1..n /\ FirstOf(ip) = n - c + 1
        BY <1>1, <1>3, <1>4, <1>5, <1>7, <2>2 DEF FirstOf, WindowCounts, t, n, c
      <3>2. WindowCounts(ip)'
        BY <1>1, <1>2, <1>3, <1>4, <1>5, <1>7, <2>2, <3>1 DEF WindowCounts, t, n, c
      <3>3. ASSUME NEW i \in 1..n, i + 2 * LoginMaxAttempts <= n + 2
            PROVE  t[i].at + LoginWindowTicks <= loginClock
        <4>1. i + LoginMaxAttempts <= FirstOf(ip)
          BY <1>1, <1>5, <2>2, <3>1, <3>3
        <4>2. t[i].at + LoginWindowTicks <= t[FirstOf(ip)].at
          BY <1>2, <1>5, <1>7, <2>2, <4>1 DEF WindowsApart, t, c
        <4>. QED BY <1>1, <1>2, <3>1, <4>2
      <3>4. ASSUME NEW i \in 1..(n + 1), i + LoginMaxAttempts <= FirstOf(ip)
            PROVE  loginTried'[ip][i].at + LoginWindowTicks <= loginTried'[ip][FirstOf(ip)].at
        <4>1. i \in 1..n /\ c > 0
          BY <1>1, <1>5, <2>2, <3>1, <3>4
        <4>2. t[i].at + LoginWindowTicks <= t[FirstOf(ip)].at
          BY <1>2, <1>7, <3>4, <4>1 DEF WindowsApart, t, c
        <4>. QED BY <1>4, <3>1, <4>1, <4>2
      <3>5. ASSUME NEW i \in 1..(n + 1), NEW j \in 1..(n + 1),
                   i + 2 * LoginMaxAttempts <= j + 1
            PROVE  loginTried'[ip][i].at + LoginWindowTicks <= loginTried'[ip][j].at
        <4>1. i \in 1..n
          BY <1>1, <3>5
        <4>2. CASE j = n + 1
          <5>1. i + 2 * LoginMaxAttempts <= n + 2
            BY <1>1, <3>5, <4>2
          <5>. QED BY <1>4, <3>3, <4>1, <4>2, <5>1
        <4>3. CASE j # n + 1
          <5>1. j \in 1..n
            BY <1>1, <4>3
          <5>2. t[i].at + LoginWindowTicks <= t[j].at
            BY <1>2, <1>7, <3>5, <4>1, <5>1 DEF WindowsApart, t
          <5>. QED BY <1>4, <4>1, <5>1, <5>2
        <4>. QED BY <4>2, <4>3
      <3>6. WindowsApart(ip)'
        BY <1>4, <3>1, <3>4, <3>5 DEF WindowsApart
      <3>. QED BY <3>2, <3>6
    <2>. QED BY <2>1, <2>2
  <1>9. ASSUME NEW i \in LoginIps, i # ip PROVE WindowCounts(i)' /\ WindowsApart(i)'
    <2>1. loginTried'[i] = loginTried[i] /\ loginWindows'[i] = loginWindows[i]
      BY <1>9 DEF LoginInv, Login!TypeOK
    <2>. QED BY <2>1 DEF LoginInv, WindowsInv, WindowCounts, WindowsApart, FirstOf
  <1>. QED BY <1>3, <1>6, <1>8, <1>9 DEF WindowsInv

\* A request that is refused is told so whole.
LEMMA RefusalIsTimely ==
    ASSUME Login!LoginAssumption, NEW now \in Nat, NEW end \in Nat, loginClock = now
    PROVE  /\ Login!RetryAfter(end) \in Nat
           /\ now + Login!RetryAfter(end) * LoginTicksPerSecond >= end
  <1>. DEFINE t == LoginTicksPerSecond
              x == end - now + t - 1
  <1>1. t \in Nat \ {0} /\ x \in Int
    BY DEF Login!LoginAssumption
  <1>2. Login!RetryAfter(end) = IF x \div t < 1 THEN 1 ELSE x \div t
    BY DEF Login!RetryAfter
  <1>3. x \div t \in Int /\ (x \div t) * t + t > x
    <2>. HIDE DEF x, t
    <2>. QED BY <1>1
  <1>4. CASE x \div t < 1
    <2>1. x \div t <= 0
      BY <1>3, <1>4
    <2>2. (x \div t) * t <= 0
      <3>. HIDE DEF x, t
      <3>. QED BY <1>1, <1>3, <2>1
    <2>3. x < t
      <3>. HIDE DEF x, t
      <3>. QED BY <1>1, <1>3, <2>2
    <2>. QED BY <1>1, <1>2, <1>4, <2>3
  <1>5. CASE ~(x \div t < 1)
    <2>1. (x \div t) * t \in Int
      <3>. HIDE DEF x, t
      <3>. QED BY <1>1, <1>3
    <2>2. x \div t \in Nat /\ now + (x \div t) * t >= end
      BY <1>1, <1>3, <1>5, <2>1
    <2>. QED BY <1>2, <1>5, <2>2
  <1>. QED BY <1>4, <1>5

\* The windows of the limiter are moved by ServeLogin and Restart only.
LEMMA WindowsStay ==
    ASSUME LoginInv, loginWindows' = loginWindows, loginTried' = loginTried,
           loginClock' \in Nat, loginClock' >= loginClock,
           Login!LoginAssumption
    PROVE  WindowsInv'
  <1>1. \A ip \in LoginIps : \A j \in DOMAIN loginTried[ip] :
           loginTried[ip][j].at \in Nat /\ loginTried[ip][j].at <= loginClock
    <2>1. \A ip \in LoginIps : loginTried[ip] \in Seq(Login!Entry)
      BY DEF LoginInv, Login!TypeOK
    <2>2. \A ip \in LoginIps : \A j \in DOMAIN loginTried[ip] :
             loginTried[ip][j] \in Login!Entry
      BY <2>1
    <2>. QED BY <2>2 DEF LoginInv, Login!Entry, WindowsInv, WindowCounts
  <1>2. loginClock \in Nat
    BY DEF LoginInv, Login!TypeOK
  <1>3. \A ip \in LoginIps : WindowCounts(ip)' /\ WindowsApart(ip)'
    BY <1>1, <1>2 DEF LoginInv, WindowsInv, WindowCounts, WindowsApart, FirstOf
  <1>. QED BY <1>3 DEF WindowsInv

\* A browser's request w, page p and cookie k take the place of those it had;
\* its window counted an attempt, or none did.
LEMMA BrowserMoves ==
    ASSUME Login!LoginAssumption, LoginInv, NEW b \in LoginBrowsers,
           NEW w \in LoginWires, NEW p \in LoginPages, NEW k \in LoginKeys \cup {Login!None},
           loginWire' = [loginWire EXCEPT ![b] = w],
           loginPage' = [loginPage EXCEPT ![b] = p],
           loginCookie' = [loginCookie EXCEPT ![b] = k],
           loginSent' \in [LoginBrowsers -> 0..LoginMaxSent],
           loginFaults' \in 0..LoginMaxFaults, loginFaults' = 0 => loginFaults = 0,
           UNCHANGED <<loginClock, loginServerKey>>,
           loginWindows' \in [LoginIps -> [count : 0..LoginMaxAttempts, resetAt : Nat]],
           loginTried' \in [LoginIps -> Seq(Login!Entry)],
           WindowsInv',
           \A ip \in LoginIps : Login!Limited(ip) => loginWindows'[ip] = loginWindows[ip],
           Told(w), loginFaults' = 0 => Fits(w, p, k, LoginIpOf[b])
    PROVE  LoginInv'
  <1>1. /\ loginWire \in [LoginBrowsers -> LoginWires]
        /\ loginPage \in [LoginBrowsers -> LoginPages]
        /\ loginCookie \in [LoginBrowsers -> LoginKeys \cup {Login!None}]
        /\ loginClock \in Nat /\ loginServerKey \in LoginKeys
        /\ \A x \in LoginBrowsers : LoginIpOf[x] \in LoginIps
    BY DEF LoginInv, Login!TypeOK, LoginWires, LoginPages, Login!LoginAssumption
  <1>2. /\ loginWire' \in [LoginBrowsers -> LoginWires]
        /\ loginPage' \in [LoginBrowsers -> LoginPages]
        /\ loginCookie' \in [LoginBrowsers -> LoginKeys \cup {Login!None}]
    BY <1>1
  <1>3. Login!TypeOK'
    BY <1>1, <1>2 DEF Login!TypeOK, LoginWires, LoginPages
  <1>4. AllTold'
    BY <1>1 DEF LoginInv, AllTold
  <1>5. \A ip \in LoginIps : Login!Limited(ip) =>
           Login!Limited(ip)' /\ loginWindows'[ip] = loginWindows[ip]
    BY DEF Login!Limited, Login!WindowOver
  <1>6. ASSUME loginFaults' = 0, NEW x \in LoginBrowsers,
               NEW v \in LoginWires, NEW q \in LoginPages,
               NEW c \in LoginKeys \cup {Login!None},
               Fits(v, q, c, LoginIpOf[x])
        PROVE  /\ v.reply # "failed"
               /\ v.reply = "rate_limited" /\ v.resetAt > loginClock' =>
                     /\ loginWindows'[LoginIpOf[x]].resetAt = v.resetAt
                     /\ Login!Limited(LoginIpOf[x])'
               /\ q.resetAt > loginClock' =>
                     /\ loginWindows'[LoginIpOf[x]].resetAt = q.resetAt
                     /\ Login!Limited(LoginIpOf[x])'
               /\ v.kind = "login" /\ v.reply = "ok" => v.key = loginServerKey'
               /\ v.kind = "session" /\ v.reply # Login!None =>
                     (v.reply = "ok" <=> c = loginServerKey')
               /\ v.kind = "logout" => v.reply \in {Login!None, "ok"}
               /\ q.session = "loggedIn" => c = loginServerKey'
               /\ q.session = "loggedOut" => c # loginServerKey'
    BY <1>1, <1>5, <1>6 DEF Fits
  <1>7. ASSUME loginFaults' = 0, NEW x \in LoginBrowsers
        PROVE  Fits(loginWire[x], loginPage[x], loginCookie[x], LoginIpOf[x])'
    <2>1. Fits(loginWire'[x], loginPage'[x], loginCookie'[x], LoginIpOf[x])
      BY <1>1, <1>7 DEF LoginInv, AllFit
    <2>2. /\ loginWire'[x] \in LoginWires /\ loginPage'[x] \in LoginPages
          /\ loginCookie'[x] \in LoginKeys \cup {Login!None}
      BY <1>2
    <2>. HIDE DEF LoginWires, LoginPages
    <2>. QED BY <1>6, <1>7, <2>1, <2>2 DEF Fits
  <1>8. AllFit'
    BY <1>7 DEF AllFit
  <1>. QED BY <1>3, <1>4, <1>8 DEF LoginInv

LEMMA LoginServes ==
    ASSUME Login!LoginAssumption, LoginInv, NEW b \in LoginBrowsers, Login!ServeLogin(b)
    PROVE  LoginInv'
  <1>. DEFINE ip == LoginIpOf[b]
              wrong == loginWire[b].key # loginServerKey
  <1>1. /\ ip \in LoginIps /\ loginWindows[ip].resetAt \in Nat /\ loginClock \in Nat
        /\ loginWire[b].kind = "login" /\ loginWire[b].reply = Login!None
        /\ loginWire \in [LoginBrowsers -> LoginWires]
        /\ loginPage \in [LoginBrowsers -> LoginPages]
        /\ loginCookie \in [LoginBrowsers -> LoginKeys \cup {Login!None}]
    BY DEF Login!LoginAssumption, LoginInv, Login!TypeOK, Login!ServeLogin, Login!Serving,
       LoginWires, LoginPages
  <1>2. /\ UNCHANGED <<loginClock, loginServerKey, loginPage, loginCookie, loginSent,
                     loginFaults>>
        /\ loginPage' = [loginPage EXCEPT ![b] = loginPage[b]]
        /\ loginCookie' = [loginCookie EXCEPT ![b] = loginCookie[b]]
        /\ loginSent' \in [LoginBrowsers -> 0..LoginMaxSent]
        /\ loginFaults' \in 0..LoginMaxFaults
    BY <1>1 DEF Login!ServeLogin, LoginInv, Login!TypeOK
  <1>3. loginFaults = 0 => Fits(loginWire[b], loginPage[b], loginCookie[b], ip)
    BY DEF LoginInv, AllFit
  <1>4. CASE Login!Limited(ip)
    <2>. DEFINE w == [loginWire[b] EXCEPT !.reply = "rate_limited",
                 !.resetAt = loginWindows[ip].resetAt,
                 !.retryAfter = Login!RetryAfter(loginWindows[ip].resetAt)]
    <2>1. loginWire' = [loginWire EXCEPT ![b] = w] /\ UNCHANGED <<loginWindows, loginTried>>
      BY <1>1, <1>4 DEF Login!ServeLogin
    <2>2. Login!RetryAfter(loginWindows[ip].resetAt) \in Nat
      BY <1>1, RefusalIsTimely
    <2>3. WindowsInv'
      BY <1>1, <1>2, <2>1, WindowsStay
    <2>6. w \in LoginWires /\ loginPage[b] \in LoginPages
          /\ loginCookie[b] \in LoginKeys \cup {Login!None}
      BY <1>1, <2>2 DEF LoginWires
    <2>7. w.kind = "login" /\ w.reply = "rate_limited"
          /\ w.resetAt = loginWindows[ip].resetAt
      BY <1>1 DEF LoginWires
    <2>8. Told(w)
      BY <2>7 DEF Told, Login!None
    <2>4. loginFaults' = 0 => Fits(w, loginPage[b], loginCookie[b], ip)
      <3>. HIDE DEF w
      <3>. QED BY <1>2, <1>3, <1>4, <2>7 DEF Fits
    <2>5. /\ loginWindows' \in [LoginIps -> [count : 0..LoginMaxAttempts, resetAt : Nat]]
          /\ loginTried' \in [LoginIps -> Seq(Login!Entry)]
      BY <2>1 DEF LoginInv, Login!TypeOK
    <2>. HIDE DEF w
    <2>. QED BY <1>2, <2>1, <2>3, <2>4, <2>5, <2>6, <2>8, BrowserMoves
  <1>5. CASE ~Login!Limited(ip)
    <2>. DEFINE w == [loginWire[b] EXCEPT !.reply = IF wrong THEN "unauthorized" ELSE "ok"]
    <2>1. /\ loginWindows' = [loginWindows EXCEPT ![ip] = Login!Counted(ip)]
          /\ loginTried' = [loginTried EXCEPT ![ip] =
                Append(@, [at |-> loginClock, wrong |-> wrong])]
          /\ loginWire' = [loginWire EXCEPT ![b] = w]
      BY <1>1, <1>5 DEF Login!ServeLogin
    <2>2. /\ loginWindows' \in [LoginIps -> [count : 0..LoginMaxAttempts, resetAt : Nat]]
          /\ loginTried' \in [LoginIps -> Seq(Login!Entry)]
          /\ WindowsInv'
      BY <1>1, <1>2, <1>5, <2>1, AttemptCounts
    <2>3. \A i \in LoginIps : Login!Limited(i) => loginWindows'[i] = loginWindows[i]
      BY <1>5, <2>1 DEF LoginInv, Login!TypeOK
    <2>4. w \in LoginWires /\ loginPage[b] \in LoginPages
          /\ loginCookie[b] \in LoginKeys \cup {Login!None}
      BY <1>1 DEF LoginWires
    <2>5. Told(w) /\ (loginFaults' = 0 => Fits(w, loginPage[b], loginCookie[b], ip))
      BY <1>1, <1>2, <1>3 DEF LoginWires, Told, Fits, Login!None
    <2>. HIDE DEF w
    <2>. QED BY <1>2, <2>1, <2>2, <2>3, <2>4, <2>5, BrowserMoves, ZenonT(30)
  <1>. QED BY <1>4, <1>5

LEMMA LoginTicks ==
    ASSUME Login!LoginAssumption, LoginInv, Login!Tick \/ Login!Restart PROVE LoginInv'
  <1>0. /\ loginClock \in Nat /\ \A i \in LoginIps : loginWindows[i].resetAt \in Nat
        /\ \A x \in LoginBrowsers : /\ LoginIpOf[x] \in LoginIps
                                    /\ loginWire[x].resetAt \in Nat
                                    /\ loginPage[x].resetAt \in Nat
    BY DEF LoginInv, Login!TypeOK, Login!LoginAssumption
  <1>1. CASE Login!Tick
    <2>1. loginClock' = loginClock + 1 /\ UNCHANGED <<loginServerKey, loginWindows,
         loginPage,
             loginCookie, loginWire, loginSent, loginFaults, loginTried>>
      BY <1>1 DEF Login!Tick, Login!apiVars
    <2>2. WindowsInv'
      BY <1>0, <2>1, WindowsStay
    <2>3. Login!TypeOK' /\ AllTold'
      BY <1>0, <2>1 DEF LoginInv, Login!TypeOK, AllTold
    <2>4. AllFit'
      BY <1>0, <2>1 DEF LoginInv, AllFit, Fits, Login!Limited, Login!WindowOver
    <2>. QED BY <2>2, <2>3, <2>4 DEF LoginInv
  <1>2. CASE Login!Restart
    <2>1. /\ loginFaults' # 0 /\ loginFaults' \in 0..LoginMaxFaults
          /\ loginServerKey' \in LoginKeys
          /\ loginWindows' = [i \in LoginIps |-> [count |-> 0, resetAt |-> 0]]
          /\ loginTried' = [i \in LoginIps |-> <<>>]
          /\ UNCHANGED <<loginClock, loginPage, loginCookie, loginWire, loginSent>>
      BY <1>2 DEF Login!Restart, Login!NoWindow, LoginInv, Login!TypeOK,
           Login!LoginAssumption
    <2>2. WindowsInv'
      BY <2>1 DEF WindowsInv, WindowCounts, WindowsApart
    <2>3. Login!TypeOK' /\ AllTold'
      BY <2>1 DEF LoginInv, Login!TypeOK, AllTold, Login!LoginAssumption
    <2>4. AllFit'
      BY <2>1 DEF AllFit
    <2>. QED BY <2>2, <2>3, <2>4 DEF LoginInv
  <1>. QED BY <1>1, <1>2

\* What is not the limiter's: the browser's side, and the requests it does not
\* count.
LEMMA BrowserGoesOn ==
    ASSUME Login!LoginAssumption, LoginInv, NEW b \in LoginBrowsers,
           \/ Login!ServeSession(b) \/ Login!ServeLogout(b) \/ Login!Lose(b)
           \/ Login!LoginAnswered(b) \/ Login!SessionChecked(b) \/ Login!SignedOut(b)
           \/ Login!Submit(b) \/ Login!SignOut(b) \/ Login!Reload(b)
           \/ Login!CooldownCleared(b)
    PROVE  LoginInv'
  <1>. DEFINE ip == LoginIpOf[b]
              w == loginWire[b]
              p == loginPage[b]
              k == loginCookie[b]
              Sent(kind, key) == [kind |-> kind, key |-> key, reply |-> Login!None,
                                  resetAt |-> 0, retryAfter |-> 0]
  <1>0. /\ loginClock \in Nat /\ loginServerKey \in LoginKeys
        /\ loginFaults \in 0..LoginMaxFaults /\ LoginMaxFaults \in Nat
        /\ loginSent \in [LoginBrowsers -> 0..LoginMaxSent] /\ LoginMaxSent \in Nat
        /\ Login!None \notin LoginKeys
        /\ loginWire \in [LoginBrowsers -> LoginWires] /\ w \in LoginWires
        /\ loginPage \in [LoginBrowsers -> LoginPages] /\ p \in LoginPages
        /\ loginCookie \in [LoginBrowsers -> LoginKeys \cup {Login!None}]
        /\ k \in LoginKeys \cup {Login!None} /\ ip \in LoginIps
        /\ loginWindows \in [LoginIps -> [count : 0..LoginMaxAttempts, resetAt : Nat]]
        /\ loginTried \in [LoginIps -> Seq(Login!Entry)]
    BY DEF LoginInv, Login!TypeOK, Login!LoginAssumption, LoginWires, LoginPages
  <1>1. UNCHANGED <<loginClock, loginServerKey, loginWindows, loginTried>>
    BY DEF Login!ServeSession, Login!ServeLogout, Login!Lose, Login!LoginAnswered,
       Login!SessionChecked, Login!SignedOut, Login!Submit, Login!SignOut, Login!Reload,
       Login!CooldownCleared, Login!apiVars
  <1>2. WindowsInv'
    BY <1>0, <1>1, WindowsStay
  <1>3. Told(w) /\ (loginFaults = 0 => Fits(w, p, k, ip))
    BY DEF LoginInv, AllTold, AllFit
  <1>4. ASSUME NEW v \in LoginWires, NEW q \in LoginPages,
               NEW c \in LoginKeys \cup {Login!None},
               loginWire' = [loginWire EXCEPT ![b] = v],
               loginPage' = [loginPage EXCEPT ![b] = q],
               loginCookie' = [loginCookie EXCEPT ![b] = c],
               loginSent' \in [LoginBrowsers -> 0..LoginMaxSent],
               loginFaults' \in 0..LoginMaxFaults, loginFaults' = 0 => loginFaults = 0,
               Told(v), loginFaults' = 0 => Fits(v, q, c, ip)
        PROVE  LoginInv'
    BY <1>0, <1>1, <1>2, <1>4, BrowserMoves
  <1>5. /\ loginWire = [loginWire EXCEPT ![b] = w]
        /\ loginPage = [loginPage EXCEPT ![b] = p]
        /\ loginCookie = [loginCookie EXCEPT ![b] = k]
    BY <1>0
  <1>6. ASSUME NEW kind \in {Login!None, "session", "login", "logout"},
               NEW key \in LoginKeys \cup {Login!None}
        PROVE  Sent(kind, key) \in LoginWires /\ Told(Sent(kind, key))
    <2>1. Sent(kind, key) \in LoginWires
      BY <1>6 DEF LoginWires
    <2>2. Told(Sent(kind, key))
      BY <1>6 DEF Told, Login!None
    <2>. QED BY <2>1, <2>2
  <1>7. ASSUME NEW kind \in {"session", "logout", "login"},
               NEW key \in LoginKeys \cup {Login!None}, Login!Send(b, kind, key)
        PROVE  /\ loginWire' = [loginWire EXCEPT ![b] = Sent(kind, key)]
               /\ loginSent' \in [LoginBrowsers -> 0..LoginMaxSent]
    <2>1. /\ loginWire' = [loginWire EXCEPT ![b] = Sent(kind, key)]
          /\ loginSent' = [loginSent EXCEPT ![b] = loginSent[b] + 1]
          /\ loginSent[b] < LoginMaxSent
      <3>1. [Login!Quiet EXCEPT !.kind = kind, !.key = key] = Sent(kind, key)
        <4>. DEFINE v == [Login!Quiet EXCEPT !.kind = kind, !.key = key]
        <4>1. /\ DOMAIN v = {"kind", "key", "reply", "resetAt", "retryAfter"}
              /\ v.kind = kind /\ v.key = key /\ v.reply = Login!None
              /\ v.resetAt = 0 /\ v.retryAfter = 0 /\ v = [v EXCEPT !.kind = kind]
          BY DEF Login!Quiet
        <4>. HIDE DEF v
        <4>2. v = Sent(kind, key)
          BY <4>1
        <4>. QED BY <4>2 DEF v
      <3>2. loginWire' = [loginWire EXCEPT ![b] =
               [Login!Quiet EXCEPT !.kind = kind, !.key = key]]
        BY <1>7 DEF Login!Send
      <3>3. /\ loginSent' = [loginSent EXCEPT ![b] = loginSent[b] + 1]
            /\ loginSent[b] < LoginMaxSent
        BY <1>0, <1>7 DEF Login!Send, Login!MaySend
      <3>. QED BY <3>1, <3>2, <3>3
    <2>2. loginSent[b] + 1 \in 0..LoginMaxSent
      BY <1>0, <2>1
    <2>. QED BY <1>0, <2>1, <2>2
  <1>8. ASSUME NEW reply \in {"ok", "unauthorized", "failed"}, w.kind # Login!None
        PROVE  /\ [w EXCEPT !.reply = reply] \in LoginWires
               /\ Told([w EXCEPT !.reply = reply])
    BY <1>0, <1>8 DEF LoginWires, Told
  <1>11. CASE Login!ServeSession(b)
    <2>. DEFINE reply == IF k = loginServerKey THEN "ok" ELSE "unauthorized"
                v == [w EXCEPT !.reply = reply]
    <2>1. /\ loginWire' = [loginWire EXCEPT ![b] = v] /\ w.kind = "session"
          /\ UNCHANGED <<loginPage, loginCookie, loginSent, loginFaults>>
      BY <1>0, <1>11 DEF Login!ServeSession, Login!Serving, Login!CookieValid
    <2>2. v \in LoginWires /\ Told(v)
      BY <1>8, <2>1 DEF Login!None
    <2>3. loginFaults = 0 => Fits(v, p, k, ip)
      BY <1>0, <1>3, <2>1 DEF Fits, LoginWires, Login!None
    <2>. QED BY <1>0, <1>4, <1>5, <2>1, <2>2, <2>3
  <1>12. CASE Login!ServeLogout(b)
    <2>. DEFINE v == [w EXCEPT !.reply = "ok"]
    <2>1. /\ loginWire' = [loginWire EXCEPT ![b] = v] /\ w.kind = "logout"
          /\ UNCHANGED <<loginPage, loginCookie, loginSent, loginFaults>>
      BY <1>0, <1>12 DEF Login!ServeLogout, Login!Serving
    <2>2. v \in LoginWires /\ Told(v)
      BY <1>8, <2>1 DEF Login!None
    <2>3. loginFaults = 0 => Fits(v, p, k, ip)
      BY <1>0, <1>3, <2>1 DEF Fits, LoginWires, Login!None
    <2>. QED BY <1>0, <1>4, <1>5, <2>1, <2>2, <2>3
  <1>13. CASE Login!Lose(b)
    <2>. DEFINE v == [w EXCEPT !.reply = "failed"]
    <2>1. /\ loginWire' = [loginWire EXCEPT ![b] = v] /\ w.kind # Login!None
          /\ UNCHANGED <<loginPage, loginCookie, loginSent>>
          /\ loginFaults' = loginFaults + 1 /\ loginFaults < LoginMaxFaults
      BY <1>0, <1>13 DEF Login!Lose
    <2>2. v \in LoginWires /\ Told(v)
      BY <1>8, <2>1
    <2>3. loginFaults' \in 0..LoginMaxFaults /\ loginFaults' # 0
      BY <1>0, <2>1
    <2>. HIDE DEF v, w, p, k
    <2>. QED BY <1>0, <1>4, <1>5, <2>1, <2>2, <2>3
  <1>14. CASE Login!LoginAnswered(b)
    <2>1. /\ loginWire' = [loginWire EXCEPT ![b] = Sent(Login!None, Login!None)]
          /\ w.kind = "login" /\ w.reply # Login!None
          /\ UNCHANGED <<loginSent, loginFaults>>
      BY <1>0, <1>14 DEF Login!LoginAnswered, Login!Quiet
    <2>2. CASE w.reply = "ok"
      <3>. DEFINE q == [p EXCEPT !.session = "loggedIn"]
      <3>1. /\ loginPage' = [loginPage EXCEPT ![b] = q]
            /\ loginCookie' = [loginCookie EXCEPT ![b] = w.key]
        BY <1>0, <1>14, <2>2 DEF Login!LoginAnswered
      <3>2. q \in LoginPages /\ w.key \in LoginKeys \cup {Login!None}
        BY <1>0 DEF LoginWires, LoginPages
      <3>3. loginFaults = 0 => Fits(Sent(Login!None, Login!None), q, w.key, ip)
        BY <1>0, <1>3, <2>1, <2>2 DEF Fits, LoginPages, Login!None
      <3>. QED BY <1>0, <1>4, <1>6, <2>1, <3>1, <3>2, <3>3
    <2>3. CASE w.reply = "rate_limited"
      <3>. DEFINE q == [p EXCEPT !.resetAt = w.resetAt]
      <3>1. /\ loginPage' = [loginPage EXCEPT ![b] = q] /\ UNCHANGED loginCookie
        BY <1>0, <1>14, <2>3 DEF Login!LoginAnswered, Login!CooldownEnd
      <3>2. q \in LoginPages
        BY <1>0 DEF LoginWires, LoginPages
      <3>3. loginFaults = 0 => Fits(Sent(Login!None, Login!None), q, k, ip)
        BY <1>0, <1>3, <2>1, <2>3 DEF Fits, LoginPages, Login!None
      <3>. QED BY <1>0, <1>4, <1>5, <1>6, <2>1, <3>1, <3>2, <3>3
    <2>4. CASE w.reply \notin {"ok", "rate_limited"}
      <3>1. UNCHANGED <<loginPage, loginCookie>>
        BY <1>14, <2>4 DEF Login!LoginAnswered
      <3>2. loginFaults = 0 => Fits(Sent(Login!None, Login!None), p, k, ip)
        BY <1>0, <1>3, <2>1 DEF Fits, Login!None
      <3>. QED BY <1>0, <1>4, <1>5, <1>6, <2>1, <3>1, <3>2
    <2>. QED BY <2>2, <2>3, <2>4
  <1>15. CASE Login!SessionChecked(b)
    <2>. DEFINE q == [p EXCEPT !.session = IF w.reply = "ok" THEN "loggedIn" ELSE "loggedOut"]
    <2>1. /\ loginWire' = [loginWire EXCEPT ![b] = Sent(Login!None, Login!None)]
          /\ w.kind = "session" /\ w.reply # Login!None
          /\ loginPage' = [loginPage EXCEPT ![b] = q]
          /\ UNCHANGED <<loginCookie, loginSent, loginFaults>>
      BY <1>0, <1>15 DEF Login!SessionChecked, Login!Quiet
    <2>2. q \in LoginPages
      BY <1>0 DEF LoginPages
    <2>3. loginFaults = 0 => Fits(Sent(Login!None, Login!None), q, k, ip)
      BY <1>0, <1>3, <2>1 DEF Fits, LoginPages, Login!None
    <2>. QED BY <1>0, <1>4, <1>5, <1>6, <2>1, <2>2, <2>3
  <1>16. CASE Login!SignedOut(b)
    <2>. DEFINE q == [session |-> "loggedOut", resetAt |-> 0]
                c == IF w.reply = "ok" THEN Login!None ELSE k
    <2>1. /\ loginWire' = [loginWire EXCEPT ![b] = Sent(Login!None, Login!None)]
          /\ w.kind = "logout" /\ w.reply # Login!None
          /\ loginPage' = [loginPage EXCEPT ![b] = q]
          /\ loginCookie' = [loginCookie EXCEPT ![b] = c]
          /\ UNCHANGED <<loginSent, loginFaults>>
      <3>1. [Login!FreshPage EXCEPT !.session = "loggedOut"] = q
        BY DEF Login!FreshPage
      <3>. QED BY <1>0, <1>16, <3>1 DEF Login!SignedOut, Login!Quiet, Login!ClearsCookie
    <2>2. q \in LoginPages /\ c \in LoginKeys \cup {Login!None}
      BY <1>0 DEF LoginPages
    <2>3. loginFaults = 0 => Fits(Sent(Login!None, Login!None), q, c, ip)
      BY <1>0, <1>3, <2>1 DEF Fits, LoginPages, Login!None
    <2>. QED BY <1>0, <1>4, <1>6, <2>1, <2>2, <2>3
  <1>17. CASE Login!Submit(b)
    <2>1. PICK key \in LoginKeys : Login!Send(b, "login", key)
      BY <1>17 DEF Login!Submit
    <2>2. UNCHANGED <<loginPage, loginCookie, loginFaults>>
      BY <1>17 DEF Login!Submit
    <2>3. loginFaults = 0 => Fits(Sent("login", key), p, k, ip)
      BY <1>0, <1>3 DEF Fits, Login!None
    <2>. QED BY <1>0, <1>4, <1>5, <1>6, <1>7, <2>1, <2>2, <2>3
  <1>18. CASE Login!SignOut(b)
    <2>1. Login!Send(b, "logout", Login!None)
          /\ UNCHANGED <<loginPage, loginCookie, loginFaults>>
      BY <1>18 DEF Login!SignOut
    <2>2. loginFaults = 0 => Fits(Sent("logout", Login!None), p, k, ip)
      BY <1>0, <1>3 DEF Fits, Login!None
    <2>. QED BY <1>0, <1>4, <1>5, <1>6, <1>7, <2>1, <2>2
  <1>19. CASE Login!Reload(b)
    <2>. DEFINE q == [session |-> "checking", resetAt |-> 0]
    <2>1. /\ Login!Send(b, "session", Login!None) /\ UNCHANGED <<loginCookie, loginFaults>>
          /\ loginPage' = [loginPage EXCEPT ![b] = q]
      BY <1>19 DEF Login!Reload, Login!FreshPage
    <2>2. q \in LoginPages
      BY DEF LoginPages
    <2>3. loginFaults = 0 => Fits(Sent("session", Login!None), q, k, ip)
      BY <1>0 DEF Fits, Login!None
    <2>4. /\ Sent("session", Login!None) \in LoginWires /\ Told(Sent("session", Login!None))
          /\ loginWire' = [loginWire EXCEPT ![b] = Sent("session", Login!None)]
          /\ loginSent' \in [LoginBrowsers -> 0..LoginMaxSent]
      BY <1>6, <1>7, <2>1
    <2>. HIDE DEF q, w, p, k, Sent
    <2>. QED BY <1>0, <1>4, <1>5, <2>1, <2>2, <2>3, <2>4
  <1>20. CASE Login!CooldownCleared(b)
    <2>. DEFINE q == [p EXCEPT !.resetAt = 0]
    <2>1. /\ loginPage' = [loginPage EXCEPT ![b] = q]
          /\ UNCHANGED <<loginWire, loginCookie, loginSent, loginFaults>>
      BY <1>0, <1>20 DEF Login!CooldownCleared
    <2>2. q \in LoginPages
      BY <1>0 DEF LoginPages
    <2>3. loginFaults = 0 => Fits(w, q, k, ip)
      BY <1>0, <1>3 DEF Fits, LoginPages
    <2>. QED BY <1>0, <1>3, <1>4, <1>5, <2>1, <2>2, <2>3
  <1>. QED BY <1>11, <1>12, <1>13, <1>14, <1>15, <1>16, <1>17, <1>18, <1>19, <1>20

LEMMA LoginGoesOn ==
    ASSUME Login!LoginAssumption, LoginInv, [Login!Next]_loginVars PROVE LoginInv'
  <1>1. CASE UNCHANGED loginVars
    BY <1>1 DEF loginVars, LoginInv, Login!TypeOK, WindowsInv, WindowCounts, WindowsApart,
       FirstOf, AllTold, AllFit, Fits, Login!Limited, Login!WindowOver
  <1>2. CASE Login!Next
    BY <1>2, LoginServes, LoginTicks, BrowserGoesOn
       DEF Login!Next, Login!Serve, Login!Answered, Login!Operate
  <1>. QED BY <1>1, <1>2

-----------------------------------------------------------------------------
LEMMA HasLeast ==
    ASSUME NEW S \in SUBSET Nat, S # {} PROVE \E least \in S : \A x \in S : least <= x
  <1>. DEFINE R == {ss \in Nat \X Nat : ss[1] < ss[2]}
  <1>1. IsWellFoundedOn(R, Nat)
    BY NatLessThanWellFounded DEF OpToRel
  <1>2. PICK least \in S : \A x \in S : ~(<<x, least>> \in R)
    <2>. HIDE DEF R
    <2>. QED BY <1>1, WFMin
  <1>3. ASSUME NEW x \in S PROVE least <= x
    <2>1. x \in Nat /\ least \in Nat /\ ~(<<x, least>> \in R)
      BY <1>2
    <2>. QED BY <2>1
  <1>. QED BY <1>3

\* Fewer than twice MaxAttempts attempts fall into a window's length.
LEMMA BurstsAreBounded ==
    ASSUME Login!LoginAssumption, LoginInv PROVE Login!BurstBounded
  <1>. SUFFICES ASSUME NEW ip \in LoginIps, NEW m \in DOMAIN loginTried[ip]
                PROVE  Login!Cardinality(Login!TriedFrom(ip, loginTried[ip][m].at))
                          < 2 * LoginMaxAttempts
    BY DEF Login!BurstBounded
  <1>. DEFINE t == loginTried[ip]
              n == Len(t)
              start == t[m].at
              T == Login!TriedFrom(ip, start)
  <1>1. /\ DOMAIN t = 1..n /\ n \in Nat /\ \A i \in 1..n : t[i].at \in Nat
        /\ LoginMaxAttempts \in Nat \ {0} /\ LoginWindowTicks \in Nat \ {0}
    <2>1. t \in Seq(Login!Entry)
      BY DEF LoginInv, Login!TypeOK
    <2>2. DOMAIN t = 1..n /\ n \in Nat /\ \A i \in 1..n : t[i] \in Login!Entry
      BY <2>1
    <2>. QED BY <2>2 DEF Login!Entry, Login!LoginAssumption
  <1>2. \A i, j \in 1..n : i + 2 * LoginMaxAttempts <= j + 1 =>
           t[i].at + LoginWindowTicks <= t[j].at
    BY <1>1 DEF LoginInv, WindowsInv, WindowsApart
  <1>3. T = {i \in 1..n : t[i].at >= start /\ t[i].at < start + LoginWindowTicks}
    BY <1>1 DEF Login!TriedFrom
  <1>. HIDE DEF t, n, T, start
  <1>4. start \in Nat /\ m \in T /\ T \subseteq 1..n
    BY <1>1, <1>3 DEF start, t
  <1>5. PICK first \in T : \A i \in T : first <= i
    BY <1>1, <1>4, HasLeast
  <1>6. T \subseteq first..(first + 2 * LoginMaxAttempts - 2)
    <2>1. ASSUME NEW i \in T, i + 1 >= first + 2 * LoginMaxAttempts PROVE FALSE
      <3>1. t[first].at + LoginWindowTicks <= t[i].at
        BY <1>1, <1>2, <1>3, <1>5, <2>1
      <3>2. t[first].at >= start /\ t[i].at < start + LoginWindowTicks
        BY <1>3, <1>5
      <3>. QED BY <1>1, <1>4, <1>5, <3>1, <3>2
    <2>. QED BY <1>1, <1>4, <1>5, <2>1
  <1>7. /\ IsFiniteSet(first..(first + 2 * LoginMaxAttempts - 2))
        /\ Cardinality(first..(first + 2 * LoginMaxAttempts - 2)) = 2 * LoginMaxAttempts - 1
    BY <1>1, <1>4, FS_Interval
  <1>8. Cardinality(T) <= 2 * LoginMaxAttempts - 1 /\ Cardinality(T) \in Nat
    BY <1>6, <1>7, FS_Subset, FS_CardinalityType
  <1>9. Login!Cardinality(T) = Cardinality(T)
    BY DEF Login!Cardinality, Cardinality
  <1>. QED BY <1>1, <1>8, <1>9 DEF T, t, start

\* A page that waits does so for a full window, and agrees with its cookie.
LEMMA PagesAgree ==
    ASSUME Login!LoginAssumption, LoginInv
    PROVE  Login!PageAgreesWithLimiter /\ Login!PageMatchesCookie
  BY DEF LoginInv, AllFit, Fits, Login!PageAgreesWithLimiter, Login!CoolingDown,
     Login!PageMatchesCookie, Login!CookieValid

\* Who is refused has MaxAttempts attempts of its Ip before it, within the
\* window's length; the seconds it is told to wait are enough; and a browser
\* has no second login under way.
LEMMA AttemptsCount ==
    ASSUME Login!LoginAssumption, LoginInv, [Login!Next]_loginVars
    PROVE  /\ Login!RefusedForCauseStep /\ Login!WaitSufficesStep
           /\ Login!OnePressOneAttemptStep
  <1>0. /\ loginWire \in [LoginBrowsers -> LoginWires]
        /\ loginSent \in [LoginBrowsers -> 0..LoginMaxSent] /\ LoginMaxSent \in Nat
        /\ loginClock \in Nat
    BY DEF LoginInv, Login!TypeOK, LoginWires, Login!LoginAssumption
  <1>1. ASSUME NEW b \in LoginBrowsers, loginWire[b].reply = Login!None,
               loginWire'[b].reply = "rate_limited"
        PROVE  /\ Login!Limited(LoginIpOf[b])
               /\ loginWire'[b].resetAt = loginWindows[LoginIpOf[b]].resetAt
               /\ loginWire'[b].retryAfter =
                     Login!RetryAfter(loginWindows[LoginIpOf[b]].resetAt)
    <2>1. Login!ServeLogin(b)
      <3>1. loginWire' # loginWire
        BY <1>1 DEF Login!None
      <3>2. PICK c \in LoginBrowsers :
               \/ Login!Serve(c) \/ Login!Lose(c) \/ Login!Answered(c) \/ Login!Operate(c)
        BY <3>1 DEF Login!Next, Login!Tick, Login!Restart, Login!CooldownCleared, loginVars
      <3>3. ASSUME ~Login!ServeLogin(c)
            PROVE  \E v : v.reply # "rate_limited" /\ loginWire' = [loginWire EXCEPT ![c] = v]
        <4>1. CASE Login!ServeSession(c) \/ Login!ServeLogout(c) \/ Login!Lose(c)
          <5>1. PICK reply \in {"ok", "unauthorized", "failed"} :
                   loginWire' = [loginWire EXCEPT ![c] = [loginWire[c] EXCEPT !.reply = reply]]
            BY <1>0, <4>1 DEF Login!ServeSession, Login!ServeLogout, Login!Lose
          <5>. QED BY <1>0, <5>1 DEF LoginWires
        <4>2. CASE Login!Answered(c)
          <5>1. loginWire' = [loginWire EXCEPT ![c] = Login!Quiet]
            BY <4>2 DEF Login!Answered, Login!LoginAnswered, Login!SessionChecked,
               Login!SignedOut
          <5>. QED BY <5>1 DEF Login!Quiet, Login!None
        <4>3. CASE Login!Operate(c)
          <5>1. PICK kind, key : Login!Send(c, kind, key)
            BY <4>3 DEF Login!Operate, Login!Submit, Login!SignOut, Login!Reload
          <5>. DEFINE v == [Login!Quiet EXCEPT !.kind = kind, !.key = key]
          <5>2. v.reply # "rate_limited"
            BY DEF Login!Quiet, Login!None
          <5>3. loginWire' = [loginWire EXCEPT ![c] = v]
            BY <5>1 DEF Login!Send
          <5>. QED BY <5>2, <5>3
        <4>. QED BY <3>2, <3>3, <4>1, <4>2, <4>3 DEF Login!Serve
      <3>4. CASE Login!ServeLogin(c)
        <4>1. loginWire'[b] = loginWire[b] \/ c = b
          BY <1>0, <3>4 DEF Login!ServeLogin
        <4>. QED BY <1>1, <3>4, <4>1 DEF Login!None
      <3>5. CASE ~Login!ServeLogin(c)
        <4>1. PICK v : v.reply # "rate_limited" /\ loginWire' = [loginWire EXCEPT ![c] = v]
          BY <3>3, <3>5
        <4>2. loginWire'[b] = loginWire[b] \/ loginWire'[b] = v
          BY <1>0, <4>1
        <4>. QED BY <1>1, <4>1, <4>2 DEF Login!None
      <3>. QED BY <3>4, <3>5
    <2>2. Login!Limited(LoginIpOf[b])
      BY <1>0, <1>1, <2>1 DEF Login!ServeLogin, LoginWires
    <2>. QED BY <1>0, <2>1, <2>2 DEF Login!ServeLogin, LoginWires
  <1>2. ASSUME NEW ip \in LoginIps, Login!Limited(ip)
        PROVE  Login!Cardinality(Login!TriedFrom(ip, loginClock - LoginWindowTicks + 1))
                  >= LoginMaxAttempts
    <2>. DEFINE t == loginTried[ip]
                n == Len(t)
                f == FirstOf(ip)
                T == Login!TriedFrom(ip, loginClock - LoginWindowTicks + 1)
    <2>1. /\ DOMAIN t = 1..n /\ n \in Nat /\ \A i \in 1..n : t[i].at \in Nat
          /\ LoginMaxAttempts \in Nat \ {0} /\ LoginWindowTicks \in Nat \ {0}
          /\ loginWindows[ip].count \in 0..LoginMaxAttempts
          /\ loginWindows[ip].resetAt \in Nat
      <3>1. t \in Seq(Login!Entry)
        BY DEF LoginInv, Login!TypeOK
      <3>2. DOMAIN t = 1..n /\ n \in Nat /\ \A i \in 1..n : t[i] \in Login!Entry
        BY <3>1
      <3>. QED BY <3>2 DEF Login!Entry, Login!LoginAssumption, LoginInv, Login!TypeOK
    <2>2. /\ loginWindows[ip].count = LoginMaxAttempts /\ loginWindows[ip].count > 0
          /\ loginClock < loginWindows[ip].resetAt
      BY <1>0, <1>2, <2>1 DEF Login!Limited, Login!WindowOver
    <2>3. /\ LoginMaxAttempts <= n /\ f = n - LoginMaxAttempts + 1
          /\ \A j \in 1..n : t[j].at <= loginClock
          /\ \A i, j \in 1..n : i <= j => t[i].at <= t[j].at
          /\ t[f].at + LoginWindowTicks = loginWindows[ip].resetAt
      BY <2>1, <2>2 DEF LoginInv, WindowsInv, WindowCounts, FirstOf
    <2>4. T = {i \in 1..n : /\ t[i].at >= loginClock - LoginWindowTicks + 1
                            /\ t[i].at < loginClock - LoginWindowTicks + 1 + LoginWindowTicks}
      BY <2>1 DEF Login!TriedFrom
    <2>. HIDE DEF t, n, f, T
    <2>5. f..n \subseteq T
      <3>1. ASSUME NEW i \in f..n PROVE i \in T
        <4>1. i \in 1..n /\ f \in 1..n /\ f <= i
          BY <2>1, <2>3
        <4>2. t[f].at <= t[i].at /\ t[i].at <= loginClock
          BY <2>3, <4>1
        <4>. QED BY <1>0, <2>1, <2>2, <2>3, <2>4, <4>1, <4>2
      <3>. QED BY <3>1
    <2>6. IsFiniteSet(1..n) /\ T \subseteq 1..n
      BY <2>1, <2>4, FS_Interval
    <2>7. Cardinality(f..n) = LoginMaxAttempts
      BY <2>1, <2>3, FS_Interval
    <2>8. Cardinality(T) >= LoginMaxAttempts
      BY <2>1, <2>5, <2>6, <2>7, FS_Subset, FS_CardinalityType
    <2>9. Login!Cardinality(T) = Cardinality(T)
      BY DEF Login!Cardinality, Cardinality
    <2>. QED BY <2>8, <2>9 DEF T
  <1>3. Login!RefusedForCauseStep
    <2>1. \A b \in LoginBrowsers : LoginIpOf[b] \in LoginIps
      BY DEF Login!LoginAssumption
    <2>. QED BY <1>1, <1>2, <2>1 DEF Login!RefusedForCauseStep
  <1>4. Login!WaitSufficesStep
    <2>1. ASSUME NEW b \in LoginBrowsers
          PROVE  /\ loginWindows[LoginIpOf[b]].resetAt \in Nat
      BY DEF LoginInv, Login!TypeOK, Login!LoginAssumption
    <2>2. ASSUME NEW end \in Nat
          PROVE  loginClock + Login!RetryAfter(end) * LoginTicksPerSecond >= end
      BY <1>0, RefusalIsTimely
    <2>3. ASSUME NEW b \in LoginBrowsers, loginWire[b].reply = Login!None,
                 loginWire'[b].reply = "rate_limited"
          PROVE  loginClock + loginWire'[b].retryAfter * LoginTicksPerSecond
                    >= loginWire'[b].resetAt
      BY <1>1, <2>1, <2>2, <2>3
    <2>. QED BY <2>3 DEF Login!WaitSufficesStep
  <1>5. Login!OnePressOneAttemptStep
    <2>1. SUFFICES ASSUME NEW b \in LoginBrowsers, loginWire[b].kind = "login",
                          loginWire'[b].kind = "login", loginSent'[b] # loginSent[b]
                   PROVE  FALSE
      BY SMTT(30) DEF Login!OnePressOneAttemptStep
    <2>2. PICK c \in LoginBrowsers : Login!Operate(c)
      BY <2>1 DEF Login!Next, Login!Tick, Login!Restart, Login!CooldownCleared, loginVars,
         Login!Serve, Login!ServeLogin, Login!ServeSession, Login!ServeLogout, Login!Lose,
         Login!Answered, Login!LoginAnswered, Login!SessionChecked, Login!SignedOut
    <2>3. c = b
      <3>1. loginSent' = [loginSent EXCEPT ![c] = @ + 1]
        BY <2>2 DEF Login!Operate, Login!Submit, Login!SignOut, Login!Reload, Login!Send
      <3>. QED BY <1>0, <2>1, <3>1
    <2>4. ~Login!Submit(c) /\ ~Login!SignOut(c)
      BY <2>1, <2>3 DEF Login!Submit, Login!SignOut, Login!Submitting, Login!None
    <2>5. loginWire' = [loginWire EXCEPT ![c] =
             [Login!Quiet EXCEPT !.kind = "session", !.key = Login!None]]
      BY <2>2, <2>4 DEF Login!Operate, Login!Reload, Login!Send
    <2>. QED BY <1>0, <2>1, <2>3, <2>5 DEF Login!Quiet
  <1>. QED BY <1>3, <1>4, <1>5

-----------------------------------------------------------------------------
(* The list of Broadcasts.                                                 *)

\* A list that is newest first and ends at its cursor, if it has one.
RunsDown(list, next) ==
    /\ list \in Seq(FeedBroadcasts) /\ next \in FeedBroadcasts \cup {NoCursor}
    /\ \A i, j \in DOMAIN list : i < j => list[j] < list[i]
    /\ next # NoCursor => list # <<>> /\ next = list[Len(list)]

\* A list that has each of some Broadcasts, down to its cursor.
Covers(list, next, some) ==
    \A b \in some : (\E i \in DOMAIN list : list[i] = b) \/ (next # NoCursor /\ b < next)

PagesOnTheWay ==
    /\ feedPoll # NoCursor =>
          /\ feedPoll.listed \subseteq FeedBroadcasts
          /\ RunsDown(feedPoll.page.items, feedPoll.page.next)
          /\ Covers(feedPoll.page.items, feedPoll.page.next, feedPoll.listed)
    /\ \A r \in feedLoads :
          /\ r.asked \in FeedBroadcasts /\ r.listed \subseteq FeedBroadcasts
          /\ RunsDown(r.page.items, r.page.next)
          /\ \A i \in DOMAIN r.page.items : r.page.items[i] < r.asked
          /\ Covers(r.page.items, r.page.next, {b \in r.listed : b < r.asked})

ListOnScreen ==
    /\ feedPage = Feed!NoData => feedCursor = NoCursor /\ feedLoads = {}
    /\ feedPage # Feed!NoData =>
          feedPage.items \in Seq(FeedBroadcasts) /\ feedExtra \in Seq(FeedBroadcasts)
    /\ feedPage # Feed!NoData /\ ~feedCrossed =>
          RunsDown(Feed!Items, feedCursor) /\ Covers(Feed!Items, feedCursor, feedKnown)

FeedInv ==
    /\ feedListed \subseteq FeedBroadcasts /\ feedKnown \subseteq feedListed
    /\ feedCursor \in FeedBroadcasts \cup {NoCursor} /\ feedCrossed \in BOOLEAN
    /\ PagesOnTheWay /\ ListOnScreen

\* Two that share receivedAt are told apart by their ids.
LEMMA ReceivedInOrder ==
    ASSUME NEW b \in Nat, NEW c \in Nat
    PROVE  Feed!Before(b, c) <=> b < c
  BY DEF Feed!Before, Feed!ReceivedAt

\* What the API answers, of what is listed when it is asked.
Asked(c) == {b \in feedListed : c # NoCursor => b < c}

LEMMA PageFacts ==
    ASSUME Feed!FeedAssumption, feedListed \subseteq FeedBroadcasts,
           NEW c \in FeedBroadcasts \cup {NoCursor}
    PROVE  /\ RunsDown(Feed!Page(c).items, Feed!Page(c).next)
           /\ Covers(Feed!Page(c).items, Feed!Page(c).next, Asked(c))
           /\ \A i \in DOMAIN Feed!Page(c).items : Feed!Page(c).items[i] \in Asked(c)
  <1>. DEFINE S == Asked(c)
              Pre == [b \in S |-> {a \in S : b < a}]
              rows == Feed!Rows(c)
              items == Feed!PageOf(rows, FeedLimit)
              more == Len(rows) > FeedLimit
              last == rows[FeedLimit]
  <1>1. Feed!Page(c).items = items /\ Feed!Page(c).next = IF more THEN last ELSE NoCursor
    BY DEF Feed!Page, Feed!NextCursor
  <1>2. \A b \in FeedBroadcasts : b \in Nat
    BY DEF Feed!FeedAssumption
  <1>3. IsFiniteSet(S) /\ S \subseteq FeedBroadcasts
    BY FS_Subset DEF Asked, Feed!FeedAssumption, Feed!IsFiniteSet, IsFiniteSet
  <1>4. \A b, d \in S : Feed!Before(b, d) <=> b < d
    BY <1>2, <1>3, ReceivedInOrder
  <1>5. rows = [i \in 1..Cardinality(S) |->
                  CHOOSE b \in S : Cardinality({a \in S : Feed!Before(b, a)}) = i - 1]
    <2>1. S = {b \in feedListed : c # NoCursor => Feed!Before(b, c)}
      BY <1>2, ReceivedInOrder DEF Asked
    <2>. HIDE DEF S
    <2>. QED BY <2>1 DEF Feed!Rows, Feed!InOrder, Feed!Cardinality, Cardinality
  <1>6. \A b \in S : Pre[b] = {a \in S : Feed!Before(b, a)}
    BY <1>4
  <1>7. \A a, b \in S : a \in Pre[b] <=> b < a
    OBVIOUS
  <1>8. Pre \in [S -> SUBSET S]
    OBVIOUS
  <1>. HIDE DEF S, Pre, rows
  <1>9. Orders(Pre, S)
    BY <1>2, <1>3, <1>7, <1>8 DEF Orders
  <1>10. Placed(rows, Pre, S)
    <2>1. ASSUME NEW i \in 1..Cardinality(S)
          PROVE  \E b \in S : Cardinality({a \in S : Feed!Before(b, a)}) = i - 1
      <3>1. PICK b \in S : Cardinality(Pre[b]) = i - 1
        BY <1>3, <1>9, EveryPlaceIsTaken
      <3>. QED BY <1>6, <3>1
    <2>2. ASSUME NEW i \in 1..Cardinality(S)
          PROVE  rows[i] \in S /\ Cardinality({a \in S : Feed!Before(rows[i], a)}) = i - 1
      BY <1>5, <2>1
    <2>3. rows \in [1..Cardinality(S) -> S]
      BY <1>5, <2>2
    <2>. QED BY <1>6, <2>2, <2>3 DEF Placed
  <1>11. FeedLimit \in Nat \ {0}
    BY DEF Feed!FeedAssumption
  <1>12. /\ rows \in Seq(S) /\ items \in Seq(S)
         /\ \A i \in DOMAIN items : i \in DOMAIN rows /\ items[i] = rows[i]
         /\ \A i, j \in DOMAIN rows : i < j => rows[i] \in Pre[rows[j]]
         /\ ~more => \A x \in S : Once(items, x)
         /\ more => /\ last \in S /\ Len(items) = FeedLimit
                    /\ \A x \in S : x = last \/ x \in Pre[last] => Once(items, x)
    BY <1>3, <1>9, <1>10, <1>11, PageHasItsRows DEF PageOf, Feed!PageOf
  <1>. HIDE DEF items, more
  <1>13. items \in Seq(FeedBroadcasts) /\ \A i \in DOMAIN items : items[i] \in S
    BY <1>3, <1>12
  <1>14. \A i, j \in DOMAIN items : i < j => items[j] < items[i]
    BY <1>7, <1>12, <1>13
  <1>15. more => last \in S /\ items # <<>> /\ last = items[Len(items)]
    <2>1. more => Len(items) = FeedLimit /\ FeedLimit \in DOMAIN items
      BY <1>11, <1>12
    <2>. QED BY <1>11, <1>12, <2>1
  <1>16. RunsDown(items, IF more THEN last ELSE NoCursor)
    BY <1>3, <1>13, <1>14, <1>15 DEF RunsDown
  <1>17. Covers(items, IF more THEN last ELSE NoCursor, S)
    <2>1. ASSUME NEW b \in S, ~(\E i \in DOMAIN items : items[i] = b)
          PROVE  more /\ b < last
      <3>1. ~Once(items, b)
        BY <2>1 DEF Once
      <3>2. more /\ last \in S /\ b # last /\ b \notin Pre[last]
        BY <1>12, <3>1
      <3>3. b \in Nat /\ last \in Nat /\ ~(last < b)
        BY <1>2, <1>3, <1>7, <3>2
      <3>. QED BY <3>2, <3>3
    <2>2. last \in S => last # NoCursor
      BY <1>3 DEF Feed!FeedAssumption
    <2>. QED BY <1>15, <2>1, <2>2 DEF Covers
  <1>. QED BY <1>1, <1>13, <1>16, <1>17 DEF S

\* A page put behind a list that ends at the cursor the page was asked for.
LEMMA PageBehind ==
    ASSUME Feed!FeedAssumption, NEW a, NEW b, NEW asked \in FeedBroadcasts, NEW next,
           NEW some, NEW few,
           RunsDown(a, asked), Covers(a, asked, some), RunsDown(b, next),
           \A i \in DOMAIN b : b[i] < asked,
           Covers(b, next, {x \in few : x < asked})
    PROVE  RunsDown(a \o b, next) /\ Covers(a \o b, next, some \cap few)
  <1>. DEFINE s == a \o b
              m == Len(a)
              n == Len(b)
  <1>1. a \in Seq(FeedBroadcasts) /\ b \in Seq(FeedBroadcasts) /\ asked # NoCursor
    BY DEF RunsDown, Feed!FeedAssumption
  <1>2. /\ s \in Seq(FeedBroadcasts) /\ DOMAIN a = 1..m /\ DOMAIN b = 1..n
        /\ DOMAIN s = 1..(m + n) /\ m \in Nat /\ n \in Nat
        /\ \A i \in 1..(m + n) : s[i] = IF i <= m THEN a[i] ELSE b[i - m]
    BY <1>1, JoinedPlaces
  <1>3. Len(s) = m + n /\ (b # <<>> => n # 0)
    BY <1>1
  <1>. HIDE DEF s, m, n
  <1>4. m \in 1..m /\ asked = a[m] /\ \A i \in 1..m : a[i] \in Nat /\ asked <= a[i]
    <2>1. a # <<>> /\ asked = a[m] /\ m # 0
      BY <1>1 DEF RunsDown, m
    <2>2. \A i \in 1..m : a[i] \in Nat
      <3>1. \A i \in 1..m : a[i] \in FeedBroadcasts
        BY <1>1, <1>2
      <3>. QED BY <3>1 DEF Feed!FeedAssumption
    <2>3. \A i, j \in 1..m : i < j => a[j] < a[i]
      BY <1>2 DEF RunsDown
    <2>. QED BY <1>2, <2>1, <2>2, <2>3
  <1>5. \A i \in 1..n : b[i] \in Nat /\ b[i] < asked
    <2>1. \A i \in 1..n : b[i] \in FeedBroadcasts
      BY <1>1, <1>2
    <2>. QED BY <1>2, <2>1 DEF Feed!FeedAssumption
  <1>6. ASSUME NEW i \in 1..(m + n), NEW j \in 1..(m + n), i < j PROVE s[j] < s[i]
    <2>1. CASE j <= m
      <3>1. i \in 1..m /\ j \in 1..m /\ s[i] = a[i] /\ s[j] = a[j]
        BY <1>2, <1>6, <2>1
      <3>. QED BY <1>2, <1>6, <3>1 DEF RunsDown
    <2>2. CASE ~(j <= m) /\ i <= m
      <3>1. i \in 1..m /\ j - m \in 1..n /\ s[i] = a[i] /\ s[j] = b[j - m]
        BY <1>2, <2>2
      <3>2. a[i] \in Nat /\ b[j - m] \in Nat /\ asked <= a[i] /\ b[j - m] < asked
        BY <1>4, <1>5, <3>1
      <3>3. asked \in Nat
        BY DEF Feed!FeedAssumption
      <3>. QED BY <3>1, <3>2, <3>3
    <2>3. CASE ~(i <= m)
      <3>1. /\ i - m \in 1..n /\ j - m \in 1..n /\ i - m < j - m
            /\ s[i] = b[i - m] /\ s[j] = b[j - m]
        BY <1>2, <1>6, <2>3
      <3>. QED BY <1>2, <3>1 DEF RunsDown
    <2>. QED BY <1>2, <2>1, <2>2, <2>3
  <1>7. ASSUME next # NoCursor PROVE s # <<>> /\ next = s[Len(s)]
    <2>1. b # <<>> /\ next = b[n]
      BY <1>7 DEF RunsDown, n
    <2>2. n \in 1..n /\ m + n \in 1..(m + n) /\ ~(m + n <= m) /\ (m + n) - m = n
      BY <1>2, <1>3, <2>1
    <2>3. s[m + n] = b[n]
      BY <1>2, <2>2
    <2>4. s # <<>>
      BY <1>2, <2>2
    <2>. QED BY <1>3, <2>1, <2>3, <2>4
  <1>8. RunsDown(s, next)
    BY <1>2, <1>6, <1>7 DEF RunsDown
  <1>9. Covers(s, next, some \cap few)
    <2>1. ASSUME NEW x \in some \cap few, ~(next # NoCursor /\ x < next)
          PROVE  \E i \in 1..(m + n) : s[i] = x
      <3>1. CASE \E i \in 1..m : a[i] = x
        <4>1. PICK i \in 1..m : a[i] = x
          BY <3>1
        <4>2. i \in 1..(m + n) /\ s[i] = x
          BY <1>2, <4>1
        <4>. QED BY <4>2
      <3>2. CASE ~(\E i \in 1..m : a[i] = x)
        <4>1. x < asked
          BY <1>2, <3>2 DEF Covers
        <4>2. PICK i \in 1..n : b[i] = x
          BY <1>2, <2>1, <4>1 DEF Covers
        <4>3. i + m \in 1..(m + n) /\ ~(i + m <= m) /\ (i + m) - m = i
          BY <1>2
        <4>4. s[i + m] = x
          BY <1>2, <4>2, <4>3
        <4>. QED BY <4>3, <4>4
      <3>. QED BY <3>1, <3>2
    <2>. QED BY <1>2, <2>1 DEF Covers
  <1>. QED BY <1>8, <1>9 DEF s

-----------------------------------------------------------------------------
(* The steps.                                                              *)

LEMMA FeedBegins == ASSUME Feed!FeedAssumption, Feed!Init PROVE FeedInv
  BY DEF Feed!FeedAssumption, Feed!Init, FeedInv, PagesOnTheWay, ListOnScreen

LEMMA ChangeFeeds == ASSUME FeedInv, Feed!Change PROVE FeedInv'
  <1>1. /\ feedListed' \subseteq FeedBroadcasts /\ feedKnown' \subseteq feedListed'
           /\ feedKnown' \subseteq feedKnown
        /\ UNCHANGED <<feedPage, feedPoll, feedExtra, feedCursor, feedLoads, feedCrossed>>
    BY DEF Feed!Change, FeedInv
  <1>2. PagesOnTheWay'
    BY <1>1 DEF FeedInv, PagesOnTheWay
  <1>3. ListOnScreen'
    BY <1>1 DEF FeedInv, ListOnScreen, Feed!Items, Covers
  <1>. QED BY <1>1, <1>2, <1>3 DEF FeedInv

LEMMA PollFeeds == ASSUME Feed!FeedAssumption, FeedInv, Feed!Poll PROVE FeedInv'
  <1>1. /\ feedPoll' = [page |-> Feed!Page(NoCursor), listed |-> feedListed]
        /\ UNCHANGED <<feedListed, feedPage, feedExtra, feedCursor, feedLoads, feedKnown,
              feedCrossed>>
    BY DEF Feed!Poll
  <1>2. /\ RunsDown(Feed!Page(NoCursor).items, Feed!Page(NoCursor).next)
        /\ Covers(Feed!Page(NoCursor).items, Feed!Page(NoCursor).next, Asked(NoCursor))
    BY PageFacts DEF FeedInv
  <1>3. Asked(NoCursor) = feedListed
    BY DEF Asked
  <1>4. feedPoll'.page = Feed!Page(NoCursor) /\ feedPoll'.listed = feedListed
    BY <1>1
  <1>5. PagesOnTheWay'
    BY <1>1, <1>2, <1>3, <1>4 DEF FeedInv, PagesOnTheWay
  <1>. QED BY <1>1, <1>5 DEF FeedInv, ListOnScreen, Feed!Items

LEMMA PollLandsFeeds == ASSUME Feed!FeedAssumption, FeedInv, Feed!PollLands PROVE FeedInv'
  <1>1. PICK changed \in {TRUE, feedPoll.page # feedPage} :
           /\ feedExtra' = Feed!ExtraAfter(changed)
           /\ feedCursor' = IF changed THEN feedPoll.page.next ELSE feedCursor
           /\ feedKnown' = IF changed THEN feedPoll.listed \cap feedListed ELSE feedKnown
           /\ feedCrossed' = (feedCrossed /\ ~changed)
    BY DEF Feed!PollLands
  <1>2. /\ feedPage' = feedPoll.page /\ feedPoll' = NoCursor
           /\ UNCHANGED <<feedListed, feedLoads>>
        /\ feedPoll.listed \subseteq FeedBroadcasts
        /\ RunsDown(feedPoll.page.items, feedPoll.page.next)
        /\ Covers(feedPoll.page.items, feedPoll.page.next, feedPoll.listed)
    BY DEF Feed!PollLands, FeedInv, PagesOnTheWay
  <1>3. feedPage' # Feed!NoData
    <2>1. feedPoll.page.items \in Seq(FeedBroadcasts) /\ Feed!NoData.items = NoCursor
      BY <1>2 DEF RunsDown, Feed!NoData
    <2>. QED BY <1>2, <2>1 DEF Feed!FeedAssumption
  <1>4. PagesOnTheWay'
    BY <1>2 DEF FeedInv, PagesOnTheWay
  <1>5. CASE changed = TRUE
    <2>1. /\ feedExtra' = <<>> /\ feedCursor' = feedPoll.page.next
             /\ feedKnown' = feedPoll.listed \cap feedListed
          /\ feedCrossed' = FALSE
      BY <1>1, <1>5 DEF Feed!ExtraAfter
    <2>2. feedPage'.items \in Seq(FeedBroadcasts) /\ feedExtra' \in Seq(FeedBroadcasts)
          /\ feedCursor' \in FeedBroadcasts \cup {NoCursor}
      <3>1. <<>> \in Seq(FeedBroadcasts)
        OBVIOUS
      <3>. QED BY <1>2, <2>1, <3>1 DEF RunsDown
    <2>3. Feed!Items' = feedPoll.page.items
      <3>1. feedPage'.items \o <<>> = feedPage'.items
        BY <2>2, ConcatEmptySeq
      <3>. QED BY <1>2, <1>3, <2>1, <3>1 DEF Feed!Items
    <2>4. Covers(Feed!Items, feedCursor, feedKnown)'
      BY <1>2, <2>1, <2>3 DEF Covers
    <2>5. RunsDown(Feed!Items, feedCursor)'
      BY <1>2, <2>1, <2>3 DEF RunsDown
    <2>6. ListOnScreen'
      BY <1>3, <2>2, <2>4, <2>5 DEF ListOnScreen
    <2>. QED BY <1>2, <1>4, <2>1, <2>2, <2>6 DEF FeedInv
  <1>6. CASE changed = FALSE
    <2>1. /\ feedPage' = feedPage /\ feedExtra' = feedExtra /\ feedCursor' = feedCursor
             /\ feedKnown' = feedKnown
          /\ feedCrossed' = feedCrossed
      BY <1>1, <1>2, <1>6 DEF Feed!ExtraAfter, FeedInv
    <2>2. ListOnScreen'
      BY <1>2, <2>1 DEF FeedInv, ListOnScreen, Feed!Items, RunsDown, Covers
    <2>. QED BY <1>2, <1>4, <2>1, <2>2 DEF FeedInv
  <1>. QED BY <1>5, <1>6

LEMMA LoadMoreFeeds == ASSUME Feed!FeedAssumption, FeedInv, Feed!LoadMore PROVE FeedInv'
  <1>. DEFINE r ==
          [press |-> feedPressed, asked |-> feedCursor, page |-> Feed!Page(feedCursor),
             listed |-> feedListed]
  <1>1. /\ feedCursor # NoCursor /\ feedLoads' = feedLoads \cup {r}
        /\ UNCHANGED <<feedListed, feedPage, feedPoll, feedExtra, feedCursor, feedKnown,
              feedCrossed>>
    BY DEF Feed!LoadMore
  <1>2. /\ RunsDown(Feed!Page(feedCursor).items, Feed!Page(feedCursor).next)
        /\ Covers(Feed!Page(feedCursor).items, Feed!Page(feedCursor).next,
              Asked(feedCursor))
        /\ \A i \in DOMAIN Feed!Page(feedCursor).items :
              Feed!Page(feedCursor).items[i] \in Asked(feedCursor)
    BY PageFacts DEF FeedInv
  <1>3. Asked(feedCursor) = {b \in feedListed : b < feedCursor}
    BY <1>1 DEF Asked
  <1>4. r.asked = feedCursor /\ r.page = Feed!Page(feedCursor) /\ r.listed = feedListed
    OBVIOUS
  <1>5. feedCursor \in FeedBroadcasts /\ feedListed \subseteq FeedBroadcasts
        /\ feedPage # Feed!NoData
    BY <1>1 DEF FeedInv, ListOnScreen
  <1>. HIDE DEF r
  <1>6. PagesOnTheWay'
    BY <1>1, <1>2, <1>3, <1>4, <1>5 DEF FeedInv, PagesOnTheWay
  <1>. QED BY <1>1, <1>5, <1>6 DEF FeedInv, ListOnScreen, Feed!Items

LEMMA LoadLandsFeeds ==
    ASSUME Feed!FeedAssumption, FeedInv, NEW r \in feedLoads, Feed!LoadLands(r)
    PROVE  FeedInv'
  <1>1. /\ feedExtra' = feedExtra \o r.page.items /\ feedCursor' = r.page.next
        /\ feedCrossed' = (feedCrossed \/ r.asked # feedCursor)
        /\ feedKnown' = feedKnown \cap r.listed
        /\ feedLoads' = feedLoads \ {r} /\ UNCHANGED <<feedListed, feedPage, feedPoll>>
    BY DEF Feed!LoadLands
  <1>2. /\ r.asked \in FeedBroadcasts /\ r.listed \subseteq FeedBroadcasts
        /\ RunsDown(r.page.items, r.page.next)
        /\ \A i \in DOMAIN r.page.items : r.page.items[i] < r.asked
        /\ Covers(r.page.items, r.page.next, {b \in r.listed : b < r.asked})
    BY DEF FeedInv, PagesOnTheWay
  <1>3. feedPage # Feed!NoData /\ feedPage.items \in Seq(FeedBroadcasts)
        /\ feedExtra \in Seq(FeedBroadcasts)
        /\ r.page.items \in Seq(FeedBroadcasts)
    BY <1>2 DEF FeedInv, ListOnScreen, RunsDown
  <1>4. PagesOnTheWay'
    BY <1>1 DEF FeedInv, PagesOnTheWay
  <1>5. feedExtra' \in Seq(FeedBroadcasts) /\ feedCursor' \in FeedBroadcasts \cup {NoCursor}
    BY <1>1, <1>2, <1>3 DEF RunsDown
  <1>6. Feed!Items' = Feed!Items \o r.page.items
    <2>. DEFINE s == feedPage.items
                t == feedExtra
                u == r.page.items
    <2>1. s \o (t \o u) = (s \o t) \o u
      <3>1. s \in Seq(FeedBroadcasts) /\ t \in Seq(FeedBroadcasts)
            /\ u \in Seq(FeedBroadcasts)
        BY <1>3
      <3>. HIDE DEF s, t, u
      <3>. QED BY <3>1, ConcatAssociative
    <2>2. Feed!Items' = feedPage.items \o (feedExtra \o r.page.items)
      BY <1>1, <1>3 DEF Feed!Items
    <2>. QED BY <1>3, <2>1, <2>2 DEF Feed!Items
  <1>7. ASSUME ~feedCrossed'
        PROVE  RunsDown(Feed!Items, feedCursor)'
               /\ Covers(Feed!Items, feedCursor, feedKnown)'
    <2>1. feedCursor = r.asked /\ ~feedCrossed
      BY <1>1, <1>7
    <2>2. RunsDown(Feed!Items, r.asked) /\ Covers(Feed!Items, r.asked, feedKnown)
      BY <1>3, <2>1 DEF FeedInv, ListOnScreen
    <2>3. /\ RunsDown(Feed!Items \o r.page.items, r.page.next)
          /\ Covers(Feed!Items \o r.page.items, r.page.next, feedKnown \cap r.listed)
      BY <1>2, <2>2, PageBehind
    <2>. QED BY <1>1, <1>6, <2>3 DEF RunsDown, Covers
  <1>8. ListOnScreen'
    BY <1>1, <1>3, <1>5, <1>7 DEF ListOnScreen
  <1>. QED BY <1>1, <1>4, <1>5, <1>8 DEF FeedInv

LEMMA FeedGoesOn == ASSUME Feed!FeedAssumption, FeedInv, [Feed!Next]_feedVars PROVE FeedInv'
  <1>1. CASE UNCHANGED <<feedListed, feedPage, feedPoll, feedExtra, feedCursor, feedLoads,
                feedKnown, feedCrossed>>
    BY <1>1 DEF FeedInv, PagesOnTheWay, ListOnScreen, Feed!Items
  <1>2. CASE Feed!Change
    BY <1>2, ChangeFeeds
  <1>3. CASE Feed!Poll
    BY <1>3, PollFeeds
  <1>4. CASE Feed!PollLands
    BY <1>4, PollLandsFeeds
  <1>5. CASE Feed!PollFails
    BY <1>5 DEF Feed!PollFails, FeedInv, PagesOnTheWay, ListOnScreen, Feed!Items
  <1>6. CASE Feed!LoadMore
    BY <1>6, LoadMoreFeeds
  <1>7. ASSUME NEW r \in feedLoads, Feed!LoadLands(r) PROVE FeedInv'
    BY <1>7, LoadLandsFeeds
  <1>8. ASSUME NEW r \in feedLoads, Feed!LoadFails(r) PROVE FeedInv'
    BY <1>8 DEF Feed!LoadFails, FeedInv, PagesOnTheWay, ListOnScreen, Feed!Items
  <1>. QED BY <1>1, <1>2, <1>3, <1>4, <1>5, <1>6, <1>7, <1>8 DEF Feed!Next, feedVars

\* What is on screen, as long as every page landed where it was asked for.
LEMMA FeedReadsOn == ASSUME FeedInv PROVE Feed!NewestFirst /\ Feed!NothingSkipped
  <1>1. Feed!NewestFirst
    <2>1. CASE feedPage = Feed!NoData
      BY <2>1 DEF Feed!NewestFirst, Feed!Items
    <2>2. CASE feedPage # Feed!NoData
      <3>1. ~feedCrossed => Feed!Items \in Seq(FeedBroadcasts)
                        /\ \A i, j \in DOMAIN Feed!Items : i < j =>
                              Feed!Items[j] < Feed!Items[i]
        BY <2>2 DEF FeedInv, ListOnScreen, RunsDown
      <3>. QED BY <3>1 DEF Feed!NewestFirst
    <2>. QED BY <2>1, <2>2
  <1>2. Feed!NothingSkipped
    BY DEF FeedInv, ListOnScreen, RunsDown, Covers, Feed!NothingSkipped
  <1>. QED BY <1>1, <1>2

-----------------------------------------------------------------------------
(* The reads of the Delivery rows, and their lamps.                        *)

\* A Delivery is of a Broadcast and to an Endpoint of one Channel, and goes with
\* either; an Endpoint that is on carries no mark.
HealthInv ==
    /\ Health!TypeOK
    /\ \A p \in Health!Pairs : Health!Exists(p) =>
          /\ healthBroadcast[p[1]] = HealthHomeOf[p[2]]
          /\ healthEndpoint[p[2]] # NoValue
    /\ \A e \in HealthEndpoints : healthEndpoint[e] # NoValue /\ healthEndpoint[e].auto =>
          ~healthEndpoint[e].enabled

\* While nobody has written to the Channel of the page under way, the Deliveries
\* and the Endpoints counted for it are those it was ranked by.
ListedInv ==
    healthListed # NoValue /\ ~healthListed.moved =>
        /\ Health!FailuresSince(healthListed.channel, healthListed.recent)
              = healthListed.failures
        /\ Health!AutoDisabledCount(healthListed.channel) = healthListed.off
        /\ healthListed.rank = IF ~healthListed.enabled THEN 2
                               ELSE IF healthListed.off > 0 \/ healthListed.failures > 0 THEN 0
                               ELSE 1

\* Counting is counting, in whichever module.
LEMMA HealthCounts ==
    \A S : /\ Health!Cardinality(S) = Cardinality(S)
           /\ Health!IsFiniteSet(S) <=> IsFiniteSet(S)
  BY DEF Health!Cardinality, Cardinality, Health!IsFiniteSet, IsFiniteSet

LEMMA PairsAreFinite ==
    ASSUME Health!HealthAssumption
    PROVE  IsFiniteSet(Health!Pairs) /\ \A T \in SUBSET Health!Pairs :
              IsFiniteSet(T) /\ Cardinality(T) \in Nat
  <1>1. IsFiniteSet(Health!Pairs)
    BY HealthCounts, FS_Product DEF Health!HealthAssumption, Health!Pairs
  <1>. QED BY <1>1, FS_Subset, FS_CardinalityType

LEMMA HealthBegins == ASSUME Health!HealthAssumption, Health!Init PROVE HealthInv
  <1>1. Health!TypeOK
    BY DEF Health!Init, Health!TypeOK
  <1>2. \A p \in Health!Pairs : ~Health!Exists(p)
    BY DEF Health!Init, Health!Exists
  <1>. QED BY <1>1, <1>2 DEF HealthInv, Health!Init

HealthEndpointRow == [enabled : BOOLEAN, auto : BOOLEAN]
HealthDeliveryRow == [status : Health!Open \cup Health!Closed, age : 0..(HealthWindow + 1)]
HealthListing == [channel : HealthChannels, enabled : BOOLEAN, rank : 0..2, failures : Nat,
                  off : Nat, recent : SUBSET Health!Pairs, moved : BOOLEAN]

\* A write to the rows leaves a page under way alone, or overtakes it.
Overtakes ==
    \/ healthListed' = healthListed
    \/ \E c \in HealthChannels : healthListed' = Health!Overtaken(c)

LEMMA OvertakenIsListed ==
    ASSUME HealthInv, Overtakes PROVE healthListed' # NoValue => healthListed' \in HealthListing
  <1>1. CASE healthListed' = healthListed
    BY <1>1 DEF HealthInv, Health!TypeOK, HealthListing
  <1>2. ASSUME NEW c \in HealthChannels PROVE Health!Overtaken(c) \in HealthListing
    BY DEF HealthListing, Health!Overtaken
  <1>. QED BY <1>1, <1>2 DEF Overtakes

LEMMA MovesOvertakes ==
    ASSUME NEW c \in HealthChannels, Health!Moves(c)
    PROVE  /\ Overtakes
           /\ healthListed' # NoValue /\ ~healthListed'.moved =>
                 healthListed' = healthListed /\ healthListed.channel # c
  BY DEF Overtakes, Health!Moves, Health!Overtaken

LEMMA RowsAreNotNull ==
    ASSUME Health!HealthAssumption
    PROVE  NoValue \notin HealthEndpointRow /\ NoValue \notin HealthDeliveryRow
           /\ NoValue \notin HealthChannels
  <1>1. HealthDeliveryRow \subseteq [status : Health!Open \cup Health!Closed, age : Nat]
    BY DEF HealthDeliveryRow, Health!HealthAssumption
  <1>. QED BY <1>1 DEF Health!HealthAssumption, HealthEndpointRow

\* The rows of an Endpoint change, of the Deliveries at most some go.
LEMMA HealthEndpointMoves ==
    ASSUME Health!HealthAssumption, HealthInv, NEW e \in HealthEndpoints,
           NEW new \in HealthEndpointRow \cup {NoValue},
           healthEndpoint' = [healthEndpoint EXCEPT ![e] = new],
           UNCHANGED <<healthSwitch, healthBroadcast>>, Overtakes,
           \/ healthDelivery' = [p \in Health!Pairs |->
                 IF new = NoValue /\ p[2] = e THEN NoValue ELSE healthDelivery[p]]
           \/ healthDelivery' = healthDelivery /\ new # NoValue,
           new # NoValue => (new.auto => ~new.enabled)
    PROVE  HealthInv'
  <1>1. /\ healthSwitch \in [HealthChannels -> BOOLEAN]
        /\ healthEndpoint \in [HealthEndpoints -> HealthEndpointRow \cup {NoValue}]
        /\ healthBroadcast \in [HealthBroadcasts -> HealthChannels \cup {NoValue}]
        /\ healthDelivery \in [Health!Pairs -> HealthDeliveryRow \cup {NoValue}]
    BY DEF HealthInv, Health!TypeOK, HealthEndpointRow, HealthDeliveryRow
  <1>2. \A p \in Health!Pairs :
           healthDelivery'[p] = healthDelivery[p]
              \/ (new = NoValue /\ p[2] = e /\ healthDelivery'[p] = NoValue)
    OBVIOUS
  <1>3. healthDelivery' \in [Health!Pairs -> HealthDeliveryRow \cup {NoValue}]
    BY <1>1
  <1>4. /\ healthEndpoint' \in [HealthEndpoints -> HealthEndpointRow \cup {NoValue}]
        /\ healthEndpoint'[e] = new /\ \A f \in HealthEndpoints \ {e} :
              healthEndpoint'[f] = healthEndpoint[f]
    BY <1>1
  <1>5. Health!TypeOK'
    BY <1>1, <1>3, <1>4, OvertakenIsListed
       DEF Health!TypeOK, HealthEndpointRow, HealthDeliveryRow, HealthListing
  <1>6. ASSUME NEW p \in Health!Pairs, healthDelivery'[p] # NoValue
        PROVE  healthBroadcast'[p[1]] = HealthHomeOf[p[2]]
               /\ healthEndpoint'[p[2]] # NoValue
    <2>1. healthDelivery[p] # NoValue /\ healthDelivery'[p] = healthDelivery[p]
      BY <1>2, <1>6
    <2>2. healthBroadcast[p[1]] = HealthHomeOf[p[2]] /\ healthEndpoint[p[2]] # NoValue
          /\ p[2] \in HealthEndpoints
      BY <2>1 DEF HealthInv, Health!Exists, Health!Pairs
    <2>3. p[2] = e => new # NoValue
      BY <1>6, <2>1
    <2>. QED BY <1>4, <2>2, <2>3
  <1>7. \A f \in HealthEndpoints :
           healthEndpoint'[f] # NoValue /\ healthEndpoint'[f].auto =>
              ~healthEndpoint'[f].enabled
    BY <1>4 DEF HealthInv
  <1>. QED BY <1>5, <1>6, <1>7 DEF HealthInv, Health!Exists

\* The rows of Deliveries change, each to a row or to none.
LEMMA HealthDeliveriesMove ==
    ASSUME Health!HealthAssumption, HealthInv, UNCHANGED <<healthSwitch, healthEndpoint>>,
           Overtakes,
           healthBroadcast' \in [HealthBroadcasts -> HealthChannels \cup {NoValue}],
           healthDelivery' \in [Health!Pairs -> HealthDeliveryRow \cup {NoValue}],
           \A p \in Health!Pairs : healthDelivery'[p] # NoValue =>
              healthBroadcast'[p[1]] = HealthHomeOf[p[2]] /\ healthEndpoint[p[2]] # NoValue
    PROVE  HealthInv'
  BY OvertakenIsListed DEF HealthInv, Health!TypeOK, Health!Exists, HealthDeliveryRow, HealthListing

\* How many there are of finitely many.
LEMMA CountsAreNumbers ==
    ASSUME Health!HealthAssumption, NEW c \in HealthChannels
    PROVE  Health!FailureCount(c) \in Nat /\ Health!AutoDisabledCount(c) \in Nat
  <1>1. {p \in Health!In(Health!Broken) \cap Health!Recent : healthBroadcast[p[1]] = c}
           \in SUBSET Health!Pairs
    BY DEF Health!In
  <1>2. Health!FailureCount(c) \in Nat
    BY <1>1, PairsAreFinite, HealthCounts DEF Health!FailureCount, Health!FailuresSince
  <1>3. IsFiniteSet({e \in HealthEndpoints : healthEndpoint[e] # NoValue
                       /\ healthEndpoint[e].auto /\ HealthHomeOf[e] = c})
    BY HealthCounts, FS_Subset DEF Health!HealthAssumption
  <1>. QED BY <1>2, <1>3, HealthCounts, FS_CardinalityType DEF Health!AutoDisabledCount

LEMMA HealthGoesOn ==
    ASSUME Health!HealthAssumption, HealthInv, [Health!Next]_healthVars
    PROVE  HealthInv'
  <1>1. /\ healthSwitch \in [HealthChannels -> BOOLEAN]
        /\ healthEndpoint \in [HealthEndpoints -> HealthEndpointRow \cup {NoValue}]
        /\ healthBroadcast \in [HealthBroadcasts -> HealthChannels \cup {NoValue}]
        /\ healthDelivery \in [Health!Pairs -> HealthDeliveryRow \cup {NoValue}]
    BY DEF HealthInv, Health!TypeOK, HealthEndpointRow, HealthDeliveryRow
  <1>2. \A p \in Health!Pairs : healthDelivery[p] # NoValue =>
           healthBroadcast[p[1]] = HealthHomeOf[p[2]] /\ healthEndpoint[p[2]] # NoValue
    BY DEF HealthInv, Health!Exists
  <1>3. \A p \in Health!Pairs : p[1] \in HealthBroadcasts /\ p[2] \in HealthEndpoints
    BY DEF Health!Pairs
  <1>4. \A status \in Health!Open \cup Health!Closed :
           Health!Row(status) \in HealthDeliveryRow
    BY DEF Health!Row, HealthDeliveryRow, Health!HealthAssumption
  <1>5. CASE UNCHANGED healthVars
    BY <1>5 DEF healthVars, HealthInv, Health!TypeOK, Health!Exists
  <1>6. ASSUME NEW b \in HealthBroadcasts, NEW c \in HealthChannels, Health!Accept(b, c)
        PROVE  HealthInv'
    <2>1. /\ healthBroadcast[b] = NoValue
          /\ healthBroadcast' = [healthBroadcast EXCEPT ![b] = c]
          /\ UNCHANGED <<healthSwitch, healthEndpoint>>
          /\ healthDelivery' = [p \in Health!Pairs |->
               IF p[1] = b /\ HealthHomeOf[p[2]] = c /\ healthEndpoint[p[2]] # NoValue
                  /\ healthEndpoint[p[2]] = [enabled |-> TRUE, auto |-> FALSE]
               THEN Health!Row("pending") ELSE healthDelivery[p]]
          /\ Overtakes
      BY <1>6 DEF Health!Accept, Overtakes
    <2>2. Health!Row("pending") \in HealthDeliveryRow
      BY <1>4 DEF Health!Open
    <2>3. healthBroadcast' \in [HealthBroadcasts -> HealthChannels \cup {NoValue}]
          /\ healthBroadcast'[b] = c
          /\ \A d \in HealthBroadcasts \ {b} : healthBroadcast'[d] = healthBroadcast[d]
      BY <1>1, <2>1
    <2>4. healthDelivery' \in [Health!Pairs -> HealthDeliveryRow \cup {NoValue}]
      BY <1>1, <2>1, <2>2
    <2>5. ASSUME NEW p \in Health!Pairs, healthDelivery'[p] # NoValue
          PROVE  healthBroadcast'[p[1]] = HealthHomeOf[p[2]]
                 /\ healthEndpoint[p[2]] # NoValue
      <3>1. CASE p[1] = b /\ HealthHomeOf[p[2]] = c /\ healthEndpoint[p[2]] # NoValue
        BY <2>3, <3>1
      <3>2. CASE ~(p[1] = b /\ HealthHomeOf[p[2]] = c /\ healthEndpoint[p[2]] # NoValue)
        <4>1. healthDelivery'[p] = healthDelivery[p]
          BY <2>1, <3>2
        <4>2. healthBroadcast[p[1]] = HealthHomeOf[p[2]] /\ healthEndpoint[p[2]] # NoValue
              /\ HealthHomeOf[p[2]] \in HealthChannels
          BY <1>2, <1>3, <2>5, <4>1 DEF Health!HealthAssumption
        <4>3. p[1] # b
          BY <2>1, <4>2, RowsAreNotNull
        <4>. QED BY <1>3, <2>3, <4>2, <4>3
      <3>. QED BY <3>1, <3>2
    <2>. QED BY <2>1, <2>3, <2>4, <2>5, HealthDeliveriesMove
  <1>7. ASSUME NEW b \in HealthBroadcasts, Health!Prune(b) PROVE HealthInv'
    <2>1. /\ healthBroadcast' = [healthBroadcast EXCEPT ![b] = NoValue]
          /\ UNCHANGED <<healthSwitch, healthEndpoint>>
          /\ healthDelivery' = [p \in Health!Pairs |->
                IF p[1] = b THEN NoValue ELSE healthDelivery[p]]
          /\ Overtakes
      BY <1>1, <1>7, MovesOvertakes DEF Health!Prune
    <2>2. healthBroadcast' \in [HealthBroadcasts -> HealthChannels \cup {NoValue}]
          /\ \A d \in HealthBroadcasts \ {b} : healthBroadcast'[d] = healthBroadcast[d]
      BY <1>1, <2>1
    <2>3. healthDelivery' \in [Health!Pairs -> HealthDeliveryRow \cup {NoValue}]
      BY <1>1, <2>1
    <2>4. ASSUME NEW p \in Health!Pairs, healthDelivery'[p] # NoValue
          PROVE  healthBroadcast'[p[1]] = HealthHomeOf[p[2]]
                 /\ healthEndpoint[p[2]] # NoValue
      <3>1. p[1] # b /\ healthDelivery'[p] = healthDelivery[p]
        BY <2>1, <2>4
      <3>. QED BY <1>2, <1>3, <2>2, <2>4, <3>1
    <2>. QED BY <2>1, <2>2, <2>3, <2>4, HealthDeliveriesMove
  <1>8. ASSUME NEW p \in Health!Pairs, NEW from, NEW to \in Health!Open \cup Health!Closed,
               Health!Becomes(p, from, to)
        PROVE  HealthInv'
    <2>1. /\ healthDelivery[p] # NoValue
          /\ healthDelivery' = [healthDelivery EXCEPT ![p] = Health!Row(to)]
          /\ UNCHANGED <<healthSwitch, healthEndpoint, healthBroadcast>>
          /\ Overtakes
      BY <1>3, <1>8, MovesOvertakes DEF Health!Becomes, Health!Exists, Health!HealthAssumption
    <2>2. healthDelivery' \in [Health!Pairs -> HealthDeliveryRow \cup {NoValue}]
          /\ \A q \in Health!Pairs \ {p} : healthDelivery'[q] = healthDelivery[q]
      BY <1>1, <1>4, <2>1
    <2>3. \A q \in Health!Pairs : healthDelivery'[q] # NoValue =>
             healthDelivery[q] # NoValue
      BY <2>1, <2>2
    <2>. QED BY <1>1, <1>2, <2>1, <2>2, <2>3, HealthDeliveriesMove
  <1>9. ASSUME NEW p \in Health!Pairs,
               Health!Start(p) \/ Health!Retry(p)
                  \/ \E status \in Health!Closed \cup {"pending"} :
                        Health!Complete(p, status)
        PROVE  HealthInv'
    <2>1. "pending" \in Health!Open \cup Health!Closed
          /\ "in_progress" \in Health!Open \cup Health!Closed
          /\ Health!Closed \cup {"pending"} \subseteq Health!Open \cup Health!Closed
      BY DEF Health!Open
    <2>. QED BY <1>8, <1>9, <2>1 DEF Health!Start, Health!Retry, Health!Complete
  <1>10. ASSUME NEW e \in HealthEndpoints, Health!AutoDisable(e) PROVE HealthInv'
    <2>1. [enabled |-> FALSE, auto |-> TRUE] \in HealthEndpointRow
      BY DEF HealthEndpointRow
    <2>2. [enabled |-> FALSE, auto |-> TRUE] # NoValue
      BY <2>1, RowsAreNotNull
    <2>3. Overtakes
      BY <1>10, MovesOvertakes DEF Health!AutoDisable, Health!HealthAssumption
    <2>. QED BY <1>10, <2>1, <2>2, <2>3, HealthEndpointMoves DEF Health!AutoDisable
  <1>11. ASSUME NEW e \in HealthEndpoints, Health!Switch(e) PROVE HealthInv'
    <2>. DEFINE new == [enabled |-> ~healthEndpoint[e].enabled,
                        auto |-> healthEndpoint[e].auto /\ healthEndpoint[e].enabled]
    <2>1. healthEndpoint[e] # NoValue
          /\ healthEndpoint' = [healthEndpoint EXCEPT ![e] = new]
          /\ UNCHANGED <<healthSwitch, healthBroadcast, healthDelivery>>
          /\ Overtakes
      BY <1>11, MovesOvertakes DEF Health!Switch, Health!HealthAssumption
    <2>2. new \in HealthEndpointRow /\ (new.auto => ~new.enabled)
      BY DEF HealthEndpointRow
    <2>3. new # NoValue
      BY <2>2, RowsAreNotNull
    <2>. HIDE DEF new
    <2>. QED BY <2>1, <2>2, <2>3, HealthEndpointMoves
  <1>12. ASSUME NEW e \in HealthEndpoints, Health!DeleteEndpoint(e) PROVE HealthInv'
    <2>1. Overtakes
      BY <1>12, MovesOvertakes DEF Health!DeleteEndpoint, Health!HealthAssumption
    <2>. QED BY <1>12, <2>1, HealthEndpointMoves DEF Health!DeleteEndpoint
  <1>13. ASSUME NEW e \in HealthEndpoints, Health!CreateEndpoint(e) PROVE HealthInv'
    <2>1. [enabled |-> TRUE, auto |-> FALSE] \in HealthEndpointRow
      BY DEF HealthEndpointRow
    <2>2. [enabled |-> TRUE, auto |-> FALSE] # NoValue
      BY <2>1, RowsAreNotNull
    <2>. QED BY <1>13, <2>1, <2>2, HealthEndpointMoves DEF Health!CreateEndpoint, Overtakes
  <1>14. ASSUME NEW c \in HealthChannels, Health!SwitchChannel(c) PROVE HealthInv'
    <2>1. healthSwitch' \in [HealthChannels -> BOOLEAN]
          /\ UNCHANGED <<healthEndpoint, healthBroadcast, healthDelivery, healthListed>>
      BY <1>1, <1>14 DEF Health!SwitchChannel
    <2>. QED BY <2>1 DEF HealthInv, Health!TypeOK, Health!Exists
  <1>15. CASE Health!Tick
    <2>1. /\ UNCHANGED <<healthSwitch, healthEndpoint, healthBroadcast>>
          /\ healthDelivery' = [p \in Health!Pairs |->
               IF Health!Exists(p) /\ healthDelivery[p].status \in Health!Closed
                  /\ healthDelivery[p].age <= HealthWindow
               THEN [healthDelivery[p] EXCEPT !.age = @ + 1] ELSE healthDelivery[p]]
          /\ Overtakes
      BY <1>15 DEF Health!Tick, Overtakes
    <2>2. ASSUME NEW p \in Health!Pairs
          PROVE  healthDelivery'[p] \in HealthDeliveryRow \cup {NoValue}
                 /\ (healthDelivery'[p] # NoValue => healthDelivery[p] # NoValue)
      <3>1. CASE Health!Exists(p) /\ healthDelivery[p].status \in Health!Closed
                 /\ healthDelivery[p].age <= HealthWindow
        <4>1. healthDelivery[p] \in HealthDeliveryRow
          BY <1>1, <3>1 DEF Health!Exists
        <4>2. healthDelivery[p].age \in 0..(HealthWindow + 1)
              /\ healthDelivery[p].age + 1 \in 0..(HealthWindow + 1)
          BY <3>1, <4>1 DEF HealthDeliveryRow, Health!HealthAssumption
        <4>3. [healthDelivery[p] EXCEPT !.age = @ + 1] \in HealthDeliveryRow
          BY <4>1, <4>2 DEF HealthDeliveryRow
        <4>. QED BY <2>1, <3>1, <4>3 DEF Health!Exists
      <3>2. CASE ~(Health!Exists(p) /\ healthDelivery[p].status \in Health!Closed
                    /\ healthDelivery[p].age <= HealthWindow)
        BY <1>1, <2>1, <3>2
      <3>. QED BY <3>1, <3>2
    <2>3. healthDelivery' \in [Health!Pairs -> HealthDeliveryRow \cup {NoValue}]
      BY <2>1, <2>2
    <2>. QED BY <1>1, <1>2, <2>1, <2>2, <2>3, HealthDeliveriesMove
  <1>16. ASSUME NEW c \in HealthChannels, Health!ListChannels(c) PROVE HealthInv'
    <2>1. /\ Health!Recent \in SUBSET Health!Pairs /\ healthSwitch[c] \in BOOLEAN
          /\ Health!FailureCount(c) \in Nat /\ Health!AutoDisabledCount(c) \in Nat
      BY <1>1, CountsAreNumbers DEF Health!Recent
    <2>2. Health!HealthRank(c) \in 0..2
      BY DEF Health!HealthRank
    <2>3. /\ healthListed' \in HealthListing
          /\ UNCHANGED <<healthSwitch, healthEndpoint, healthBroadcast, healthDelivery>>
      BY <1>16, <2>1, <2>2 DEF Health!ListChannels, HealthListing
    <2>. QED BY <2>3 DEF HealthInv, Health!TypeOK, Health!Exists, HealthListing
  <1>17. CASE Health!Hydrate
    BY <1>17 DEF Health!Hydrate, HealthInv, Health!TypeOK, Health!Exists
  <1>. QED BY <1>5, <1>6, <1>7, <1>9, <1>10, <1>11, <1>12, <1>13, <1>14,
          <1>15, <1>16, <1>17 DEF Health!Next

\* What is counted for the Channel of the page does not change with rows that
\* stay as broken, and Endpoints that stay as marked, as they were.
LEMMA CountsStand ==
    ASSUME ListedInv, healthListed' = healthListed,
           healthListed # NoValue /\ ~healthListed.moved =>
              /\ \A p \in Health!Pairs :
                    /\ healthDelivery'[p] # NoValue
                    /\ healthDelivery'[p].status \in Health!Broken
                    /\ healthBroadcast'[p[1]] = healthListed.channel
                    <=> /\ healthDelivery[p] # NoValue
                        /\ healthDelivery[p].status \in Health!Broken
                        /\ healthBroadcast[p[1]] = healthListed.channel
              /\ \A e \in HealthEndpoints : HealthHomeOf[e] = healthListed.channel =>
                    (healthEndpoint'[e] # NoValue /\ healthEndpoint'[e].auto
                        <=> healthEndpoint[e] # NoValue /\ healthEndpoint[e].auto)
    PROVE  ListedInv'
  <1>. SUFFICES ASSUME healthListed # NoValue, ~healthListed.moved
                PROVE  /\ Health!FailuresSince(healthListed.channel, healthListed.recent)'
                             = Health!FailuresSince(healthListed.channel, healthListed.recent)
                       /\ Health!AutoDisabledCount(healthListed.channel)'
                             = Health!AutoDisabledCount(healthListed.channel)
    BY DEF ListedInv
  <1>1. {p \in Health!In(Health!Broken) \cap healthListed.recent :
            healthBroadcast[p[1]] = healthListed.channel}'
          = {p \in Health!In(Health!Broken) \cap healthListed.recent :
                healthBroadcast[p[1]] = healthListed.channel}
    BY DEF Health!In, Health!Exists
  <1>2. {e \in HealthEndpoints : healthEndpoint[e] # NoValue /\ healthEndpoint[e].auto
                                    /\ HealthHomeOf[e] = healthListed.channel}'
          = {e \in HealthEndpoints : healthEndpoint[e] # NoValue /\ healthEndpoint[e].auto
                                    /\ HealthHomeOf[e] = healthListed.channel}
    OBVIOUS
  <1>. QED BY <1>1, <1>2 DEF Health!FailuresSince, Health!AutoDisabledCount

LEMMA ListedBegins == ASSUME Health!Init PROVE ListedInv
  BY DEF Health!Init, ListedInv

LEMMA ListedGoesOn ==
    ASSUME Health!HealthAssumption, HealthInv, ListedInv, [Health!Next]_healthVars
    PROVE  ListedInv'
  <1>1. /\ healthEndpoint \in [HealthEndpoints -> HealthEndpointRow \cup {NoValue}]
        /\ healthBroadcast \in [HealthBroadcasts -> HealthChannels \cup {NoValue}]
        /\ healthDelivery \in [Health!Pairs -> HealthDeliveryRow \cup {NoValue}]
        /\ healthListed # NoValue => healthListed.channel \in HealthChannels
        /\ \A e \in HealthEndpoints : HealthHomeOf[e] \in HealthChannels
    BY DEF HealthInv, Health!TypeOK, HealthEndpointRow, HealthDeliveryRow, Health!HealthAssumption
  <1>2. \A p \in Health!Pairs :
           /\ p[1] \in HealthBroadcasts /\ p[2] \in HealthEndpoints
           /\ healthDelivery[p] # NoValue => healthBroadcast[p[1]] = HealthHomeOf[p[2]]
    BY DEF Health!Pairs, HealthInv, Health!Exists
  <1>3. CASE UNCHANGED healthVars
    BY <1>3, CountsStand DEF healthVars
  <1>4. ASSUME NEW b \in HealthBroadcasts, NEW c \in HealthChannels, Health!Accept(b, c)
        PROVE  ListedInv'
    <2>1. /\ healthBroadcast[b] = NoValue /\ UNCHANGED <<healthEndpoint, healthListed>>
          /\ healthBroadcast' = [healthBroadcast EXCEPT ![b] = c]
          /\ healthDelivery' = [p \in Health!Pairs |->
               IF p[1] = b /\ HealthHomeOf[p[2]] = c /\ healthEndpoint[p[2]] # NoValue
                  /\ healthEndpoint[p[2]] = [enabled |-> TRUE, auto |-> FALSE]
               THEN Health!Row("pending") ELSE healthDelivery[p]]
      BY <1>4 DEF Health!Accept
    <2>2. Health!Row("pending").status \notin Health!Broken
      BY DEF Health!Row, Health!Broken
    <2>3. ASSUME NEW p \in Health!Pairs
          PROVE  /\ p[1] = b => /\ healthDelivery[p] = NoValue
                                /\ \/ healthDelivery'[p] = NoValue
                                   \/ healthDelivery'[p].status \notin Health!Broken
                 /\ p[1] # b => /\ healthDelivery'[p] = healthDelivery[p]
                                /\ healthBroadcast'[p[1]] = healthBroadcast[p[1]]
      <3>1. p[1] = b => healthDelivery[p] = NoValue
        BY <1>1, <1>2, <2>1, RowsAreNotNull
      <3>2. \/ healthDelivery'[p] = healthDelivery[p]
            \/ p[1] = b /\ healthDelivery'[p] = Health!Row("pending")
        BY <2>1
      <3>. QED BY <1>1, <1>2, <2>1, <2>2, <3>1, <3>2
    <2>. QED BY <2>1, <2>3, CountsStand
  <1>5. ASSUME NEW c \in HealthChannels, Health!Moves(c),
               healthListed' = healthListed /\ healthListed # NoValue
                     /\ healthListed.channel # c =>
                  /\ \A p \in Health!Pairs :
                        /\ healthDelivery'[p] # NoValue
                        /\ healthDelivery'[p].status \in Health!Broken
                        /\ healthBroadcast'[p[1]] = healthListed.channel
                        <=> /\ healthDelivery[p] # NoValue
                            /\ healthDelivery[p].status \in Health!Broken
                            /\ healthBroadcast[p[1]] = healthListed.channel
                  /\ \A e \in HealthEndpoints : HealthHomeOf[e] = healthListed.channel =>
                        (healthEndpoint'[e] # NoValue /\ healthEndpoint'[e].auto
                            <=> healthEndpoint[e] # NoValue /\ healthEndpoint[e].auto)
        PROVE  ListedInv'
    <2>1. CASE healthListed' # NoValue /\ ~healthListed'.moved
      <3>1. healthListed' = healthListed /\ healthListed.channel # c
        BY <1>5, <2>1, MovesOvertakes
      <3>. QED BY <1>5, <2>1, <3>1, CountsStand
    <2>2. CASE ~(healthListed' # NoValue /\ ~healthListed'.moved)
      BY <2>2 DEF ListedInv
    <2>. QED BY <2>1, <2>2
  <1>6. ASSUME NEW b \in HealthBroadcasts, Health!Prune(b) PROVE ListedInv'
    <2>1. /\ healthBroadcast' = [healthBroadcast EXCEPT ![b] = NoValue]
          /\ UNCHANGED healthEndpoint
          /\ healthDelivery' = [p \in Health!Pairs |->
                IF p[1] = b THEN NoValue ELSE healthDelivery[p]]
          /\ healthBroadcast[b] \in HealthChannels /\ Health!Moves(healthBroadcast[b])
      BY <1>1, <1>6 DEF Health!Prune
    <2>2. \A p \in Health!Pairs :
             /\ p[1] = b => healthDelivery'[p] = NoValue
             /\ p[1] # b => /\ healthDelivery'[p] = healthDelivery[p]
                            /\ healthBroadcast'[p[1]] = healthBroadcast[p[1]]
      BY <1>1, <1>2, <2>1
    <2>. QED BY <1>5, <2>1, <2>2
  <1>7. ASSUME NEW p \in Health!Pairs, NEW from, NEW to, Health!Becomes(p, from, to)
        PROVE  ListedInv'
    <2>1. /\ UNCHANGED <<healthEndpoint, healthBroadcast>> /\ healthDelivery[p] # NoValue
          /\ \A q \in Health!Pairs \ {p} : healthDelivery'[q] = healthDelivery[q]
          /\ HealthHomeOf[p[2]] \in HealthChannels /\ Health!Moves(HealthHomeOf[p[2]])
      BY <1>1, <1>2, <1>7 DEF Health!Becomes, Health!Exists
    <2>2. healthBroadcast[p[1]] = HealthHomeOf[p[2]]
      BY <1>2, <2>1
    <2>. QED BY <1>5, <2>1, <2>2
  <1>8. ASSUME NEW e \in HealthEndpoints, Health!AutoDisable(e) \/ Health!Switch(e)
        PROVE  ListedInv'
    <2>1. /\ UNCHANGED <<healthBroadcast, healthDelivery>>
          /\ \A f \in HealthEndpoints \ {e} : healthEndpoint'[f] = healthEndpoint[f]
          /\ HealthHomeOf[e] \in HealthChannels /\ Health!Moves(HealthHomeOf[e])
      BY <1>1, <1>8 DEF Health!AutoDisable, Health!Switch
    <2>. QED BY <1>5, <2>1
  <1>9. ASSUME NEW e \in HealthEndpoints, Health!DeleteEndpoint(e) PROVE ListedInv'
    <2>1. /\ UNCHANGED healthBroadcast
          /\ healthDelivery' = [p \in Health!Pairs |->
                IF p[2] = e THEN NoValue ELSE healthDelivery[p]]
          /\ \A f \in HealthEndpoints \ {e} : healthEndpoint'[f] = healthEndpoint[f]
          /\ HealthHomeOf[e] \in HealthChannels /\ Health!Moves(HealthHomeOf[e])
      BY <1>1, <1>9 DEF Health!DeleteEndpoint
    <2>2. \A p \in Health!Pairs :
             \/ healthDelivery'[p] = healthDelivery[p]
             \/ p[2] = e /\ healthDelivery'[p] = NoValue
      BY <2>1
    <2>. QED BY <1>2, <1>5, <2>1, <2>2
  <1>10. ASSUME NEW e \in HealthEndpoints, Health!CreateEndpoint(e) PROVE ListedInv'
    <2>1. /\ UNCHANGED <<healthBroadcast, healthDelivery, healthListed>>
          /\ healthEndpoint[e] = NoValue
          /\ healthEndpoint' = [healthEndpoint EXCEPT ![e] = [enabled |-> TRUE, auto |-> FALSE]]
      BY <1>10 DEF Health!CreateEndpoint
    <2>2. /\ ~healthEndpoint'[e].auto
          /\ \A f \in HealthEndpoints \ {e} : healthEndpoint'[f] = healthEndpoint[f]
      BY <1>1, <2>1
    <2>. QED BY <2>1, <2>2, CountsStand
  <1>11. ASSUME NEW c \in HealthChannels, Health!SwitchChannel(c) PROVE ListedInv'
    BY <1>11, CountsStand DEF Health!SwitchChannel
  <1>12. ASSUME NEW c \in HealthChannels, Health!ListChannels(c) PROVE ListedInv'
    <2>1. /\ UNCHANGED <<healthSwitch, healthEndpoint, healthBroadcast, healthDelivery>>
          /\ healthListed'.channel = c /\ healthListed'.enabled = healthSwitch[c]
          /\ healthListed'.rank = Health!HealthRank(c) /\ healthListed'.recent = Health!Recent
          /\ healthListed'.failures = Health!FailureCount(c)
          /\ healthListed'.off = Health!AutoDisabledCount(c)
      BY <1>12 DEF Health!ListChannels
    <2>2. /\ Health!FailuresSince(healthListed.channel, healthListed.recent)'
               = Health!FailureCount(c)
          /\ Health!AutoDisabledCount(healthListed.channel)' = Health!AutoDisabledCount(c)
      BY <2>1 DEF Health!FailuresSince, Health!FailureCount, Health!AutoDisabledCount, Health!In,
                  Health!Exists
    <2>. QED BY <2>1, <2>2 DEF ListedInv, Health!HealthRank
  <1>13. CASE Health!Hydrate
    BY <1>13 DEF Health!Hydrate, ListedInv
  <1>14. CASE Health!Tick
    <2>1. /\ UNCHANGED <<healthEndpoint, healthBroadcast, healthListed>>
          /\ healthDelivery' = [p \in Health!Pairs |->
               IF Health!Exists(p) /\ healthDelivery[p].status \in Health!Closed
                  /\ healthDelivery[p].age <= HealthWindow
               THEN [healthDelivery[p] EXCEPT !.age = @ + 1] ELSE healthDelivery[p]]
      BY <1>14 DEF Health!Tick
    <2>2. ASSUME NEW p \in Health!Pairs
          PROVE  /\ healthDelivery'[p] # NoValue <=> healthDelivery[p] # NoValue
                 /\ healthDelivery[p] # NoValue =>
                       healthDelivery'[p].status = healthDelivery[p].status
      <3>1. CASE healthDelivery'[p] = healthDelivery[p]
        BY <3>1
      <3>2. CASE /\ healthDelivery[p] # NoValue
                 /\ healthDelivery'[p] = [healthDelivery[p] EXCEPT !.age = @ + 1]
        <4>1. healthDelivery[p] \in HealthDeliveryRow
          BY <1>1, <3>2
        <4>2. [healthDelivery[p] EXCEPT !.age = @ + 1] \in
                 [status : Health!Open \cup Health!Closed, age : Nat]
          BY <4>1 DEF HealthDeliveryRow, Health!HealthAssumption
        <4>. QED BY <3>2, <4>1, <4>2 DEF HealthDeliveryRow, Health!HealthAssumption
      <3>. QED BY <2>1, <3>1, <3>2 DEF Health!Exists
    <2>. QED BY <2>1, <2>2, CountsStand
  <1>. QED BY <1>3, <1>4, <1>6, <1>7, <1>8, <1>9, <1>10, <1>11, <1>12, <1>13, <1>14
       DEF Health!Next, Health!Start, Health!Retry, Health!Complete

\* Adding up how many pairs there are for each of some second components comes
\* to how many there are for all of them.
LEMMA SumOverParts ==
    ASSUME NEW U, IsFiniteSet(U), NEW S, IsFiniteSet(S)
    PROVE  (CHOOSE f : f = [s \in SUBSET S |->
               IF s = {} THEN 0
               ELSE Cardinality({p \in U : p[2] = CHOOSE x \in s : TRUE})
                       + f[s \ {CHOOSE x \in s : TRUE}]])[S]
              = Cardinality({p \in U : p[2] \in S})
  <1>. DEFINE Of(e) == {p \in U : p[2] = e}
              Whole(s) == {p \in U : p[2] \in s}
              Pick(s) == CHOOSE x \in s : TRUE
              G == [s \in SUBSET S |-> Cardinality(Whole(s))]
              Sums(f) == f = [s \in SUBSET S |->
                 IF s = {} THEN 0 ELSE Cardinality(Of(Pick(s))) + f[s \ {Pick(s)}]]
              f == CHOOSE f : Sums(f)
  <1>1. \A T \in SUBSET U : IsFiniteSet(T) /\ Cardinality(T) \in Nat
    BY FS_Subset, FS_CardinalityType
  <1>2. ASSUME NEW s \in SUBSET S, s # {}
        PROVE  /\ Pick(s) \in s /\ s \ {Pick(s)} \in SUBSET S
               /\ Cardinality(Whole(s)) =
                     Cardinality(Of(Pick(s))) + Cardinality(Whole(s \ {Pick(s)}))
    <2>1. Pick(s) \in s
      BY <1>2
    <2>. DEFINE x == Pick(s)
                rest == Whole(s \ {x})
    <2>. HIDE DEF x
    <2>2. Whole(s) = Of(x) \cup rest /\ Of(x) \cap rest = {}
      BY <2>1 DEF x
    <2>3. Of(x) \in SUBSET U /\ rest \in SUBSET U
      OBVIOUS
    <2>. HIDE DEF Of, Whole, rest
    <2>4. /\ Cardinality(Of(x) \cup rest) =
                Cardinality(Of(x)) + Cardinality(rest) - Cardinality(Of(x) \cap rest)
          /\ Cardinality(Of(x)) \in Nat /\ Cardinality(rest) \in Nat
      BY <1>1, <2>3, FS_Union
    <2>5. Cardinality(Of(x) \cap rest) = 0
      BY <2>2, FS_EmptySet
    <2>6. Cardinality(Whole(s)) = Cardinality(Of(x)) + Cardinality(rest)
      BY <2>2, <2>4, <2>5
    <2>. QED BY <2>1, <2>6 DEF x, rest
  <1>3. Cardinality(Whole({})) = 0
    <2>1. Whole({}) = {}
      OBVIOUS
    <2>. QED BY <2>1, FS_EmptySet
  <1>. HIDE DEF Of, Whole, Pick
  <1>4. \A s \in SUBSET S :
           G[s] = IF s = {} THEN 0 ELSE Cardinality(Of(Pick(s))) + G[s \ {Pick(s)}]
    <2>1. ASSUME NEW s \in SUBSET S
          PROVE  G[s] = IF s = {} THEN 0 ELSE Cardinality(Of(Pick(s))) + G[s \ {Pick(s)}]
      <3>1. CASE s = {}
        BY <1>3, <3>1
      <3>2. CASE s # {}
        BY <1>2, <3>2
      <3>. QED BY <3>1, <3>2
    <2>. QED BY <2>1
  <1>5. Sums(G)
    <2>1. G = [s \in SUBSET S |-> G[s]]
      OBVIOUS
    <2>. HIDE DEF G
    <2>. QED BY <1>4, <2>1
  <1>6. Sums(f)
    <2>. HIDE DEF Sums, G
    <2>. QED BY <1>5
  <1>7. \A s \in SUBSET S :
           f[s] = IF s = {} THEN 0 ELSE Cardinality(Of(Pick(s))) + f[s \ {Pick(s)}]
    <2>. HIDE DEF f
    <2>. QED BY <1>6
  <1>8. \A s \in SUBSET S : G[s] = Cardinality(Whole(s))
    OBVIOUS
  <1>. HIDE DEF f, G, Sums
  <1>9. ASSUME NEW s \in SUBSET S, f[s] # G[s]
        PROVE  \E t \in SUBSET s : t # s /\ f[t] # G[t]
    <2>1. s # {}
      BY <1>4, <1>7, <1>9
    <2>2. Pick(s) \in s /\ s \ {Pick(s)} \in SUBSET S
      BY <1>2, <2>1
    <2>3. f[s \ {Pick(s)}] # G[s \ {Pick(s)}]
      BY <1>4, <1>7, <1>9, <2>1
    <2>. QED BY <2>2, <2>3
  <1>10. \A s \in SUBSET S : f[s] = G[s]
    <2>. DEFINE Bad == {s \in SUBSET S : f[s] # G[s]}
                Smaller == StrictSubsetOrdering(S)
    <2>1. SUFFICES ASSUME Bad # {} PROVE FALSE
      OBVIOUS
    <2>2. Bad \subseteq FiniteSubsetsOf(S) /\ IsWellFoundedOn(Smaller, FiniteSubsetsOf(S))
      BY FS_Subset, FS_StrictSubsetOrderingWellFounded DEF FiniteSubsetsOf
    <2>3. PICK s \in Bad : \A t \in Bad : <<t, s>> \notin Smaller
      <3>. HIDE DEF Bad, Smaller
      <3>. QED BY <2>1, <2>2, WFMin
    <2>4. PICK t \in SUBSET s : t # s /\ f[t] # G[t]
      BY <1>9, <2>3
    <2>5. t \in Bad /\ <<t, s>> \in Smaller
      BY <2>3, <2>4 DEF StrictSubsetOrdering
    <2>. QED BY <2>3, <2>5
  <1>11. f[S] = Cardinality(Whole(S))
    BY <1>8, <1>10
  <1>. QED BY <1>11 DEF f, Sums, Pick, Whole, Of

\* The Deliveries a badge counts are those of the groups of the roll-up.
LEMMA BadgeAdds == ASSUME Health!HealthAssumption, HealthInv PROVE Health!BadgeIsRollup
  <1>. SUFFICES ASSUME NEW c \in HealthChannels
                PROVE  Health!FailureCount(c) =
                          Health!MapThenSumSet(
                             LAMBDA e : Health!Cardinality(Health!Failures(e)), Health!Rollup(c))
    BY DEF Health!BadgeIsRollup
  <1>. DEFINE U == Health!In(Health!Broken) \cap Health!Recent
              S == Health!Rollup(c)
  <1>1. IsFiniteSet(S)
    <2>1. S \subseteq HealthEndpoints /\ IsFiniteSet(HealthEndpoints)
      BY HealthCounts DEF Health!Rollup, Health!HealthAssumption
    <2>. QED BY <2>1, FS_Subset
  <1>2. U \subseteq Health!Pairs /\ IsFiniteSet(U)
    <2>1. U \subseteq Health!Pairs
      BY DEF Health!In
    <2>. QED BY <2>1, PairsAreFinite
  <1>3. ASSUME NEW p \in U PROVE healthBroadcast[p[1]] = c <=> p[2] \in S
    <2>1. p \in Health!Pairs /\ p[2] \in HealthEndpoints /\ healthEndpoint[p[2]] # NoValue
          /\ healthBroadcast[p[1]] = HealthHomeOf[p[2]]
      BY <1>3 DEF Health!In, Health!Pairs, HealthInv
    <2>2. p \in Health!Failures(p[2])
      BY <1>3 DEF Health!Failures
    <2>. QED BY <2>1, <2>2 DEF Health!Rollup
  <1>4. Health!FailureCount(c) = Cardinality({p \in U : healthBroadcast[p[1]] = c})
    BY HealthCounts DEF Health!FailureCount, Health!FailuresSince
  <1>5. Health!MapThenSumSet(LAMBDA e : Health!Cardinality(Health!Failures(e)), S) =
          (CHOOSE f : f = [s \in SUBSET S |->
              IF s = {} THEN 0
              ELSE Cardinality({p \in U : p[2] = CHOOSE x \in s : TRUE})
                      + f[s \ {CHOOSE x \in s : TRUE}]])[S]
    BY HealthCounts DEF Health!MapThenSumSet, Health!MapThenFoldSet, Health!Failures
  <1>. HIDE DEF S, U
  <1>6. Health!MapThenSumSet(LAMBDA e : Health!Cardinality(Health!Failures(e)), S)
           = Cardinality({p \in U : p[2] \in S})
    BY <1>1, <1>2, <1>5, SumOverParts
  <1>7. {p \in U : healthBroadcast[p[1]] = c} = {p \in U : p[2] \in S}
    BY <1>3
  <1>. QED BY <1>4, <1>6, <1>7 DEF S

\* Of a finite set, a part with a member in it is counted.
LEMMA CountIsOfMembers ==
    ASSUME NEW T, IsFiniteSet(T)
    PROVE  Cardinality(T) \in Nat /\ (Cardinality(T) > 0 <=> T # {})
  BY FS_CardinalityType, FS_EmptySet

LEMMA PairsOfBroadcast ==
    ASSUME Health!HealthAssumption, NEW b, NEW statuses
    PROVE  /\ IsFiniteSet({p \in Health!In(statuses) : p[1] = b})
           /\ IsFiniteSet({p \in Health!Pairs : Health!Exists(p) /\ p[1] = b})
  <1>1. {p \in Health!In(statuses) : p[1] = b} \in SUBSET Health!Pairs
    BY DEF Health!In
  <1>2. {p \in Health!Pairs : Health!Exists(p) /\ p[1] = b} \in SUBSET Health!Pairs
    OBVIOUS
  <1>. QED BY <1>1, <1>2, PairsAreFinite

LEMMA RankIsLamp == ASSUME HealthInv, ListedInv PROVE Health!RankMatchesLamp
  BY DEF HealthInv, Health!TypeOK, ListedInv, Health!RankMatchesLamp, Health!HydratedFailures,
         Health!ChannelHealthLamp

LEMMA RowIsRollup == ASSUME HealthInv PROVE Health!RowMatchesRollup
  <1>. SUFFICES ASSUME NEW e \in HealthEndpoints, healthEndpoint[e] # NoValue,
                       healthEndpoint[e].enabled
                PROVE  Health!EndpointHealthLamp(e) = "cut" <=>
                          e \in Health!Rollup(HealthHomeOf[e])
    BY DEF Health!RowMatchesRollup
  <1>1. healthEndpoint[e] \in [enabled : BOOLEAN, auto : BOOLEAN] /\ ~healthEndpoint[e].auto
    BY DEF HealthInv, Health!TypeOK
  <1>2. Health!EndpointHealthLamp(e) =
           IF Health!Rated(e) = {} THEN "no activity"
           ELSE IF Health!Succeeded(e) # Health!Rated(e) THEN "cut" ELSE "live"
    BY <1>1 DEF Health!EndpointHealthLamp
  <1>3. Health!Failures(e) = Health!Rated(e) \ Health!Succeeded(e)
        /\ Health!Succeeded(e) \subseteq Health!Rated(e)
    BY DEF Health!Failures, Health!Rated, Health!Succeeded, Health!In, Health!Closed,
         Health!Broken
  <1>4. e \in Health!Rollup(HealthHomeOf[e]) <=> Health!Failures(e) # {}
    BY DEF Health!Rollup
  <1>. QED BY <1>2, <1>3, <1>4

LEMMA GlyphsKeepOrder == ASSUME Health!HealthAssumption PROVE Health!GlyphsFollowRank
  <1>. SUFFICES ASSUME NEW c \in HealthChannels, NEW e \in Health!Rollup(c),
                       NEW f \in Health!Rollup(c),
                       Health!RanksBefore(e, f), Health!EndpointFailureLamp(f) = "stopped"
                PROVE  Health!EndpointFailureLamp(e) = "stopped"
    BY DEF Health!GlyphsFollowRank
  <1>1. ASSUME NEW g PROVE Health!Dead(g) \in Nat
    <2>1. {p \in Health!Failures(g) : healthDelivery[p].status = "dead_lettered"}
             \in SUBSET Health!Pairs
      BY DEF Health!Failures, Health!In
    <2>. QED BY <2>1, PairsAreFinite, HealthCounts DEF Health!Dead
  <1>2. PICK i \in 1..3 : /\ Health!Severity(e)[i] > Health!Severity(f)[i]
                          /\ \A j \in 1..(i - 1) :
                                Health!Severity(e)[j] = Health!Severity(f)[j]
    BY DEF Health!RanksBefore, Health!Severity
  <1>3. ASSUME NEW g
        PROVE  Health!Severity(g)[1] = (IF healthEndpoint[g].auto THEN 1 ELSE 0)
               /\ Health!Severity(g)[2] = Health!Dead(g)
    BY DEF Health!Severity
  <1>4. healthEndpoint[f].auto \/ Health!Dead(f) > 0
    BY DEF Health!EndpointFailureLamp
  <1>5. CASE i = 1
    <2>1. healthEndpoint[e].auto
      BY <1>2, <1>3, <1>5
    <2>. QED BY <2>1 DEF Health!EndpointFailureLamp
  <1>6. CASE i = 2
    <2>1. Health!Dead(e) > 0
      BY <1>1, <1>2, <1>3, <1>6
    <2>. QED BY <2>1 DEF Health!EndpointFailureLamp
  <1>7. CASE i = 3
    <2>1. Health!Severity(e)[1] = Health!Severity(f)[1]
          /\ Health!Severity(e)[2] = Health!Severity(f)[2]
      BY <1>2, <1>7
    <2>2. (healthEndpoint[e].auto <=> healthEndpoint[f].auto)
          /\ Health!Dead(e) = Health!Dead(f)
      BY <1>3, <2>1
    <2>. QED BY <1>4, <2>2 DEF Health!EndpointFailureLamp
  <1>. QED BY <1>2, <1>5, <1>6, <1>7

LEMMA FailuresAreSeen == ASSUME Health!HealthAssumption PROVE Health!NoHealthyFailure
  <1>. SUFFICES ASSUME NEW e \in HealthEndpoints, NEW b \in Health!FailureList(e)
                PROVE  Health!BroadcastFanoutLamp(b) = "cut"
    BY DEF Health!NoHealthyFailure
  <1>. DEFINE q == <<b, e>>
              All == {p \in Health!Pairs : Health!Exists(p) /\ p[1] = b}
              Ended(status) == {p \in Health!In({status}) : p[1] = b}
  <1>1. q \in Health!Pairs /\ q[1] = b /\ Health!Exists(q)
        /\ healthDelivery[q].status \in {"failed", "dead_lettered"}
    BY DEF Health!FailureList, Health!Pairs, Health!Broken
  <1>2. q \in All /\ (q \in Ended("failed") \/ q \in Ended("dead_lettered"))
    BY <1>1 DEF Health!In
  <1>3. IsFiniteSet(All) /\ \A status : IsFiniteSet(Ended(status))
    BY PairsOfBroadcast
  <1>4. /\ Health!Fanout(b).total = Cardinality(All)
        /\ Health!Fanout(b).failed = Cardinality(Ended("failed"))
        /\ Health!Fanout(b).deadLettered = Cardinality(Ended("dead_lettered"))
    BY HealthCounts DEF Health!Fanout
  <1>. HIDE DEF All, Ended, q
  <1>5. Cardinality(All) \in Nat /\ Cardinality(All) > 0
    BY <1>2, <1>3, CountIsOfMembers
  <1>6. Cardinality(Ended("failed")) > 0 \/ Cardinality(Ended("dead_lettered")) > 0
    BY <1>2, <1>3, CountIsOfMembers
  <1>7. Health!Fanout(b).total # 0
        /\ (Health!Fanout(b).deadLettered > 0 \/ Health!Fanout(b).failed > 0)
    BY <1>4, <1>5, <1>6
  <1>. QED BY <1>7 DEF Health!BroadcastFanoutLamp

LEMMA DisjointCounts ==
    ASSUME NEW S, NEW T, IsFiniteSet(S), IsFiniteSet(T), S \cap T = {}
    PROVE  /\ IsFiniteSet(S \cup T)
           /\ Cardinality(S \cup T) = Cardinality(S) + Cardinality(T)
  <1>1. /\ IsFiniteSet(S \cup T)
        /\ Cardinality(S \cup T) = Cardinality(S) + Cardinality(T) - Cardinality(S \cap T)
    BY FS_Union
  <1>2. Cardinality(S) \in Nat /\ Cardinality(T) \in Nat /\ Cardinality(S \cap T) = 0
    BY FS_CardinalityType, FS_EmptySet
  <1>. QED BY <1>1, <1>2

\* A Delivery has one status, and is to one Endpoint.
LEMMA ColumnsAddUp == ASSUME Health!HealthAssumption, HealthInv PROVE Health!FanoutAddsUp
  <1>. SUFFICES ASSUME NEW b \in HealthBroadcasts
                PROVE  /\ Health!Fanout(b).total =
                             Health!Fanout(b).succeeded + Health!Fanout(b).failed
                                 + Health!Fanout(b).deadLettered + Health!Fanout(b).pending
                       /\ Health!Fanout(b).total = Cardinality(Health!Detail(b))
    BY HealthCounts DEF Health!FanoutAddsUp
  <1>. DEFINE All == {p \in Health!Pairs : Health!Exists(p) /\ p[1] = b}
              Ended(status) == {p \in Health!In({status}) : p[1] = b}
              Going == {p \in Health!In(Health!Open) : p[1] = b}
  <1>1. Health!Fanout(b) = [total |-> Cardinality(All),
                     succeeded |-> Cardinality(Ended("succeeded")),
                     failed |-> Cardinality(Ended("failed")),
                     deadLettered |-> Cardinality(Ended("dead_lettered")),
                     pending |-> Cardinality(Going)]
    BY HealthCounts DEF Health!Fanout, Health!PendingIn
  <1>2. IsFiniteSet(All) /\ IsFiniteSet(Going) /\ \A status : IsFiniteSet(Ended(status))
    BY PairsOfBroadcast
  <1>3. \A p \in Health!Pairs : Health!Exists(p) =>
           healthDelivery[p].status \in {"succeeded", "failed", "dead_lettered"} \cup Health!Open
    BY DEF HealthInv, Health!TypeOK, Health!Exists, Health!Open, Health!Closed, Health!Broken
  <1>4. /\ Ended("succeeded") \cap Ended("failed") = {}
        /\ (Ended("succeeded") \cup Ended("failed")) \cap Ended("dead_lettered") = {}
        /\ (Ended("succeeded") \cup Ended("failed") \cup Ended("dead_lettered")) \cap Going = {}
    BY DEF Health!In, Health!Open
  <1>5. All = Ended("succeeded") \cup Ended("failed") \cup Ended("dead_lettered") \cup Going
    BY <1>3 DEF Health!In
  <1>6. Cardinality(All) = Cardinality(Health!Detail(b))
    <2>. DEFINE To == [p \in All |-> p[2]]
    <2>1. Health!Detail(b) = {e \in HealthEndpoints : Health!Exists(<<b, e>>)}
      <3>1. \A e \in HealthEndpoints : <<b, e>> \in Health!Pairs /\ <<b, e>>[2] = e
        BY DEF Health!Pairs
      <3>. QED BY <3>1 DEF HealthInv, Health!Detail
    <2>2. \A p \in All : p = <<b, p[2]>> /\ p[2] \in HealthEndpoints
      BY DEF Health!Pairs
    <2>3. To \in [All -> Health!Detail(b)]
      <3>1. \A p \in All : p[2] \in Health!Detail(b)
        BY <2>1, <2>2
      <3>. QED BY <3>1
    <2>4. \A p, q \in All : To[p] = To[q] => p = q
      BY <2>2
    <2>5. \A e \in Health!Detail(b) : \E p \in All : To[p] = e
      <3>1. \A e \in Health!Detail(b) : <<b, e>> \in All /\ To[<<b, e>>] = e
        BY <2>1 DEF Health!Pairs
      <3>. QED BY <3>1
    <2>. HIDE DEF To, All
    <2>6. To \in Bijection(All, Health!Detail(b))
      BY <2>3, <2>4, <2>5 DEF Bijection, Injection, Surjection, IsInjective
    <2>. QED BY <1>2, <2>6, FS_Bijection DEF ExistsBijection
  <1>. HIDE DEF All, Ended, Going
  <1>7. /\ Cardinality(Ended("succeeded") \cup Ended("failed"))
             = Cardinality(Ended("succeeded")) + Cardinality(Ended("failed"))
        /\ IsFiniteSet(Ended("succeeded") \cup Ended("failed"))
    BY <1>2, <1>4, DisjointCounts
  <1>8. /\ Cardinality(Ended("succeeded") \cup Ended("failed") \cup Ended("dead_lettered"))
             = Cardinality(Ended("succeeded") \cup Ended("failed"))
                   + Cardinality(Ended("dead_lettered"))
        /\ IsFiniteSet(Ended("succeeded") \cup Ended("failed") \cup Ended("dead_lettered"))
    BY <1>2, <1>4, <1>7, DisjointCounts
  <1>9. Cardinality(All) =
           Cardinality(Ended("succeeded") \cup Ended("failed") \cup Ended("dead_lettered"))
               + Cardinality(Going)
    BY <1>2, <1>4, <1>5, <1>8, DisjointCounts
  <1>. QED BY <1>1, <1>6, <1>7, <1>8, <1>9

-----------------------------------------------------------------------------
(* A Channel's page.                                                       *)

\* The rows, the entries of the cache, and what the form may be filled with.
PageRows == [slug : PageSlugs, enabled : BOOLEAN, live : BOOLEAN]
PageEntries == [data : Page!Fields \cup {NoValue}, gone : BOOLEAN]
PageFilled == [slug : PageSlugs \cup PageMalformed, enabled : BOOLEAN]
USE DEF PageRows, PageEntries, PageFilled

PageTyped ==
    /\ pageRow \in [PageChannels -> PageRows]
    /\ pageRoute \in Page!Routes
    /\ pageLookup \in [PageSlugs -> PageChannels \cup {NoValue, Missing}]
    /\ pageCache \in [PageChannels -> PageEntries]
    /\ pageFetch \in [PageSlugs \cup PageChannels -> Page!Fetched \cup {NoValue}]
    /\ pageSave \in Page!Saving \cup {NoValue}
    /\ pageDelete \in Page!Deleting \cup {NoValue}
    /\ pageChanges \in Nat /\ pageSaves \in Nat /\ (pageSaves = 0 => pageSave = NoValue)

\* The form is filled with what is shown; the region is open for what is shown.
PageAsked ==
    /\ Page!SaveRevertsNothingShown
    /\ Page!Shown # NoValue => pageForm.fields \in PageFilled
    /\ pageDanger.open => pageDanger.of = Page!ShownId /\ Page!ShownId # NoValue
    /\ Page!DeletesWhatWasConfirmed

\* While others change nothing, a Channel goes only when the page leaves it.
NoChannelGone ==
    pageChanges = 0 =>
       /\ \A c \in PageChannels :
             ~pageCache[c].gone /\ (pageFetch[c] # NoValue => pageFetch[c].id # Missing)
       /\ pageRoute.form # "directory" => \A c \in PageChannels : pageRow[c].live

\* A slug that is found, now and by the answers on their way.
SlugFound(s) ==
    /\ Page!Holder(s) # {} /\ pageLookup[s] # Missing
    /\ pageFetch[s] # NoValue => pageFetch[s].id # Missing

\* Before the first save, whatever has been read of a Channel has its slug.
SlugsAreTheirs ==
    /\ \A c \in PageChannels :
          /\ pageCache[c].data # NoValue => pageCache[c].data.slug = pageRow[c].slug
          /\ pageFetch[c] # NoValue /\ pageFetch[c].id # Missing =>
                pageFetch[c].data.slug = pageRow[c].slug
    /\ \A s \in PageSlugs :
          /\ pageLookup[s] \in PageChannels => pageRow[pageLookup[s]].slug = s
          /\ pageFetch[s] # NoValue /\ pageFetch[s].id # Missing =>
                pageFetch[s].data.slug = s /\ pageRow[pageFetch[s].id].slug = s

PageRenamed == pageSave.reply = "ok" /\ pageSave.fields.slug # pageSave.was

\* The slug in the address bar is found; the one save that renamed its Channel is
\* about to put the new one there, of which nothing has been read.
PageAddressed ==
    pageChanges = 0 /\ pageSaves <= 1 /\ pageRoute.form = "slug" =>
       /\ pageSaves = 0 => SlugFound(pageRoute.at) /\ SlugsAreTheirs
       /\ pageSaves = 1 /\ pageSave = NoValue => SlugFound(pageRoute.at)
       /\ pageSave # NoValue =>
             /\ pageSave.was = pageRoute.at
             /\ pageSave.reply # "ok" => pageRow[pageSave.of].slug = pageRoute.at
             /\ IF PageRenamed THEN Page!Holder(pageSave.fields.slug) # {}
                   ELSE SlugFound(pageRoute.at)
       /\ pageSaves = 0 \/ pageSave # NoValue =>
             \A s \in PageSlugs \ {pageRoute.at} : pageFetch[s] = NoValue

PageInv ==
    /\ PageTyped /\ PageAsked /\ NoChannelGone /\ PageAddressed
    /\ pageSave # NoValue /\ pageRoute.form # "directory" => pageSave.route = pageRoute

LEMMA PageShows ==
    ASSUME Page!PageAssumption, PageTyped
    PROVE  /\ Page!ChannelId \in PageChannels \cup {NoValue}
           /\ Page!Shown \in Page!Fields \cup {NoValue}
           /\ Page!Shown # NoValue =>
                 /\ Page!ChannelId \in PageChannels /\ Page!ShownId = Page!ChannelId
                 /\ Page!Shown = pageCache[Page!ChannelId].data
           /\ Page!ShownId # NoValue => Page!Shown # NoValue
           /\ pageRoute.form = "slug" /\ Page!ChannelId # NoValue =>
                 Page!ChannelId = pageLookup[pageRoute.at]
           /\ pageRoute.form = "directory" => Page!ChannelId = NoValue
           /\ pageRoute.form = "slug" => pageRoute.at \in PageSlugs
  <1>1. \/ pageRoute.form = "id" /\ pageRoute.at \in PageChannels
        \/ pageRoute.form = "slug" /\ pageRoute.at \in PageSlugs
        \/ pageRoute.form = "directory"
    BY DEF PageTyped, Page!Routes
  <1>2. CASE pageRoute.form = "id" /\ pageRoute.at \in PageChannels
    BY <1>2 DEF Page!ChannelId, Page!Shown, Page!ShownId, PageTyped
  <1>3. CASE pageRoute.form = "slug" /\ pageRoute.at \in PageSlugs
    <2>1. pageLookup[pageRoute.at] \in PageChannels \cup {NoValue, Missing}
      BY <1>3 DEF PageTyped
    <2>2. Page!ChannelId = IF pageLookup[pageRoute.at] # Missing
             THEN pageLookup[pageRoute.at] ELSE NoValue
      BY <1>3 DEF Page!ChannelId
    <2>. QED BY <1>3, <2>1, <2>2 DEF Page!Shown, Page!ShownId, PageTyped
  <1>4. CASE pageRoute.form = "directory"
    <2>1. Page!ChannelId = NoValue
      BY <1>4 DEF Page!ChannelId
    <2>. QED BY <1>4, <2>1 DEF Page!Shown, Page!ShownId
  <1>. QED BY <1>1, <1>2, <1>3, <1>4

LEMMA PageShowsNext ==
    ASSUME Page!PageAssumption, PageTyped'
    PROVE  Page!Shown' \in Page!Fields \cup {NoValue}
  <1>1. \/ pageRoute'.form = "id" /\ pageRoute'.at \in PageChannels
        \/ pageRoute'.form = "slug" /\ pageRoute'.at \in PageSlugs
        \/ pageRoute'.form = "directory"
    BY DEF PageTyped, Page!Routes
  <1>2. CASE pageRoute'.form = "id" /\ pageRoute'.at \in PageChannels
    BY <1>2 DEF Page!ChannelId, Page!Shown, PageTyped
  <1>3. CASE pageRoute'.form = "slug" /\ pageRoute'.at \in PageSlugs
    <2>1. pageLookup'[pageRoute'.at] \in PageChannels \cup {NoValue, Missing}
      BY <1>3 DEF PageTyped
    <2>2. Page!ChannelId' = IF pageLookup'[pageRoute'.at] # Missing
             THEN pageLookup'[pageRoute'.at] ELSE NoValue
      BY <1>3 DEF Page!ChannelId
    <2>. QED BY <1>3, <2>1, <2>2 DEF Page!Shown, PageTyped
  <1>4. CASE pageRoute'.form = "directory"
    <2>1. Page!ChannelId' = NoValue
      BY <1>4 DEF Page!ChannelId
    <2>. QED BY <1>4, <2>1 DEF Page!Shown
  <1>. QED BY <1>1, <1>2, <1>3, <1>4

LEMMA PageBegins == ASSUME Page!PageAssumption, Page!Init PROVE PageInv
  <1>1. PageTyped
    BY DEF Page!Init, PageTyped, Page!PageAssumption, Page!Routes, Page!NoData, Page!Fields
  <1>2. \A c \in PageChannels :
           pageCache[c].data = NoValue /\ ~pageCache[c].gone /\ pageFetch[c] = NoValue
    BY DEF Page!Init, Page!NoData
  <1>3. Page!Shown = NoValue
    BY <1>1, <1>2, PageShows
  <1>4. PageAsked
    BY <1>3 DEF Page!Init, PageAsked, Page!Shut, Page!SaveRevertsNothingShown,
         Page!DeletesWhatWasConfirmed
  <1>5. NoChannelGone
    BY <1>2 DEF NoChannelGone, Page!Init
  <1>6. PageAddressed
    <2>1. PageHome \in Page!Holder(PageFirst[PageHome]) /\ PageFirst[PageHome] \in PageSlugs
      BY DEF Page!Init, Page!Holder, Page!PageAssumption
    <2>2. \A s \in PageSlugs : pageLookup[s] = NoValue /\ pageFetch[s] = NoValue
      BY DEF Page!Init
    <2>3. ASSUME pageRoute.form = "slug" PROVE pageRoute.at = PageFirst[PageHome]
      BY <2>3 DEF Page!Init
    <2>4. ASSUME pageRoute.form = "slug" PROVE SlugFound(pageRoute.at)
      BY <2>1, <2>2, <2>3, <2>4 DEF SlugFound, Page!PageAssumption
    <2>5. SlugsAreTheirs
      BY <1>2, <2>2 DEF SlugsAreTheirs, Page!PageAssumption
    <2>. QED BY <2>2, <2>4, <2>5 DEF PageAddressed, Page!Init
  <1>. QED BY <1>1, <1>4, <1>5, <1>6 DEF PageInv, Page!Init

LEMMA ReadIsTyped ==
    ASSUME Page!PageAssumption, PageTyped
    PROVE  \A c \in PageChannels :
              Page!FieldsOf(c) \in Page!Fields /\ Page!FieldsOf(c).slug = pageRow[c].slug
  BY DEF Page!FieldsOf, Page!Fields, PageTyped

LEMMA FetchedIsTyped ==
    ASSUME Page!PageAssumption, PageTyped, NEW k \in PageSlugs \cup PageChannels,
           pageFetch[k] # NoValue
    PROVE  /\ pageFetch[k].id \in PageChannels \cup {Missing}
           /\ pageFetch[k].id # Missing =>
                 pageFetch[k].id \in PageChannels /\ pageFetch[k].data \in Page!Fields
  BY DEF PageTyped, Page!Fetched

\* What is sent has been accepted, and so is well formed.
LEMMA SaveIsTyped ==
    ASSUME Page!PageAssumption, PageTyped, PageAsked, Page!Save
    PROVE  pageSave' \in Page!Saving
  <1>1. /\ Page!Shown # NoValue /\ pageForm.fields.slug \notin PageMalformed
        /\ pageSave' = [of |-> Page!ChannelId, fields |-> pageForm.fields,
                        was |-> Page!Shown.slug, route |-> pageRoute, reply |-> NoValue]
    BY DEF Page!Save, Page!Accepted
  <1>2. Page!ChannelId \in PageChannels /\ Page!Shown.slug \in PageSlugs
    BY <1>1, PageShows DEF Page!Fields
  <1>3. pageForm.fields \in Page!Fields
    <2>1. pageForm.fields \in PageFilled
      BY <1>1 DEF PageAsked
    <2>. QED BY <1>1, <2>1 DEF Page!Fields
  <1>. QED BY <1>1, <1>2, <1>3 DEF Page!Saving, PageTyped

LEMMA PageTypedGoesOn ==
    ASSUME Page!PageAssumption, PageTyped, PageAsked, [Page!Next]_pageVars PROVE PageTyped'
  <1>1. CASE UNCHANGED pageVars
    BY <1>1 DEF pageVars, PageTyped
  <1>2. CASE Page!FetchLookup
    <2>1. pageRoute.at \in PageSlugs
          /\ UNCHANGED <<pageRow, pageRoute, pageLookup, pageCache, pageSave, pageDelete,
                pageChanges, pageSaves>>
      BY <1>2, PageShows DEF Page!FetchLookup
    <2>2. CASE Page!Holder(pageRoute.at) = {}
      <3>1. pageFetch' = [pageFetch EXCEPT ![pageRoute.at] =
               [id |-> Missing, data |-> NoValue]]
        BY <1>2, <2>2 DEF Page!FetchLookup
      <3>2. [id |-> Missing, data |-> NoValue] \in Page!Fetched
        BY DEF Page!Fetched
      <3>. QED BY <2>1, <3>1, <3>2 DEF PageTyped
    <2>3. CASE Page!Holder(pageRoute.at) # {}
      <3>1. PICK c \in PageChannels :
                    pageFetch' = [pageFetch EXCEPT ![pageRoute.at] =
                       [id |-> c, data |-> Page!FieldsOf(c)]]
        BY <1>2, <2>3 DEF Page!FetchLookup, Page!Holder
      <3>2. [id |-> c, data |-> Page!FieldsOf(c)] \in Page!Fetched
        BY ReadIsTyped DEF Page!Fetched
      <3>. QED BY <2>1, <3>1, <3>2 DEF PageTyped
    <2>. QED BY <2>2, <2>3
  <1>3. CASE Page!FetchChannel
    <2>1. Page!ChannelId \in PageChannels
          /\ UNCHANGED <<pageRow, pageRoute, pageLookup, pageCache, pageSave, pageDelete,
                pageChanges, pageSaves>>
      BY <1>3, PageShows DEF Page!FetchChannel, Page!Polls
    <2>2. PICK f \in Page!Fetched : pageFetch' = [pageFetch EXCEPT ![Page!ChannelId] = f]
      <3>1. [id |-> Missing, data |-> NoValue] \in Page!Fetched
        BY DEF Page!Fetched
      <3>2. [id |-> Page!ChannelId, data |-> Page!FieldsOf(Page!ChannelId)] \in Page!Fetched
        BY <2>1, ReadIsTyped DEF Page!Fetched
      <3>. QED BY <1>3, <3>1, <3>2 DEF Page!FetchChannel
    <2>. QED BY <2>1, <2>2 DEF PageTyped
  <1>4. ASSUME NEW s \in PageSlugs, Page!LandLookup(s) PROVE PageTyped'
    <2>1. /\ pageFetch[s] # NoValue
          /\ pageLookup' = [pageLookup EXCEPT ![s] = pageFetch[s].id]
          /\ pageCache' = (IF pageFetch[s].id = Missing THEN pageCache
                       ELSE [pageCache EXCEPT ![pageFetch[s].id] =
                          [data |-> pageFetch[s].data, gone |-> FALSE]])
          /\ pageFetch' = [pageFetch EXCEPT ![s] = NoValue]
          /\ UNCHANGED <<pageRow, pageRoute, pageSave, pageDelete, pageChanges, pageSaves>>
      BY <1>4 DEF Page!LandLookup
    <2>2. /\ pageFetch[s].id \in PageChannels \cup {Missing}
          /\ pageFetch[s].id # Missing => pageFetch[s].data \in Page!Fields
      BY <2>1, FetchedIsTyped
    <2>3. pageLookup' \in [PageSlugs -> PageChannels \cup {NoValue, Missing}]
      BY <2>1, <2>2 DEF PageTyped
    <2>4. pageCache' \in [PageChannels -> PageEntries]
      <3>1. CASE pageFetch[s].id = Missing
        BY <2>1, <3>1 DEF PageTyped
      <3>2. CASE pageFetch[s].id # Missing
        <4>1. [data |-> pageFetch[s].data, gone |-> FALSE] \in PageEntries
          BY <2>2, <3>2
        <4>. QED BY <2>1, <3>2, <4>1 DEF PageTyped
      <3>. QED BY <3>1, <3>2
    <2>5. pageFetch' \in [PageSlugs \cup PageChannels -> Page!Fetched \cup {NoValue}]
      BY <2>1 DEF PageTyped
    <2>. QED BY <2>1, <2>3, <2>4, <2>5 DEF PageTyped
  <1>5. ASSUME NEW c \in PageChannels, Page!LandChannel(c) PROVE PageTyped'
    <2>1. /\ pageFetch[c] # NoValue /\ pageFetch' = [pageFetch EXCEPT ![c] = NoValue]
          /\ UNCHANGED <<pageRow, pageRoute, pageLookup, pageSave, pageDelete, pageChanges,
                pageSaves>>
      BY <1>5 DEF Page!LandChannel
    <2>2. PICK n \in PageEntries : pageCache' = [pageCache EXCEPT ![c] = n]
      <3>1. CASE pageFetch[c].id = Missing
        <4>1. [pageCache[c] EXCEPT !.gone = TRUE] \in PageEntries
          BY DEF PageTyped
        <4>. QED BY <1>5, <3>1, <4>1 DEF Page!LandChannel
      <3>2. CASE pageFetch[c].id # Missing
        <4>1. [data |-> pageFetch[c].data, gone |-> FALSE] \in PageEntries
          BY <2>1, <3>2, FetchedIsTyped
        <4>. QED BY <1>5, <3>2, <4>1 DEF Page!LandChannel
      <3>. QED BY <3>1, <3>2
    <2>. QED BY <2>1, <2>2 DEF PageTyped
  <1>6. CASE Page!Edit
    BY <1>6 DEF Page!Edit, PageTyped
  <1>7. CASE Page!Save
    <2>1. pageSaves' = pageSaves + 1
          /\ UNCHANGED <<pageRow, pageRoute, pageLookup, pageCache, pageFetch, pageDelete,
                pageChanges>>
      BY <1>7 DEF Page!Save
    <2>. QED BY <1>7, <2>1, SaveIsTyped DEF PageTyped
  <1>8. CASE Page!Commit
    <2>1. pageSave # NoValue
          /\ UNCHANGED <<pageRoute, pageLookup, pageCache, pageFetch, pageDelete,
                pageChanges, pageSaves>>
      BY <1>8 DEF Page!Commit
    <2>2. pageSave \in Page!Saving
      BY <2>1 DEF PageTyped
    <2>3. PICK r \in {"ok", "refused"} : pageSave' = [pageSave EXCEPT !.reply = r]
      BY <1>8 DEF Page!Commit
    <2>4. pageSave' \in Page!Saving
      BY <2>2, <2>3 DEF Page!Saving
    <2>5. pageRow' \in [PageChannels -> PageRows]
      <3>1. [slug |-> pageSave.fields.slug, enabled |-> pageSave.fields.enabled,
             live |-> TRUE] \in PageRows
        BY <2>2 DEF Page!Saving, Page!Fields
      <3>. QED BY <1>8, <3>1 DEF Page!Commit, PageTyped
    <2>6. pageSaves # 0
      BY <2>1 DEF PageTyped
    <2>. QED BY <2>1, <2>4, <2>5, <2>6 DEF PageTyped
  <1>9. CASE Page!SaveAnswered
    <2>1. pageSave # NoValue /\ pageSave' = NoValue
          /\ UNCHANGED <<pageRow, pageFetch, pageDelete, pageChanges, pageSaves>>
      BY <1>9 DEF Page!SaveAnswered
    <2>2. pageSave \in Page!Saving
      BY <2>1 DEF PageTyped
    <2>3. pageSave.of \in PageChannels /\ pageSave.fields \in Page!Fields
          /\ pageSave.fields.slug \in PageSlugs
      BY <2>2 DEF Page!Saving, Page!Fields
    <2>4. pageCache' \in [PageChannels -> PageEntries]
      <3>1. [data |-> pageSave.fields, gone |-> FALSE] \in PageEntries
        BY <2>3
      <3>2. pageCache' = pageCache
               \/ pageCache' = [pageCache EXCEPT ![pageSave.of] =
                     [data |-> pageSave.fields, gone |-> FALSE]]
        BY <1>9 DEF Page!SaveAnswered
      <3>. QED BY <3>1, <3>2 DEF PageTyped
    <2>5. \/ UNCHANGED <<pageLookup, pageRoute>>
          \/ /\ pageLookup' = [pageLookup EXCEPT ![pageSave.fields.slug] = pageSave.of]
             /\ pageRoute' = [form |-> "slug", at |-> pageSave.fields.slug]
      BY <1>9 DEF Page!SaveAnswered
    <2>6. pageLookup' \in [PageSlugs -> PageChannels \cup {NoValue, Missing}]
      BY <2>3, <2>5 DEF PageTyped
    <2>7. pageRoute' \in Page!Routes
      BY <2>3, <2>5 DEF PageTyped, Page!Routes
    <2>. QED BY <2>1, <2>4, <2>6, <2>7 DEF PageTyped
  <1>10. CASE Page!OpenConfirm \/ Page!CancelDelete
    BY <1>10 DEF Page!OpenConfirm, Page!CancelDelete, PageTyped
  <1>11. CASE Page!ConfirmDelete
    <2>1. /\ pageDanger.open
          /\ pageDelete' = [id |-> Page!ChannelId, confirmed |-> pageDanger.of]
          /\ UNCHANGED <<pageRow, pageRoute, pageLookup, pageCache, pageFetch, pageSave,
                pageChanges, pageSaves>>
      BY <1>11 DEF Page!ConfirmDelete
    <2>2. pageDanger.of = Page!ChannelId /\ Page!ChannelId \in PageChannels
      BY <2>1, PageShows DEF PageAsked
    <2>3. pageDelete' \in Page!Deleting
      BY <2>1, <2>2 DEF Page!Deleting
    <2>. QED BY <2>1, <2>3 DEF PageTyped
  <1>12. CASE Page!DeleteAnswered
    <2>1. pageDelete # NoValue /\ pageDelete' = NoValue
          /\ UNCHANGED <<pageLookup, pageCache, pageFetch, pageSave, pageChanges,
                pageSaves>>
      BY <1>12 DEF Page!DeleteAnswered
    <2>2. pageDelete.id \in PageChannels
      BY <2>1 DEF PageTyped, Page!Deleting
    <2>3. pageRow' \in [PageChannels -> PageRows]
      <3>1. pageRow' = pageRow \/ pageRow' = [pageRow EXCEPT ![pageDelete.id].live = FALSE]
        BY <1>12 DEF Page!DeleteAnswered
      <3>2. [pageRow[pageDelete.id] EXCEPT !.live = FALSE] \in PageRows
        BY <2>2 DEF PageTyped
      <3>. QED BY <2>2, <3>1, <3>2 DEF PageTyped
    <2>4. pageRoute' \in Page!Routes
      <3>1. pageRoute' = [form |-> "directory", at |-> NoValue] \/ pageRoute' = pageRoute
        BY <1>12 DEF Page!DeleteAnswered
      <3>2. [form |-> "directory", at |-> NoValue] \in Page!Routes
        BY DEF Page!Routes
      <3>. QED BY <3>1, <3>2 DEF PageTyped
    <2>. QED BY <2>1, <2>3, <2>4 DEF PageTyped
  <1>13. ASSUME NEW c \in PageChannels, Page!OthersChange(c) PROVE PageTyped'
    <2>1. pageChanges' = pageChanges + 1
          /\ UNCHANGED <<pageRoute, pageLookup, pageCache, pageFetch, pageSave, pageDelete,
                pageSaves>>
      BY <1>13 DEF Page!OthersChange
    <2>2. pageRow' \in [PageChannels -> PageRows]
      <3>1. pageRow[c] \in PageRows
        BY DEF PageTyped
      <3>2. PICK n \in PageRows : pageRow' = [pageRow EXCEPT ![c] = n]
        <4>1. CASE pageRow' = [pageRow EXCEPT ![c].enabled = ~@]
          <5>1. [pageRow[c] EXCEPT !.enabled = ~@] \in PageRows
            BY <3>1
          <5>. QED BY <4>1, <5>1
        <4>2. CASE pageRow' = [pageRow EXCEPT ![c].live = FALSE]
          <5>1. [pageRow[c] EXCEPT !.live = FALSE] \in PageRows
            BY <3>1
          <5>. QED BY <4>2, <5>1
        <4>3. ASSUME NEW s \in PageSlugs, pageRow' = [pageRow EXCEPT ![c].slug = s]
              PROVE  \E n \in PageRows :
                        pageRow' = [pageRow EXCEPT ![c] = n]
          <5>1. [pageRow[c] EXCEPT !.slug = s] \in PageRows
            BY <3>1
          <5>. QED BY <4>3, <5>1
        <4>. QED BY <1>13, <4>1, <4>2, <4>3 DEF Page!OthersChange
      <3>. QED BY <3>2 DEF PageTyped
    <2>. QED BY <2>1, <2>2 DEF PageTyped
  <1>. QED BY <1>1, <1>2, <1>3, <1>4, <1>5, <1>6, <1>7, <1>8, <1>9, <1>10, <1>11, <1>12,
          <1>13
          DEF Page!Next, Page!Land

\* After a render.
LEMMA RenderedAsAsked ==
    ASSUME Page!PageAssumption, PageTyped, PageTyped', PageAsked, Page!Rendered,
           pageDelete' \in {pageDelete, NoValue}
    PROVE  PageAsked'
  <1>1. ASSUME Page!Shown' # NoValue
        PROVE  /\ pageForm'.fields \in PageFilled
               /\ \A f \in {"slug", "enabled"} \ pageForm'.edited :
                     pageForm'.fields[f] = Page!Shown'[f]
    <2>1. CASE Page!Refill
      <3>1. pageForm'.fields = Page!Shown'
        BY <1>1, <2>1 DEF Page!Rendered
      <3>2. Page!Shown' \in Page!Fields
        BY <1>1, PageShowsNext
      <3>. QED BY <3>1, <3>2 DEF Page!Fields
    <2>2. CASE ~Page!Refill
      <3>1. pageForm' = pageForm /\ Page!Shown' = Page!Shown
        BY <1>1, <2>2 DEF Page!Rendered, Page!Refill
      <3>. QED BY <1>1, <3>1 DEF PageAsked, Page!SaveRevertsNothingShown
    <2>. QED BY <2>1, <2>2
  <1>2. pageDanger'.open => pageDanger'.of = Page!ShownId' /\ Page!ShownId' # NoValue
    BY DEF Page!Rendered, Page!Closes, Page!Shut, PageAsked
  <1>3. pageDelete' # NoValue => pageDelete'.id = pageDelete'.confirmed
    BY DEF PageAsked, Page!DeletesWhatWasConfirmed
  <1>. QED BY <1>1, <1>2, <1>3 DEF PageAsked, Page!SaveRevertsNothingShown,
       Page!DeletesWhatWasConfirmed

\* Without one, what is shown does not change.
LEMMA ShownStays ==
    ASSUME UNCHANGED <<pageRoute, pageLookup, pageCache>>
    PROVE  Page!Shown' = Page!Shown /\ Page!ShownId' = Page!ShownId
  BY DEF Page!Shown, Page!ShownId, Page!NotFound, Page!ChannelId

LEMMA PageAskedGoesOn ==
    ASSUME Page!PageAssumption, PageTyped, PageAsked, [Page!Next]_pageVars PROVE PageAsked'
  <1>1. PageTyped'
    BY PageTypedGoesOn
  <1>2. CASE Page!Rendered /\ pageDelete' \in {pageDelete, NoValue}
    BY <1>1, <1>2, RenderedAsAsked
  <1>3. ASSUME UNCHANGED <<pageRoute, pageLookup, pageCache, pageForm>>,
               pageDanger' = pageDanger \/ pageDanger' = Page!Shut,
               pageDelete' # NoValue => pageDelete'.id = pageDelete'.confirmed
        PROVE  PageAsked'
    BY <1>3, ShownStays DEF PageAsked, Page!SaveRevertsNothingShown,
         Page!DeletesWhatWasConfirmed, Page!Shut
  <1>4. CASE UNCHANGED pageVars \/ Page!FetchLookup \/ Page!FetchChannel \/ Page!Save
                \/ Page!Commit \/ Page!CancelDelete
             \/ \E c \in PageChannels : Page!OthersChange(c)
    <2>1. /\ UNCHANGED <<pageRoute, pageLookup, pageCache, pageForm, pageDelete>>
          /\ pageDanger' = pageDanger \/ pageDanger' = Page!Shut
      BY <1>4 DEF pageVars, Page!FetchLookup, Page!FetchChannel, Page!Save, Page!Commit,
           Page!CancelDelete, Page!OthersChange
    <2>. QED BY <1>3, <2>1 DEF PageAsked, Page!DeletesWhatWasConfirmed
  <1>5. CASE Page!Land \/ Page!SaveAnswered \/ Page!DeleteAnswered
    BY <1>2, <1>5 DEF Page!Land, Page!LandLookup, Page!LandChannel, Page!SaveAnswered,
         Page!DeleteAnswered
  <1>6. CASE Page!Edit
    <2>1. Page!Shown # NoValue
          /\ UNCHANGED <<pageRoute, pageLookup, pageCache, pageDanger, pageDelete>>
      BY <1>6 DEF Page!Edit
    <2>2. pageForm.fields \in PageFilled
      BY <2>1 DEF PageAsked
    <2>3. \A f \in {"slug", "enabled"} \ pageForm.edited :
             pageForm.fields[f] = Page!Shown[f]
      BY <2>1 DEF PageAsked, Page!SaveRevertsNothingShown
    <2>4. ASSUME NEW s \in (PageSlugs \cup PageMalformed) \ {pageForm.fields.slug},
                 pageForm' = [fields |-> [pageForm.fields EXCEPT !.slug = s],
                          edited |-> pageForm.edited \cup {"slug"}]
          PROVE  /\ pageForm'.fields \in PageFilled
                 /\ \A f \in {"slug", "enabled"} \ pageForm'.edited :
                       pageForm'.fields[f] = Page!Shown[f]
      BY <2>2, <2>3, <2>4
    <2>5. ASSUME pageForm' = [fields |-> [pageForm.fields EXCEPT !.enabled = ~@],
                          edited |-> pageForm.edited \cup {"enabled"}]
          PROVE  /\ pageForm'.fields \in PageFilled
                 /\ \A f \in {"slug", "enabled"} \ pageForm'.edited :
                       pageForm'.fields[f] = Page!Shown[f]
      BY <2>2, <2>3, <2>5
    <2>6. /\ pageForm'.fields \in PageFilled
          /\ \A f \in {"slug", "enabled"} \ pageForm'.edited :
                pageForm'.fields[f] = Page!Shown[f]
      BY <1>6, <2>4, <2>5 DEF Page!Edit
    <2>. QED BY <2>1, <2>6, ShownStays
            DEF PageAsked, Page!SaveRevertsNothingShown, Page!DeletesWhatWasConfirmed
  <1>7. CASE Page!OpenConfirm
    <2>1. /\ Page!Shown # NoValue /\ pageDanger' = [open |-> TRUE, of |-> Page!ChannelId]
          /\ UNCHANGED <<pageRoute, pageLookup, pageCache, pageForm, pageDelete>>
      BY <1>7 DEF Page!OpenConfirm
    <2>2. pageDanger'.of = Page!ShownId /\ Page!ShownId # NoValue
      BY <2>1, PageShows DEF Page!PageAssumption
    <2>. QED BY <2>1, <2>2, ShownStays
            DEF PageAsked, Page!SaveRevertsNothingShown, Page!DeletesWhatWasConfirmed
  <1>8. CASE Page!ConfirmDelete
    <2>1. /\ pageDanger.open
          /\ pageDelete' = [id |-> Page!ChannelId, confirmed |-> pageDanger.of]
          /\ UNCHANGED <<pageRoute, pageLookup, pageCache, pageForm, pageDanger>>
      BY <1>8 DEF Page!ConfirmDelete
    <2>2. pageDanger.of = Page!ChannelId
      BY <2>1, PageShows DEF PageAsked
    <2>. QED BY <1>3, <2>1, <2>2
  <1>. QED BY <1>4, <1>5, <1>6, <1>7, <1>8 DEF Page!Next

LEMMA NoChannelGoes ==
    ASSUME Page!PageAssumption, PageTyped, PageAsked, NoChannelGone, [Page!Next]_pageVars
    PROVE  NoChannelGone'
  <1>. DEFINE Fine(c) ==
          ~pageCache[c].gone /\ (pageFetch[c] # NoValue => pageFetch[c].id # Missing)
  <1>1. SUFFICES ASSUME pageChanges' = 0
                 PROVE  /\ \A c \in PageChannels : Fine(c)'
                        /\ pageRoute'.form # "directory" =>
                              \A c \in PageChannels : pageRow'[c].live
    BY DEF NoChannelGone
  <1>2. pageChanges = 0 /\ ~\E c \in PageChannels : Page!OthersChange(c)
    <2>1. pageChanges' = pageChanges \/ \E c \in PageChannels : Page!OthersChange(c)
      BY DEF Page!Next, Page!Land, Page!FetchLookup, Page!FetchChannel, Page!LandLookup,
           Page!LandChannel, Page!Edit, Page!Save, Page!Commit,
             Page!SaveAnswered, Page!OpenConfirm, Page!CancelDelete, Page!ConfirmDelete,
                Page!DeleteAnswered, pageVars
    <2>2. ASSUME NEW c \in PageChannels, Page!OthersChange(c) PROVE FALSE
      <3>1. pageChanges' = pageChanges + 1 /\ pageChanges \in Nat
        BY <2>2 DEF Page!OthersChange, PageTyped
      <3>. QED BY <1>1, <3>1
    <2>. QED BY <1>1, <2>1, <2>2
  <1>3. (\A c \in PageChannels : Fine(c))
        /\ (pageRoute.form # "directory" => \A c \in PageChannels : pageRow[c].live)
    BY <1>2 DEF NoChannelGone
  <1>4. \A c \in PageChannels : c \notin PageSlugs
    BY DEF Page!PageAssumption
  <1>5. CASE UNCHANGED pageVars \/ Page!Edit \/ Page!Save \/ Page!OpenConfirm
                \/ Page!CancelDelete \/ Page!ConfirmDelete
    BY <1>3, <1>5 DEF pageVars, Page!Edit, Page!Save, Page!OpenConfirm, Page!CancelDelete,
         Page!ConfirmDelete
  <1>6. CASE Page!FetchLookup
    <2>1. UNCHANGED <<pageRow, pageRoute, pageCache>> /\ pageRoute.at \in PageSlugs
      BY <1>6, PageShows DEF Page!FetchLookup
    <2>2. \A c \in PageChannels : pageFetch'[c] = pageFetch[c]
      BY <1>4, <1>6, <2>1 DEF Page!FetchLookup, PageTyped
    <2>. QED BY <1>3, <2>1, <2>2
  <1>7. CASE Page!FetchChannel
    <2>1. /\ UNCHANGED <<pageRow, pageRoute, pageCache>> /\ Page!ChannelId \in PageChannels
          /\ pageRoute.form # "directory"
      BY <1>7, PageShows DEF Page!FetchChannel, Page!Polls
    <2>2. pageFetch' = [pageFetch EXCEPT ![Page!ChannelId] =
             [id |-> Page!ChannelId, data |-> Page!FieldsOf(Page!ChannelId)]]
      BY <1>3, <1>7, <2>1 DEF Page!FetchChannel
    <2>3. \A c \in PageChannels :
             pageFetch'[c] = pageFetch[c] \/ pageFetch'[c].id \in PageChannels
      BY <2>1, <2>2 DEF PageTyped
    <2>. QED BY <1>3, <2>1, <2>3 DEF Page!PageAssumption
  <1>8. ASSUME NEW s \in PageSlugs, Page!LandLookup(s)
        PROVE  /\ \A c \in PageChannels : Fine(c)'
               /\ pageRoute'.form # "directory" => \A c \in PageChannels : pageRow'[c].live
    <2>1. UNCHANGED <<pageRow, pageRoute>> /\ pageFetch[s] # NoValue
      BY <1>8 DEF Page!LandLookup
    <2>2. \A c \in PageChannels : pageFetch'[c] = pageFetch[c]
      BY <1>4, <1>8 DEF Page!LandLookup, PageTyped
    <2>3. ASSUME NEW c \in PageChannels PROVE ~pageCache'[c].gone
      <3>1. CASE pageFetch[s].id = Missing
        BY <1>3, <1>8, <3>1 DEF Page!LandLookup
      <3>2. CASE pageFetch[s].id # Missing
        <4>1. pageCache' = [pageCache EXCEPT ![pageFetch[s].id] =
                 [data |-> pageFetch[s].data, gone |-> FALSE]]
          BY <1>8, <3>2 DEF Page!LandLookup
        <4>. QED BY <1>3, <4>1 DEF PageTyped
      <3>. QED BY <3>1, <3>2
    <2>. QED BY <1>3, <2>1, <2>2, <2>3
  <1>9. ASSUME NEW d \in PageChannels, Page!LandChannel(d)
        PROVE  /\ \A c \in PageChannels : Fine(c)'
               /\ pageRoute'.form # "directory" => \A c \in PageChannels : pageRow'[c].live
    <2>1. /\ UNCHANGED <<pageRow, pageRoute>> /\ pageFetch[d] # NoValue
          /\ pageFetch' = [pageFetch EXCEPT ![d] = NoValue]
      BY <1>9 DEF Page!LandChannel
    <2>2. \A c \in PageChannels : pageFetch'[c] \in {pageFetch[c], NoValue}
      BY <2>1 DEF PageTyped
    <2>3. pageCache' = [pageCache EXCEPT ![d] = [data |-> pageFetch[d].data,
             gone |-> FALSE]]
      BY <1>3, <1>9, <2>1 DEF Page!LandChannel
    <2>4. \A c \in PageChannels : ~pageCache'[c].gone
      BY <1>3, <2>3 DEF PageTyped
    <2>. QED BY <1>3, <2>1, <2>2, <2>4
  <1>10. CASE Page!Commit
    <2>1. UNCHANGED <<pageRoute, pageCache, pageFetch>> /\ pageSave \in Page!Saving
      BY <1>10 DEF Page!Commit, PageTyped
    <2>2. \A c \in PageChannels : pageRow[c].live => pageRow'[c].live
      BY <1>10, <2>1 DEF Page!Commit, PageTyped, Page!Saving
    <2>. QED BY <1>3, <2>1, <2>2
  <1>11. CASE Page!SaveAnswered
    <2>1. UNCHANGED <<pageRow, pageFetch>>
      BY <1>11 DEF Page!SaveAnswered
    <2>2. pageCache' = pageCache
             \/ pageCache' = [pageCache EXCEPT ![pageSave.of] =
                   [data |-> pageSave.fields, gone |-> FALSE]]
      BY <1>11 DEF Page!SaveAnswered
    <2>3. \A c \in PageChannels : ~pageCache'[c].gone
      BY <1>3, <2>2 DEF PageTyped
    <2>4. pageRoute.form # "directory" \/ pageRoute' = pageRoute
      BY <1>11 DEF Page!SaveAnswered
    <2>. QED BY <1>3, <2>1, <2>3, <2>4
  <1>12. CASE Page!DeleteAnswered
    <2>1. UNCHANGED <<pageCache, pageFetch>>
          /\ \/ pageRoute' = pageRoute /\ pageRow' = pageRow
             \/ pageRoute'.form = "directory"
      BY <1>12 DEF Page!DeleteAnswered
    <2>. QED BY <1>3, <2>1
  <1>. QED BY <1>2, <1>5, <1>6, <1>7, <1>8, <1>9, <1>10, <1>11, <1>12 DEF Page!Next,
          Page!Land

LEMMA SaveKeepsRoute ==
    ASSUME Page!PageAssumption, PageTyped, [Page!Next]_pageVars,
           pageSave # NoValue /\ pageRoute.form # "directory" => pageSave.route = pageRoute
    PROVE  pageSave' # NoValue /\ pageRoute'.form # "directory" =>
              pageSave'.route = pageRoute'
  <1>1. CASE UNCHANGED <<pageRoute, pageSave>>
    BY <1>1
  <1>2. CASE Page!Save
    BY <1>2 DEF Page!Save
  <1>3. CASE Page!Commit
    <2>1. pageSave \in Page!Saving /\ pageRoute' = pageRoute
      BY <1>3 DEF Page!Commit, PageTyped
    <2>2. pageSave'.route = pageSave.route
      BY <1>3, <2>1 DEF Page!Commit, Page!Saving
    <2>. QED BY <1>3, <2>1, <2>2 DEF Page!Commit
  <1>4. CASE Page!SaveAnswered
    BY <1>4 DEF Page!SaveAnswered
  <1>5. CASE Page!DeleteAnswered
    BY <1>5 DEF Page!DeleteAnswered
  <1>. QED BY <1>1, <1>2, <1>3, <1>4, <1>5 DEF Page!Next, Page!Land, Page!OthersChange,
       Page!FetchLookup, Page!FetchChannel,
         Page!LandLookup, Page!LandChannel, Page!Edit, Page!OpenConfirm, Page!CancelDelete,
            Page!ConfirmDelete, pageVars

\* A lookup that lands, or is sent while its slug has a holder, finds a Channel.
LEMMA FoundStays ==
    ASSUME Page!PageAssumption, PageTyped, NEW s \in PageSlugs, SlugFound(s),
           UNCHANGED pageRow,
           \/ UNCHANGED <<pageLookup, pageFetch>>
           \/ Page!FetchLookup \/ Page!FetchChannel \/ Page!Land
    PROVE  SlugFound(s)'
  <1>1. Page!Holder(s)' = Page!Holder(s) /\ Page!Holder(s) # {}
    BY DEF Page!Holder, SlugFound
  <1>2. \A c \in PageChannels : c \notin PageSlugs
    BY DEF Page!PageAssumption
  <1>3. CASE UNCHANGED <<pageLookup, pageFetch>>
    BY <1>1, <1>3 DEF SlugFound
  <1>4. CASE Page!FetchLookup
    <2>1. pageLookup' = pageLookup /\ pageRoute.at \in PageSlugs
      BY <1>4, PageShows DEF Page!FetchLookup
    <2>2. CASE pageRoute.at = s
      <3>1. PICK c \in PageChannels :
                    pageFetch' = [pageFetch EXCEPT ![s] =
                       [id |-> c, data |-> Page!FieldsOf(c)]]
        BY <1>1, <1>4, <2>2 DEF Page!FetchLookup, Page!Holder
      <3>2. pageFetch'[s].id = c
        BY <3>1 DEF PageTyped
      <3>. QED BY <1>1, <2>1, <3>2 DEF SlugFound, Page!PageAssumption
    <2>3. CASE pageRoute.at # s
      <3>1. pageFetch'[s] = pageFetch[s]
        BY <1>4, <2>1, <2>3 DEF Page!FetchLookup, PageTyped
      <3>. QED BY <1>1, <2>1, <3>1 DEF SlugFound
    <2>. QED BY <2>2, <2>3
  <1>5. CASE Page!FetchChannel
    <2>1. pageLookup' = pageLookup /\ Page!ChannelId \in PageChannels
      BY <1>5, PageShows DEF Page!FetchChannel, Page!Polls
    <2>2. pageFetch'[s] = pageFetch[s]
      BY <1>2, <1>5, <2>1 DEF Page!FetchChannel, PageTyped
    <2>. QED BY <1>1, <2>1, <2>2 DEF SlugFound
  <1>6. ASSUME NEW t \in PageSlugs, Page!LandLookup(t) PROVE SlugFound(s)'
    <2>1. /\ pageFetch[t] # NoValue
          /\ pageLookup' = [pageLookup EXCEPT ![t] = pageFetch[t].id]
          /\ pageFetch' = [pageFetch EXCEPT ![t] = NoValue]
      BY <1>6 DEF Page!LandLookup
    <2>2. pageFetch'[s] \in {pageFetch[s], NoValue} /\ pageLookup'[s] # Missing
      BY <2>1 DEF SlugFound, PageTyped
    <2>. QED BY <1>1, <2>2 DEF SlugFound
  <1>7. ASSUME NEW c \in PageChannels, Page!LandChannel(c) PROVE SlugFound(s)'
    <2>1. pageLookup' = pageLookup /\ pageFetch'[s] = pageFetch[s]
      BY <1>2, <1>7 DEF Page!LandChannel, PageTyped
    <2>. QED BY <1>1, <2>1 DEF SlugFound
  <1>. QED BY <1>3, <1>4, <1>5, <1>6, <1>7 DEF Page!Land

\* What is read has the slug it is read under.
LEMMA TheirsStay ==
    ASSUME Page!PageAssumption, PageTyped, SlugsAreTheirs, UNCHANGED pageRow,
           Page!FetchLookup \/ Page!FetchChannel \/ Page!Land
    PROVE  SlugsAreTheirs'
  <1>1. \A c \in PageChannels : c \notin PageSlugs /\ c # Missing /\ c # NoValue
    BY DEF Page!PageAssumption
  <1>. DEFINE OfChannel(c) ==
                 /\ pageCache[c].data # NoValue => pageCache[c].data.slug = pageRow[c].slug
                 /\ pageFetch[c] # NoValue /\ pageFetch[c].id # Missing =>
                       pageFetch[c].data.slug = pageRow[c].slug
              OfSlug(s) ==
                 /\ pageLookup[s] \in PageChannels => pageRow[pageLookup[s]].slug = s
                 /\ pageFetch[s] # NoValue /\ pageFetch[s].id # Missing =>
                       pageFetch[s].data.slug = s /\ pageRow[pageFetch[s].id].slug = s
  <1>2. (\A c \in PageChannels : OfChannel(c)) /\ (\A s \in PageSlugs : OfSlug(s))
    BY DEF SlugsAreTheirs
  <1>3. SUFFICES (\A c \in PageChannels : OfChannel(c)')
                 /\ (\A s \in PageSlugs : OfSlug(s)')
    BY DEF SlugsAreTheirs
  <1>4. CASE Page!FetchLookup
    <2>1. UNCHANGED <<pageLookup, pageCache>> /\ pageRoute.at \in PageSlugs
      BY <1>4, PageShows DEF Page!FetchLookup
    <2>2. \A k \in (PageSlugs \cup PageChannels) \ {pageRoute.at} :
             pageFetch'[k] = pageFetch[k]
      BY <1>4, <2>1 DEF Page!FetchLookup, PageTyped
    <2>3. CASE Page!Holder(pageRoute.at) = {}
      <3>1. pageFetch'[pageRoute.at].id = Missing
        BY <1>4, <2>1, <2>3 DEF Page!FetchLookup, PageTyped
      <3>. QED BY <1>1, <1>2, <2>1, <2>2, <3>1
    <2>4. CASE Page!Holder(pageRoute.at) # {}
      <3>1. PICK c \in Page!Holder(pageRoute.at) :
               pageFetch' = [pageFetch EXCEPT ![pageRoute.at] =
                  [id |-> c, data |-> Page!FieldsOf(c)]]
        BY <1>4, <2>4 DEF Page!FetchLookup
      <3>2. c \in PageChannels /\ pageRow[c].slug = pageRoute.at
        BY DEF Page!Holder
      <3>3. pageFetch'[pageRoute.at].id = c
            /\ pageFetch'[pageRoute.at].data.slug = pageRoute.at
        BY <2>1, <3>1, <3>2, ReadIsTyped DEF PageTyped
      <3>. QED BY <1>1, <1>2, <2>1, <2>2, <3>2, <3>3
    <2>. QED BY <2>3, <2>4
  <1>5. CASE Page!FetchChannel
    <2>1. UNCHANGED <<pageLookup, pageCache>> /\ Page!ChannelId \in PageChannels
      BY <1>5, PageShows DEF Page!FetchChannel, Page!Polls
    <2>2. \A k \in (PageSlugs \cup PageChannels) \ {Page!ChannelId} :
             pageFetch'[k] = pageFetch[k]
      BY <1>5, <2>1 DEF Page!FetchChannel, PageTyped
    <2>3. pageFetch'[Page!ChannelId].id = Missing
             \/ pageFetch'[Page!ChannelId].data.slug = pageRow[Page!ChannelId].slug
      BY <1>5, <2>1, ReadIsTyped DEF Page!FetchChannel, PageTyped
    <2>4. \A c \in PageChannels : OfChannel(c)'
      BY <1>2, <2>1, <2>2, <2>3
    <2>5. \A s \in PageSlugs : pageFetch'[s] = pageFetch[s]
      BY <1>1, <2>1, <2>2
    <2>. QED BY <1>2, <2>1, <2>4, <2>5
  <1>6. ASSUME NEW t \in PageSlugs, Page!LandLookup(t)
        PROVE  (\A c \in PageChannels : OfChannel(c)') /\ (\A s \in PageSlugs : OfSlug(s)')
    <2>1. /\ pageFetch[t] # NoValue
          /\ pageLookup' = [pageLookup EXCEPT ![t] = pageFetch[t].id]
          /\ pageFetch' = [pageFetch EXCEPT ![t] = NoValue]
          /\ pageCache' = (IF pageFetch[t].id = Missing THEN pageCache
                       ELSE [pageCache EXCEPT ![pageFetch[t].id] =
                          [data |-> pageFetch[t].data, gone |-> FALSE]])
      BY <1>6 DEF Page!LandLookup
    <2>2. \A k \in PageSlugs \cup PageChannels : pageFetch'[k] \in {pageFetch[k], NoValue}
      BY <2>1 DEF PageTyped
    <2>3. ASSUME NEW s \in PageSlugs PROVE OfSlug(s)'
      <3>1. pageLookup'[s] = (IF s = t THEN pageFetch[t].id ELSE pageLookup[s])
        BY <2>1 DEF PageTyped
      <3>2. pageLookup'[s] \in PageChannels => pageRow[pageLookup'[s]].slug = s
        BY <1>1, <1>2, <2>1, <3>1
      <3>. QED BY <1>2, <2>2, <3>2
    <2>4. ASSUME NEW c \in PageChannels PROVE OfChannel(c)'
      <3>1. CASE pageCache'[c] = pageCache[c]
        BY <1>2, <2>2, <3>1
      <3>2. CASE pageCache'[c] # pageCache[c]
        <4>1. pageFetch[t].id = c /\ pageFetch[t].id # Missing
              /\ pageCache'[c].data = pageFetch[t].data
          BY <1>1, <2>1, <3>2 DEF PageTyped
        <4>2. pageFetch[t].data.slug = pageRow[c].slug
          BY <1>2, <2>1, <4>1
        <4>. QED BY <1>2, <2>2, <4>1, <4>2
      <3>. QED BY <3>1, <3>2
    <2>. QED BY <2>3, <2>4
  <1>7. ASSUME NEW d \in PageChannels, Page!LandChannel(d)
        PROVE  (\A c \in PageChannels : OfChannel(c)') /\ (\A s \in PageSlugs : OfSlug(s)')
    <2>1. pageLookup' = pageLookup /\ pageFetch[d] # NoValue
          /\ pageFetch' = [pageFetch EXCEPT ![d] = NoValue]
      BY <1>7 DEF Page!LandChannel
    <2>2. \A k \in PageSlugs \cup PageChannels : pageFetch'[k] \in {pageFetch[k], NoValue}
      BY <2>1 DEF PageTyped
    <2>3. \A s \in PageSlugs : OfSlug(s)'
      BY <1>2, <2>1, <2>2
    <2>4. \A c \in PageChannels \ {d} : pageCache'[c] = pageCache[c]
      BY <1>7 DEF Page!LandChannel, PageTyped
    <2>5. pageCache'[d].data = pageCache[d].data
             \/ (pageFetch[d].id # Missing /\ pageCache'[d].data = pageFetch[d].data)
      BY <1>7 DEF Page!LandChannel, PageTyped
    <2>6. \A c \in PageChannels : OfChannel(c)'
      BY <1>2, <2>1, <2>2, <2>4, <2>5
    <2>. QED BY <2>3, <2>6
  <1>. QED BY <1>4, <1>5, <1>6, <1>7 DEF Page!Land

\* Nothing read of any other slug.
NothingElse == \A s \in PageSlugs \ {pageRoute.at} : pageFetch[s] = NoValue

LEMMA NothingElseStays ==
    ASSUME Page!PageAssumption, PageTyped, NothingElse, UNCHANGED pageRoute,
           UNCHANGED pageFetch \/ Page!FetchLookup \/ Page!FetchChannel \/ Page!Land
    PROVE  NothingElse'
  <1>1. \A c \in PageChannels : c \notin PageSlugs
    BY DEF Page!PageAssumption
  <1>2. CASE UNCHANGED pageFetch
    BY <1>2 DEF NothingElse
  <1>3. CASE Page!FetchLookup
    BY <1>3, PageShows DEF NothingElse, Page!FetchLookup, PageTyped
  <1>4. CASE Page!FetchChannel
    <2>1. Page!ChannelId \in PageChannels
      BY <1>4, PageShows DEF Page!FetchChannel, Page!Polls
    <2>2. \A s \in PageSlugs : pageFetch'[s] = pageFetch[s]
      BY <1>1, <1>4, <2>1 DEF Page!FetchChannel, PageTyped
    <2>. QED BY <2>2 DEF NothingElse
  <1>5. ASSUME NEW k \in PageSlugs \cup PageChannels,
               pageFetch' = [pageFetch EXCEPT ![k] = NoValue]
        PROVE  NothingElse'
    <2>1. \A s \in PageSlugs : pageFetch'[s] \in {pageFetch[s], NoValue}
      BY <1>5 DEF PageTyped
    <2>. QED BY <2>1 DEF NothingElse
  <1>. QED BY <1>2, <1>3, <1>4, <1>5 DEF Page!Land, Page!LandLookup, Page!LandChannel

\* The clauses of PageAddressed, of a page at a slug.
AtSlug ==
    /\ pageSaves = 0 => SlugFound(pageRoute.at) /\ SlugsAreTheirs
    /\ pageSaves = 1 /\ pageSave = NoValue => SlugFound(pageRoute.at)
    /\ pageSave # NoValue =>
          /\ pageSave.was = pageRoute.at
          /\ pageSave.reply # "ok" => pageRow[pageSave.of].slug = pageRoute.at
          /\ IF PageRenamed THEN Page!Holder(pageSave.fields.slug) # {}
                ELSE SlugFound(pageRoute.at)
    /\ pageSaves = 0 \/ pageSave # NoValue => NothingElse

LEMMA PageAddressedGoesOn ==
    ASSUME Page!PageAssumption, PageTyped, PageAsked, NoChannelGone, PageAddressed,
           [Page!Next]_pageVars,
           pageSave # NoValue /\ pageRoute.form # "directory" => pageSave.route = pageRoute
    PROVE  PageAddressed'
  <1>1. PageTyped'
    BY PageTypedGoesOn
  <1>2. SUFFICES ASSUME pageChanges' = 0, pageSaves' <= 1, pageRoute'.form = "slug"
                 PROVE  AtSlug'
    BY DEF PageAddressed, AtSlug, NothingElse
  <1>3. pageChanges = 0 /\ ~\E c \in PageChannels : Page!OthersChange(c)
    <2>1. pageChanges' = pageChanges \/ \E c \in PageChannels : Page!OthersChange(c)
      BY DEF Page!Next, Page!Land, Page!FetchLookup, Page!FetchChannel, Page!LandLookup,
           Page!LandChannel, Page!Edit, Page!Save, Page!Commit,
             Page!SaveAnswered, Page!OpenConfirm, Page!CancelDelete, Page!ConfirmDelete,
                Page!DeleteAnswered, pageVars
    <2>2. ASSUME NEW c \in PageChannels, Page!OthersChange(c) PROVE FALSE
      <3>1. pageChanges' = pageChanges + 1 /\ pageChanges \in Nat
        BY <2>2 DEF Page!OthersChange, PageTyped
      <3>. QED BY <1>2, <3>1
    <2>. QED BY <1>2, <2>1, <2>2
  <1>4. pageSaves \in Nat /\ pageSaves <= 1
    <2>1. pageSaves' = pageSaves \/ Page!Save
      BY DEF Page!Next, Page!Land, Page!FetchLookup, Page!FetchChannel, Page!LandLookup,
           Page!LandChannel, Page!Edit, Page!Commit,
             Page!SaveAnswered, Page!OpenConfirm, Page!CancelDelete, Page!ConfirmDelete,
                Page!DeleteAnswered, Page!OthersChange, pageVars
    <2>. QED BY <1>2, <2>1 DEF Page!Save, PageTyped
  <1>5. pageRoute.form = "slug"
    <2>1. pageRoute' = pageRoute \/ Page!SaveAnswered \/ Page!DeleteAnswered
      BY DEF Page!Next, Page!Land, Page!FetchLookup, Page!FetchChannel, Page!LandLookup,
           Page!LandChannel, Page!Edit, Page!Save, Page!Commit,
             Page!OpenConfirm, Page!CancelDelete, Page!ConfirmDelete, Page!OthersChange,
                pageVars
    <2>2. CASE Page!SaveAnswered
      BY <1>2, <2>2 DEF Page!SaveAnswered, Page!Follows
    <2>3. CASE Page!DeleteAnswered
      BY <1>2, <2>3 DEF Page!DeleteAnswered
    <2>. QED BY <1>2, <2>1, <2>2, <2>3
  <1>6. AtSlug /\ pageRoute.at \in PageSlugs
    BY <1>3, <1>4, <1>5, PageShows DEF PageAddressed, AtSlug, NothingElse
  <1>7. CASE UNCHANGED <<pageRow, pageRoute, pageLookup, pageCache, pageFetch, pageSave,
                pageSaves>>
    BY <1>6, <1>7 DEF AtSlug, SlugFound, SlugsAreTheirs, PageRenamed, Page!Holder, NothingElse
  <1>8. CASE Page!FetchLookup \/ Page!FetchChannel \/ Page!Land
    <2>1. UNCHANGED <<pageRow, pageRoute, pageSave, pageSaves>>
      BY <1>8 DEF Page!FetchLookup, Page!FetchChannel, Page!Land, Page!LandLookup,
           Page!LandChannel
    <2>2. SlugFound(pageRoute.at) => SlugFound(pageRoute.at)'
      BY <1>6, <1>8, <2>1, FoundStays
    <2>3. SlugsAreTheirs => SlugsAreTheirs'
      BY <1>8, <2>1, TheirsStay
    <2>4. NothingElse => NothingElse'
      BY <1>8, <2>1, NothingElseStays
    <2>5. PageRenamed' = PageRenamed
          /\ Page!Holder(pageSave.fields.slug)' = Page!Holder(pageSave.fields.slug)
      BY <2>1 DEF PageRenamed, Page!Holder
    <2>. QED BY <1>6, <2>1, <2>2, <2>3, <2>4, <2>5 DEF AtSlug
  <1>9. CASE Page!Save
    <2>1. /\ Page!Shown # NoValue /\ pageSave = NoValue /\ pageSaves' = pageSaves + 1
          /\ pageSave' = [of |-> Page!ChannelId, fields |-> pageForm.fields,
                was |-> Page!Shown.slug,
                      route |-> pageRoute, reply |-> NoValue]
          /\ UNCHANGED <<pageRow, pageRoute, pageLookup, pageCache, pageFetch>>
      BY <1>9 DEF Page!Save
    <2>2. pageSaves = 0 /\ pageSaves' = 1
      BY <1>2, <1>4, <2>1
    <2>3. SlugFound(pageRoute.at) /\ SlugsAreTheirs /\ NothingElse
      BY <1>6, <2>2 DEF AtSlug
    <2>4. Page!ChannelId \in PageChannels /\ Page!Shown = pageCache[Page!ChannelId].data
          /\ Page!ChannelId = pageLookup[pageRoute.at]
      BY <1>5, <2>1, PageShows DEF Page!PageAssumption
    <2>5. pageRow[Page!ChannelId].slug = pageRoute.at /\ Page!Shown.slug = pageRoute.at
      BY <1>6, <2>1, <2>3, <2>4 DEF SlugsAreTheirs
    <2>6. pageSave'.was = pageRoute.at /\ pageSave'.of = Page!ChannelId
          /\ pageSave'.reply = NoValue
      BY <2>1, <2>5
    <2>7. ~PageRenamed'
      BY <2>6 DEF PageRenamed, Page!PageAssumption
    <2>8. SlugFound(pageRoute.at)' /\ NothingElse'
      BY <2>1, <2>3 DEF SlugFound, Page!Holder, NothingElse
    <2>9. pageSave' # NoValue
      BY <1>9, SaveIsTyped DEF Page!PageAssumption
    <2>. QED BY <2>1, <2>2, <2>5, <2>6, <2>7, <2>8 DEF AtSlug
  <1>10. CASE Page!Commit
    <2>1. /\ pageSave # NoValue /\ pageSave.reply = NoValue
          /\ UNCHANGED <<pageRoute, pageLookup, pageCache, pageFetch, pageSaves>>
      BY <1>10 DEF Page!Commit
    <2>2. pageSave \in Page!Saving /\ pageSaves = 1
      <3>1. pageSave \in Page!Saving /\ pageSaves # 0
        BY <2>1 DEF PageTyped
      <3>. QED BY <1>4, <3>1
    <2>3. /\ pageSave.was = pageRoute.at /\ pageRow[pageSave.of].slug = pageRoute.at
          /\ SlugFound(pageRoute.at) /\ NothingElse
          /\ ~PageRenamed
      BY <1>6, <2>1 DEF AtSlug, Page!PageAssumption, PageRenamed
    <2>4. NothingElse'
      BY <2>1, <2>3 DEF NothingElse
    <2>5. CASE pageSave' = [pageSave EXCEPT !.reply = "refused"] /\ pageRow' = pageRow
      <3>1. pageSave'.was = pageSave.was /\ pageSave'.of = pageSave.of
            /\ pageSave'.reply = "refused"
        BY <2>2, <2>5 DEF Page!Saving
      <3>2. ~PageRenamed' /\ SlugFound(pageRoute.at)'
        BY <2>1, <2>3, <2>5, <3>1 DEF PageRenamed, SlugFound, Page!Holder
      <3>. QED BY <2>1, <2>2, <2>3, <2>4, <2>5, <3>1, <3>2 DEF AtSlug
    <2>6. CASE /\ pageSave' = [pageSave EXCEPT !.reply = "ok"]
               /\ pageRow' = [pageRow EXCEPT ![pageSave.of] =
                     [slug |-> pageSave.fields.slug,
                      enabled |-> pageSave.fields.enabled, live |-> TRUE]]
      <3>1. /\ pageSave'.was = pageSave.was /\ pageSave'.of = pageSave.of
            /\ pageSave'.reply = "ok"
            /\ pageSave'.fields = pageSave.fields
        BY <2>2, <2>6 DEF Page!Saving
      <3>2. pageSave.of \in PageChannels
        BY <2>2 DEF Page!Saving
      <3>3. pageRow'[pageSave.of].live /\ pageRow'[pageSave.of].slug = pageSave.fields.slug
        BY <2>6, <3>2 DEF PageTyped
      <3>4. Page!Holder(pageSave.fields.slug)' # {}
        BY <3>1, <3>2, <3>3 DEF Page!Holder
      <3>5. CASE PageRenamed'
        <4>1. pageSave' \in Page!Saving /\ pageSave' # NoValue
          BY <2>2, <2>6 DEF Page!Saving, Page!PageAssumption
        <4>. QED BY <2>1, <2>2, <2>3, <2>4, <3>1, <3>4, <3>5, <4>1 DEF AtSlug
      <3>6. CASE ~PageRenamed'
        <4>1. pageSave.fields.slug = pageRoute.at
          BY <2>3, <3>1, <3>6 DEF PageRenamed
        <4>2. pageSave.of \in {c \in PageChannels :
                 pageRow'[c].live /\ pageRow'[c].slug = pageRoute'.at}
          BY <2>1, <3>2, <3>3, <4>1
        <4>3. SlugFound(pageRoute.at)'
          BY <2>1, <2>3, <4>2 DEF SlugFound, Page!Holder
        <4>. QED BY <2>1, <2>2, <2>3, <2>4, <3>1, <3>6, <4>3 DEF AtSlug
      <3>. QED BY <3>5, <3>6
    <2>. QED BY <1>10, <2>5, <2>6 DEF Page!Commit
  <1>11. CASE Page!SaveAnswered
    <2>1. pageSave # NoValue /\ pageSave' = NoValue
          /\ UNCHANGED <<pageRow, pageFetch, pageSaves>>
      BY <1>11 DEF Page!SaveAnswered
    <2>2. pageSave \in Page!Saving /\ pageSaves = 1
      <3>1. pageSave \in Page!Saving /\ pageSaves # 0
        BY <2>1 DEF PageTyped
      <3>. QED BY <1>4, <3>1
    <2>3. /\ pageSave.route = pageRoute /\ pageSave.was = pageRoute.at /\ NothingElse
          /\ IF PageRenamed THEN Page!Holder(pageSave.fields.slug) # {}
                ELSE SlugFound(pageRoute.at)
      BY <1>5, <1>6, <2>1 DEF AtSlug
    <2>4. CASE PageRenamed
      <3>1. Page!Follows /\ pageSave.reply = "ok" /\ pageSave.fields.slug # pageRoute.at
        BY <1>5, <2>3, <2>4 DEF PageRenamed, Page!Follows
      <3>2. /\ pageLookup' = [pageLookup EXCEPT ![pageSave.fields.slug] = pageSave.of]
            /\ pageRoute' = [form |-> "slug", at |-> pageSave.fields.slug]
        BY <1>5, <1>11, <3>1 DEF Page!SaveAnswered
      <3>3. pageSave.fields.slug \in PageSlugs /\ pageSave.of \in PageChannels
        BY <2>2 DEF Page!Saving, Page!Fields
      <3>4. pageRoute'.at = pageSave.fields.slug /\ pageLookup'[pageRoute'.at] = pageSave.of
        BY <3>2, <3>3 DEF PageTyped
      <3>5. pageFetch'[pageRoute'.at] = NoValue
        BY <2>1, <2>3, <3>1, <3>3, <3>4 DEF NothingElse
      <3>6. {c \in PageChannels : pageRow'[c].live /\ pageRow'[c].slug = pageRoute'.at} # {}
        BY <2>1, <2>3, <2>4, <3>4 DEF Page!Holder
      <3>7. SlugFound(pageRoute.at)'
        BY <3>3, <3>4, <3>5, <3>6 DEF SlugFound, Page!Holder, Page!PageAssumption
      <3>. QED BY <2>1, <2>2, <3>7 DEF AtSlug
    <2>5. CASE ~PageRenamed
      <3>1. UNCHANGED <<pageLookup, pageRoute>>
        BY <1>11, <2>3, <2>5 DEF Page!SaveAnswered, Page!Follows, PageRenamed
      <3>2. SlugFound(pageRoute.at)'
        BY <2>1, <2>3, <2>5, <3>1 DEF SlugFound, Page!Holder
      <3>. QED BY <2>1, <2>2, <3>2 DEF AtSlug
    <2>. QED BY <2>4, <2>5
  <1>12. CASE Page!DeleteAnswered
    <2>1. UNCHANGED <<pageLookup, pageCache, pageFetch, pageSave, pageSaves>>
      BY <1>12 DEF Page!DeleteAnswered
    <2>2. UNCHANGED <<pageRow, pageRoute>>
      BY <1>2, <1>12 DEF Page!DeleteAnswered
    <2>. QED BY <1>7, <2>1, <2>2
  <1>. QED BY <1>3, <1>7, <1>8, <1>9, <1>10, <1>11, <1>12
          DEF Page!Next, Page!Edit, Page!OpenConfirm, Page!CancelDelete, Page!ConfirmDelete,
               pageVars

LEMMA PageGoesOn == ASSUME Page!PageAssumption, PageInv, [Page!Next]_pageVars PROVE PageInv'
  BY PageTypedGoesOn, PageAskedGoesOn, NoChannelGoes, PageAddressedGoesOn,
       SaveKeepsRoute DEF PageInv

\* The page survives the one rename, and deletes what was confirmed.
LEMMA PageIsKept ==
    ASSUME Page!PageAssumption, PageInv
    PROVE  Page!OwnRenameKeepsPage /\ Page!SaveRevertsNothingShown
           /\ Page!DeletesWhatWasConfirmed
  <1>1. SUFFICES ASSUME pageChanges = 0, pageSaves = 1, pageSave = NoValue, Page!NotFound
                 PROVE  FALSE
    BY DEF PageInv, PageAsked, Page!OwnRenameKeepsPage
  <1>2. CASE pageRoute.form = "slug" /\ pageLookup[pageRoute.at] = Missing
    BY <1>1, <1>2 DEF PageInv, PageAddressed, SlugFound
  <1>3. CASE Page!ChannelId # NoValue /\ pageCache[Page!ChannelId].gone
    <2>1. Page!ChannelId \in PageChannels
      BY <1>3, PageShows DEF PageInv
    <2>. QED BY <1>1, <1>3, <2>1 DEF PageInv, NoChannelGone
  <1>. QED BY <1>1, <1>2, <1>3 DEF Page!NotFound

==============================================================================
