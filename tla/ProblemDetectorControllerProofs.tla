------------------- MODULE ProblemDetectorControllerProofs -------------------
(***************************************************************************)
(* Safety of the controller for every backoff, cap and jitter, and rounds  *)
(* of every length.                                                        *)
(***************************************************************************)
EXTENDS ProblemDetectorController, TLAPS

-----------------------------------------------------------------------------
(* The inductive invariant.                                                *)

\* While a round runs, nextCheck is past and the delay for an error is known.
CheckingInv ==
  phase = "checking" =>
    wait = -1 /\ nextErrorDelay \in Duration..(Cap + MaxJitter)

\* The age of the round: while it runs it is the time elapsed, and from its
\* end on what is missing to Duration is still to be waited.
SpacingInv ==
  /\ phase = "checking" =>
       age = IF elapsed > Duration THEN Duration + 1 ELSE elapsed
  /\ phase # "checking" => age > Duration \/ age + wait >= Duration

Armed == \E t \in timers : t > wait

\* A nextCheck to come has its timer, whatever is in the queue; from the end
\* of a round on something is pending; and no process means no round.
TimerInv ==
  /\ ~up => phase = "idle"
  /\ wait >= 0 => Armed
  /\ phase = "updating" => queued \/ Armed
  /\ WakeUpPending

\* log.Silenced follows oldManagedState, and a delay beyond Cap and the jitter
\* is left only by a silenced process or by one that went on from Removed.
SilencedInv ==
  /\ silenced <=> oldManagedState = "Removed"
  /\ ~silenced /\ ~wentOn => wait <= Cap + MaxJitter

ControllerInv ==
  TypeOK /\ CheckingInv /\ SpacingInv /\ TimerInv /\ SilencedInv

-----------------------------------------------------------------------------
(* The delays of the backoff.                                              *)

\* The order of the delays.
LEMMA Times ==
  /\ Duration \in Int /\ Cap \in Int /\ SilencedCap \in Int
  /\ MaxJitter \in Int
  /\ 0 < Duration /\ Duration <= Cap /\ Cap <= SilencedCap
  /\ 0 <= MaxJitter /\ Cap + MaxJitter <= SilencedCap
<1>1. /\ Duration \in Nat \ {0} /\ Cap \in Nat \ {0}
      /\ SilencedCap \in Nat \ {0} /\ MaxJitter \in Nat
  BY TimeAssumption, Zenon
<1>. QED  BY <1>1, TimeAssumption

\* A step of the backoff stays between Duration and Cap.
LEMMA StepNextType ==
  ASSUME NEW d \in Duration..Cap
  PROVE  StepNext(d) \in Duration..Cap
BY Times DEF StepNext

\* The delay that a step of the backoff returns.
LEMMA JitteredType ==
  ASSUME NEW d \in Duration..Cap, NEW delay \in Jittered(d)
  PROVE  delay \in Duration..(Cap + MaxJitter)
BY Times DEF Jittered

\* The delay after a round is at least Duration and, unless the process is
\* silenced, at most Cap and the jitter; the backoff stays within its bounds.
LEMMA AfterType ==
  ASSUME ControllerInv, phase = "checking", NEW result, NEW blocked,
         NEW jitter \in 0..MaxJitter
  PROVE  /\ After(result, blocked, jitter).delay \in Duration..SilencedCap
         /\ ~silenced => After(result, blocked, jitter).delay <= Cap + MaxJitter
         /\ After(result, blocked, jitter).backoff \in Duration..Cap
<1>. USE Times DEF ControllerInv, TypeOK, CheckingInv
<1>1. Duration \in Duration..Cap /\ StepNext(Duration) \in Duration..Cap
  BY StepNextType
<1>. QED  BY <1>1 DEF After

-----------------------------------------------------------------------------
\* A process that saw no ClusterCSIDriver yet is in no management state.
LEMMA NotSeenIsNoState == NotSeen \notin ManagementState
BY Zenon DEF NotSeen, ManagementState

LEMMA ControllerInvInit == Init => ControllerInv
<1>. SUFFICES ASSUME Init PROVE ControllerInv
  OBVIOUS
<1>. USE Times DEF Init
<1>1. TypeOK
  <2>1. /\ supported \in BOOLEAN /\ up \in BOOLEAN /\ queued \in BOOLEAN
        /\ retry \in BOOLEAN /\ silenced \in BOOLEAN /\ skipped \in BOOLEAN
        /\ wentOn \in BOOLEAN
    BY Zenon
  <2>. QED  BY <2>1 DEF TypeOK
<1>2. CheckingInv /\ SpacingInv /\ TimerInv
  BY DEF CheckingInv, SpacingInv, TimerInv, WakeUpPending
<1>3. SilencedInv
  BY NotSeenIsNoState DEF SilencedInv, ManagementState
<1>. QED  BY <1>1, <1>2, <1>3 DEF ControllerInv

\* Time passes: nextCheck and the timers come closer together.
LEMMA TickStep ==
  ASSUME ControllerInv, Tick
  PROVE  ControllerInv'
<1>. USE Times DEF ControllerInv, Tick, cluster
<1>1. ASSUME NEW t \in 0..SilencedCap
      PROVE  LessOne(t) \in 0..SilencedCap
  BY DEF LessOne
<1>2. TypeOK'
  BY <1>1 DEF TypeOK
<1>3. CheckingInv' /\ SpacingInv'
  BY DEF CheckingInv, SpacingInv, TypeOK
<1>4. Armed => Armed'
  <2>1. ASSUME NEW t \in timers, t > wait
        PROVE  LessOne(t) \in timers' /\ LessOne(t) > wait'
    BY <2>1 DEF LessOne, TypeOK
  <2>. QED  BY <2>1 DEF Armed
<1>5. TimerInv'
  BY <1>4 DEF TimerInv, WakeUpPending, Armed, TypeOK
<1>6. SilencedInv'
  BY DEF SilencedInv, TypeOK
<1>. QED  BY <1>2, <1>3, <1>5, <1>6

\* Wake-ups and objects that change touch neither nextCheck nor the round.
LEMMA WakeUpStep ==
  ASSUME ControllerInv,
         TimerFires \/ RetryFires \/ InformerEvent \/ Environment \/ Restart
  PROVE  ControllerInv'
<1>. USE DEF ControllerInv, TimerFires, RetryFires, InformerEvent,
             Environment, StorageChanges, CCDChanges, InfraChanges, Restart,
             cluster, process
<1>1. TypeOK'
  <2>1. /\ supported' \in BOOLEAN /\ up' \in BOOLEAN /\ queued' \in BOOLEAN
        /\ retry' \in BOOLEAN
    BY Zenon DEF TypeOK
  <2>2. timers' \in SUBSET (0..SilencedCap)
    BY DEF TypeOK
  <2>. QED  BY <2>1, <2>2 DEF TypeOK
<1>2. CheckingInv' /\ SpacingInv' /\ SilencedInv'
  BY DEF CheckingInv, SpacingInv, SilencedInv
<1>3. wait >= 0 /\ Armed => Armed'
  BY DEF Armed, TypeOK
<1>4. Armed => Armed' \/ queued'
  BY DEF Armed
<1>5. TimerInv'
  BY <1>3, <1>4 DEF TimerInv, WakeUpPending, Armed, TypeOK
<1>. QED  BY <1>1, <1>2, <1>5

\* A process that is lost leaves nothing to keep.
LEMMA LoseStep ==
  ASSUME ControllerInv, LoseProcess
  PROVE  ControllerInv'
<1>. USE Times DEF ControllerInv, LoseProcess, cluster
<1>1. TypeOK'
  <2>1. /\ up' \in BOOLEAN /\ queued' \in BOOLEAN /\ retry' \in BOOLEAN
        /\ silenced' \in BOOLEAN /\ skipped' \in BOOLEAN
        /\ wentOn' \in BOOLEAN
    BY Zenon
  <2>. QED  BY <2>1 DEF TypeOK
<1>2. CheckingInv' /\ SpacingInv' /\ TimerInv'
  BY DEF CheckingInv, SpacingInv, TimerInv, WakeUpPending
<1>3. SilencedInv'
  BY NotSeenIsNoState DEF SilencedInv, ManagementState
<1>. QED  BY <1>1, <1>2, <1>3

LEMMA SyncStep ==
  ASSUME ControllerInv, Sync
  PROVE  ControllerInv'
<1>. USE DEF ControllerInv
<1>1. CASE SyncReadFails
  <2>. USE <1>1 DEF SyncReadFails, cluster, process
  <2>1. TypeOK'
    <3>1. queued' \in BOOLEAN /\ retry' \in BOOLEAN
      BY Zenon
    <3>. QED  BY <3>1 DEF TypeOK
  <2>. QED  BY <2>1 DEF CheckingInv, SpacingInv, SilencedInv, TimerInv,
                        WakeUpPending, Armed, SyncBegins
<1>2. CASE SyncNotApplicable
  <2>. USE <1>2 DEF SyncNotApplicable, cluster
  <2>1. TypeOK'
    <3>1. skipped' \in BOOLEAN /\ queued' \in BOOLEAN
      BY Zenon
    <3>. QED  BY <3>1 DEF TypeOK
  <2>2. CheckingInv' /\ SpacingInv' /\ SilencedInv'
    BY DEF CheckingInv, SpacingInv, SilencedInv
  <2>3. ~skipped' => ~(wait < 0)
    BY Zenon
  <2>4. TimerInv'
    BY <2>3 DEF TimerInv, WakeUpPending, Armed, SyncBegins, TypeOK
  <2>. QED  BY <2>1, <2>2, <2>4
<1>3. CASE SyncExits
  BY <1>3, LoseStep DEF SyncExits
<1>4. CASE runSyncChecks
  <2>. USE <1>4 DEF runSyncChecks, SyncBegins, cluster
  <2>1. /\ backoff' \in Duration..Cap
        /\ nextErrorDelay' \in {0} \cup Duration..(Cap + MaxJitter)
        /\ wait < 0 => nextErrorDelay' \in Duration..(Cap + MaxJitter)
    BY StepNextType, JitteredType, Times DEF TypeOK
  <2>2. TypeOK'
    <3>1. /\ skipped' \in BOOLEAN /\ queued' \in BOOLEAN
          /\ silenced' \in BOOLEAN /\ wentOn' \in BOOLEAN
      BY Zenon DEF TypeOK
    <3>. QED  BY <2>1, <3>1, Times DEF TypeOK
  <2>3. CheckingInv' /\ SpacingInv'
    BY <2>1, Times DEF CheckingInv, SpacingInv, TypeOK
  <2>4. TimerInv'
    BY DEF TimerInv, WakeUpPending, Armed, TypeOK
  <2>5. SilencedInv'
    <3>1. silenced' <=> oldManagedState' = "Removed"
      BY Zenon
    <3>2. CASE wait < 0
      BY <3>1, <3>2, Times DEF SilencedInv, TypeOK
    <3>3. ASSUME wait >= 0, ~silenced', ~wentOn'
          PROVE  wait' <= Cap + MaxJitter
      <4>1. /\ ~wentOn
            /\ ~(oldManagedState = "Removed" /\ ccd \in {"Unmanaged", "Force"})
        <5>1. ~(wait < 0)
          BY <3>3 DEF TypeOK
        <5>. QED  BY <3>3, <5>1, Zenon
      <4>2. ccd # "Removed" /\ ccd \in ManagementState
        BY <3>3, Zenon DEF TypeOK
      <4>3. ~(oldManagedState = "Removed" /\ ccd = "Managed")
        BY Zenon DEF checkStateChange
      <4>4. oldManagedState # "Removed"
        BY <4>1, <4>2, <4>3, Zenon DEF ManagementState
      <4>5. ~silenced
        BY <4>4, Zenon DEF SilencedInv
      <4>. QED  BY <4>1, <4>5 DEF SilencedInv
    <3>. QED  BY <3>1, <3>2, <3>3 DEF SilencedInv, TypeOK
  <2>. QED  BY <2>2, <2>3, <2>4, <2>5
<1>. QED  BY <1>1, <1>2, <1>3, <1>4 DEF Sync

\* The end of a round sets nextCheck and the timer.
LEMMA RoundEndStep ==
  ASSUME ControllerInv, NEW result \in {"ok", "checkError", "runError"},
         NEW blocked \in BOOLEAN, NEW jitter \in 0..MaxJitter,
         RoundEnds(result, blocked, jitter)
  PROVE  ControllerInv'
<1>. DEFINE delay == After(result, blocked, jitter).delay
<1>1. /\ up /\ phase = "checking" /\ elapsed > 0 /\ phase' = "updating"
      /\ backoff' = After(result, blocked, jitter).backoff
      /\ wait' = IF delay < elapsed THEN -1 ELSE delay - elapsed
      /\ timers' = timers \cup {delay}
      /\ syncError' = IF result = "ok" THEN "0" ELSE "1"
      /\ elapsed' = 0
      /\ UNCHANGED <<storage, supported, ccd, condition, up, queued, retry,
                     nextErrorDelay, silenced, oldManagedState, skipped,
                     wentOn, age>>
  BY DEF RoundEnds, NextCheckIn, AfterFunc, cluster
<1>2. /\ delay \in Duration..SilencedCap
      /\ ~silenced => delay <= Cap + MaxJitter
      /\ backoff' \in Duration..Cap
  BY <1>1, AfterType
<1>. HIDE DEF delay
<1>. USE <1>1, <1>2, Times DEF ControllerInv
<1>3. TypeOK'
  BY DEF TypeOK
<1>4. CheckingInv'
  BY DEF CheckingInv
<1>5. SpacingInv'
  BY DEF SpacingInv, TypeOK
<1>6. Armed'
  <2>1. delay > wait'
    BY DEF TypeOK
  <2>. QED  BY <2>1 DEF Armed
<1>7. TimerInv'
  BY <1>6 DEF TimerInv, WakeUpPending
<1>8. SilencedInv'
  BY DEF SilencedInv, TypeOK
<1>. QED  BY <1>3, <1>4, <1>5, <1>7, <1>8

LEMMA UpdateStep ==
  ASSUME ControllerInv, Update
  PROVE  ControllerInv'
<1>. USE DEF ControllerInv, Update, updateConditions, UpdateFails, cluster
<1>1. TypeOK'
  BY DEF TypeOK
<1>2. CheckingInv' /\ SpacingInv' /\ SilencedInv'
  BY DEF CheckingInv, SpacingInv, SilencedInv
<1>3. TimerInv'
  BY DEF TimerInv, WakeUpPending, Armed
<1>. QED  BY <1>1, <1>2, <1>3

LEMMA IdleStep ==
  ASSUME ControllerInv, UNCHANGED vars
  PROVE  ControllerInv'
BY DEF ControllerInv, vars, cluster, process, TypeOK, CheckingInv,
       SpacingInv, TimerInv, WakeUpPending, Armed, SilencedInv

\* ControllerInv holds in every reachable state of the controller.
THEOREM ControllerInvariant == Spec => []ControllerInv
<1>1. ControllerInv /\ [Next]_vars => ControllerInv'
  BY TickStep, WakeUpStep, LoseStep, SyncStep, RoundEndStep, UpdateStep,
     IdleStep DEF Next, RoundEnd, Crash
<1>. QED  BY ControllerInvInit, <1>1, PTL DEF Spec

-----------------------------------------------------------------------------
(* What the invariant gives.                                               *)

\* Every variable keeps its type: the backoff stays between Duration and Cap,
\* and no timer or nextCheck is further away than silencedCap.
THEOREM TypeCorrect == Spec => []TypeOK
BY ControllerInvariant, PTL DEF ControllerInv

\* An idle controller whose wake-up was not spent at an early return has one
\* pending that comes when nextCheck is past.
THEOREM WakeUpCorrect == Spec => []WakeUpPending
<1>1. ControllerInv => WakeUpPending
  BY DEF ControllerInv, TimerInv
<1>. QED  BY <1>1, ControllerInvariant, PTL

\* A controller that is not silenced, and did not go on from Removed to
\* Unmanaged or Force since its last round, has its next check at most Cap and
\* a jitter away.
THEOREM DelayCorrect == Spec => []DelayFitsMode
<1>1. ControllerInv => DelayFitsMode
  BY DEF ControllerInv, SilencedInv, DelayFitsMode
<1>. QED  BY <1>1, ControllerInvariant, PTL

\* Two rounds of one process start more than Duration apart.
THEOREM SpacingCorrect == Spec => RoundsAreSpaced
<1>. DEFINE Spaced == phase # "checking" /\ phase' = "checking" => age > Duration
<1>1. ASSUME ControllerInv, [Next]_vars, phase # "checking",
             phase' = "checking"
      PROVE  age > Duration
  <2>1. runSyncChecks
    BY <1>1 DEF Next, vars, process, Tick, TimerFires, RetryFires,
                InformerEvent, Environment, StorageChanges, CCDChanges,
                InfraChanges, Crash, Restart, LoseProcess, Sync,
                SyncReadFails, SyncNotApplicable, SyncExits, RoundEnd,
                RoundEnds, Update, updateConditions, UpdateFails
  <2>2. wait < 0
    BY <1>1, <2>1 DEF runSyncChecks
  <2>. QED  BY <1>1, <2>2, Times DEF ControllerInv, SpacingInv, TypeOK
<1>2. ControllerInv /\ [Next]_vars => [Spaced]_vars
  BY <1>1
<1>. QED  BY <1>2, ControllerInvariant, PTL DEF Spec, RoundsAreSpaced

=============================================================================
