---------------------- MODULE ProblemDetectorController ----------------------
(***************************************************************************)
(* vSphereProblemDetectorController of pkg/operator/operator.go: when a    *)
(* sync runs the checks, how long it waits for the next round, which timer *)
(* wakes it up, when the process restarts, and what the Available          *)
(* condition and the SyncError gauge say.  A round of checks is one step   *)
(* that takes time and ends in one of three ways; CheckRound models it.    *)
(*                                                                         *)
(* Time is counted in ticks and kept relative to now, so the state space   *)
(* is finite without a bound on time: wait is nextCheck minus now, and -1  *)
(* stands for any moment strictly past nextCheck.                          *)
(***************************************************************************)
EXTENDS Integers

CONSTANTS
  Duration,     \* defaultBackoff.Duration, in ticks
  Cap,          \* defaultBackoff.Cap
  SilencedCap,  \* silencedCap
  MaxJitter     \* the most that defaultBackoff.Jitter adds to a delay

ASSUME TimeAssumption ==
  /\ {Duration, Cap, SilencedCap} \subseteq Nat \ {0} /\ MaxJitter \in Nat
  /\ Duration <= Cap
  /\ Cap + MaxJitter <= SilencedCap

ManagementState == {"Managed", "Unmanaged", "Force", "Removed"}

\* No ClusterCSIDriver was seen yet: the zero value of the Go string.
NotSeen == ""

VARIABLES
  \* The cluster, as the informer caches show it.
  storage,          \* managementState of the Storage operator object: Managed,
                    \* or Unmanaged for any other
  supported,        \* the infrastructure object says platform vSphere
  ccd,              \* managementState of the ClusterCSIDriver object
  condition,        \* the Available condition: what it says of the checks
  \* The controller framework.
  up,               \* the process runs
  queued,           \* the key is in the work queue
  retry,            \* the key is waiting in the rate limiter
  \* The process.
  phase,            \* "idle", or inside sync: "checking", "updating"
  elapsed,          \* time since lastCheck, while a round runs
  wait,             \* nextCheck - now
  timers,           \* remaining times of the time.AfterFunc timers
  backoff,          \* backoff.Duration
  nextErrorDelay,   \* delay computed before the round
  silenced,         \* log.Silenced
  oldManagedState,  \* NotSeen before the first sync
  syncError,        \* gauge vsphere_sync_errors{reason="SyncError"}
  \* History, for the properties only.
  skipped,          \* a wake-up of a due check ended at an early return
  wentOn,           \* since its last round this process saw the CSI driver
                    \* go from Removed to Unmanaged or Force
  age               \* time since this process started its last round

cluster == <<storage, supported, ccd>>
process == <<phase, elapsed, wait, timers, backoff, nextErrorDelay, silenced,
             oldManagedState, syncError, skipped, wentOn, age>>
vars == <<cluster, condition, up, queued, retry, process>>

\* The values NewVSphereProblemDetectorController starts a process with.
\* nextCheck is the zero time: the first sync runs the checks.
Init ==
  /\ storage \in {"Managed", "Unmanaged"}
  /\ supported \in BOOLEAN
  /\ ccd \in ManagementState
  /\ condition = "none"
  /\ up = TRUE
  /\ queued = TRUE
  /\ retry = FALSE
  /\ phase = "idle"
  /\ elapsed = 0
  /\ wait = -1
  /\ timers = {}
  /\ backoff = Duration
  /\ nextErrorDelay = 0
  /\ silenced = FALSE
  /\ oldManagedState = NotSeen
  /\ syncError = "unset"
  /\ skipped = FALSE
  /\ wentOn = FALSE
  /\ age = Duration + 1

-----------------------------------------------------------------------------
(* Library code: wait.Backoff, the work queue, timers, the API objects.    *)

\* Backoff.Step returns the current duration with a random jitter on top, and
\* doubles the duration, without the jitter, up to the cap, where it stays.
\* The jitter is at most one percent of the duration, so at most MaxJitter, one
\* percent of the cap.
Jittered(d) == d..(d + MaxJitter)
StepNext(d) == IF 2 * d > Cap THEN Cap ELSE 2 * d

LessOne(t) == IF t > 0 THEN t - 1 ELSE 0

\* Time passes.  A timer that is due may be late.  A round has no deadline;
\* SilencedCap + 1 stands for every time longer than all delays.
Tick ==
  /\ elapsed' = IF phase = "checking" /\ elapsed <= SilencedCap
                THEN elapsed + 1 ELSE elapsed
  /\ wait' = IF wait >= 0 THEN wait - 1 ELSE wait
  /\ timers' = {LessOne(t) : t \in timers}
  /\ age' = IF age > Duration THEN age ELSE age + 1
  /\ UNCHANGED <<cluster, condition, up, queued, retry, phase, backoff,
                 nextErrorDelay, silenced, oldManagedState, syncError,
                 skipped, wentOn>>

\* The function of time.AfterFunc: queue.Add(queueKey).
TimerFires ==
  /\ up
  /\ 0 \in timers
  /\ timers' = timers \ {0}
  /\ queued' = TRUE
  /\ UNCHANGED <<cluster, condition, up, retry, phase, elapsed, wait,
                 backoff, nextErrorDelay, silenced, oldManagedState,
                 syncError, skipped, wentOn, age>>

\* The rate limiter hands a failed key back to the queue.
RetryFires ==
  /\ up
  /\ retry
  /\ retry' = FALSE
  /\ queued' = TRUE
  /\ UNCHANGED <<cluster, condition, up, process>>

\* A watched object changed, or an informer resynchronises.
InformerEvent ==
  /\ up
  /\ queued' = TRUE
  /\ UNCHANGED <<cluster, condition, up, retry, process>>

\* The Storage object is read by sync but not among the watched informers.
StorageChanges ==
  /\ storage' \in {"Managed", "Unmanaged"} \ {storage}
  /\ UNCHANGED <<supported, ccd, condition, up, queued, retry, process>>

CCDChanges ==
  /\ ccd' \in ManagementState \ {ccd}
  /\ queued' = up
  /\ UNCHANGED <<storage, supported, condition, up, retry, process>>

InfraChanges ==
  /\ ~supported
  /\ supported' = TRUE
  /\ queued' = up
  /\ UNCHANGED <<storage, ccd, condition, up, retry, process>>

\* Everything in memory is lost; the API objects stay.
LoseProcess ==
  /\ up' = FALSE
  /\ queued' = FALSE
  /\ retry' = FALSE
  /\ phase' = "idle"
  /\ elapsed' = 0
  /\ wait' = -1
  /\ timers' = {}
  /\ backoff' = Duration
  /\ nextErrorDelay' = 0
  /\ silenced' = FALSE
  /\ oldManagedState' = NotSeen
  /\ syncError' = "unset"
  /\ skipped' = FALSE
  /\ wentOn' = FALSE
  /\ age' = Duration + 1
  /\ UNCHANGED <<cluster, condition>>

Crash == up /\ LoseProcess

\* The pod is started again; the informers' initial lists fill the queue.
Restart ==
  /\ ~up
  /\ up' = TRUE
  /\ queued' = TRUE
  /\ UNCHANGED <<cluster, condition, retry, process>>

-----------------------------------------------------------------------------
(* sync                                                                    *)

\* The worker takes the key and calls sync.
SyncBegins == up /\ queued /\ phase = "idle"

\* The operator is Managed, and platformSupported.
Applicable == storage = "Managed" /\ supported

\* One of the three reads fails: sync returns the error, the key is retried.
SyncReadFails ==
  /\ SyncBegins
  /\ queued' = FALSE
  /\ retry' = TRUE
  /\ UNCHANGED <<cluster, condition, up, process>>

\* Mutant: a removed CSI driver is taken for nothing to do.
MutantSkipRemoved ==
  /\ SyncBegins
  /\ ~Applicable \/ ccd = "Removed"
  /\ queued' = FALSE
  /\ skipped' = (skipped \/ wait < 0)
  /\ UNCHANGED <<cluster, condition, up, retry, phase, elapsed, wait, timers,
                 backoff, nextErrorDelay, silenced, oldManagedState,
                 syncError, wentOn, age>>

\* The operator is not Managed, or the platform is not vSphere.
SyncNotApplicable ==
  /\ SyncBegins
  /\ ~Applicable
  /\ queued' = FALSE
  /\ skipped' = (skipped \/ wait < 0)
  /\ UNCHANGED <<cluster, condition, up, retry, phase, elapsed, wait, timers,
                 backoff, nextErrorDelay, silenced, oldManagedState,
                 syncError, wentOn, age>>

\* Mutant: one of the two directions is forgotten.
MutantNoWayBack(state) == oldManagedState = "Managed" /\ state = "Removed"

checkStateChange(state) ==
  \/ oldManagedState = "Managed" /\ state = "Removed"
  \/ oldManagedState = "Removed" /\ state = "Managed"

\* A change between Managed and Removed: os.Exit(0).
SyncExits ==
  /\ SyncBegins
  /\ Applicable
  /\ checkStateChange(ccd)
  /\ LoseProcess

\* Otherwise log.Silenced is set and, when nextCheck is past, the round
\* starts: runChecks takes the backoff step for an error first.
runSyncChecks ==
  /\ SyncBegins
  /\ Applicable
  /\ ~checkStateChange(ccd)
  /\ oldManagedState' = ccd
  /\ silenced' = (ccd = "Removed")
  /\ queued' = FALSE
  /\ \/ /\ wait >= 0
        /\ wentOn' = (wentOn \/ (oldManagedState = "Removed"
                                 /\ ccd \in {"Unmanaged", "Force"}))
        /\ UNCHANGED <<phase, elapsed, backoff, nextErrorDelay, skipped,
                       age>>
     \/ /\ wait < 0
        /\ wentOn' = FALSE
        /\ phase' = "checking"
        /\ elapsed' = 0
        /\ nextErrorDelay' \in Jittered(backoff)
        /\ backoff' = StepNext(backoff)
        /\ skipped' = FALSE
        /\ age' = 0
  /\ UNCHANGED <<cluster, condition, up, retry, wait, timers, syncError>>

\* The delay and the backoff that runChecks and runSyncChecks leave behind.
\* result: "ok", "checkError" (some check failed) or "runError" (the round
\* could not be run).  blocked: checkForDeprecation found an old version, and
\* unless there is an error another step of the backoff, which was reset, is
\* taken.  The delays of a success have no jitter.
After(result, blocked, jitter) ==
  LET settled == result = "ok" \/ (result = "checkError" /\ silenced)
      again == blocked /\ result = "ok" /\ ~silenced
  IN  IF ~settled THEN [delay |-> nextErrorDelay, backoff |-> backoff]
      ELSE IF again THEN [delay |-> Duration + jitter,
                           backoff |-> StepNext(Duration)]
      ELSE [delay |-> IF silenced THEN SilencedCap ELSE Cap,
            backoff |-> Duration]

\* Mutants: nextCheck stays at the start of the round; the timer is set to
\* fire at nextCheck.
MutantNextCheckNow(delay) == -1
MutantTimerAtNextCheck(delay) ==
  timers \cup {IF delay < elapsed THEN 0 ELSE delay - elapsed}

\* AfterFunc counts from now, nextCheck from the start of the round.
NextCheckIn(delay) == IF delay < elapsed THEN -1 ELSE delay - elapsed
AfterFunc(delay) == timers \cup {delay}

\* The round ends.  It took some time: connecting is a network round trip.
RoundEnds(result, blocked, jitter) ==
  LET after == After(result, blocked, jitter) IN
  /\ up
  /\ phase = "checking"
  /\ elapsed > 0
  /\ phase' = "updating"
  /\ backoff' = after.backoff
  /\ wait' = NextCheckIn(after.delay)
  /\ timers' = AfterFunc(after.delay)
  /\ syncError' = IF result = "ok" THEN "0" ELSE "1"
  /\ elapsed' = 0
  /\ UNCHANGED <<cluster, condition, up, queued, retry, nextErrorDelay,
                 silenced, oldManagedState, skipped, wentOn,
                 age>>

\* updateConditions: Available is True, with the error as its message.
updateConditions ==
  /\ up
  /\ phase = "updating"
  /\ phase' = "idle"
  /\ condition' = IF syncError = "0" THEN "ok" ELSE "failed"
  /\ UNCHANGED <<cluster, up, queued, retry, elapsed, wait, timers, backoff,
                 nextErrorDelay, silenced, oldManagedState, syncError,
                 skipped, wentOn, age>>

\* The status update fails; sync returns the error and the key is retried.
UpdateFails ==
  /\ up
  /\ phase = "updating"
  /\ phase' = "idle"
  /\ retry' = TRUE
  /\ UNCHANGED <<cluster, condition, up, queued, elapsed, wait, timers,
                 backoff, nextErrorDelay, silenced, oldManagedState,
                 syncError, skipped, wentOn, age>>

-----------------------------------------------------------------------------
RoundEnd == \E result \in {"ok", "checkError", "runError"}, blocked \in BOOLEAN,
               jitter \in 0..MaxJitter : RoundEnds(result, blocked, jitter)
Update == updateConditions \/ UpdateFails
Sync == SyncReadFails \/ SyncNotApplicable \/ SyncExits \/ runSyncChecks
Environment == StorageChanges \/ CCDChanges \/ InfraChanges

Next ==
  \/ Tick \/ TimerFires \/ RetryFires \/ InformerEvent \/ Environment
  \/ Crash \/ Restart
  \/ Sync \/ RoundEnd \/ Update

\* Time passes, timers and the rate limiter fire, the worker serves its queue
\* and a dead pod is restarted.  Informers resynchronise every 20 minutes
\* (starter.go).  Reads go to informer caches and do not fail for ever.
\* Nothing is assumed of objects changing or of crashes, nor that a round or a
\* status update ends: checker.runChecks gets no deadline, UserSession, Logout
\* and several checks make calls without timeout, and so does the update.
Fairness ==
  /\ WF_vars(Tick) /\ WF_vars(TimerFires) /\ WF_vars(RetryFires)
  /\ WF_vars(InformerEvent) /\ WF_vars(Restart)
  /\ SF_vars(SyncNotApplicable \/ SyncExits \/ runSyncChecks)

Spec == Init /\ [][Next]_vars
FairSpec == Spec /\ Fairness

-----------------------------------------------------------------------------
(* Properties.                                                             *)

TypeOK ==
  /\ storage \in {"Managed", "Unmanaged"}
  /\ supported \in BOOLEAN
  /\ ccd \in ManagementState
  /\ condition \in {"none", "ok", "failed"}
  /\ up \in BOOLEAN
  /\ queued \in BOOLEAN
  /\ retry \in BOOLEAN
  /\ phase \in {"idle", "checking", "updating"}
  /\ elapsed \in 0..(SilencedCap + 1)
  /\ wait \in -1..SilencedCap
  /\ timers \in SUBSET (0..SilencedCap)
  /\ backoff \in Duration..Cap
  /\ nextErrorDelay \in {0} \cup Duration..(Cap + MaxJitter)
  /\ silenced \in BOOLEAN
  /\ oldManagedState \in ManagementState \cup {NotSeen}
  /\ syncError \in {"unset", "0", "1"}
  /\ skipped \in BOOLEAN
  /\ wentOn \in BOOLEAN
  /\ age \in 0..(Duration + 1)

\* The checks never stop for want of a wake-up.  sync runs a round only when
\* time.Now() is strictly after nextCheck, and a wake-up that comes earlier is
\* spent for nothing; so whenever the controller is idle the key is queued or
\* waits to be retried, or a timer is armed that fires strictly after
\* nextCheck.  The exception is a wake-up spent at an early return.
WakeUpPending ==
  up /\ phase = "idle" /\ ~skipped =>
    queued \/ retry \/ \E t \in timers : t > wait

\* Two rounds of one process never start less than the shortest backoff
\* apart, however many events, retries and old timers wake the controller.
RoundsAreSpaced ==
  [][phase # "checking" /\ phase' = "checking" => age > Duration]_vars

\* When the operator stays up, managed, and on vSphere, and no sync hangs,
\* rounds start again and again: no order of early returns, failed updates,
\* restarts and old timers stops them.  (A round that hangs in a call to
\* vCenter keeps the only worker of the controller, and is the last one.)
ChecksRecur ==
  <>[](up /\ storage = "Managed" /\ supported) /\ []<>(phase = "idle")
    => []<>(phase = "checking")

\* A controller that is not silenced has its next check at most Cap and a
\* jitter away (operator.go: "Maximum interval between checks."): the long
\* delay of a silenced round does not survive the change of the mode.  Unless
\* the CSI driver went from Removed to Unmanaged or Force: the process goes
\* on, not silenced any more, with nextCheck up to a day away.
DelayFitsMode ==
  phase = "idle" /\ ~silenced /\ ~wentOn => wait <= Cap + MaxJitter

\* operator.go: "update conditions when checks are performed".  When sync has
\* ended and no retry is due, the condition tells the last round's outcome.
ConditionCurrent ==
  phase = "idle" /\ ~retry /\ ~queued =>
    /\ syncError = "0" => condition = "ok"
    /\ syncError = "1" => condition = "failed"

=============================================================================
