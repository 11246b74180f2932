----------------------- MODULE HtpPowerConfigManager -----------------------
(***************************************************************************)
(* power::HtpPowerConfigManager (builder/qnn_htp_power_config_manager.cc)  *)
(* shared by several sessions, composed with its release Timer and with    *)
(* the code that drives it: QnnModel::BindAndExecuteGraph for a run,       *)
(* HtpPowerStateGuard for a compilation, QnnEp's destructor for the end of *)
(* a session and QnnBackendManager::ReleaseResources for the end of the    *)
(* manager.                                                                *)
(*                                                                         *)
(* A client is a thread.  One critical section of state_mutex_ is one      *)
(* action; a section of perf_mutex_ is entered and left in separate        *)
(* actions, because the timer's callback takes that mutex with try_lock    *)
(* and behaves differently when it is held.                                *)
(***************************************************************************)
EXTENDS Timer

CONSTANTS
    Ids,           \* power config client ids, one per session
    IdOf,          \* IdOf[c]: the id of the session client c belongs to
    RunOptions,    \* the perf modes that runs may be given
    InitModes,     \* the perf modes compilations run with
    Outcomes,      \* what applying a power config may come to
    ThreadMayFail, \* may the creation of the timer thread fail?
    MaxInflight    \* bound: no run begins above this inflight_run_count_, nor
                   \* above this leaked

Clients == Threads

Boosting == {"Burst", "SustainedHighPerformance"}
Relaxing == {"LowBalanced", "Balanced", "HighPerformance"}
NonBoosting == Relaxing \cup
    {"ExtremePowerSaver", "LowPowerSaver", "HighPowerSaver", "PowerSaver"}
Modes == Boosting \cup NonBoosting \cup {"Default"}

(***************************************************************************)
(* The modes of a run: the session's default, the dynamic option set since *)
(* then, and the run options for before and after the run; "Default" is no *)
(* mode.  GetPerThreadHtpPowerConfigs and SetPerThreadHtpPowerConfigs turn *)
(* them into the mode of SetState(RUN_START) and of SetState(RUN_DONE),    *)
(* "unset" where no call is made.                                          *)
(***************************************************************************)
Options == [default : Modes, dynamic : Modes, pre : Modes, post : Modes]
SessionMode(o) == IF o.dynamic # "Default" THEN o.dynamic ELSE o.default
ModeOr(m, o) == IF m # "Default" THEN m
                ELSE IF SessionMode(o) # "Default" THEN SessionMode(o) ELSE "unset"
PlanOf(o) ==
    [flow |-> "run", start |-> ModeOr(o.pre, o), done |-> ModeOr(o.post, o)]
RunPlans == {PlanOf(o) : o \in RunOptions}
InitPlans == {[flow |-> "init", start |-> m, done |-> m] : m \in InitModes}
NoPlan == [flow |-> "run", start |-> "unset", done |-> "unset"]

NoOwner == "NoOwner"

ASSUME PowerAssumption ==
    /\ IdOf \in [Clients -> Ids]
    /\ RunOptions \subseteq Options
    /\ InitModes \subseteq Modes
    /\ Outcomes \subseteq {"applied", "rejected", "error"}
    /\ ThreadMayFail \in BOOLEAN
    /\ MaxInflight \in Nat
    /\ NoOwner \notin Clients \cup {Bkg}
    /\ IsFiniteSet(Clients)

VARIABLES
    perf_owner,           \* who holds perf_mutex_
    inflight_run_count,   \* timer_resource_.inflight_run_count_
    timer_active,         \* timer_resource_.timer_active_
    timer_set,            \* timer_ # nullptr
    boosted_config_ids,   \* boosted_config_ids_
    vote,                 \* vote[id]: the last power config the driver accepted: a mode, "relaxed",
                          \* "extreme_low", "released" or "none"
    phase,                \* phase[id]: the session's life
    pc, plan, gs,         \* what a client does, for which run, in which half
    retry,                \* retry[c]: the guard's destructor makes this call
    leaked,               \* history: counted starts that no done call answers
    cb                    \* where the timer's callback is

clientVars == << pc, plan, gs, retry, leaked >>
powerVars == << perf_owner, inflight_run_count, timer_active, timer_set,
                boosted_config_ids, vote, phase, clientVars, cb >>
vars == << timerVars, powerVars >>

Init ==
    /\ TimerInit
    /\ perf_owner = NoOwner
    /\ inflight_run_count = 0
    /\ timer_active = FALSE
    /\ timer_set = FALSE
    /\ boosted_config_ids = {}
    /\ vote = [i \in Ids |-> "none"]
    /\ phase = [i \in Ids |-> "none"]
    /\ pc = [c \in Clients |-> "idle"]
    /\ plan = [c \in Clients |-> NoPlan]
    /\ gs = [c \in Clients |-> "START"]
    /\ retry = [c \in Clients |-> FALSE]
    /\ leaked = 0
    /\ cb = "none"

-----------------------------------------------------------------------------
(***************************************************************************)
(* Helpers.                                                                *)
(***************************************************************************)
Id(c) == IdOf[c]
Mode(c) == IF gs[c] = "START" THEN plan[c].start ELSE plan[c].done
Goto(c, l) == pc' = [pc EXCEPT ![c] = l]

LockPerf(c) == perf_owner = NoOwner /\ perf_owner' = c
UnlockPerf(c) == perf_owner = c /\ perf_owner' = NoOwner

Siblings(c) == {d \in Clients : Id(d) = Id(c)}
Releasing == \E c \in Clients :
    pc[c] \in {"release", "release2", "release3", "release4"}

\* The vote SetPerformance casts at the end of a run or a compilation.
DoneVote(m) == IF m \in Relaxing THEN "relaxed"
               ELSE IF m = "ExtremePowerSaver" THEN "extreme_low" ELSE "released"

BecomeIdle(c) ==
    /\ Goto(c, "idle")
    /\ plan' = [plan EXCEPT ![c] = NoPlan]
    /\ gs' = [gs EXCEPT ![c] = "START"]
    /\ retry' = [retry EXCEPT ![c] = FALSE]

\* A call of SetState(START) has counted the client's work and SetState(DONE)
\* has not yet discounted it.
InFlight(c) ==
    \/ gs[c] = "DONE" /\ pc[c] = "state"
    \/ /\ gs[c] = "START" /\ plan[c].start # "unset"
       /\ pc[c] \in {"sustained", "abort", "aborting", "apply", "drop", "drop2",
                     "inuse", "dropabort", "dropaborting", "perf", "perf2",
                     "exec"}

\* A counted client ends its work and no done call is counted for it: none is
\* made, because the mode is unset, or it is rejected for want of a timer.
Counted(c) ==
    /\ InFlight(c)
    /\ plan[c].start # "unset"
    /\ plan[c].start \in Boosting => timer_active
Leave(c) == leaked' = IF Counted(c) THEN leaked + 1 ELSE leaked

\* The done call, made by the code of the run or of the guard (last = FALSE)
\* or by a scope guard or destructor (last = TRUE).  A run whose mode is unset
\* makes no call (SetPerThreadHtpPowerConfigs).
BeginDone(c, last) ==
    \/ /\ plan[c].done = "unset"
       /\ BecomeIdle(c)
       /\ Leave(c)
    \/ /\ plan[c].done # "unset"
       /\ Goto(c, "state")
       /\ gs' = [gs EXCEPT ![c] = "DONE"]
       /\ retry' = [retry EXCEPT ![c] = last]
       /\ UNCHANGED << plan, leaked >>

\* Mutant: no scope guard around the run, a failed start just returns.
ReturnStatusNoGuard(c, s) ==
    \/ /\ gs[c] = "START" /\ s
       /\ Goto(c, "exec")
       /\ UNCHANGED << plan, gs, retry, leaked >>
    \/ /\ gs[c] = "DONE" \/ ~s
       /\ BecomeIdle(c)
       /\ IF gs[c] = "DONE" THEN Leave(c) ELSE UNCHANGED leaked

\* SetState returns with status s.  After a failed start the scope guard of
\* the run, or the destructor of HtpPowerStateGuard, makes the done call;
\* SetPostRunHtpPerf leaves a failed done call to the destructor.
ReturnStatus(c, s) ==
    \/ /\ gs[c] = "START" /\ s
       /\ Goto(c, "exec")
       /\ UNCHANGED << plan, gs, retry, leaked >>
    \/ /\ gs[c] = "START" /\ ~s
       /\ BeginDone(c, TRUE)
    \/ /\ gs[c] = "DONE" /\ plan[c].flow = "init" /\ ~s /\ ~retry[c]
       /\ BeginDone(c, TRUE)
    \/ /\ gs[c] = "DONE" /\ (plan[c].flow = "run" \/ s \/ retry[c])
       /\ BecomeIdle(c)
       /\ Leave(c)

\* SetHtpPowerConfigs / SetHtpPowerCustomConfigs with the vote v: the driver
\* accepts it, or rejects it (only logged), or the call fails before.
ApplyVote(c, v) ==
    \E o \in Outcomes :
        /\ vote' = IF o = "applied" THEN [vote EXCEPT ![Id(c)] = v] ELSE vote
        /\ ReturnStatus(c, o # "error")

-----------------------------------------------------------------------------
(***************************************************************************)
(* The life of a session: CreateTimerThread, the drop of its id, the       *)
(* release of the manager's timer after the last session.                  *)
(***************************************************************************)
CreateTimerThread(c) ==
    /\ ~Releasing
    /\ phase[Id(c)] = "none"
    /\ \A d \in Siblings(c) : pc[d] = "idle"
    /\ LockPerf(c)
    /\ Goto(c, "create")
    /\ UNCHANGED << timerVars, inflight_run_count, timer_active, timer_set,
                    boosted_config_ids, vote, phase, plan, gs, retry, leaked, cb >>

\* The timer exists already, or its thread cannot be created: a Timer that
\* failed is thrown away, so nothing of it remains.
CreateNoThread(c) ==
    /\ pc[c] = "create"
    /\ timer_set \/ ThreadMayFail
    /\ UnlockPerf(c)
    /\ Goto(c, "idle")
    /\ phase' = [phase EXCEPT ![Id(c)] = "live"]
    /\ UNCHANGED << timerVars, inflight_run_count, timer_active, timer_set,
                    boosted_config_ids, vote, plan, gs, retry, leaked, cb >>

CreateThread(c) ==
    /\ pc[c] = "create"
    /\ ~timer_set
    /\ InitializeStart(c)
    /\ Goto(c, "creating")
    /\ UNCHANGED << perf_owner, inflight_run_count, timer_active, timer_set,
                    boosted_config_ids, vote, phase, plan, gs, retry, leaked, cb >>

CreateReturn(c) ==
    /\ pc[c] = "creating"
    /\ CallerReturn(c)
    /\ timer_set' = TRUE
    /\ timer_active' = TRUE
    /\ UnlockPerf(c)
    /\ Goto(c, "idle")
    /\ phase' = [phase EXCEPT ![Id(c)] = "live"]
    /\ UNCHANGED << inflight_run_count, boosted_config_ids, vote, plan, gs,
                    retry, leaked, cb >>

\* ~QnnEp, when no run of the session is in progress.
DestroyLock(c) ==
    /\ phase[Id(c)] # "none"
    /\ \A d \in Siblings(c) : pc[d] = "idle"
    /\ LockPerf(c)
    /\ Goto(c, "destroy")
    /\ UNCHANGED << timerVars, inflight_run_count, timer_active, timer_set,
                    boosted_config_ids, vote, phase, plan, gs, retry, leaked, cb >>

\* Mutant: the destructor does not drop the id from the boosted set.
DropBoostedPowerConfigIdMissing(c) ==
    /\ pc[c] = "destroy"
    /\ UnlockPerf(c)
    /\ Goto(c, "destroying")
    /\ UNCHANGED << timerVars, inflight_run_count, timer_active, timer_set,
                    boosted_config_ids, vote, phase, plan, gs, retry, leaked, cb >>

DropBoostedPowerConfigId(c) ==
    /\ pc[c] = "destroy"
    /\ boosted_config_ids' = boosted_config_ids \ {Id(c)}
    /\ UnlockPerf(c)
    /\ Goto(c, "destroying")
    /\ UNCHANGED << timerVars, inflight_run_count, timer_active, timer_set,
                    vote, phase, plan, gs, retry, leaked, cb >>

DestroyHtpPowerConfigId(c) ==
    /\ pc[c] = "destroying"
    /\ vote' = [vote EXCEPT ![Id(c)] = "none"]
    /\ phase' = [phase EXCEPT ![Id(c)] = "none"]
    /\ Goto(c, "idle")
    /\ UNCHANGED << timerVars, perf_owner, inflight_run_count, timer_active,
                    timer_set, boosted_config_ids, plan, gs, retry, leaked, cb >>

\* ReleaseTimerThread, when no session is left.
ReleaseState(c) ==
    /\ timer_set
    /\ \A i \in Ids : phase[i] = "none"
    /\ \A d \in Clients : pc[d] = "idle"
    /\ timer_active' = FALSE
    /\ inflight_run_count' = 0
    /\ leaked' = 0
    /\ Goto(c, "release")
    /\ UNCHANGED << timerVars, perf_owner, timer_set, boosted_config_ids, vote,
                    phase, plan, gs, retry, cb >>

ReleaseLock(c) ==
    /\ pc[c] = "release"
    /\ LockPerf(c)
    /\ Goto(c, "release2")
    /\ UNCHANGED << timerVars, inflight_run_count, timer_active, timer_set,
                    boosted_config_ids, vote, phase, plan, gs, retry, leaked, cb >>

ReleaseMove(c) ==
    /\ pc[c] = "release2"
    /\ timer_set' = FALSE
    /\ boosted_config_ids' = {}
    /\ UnlockPerf(c)
    /\ Goto(c, "release3")
    /\ UNCHANGED << timerVars, inflight_run_count, timer_active, vote, phase,
                    plan, gs, retry, leaked, cb >>

ReleaseDeInitialize(c) ==
    /\ pc[c] = "release3"
    /\ DeInitializeStart(c)
    /\ Goto(c, "release4")
    /\ UNCHANGED << perf_owner, inflight_run_count, timer_active, timer_set,
                    boosted_config_ids, vote, phase, plan, gs, retry, leaked, cb >>

\* The thread has ended and the Timer object is destroyed with the last
\* reference to it; the next one starts afresh.
ReleaseJoin(c) ==
    /\ pc[c] = "release4"
    /\ bkg = "exited"
    /\ TimerReplaced
    /\ Goto(c, "idle")
    /\ UNCHANGED << perf_owner, inflight_run_count, timer_active, timer_set,
                    boosted_config_ids, vote, phase, plan, gs, retry, leaked, cb >>

-----------------------------------------------------------------------------
(***************************************************************************)
(* A compilation or a run: SetState(START), the work, SetState(DONE).      *)
(* A session compiles before it runs.                                      *)
(***************************************************************************)
Begin(c) ==
    /\ pc[c] = "idle"
    /\ inflight_run_count < MaxInflight /\ leaked < MaxInflight
    /\ \A d \in Siblings(c) : pc[d] \notin {"destroy", "destroying"}
    /\ \E p \in RunPlans \cup InitPlans :
         /\ phase[Id(c)] \in IF p.flow = "run" THEN {"live", "running"}
                                              ELSE {"live"}
         /\ plan' = [plan EXCEPT ![c] = p]
         /\ phase' = [phase EXCEPT ![Id(c)] =
                         IF p.flow = "run" THEN "running" ELSE "live"]
         /\ Goto(c, IF p.start = "unset" THEN "exec" ELSE "state")
    /\ UNCHANGED << timerVars, perf_owner, inflight_run_count, timer_active,
                    timer_set, boosted_config_ids, vote, gs, retry,
                    leaked, cb >>

\* The work is over.  An error in a compilation leaves the done call to the
\* guard's destructor.
Finish(c) ==
    /\ pc[c] = "exec"
    /\ \E last \in IF plan[c].flow = "init" THEN BOOLEAN ELSE {FALSE} :
         BeginDone(c, last)
    /\ UNCHANGED << timerVars, perf_owner, inflight_run_count, timer_active,
                    timer_set, boosted_config_ids, vote, phase, cb >>

\* Mutant: only boosting modes are counted.
CountRunByMode(c) ==
    inflight_run_count' =
        IF Mode(c) \notin Boosting THEN inflight_run_count
        ELSE IF gs[c] = "START" THEN inflight_run_count + 1
        ELSE IF inflight_run_count > 0 THEN inflight_run_count - 1 ELSE 0

\* SetState under state_mutex_: a boosting mode without a timer is rejected,
\* else the run is counted or, clamped at 0, discounted.
CountRun(c) ==
    inflight_run_count' =
        IF gs[c] = "START" THEN inflight_run_count + 1
        ELSE IF inflight_run_count > 0 THEN inflight_run_count - 1 ELSE 0

SetState(c) ==
    /\ pc[c] = "state"
    /\ \/ /\ Mode(c) \in Boosting /\ ~timer_active
          /\ ReturnStatus(c, FALSE)
          /\ UNCHANGED inflight_run_count
       \/ /\ Mode(c) \in Boosting => timer_active
          /\ CountRun(c)
          /\ Goto(c, IF Mode(c) \in Boosting THEN "sustained" ELSE "drop")
          /\ UNCHANGED << plan, gs, retry, leaked >>
    /\ UNCHANGED << timerVars, perf_owner, timer_active, timer_set,
                    boosted_config_ids, vote, phase, cb >>

(***************************************************************************)
(* SetSustainedPerformance, for a caller.  The boosted id is registered by *)
(* runs only.  IsTimerThreadRunning is true only while the timer counts    *)
(* down, and false even then when the time is just over or not a           *)
(* microsecond has passed.                                                 *)
(***************************************************************************)
IsTimerThreadRunning == IF thread_status = "LAUNCH" THEN BOOLEAN ELSE {FALSE}

SustainedNext(c, running) ==
    IF gs[c] = "DONE" /\ plan[c].flow = "init" THEN "apply"
    ELSE IF running THEN "abort"
    ELSE IF gs[c] = "DONE" THEN "launch" ELSE "apply"

SetSustainedPerformance(c) ==
    /\ pc[c] = "sustained"
    /\ LockPerf(c)
    /\ boosted_config_ids' = IF plan[c].flow = "run"
                             THEN boosted_config_ids \cup {Id(c)}
                             ELSE boosted_config_ids
    /\ \E running \in IsTimerThreadRunning : Goto(c, SustainedNext(c, running))
    /\ UNCHANGED << timerVars, inflight_run_count, timer_active, timer_set,
                    vote, phase, plan, gs, retry, leaked, cb >>

\* AbortTimer, called with perf_mutex_ held.  Its early return needs a
\* released timer, which a client in a call never meets.
SustainedAbort(c) ==
    /\ pc[c] = "abort"
    /\ AbortTimerStop(c)
    /\ Goto(c, "aborting")
    /\ UNCHANGED << perf_owner, inflight_run_count, timer_active, timer_set,
                    boosted_config_ids, vote, phase, plan, gs, retry, leaked, cb >>

SustainedAborted(c) ==
    /\ pc[c] = "aborting"
    /\ CallerReturn(c)
    /\ \/ /\ gs[c] = "DONE"
          /\ Goto(c, "launch")
          /\ UNCHANGED << perf_owner, plan, gs, retry, leaked >>
       \/ /\ gs[c] = "START"
          /\ UnlockPerf(c)
          /\ ReturnStatus(c, TRUE)
    /\ UNCHANGED << inflight_run_count, timer_active, timer_set,
                    boosted_config_ids, vote, phase, cb >>

\* (Re)arm the release timer; a refused Launch is only logged.
SustainedLaunch(c) ==
    /\ pc[c] = "launch"
    /\ LaunchAccepted \/ LaunchRefused
    /\ UnlockPerf(c)
    /\ ReturnStatus(c, TRUE)
    /\ UNCHANGED << inflight_run_count, timer_active, timer_set,
                    boosted_config_ids, vote, phase, cb >>

SustainedApply(c) ==
    /\ pc[c] = "apply"
    /\ UnlockPerf(c)
    /\ ApplyVote(c, IF gs[c] = "START" THEN Mode(c) ELSE "relaxed")
    /\ UNCHANGED << timerVars, inflight_run_count, timer_active, timer_set,
                    boosted_config_ids, phase, cb >>

(***************************************************************************)
(* AbortActiveTimerAndDropBoostedId, then SetPerformance: every other mode.*)
(***************************************************************************)
DropLock(c) ==
    /\ pc[c] = "drop"
    /\ LockPerf(c)
    /\ Goto(c, "drop2")
    /\ UNCHANGED << timerVars, inflight_run_count, timer_active, timer_set,
                    boosted_config_ids, vote, phase, plan, gs, retry, leaked, cb >>

DropBoostedId(c) ==
    /\ pc[c] = "drop2"
    /\ boosted_config_ids' = boosted_config_ids \ {Id(c)}
    /\ UnlockPerf(c)
    /\ Goto(c, "inuse")
    /\ UNCHANGED << timerVars, inflight_run_count, timer_active, timer_set,
                    vote, phase, plan, gs, retry, leaked, cb >>

\* The call is done with the timer: Default has nothing to apply.
AfterDrop(c) ==
    \/ /\ Mode(c) = "Default"
       /\ ReturnStatus(c, TRUE)
    \/ /\ Mode(c) # "Default"
       /\ Goto(c, "perf")
       /\ UNCHANGED << plan, gs, retry, leaked >>

DropNotInUse(c) ==
    /\ pc[c] = "inuse"
    /\ ~(timer_set /\ TimerInUse)
    /\ AfterDrop(c)
    /\ UNCHANGED << timerVars, perf_owner, inflight_run_count, timer_active,
                    timer_set, boosted_config_ids, vote, phase, cb >>

DropInUse(c) ==
    /\ pc[c] = "inuse"
    /\ timer_set /\ TimerInUse
    /\ Goto(c, "dropabort")
    /\ UNCHANGED << timerVars, perf_owner, inflight_run_count, timer_active,
                    timer_set, boosted_config_ids, vote, phase, plan, gs, retry,
                    leaked, cb >>

DropAbort(c) ==
    /\ pc[c] = "dropabort"
    /\ AbortTimerStop(c)
    /\ Goto(c, "dropaborting")
    /\ UNCHANGED << perf_owner, inflight_run_count, timer_active, timer_set,
                    boosted_config_ids, vote, phase, plan, gs, retry, leaked, cb >>

DropAborted(c) ==
    /\ pc[c] = "dropaborting"
    /\ CallerReturn(c)
    /\ AfterDrop(c)
    /\ UNCHANGED << perf_owner, inflight_run_count, timer_active, timer_set,
                    boosted_config_ids, vote, phase, cb >>

SetPerformance(c) ==
    /\ pc[c] = "perf"
    /\ LockPerf(c)
    /\ Goto(c, "perf2")
    /\ UNCHANGED << timerVars, inflight_run_count, timer_active, timer_set,
                    boosted_config_ids, vote, phase, plan, gs, retry, leaked, cb >>

SetPerformanceApply(c) ==
    /\ pc[c] = "perf2"
    /\ UnlockPerf(c)
    /\ ApplyVote(c, IF gs[c] = "START" THEN Mode(c) ELSE DoneVote(Mode(c)))
    /\ UNCHANGED << timerVars, inflight_run_count, timer_active, timer_set,
                    boosted_config_ids, phase, cb >>

SleepAgain(c) == CallerSleepAgain(c) /\ UNCHANGED powerVars

-----------------------------------------------------------------------------
(***************************************************************************)
(* TimerCallback -> SetState(TIMEOUT) -> SetSustainedPerformance, on the   *)
(* timer's thread.                                                         *)
(***************************************************************************)
CallbackUnchanged ==
    UNCHANGED << timerVars, inflight_run_count, timer_active, timer_set, phase,
                 clientVars >>

CallbackState ==
    /\ bkg = "calling" /\ cb = "none"
    /\ cb' = IF timer_active THEN "try" ELSE "done"
    /\ CallbackUnchanged
    /\ UNCHANGED << perf_owner, boosted_config_ids, vote >>

\* Mutant: the callback waits for perf_mutex_ instead of giving up.
CallbackLockBlocks ==
    /\ cb = "try"
    /\ LockPerf(Bkg) /\ cb' = "check"
    /\ CallbackUnchanged
    /\ UNCHANGED << boosted_config_ids, vote >>

CallbackTryLock ==
    /\ cb = "try"
    /\ \/ LockPerf(Bkg) /\ cb' = "check"
       \/ perf_owner # NoOwner /\ cb' = "done" /\ UNCHANGED perf_owner
    /\ CallbackUnchanged
    /\ UNCHANGED << boosted_config_ids, vote >>

\* Mutant: the callback relaxes whether or not runs are in flight.
CallbackCheckNoCount ==
    /\ cb = "check"
    /\ cb' = "relaxing"
    /\ CallbackUnchanged
    /\ UNCHANGED << perf_owner, boosted_config_ids, vote >>

CallbackCheck ==
    /\ cb = "check"
    /\ \/ inflight_run_count = 0 /\ cb' = "relaxing" /\ UNCHANGED perf_owner
       \/ inflight_run_count # 0 /\ cb' = "done" /\ UnlockPerf(Bkg)
    /\ CallbackUnchanged
    /\ UNCHANGED << boosted_config_ids, vote >>

\* Every boosted id is relaxed as far as the driver lets it, and forgotten.
CallbackRelax ==
    /\ cb = "relaxing"
    /\ \E done \in IF Outcomes = {"applied"} THEN {boosted_config_ids}
                                            ELSE SUBSET boosted_config_ids :
         vote' = [i \in Ids |-> IF i \in done THEN "relaxed" ELSE vote[i]]
    /\ boosted_config_ids' = {}
    /\ UnlockPerf(Bkg)
    /\ cb' = "done"
    /\ CallbackUnchanged

CallbackReturn ==
    /\ cb = "done"
    /\ BkgCallbackReturn
    /\ cb' = "none"
    /\ UNCHANGED << perf_owner, inflight_run_count, timer_active, timer_set,
                    boosted_config_ids, vote, phase, clientVars >>

Callback == CallbackState \/ CallbackTryLock \/ CallbackCheck
            \/ CallbackRelax \/ CallbackReturn

Background == BkgStep /\ UNCHANGED powerVars

-----------------------------------------------------------------------------
\* What a client does once it is in a call, apart from waiting for a mutex or
\* for the timer.
ClientStep(c) ==
    \/ CreateNoThread(c) \/ CreateThread(c) \/ SleepAgain(c)
    \/ DropBoostedPowerConfigId(c) \/ DestroyHtpPowerConfigId(c)
    \/ ReleaseMove(c) \/ ReleaseDeInitialize(c) \/ ReleaseJoin(c)
    \/ Finish(c) \/ SetState(c)
    \/ SustainedAbort(c) \/ SustainedLaunch(c) \/ SustainedApply(c)
    \/ DropBoostedId(c) \/ DropNotInUse(c) \/ DropInUse(c) \/ DropAbort(c)
    \/ SetPerformanceApply(c)

ClientLock(c) ==
    ReleaseLock(c) \/ SetSustainedPerformance(c) \/ DropLock(c) \/ SetPerformance(c)

ClientWoken(c) == CreateReturn(c) \/ SustainedAborted(c) \/ DropAborted(c)

ClientCall(c) ==
    CreateTimerThread(c) \/ DestroyLock(c) \/ ReleaseState(c) \/ Begin(c)

Next ==
    \/ \E c \in Clients : ClientCall(c) \/ ClientStep(c) \/ ClientLock(c)
                         \/ ClientWoken(c)
    \/ Background
    \/ Callback

(***************************************************************************)
(* Threads inside a call, the timer's thread and time itself go on; a      *)
(* thread is not starved of perf_mutex_ or of a wake-up for ever.  Nobody  *)
(* has to begin a call.                                                    *)
(***************************************************************************)
Fairness ==
    /\ WF_vars(Background)
    /\ WF_vars(Callback)
    /\ \A c \in Clients : /\ WF_vars(ClientStep(c))
                          /\ SF_vars(ClientLock(c))
                          /\ SF_vars(ClientWoken(c))

Spec == Init /\ [][Next]_vars
FairSpec == Spec /\ Fairness

-----------------------------------------------------------------------------
\* The work itself, between a start that voted for a mode and its end.
Executing(c) == pc[c] = "exec" /\ plan[c].start # "unset"

(***************************************************************************)
(* inflight_run_count_ is the number of runs and compilations in flight    *)
(* over all clients of the shared manager: no start or done is counted     *)
(* twice, lost or clamped away (SetState, 613-627).                        *)
(***************************************************************************)
CountMatchesRuns ==
    inflight_run_count = Cardinality({c \in Clients : InFlight(c)})

(***************************************************************************)
(* When no client is in a call, nothing is counted but the starts that no  *)
(* done call answers: every way out of a run or a compilation, the         *)
(* rejected start, the failed config and the destructor's second attempt   *)
(* included, gives the count back (the scope guard of qnn_model.cc:722-744,*)
(* HtpPowerStateGuard).  What is left over belongs to runs with a mode for *)
(* before the run and none for after it, or whose done call is rejected    *)
(* while their start was not; the comment at qnn_model.cc:722-732 does not *)
(* mention these.                                                          *)
(***************************************************************************)
NothingCountedAtRest ==
    (\A c \in Clients : pc[c] = "idle") => inflight_run_count <= leaked

(***************************************************************************)
(* "a still-running concurrent graph is never dropped to SVS               *)
(* mid-computation" (SetSustainedPerformance, 459-461): while the timer's  *)
(* callback relaxes the boosted ids, no client executes, although the      *)
(* callback reads the count before it relaxes and a start is counted       *)
(* before it waits for perf_mutex_.                                        *)
(***************************************************************************)
NeverDroppedMidRun ==
    cb = "relaxing" => \A c \in Clients : ~Executing(c)

(***************************************************************************)
(* "so the timer never relaxes a destroyed id" (~QnnEp,                    *)
(* qnn_execution_provider.cc:1752-1753): an id in boosted_config_ids_      *)
(* belongs to a session that lives.                                        *)
(***************************************************************************)
BoostedIdsAreLive == \A i \in boosted_config_ids : phase[i] # "none"

(***************************************************************************)
(* A client that aborts the timer while it holds perf_mutex_ and the       *)
(* callback that wants perf_mutex_ do not wait for each other, nor do two  *)
(* clients: every call of the manager returns (rules 1 to 3 of the         *)
(* concurrency contract, qnn_htp_power_config_manager.h:157-173).          *)
(***************************************************************************)
CallsComplete == \A c \in Clients : pc[c] # "idle" ~> pc[c] = "idle"

(***************************************************************************)
(* "contention means a run is either starting (we must not relax) or       *)
(* finishing (it will re-arm the timer), so skipping this relax is always  *)
(* safe" (432-434): when the clients have all stopped calling, the boosted *)
(* ids are relaxed in the end.                                             *)
(***************************************************************************)
BoostReleased ==
    <>[](\A c \in Clients : pc[c] = "idle") => []<>(boosted_config_ids = {})
=============================================================================
