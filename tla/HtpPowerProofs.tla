--------------------------- MODULE HtpPowerProofs ---------------------------
(***************************************************************************)
(* Proofs about the release timer and the power config manager, for any    *)
(* number of threads, sessions and perf modes.                             *)
(*   TimerInv of the timer alone, as TimerSystem uses it, with a release   *)
(*   at any moment: no wake-up is lost.                                    *)
(*   PowerInv, whatever fails: perf_mutex_ has the owner that the code     *)
(*   thinks it has, work happens inside the life of a session, and a       *)
(*   boosted id belongs to a session that lives.                           *)
(*   The count of runs in flight: bounded by the runs that still owe a     *)
(*   done call and the starts that none answers, whatever fails; exact     *)
(*   when the calls are paired, and then nothing executes while the timer  *)
(*   relaxes.                                                              *)
(***************************************************************************)
EXTENDS HtpPowerConfigManager, TimerSystem, FiniteSetTheorems, TLAPS

-----------------------------------------------------------------------------
(***************************************************************************)
(* The constructed timer satisfies the invariant.                          *)
(***************************************************************************)
LEMMA InitTimerInv == SystemInit => TimerInv
  BY BkgAssumption, Zenon
  DEF SystemInit, TimerInit, TimerInv, TypeOK, TimerTypeOK, NoLostWakeup,
      StatusTellsThread, threadState, BkgPc, Calls

(***************************************************************************)
(* Every step of the background thread, outside and at the end of the      *)
(* callback, keeps the invariant: each write that makes a caller's wait    *)
(* predicate true is followed by notify_all (timer.cc:22-64).              *)
(***************************************************************************)
LEMMA TimerThreadKeepsTimerInv ==
    TimerInv /\ TimerThread => TimerInv'
<1> SUFFICES ASSUME TimerInv, TimerThread PROVE TimerInv'
    OBVIOUS
<1> USE BkgAssumption DEF TimerInv, TypeOK, TimerTypeOK, NoLostWakeup,
        StatusTellsThread, threadState, BkgPc, Calls, NotifyAll, CallerWaitDone,
        IdleWaitDone, LaunchWaitDone, TimerThread
<1>1. CASE BkgStart
    BY <1>1 DEF BkgStart
<1>2. CASE BkgSleep
    BY <1>2 DEF BkgSleep
<1>3. CASE BkgExit
    BY <1>3, Zenon DEF BkgExit, BkgAwake
<1>4. CASE BkgStop
    BY <1>4, Zenon DEF BkgStop, BkgAwake
<1>5. CASE BkgCountDown
    BY <1>5 DEF BkgCountDown, BkgAwake
<1>6. CASE BkgSpin
    BY <1>6 DEF BkgSpin, BkgAwake
<1>7. CASE BkgElapsed
    BY <1>7 DEF BkgElapsed
<1>8. CASE BkgInterrupted
    BY <1>8, Zenon DEF BkgInterrupted
<1>9. CASE BkgCallbackReturn
    BY <1>9, Zenon DEF BkgCallbackReturn
<1> QED
    BY <1>1, <1>2, <1>3, <1>4, <1>5, <1>6, <1>7, <1>8, <1>9 DEF BkgStep

(***************************************************************************)
(* So does every step of a calling thread.                                 *)
(***************************************************************************)
LEMMA CallerKeepsTimerInv ==
    ASSUME NEW t \in Threads, TimerInv,
           Create(t) \/ Launch(t) \/ Abort(t) \/ Release(t) \/ CallerStep(t)
    PROVE  TimerInv'
<1> USE BkgAssumption DEF TimerInv, TypeOK, TimerTypeOK, NoLostWakeup,
        StatusTellsThread, threadState, BkgPc, Calls, NotifyAll, CallerWaitDone,
        IdleWaitDone, LaunchWaitDone
<1>1. CASE Create(t)
    <2>1. CASE InitializeStart(t)
        BY <1>1, <2>1 DEF Create, InitializeStart
    <2>2. CASE InitializeFail(t)
        BY <1>1, <2>2 DEF Create, InitializeFail
    <2> QED
        BY <1>1, <2>1, <2>2 DEF Create
<1>2. CASE Launch(t)
    <2>1. CASE LaunchAccepted
        BY <1>2, <2>1 DEF Launch, LaunchAccepted
    <2>2. CASE LaunchRefused
        BY <1>2, <2>2 DEF Launch, LaunchRefused, timerVars
    <2> QED
        BY <1>2, <2>1, <2>2 DEF Launch
<1>3. CASE Abort(t)
    <2>1. CASE AbortTimerSkip
        BY <1>3, <2>1 DEF Abort, AbortTimerSkip, timerVars
    <2>2. CASE AbortTimerStop(t)
        BY <1>3, <2>2 DEF Abort, AbortTimerStop, NoRunningThread
    <2> QED
        BY <1>3, <2>1, <2>2 DEF Abort
<1>4. CASE Release(t)
    BY <1>4, Zenon DEF Release, DeInitializeStart
<1>5. CASE Publish(t)
    BY <1>5 DEF Publish, CallerReturn
<1>8. CASE AbortReturn(t)
    BY <1>8 DEF AbortReturn, CallerReturn
<1>6. CASE WaitAgain(t)
    BY <1>6 DEF WaitAgain, CallerSleepAgain
<1>7. CASE ReleaseReturn(t)
    BY <1>7 DEF ReleaseReturn, DeInitializeJoin
<1> QED
    BY <1>1, <1>2, <1>3, <1>4, <1>5, <1>6, <1>7, <1>8 DEF CallerStep

(***************************************************************************)
(* The invariant of the release timer holds in every reachable state, for  *)
(* any set of calling threads and with a release at any moment.            *)
(***************************************************************************)
THEOREM TimerInvHolds == SystemSpec => []TimerInv
<1>1. TimerInv /\ [SystemNext]_systemVars => TimerInv'
    <2> SUFFICES ASSUME TimerInv, [SystemNext]_systemVars PROVE TimerInv'
        OBVIOUS
    <2>1. CASE UNCHANGED systemVars
        BY <2>1 DEF systemVars, timerVars, TimerInv, TypeOK, TimerTypeOK,
            NoLostWakeup, StatusTellsThread, CallerWaitDone, IdleWaitDone,
            LaunchWaitDone
    <2> QED
        BY <2>1, TimerThreadKeepsTimerInv, CallerKeepsTimerInv DEF SystemNext
<1> QED
    BY <1>1, InitTimerInv, PTL DEF SystemSpec

(***************************************************************************)
(* No thread asleep on cv_ has a true predicate: no wake-up of the release *)
(* timer is lost (timer.h:54, timer.cc:13, 26, 46, 59, 93).                *)
(***************************************************************************)
THEOREM NoLostWakeupHolds == SystemSpec => []NoLostWakeup
<1>1. TimerInv => NoLostWakeup
    BY DEF TimerInv
<1> QED
    BY <1>1, TimerInvHolds, PTL

-----------------------------------------------------------------------------
\* Leaves are for Zenon unless they name another prover.
USE Zenon

\* Where a client holds perf_mutex_.
Locked == {"create", "creating", "destroy", "release2", "abort", "aborting",
           "launch", "apply", "drop2", "perf2"}

\* Where it is in a run or in a compilation.
Working == {"state", "sustained", "abort", "aborting", "launch", "apply",
            "drop", "drop2", "inuse", "dropabort", "dropaborting", "perf",
            "perf2", "exec"}

Ending == {"destroy", "destroying"}
ReleasePcs == {"release", "release2", "release3", "release4"}
Pcs == {"idle", "create", "creating"} \cup Ending \cup ReleasePcs \cup Working

PlanModes == Modes \cup {"unset"}
Plans == [flow : {"run", "init"}, start : PlanModes, done : PlanModes]

\* What a client may be doing, for which run, in which half.
ClientTypeOK ==
    /\ pc \in [Clients -> Pcs]
    /\ plan \in [Clients -> Plans]
    /\ gs \in [Clients -> {"START", "DONE"}]
    /\ retry \in [Clients -> BOOLEAN]
    /\ phase \in [Ids -> {"none", "live", "running"}]
    /\ inflight_run_count \in Nat
    /\ timer_active \in BOOLEAN
    /\ timer_set \in BOOLEAN
    /\ perf_owner \in Clients \cup {Bkg, NoOwner}
    /\ cb \in {"none", "try", "check", "relaxing", "done"}

\* perf_mutex_ has the owner that the program counters say.
LockInv ==
    /\ \A c \in Clients : perf_owner = c <=> pc[c] \in Locked
    /\ perf_owner = Bkg <=> cb \in {"check", "relaxing"}

\* A session that works, lives; one that ends does nothing else.
SessionInv ==
    /\ \A c \in Clients : pc[c] \in Working => phase[Id(c)] # "none"
    /\ \A c \in Clients : pc[c] \in Ending =>
         \A d \in Siblings(c) \ {c} : pc[d] = "idle"
    /\ \A c \in Clients : pc[c] = "destroying" => Id(c) \notin boosted_config_ids
    /\ BoostedIdsAreLive

\* The half of a run that a client is in, and what it was asked for.
PlanInv ==
    \A c \in Clients :
        /\ pc[c] \notin Working => gs[c] = "START"
        /\ pc[c] = "exec" => gs[c] = "START"
        /\ pc[c] = "launch" => gs[c] = "DONE"
        /\ pc[c] \in Working \ {"exec"} => Mode(c) # "unset"
        /\ pc[c] \in Working => plan[c] \in RunPlans \cup InitPlans

\* The timer is released when everyone else is idle and no session is left.
ReleaseInv ==
    \A c \in Clients : pc[c] \in ReleasePcs =>
        /\ \A d \in Clients \ {c} : pc[d] = "idle"
        /\ \A i \in Ids : phase[i] = "none"

PowerInv == ClientTypeOK /\ LockInv /\ SessionInv /\ PlanInv /\ ReleaseInv

-----------------------------------------------------------------------------
\* Client c goes on at l, with the plan p, in the half g of it.
Moves(c, l, p, g) ==
    /\ pc' = [pc EXCEPT ![c] = l]
    /\ plan' = [plan EXCEPT ![c] = p]
    /\ gs' = [gs EXCEPT ![c] = g]

\* How a call returns: into the work, into the done call, or out of it.
Returns(c) ==
    \/ gs[c] = "START" /\ Moves(c, "exec", plan[c], "START")
    \/ plan[c].done # "unset" /\ Moves(c, "state", plan[c], "DONE")
    \/ Moves(c, "idle", NoPlan, "START")

(***************************************************************************)
(* What GetPerThreadHtpPowerConfigs makes of the run options is a plan.    *)
(***************************************************************************)
LEMMA PlanTypes ==
    /\ RunPlans \subseteq Plans
    /\ InitPlans \subseteq Plans
    /\ NoPlan \in Plans
  BY PowerAssumption, SMT DEF RunPlans, InitPlans, NoPlan, Plans, PlanModes,
     PlanOf,
     ModeOr, SessionMode, Options

(***************************************************************************)
(* The done call is made, or the mode is unset and the client is done.     *)
(***************************************************************************)
LEMMA BeginDoneReturns ==
    ASSUME ClientTypeOK, NEW c \in Clients, NEW last \in BOOLEAN, BeginDone(c, last)
    PROVE  Returns(c) /\ retry' \in [Clients -> BOOLEAN]
<1>1. plan = [plan EXCEPT ![c] = plan[c]]
    BY DEF ClientTypeOK
<1> QED
    BY <1>1, ZenonT(40) DEF BeginDone, BecomeIdle, Goto, Returns, Moves,
       ClientTypeOK

(***************************************************************************)
(* A call of SetState that returns leads into the work, into the done call *)
(* or out of it; into the work only with a good status.                    *)
(***************************************************************************)
LEMMA ReturnStatusReturns ==
    ASSUME ClientTypeOK, NEW c \in Clients, NEW s \in BOOLEAN, ReturnStatus(c, s)
    PROVE  /\ Returns(c) /\ retry' \in [Clients -> BOOLEAN]
           /\ pc'[c] = "exec" => s
<1>1. /\ plan = [plan EXCEPT ![c] = plan[c]]
      /\ gs = [gs EXCEPT ![c] = gs[c]]
      /\ pc[c] \in Pcs
    BY DEF ClientTypeOK
<1>2. CASE BeginDone(c, TRUE)
    <2>1. pc'[c] # "exec"
        BY <1>2, <1>1 DEF BeginDone, BecomeIdle, Goto, ClientTypeOK
    <2> QED
        BY <1>2, <2>1, BeginDoneReturns
<1>3. CASE gs[c] = "START" /\ s /\ Goto(c, "exec") /\ UNCHANGED << plan, gs, retry, leaked >>
    BY <1>1, <1>3 DEF Returns, Moves, Goto, ClientTypeOK
<1>4. CASE BecomeIdle(c)
    BY <1>1, <1>4 DEF BecomeIdle, Returns, Moves, Goto, ClientTypeOK
<1> QED
    BY <1>2, <1>3, <1>4 DEF ReturnStatus

-----------------------------------------------------------------------------
(***************************************************************************)
(* The same of the steps that always end a call.                           *)
(***************************************************************************)
LEMMA WorkReturns ==
    ASSUME ClientTypeOK, NEW c \in Clients,
           \/ Finish(c) \/ SustainedLaunch(c) \/ SustainedApply(c)
           \/ SetPerformanceApply(c)
    PROVE  Returns(c) /\ retry' \in [Clients -> BOOLEAN]
<1>1. CASE Finish(c)
    BY <1>1, BeginDoneReturns DEF Finish
<1>2. CASE SustainedLaunch(c)
    BY <1>2, ReturnStatusReturns DEF SustainedLaunch
<1>3. CASE SustainedApply(c)
    BY <1>3, ReturnStatusReturns DEF SustainedApply, ApplyVote
<1>4. CASE SetPerformanceApply(c)
    BY <1>4, ReturnStatusReturns DEF SetPerformanceApply, ApplyVote
<1> QED
    BY <1>1, <1>2, <1>3, <1>4

\* The steps of a run that may end a call of SetState, or the work itself.
Returning(c) ==
    \/ Finish(c) \/ SetState(c) \/ SustainedAborted(c) \/ SustainedLaunch(c)
    \/ SustainedApply(c) \/ DropNotInUse(c) \/ DropAborted(c)
    \/ SetPerformanceApply(c)

\* The client gives perf_mutex_ back, or holds it exactly as before.
KeepsLock(c) ==
    \/ UnlockPerf(c) /\ pc[c] \in Locked /\ pc'[c] \notin Locked
    \/ UNCHANGED perf_owner /\ (pc[c] \in Locked <=> pc'[c] \in Locked)

\* The client goes on in the same half of the same plan.
Onward(c) ==
    \/ \E l \in {"sustained", "drop", "perf"} : Moves(c, l, plan[c], gs[c])
    \/ gs[c] = "DONE" /\ Moves(c, "launch", plan[c], gs[c])

ReturnFrame == UNCHANGED << phase, boosted_config_ids, timer_active, timer_set, cb >>

(***************************************************************************)
(* What such a step changes: the client goes on or returns, and gives      *)
(* perf_mutex_ back where it held it.                                      *)
(***************************************************************************)
LEMMA ReturningSteps ==
    ASSUME ClientTypeOK, NEW c \in Clients, Returning(c)
    PROVE  /\ pc[c] \in Working
           /\ \/ Returns(c)
              \/ /\ pc[c] # "exec"
                 /\ Onward(c)
           /\ KeepsLock(c)
           /\ inflight_run_count' \in Nat
           /\ retry' \in [Clients -> BOOLEAN]
           /\ ReturnFrame
<1>0. /\ plan = [plan EXCEPT ![c] = plan[c]]
      /\ gs = [gs EXCEPT ![c] = gs[c]]
      /\ pc \in [Clients -> Pcs]
      /\ inflight_run_count \in Nat
      /\ retry \in [Clients -> BOOLEAN]
    BY DEF ClientTypeOK
<1>r. Returns(c) => pc'[c] \notin Locked
    BY <1>0 DEF Returns, Onward, Moves, Locked
<1> USE DEF KeepsLock, ReturnFrame
<1>1. CASE Finish(c)
    BY <1>0, <1>1, <1>r, BeginDoneReturns DEF Finish, Working, Locked
<1>2. CASE SetState(c)
    <2>1. CASE ReturnStatus(c, FALSE) /\ UNCHANGED inflight_run_count
        BY <1>0, <1>2, <1>r, <2>1, ReturnStatusReturns DEF SetState, Working,
           Locked
    <2>2. CASE CountRun(c) /\ Goto(c, IF Mode(c) \in Boosting THEN "sustained" ELSE "drop")
               /\ UNCHANGED << plan, gs, retry, leaked >>
        <3>1. inflight_run_count' \in Nat
            BY <1>0, <2>2, SMT DEF CountRun
        <3>2. \E l \in {"sustained", "drop"} : Moves(c, l, plan[c], gs[c])
            BY <1>0, <2>2 DEF Goto, Moves
        <3>3. pc[c] = "state" /\ UNCHANGED << phase, boosted_config_ids, timer_active,
                                            timer_set, cb, perf_owner >>
            BY <1>2 DEF SetState
        <3> QED
            BY <1>0, <2>2, <3>1, <3>2, <3>3 DEF Onward, Moves, Working, Locked
    <2> QED
        BY <1>2, <2>1, <2>2 DEF SetState
<1>3. CASE SustainedAborted(c)
    <2>1. CASE gs[c] = "DONE" /\ Goto(c, "launch") /\ UNCHANGED << perf_owner, plan, gs, retry, leaked >>
        BY <1>0, <1>3, <2>1 DEF SustainedAborted, Goto, Onward, Moves, Working,
           Locked
    <2>2. CASE UnlockPerf(c) /\ ReturnStatus(c, TRUE)
        BY <1>0, <1>3, <1>r, <2>2, ReturnStatusReturns
        DEF SustainedAborted, Working, Locked
    <2> QED
        BY <1>3, <2>1, <2>2 DEF SustainedAborted
<1>4. CASE SustainedLaunch(c)
    BY <1>0, <1>4, <1>r, WorkReturns DEF SustainedLaunch, Working, Locked
<1>5. CASE SustainedApply(c)
    BY <1>0, <1>5, <1>r, WorkReturns DEF SustainedApply, Working, Locked
<1>6. CASE DropNotInUse(c) \/ DropAborted(c)
    <2>0. /\ pc[c] \in {"inuse", "dropaborting"}
          /\ AfterDrop(c)
          /\ UNCHANGED << perf_owner, inflight_run_count, timer_active, timer_set,
                          boosted_config_ids, phase, cb >>
        BY <1>6 DEF DropNotInUse, DropAborted
    <2>1. CASE ReturnStatus(c, TRUE)
        BY <1>0, <1>r, <2>0, <2>1, ReturnStatusReturns DEF Working, Locked
    <2>2. CASE Goto(c, "perf") /\ UNCHANGED << plan, gs, retry, leaked >>
        BY <1>0, <2>0, <2>2 DEF Goto, Onward, Moves, Working, Locked
    <2> QED
        BY <2>0, <2>1, <2>2 DEF AfterDrop
<1>7. CASE SetPerformanceApply(c)
    BY <1>0, <1>7, <1>r, WorkReturns DEF SetPerformanceApply, Working, Locked
<1> QED
    BY <1>1, <1>2, <1>3, <1>4, <1>5, <1>6, <1>7 DEF Returning

(***************************************************************************)
(* It keeps the invariant.                                                 *)
(***************************************************************************)
LEMMA ReturningKeepsPowerInv ==
    ASSUME PowerInv, NEW c \in Clients, Returning(c)
    PROVE  PowerInv'
<1>0. ClientTypeOK
    BY DEF PowerInv
<1>1. /\ pc[c] \in Working
      /\ Returns(c) \/ (pc[c] # "exec" /\ Onward(c))
      /\ KeepsLock(c)
      /\ inflight_run_count' \in Nat
      /\ retry' \in [Clients -> BOOLEAN]
      /\ ReturnFrame
    BY <1>0, ReturningSteps
<1>2. /\ pc'[c] \in Working \cup {"idle"}
      /\ pc' = [pc EXCEPT ![c] = pc'[c]]
    BY <1>0, <1>1 DEF Returns, Onward, Moves, ClientTypeOK, Working
<1>3. ClientTypeOK'
    <2>1. pc' \in [Clients -> Pcs] /\ plan' \in [Clients -> Plans]
          /\ gs' \in [Clients -> {"START", "DONE"}]
        BY <1>0, <1>1, PlanTypes, SMT
        DEF Returns, Onward, Moves, ClientTypeOK, Pcs, Working
    <2>2. perf_owner' \in Clients \cup {Bkg, NoOwner}
        BY <1>0, <1>1 DEF KeepsLock, UnlockPerf, ClientTypeOK
    <2> QED
        BY <1>0, <1>1, <2>1, <2>2 DEF ClientTypeOK, ReturnFrame
<1>4. LockInv'
    BY <1>0, <1>1, <1>2, PowerAssumption, BkgAssumption, SMT
    DEF PowerInv, LockInv, KeepsLock, ReturnFrame, ClientTypeOK, UnlockPerf,
        Clients
<1>5. SessionInv'
    BY <1>0, <1>1, <1>2, SMT
    DEF PowerInv, SessionInv, ReturnFrame, ClientTypeOK, Siblings, Id, Working,
        Ending, BoostedIdsAreLive
<1>6. PlanInv'
    BY <1>0, <1>1, SMT
    DEF PowerInv, PlanInv, ClientTypeOK, Returns, Onward, Moves, Mode, Working
<1>7. ReleaseInv'
    BY <1>0, <1>1, <1>2
    DEF PowerInv, ReleaseInv, ReturnFrame, ClientTypeOK, ReleasePcs, Working
<1> QED
    BY <1>3, <1>4, <1>5, <1>6, <1>7 DEF PowerInv

(***************************************************************************)
(* So do the timer's thread and its callback, which holds perf_mutex_ from *)
(* the try_lock to the end of the relaxation (432-488).                    *)
(***************************************************************************)
LEMMA BackgroundKeepsPowerInv ==
    ASSUME PowerInv, Background \/ Callback
    PROVE  PowerInv'
<1>1. CASE UNCHANGED powerVars
    BY <1>1
    DEF powerVars, clientVars, PowerInv, ClientTypeOK, LockInv, SessionInv,
       PlanInv,
        ReleaseInv, BoostedIdsAreLive, Mode
<1>2. CASE Callback
    <2>1. /\ UNCHANGED << inflight_run_count, timer_active, timer_set, phase, pc, plan, gs, retry >>
          /\ boosted_config_ids' \subseteq boosted_config_ids
        BY <1>2 DEF Callback, CallbackState, CallbackTryLock, CallbackCheck,
             CallbackRelax, CallbackReturn, CallbackUnchanged, clientVars
    <2>2. SessionInv' /\ PlanInv' /\ ReleaseInv'
        BY <2>1 DEF PowerInv, SessionInv, PlanInv, ReleaseInv,
           BoostedIdsAreLive, Mode
    <2>3. LockInv' /\ cb' \in {"none", "try", "check", "relaxing", "done"}
          /\ perf_owner' \in Clients \cup {Bkg, NoOwner}
        BY <1>2, <2>1, PowerAssumption, BkgAssumption, SMT
        DEF PowerInv, LockInv, Callback, CallbackState, CallbackTryLock,
            CallbackCheck, CallbackRelax, CallbackReturn, LockPerf, UnlockPerf,
            Clients, ClientTypeOK
    <2> QED
        BY <2>1, <2>2, <2>3 DEF PowerInv, ClientTypeOK
<1> QED
    BY <1>1, <1>2 DEF Background

\* The other steps of a client.
Other(c) ==
    \/ CreateTimerThread(c) \/ CreateNoThread(c) \/ CreateThread(c)
    \/ CreateReturn(c) \/ DestroyLock(c) \/ DropBoostedPowerConfigId(c)
    \/ DestroyHtpPowerConfigId(c) \/ ReleaseState(c) \/ ReleaseLock(c)
    \/ ReleaseMove(c) \/ ReleaseDeInitialize(c) \/ ReleaseJoin(c) \/ Begin(c)
    \/ SetSustainedPerformance(c) \/ SustainedAbort(c) \/ DropLock(c)
    \/ DropBoostedId(c) \/ DropInUse(c) \/ DropAbort(c) \/ SetPerformance(c)
    \/ SleepAgain(c)

(***************************************************************************)
(* The other steps of a client keep the types.                             *)
(***************************************************************************)
LEMMA OtherClientTypeOK ==
    ASSUME PowerInv, NEW c \in Clients, Other(c)
    PROVE  ClientTypeOK'
<1> USE PowerAssumption, BkgAssumption, PlanTypes DEF PowerInv, ClientTypeOK,
   Goto, LockPerf, UnlockPerf, Id, Pcs, Working, Ending, ReleasePcs
<1>1. CASE CreateTimerThread(c)
    BY <1>1 DEF CreateTimerThread
<1>2. CASE CreateNoThread(c)
    BY <1>2 DEF CreateNoThread
<1>3. CASE CreateThread(c)
    BY <1>3 DEF CreateThread, InitializeStart
<1>4. CASE CreateReturn(c)
    BY <1>4 DEF CreateReturn, CallerReturn
<1>5. CASE DestroyLock(c)
    BY <1>5 DEF DestroyLock
<1>6. CASE DropBoostedPowerConfigId(c)
    BY <1>6 DEF DropBoostedPowerConfigId
<1>7. CASE DestroyHtpPowerConfigId(c)
    BY <1>7 DEF DestroyHtpPowerConfigId
<1>8. CASE ReleaseState(c)
    BY <1>8 DEF ReleaseState
<1>9. CASE ReleaseLock(c)
    BY <1>9 DEF ReleaseLock
<1>10. CASE ReleaseMove(c)
    BY <1>10 DEF ReleaseMove
<1>11. CASE ReleaseDeInitialize(c)
    BY <1>11 DEF ReleaseDeInitialize
<1>12. CASE ReleaseJoin(c)
    BY <1>12 DEF ReleaseJoin
<1>13. CASE Begin(c)
    BY <1>13, SMT DEF Begin, Siblings
<1>14. CASE SetSustainedPerformance(c)
    BY <1>14 DEF SetSustainedPerformance, SustainedNext
<1>15. CASE SustainedAbort(c)
    BY <1>15 DEF SustainedAbort
<1>16. CASE DropLock(c)
    BY <1>16 DEF DropLock
<1>17. CASE DropBoostedId(c)
    BY <1>17 DEF DropBoostedId
<1>18. CASE DropInUse(c)
    BY <1>18 DEF DropInUse
<1>19. CASE DropAbort(c)
    BY <1>19 DEF DropAbort
<1>20. CASE SetPerformance(c)
    BY <1>20 DEF SetPerformance
<1>21. CASE SleepAgain(c)
    BY <1>21 DEF SleepAgain, powerVars, clientVars
<1> QED
    BY <1>1, <1>2, <1>3, <1>4, <1>5, <1>6, <1>7, <1>8, <1>9, <1>10, <1>11,
       <1>12, <1>13, <1>14, <1>15, <1>16, <1>17, <1>18, <1>19, <1>20, <1>21 DEF
       Other

(***************************************************************************)
(* They keep perf_mutex_ with the owner that the program counters say.     *)
(***************************************************************************)
LEMMA OtherLockInv ==
    ASSUME PowerInv, NEW c \in Clients, Other(c)
    PROVE  LockInv'
<1> USE PowerAssumption, BkgAssumption, PlanTypes DEF PowerInv, Clients,
   Siblings, Id, ClientTypeOK, LockInv, Goto, LockPerf, UnlockPerf, Locked
<1>1. CASE CreateTimerThread(c)
    BY <1>1, SMT DEF CreateTimerThread
<1>2. CASE CreateNoThread(c)
    BY <1>2 DEF CreateNoThread
<1>3. CASE CreateThread(c)
    BY <1>3 DEF CreateThread, InitializeStart
<1>4. CASE CreateReturn(c)
    BY <1>4 DEF CreateReturn, CallerReturn
<1>5. CASE DestroyLock(c)
    BY <1>5 DEF DestroyLock
<1>6. CASE DropBoostedPowerConfigId(c)
    BY <1>6 DEF DropBoostedPowerConfigId
<1>7. CASE DestroyHtpPowerConfigId(c)
    BY <1>7 DEF DestroyHtpPowerConfigId
<1>8. CASE ReleaseState(c)
    BY <1>8 DEF ReleaseState
<1>9. CASE ReleaseLock(c)
    BY <1>9 DEF ReleaseLock
<1>10. CASE ReleaseMove(c)
    BY <1>10 DEF ReleaseMove
<1>11. CASE ReleaseDeInitialize(c)
    BY <1>11 DEF ReleaseDeInitialize
<1>12. CASE ReleaseJoin(c)
    BY <1>12 DEF ReleaseJoin
<1>13. CASE Begin(c)
    BY <1>13, SMT DEF Begin, Siblings
<1>14. CASE SetSustainedPerformance(c)
    BY <1>14 DEF SetSustainedPerformance, SustainedNext
<1>15. CASE SustainedAbort(c)
    BY <1>15 DEF SustainedAbort
<1>16. CASE DropLock(c)
    BY <1>16 DEF DropLock
<1>17. CASE DropBoostedId(c)
    BY <1>17 DEF DropBoostedId
<1>18. CASE DropInUse(c)
    BY <1>18 DEF DropInUse
<1>19. CASE DropAbort(c)
    BY <1>19 DEF DropAbort
<1>20. CASE SetPerformance(c)
    BY <1>20 DEF SetPerformance
<1>21. CASE SleepAgain(c)
    BY <1>21 DEF SleepAgain, powerVars, clientVars
<1> QED
    BY <1>1, <1>2, <1>3, <1>4, <1>5, <1>6, <1>7, <1>8, <1>9, <1>10, <1>11,
       <1>12, <1>13, <1>14, <1>15, <1>16, <1>17, <1>18, <1>19, <1>20, <1>21
       DEF Other

(***************************************************************************)
(* They keep work inside the life of a session, and the boosted ids to     *)
(* sessions that live.                                                     *)
(***************************************************************************)
LEMMA OtherSessionInv ==
    ASSUME PowerInv, NEW c \in Clients, Other(c)
    PROVE  SessionInv'
<1> USE PowerAssumption, BkgAssumption, PlanTypes DEF PowerInv, ClientTypeOK,
   SessionInv, ReleaseInv, BoostedIdsAreLive, Goto, Siblings, Id, Working,
   Ending, ReleasePcs
<1>1. CASE CreateTimerThread(c)
    BY <1>1, SMT DEF CreateTimerThread
<1>2. CASE CreateNoThread(c)
    BY <1>2, SMT DEF CreateNoThread
<1>3. CASE CreateThread(c)
    BY <1>3, SMT DEF CreateThread, InitializeStart
<1>4. CASE CreateReturn(c)
    BY <1>4, SMT DEF CreateReturn, CallerReturn
<1>5. CASE DestroyLock(c)
    BY <1>5, SMT DEF DestroyLock
<1>6. CASE DropBoostedPowerConfigId(c)
    BY <1>6, SMT DEF DropBoostedPowerConfigId
<1>7. CASE DestroyHtpPowerConfigId(c)
    BY <1>7, SMT DEF DestroyHtpPowerConfigId
<1>8. CASE ReleaseState(c)
    BY <1>8, SMT DEF ReleaseState
<1>9. CASE ReleaseLock(c)
    BY <1>9, SMT DEF ReleaseLock
<1>10. CASE ReleaseMove(c)
    BY <1>10, SMT DEF ReleaseMove
<1>11. CASE ReleaseDeInitialize(c)
    BY <1>11, SMT DEF ReleaseDeInitialize
<1>12. CASE ReleaseJoin(c)
    BY <1>12, SMT DEF ReleaseJoin
<1>13. CASE Begin(c)
    BY <1>13, SMT DEF Begin, Siblings
<1>14. CASE SetSustainedPerformance(c)
    BY <1>14, SMT DEF SetSustainedPerformance, SustainedNext
<1>15. CASE SustainedAbort(c)
    BY <1>15, SMT DEF SustainedAbort
<1>16. CASE DropLock(c)
    BY <1>16, SMT DEF DropLock
<1>17. CASE DropBoostedId(c)
    BY <1>17, SMT DEF DropBoostedId
<1>18. CASE DropInUse(c)
    BY <1>18, SMT DEF DropInUse
<1>19. CASE DropAbort(c)
    BY <1>19, SMT DEF DropAbort
<1>20. CASE SetPerformance(c)
    BY <1>20, SMT DEF SetPerformance
<1>21. CASE SleepAgain(c)
    BY <1>21 DEF SleepAgain, powerVars, clientVars
<1> QED
    BY <1>1, <1>2, <1>3, <1>4, <1>5, <1>6, <1>7, <1>8, <1>9, <1>10, <1>11,
       <1>12, <1>13, <1>14, <1>15, <1>16, <1>17, <1>18, <1>19, <1>20, <1>21
       DEF Other

(***************************************************************************)
(* They keep the half of the run that a client is in.                      *)
(***************************************************************************)
LEMMA OtherPlanInv ==
    ASSUME PowerInv, NEW c \in Clients, Other(c)
    PROVE  PlanInv'
<1> USE PowerAssumption, BkgAssumption, PlanTypes DEF PowerInv, ClientTypeOK,
   PlanInv, Goto, Mode, Working, Siblings, Id
<1>1. CASE CreateTimerThread(c)
    BY <1>1, SMT DEF CreateTimerThread
<1>2. CASE CreateNoThread(c)
    BY <1>2 DEF CreateNoThread
<1>3. CASE CreateThread(c)
    BY <1>3 DEF CreateThread, InitializeStart
<1>4. CASE CreateReturn(c)
    BY <1>4 DEF CreateReturn, CallerReturn
<1>5. CASE DestroyLock(c)
    BY <1>5, SMT DEF DestroyLock
<1>6. CASE DropBoostedPowerConfigId(c)
    BY <1>6 DEF DropBoostedPowerConfigId
<1>7. CASE DestroyHtpPowerConfigId(c)
    BY <1>7 DEF DestroyHtpPowerConfigId
<1>8. CASE ReleaseState(c)
    BY <1>8, SMT DEF ReleaseState
<1>9. CASE ReleaseLock(c)
    BY <1>9 DEF ReleaseLock
<1>10. CASE ReleaseMove(c)
    BY <1>10 DEF ReleaseMove
<1>11. CASE ReleaseDeInitialize(c)
    BY <1>11, SMT DEF ReleaseDeInitialize
<1>12. CASE ReleaseJoin(c)
    BY <1>12 DEF ReleaseJoin
<1>13. CASE Begin(c)
    BY <1>13, SMT DEF Begin, Siblings
<1>14. CASE SetSustainedPerformance(c)
    BY <1>14, SMT DEF SetSustainedPerformance, SustainedNext
<1>15. CASE SustainedAbort(c)
    BY <1>15, SMT DEF SustainedAbort
<1>16. CASE DropLock(c)
    BY <1>16 DEF DropLock
<1>17. CASE DropBoostedId(c)
    BY <1>17 DEF DropBoostedId
<1>18. CASE DropInUse(c)
    BY <1>18 DEF DropInUse
<1>19. CASE DropAbort(c)
    BY <1>19 DEF DropAbort
<1>20. CASE SetPerformance(c)
    BY <1>20, SMT DEF SetPerformance
<1>21. CASE SleepAgain(c)
    BY <1>21 DEF SleepAgain, powerVars, clientVars
<1> QED
    BY <1>1, <1>2, <1>3, <1>4, <1>5, <1>6, <1>7, <1>8, <1>9, <1>10, <1>11,
       <1>12, <1>13, <1>14, <1>15, <1>16, <1>17, <1>18, <1>19, <1>20, <1>21
       DEF Other

(***************************************************************************)
(* They leave the release of the timer alone.                              *)
(***************************************************************************)
LEMMA OtherReleaseInv ==
    ASSUME PowerInv, NEW c \in Clients, Other(c)
    PROVE  ReleaseInv'
<1> USE PowerAssumption, BkgAssumption, PlanTypes DEF PowerInv, ClientTypeOK,
   ReleaseInv, SessionInv, Goto, Releasing, Siblings, Id, Working, Ending,
   ReleasePcs
<1>1. CASE CreateTimerThread(c)
    BY <1>1 DEF CreateTimerThread
<1>2. CASE CreateNoThread(c)
    BY <1>2, SMT DEF CreateNoThread
<1>3. CASE CreateThread(c)
    BY <1>3 DEF CreateThread, InitializeStart
<1>4. CASE CreateReturn(c)
    BY <1>4, SMT DEF CreateReturn, CallerReturn
<1>5. CASE DestroyLock(c)
    BY <1>5, SMT DEF DestroyLock
<1>6. CASE DropBoostedPowerConfigId(c)
    BY <1>6, SMT DEF DropBoostedPowerConfigId
<1>7. CASE DestroyHtpPowerConfigId(c)
    BY <1>7, SMT DEF DestroyHtpPowerConfigId
<1>8. CASE ReleaseState(c)
    BY <1>8, SMT DEF ReleaseState
<1>9. CASE ReleaseLock(c)
    BY <1>9, SMT DEF ReleaseLock
<1>10. CASE ReleaseMove(c)
    BY <1>10, SMT DEF ReleaseMove
<1>11. CASE ReleaseDeInitialize(c)
    BY <1>11, SMT DEF ReleaseDeInitialize
<1>12. CASE ReleaseJoin(c)
    BY <1>12, SMT DEF ReleaseJoin
<1>13. CASE Begin(c)
    BY <1>13, SMT DEF Begin, Siblings
<1>14. CASE SetSustainedPerformance(c)
    BY <1>14, SMT DEF SetSustainedPerformance, SustainedNext
<1>15. CASE SustainedAbort(c)
    BY <1>15, SMT DEF SustainedAbort
<1>16. CASE DropLock(c)
    BY <1>16 DEF DropLock
<1>17. CASE DropBoostedId(c)
    BY <1>17, SMT DEF DropBoostedId
<1>18. CASE DropInUse(c)
    BY <1>18, SMT DEF DropInUse
<1>19. CASE DropAbort(c)
    BY <1>19 DEF DropAbort
<1>20. CASE SetPerformance(c)
    BY <1>20 DEF SetPerformance
<1>21. CASE SleepAgain(c)
    BY <1>21 DEF SleepAgain, powerVars, clientVars
<1> QED
    BY <1>1, <1>2, <1>3, <1>4, <1>5, <1>6, <1>7, <1>8, <1>9, <1>10, <1>11,
       <1>12, <1>13, <1>14, <1>15, <1>16, <1>17, <1>18, <1>19, <1>20, <1>21
       DEF Other

(***************************************************************************)
(* Every step is one of these.                                             *)
(***************************************************************************)
LEMMA StepKinds ==
    ASSUME Next
    PROVE  Background \/ Callback \/ \E c \in Clients : Other(c) \/ Returning(c)
  BY DEF Next, ClientCall, ClientStep, ClientLock, ClientWoken, Other, Returning

(***************************************************************************)
(* The invariant of the manager holds in every reachable state, whatever   *)
(* fails and whatever the runs are given.                                  *)
(***************************************************************************)
THEOREM PowerInvHolds == Spec => []PowerInv
<1>1. Init => PowerInv
    <2> SUFFICES ASSUME Init PROVE PowerInv
        OBVIOUS
    <2>1. ClientTypeOK
        BY PowerAssumption, PlanTypes DEF Init, ClientTypeOK, Pcs
    <2>2. LockInv
        BY PowerAssumption, BkgAssumption DEF Init, LockInv, Locked, Clients
    <2>3. SessionInv /\ PlanInv /\ ReleaseInv
        BY DEF Init, SessionInv, PlanInv, ReleaseInv, BoostedIdsAreLive, Working,
               Ending, ReleasePcs
    <2> QED
        BY <2>1, <2>2, <2>3 DEF PowerInv
<1>2. PowerInv /\ [Next]_vars => PowerInv'
    <2> SUFFICES ASSUME PowerInv, [Next]_vars PROVE PowerInv'
        OBVIOUS
    <2>1. CASE UNCHANGED vars
        BY <2>1 DEF vars, powerVars, clientVars, PowerInv, ClientTypeOK, LockInv,
            SessionInv, PlanInv, ReleaseInv, BoostedIdsAreLive, Mode
    <2>2. ASSUME NEW c \in Clients, Other(c) PROVE PowerInv'
        BY <2>2, OtherClientTypeOK, OtherLockInv, OtherSessionInv, OtherPlanInv,
           OtherReleaseInv DEF PowerInv
    <2> QED
        BY <2>1, <2>2, StepKinds, BackgroundKeepsPowerInv, ReturningKeepsPowerInv
<1> QED
    BY <1>1, <1>2, PTL DEF Spec

(***************************************************************************)
(* The timer never relaxes a destroyed id (~QnnEp,                         *)
(* qnn_execution_provider.cc:1752-1753).                                   *)
(***************************************************************************)
THEOREM BoostedIdsAreLiveHolds == Spec => []BoostedIdsAreLive
<1>1. PowerInv => BoostedIdsAreLive
    BY DEF PowerInv, SessionInv
<1> QED
    BY <1>1, PowerInvHolds, PTL

-----------------------------------------------------------------------------

(***************************************************************************)
(* A hypothesis on what the runs are given, for the exact count.  The code *)
(* does not enforce it, and without it the count is wrong: a run option    *)
(* for before the run and none for after it makes a start call and no done *)
(* call; one for after it only, a done call that takes the count of        *)
(* another run; and a start that is rejected because the timer thread      *)
(* could not be created, or a compilation whose done call fails, makes a   *)
(* done call too many.                                                     *)
(***************************************************************************)
\* Every start has one done call and every done call one start.
Paired ==
    /\ \A p \in RunPlans : p.start = "unset" <=> p.done = "unset"
    /\ ~ThreadMayFail
    /\ InitModes = {} \/ "error" \notin Outcomes

\* The clients in flight, and those of them that SetState(START) has counted
\* and that owe a done call.
Flying == {c \in Clients : InFlight(c)}
Owed == {c \in Clients : Counted(c)}

\* A session that lives has a timer, when the thread can be created.
TimerForSessions ==
    ~ThreadMayFail =>
        /\ \A i \in Ids : phase[i] # "none" => timer_active
        /\ timer_set => \/ timer_active
                        \/ \E c \in Clients : pc[c] \in {"release", "release2"}

\* While the callback relaxes, whoever is in flight waits for perf_mutex_.
OnlyWaiting ==
    cb = "relaxing" => \A c \in Flying : pc[c] \in {"sustained", "drop"}

-----------------------------------------------------------------------------
(***************************************************************************)
(* A session that lives keeps its timer, in the steps that end a call.     *)
(***************************************************************************)
LEMMA ReturningKeepsTimer ==
    ASSUME PowerInv, TimerForSessions, NEW c \in Clients, Returning(c)
    PROVE  TimerForSessions'
<1>1. ReturnFrame /\ pc[c] \in Working /\ (Returns(c) \/ Onward(c))
    BY ReturningSteps DEF PowerInv
<1>2. \A d \in Clients : pc[d] \in {"release", "release2"} => pc'[d] = pc[d]
    BY <1>1 DEF PowerInv, ClientTypeOK, Returns, Onward, Moves, Working
<1> QED
    BY <1>1, <1>2 DEF TimerForSessions, ReturnFrame

(***************************************************************************)
(* And in the other steps of a client.                                     *)
(***************************************************************************)
LEMMA OtherKeepsTimer ==
    ASSUME PowerInv, TimerForSessions, NEW c \in Clients, Other(c)
    PROVE  TimerForSessions'
<1> USE DEF PowerInv, ClientTypeOK, TimerForSessions, Goto
<1>1. CASE CreateNoThread(c)
    BY <1>1, PowerAssumption DEF CreateNoThread, ReleaseInv, ReleasePcs, Id
<1>2. CASE CreateReturn(c)
    BY <1>2 DEF CreateReturn
<1>3. CASE DestroyHtpPowerConfigId(c)
    BY <1>3, PowerAssumption DEF DestroyHtpPowerConfigId, Id
<1>4. CASE ReleaseState(c)
    BY <1>4 DEF ReleaseState
<1>5. CASE ReleaseLock(c)
    BY <1>5 DEF ReleaseLock
<1>6. CASE ReleaseMove(c)
    BY <1>6 DEF ReleaseMove
<1>7. CASE Begin(c)
    BY <1>7, PowerAssumption DEF Begin, Id
<1>8. CASE SleepAgain(c)
    BY <1>8 DEF SleepAgain, powerVars, clientVars
<1>9. CASE SetSustainedPerformance(c)
    BY <1>9 DEF SetSustainedPerformance
<1>10. CASE \/ CreateTimerThread(c) \/ CreateThread(c) \/ DestroyLock(c)
            \/ DropBoostedPowerConfigId(c) \/ SustainedAbort(c)
    BY <1>10
    DEF CreateTimerThread, CreateThread, DestroyLock, DropBoostedPowerConfigId,
        SustainedAbort, Siblings, Id
<1>11. CASE \/ DropLock(c) \/ DropBoostedId(c) \/ DropInUse(c) \/ DropAbort(c)
            \/ SetPerformance(c)
    BY <1>11 DEF DropLock, DropBoostedId, DropInUse, DropAbort, SetPerformance
<1>12. CASE ReleaseDeInitialize(c) \/ ReleaseJoin(c)
    BY <1>12 DEF ReleaseDeInitialize, ReleaseJoin
<1> QED
    BY <1>1, <1>2, <1>3, <1>4, <1>5, <1>6, <1>7, <1>8, <1>9, <1>10, <1>11, <1>12
    DEF Other

-----------------------------------------------------------------------------
(***************************************************************************)
(* A bound on the count survives a start, a clamped done and every step    *)
(* that gives nothing up.                                                  *)
(***************************************************************************)
LEMMA BoundKept ==
    ASSUME NEW S \in SUBSET Clients, NEW T \in SUBSET Clients, NEW c \in Clients,
           NEW n \in Nat, NEW n1 \in Nat, NEW k \in Nat, NEW k1 \in Nat,
           n <= Cardinality(S) + k,
           \/ n1 = n /\ S \subseteq T /\ k1 = k
           \/ n1 = n + 1 /\ c \notin S /\ S \cup {c} \subseteq T /\ k1 = k
           \/ n1 = (IF n > 0 THEN n - 1 ELSE 0) /\ S \ {c} \subseteq T /\ k1 = k
           \/ n1 = n /\ S \ {c} \subseteq T /\ k1 = k + 1
    PROVE  n1 <= Cardinality(T) + k1
<1>1. IsFiniteSet(S) /\ IsFiniteSet(T) /\ Cardinality(S) \in Nat /\ Cardinality(T) \in Nat
    BY PowerAssumption, FS_Subset, FS_CardinalityType
<1>2. CASE n1 = n /\ S \subseteq T /\ k1 = k
    BY <1>1, <1>2, FS_Subset, SMT
<1>3. CASE n1 = n + 1 /\ c \notin S /\ S \cup {c} \subseteq T /\ k1 = k
    <2>1. Cardinality(S \cup {c}) = Cardinality(S) + 1
        BY <1>1, <1>3, FS_AddElement
    <2>2. Cardinality(S \cup {c}) <= Cardinality(T)
        BY <1>1, <1>3, FS_Subset
    <2> QED
        BY <1>1, <1>3, <2>1, <2>2, SMT
<1>4. CASE S \ {c} \subseteq T
    <2>1. Cardinality(S \ {c}) \in {Cardinality(S), Cardinality(S) - 1}
        BY <1>1, FS_RemoveElement
    <2>2. Cardinality(S \ {c}) <= Cardinality(T)
        BY <1>1, <1>4, FS_Subset
    <2>3. Cardinality(S) <= Cardinality(T) + 1
        BY <1>1, <2>1, <2>2, SMT
    <2>4. CASE n1 = (IF n > 0 THEN n - 1 ELSE 0) /\ k1 = k
        BY <1>1, <2>3, <2>4, SMT
    <2>5. CASE n1 = n /\ k1 = k + 1
        BY <1>1, <2>3, <2>5, SMT
    <2> QED
        BY <1>2, <1>3, <2>4, <2>5
<1> QED
    BY <1>2, <1>3, <1>4

(***************************************************************************)
(* The exact count survives a start, a done and every other step; where    *)
(* there is something to discount the clamp does nothing.                  *)
(***************************************************************************)
LEMMA CountKept ==
    ASSUME NEW S \in SUBSET Clients, NEW T \in SUBSET Clients, NEW c \in Clients,
           NEW n \in Nat, NEW n1 \in Nat, n = Cardinality(S),
           \/ n1 = n /\ T = S
           \/ n1 = n + 1 /\ c \notin S /\ T = S \cup {c}
           \/ n1 = (IF n > 0 THEN n - 1 ELSE 0) /\ c \in S /\ T = S \ {c}
    PROVE  n1 = Cardinality(T)
<1>1. IsFiniteSet(S) /\ Cardinality(S) \in Nat
    BY PowerAssumption, FS_Subset, FS_CardinalityType
<1>2. CASE c \in S /\ T = S \ {c}
    <2>1. Cardinality(S) # 0
        BY <1>1, <1>2, FS_EmptySet
    <2>2. Cardinality(T) = Cardinality(S) - 1
        BY <1>1, <1>2, FS_RemoveElement
    <2> QED
        BY <1>1, <2>1, <2>2, <1>2, SMT
<1> QED
    BY <1>1, <1>2, FS_AddElement

-----------------------------------------------------------------------------
(***************************************************************************)
(* The hypotheses on the runs hold of the compilations too, which start    *)
(* and end with the same mode.                                             *)
(***************************************************************************)
LEMMA PlanPairs ==
    /\ Paired => \A p \in RunPlans \cup InitPlans :
                   p.start = "unset" <=> p.done = "unset"
    /\ \A p \in InitPlans : p.flow = "init" /\ p.done # "unset" /\ InitModes # {}
    /\ \A p \in RunPlans : p.flow = "run"
  BY PowerAssumption, SMT
  DEF Paired, RunPlans, InitPlans, PlanOf, Modes, Boosting, NonBoosting, Relaxing

(***************************************************************************)
(* The work of a client whose call of SetState returns is still in flight. *)
(***************************************************************************)
LEMMA ReturnStaysInFlight ==
    ASSUME PowerInv, Paired, NEW c \in Clients, NEW s \in BOOLEAN,
           pc[c] \in Working \ {"state"}, ReturnStatus(c, s), InFlight(c)
    PROVE  InFlight(c)' /\ plan'[c] = plan[c]
<1>1. plan[c] \in RunPlans \cup InitPlans /\ gs[c] = "START" /\ plan[c].start # "unset"
      /\ plan[c].done # "unset"
    BY PlanPairs DEF PowerInv, PlanInv, InFlight
<1>2. CASE s
    BY <1>1, <1>2 DEF ReturnStatus, InFlight, Goto, PowerInv, ClientTypeOK
<1>3. CASE ~s
    BY <1>1, <1>3 DEF ReturnStatus, BeginDone, InFlight, Goto, PowerInv,
       ClientTypeOK
<1> QED
    BY <1>2, <1>3

(***************************************************************************)
(* Only the second done call of a compilation's guard, after an error, is  *)
(* in flight once more.                                                    *)
(***************************************************************************)
LEMMA ReturnNotInFlight ==
    ASSUME PowerInv, NEW c \in Clients, NEW s \in BOOLEAN,
           pc[c] \in Working \ {"state", "exec"}, ReturnStatus(c, s), ~InFlight(c),
           plan[c].flow = "run" \/ s
    PROVE  ~InFlight(c)'
<1>1. gs[c] = "DONE"
    BY DEF PowerInv, PlanInv, InFlight, Working, Mode, ClientTypeOK
<1>2. BecomeIdle(c)
    BY <1>1 DEF ReturnStatus
<1> QED
    BY <1>2 DEF BecomeIdle, Goto, InFlight, PowerInv, ClientTypeOK

-----------------------------------------------------------------------------
SameFlying ==
    /\ Flying' = Flying
    /\ \A d \in Flying : plan'[d] = plan[d]

(***************************************************************************)
(* The steps that end no call leave the clients in flight and the count;   *)
(* the release of the timer resets it when nobody is in flight.            *)
(***************************************************************************)
LEMMA OtherInFlight ==
    ASSUME PowerInv, NEW c \in Clients, Other(c)
    PROVE  /\ SameFlying
           /\ \/ inflight_run_count' = inflight_run_count /\ (timer_active => timer_active')
              \/ inflight_run_count' = 0 /\ Flying = {}
<1> USE DEF PowerInv, ClientTypeOK, SameFlying, Flying, InFlight, Goto
<1>1. CASE CreateTimerThread(c) \/ DestroyLock(c)
    BY <1>1, SMT DEF CreateTimerThread, DestroyLock, Siblings
<1>2. CASE CreateNoThread(c) \/ CreateThread(c) \/ CreateReturn(c)
    BY <1>2, SMT DEF CreateNoThread, CreateThread, CreateReturn
<1>3. CASE DropBoostedPowerConfigId(c) \/ DestroyHtpPowerConfigId(c)
    BY <1>3, SMT DEF DropBoostedPowerConfigId, DestroyHtpPowerConfigId
<1>4. CASE ReleaseState(c)
    BY <1>4 DEF ReleaseState
<1>5. CASE ReleaseLock(c) \/ ReleaseMove(c) \/ ReleaseDeInitialize(c) \/ ReleaseJoin(c)
    BY <1>5, SMT DEF ReleaseLock, ReleaseMove, ReleaseDeInitialize, ReleaseJoin
<1>6. CASE Begin(c)
    BY <1>6, SMT DEF Begin, PlanInv, Working
<1>7. CASE SetSustainedPerformance(c)
    BY <1>7, SMT DEF SetSustainedPerformance, SustainedNext
<1>8. CASE SustainedAbort(c) \/ DropLock(c) \/ DropBoostedId(c)
    BY <1>8, SMT DEF SustainedAbort, DropLock, DropBoostedId
<1>9. CASE DropInUse(c) \/ DropAbort(c) \/ SetPerformance(c)
    BY <1>9, SMT DEF DropInUse, DropAbort, SetPerformance
<1>10. CASE SleepAgain(c)
    BY <1>10 DEF SleepAgain, powerVars, clientVars
<1> QED
    BY <1>1, <1>2, <1>3, <1>4, <1>5, <1>6, <1>7, <1>8, <1>9, <1>10 DEF Other

(***************************************************************************)
(* A step of client c concerns c only.                                     *)
(***************************************************************************)
LEMMA ReturningOthers ==
    ASSUME PowerInv, NEW c \in Clients, Returning(c)
    PROVE  \A d \in Clients \ {c} : (InFlight(d)' <=> InFlight(d)) /\ plan'[d] = plan[d]
<1>1. Returns(c) \/ Onward(c)
    BY ReturningSteps DEF PowerInv
<1> QED
    BY <1>1, SMT DEF Returns, Onward, Moves, InFlight, PowerInv, ClientTypeOK

(***************************************************************************)
(* Nothing but SetState counts.                                            *)
(***************************************************************************)
LEMMA ReturningCount ==
    ASSUME NEW c \in Clients, Returning(c), ~SetState(c)
    PROVE  inflight_run_count' = inflight_run_count
  BY DEF Returning, Finish, SustainedAborted, SustainedLaunch, SustainedApply,
         DropNotInUse, DropAborted, SetPerformanceApply

(***************************************************************************)
(* A step that ends no work goes on, or returns from SetState.             *)
(***************************************************************************)
LEMMA ReturningKinds ==
    ASSUME PowerInv, NEW c \in Clients, Returning(c), ~SetState(c), ~Finish(c)
    PROVE  /\ pc[c] \in Working \ {"state", "exec"}
           /\ \/ /\ pc[c] # "sustained" /\ Onward(c) /\ (InFlight(c)' <=> InFlight(c))
                 /\ UNCHANGED leaked
              \/ ReturnStatus(c, TRUE)
              \/ ReturnStatus(c, FALSE) /\ "error" \in Outcomes
<1> USE DEF PowerInv, ClientTypeOK
<1>1. CASE SustainedAborted(c)
    <2>1. CASE gs[c] = "DONE" /\ Goto(c, "launch") /\ UNCHANGED << perf_owner, plan, gs, retry, leaked >>
        BY <1>1, <2>1 DEF SustainedAborted, Goto, Onward, Moves, InFlight, Working
    <2> QED
        BY <1>1, <2>1 DEF SustainedAborted, Working
<1>2. CASE SustainedLaunch(c)
    BY <1>2 DEF SustainedLaunch, Working
<1>3. CASE SustainedApply(c) \/ SetPerformanceApply(c)
    BY <1>3 DEF SustainedApply, SetPerformanceApply, ApplyVote, Working
<1>4. CASE DropNotInUse(c) \/ DropAborted(c)
    <2>0. pc[c] \in {"inuse", "dropaborting"} /\ AfterDrop(c)
        BY <1>4 DEF DropNotInUse, DropAborted
    <2>1. CASE Goto(c, "perf") /\ UNCHANGED << plan, gs, retry, leaked >>
        BY <2>0, <2>1 DEF Goto, Onward, Moves, InFlight, Working
    <2> QED
        BY <2>0, <2>1 DEF AfterDrop, Working
<1> QED
    BY <1>1, <1>2, <1>3, <1>4 DEF Returning

(***************************************************************************)
(* Work that was counted makes its done call.                              *)
(***************************************************************************)
LEMMA FinishStaysInFlight ==
    ASSUME PowerInv, Paired, NEW c \in Clients, Finish(c), InFlight(c)
    PROVE  InFlight(c)' /\ plan'[c] = plan[c]
<1>1. plan[c].done # "unset"
    BY PlanPairs DEF PowerInv, PlanInv, InFlight, Finish, Working
<1> QED
    BY <1>1 DEF Finish, BeginDone, InFlight, Goto, PowerInv, ClientTypeOK

(***************************************************************************)
(* SetState counts a start, discounts a done, or rejects the call.         *)
(***************************************************************************)
LEMMA SetStateKinds ==
    ASSUME PowerInv, NEW c \in Clients, SetState(c)
    PROVE  \/ /\ gs[c] = "START" /\ inflight_run_count' = inflight_run_count + 1
              /\ ~InFlight(c) /\ InFlight(c)' /\ plan'[c] = plan[c]
              /\ plan[c].start \in Boosting => timer_active
              /\ pc'[c] \in {"sustained", "drop"}
              /\ plan[c].start # "unset" /\ UNCHANGED leaked
           \/ /\ gs[c] = "DONE" /\ InFlight(c) /\ ~InFlight(c)' /\ UNCHANGED leaked
              /\ inflight_run_count' =
                   IF inflight_run_count > 0 THEN inflight_run_count - 1 ELSE 0
           \/ /\ inflight_run_count' = inflight_run_count
              /\ ~timer_active /\ Mode(c) \in Boosting
              /\ ReturnStatus(c, FALSE)
<1> USE DEF PowerInv, ClientTypeOK
<1>1. pc[c] = "state" /\ Mode(c) # "unset" /\ gs[c] \in {"START", "DONE"}
    BY DEF SetState, PlanInv, Working
<1>2. CASE /\ Mode(c) \in Boosting => timer_active
           /\ CountRun(c)
           /\ Goto(c, IF Mode(c) \in Boosting THEN "sustained" ELSE "drop")
           /\ UNCHANGED << plan, gs, retry, leaked >>
    <2>1. pc'[c] \in {"sustained", "drop"} /\ gs'[c] = gs[c] /\ plan'[c] = plan[c]
        BY <1>2 DEF Goto
    <2>2. CASE gs[c] = "START"
        BY <1>1, <1>2, <2>1, <2>2 DEF Mode, CountRun, InFlight
    <2>3. CASE gs[c] = "DONE"
        BY <1>1, <1>2, <2>1, <2>3 DEF Mode, CountRun, InFlight
    <2> QED
        BY <1>1, <2>2, <2>3
<1> QED
    BY <1>2 DEF SetState

\* The client still owes its done call, or ends and is written down as leaked.
Settles(c) ==
    \/ Counted(c) /\ leaked' = leaked + 1
    \/ /\ UNCHANGED leaked
       /\ Counted(c) => InFlight(c)' /\ plan'[c] = plan[c]

(***************************************************************************)
(* A client that owes a done call goes on to make it, or has no mode for   *)
(* it and is written down as leaked (SetPerThreadHtpPowerConfigs,          *)
(* HtpPowerStateGuard).                                                    *)
(***************************************************************************)
LEMMA BeginDoneSettles ==
    ASSUME PowerInv, NEW c \in Clients, NEW last \in BOOLEAN, BeginDone(c, last)
    PROVE  Settles(c)
<1>1. CASE plan[c].done = "unset"
    BY <1>1 DEF BeginDone, Leave, Settles
<1>2. CASE plan[c].done # "unset"
    BY <1>2 DEF BeginDone, Settles, InFlight, Goto, PowerInv, ClientTypeOK
<1> QED
    BY <1>1, <1>2

(***************************************************************************)
(* So does one whose call of SetState returns; a done call that is         *)
(* rejected is written down too.                                           *)
(***************************************************************************)
LEMMA ReturnStatusSettles ==
    ASSUME PowerInv, NEW c \in Clients, NEW s \in BOOLEAN, ReturnStatus(c, s)
    PROVE  Settles(c)
<1>1. CASE BeginDone(c, TRUE)
    BY <1>1, BeginDoneSettles
<1>2. CASE gs[c] = "START" /\ Goto(c, "exec") /\ UNCHANGED << plan, gs, retry, leaked >>
    BY <1>2 DEF Settles, Counted, InFlight, Goto, PowerInv, ClientTypeOK
<1>3. CASE Leave(c) /\ BecomeIdle(c)
    <2>1. CASE Counted(c)
        BY <1>3, <2>1 DEF Leave, Settles
    <2> QED
        BY <1>3, <2>1 DEF Leave, Settles
<1> QED
    BY <1>1, <1>2, <1>3 DEF ReturnStatus

(***************************************************************************)
(* No step leaves more counted than is owed or leaked.                     *)
(***************************************************************************)
LEMMA OwedKept ==
    ASSUME PowerInv, NEW c \in Clients, Returning(c)
    PROVE  \/ /\ inflight_run_count' = inflight_run_count
              /\ Owed \subseteq Owed' /\ leaked' = leaked
           \/ /\ inflight_run_count' = inflight_run_count + 1 /\ c \notin Owed
              /\ Owed \cup {c} \subseteq Owed' /\ leaked' = leaked
           \/ /\ inflight_run_count' =
                   IF inflight_run_count > 0 THEN inflight_run_count - 1 ELSE 0
              /\ Owed \ {c} \subseteq Owed' /\ leaked' = leaked
           \/ /\ inflight_run_count' = inflight_run_count
              /\ Owed \ {c} \subseteq Owed' /\ leaked' = leaked + 1
<1>1. timer_active' = timer_active
    BY ReturningSteps DEF PowerInv, ReturnFrame
<1>2. Owed \ {c} \subseteq Owed'
    BY <1>1, ReturningOthers DEF Owed, Counted
<1>3. ASSUME Settles(c), inflight_run_count' = inflight_run_count
      PROVE  \/ /\ inflight_run_count' = inflight_run_count
                /\ Owed \subseteq Owed' /\ leaked' = leaked
             \/ /\ inflight_run_count' = inflight_run_count
                /\ Owed \ {c} \subseteq Owed' /\ leaked' = leaked + 1
    <2>1. CASE leaked' = leaked + 1
        BY <1>2, <1>3, <2>1
    <2>2. CASE UNCHANGED leaked /\ (Counted(c) => InFlight(c)' /\ plan'[c] = plan[c])
        <3>1. Counted(c) => Counted(c)'
            BY <1>1, <2>2 DEF Counted
        <3>2. Owed \subseteq Owed'
            BY <1>2, <3>1 DEF Owed
        <3> QED
            BY <1>3, <2>2, <3>2
    <2> QED
        BY <1>3, <2>1, <2>2 DEF Settles
<1>4. CASE SetState(c)
    <2>1. CASE /\ inflight_run_count' = inflight_run_count
               /\ ReturnStatus(c, FALSE)
        BY <1>3, <2>1, ReturnStatusSettles
    <2>2. CASE /\ inflight_run_count' = inflight_run_count + 1
               /\ ~InFlight(c) /\ InFlight(c)' /\ plan'[c] = plan[c]
               /\ plan[c].start \in Boosting => timer_active
               /\ plan[c].start # "unset" /\ UNCHANGED leaked
        <3>1. c \notin Owed /\ Counted(c)'
            BY <1>1, <2>2 DEF Owed, Counted
        <3>2. Owed \cup {c} \subseteq Owed'
            BY <1>2, <3>1 DEF Owed
        <3> QED
            BY <2>2, <3>1, <3>2
    <2> QED
        BY <1>2, <1>4, <2>1, <2>2, SetStateKinds
<1>5. CASE Finish(c)
    <2>1. Settles(c) /\ inflight_run_count' = inflight_run_count
        BY <1>5, BeginDoneSettles DEF Finish
    <2> QED
        BY <1>3, <2>1
<1>6. CASE ~SetState(c) /\ ~Finish(c)
    <2>1. Settles(c)
        <3>1. CASE Onward(c) /\ (InFlight(c)' <=> InFlight(c)) /\ UNCHANGED leaked
            <4>1. plan'[c] = plan[c]
                BY <3>1 DEF Onward, Moves, PowerInv, ClientTypeOK
            <4> QED
                BY <3>1, <4>1 DEF Settles, Counted
        <3> QED
            BY <1>6, <3>1, ReturningKinds, ReturnStatusSettles
    <2> QED
        BY <1>3, <1>6, <2>1, ReturningCount
<1> QED
    BY <1>4, <1>5, <1>6

(***************************************************************************)
(* With paired calls a step counts exactly what it sets in flight.         *)
(***************************************************************************)
LEMMA FlyingKept ==
    ASSUME PowerInv, TimerForSessions, Paired, NEW c \in Clients, Returning(c)
    PROVE  \/ inflight_run_count' = inflight_run_count /\ Flying' = Flying
           \/ /\ inflight_run_count' = inflight_run_count + 1 /\ c \notin Flying
              /\ Flying' = Flying \cup {c}
           \/ /\ inflight_run_count' =
                   IF inflight_run_count > 0 THEN inflight_run_count - 1 ELSE 0
              /\ c \in Flying
              /\ Flying' = Flying \ {c}
<1>1. /\ inflight_run_count \in Nat /\ pc[c] \in Working
      /\ plan[c] \in RunPlans \cup InitPlans
    BY ReturningSteps, PlanPairs DEF PowerInv, ReturnFrame, ClientTypeOK, PlanInv
<1>2. \A d \in Clients \ {c} : InFlight(d)' <=> InFlight(d)
    BY ReturningOthers
<1>4. CASE SetState(c)
    <2>1. timer_active
        BY <1>1, PowerAssumption
        DEF PowerInv, SessionInv, Id, TimerForSessions, Paired
    <2> QED
        BY <1>2, <1>4, <2>1, SetStateKinds DEF Flying
<1>5. ASSUME InFlight(c) <=> InFlight(c)', ~SetState(c)
      PROVE  inflight_run_count' = inflight_run_count /\ Flying' = Flying
    BY <1>2, <1>5, ReturningCount DEF Flying
<1>6. CASE Finish(c) /\ ~SetState(c)
    <2>2. CASE plan[c].done # "unset"
        <3>1. InFlight(c)
            BY <1>1, <1>6, <2>2, PlanPairs DEF Finish, InFlight, PowerInv, PlanInv
        <3> QED
            BY <1>1, <1>5, <1>6, <3>1, FinishStaysInFlight
    <2>3. plan[c].done = "unset" => ~InFlight(c) /\ ~InFlight(c)'
        BY <1>1, <1>6, PlanPairs, SMT
        DEF Finish, BeginDone, BecomeIdle, InFlight, Goto, PowerInv, ClientTypeOK
    <2> QED
        BY <1>5, <1>6, <2>2, <2>3
<1>7. CASE ~SetState(c) /\ ~Finish(c)
    <2>1. InFlight(c) => InFlight(c)'
        BY <1>1, <1>7, ReturningKinds, ReturnStaysInFlight
    <2>2. "error" \in Outcomes => plan[c].flow = "run"
        BY <1>1, PlanPairs DEF Paired
    <2>3. ~InFlight(c) => ~InFlight(c)'
        BY <1>1, <1>7, <2>2, ReturningKinds, ReturnNotInFlight
    <2> QED
        BY <1>5, <1>7, <2>1, <2>3
<1> QED
    BY <1>4, <1>6, <1>7

-----------------------------------------------------------------------------
(***************************************************************************)
(* The timer's thread touches no client, and begins to relax only when     *)
(* nothing is counted.                                                     *)
(***************************************************************************)
LEMMA BackgroundSame ==
    ASSUME Background \/ Callback
    PROVE  /\ UNCHANGED << inflight_run_count, timer_active, timer_set, phase, pc, plan, gs >>
           /\ cb' = "relaxing" /\ cb # "relaxing" => inflight_run_count = 0
<1>1. CASE UNCHANGED powerVars
    BY <1>1 DEF powerVars, clientVars
<1>2. CASE Callback
    BY <1>2 DEF Callback, CallbackState, CallbackTryLock, CallbackCheck,
        CallbackRelax, CallbackReturn, CallbackUnchanged, clientVars
<1> QED
    BY <1>1, <1>2 DEF Background

(***************************************************************************)
(* No step of a client is a step of the callback.                          *)
(***************************************************************************)
LEMMA ClientsLeaveCallback ==
    ASSUME NEW c \in Clients, ClientTypeOK, Other(c) \/ Returning(c)
    PROVE  UNCHANGED cb
<1>1. CASE Returning(c)
    BY <1>1, ReturningSteps DEF ReturnFrame
<1>2. CASE Other(c)
    BY <1>2
    DEF Other, CreateTimerThread, CreateNoThread, CreateThread, CreateReturn,
        DestroyLock, DropBoostedPowerConfigId, DestroyHtpPowerConfigId,
        ReleaseState, ReleaseLock, ReleaseMove, ReleaseDeInitialize, ReleaseJoin,
        Begin, SetSustainedPerformance, SustainedAbort, DropLock, DropBoostedId,
        DropInUse, DropAbort, SetPerformance, SleepAgain, powerVars
<1> QED
    BY <1>1, <1>2

(***************************************************************************)
(* When the timer thread can be created, a session that lives has a timer: *)
(* no start or done call is rejected (SetState, 585-611).                  *)
(***************************************************************************)
THEOREM TimerForSessionsHolds == Spec => []TimerForSessions
<1>1. Init => TimerForSessions
    BY DEF Init, TimerForSessions
<1>2. PowerInv /\ TimerForSessions /\ [Next]_vars => TimerForSessions'
    <2> SUFFICES ASSUME PowerInv, TimerForSessions, [Next]_vars
                 PROVE  TimerForSessions'
        OBVIOUS
    <2>1. CASE UNCHANGED << timer_active, timer_set, phase, pc >>
        BY <2>1 DEF TimerForSessions
    <2> QED
        BY <2>1, StepKinds, BackgroundSame, OtherKeepsTimer, ReturningKeepsTimer
        DEF vars, powerVars, clientVars
<1> QED
    BY <1>1, <1>2, PowerInvHolds, PTL DEF Spec

(***************************************************************************)
(* Nobody moves, nobody enters or leaves.                                  *)
(***************************************************************************)
LEMMA UnchangedInFlight ==
    ASSUME UNCHANGED << pc, plan, gs, timer_active >>
    PROVE  Flying' = Flying /\ Owed' = Owed
  BY DEF Owed, Counted, Flying, InFlight

(***************************************************************************)
(* The steps that end no call leak nothing; the release of the timer       *)
(* forgets what was leaked with the count.                                 *)
(***************************************************************************)
LEMMA OtherLeaks ==
    ASSUME NEW c \in Clients, Other(c)
    PROVE  \/ leaked' = leaked
           \/ leaked' = 0 /\ inflight_run_count' = 0
  BY DEF Other, CreateTimerThread, CreateNoThread, CreateThread, CreateReturn,
         DestroyLock, DropBoostedPowerConfigId, DestroyHtpPowerConfigId,
         ReleaseState, ReleaseLock, ReleaseMove, ReleaseDeInitialize, ReleaseJoin,
         Begin, SetSustainedPerformance, SustainedAbort, DropLock, DropBoostedId,
         DropInUse, DropAbort, SetPerformance, SleepAgain, powerVars, clientVars

\* What is counted is owed by a run in flight, or was leaked.
CountBounded == leaked \in Nat /\ inflight_run_count <= Cardinality(Owed) + leaked

(***************************************************************************)
(* Every count is owed by a run in flight or was leaked by one that has no *)
(* mode for its done call or had it rejected, whatever the run options,    *)
(* even when the timer thread fails to start and driver calls fail.        *)
(***************************************************************************)
THEOREM CountBoundedHolds == Spec => []CountBounded
<1>1. Init => CountBounded
    <2> SUFFICES ASSUME Init PROVE CountBounded
        OBVIOUS
    <2>1. Owed = {}
        BY DEF Init, Owed, Counted, InFlight
    <2> QED
        BY <2>1, FS_EmptySet, SMT DEF Init, CountBounded
<1>2. PowerInv /\ CountBounded /\ [Next]_vars /\ PowerInv' => CountBounded'
    <2> SUFFICES ASSUME PowerInv, CountBounded, [Next]_vars, PowerInv'
                 PROVE  CountBounded'
        OBVIOUS
    <2>0. /\ inflight_run_count \in Nat /\ inflight_run_count' \in Nat
          /\ leaked \in Nat /\ inflight_run_count <= Cardinality(Owed) + leaked
          /\ Owed \in SUBSET Clients /\ Owed' \in SUBSET Clients
        BY DEF PowerInv, ClientTypeOK, Owed, CountBounded
    <2>1. CASE UNCHANGED << pc, plan, gs, timer_active, inflight_run_count, leaked >>
        BY <2>1, UnchangedInFlight DEF CountBounded
    <2>2. ASSUME NEW c \in Clients, Other(c) PROVE CountBounded'
        <3>1. CASE /\ inflight_run_count' = inflight_run_count /\ leaked' = leaked
                   /\ timer_active => timer_active'
            <4>1. Owed \subseteq Owed'
                BY <2>2, <3>1, OtherInFlight DEF Owed, Counted, Flying, SameFlying
            <4>2. inflight_run_count' <= Cardinality(Owed') + leaked'
                BY <2>0, <2>2, <3>1, <4>1, BoundKept
            <4> QED
                BY <2>0, <3>1, <4>2 DEF CountBounded
        <3>2. CASE inflight_run_count' = 0 /\ leaked' \in {leaked, 0}
            BY <2>0, <3>2, FS_CardinalityType, FS_Subset, PowerAssumption, SMT
            DEF CountBounded
        <3> QED
            BY <2>2, <3>1, <3>2, OtherInFlight, OtherLeaks
    <2>3. ASSUME NEW c \in Clients, Returning(c) PROVE CountBounded'
        <3>1. leaked' \in Nat
            BY <2>0, <2>3, OwedKept, SMT
        <3>2. inflight_run_count' <= Cardinality(Owed') + leaked'
            BY <2>0, <2>3, <3>1, OwedKept, BoundKept, SMTT(30)
        <3> QED
            BY <3>1, <3>2 DEF CountBounded
    <2>4. ASSUME Background \/ Callback PROVE UNCHANGED leaked
        BY <2>4
        DEF Background, powerVars, clientVars, Callback, CallbackState,
            CallbackTryLock, CallbackCheck, CallbackRelax, CallbackReturn,
            CallbackUnchanged
    <2> QED
        BY <2>1, <2>2, <2>3, <2>4, StepKinds, BackgroundSame DEF vars, powerVars,
           clientVars
<1> QED
    BY <1>1, <1>2, PowerInvHolds, PTL DEF Spec

(***************************************************************************)
(* Every way out of a run or a compilation gives the count back: when no   *)
(* client is in a call, nothing is counted but the starts that no done     *)
(* call answers (the scope guard of qnn_model.cc:722-744,                  *)
(* HtpPowerStateGuard).                                                    *)
(***************************************************************************)
THEOREM NothingCountedAtRestHolds == Spec => []NothingCountedAtRest
<1>1. CountBounded => NothingCountedAtRest
    <2> SUFFICES ASSUME CountBounded, \A c \in Clients : pc[c] = "idle"
                 PROVE  inflight_run_count <= leaked
        BY DEF NothingCountedAtRest
    <2>1. Owed = {}
        BY DEF Owed, Counted, InFlight
    <2> QED
        BY <2>1, FS_EmptySet, SMT DEF CountBounded
<1> QED
    BY <1>1, CountBoundedHolds, PTL

(***************************************************************************)
(* inflight_run_count_ is the number of runs and compilations in flight,   *)
(* over any number of sessions that share the manager (SetState, 613-627). *)
(***************************************************************************)
THEOREM CountMatchesRunsHolds ==
    ASSUME Paired
    PROVE  Spec => []CountMatchesRuns
<1>1. Init => CountMatchesRuns
    <2> SUFFICES ASSUME Init PROVE CountMatchesRuns
        OBVIOUS
    <2>1. {c \in Clients : InFlight(c)} = {}
        BY DEF Init, InFlight
    <2> QED
        BY <2>1, FS_EmptySet DEF Init, CountMatchesRuns
<1>2. PowerInv /\ TimerForSessions /\ CountMatchesRuns /\ [Next]_vars /\ PowerInv'
        => CountMatchesRuns'
    <2> SUFFICES ASSUME PowerInv, TimerForSessions, CountMatchesRuns, [Next]_vars, PowerInv'
                 PROVE  inflight_run_count' = Cardinality(Flying')
        BY DEF CountMatchesRuns, Flying
    <2>0. /\ inflight_run_count \in Nat /\ inflight_run_count' \in Nat
          /\ Flying \in SUBSET Clients /\ Flying' \in SUBSET Clients
          /\ inflight_run_count = Cardinality(Flying)
        BY DEF PowerInv, ClientTypeOK, Flying, CountMatchesRuns
    <2>1. CASE UNCHANGED << pc, plan, gs, timer_active, inflight_run_count >>
        BY <2>0, <2>1, UnchangedInFlight
    <2>2. ASSUME NEW c \in Clients, Other(c)
          PROVE inflight_run_count' = Cardinality(Flying')
        BY <2>0, <2>2, OtherInFlight, FS_EmptySet DEF SameFlying
    <2>3. ASSUME NEW c \in Clients, Returning(c)
          PROVE inflight_run_count' = Cardinality(Flying')
        BY <2>0, <2>3, FlyingKept, CountKept
    <2> QED
        BY <2>1, <2>2, <2>3, StepKinds, BackgroundSame DEF vars, powerVars,
           clientVars
<1> QED
    BY <1>1, <1>2, PowerInvHolds, TimerForSessionsHolds, PTL DEF Spec

(***************************************************************************)
(* A client that is counted while the callback relaxes gets no further     *)
(* than perf_mutex_.                                                       *)
(***************************************************************************)
LEMMA ClientsOnlyWait ==
    ASSUME Paired, PowerInv, TimerForSessions, OnlyWaiting, NEW c \in Clients,
           Other(c) \/ Returning(c)
    PROVE  OnlyWaiting'
<1> SUFFICES ASSUME cb' = "relaxing", NEW d \in Flying'
             PROVE  pc'[d] \in {"sustained", "drop"}
    BY DEF OnlyWaiting
<1>1. cb = "relaxing" /\ perf_owner = Bkg /\ perf_owner # NoOwner
    BY ClientsLeaveCallback, PowerAssumption DEF PowerInv, LockInv
<1>2. CASE Other(c)
    <2>1. d \in Flying /\ pc[d] \in {"sustained", "drop"} /\ d \in Clients
        BY <1>1, <1>2, OtherInFlight DEF SameFlying, OnlyWaiting, Flying
    <2>2. CASE d = c
        BY <1>1, <1>2, <2>1, <2>2
        DEF Other, CreateTimerThread, CreateNoThread, CreateThread, CreateReturn,
        DestroyLock, DropBoostedPowerConfigId, DestroyHtpPowerConfigId,
        ReleaseState, ReleaseLock, ReleaseMove, ReleaseDeInitialize, ReleaseJoin,
        Begin, SetSustainedPerformance, SustainedAbort, DropLock, DropBoostedId,
        DropInUse, DropAbort, SetPerformance, SleepAgain, powerVars, clientVars,
        LockPerf, Siblings, Id
    <2>3. CASE d # c
        BY <1>2, <2>1, <2>3
        DEF PowerInv, ClientTypeOK, Goto, Other, CreateTimerThread,
           CreateNoThread, CreateThread, CreateReturn,
        DestroyLock, DropBoostedPowerConfigId, DestroyHtpPowerConfigId,
        ReleaseState, ReleaseLock, ReleaseMove, ReleaseDeInitialize, ReleaseJoin,
        Begin, SetSustainedPerformance, SustainedAbort, DropLock, DropBoostedId,
        DropInUse, DropAbort, SetPerformance, SleepAgain, powerVars, clientVars
    <2> QED
        BY <2>2, <2>3
<1>3. CASE Returning(c)
    <2>1. /\ d \in Clients
          /\ Returns(c) \/ Onward(c)
        BY <1>3, ReturningSteps DEF PowerInv, Flying
    <2>2. CASE d # c
        <3>1. d \in Flying
            BY <1>3, <2>1, <2>2, ReturningOthers DEF Flying
        <3> QED
            BY <1>1, <2>1, <2>2, <3>1
            DEF OnlyWaiting, Returns, Onward, Moves, PowerInv, ClientTypeOK
    <2>3. CASE d = c
        <3>1. pc[c] \notin {"sustained", "drop"}
            BY <1>3
            DEF Returning, Finish, SetState, SustainedAborted, SustainedLaunch,
                SustainedApply, DropNotInUse, DropAborted, SetPerformanceApply
        <3>2. c \notin Flying /\ inflight_run_count \in Nat
            BY <1>1, <3>1 DEF OnlyWaiting, PowerInv, ClientTypeOK
        <3>3. SetState(c)
            BY <1>3, <2>3, <3>2, FlyingKept, ReturningCount, SMT
        <3>4. timer_active
            BY <3>3, PowerAssumption
            DEF PowerInv, SessionInv, Id, TimerForSessions, Paired, SetState,
               Working
        <3> QED
            BY <2>1, <2>3, <3>2, <3>3, <3>4, SetStateKinds DEF Flying
    <2> QED
        BY <2>2, <2>3
<1> QED
    BY <1>2, <1>3

(***************************************************************************)
(* While the callback relaxes, whoever is in flight waits for perf_mutex_. *)
(***************************************************************************)
THEOREM OnlyWaitingHolds ==
    ASSUME Paired
    PROVE  Spec => []OnlyWaiting
<1>1. Init => OnlyWaiting
    BY DEF Init, OnlyWaiting
<1>2. PowerInv /\ TimerForSessions /\ CountMatchesRuns /\ OnlyWaiting /\ [Next]_vars
        => OnlyWaiting'
    <2> SUFFICES ASSUME PowerInv, TimerForSessions, CountMatchesRuns, OnlyWaiting,
                        [Next]_vars
                 PROVE  OnlyWaiting'
        OBVIOUS
    <2>1. CASE UNCHANGED vars
        BY <2>1, UnchangedInFlight DEF vars, powerVars, clientVars, OnlyWaiting
    <2>2. CASE Background \/ Callback
        <3>1. Flying' = Flying /\ UNCHANGED pc
            BY <2>2, BackgroundSame, UnchangedInFlight
        <3>2. inflight_run_count = 0 => Flying = {}
            BY FS_EmptySet, FS_Subset, PowerAssumption DEF CountMatchesRuns,
               Flying
        <3> QED
            BY <2>2, <3>1, <3>2, BackgroundSame DEF OnlyWaiting
    <2> QED
        BY <2>1, <2>2, StepKinds, ClientsOnlyWait
<1> QED
    BY <1>1, <1>2, PowerInvHolds, TimerForSessionsHolds, CountMatchesRunsHolds,
       PTL
    DEF Spec

(***************************************************************************)
(* "a still-running concurrent graph is never dropped to SVS mid-          *)
(* computation" (SetSustainedPerformance, 459-461).                        *)
(***************************************************************************)
THEOREM NeverDroppedMidRunHolds ==
    ASSUME Paired
    PROVE  Spec => []NeverDroppedMidRun
<1>1. PowerInv /\ OnlyWaiting => NeverDroppedMidRun
    BY DEF PowerInv, PlanInv, OnlyWaiting, Flying, InFlight, NeverDroppedMidRun,
           Executing
<1> QED
    BY <1>1, PowerInvHolds, OnlyWaitingHolds, PTL
=============================================================================
