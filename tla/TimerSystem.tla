---------------------------- MODULE TimerSystem ----------------------------
(***************************************************************************)
(* A Timer used by threads that launch it, abort it and finally release    *)
(* it, as power::QnnHtpPowerConfigManager may: it publishes the timer only *)
(* after Initialize has returned true, and drops it with DeInitialize.     *)
(***************************************************************************)
EXTENDS Timer

VARIABLES
    published,   \* timer_ is set: Initialize returned true
    overtaken    \* history: the aborts that were waiting when DeInitialize began

systemVars == << timerVars, published, overtaken >>

TypeOK ==
    /\ TimerTypeOK
    /\ published \in BOOLEAN
    /\ overtaken \subseteq Threads

SystemInit == TimerInit /\ published = FALSE /\ overtaken = {}

NoCallInProgress == \A t \in Threads : call[t] = "none"

\* CreateTimerThread runs in one thread at a time, before the timer is known.
Create(t) ==
    /\ thread_status = "DEINIT"
    /\ NoCallInProgress
    /\ InitializeStart(t) \/ InitializeFail(t)
    /\ UNCHANGED << published, overtaken >>

Publish(t) ==
    /\ call[t] = "Initialize"
    /\ CallerReturn(t)
    /\ published' = TRUE
    /\ UNCHANGED overtaken

Launch(t) ==
    /\ published
    /\ call[t] = "none"
    /\ LaunchAccepted \/ LaunchRefused
    /\ UNCHANGED << published, overtaken >>

\* The abort works on a snapshot of timer_, which may outlive the release.
MayAbort(t) ==
    /\ call[t] = "none"
    /\ published \/ is_timer_deinit \/ bkg = "exited"

Abort(t) ==
    /\ MayAbort(t)
    /\ AbortTimerSkip \/ AbortTimerStop(t)
    /\ UNCHANGED << published, overtaken >>

AbortReturn(t) ==
    /\ call[t] = "AbortTimer"
    /\ CallerReturn(t)
    /\ overtaken' = overtaken \ {t}
    /\ UNCHANGED published

WaitAgain(t) == CallerSleepAgain(t) /\ UNCHANGED << published, overtaken >>

Release(t) ==
    /\ published
    /\ DeInitializeStart(t)
    /\ published' = FALSE
    /\ overtaken' = {u \in Threads : call[u] = "AbortTimer"}

ReleaseReturn(t) == DeInitializeJoin(t) /\ UNCHANGED << published, overtaken >>

TimerThread ==
    /\ BkgStep \/ BkgCallbackReturn
    /\ UNCHANGED << published, overtaken >>

CallerStep(t) ==
    Publish(t) \/ AbortReturn(t) \/ WaitAgain(t) \/ ReleaseReturn(t)

SystemNext ==
    \/ \E t \in Threads : \/ Create(t) \/ Launch(t) \/ Abort(t) \/ Release(t)
                          \/ CallerStep(t)
    \/ TimerThread

(***************************************************************************)
(* The background thread keeps running, the countdown ends some time, the  *)
(* callback returns.  A woken caller is given mtx_ while its predicate     *)
(* holds at least once if it can be given it again and again: AbortTimer   *)
(* waits for the state IDLE, which another thread's Launch may end before  *)
(* the aborter has seen it, so weak fairness would let it starve.  Nobody  *)
(* is obliged to make a call.                                              *)
(***************************************************************************)
SystemFairness ==
    /\ WF_systemVars(TimerThread)
    /\ \A t \in Threads :
         /\ SF_systemVars(Publish(t) \/ AbortReturn(t))
         /\ WF_systemVars(WaitAgain(t))
         /\ WF_systemVars(ReleaseReturn(t))

SystemSpec == SystemInit /\ [][SystemNext]_systemVars /\ SystemFairness

-----------------------------------------------------------------------------
(***************************************************************************)
(* Nobody sleeps through a wake-up: a thread asleep on cv_ has a false     *)
(* predicate.  Every write of thread_status_ or of a flag that can make a  *)
(* waiter's predicate true is followed by notify_all in the same critical  *)
(* section (timer.h:54, timer.cc:13, 26, 46, 59, 93).                      *)
(***************************************************************************)
NoLostWakeup ==
    /\ \A t \in Threads \cap asleep : ~CallerWaitDone
    /\ Bkg \in asleep => ~IdleWaitDone

(***************************************************************************)
(* thread_status_ tells where the background thread is: CALLING exactly    *)
(* while the callback runs, LAUNCH throughout the timed wait, and no       *)
(* status of a live thread without one.  AbortTimer's early return and     *)
(* Launch's test of IDLE rely on it.                                       *)
(***************************************************************************)
StatusTellsThread ==
    /\ thread_status = "CALLING" <=> bkg = "calling"
    /\ bkg = "launchwait" => thread_status = "LAUNCH" /\ is_timer_launched
    /\ bkg \in {"none", "start", "exited"}
         <=> thread_status \in {"DEINIT", "FAILED"}
    /\ Bkg \in asleep => bkg = "idlewait"

(***************************************************************************)
(* The inductive invariant behind both.  A launched timer keeps its        *)
(* is_timer_launched_ flag until a flag that ends the countdown is up, so  *)
(* the background thread cannot fall asleep on a launched timer.           *)
(***************************************************************************)
TimerInv ==
    /\ TypeOK
    /\ NoLostWakeup
    /\ StatusTellsThread
    /\ thread_status = "LAUNCH" => is_timer_launched \/ LaunchWaitDone

(***************************************************************************)
(* Every call of the timer returns, with a release at any moment:          *)
(* Initialize sees IDLE, DeInitialize can join, and an AbortTimer that     *)
(* begins while or after the timer is released returns at once, since no   *)
(* thread will ever reach IDLE (timer.cc:83-91).  The one exception is an  *)
(* abort that already waits when DeInitialize begins: BkgTimer then leaves *)
(* with status DEINIT and no notify_all (timer.cc:36-40), and the aborter, *)
(* which waits for IDLE, may sleep for ever, although the comments at      *)
(* timer.cc:83-86 and qnn_htp_power_config_manager.cc:690-692 say that the *)
(* abort can never hang.                                                   *)
(***************************************************************************)
CallsReturn ==
    \A t \in Threads : call[t] # "none" ~> call[t] = "none" \/ t \in overtaken

(***************************************************************************)
(* A countdown comes to an end: the timer does not stay in LAUNCH.         *)
(***************************************************************************)
CountdownEnds == thread_status = "LAUNCH" ~> thread_status # "LAUNCH"
=============================================================================
