------------------------------- MODULE Timer -------------------------------
(***************************************************************************)
(* class power::Timer (builder/timer.h, builder/timer.cc): one background  *)
(* thread that counts down and calls back, and the calls that other        *)
(* threads make on it.                                                     *)
(*                                                                         *)
(* Everything the class does happens under its mutex mtx_, which a thread  *)
(* gives up only inside a wait on cv_ or around the callback, so one       *)
(* critical section is one action.  A wait on cv_ is modelled by the set   *)
(* asleep: a thread that finds its predicate false joins it, notify_all    *)
(* empties it, and a thread that is no longer in it looks at its predicate *)
(* again.                                                                  *)
(*                                                                         *)
(* The actions change the timer's variables only: HtpPowerConfigManager    *)
(* composes them with the code of the threads that call the timer.         *)
(***************************************************************************)
EXTENDS Naturals, FiniteSets

CONSTANTS Threads,   \* the threads that call the timer
          Bkg        \* bkg_thread_

ASSUME BkgAssumption == Bkg \notin Threads

VARIABLES
    thread_status,        \* thread_status_
    is_timer_stopped,     \* is_timer_stopped_
    is_timer_deinit,      \* is_timer_deinit_
    is_timer_launched,    \* is_timer_launched_
    bkg,                  \* where bkg_thread_ is in BkgTimer
    call,                 \* call[t]: the blocking call of the timer t is in
    asleep                \* threads asleep on cv_

timerVars == << thread_status, is_timer_stopped, is_timer_deinit,
                is_timer_launched, bkg, call, asleep >>

threadState == {"IDLE", "LAUNCH", "CALLING", "DEINIT", "FAILED"}
BkgPc == {"none", "start", "top", "idlewait", "launchwait", "calling", "exited"}
Calls == {"none", "Initialize", "AbortTimer", "DeInitialize"}

TimerTypeOK ==
    /\ thread_status \in threadState
    /\ is_timer_stopped \in BOOLEAN
    /\ is_timer_deinit \in BOOLEAN
    /\ is_timer_launched \in BOOLEAN
    /\ bkg \in BkgPc
    /\ call \in [Threads -> Calls]
    /\ asleep \subseteq Threads \cup {Bkg}

\* The state the constructor leaves: no thread yet.
TimerInit ==
    /\ thread_status = "DEINIT"
    /\ is_timer_stopped = FALSE
    /\ is_timer_deinit = FALSE
    /\ is_timer_launched = FALSE
    /\ bkg = "none"
    /\ call = [t \in Threads |-> "none"]
    /\ asleep = {}

\* The owner destroys this Timer and constructs another one.
TimerReplaced ==
    /\ thread_status' = "DEINIT"
    /\ is_timer_stopped' = FALSE
    /\ is_timer_deinit' = FALSE
    /\ is_timer_launched' = FALSE
    /\ bkg' = "none"
    /\ call' = [t \in Threads |-> "none"]
    /\ asleep' = {}

-----------------------------------------------------------------------------
(***************************************************************************)
(* The wait predicates.                                                    *)
(***************************************************************************)
\* Mutant: the idle wait does not look at is_timer_launched_.
IdleWaitDoneNoLaunch == is_timer_stopped \/ is_timer_deinit
IdleWaitDone   == is_timer_launched \/ is_timer_stopped \/ is_timer_deinit
LaunchWaitDone == is_timer_stopped \/ is_timer_deinit
CallerWaitDone == thread_status = "IDLE"

NotifyAll == asleep' = {}

(***************************************************************************)
(* Initialize: start the thread and wait until it says IDLE.  The creation *)
(* of the thread can fail.                                                 *)
(***************************************************************************)
InitializeStart(t) ==
    /\ bkg = "none"
    /\ call[t] = "none"
    /\ bkg' = "start"
    /\ call' = [call EXCEPT ![t] = "Initialize"]
    /\ asleep' = asleep \cup {t}
    /\ UNCHANGED << thread_status, is_timer_stopped, is_timer_deinit,
                    is_timer_launched >>

InitializeFail(t) ==
    /\ bkg = "none"
    /\ call[t] = "none"
    /\ thread_status' = "FAILED"
    /\ UNCHANGED << is_timer_stopped, is_timer_deinit, is_timer_launched, bkg,
                    call, asleep >>

(***************************************************************************)
(* Launch: accepted in state IDLE only; TimerInUse.                        *)
(***************************************************************************)
\* Mutant: Launch forgets cv_.notify_all().
LaunchAcceptedNoNotify ==
    /\ thread_status = "IDLE"
    /\ thread_status' = "LAUNCH"
    /\ is_timer_launched' = TRUE
    /\ UNCHANGED << is_timer_stopped, is_timer_deinit, bkg, call, asleep >>

LaunchAccepted ==
    /\ thread_status = "IDLE"
    /\ thread_status' = "LAUNCH"
    /\ is_timer_launched' = TRUE
    /\ NotifyAll
    /\ UNCHANGED << is_timer_stopped, is_timer_deinit, bkg, call >>

LaunchRefused ==
    /\ thread_status # "IDLE"
    /\ UNCHANGED timerVars

TimerInUse == thread_status \in {"LAUNCH", "CALLING"}

(***************************************************************************)
(* AbortTimer: returns at once when no thread will ever become IDLE, else  *)
(* raises the stop flag and waits for IDLE (which may hold already).       *)
(***************************************************************************)
\* Mutant: only a de-initialisation under way is noticed.
NoRunningThreadDeinitOnly == is_timer_deinit \/ thread_status = "FAILED"

NoRunningThread == is_timer_deinit \/ thread_status \in {"DEINIT", "FAILED"}

AbortTimerSkip ==
    /\ NoRunningThread
    /\ UNCHANGED timerVars

AbortTimerStop(t) ==
    /\ ~NoRunningThread
    /\ call[t] = "none"
    /\ is_timer_stopped' = TRUE
    /\ call' = [call EXCEPT ![t] = "AbortTimer"]
    /\ asleep' = IF CallerWaitDone THEN {} ELSE {t}
    /\ UNCHANGED << thread_status, is_timer_deinit, is_timer_launched, bkg >>

\* A caller woken in Initialize or AbortTimer looks at its predicate again.
CallerReturn(t) ==
    /\ call[t] \in {"Initialize", "AbortTimer"}
    /\ t \notin asleep
    /\ CallerWaitDone
    /\ call' = [call EXCEPT ![t] = "none"]
    /\ UNCHANGED << thread_status, is_timer_stopped, is_timer_deinit,
                    is_timer_launched, bkg, asleep >>

CallerSleepAgain(t) ==
    /\ call[t] \in {"Initialize", "AbortTimer"}
    /\ t \notin asleep
    /\ ~CallerWaitDone
    /\ asleep' = asleep \cup {t}
    /\ UNCHANGED << thread_status, is_timer_stopped, is_timer_deinit,
                    is_timer_launched, bkg, call >>

(***************************************************************************)
(* DeInitialize: raise the flag, then join the thread if there is one.     *)
(***************************************************************************)
DeInitializeStart(t) ==
    /\ call[t] = "none"
    /\ is_timer_deinit' = TRUE
    /\ NotifyAll
    /\ call' = [call EXCEPT ![t] = "DeInitialize"]
    /\ UNCHANGED << thread_status, is_timer_stopped, is_timer_launched, bkg >>

DeInitializeJoin(t) ==
    /\ call[t] = "DeInitialize"
    /\ bkg \in {"none", "exited"}
    /\ call' = [call EXCEPT ![t] = "none"]
    /\ UNCHANGED << thread_status, is_timer_stopped, is_timer_deinit,
                    is_timer_launched, bkg, asleep >>

-----------------------------------------------------------------------------
(***************************************************************************)
(* BkgTimer, the background thread.                                        *)
(***************************************************************************)
BkgStart ==
    /\ bkg = "start"
    /\ thread_status' = "IDLE"
    /\ NotifyAll
    /\ bkg' = "top"
    /\ UNCHANGED << is_timer_stopped, is_timer_deinit, is_timer_launched, call >>

\* In the loop, status IDLE and nothing to do: wait on cv_.
BkgSleep ==
    /\ \/ bkg = "top"
       \/ bkg = "idlewait" /\ Bkg \notin asleep
    /\ thread_status = "IDLE"
    /\ ~IdleWaitDone
    /\ bkg' = "idlewait"
    /\ asleep' = asleep \cup {Bkg}
    /\ UNCHANGED << thread_status, is_timer_stopped, is_timer_deinit,
                    is_timer_launched, call >>

\* Past the wait: the rest of the loop body starts here.
BkgAwake ==
    \/ bkg = "top" /\ (thread_status # "IDLE" \/ IdleWaitDone)
    \/ bkg = "idlewait" /\ Bkg \notin asleep /\ IdleWaitDone

BkgExit ==
    /\ BkgAwake
    /\ is_timer_deinit
    /\ thread_status' = "DEINIT"
    /\ is_timer_deinit' = FALSE
    /\ bkg' = "exited"
    /\ UNCHANGED << is_timer_stopped, is_timer_launched, call, asleep >>

\* The stop flag is taken: back to IDLE, whatever the state was.
BkgStop ==
    /\ BkgAwake
    /\ ~is_timer_deinit
    /\ is_timer_stopped
    /\ thread_status' = "IDLE"
    /\ is_timer_stopped' = FALSE
    /\ NotifyAll
    /\ bkg' = "top"
    /\ UNCHANGED << is_timer_deinit, is_timer_launched, call >>

\* Neither flag: count down if launched, else go round the loop once more.
BkgCountDown ==
    /\ BkgAwake
    /\ ~LaunchWaitDone
    /\ thread_status = "LAUNCH"
    /\ bkg' = "launchwait"
    /\ UNCHANGED << thread_status, is_timer_stopped, is_timer_deinit,
                    is_timer_launched, call, asleep >>

BkgSpin ==
    /\ BkgAwake
    /\ ~LaunchWaitDone
    /\ thread_status # "LAUNCH"
    /\ bkg' = "top"
    /\ UNCHANGED << thread_status, is_timer_stopped, is_timer_deinit,
                    is_timer_launched, call, asleep >>

\* wait_until gives up: the time is over and nobody stopped the timer.
BkgElapsed ==
    /\ bkg = "launchwait"
    /\ ~LaunchWaitDone
    /\ thread_status' = "CALLING"
    /\ bkg' = "calling"
    /\ UNCHANGED << is_timer_stopped, is_timer_deinit, is_timer_launched, call,
                    asleep >>

\* wait_until ends early: stopped or de-initialised.
BkgInterrupted ==
    /\ bkg = "launchwait"
    /\ LaunchWaitDone
    /\ is_timer_launched' = FALSE
    /\ bkg' = "top"
    /\ UNCHANGED << thread_status, is_timer_stopped, is_timer_deinit, call,
                    asleep >>

\* The callback has returned.
BkgCallbackReturn ==
    /\ bkg = "calling"
    /\ thread_status' = "IDLE"
    /\ is_timer_launched' = FALSE
    /\ NotifyAll
    /\ bkg' = "top"
    /\ UNCHANGED << is_timer_stopped, is_timer_deinit, call >>

\* Every step of the background thread outside the callback.
BkgStep ==
    \/ BkgStart \/ BkgSleep \/ BkgExit \/ BkgStop \/ BkgCountDown \/ BkgSpin
    \/ BkgElapsed \/ BkgInterrupted
=============================================================================
