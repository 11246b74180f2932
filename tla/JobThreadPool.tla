--------------------------- MODULE JobThreadPool ---------------------------
(***************************************************************************)
(* thread::QnnJobThreadPool (builder/qnn_thread_pool.{h,cc}): worker       *)
(* threads that take jobs from one queue, for the single thread that       *)
(* starts the pool, submits the jobs, waits for them and stops the pool.   *)
(* Sections of queue_mutex_ and of thread_state_mutex_ are one action      *)
(* each.                                                                   *)
(***************************************************************************)
EXTENDS Integers, Sequences, FiniteSets

CONSTANTS NumJobs,      \* how many jobs there are to submit
          MaxThreads    \* bound on max_num_threads

ASSUME PoolAssumption == NumJobs \in Nat /\ MaxThreads \in Nat \ {0}

Jobs == 1..NumJobs

NoJob == 0

Threads == 0..(MaxThreads - 1)

VARIABLES
    job_queue,          \* Seq(Jobs)
    in_flight_jobs,     \* jobs taken from the queue and not yet notified
    running,            \* running_
    thread_stopped,     \* thread_stopped_ of each QnnJobThread
    at,                 \* where the loop of each thread is; "none": no thread_
    job,                \* the job a thread has taken, or NoJob
    asleep              \* the submitter sleeps on jobs_finished_cv_

poolVars ==
    << job_queue, in_flight_jobs, running, thread_stopped, at, job, asleep >>

Places == {"none", "get", "job", "notify", "wait", "check", "exited"}

PoolTypeOK ==
    /\ job_queue \in Seq(Jobs)
    /\ in_flight_jobs \in Nat
    /\ running \in BOOLEAN
    /\ thread_stopped \in [Threads -> BOOLEAN]
    /\ at \in [Threads -> Places]
    /\ job \in [Threads -> Jobs \union {NoJob}]
    /\ asleep \in BOOLEAN

PoolInit ==
    /\ job_queue = << >>
    /\ in_flight_jobs = 0
    /\ running = FALSE
    /\ thread_stopped = [t \in Threads |-> TRUE]
    /\ at = [t \in Threads |-> "none"]
    /\ job = [t \in Threads |-> NoJob]
    /\ asleep = FALSE

----------------------------------------------------------------------------
(* The loop of a worker. *)

GetJobWithoutPop(t) ==
    /\ at[t] = "get"
    /\ IF job_queue # << >>
         THEN /\ job' = [job EXCEPT ![t] = Head(job_queue)]
              /\ job_queue' = IF Len(job_queue) = 1 THEN << >> ELSE job_queue
              /\ in_flight_jobs' = in_flight_jobs + 1
              /\ at' = [at EXCEPT ![t] = "job"]
         ELSE /\ at' = [at EXCEPT ![t] = "wait"]
              /\ UNCHANGED << job, job_queue, in_flight_jobs >>
    /\ UNCHANGED << running, thread_stopped, asleep >>

\* nullptr when the queue is empty, and the thread goes on to wait.
GetJobFromQueueIfExists(t) ==
    /\ at[t] = "get"
    /\ IF job_queue # << >>
         THEN /\ job' = [job EXCEPT ![t] = Head(job_queue)]
              /\ job_queue' = Tail(job_queue)
              /\ in_flight_jobs' = in_flight_jobs + 1
              /\ at' = [at EXCEPT ![t] = "job"]
         ELSE /\ at' = [at EXCEPT ![t] = "wait"]
              /\ UNCHANGED << job, job_queue, in_flight_jobs >>
    /\ UNCHANGED << running, thread_stopped, asleep >>

\* job() itself; what it does is up to the user of the pool.
JobReturns(t) ==
    /\ at[t] = "job"
    /\ at' = [at EXCEPT ![t] = "notify"]
    /\ UNCHANGED << job_queue, in_flight_jobs, running, thread_stopped, job,
                    asleep >>

NotifyNobody(t) ==
    /\ at[t] = "notify"
    /\ in_flight_jobs' = in_flight_jobs - 1
    /\ at' = [at EXCEPT ![t] = "check"]
    /\ job' = [job EXCEPT ![t] = NoJob]
    /\ UNCHANGED << job_queue, running, thread_stopped, asleep >>

NotifyJobFinished(t) ==
    /\ at[t] = "notify"
    /\ in_flight_jobs' = in_flight_jobs - 1
    /\ asleep' = FALSE
    /\ at' = [at EXCEPT ![t] = "check"]
    /\ job' = [job EXCEPT ![t] = NoJob]
    /\ UNCHANGED << job_queue, running, thread_stopped >>

\* The wait ends when a job is submitted, when the thread is stopped, or after
\* 200 ms, so it may end in every state.
WaitForJobQueueUpdate(t) ==
    /\ at[t] = "wait"
    /\ at' = [at EXCEPT ![t] = "check"]
    /\ UNCHANGED << job_queue, in_flight_jobs, running, thread_stopped, job,
                    asleep >>

CheckStopped(t) ==
    /\ at[t] = "check"
    /\ at' = [at EXCEPT ![t] = IF thread_stopped[t] THEN "exited" ELSE "get"]
    /\ UNCHANGED << job_queue, in_flight_jobs, running, thread_stopped, job,
                    asleep >>

----------------------------------------------------------------------------
(* The thread that owns the pool. *)

Start ==
    /\ ~ running
    /\ running' = TRUE
    /\ UNCHANGED << job_queue, in_flight_jobs, thread_stopped, at, job, asleep >>

ThreadStart(t) ==
    /\ at[t] = "none" /\ thread_stopped[t]
    /\ thread_stopped' = [thread_stopped EXCEPT ![t] = FALSE]
    /\ at' = [at EXCEPT ![t] = "get"]
    /\ UNCHANGED << job_queue, in_flight_jobs, running, job, asleep >>

SubmitJob(j) ==
    /\ job_queue' = Append(job_queue, j)
    /\ UNCHANGED << in_flight_jobs, running, thread_stopped, at, job, asleep >>

QueueEmpty == job_queue = << >>

AllFinished == job_queue = << >> /\ in_flight_jobs = 0

\* WaitForQueuedJobsToFinish: the wait returns at once or falls asleep, and
\* looks at its predicate again after every notification.
WaitDone ==
    /\ running
    /\ ~ asleep
    /\ AllFinished
    /\ UNCHANGED poolVars

WaitSleep ==
    /\ running
    /\ ~ asleep
    /\ ~ AllFinished
    /\ asleep' = TRUE
    /\ UNCHANGED << job_queue, in_flight_jobs, running, thread_stopped, at, job >>

Stop ==
    /\ running
    /\ running' = FALSE
    /\ UNCHANGED << job_queue, in_flight_jobs, thread_stopped, at, job, asleep >>

ThreadStop(t) ==
    /\ at[t] # "none" /\ ~ thread_stopped[t]
    /\ thread_stopped' = [thread_stopped EXCEPT ![t] = TRUE]
    /\ UNCHANGED << job_queue, in_flight_jobs, running, at, job, asleep >>

ThreadJoin(t) ==
    /\ thread_stopped[t] /\ at[t] = "exited"
    /\ at' = [at EXCEPT ![t] = "none"]
    /\ UNCHANGED << job_queue, in_flight_jobs, running, thread_stopped, job,
                    asleep >>
=============================================================================
