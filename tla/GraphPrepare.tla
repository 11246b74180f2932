---------------------------- MODULE GraphPrepare ----------------------------
(***************************************************************************)
(* QnnEp::CompileOnnxModel: the graphs of a session are composed one after *)
(* the other and finalized either in the same loop or, with several        *)
(* prepare threads or at least five graphs, by a QnnJobThreadPool.  What   *)
(* must not go wrong is between the threads: the pool is destroyed before  *)
(* the models its jobs point to, the HTP stays boosted while any graph is  *)
(* finalized, and a result is read only after its job has written it.      *)
(***************************************************************************)
EXTENDS JobThreadPool

VARIABLES
    pc,                 \* where CompileOnnxModel is
    idx,                \* the index of the loop it is in
    count,              \* how many graphs there are to compile
    num_threads,        \* num_graph_prepare_threads_
    model,              \* the QnnModel of each graph
    result,             \* GraphFinalizationInfo::result is OK (it is by default)
    boosted,            \* the vote of the HtpPowerStateGuard (its id is valid)
    relax_failed,       \* history: the guard's destructor could not relax it
    qnn_models,         \* graphs whose model went to qnn_models_
    status              \* what CompileOnnxModel returns

clientVars ==
    << pc, idx, count, num_threads, model, result, boosted, relax_failed,
       qnn_models, status >>

vars == << poolVars, clientVars >>

Points == {"compose", "pre", "finalize", "post", "setup", "start", "preBatch",
           "submit", "wait", "postBatch", "stop", "join", "consume", "returned"}

ModelStates == {"none", "composed", "finalized", "failed", "destroyed"}

\* The types of all variables.
TypeOK ==
    /\ PoolTypeOK
    /\ pc \in Points
    /\ idx \in Nat
    /\ count \in 0..NumJobs
    /\ num_threads \in 1..MaxThreads
    /\ model \in [Jobs -> ModelStates]
    /\ result \in [Jobs -> BOOLEAN]
    /\ boosted \in BOOLEAN
    /\ relax_failed \in BOOLEAN
    /\ qnn_models \subseteq Jobs
    /\ status \in {"none", "ok", "error"}

Init ==
    /\ PoolInit
    /\ pc = "compose"
    /\ idx = 1
    /\ count \in 1..NumJobs
    /\ num_threads \in 1..MaxThreads
    /\ model = [g \in Jobs |-> "none"]
    /\ result = [g \in Jobs |-> TRUE]
    /\ boosted = FALSE
    /\ relax_failed = FALSE
    /\ qnn_models = {}
    /\ status = "none"

use_multithreaded_prepare == count >= 5 \/ num_threads > 1

\* Leaving the function destroys the models that were not moved away.
Return(s) ==
    /\ pc' = "returned"
    /\ status' = s
    /\ model' = [g \in Jobs |->
                    IF g \in qnn_models THEN model[g] ELSE "destroyed"]

\* SetState(INIT_DONE) succeeds: the vote is relaxed.
Relaxed == boosted' = FALSE /\ UNCHANGED relax_failed

\* ~HtpPowerStateGuard: the done state once more, its error ignored.  A call that
\* fails may have changed the vote or not.
GuardEnds ==
    \/ Relaxed
    \/ boosted' \in BOOLEAN /\ relax_failed' = TRUE

----------------------------------------------------------------------------
(* Composing, and the single-threaded loop. *)

ComposeGraph ==
    /\ pc = "compose" /\ idx <= count
    /\ UNCHANGED << poolVars, count, num_threads, result, boosted, relax_failed,
                    qnn_models >>
    /\ \/ /\ model' = [model EXCEPT ![idx] = "composed"]
          /\ IF use_multithreaded_prepare
               THEN idx' = idx + 1 /\ UNCHANGED pc
               ELSE pc' = "pre" /\ UNCHANGED idx
          /\ UNCHANGED status
       \/ Return("error") /\ UNCHANGED idx

\* SetPreRunHtpPerfStatus; when it fails the guard ends at once.
PreRun ==
    /\ pc = "pre"
    /\ UNCHANGED << poolVars, idx, count, num_threads, result, qnn_models >>
    /\ \/ /\ pc' = "finalize" /\ boosted' = TRUE
          /\ UNCHANGED << model, status, relax_failed >>
       \/ Return("error") /\ GuardEnds

FinalizeGraphs ==
    /\ pc = "finalize"
    /\ UNCHANGED << poolVars, idx, count, num_threads, result, qnn_models >>
    /\ \/ /\ pc' = "post"
          /\ model' = [model EXCEPT ![idx] = "finalized"]
          /\ UNCHANGED << boosted, relax_failed, status >>
       \/ Return("error") /\ GuardEnds

PostRunAlwaysFinalized ==
    /\ pc = "post"
    /\ UNCHANGED << poolVars, idx, count, num_threads, result, relax_failed,
                    qnn_models >>
    /\ \/ pc' = "setup" /\ boosted' = FALSE /\ UNCHANGED << model, status >>
       \/ Return("error") /\ boosted' \in BOOLEAN

\* SetPostRunHtpPerf; when it fails finalized_ stays false and the guard tries
\* again as it ends.
PostRun ==
    /\ pc = "post"
    /\ UNCHANGED << poolVars, idx, count, num_threads, result, qnn_models >>
    /\ \/ pc' = "setup" /\ Relaxed /\ UNCHANGED << model, status >>
       \/ Return("error") /\ GuardEnds

\* SetupQnnInputOutput, and the model goes to qnn_models_.
Publish ==
    /\ pc = "setup"
    /\ UNCHANGED << poolVars, count, num_threads, result, boosted, relax_failed >>
    /\ \/ /\ qnn_models' = qnn_models \union {idx}
          /\ pc' = "compose"
          /\ idx' = idx + 1
          /\ UNCHANGED << model, status >>
       \/ Return("error") /\ UNCHANGED << idx, qnn_models >>

ComposeDone ==
    /\ pc = "compose" /\ idx > count
    /\ UNCHANGED << count, num_threads, result, boosted, relax_failed, qnn_models >>
    /\ IF use_multithreaded_prepare
         THEN /\ Start
              /\ pc' = "start"
              /\ idx' = 0
              /\ UNCHANGED << model, status >>
         ELSE Return("ok") /\ UNCHANGED << poolVars, idx >>

----------------------------------------------------------------------------
(* The multi-threaded branch. *)

StartThreads ==
    /\ pc = "start"
    /\ IF idx < num_threads
         THEN ThreadStart(idx) /\ idx' = idx + 1 /\ UNCHANGED pc
         ELSE pc' = "preBatch" /\ UNCHANGED << poolVars, idx >>
    /\ UNCHANGED << count, num_threads, model, result, boosted, relax_failed,
                    qnn_models, status >>

\* An early return from here on destroys the guard, the pool and the models, in
\* this order; it goes through "stop" with the error in status.
PreRunBatch ==
    /\ pc = "preBatch"
    /\ idx' = 1
    /\ \/ pc' = "submit" /\ boosted' = TRUE /\ UNCHANGED << status, relax_failed >>
       \/ pc' = "stop" /\ GuardEnds /\ status' = "error"
    /\ UNCHANGED << poolVars, count, num_threads, model, result, qnn_models >>

SubmitJobs ==
    /\ pc = "submit"
    /\ IF idx <= count
         THEN SubmitJob(idx) /\ idx' = idx + 1 /\ UNCHANGED pc
         ELSE pc' = "wait" /\ UNCHANGED << poolVars, idx >>
    /\ UNCHANGED << count, num_threads, model, result, boosted, relax_failed,
                    qnn_models, status >>

WaitForQueuedJobsToFinish ==
    /\ pc = "wait"
    /\ \/ WaitDone /\ pc' = "postBatch"
       \/ WaitSleep /\ UNCHANGED pc
    /\ UNCHANGED << idx, count, num_threads, model, result, boosted, relax_failed,
                    qnn_models, status >>

PostRunBatch ==
    /\ pc = "postBatch"
    /\ pc' = "stop"
    /\ \/ status' = "none" /\ Relaxed
       \/ status' = "error" /\ GuardEnds
    /\ UNCHANGED << poolVars, idx, count, num_threads, model, result,
                    qnn_models >>

StopPool ==
    /\ pc = "stop"
    /\ Stop
    /\ pc' = "join"
    /\ idx' = 0
    /\ UNCHANGED << count, num_threads, model, result, boosted, relax_failed,
                    qnn_models, status >>

\* Each thread is stopped and joined before the next one is stopped.
JoinThreads ==
    /\ pc = "join"
    /\ UNCHANGED << count, num_threads, result, boosted, relax_failed, qnn_models >>
    /\ \/ /\ idx < num_threads
          /\ \/ ThreadStop(idx) /\ UNCHANGED idx
             \/ ThreadJoin(idx) /\ idx' = idx + 1
          /\ UNCHANGED << pc, model, status >>
       \/ /\ idx = num_threads
          /\ IF status = "error"
               THEN Return("error") /\ UNCHANGED idx
               ELSE pc' = "consume" /\ idx' = 1 /\ UNCHANGED << model, status >>
          /\ UNCHANGED poolVars

ConsumeIgnoringResult ==
    /\ pc = "consume"
    /\ UNCHANGED << poolVars, count, num_threads, result, boosted, relax_failed >>
    /\ \/ /\ idx <= count
          /\ qnn_models' = qnn_models \union {idx}
          /\ idx' = idx + 1
          /\ UNCHANGED << pc, model, status >>
       \/ /\ idx > count
          /\ UNCHANGED << idx, qnn_models >>
          /\ Return("ok")

\* The first result that is not OK, or a failing SetupQnnInputOutput, ends it.
ConsumeResults ==
    /\ pc = "consume"
    /\ UNCHANGED << poolVars, count, num_threads, result, boosted, relax_failed >>
    /\ \/ /\ idx <= count
          /\ result[idx]
          /\ qnn_models' = qnn_models \union {idx}
          /\ idx' = idx + 1
          /\ UNCHANGED << pc, model, status >>
       \/ /\ idx <= count
          /\ UNCHANGED << idx, qnn_models >>
          /\ Return("error")
       \/ /\ idx > count
          /\ UNCHANGED << idx, qnn_models >>
          /\ Return("ok")

\* The job of a graph on a worker: *res = qnn_model->FinalizeGraphs(logger).
RunJob(t) ==
    /\ JobReturns(t)
    /\ \E ok \in BOOLEAN :
         /\ result' = [result EXCEPT ![job[t]] = ok]
         /\ model' = [model EXCEPT ![job[t]] =
                         IF ok THEN "finalized" ELSE "failed"]
    /\ UNCHANGED << pc, idx, count, num_threads, boosted, relax_failed, qnn_models,
                    status >>

Compile ==
    \/ ComposeGraph \/ PreRun \/ FinalizeGraphs \/ PostRun \/ Publish
    \/ ComposeDone \/ StartThreads \/ PreRunBatch \/ SubmitJobs
    \/ WaitForQueuedJobsToFinish \/ PostRunBatch \/ StopPool \/ JoinThreads
    \/ ConsumeResults

PoolLoop(t) ==
    /\ \/ GetJobFromQueueIfExists(t) \/ NotifyJobFinished(t)
       \/ WaitForJobQueueUpdate(t) \/ CheckStopped(t)
    /\ UNCHANGED clientVars

Worker(t) == RunJob(t) \/ PoolLoop(t)

\* The condition variable may wake its waiter for no reason.
SpuriousWakeup ==
    /\ asleep /\ asleep' = FALSE
    /\ UNCHANGED << job_queue, in_flight_jobs, running, thread_stopped, at, job >>
    /\ UNCHANGED clientVars

Returned == pc = "returned" /\ UNCHANGED vars

Next == Compile \/ (\E t \in Threads : Worker(t)) \/ SpuriousWakeup \/ Returned

Spec ==
    /\ Init /\ [][Next]_vars
    /\ WF_vars(Compile)
    /\ \A t \in Threads : WF_vars(Worker(t))

----------------------------------------------------------------------------
\* A worker only finalizes a graph that is composed, not finalized before and not
\* destroyed: jobs point to models CompileOnnxModel owns and may leave early.
JobsUseComposedModels ==
    \A t \in Threads : at[t] = "job" => model[job[t]] = "composed"

\* The HTP is boosted as long as any worker finalizes a graph: there is one vote
\* for the whole batch, given back after WaitForQueuedJobsToFinish.
BoostedWhileFinalizing ==
    \A t \in Threads : at[t] = "job" => boosted

\* Only finalized models reach qnn_models_, although a result nobody has written
\* reads as OK, and CompileOnnxModel returns OK only with all of them.
PublishedAreFinalized ==
    /\ \A g \in qnn_models : model[g] = "finalized"
    /\ status = "ok" => qnn_models = 1..count

\* When CompileOnnxModel has returned, by whichever of its returns, no thread of
\* the pool is left, and a boost only if the guard's own, last attempt to relax it
\* failed: the done call of the body may fail, the guard then makes it again.
NothingLeftBehind ==
    pc = "returned" =>
      /\ boosted => relax_failed
      /\ \A t \in Threads : at[t] = "none"

\* From the start of the pool to the join of its last thread.
PoolPoints ==
    {"start", "preBatch", "submit", "wait", "postBatch", "stop", "join"}

Busy == {t \in Threads : at[t] \in {"job", "notify"}}

Submitted == IF pc = "submit" THEN idx - 1 ELSE count

\* The queue is first in, first out, so the jobs taken are 1..Taken.
Taken == Submitted - Len(job_queue)

Finished(g) == model[g] \in {"finalized", "failed"}

LoopInv ==
    /\ pc \in {"compose", "submit", "consume"} => idx \in 1..(count + 1)
    /\ pc \in {"pre", "finalize", "post", "setup"} =>
         idx \in 1..count /\ ~ use_multithreaded_prepare
    /\ pc \in {"start", "join"} => idx \in 0..num_threads

ThreadInv ==
    /\ in_flight_jobs = Cardinality(Busy)
    /\ pc \notin {"submit", "wait"} => job_queue = << >> /\ Busy = {}
    /\ \A t \in Threads : at[t] # "none" =>
         /\ pc \in PoolPoints
         /\ t < num_threads
         /\ pc = "start" => t < idx
         /\ pc = "join" => t >= idx
    /\ pc \in {"finalize", "post", "submit", "wait", "postBatch"} => boosted
    /\ boosted =>
         relax_failed \/ pc \in {"finalize", "post", "submit", "wait", "postBatch"}

\* Each submitted job is in the queue, on one worker, or finished.
QueueInv ==
    pc \in {"submit", "wait"} =>
      /\ Taken >= 0
      /\ \A i \in 1..Len(job_queue) : job_queue[i] = Taken + i
      /\ \A t \in Threads : at[t] = "job" =>
           job[t] \in 1..Taken /\ model[job[t]] = "composed"
      /\ \A t, u \in Threads :
           at[t] = "job" /\ at[u] = "job" /\ job[t] = job[u] => t = u
      /\ \A g \in 1..Taken :
           Finished(g) \/ \E t \in Threads : at[t] = "job" /\ job[t] = g
      /\ \A g \in (Taken + 1)..count : model[g] = "composed"

ModelInv ==
    /\ \A g \in Jobs : model[g] = "failed" => ~ result[g]
    /\ \A g \in qnn_models : model[g] = "finalized"
    /\ pc \in {"post", "setup"} => model[idx] = "finalized"
    /\ pc = "compose" /\ use_multithreaded_prepare =>
         qnn_models = {} /\ \A g \in 1..(idx - 1) : model[g] = "composed"
    /\ \/ pc \in {"pre", "finalize", "post", "setup", "consume"}
       \/ pc = "compose" /\ ~ use_multithreaded_prepare
       => qnn_models = 1..(idx - 1)
    /\ pc \in {"start", "preBatch"} => \A g \in 1..count : model[g] = "composed"
    /\ pc \in PoolPoints =>
         qnn_models = {}
    /\ pc \in {"postBatch", "stop", "join", "consume"} /\ status = "none" =>
         \A g \in 1..count : Finished(g)
    /\ pc \notin {"stop", "join", "returned"} => status = "none"
    /\ status = "ok" => pc = "returned" /\ qnn_models = 1..count

\* Types, and how the queue, the workers and the models go together while the
\* batch is finalized: no job is lost, and none is run twice.
PrepareInv == TypeOK /\ LoopInv /\ ThreadInv /\ QueueInv /\ ModelInv

\* CompileOnnxModel returns: neither the wait for the jobs nor the join of a
\* thread waits for ever.
CompileReturns == <>(pc = "returned")
=============================================================================
