------------------------- MODULE GraphPrepareProofs -------------------------
(***************************************************************************)
(* Proofs about GraphPrepare, for any number of graphs and threads.        *)
(* PrepareInv holds in the initial states and is kept by the steps of the  *)
(* batch (jobs are submitted, taken, run, reported and waited for between  *)
(* the two votes, and the pool stops) and by the other steps of            *)
(* CompileOnnxModel; the properties follow from it.                        *)
(***************************************************************************)
EXTENDS GraphPrepare, FiniteSetTheorems, TLAPS

\* Leaves are for Zenon unless they name another prover.
USE Zenon

\* The set of busy workers is finite, so that counting it makes sense.
LEMMA BusyFinite ==
    /\ IsFiniteSet(Busy) /\ Cardinality(Busy) \in Nat
    /\ Cardinality(Busy) = 0 <=> Busy = {}
<1>1. IsFiniteSet(Threads)
  BY FS_Interval, PoolAssumption, SMT DEF Threads
<1>2. IsFiniteSet(Busy)
  BY <1>1, FS_Subset DEF Busy
<1> QED
  BY <1>2, FS_CardinalityType, FS_EmptySet

\* A worker that takes a job, and one that has reported it, change the count of
\* busy workers by one, as in_flight_jobs_ does.
LEMMA BusyChanges ==
    ASSUME NEW t \in Threads, NEW p \in Places, TypeOK,
           at' = [at EXCEPT ![t] = p]
    PROVE  /\ at[t] \in {"job", "notify"} /\ p \notin {"job", "notify"} =>
                Cardinality(Busy') = Cardinality(Busy) - 1
           /\ at[t] \notin {"job", "notify"} /\ p \in {"job", "notify"} =>
                Cardinality(Busy') = Cardinality(Busy) + 1
           /\ (at[t] \in {"job", "notify"} <=> p \in {"job", "notify"}) =>
                Busy' = Busy
<1>1. /\ at[t] \in {"job", "notify"} /\ p \notin {"job", "notify"} =>
           t \in Busy /\ Busy' = Busy \ {t}
      /\ at[t] \notin {"job", "notify"} /\ p \in {"job", "notify"} =>
           t \notin Busy /\ Busy' = Busy \union {t}
      /\ (at[t] \in {"job", "notify"} <=> p \in {"job", "notify"}) => Busy' = Busy
  BY DEF Busy, TypeOK, PoolTypeOK
<1> QED
  BY <1>1, BusyFinite, FS_AddElement, FS_RemoveElement

\* Initially nothing is composed, queued or running.
LEMMA InitPrepareInv == Init => PrepareInv
<1> SUFFICES ASSUME Init PROVE PrepareInv
  OBVIOUS
<1> USE PoolAssumption DEF Init, PoolInit
<1>1. Busy = {}
  BY DEF Busy
<1>2. TypeOK
  <2>1. PoolTypeOK
    <3>1. job_queue \in Seq(Jobs) /\ in_flight_jobs \in Nat
      BY SMT
    <3>2. /\ at \in [Threads -> Places]
          /\ thread_stopped \in [Threads -> BOOLEAN]
          /\ job \in [Threads -> Jobs \union {NoJob}]
      BY DEF Places
    <3> QED
      BY <3>1, <3>2 DEF PoolTypeOK
  <2>2. /\ pc \in Points /\ idx \in Nat
        /\ num_threads \in 1..MaxThreads
        /\ boosted \in BOOLEAN /\ relax_failed \in BOOLEAN
        /\ status \in {"none", "ok", "error"}
    BY DEF Points
  <2>4. count \in 0..NumJobs
    BY SMT
  <2>3. /\ model \in [Jobs -> ModelStates]
        /\ result \in [Jobs -> BOOLEAN]
        /\ qnn_models \subseteq Jobs
    BY DEF ModelStates
  <2> QED
    BY <2>1, <2>2, <2>3, <2>4 DEF TypeOK
<1>3. LoopInv
  BY SMT DEF LoopInv
<1>4. ThreadInv
  BY <1>1, BusyFinite DEF ThreadInv, PoolPoints
<1>5. QueueInv /\ ModelInv
  BY SMT DEF QueueInv, ModelInv, PoolPoints
<1> QED
  BY <1>2, <1>3, <1>4, <1>5 DEF PrepareInv

\* The job taken from the queue is the one after those taken before, so no other
\* worker has it.
LEMMA GetJobFromQueueIfExistsKeepsInv ==
    ASSUME PrepareInv, NEW t \in Threads, GetJobFromQueueIfExists(t), UNCHANGED clientVars
    PROVE  PrepareInv'
<1> USE PoolAssumption DEF PrepareInv, GetJobFromQueueIfExists, clientVars
<1>1. TypeOK'
  <2>1. PoolTypeOK'
    <3>1. job_queue # << >> => Head(job_queue) \in Jobs /\ Tail(job_queue) \in Seq(Jobs)
      BY SMT DEF TypeOK, PoolTypeOK
    <3> QED
      <4>1. in_flight_jobs' \in Nat
        BY SMT DEF TypeOK, PoolTypeOK
      <4>2. /\ job_queue' \in Seq(Jobs)
            /\ job' \in [Threads -> Jobs \union {NoJob}]
        BY <3>1, SMTT(30) DEF TypeOK, PoolTypeOK
      <4>3. at' \in [Threads -> Places]
        BY DEF TypeOK, PoolTypeOK, Places
      <4> QED
        BY <4>1, <4>2, <4>3 DEF TypeOK, PoolTypeOK
  <2>2. /\ model' \in [Jobs -> ModelStates]
        /\ result' \in [Jobs -> BOOLEAN]
        /\ qnn_models' \subseteq Jobs
    BY DEF TypeOK, ModelStates, Jobs, LoopInv
  <2>3. /\ pc' \in Points /\ idx' \in Nat
        /\ count' \in 0..NumJobs /\ num_threads' \in 1..MaxThreads
        /\ boosted' \in BOOLEAN /\ relax_failed' \in BOOLEAN
        /\ status' \in {"none", "ok", "error"}
    BY DEF TypeOK, Points
  <2> QED
    BY <2>1, <2>2, <2>3 DEF TypeOK
<1>2. LoopInv'
  BY SMTT(30) DEF LoopInv, use_multithreaded_prepare
<1>4. ThreadInv'
  BY BusyChanges, BusyFinite DEF ThreadInv, PoolPoints, TypeOK, PoolTypeOK,
     LoopInv, Places, Busy
<1>5. QueueInv'
  <2>1. CASE job_queue = << >>
    <3>1. Taken' = Taken
      BY <2>1 DEF Taken, Submitted
    <3> QED
      BY <2>1, <3>1, SMT DEF QueueInv, Finished, TypeOK, PoolTypeOK
  <2>2. CASE job_queue # << >>
    <3> USE DEF TypeOK, PoolTypeOK
    <3>1. pc \in {"submit", "wait"}
      BY <2>2 DEF ThreadInv
    <3>2. /\ Len(job_queue) \in Nat \ {0} /\ Submitted \in Int
          /\ Head(job_queue) = job_queue[1]
          /\ Len(Tail(job_queue)) = Len(job_queue) - 1
          /\ \A i \in 1..(Len(job_queue) - 1) : Tail(job_queue)[i] = job_queue[i + 1]
      BY <2>2, SMT DEF Submitted
    <3>3. Taken' = Taken + 1 /\ Taken \in Int /\ Taken >= 0 /\ Taken < Submitted
      <4>1. Submitted' = Submitted /\ Len(job_queue') = Len(job_queue) - 1
        BY <2>2, <3>2 DEF Submitted
      <4>2. Taken >= 0
        BY <3>1 DEF QueueInv
      <4> QED
        BY <3>2, <4>1, <4>2, SMTT(30) DEF Taken
    <3>4. Head(job_queue) = Taken + 1 /\ Taken + 1 <= count
      BY <3>1, <3>2, <3>3, SMT DEF QueueInv, Submitted, LoopInv
    <3>5. \A i \in 1..Len(job_queue') : job_queue'[i] = Taken' + i
      <4>1. job_queue' = Tail(job_queue)
        BY <2>2
      <4>2. \A i \in 1..Len(job_queue) : job_queue[i] = Taken + i
        BY <3>1 DEF QueueInv
      <4> QED
        BY <3>2, <3>3, <4>1, <4>2, SMT
    <3>6. \A u \in Threads : at'[u] = "job" =>
            job'[u] \in 1..Taken' /\ model'[job'[u]] = "composed"
      BY <2>2, <3>1, <3>3, <3>4, SMTT(30) DEF QueueInv
    <3>7. \A u, v \in Threads :
            at'[u] = "job" /\ at'[v] = "job" /\ job'[u] = job'[v] => u = v
      BY <2>2, <3>1, <3>3, <3>4, SMTT(30) DEF QueueInv
    <3>8. \A g \in 1..Taken' :
            Finished(g)' \/ \E u \in Threads : at'[u] = "job" /\ job'[u] = g
      <4> SUFFICES ASSUME NEW g \in 1..Taken'
                   PROVE  Finished(g)' \/ \E u \in Threads : at'[u] = "job" /\ job'[u] = g
        OBVIOUS
      <4>1. CASE g = Taken + 1
        <5>1. at'[t] = "job" /\ job'[t] = g
          BY <2>2, <3>4, <4>1
        <5> QED
          BY <5>1
      <4>2. CASE g \in 1..Taken
        <5>1. Finished(g) \/ \E u \in Threads : at[u] = "job" /\ job[u] = g
          BY <3>1, <4>2 DEF QueueInv
        <5> QED
          BY <2>2, <5>1, SMTT(30) DEF Finished
      <4> QED
        BY <3>3, <4>1, <4>2, SMT
    <3>9. \A g \in (Taken' + 1)..count' : model'[g] = "composed"
      BY <3>1, <3>3, SMTT(30) DEF QueueInv
    <3> QED
      BY <3>3, <3>5, <3>6, <3>7, <3>8, <3>9, SMT DEF QueueInv
  <2> QED
    BY <2>1, <2>2
<1>6. ModelInv'
  BY DEF ModelInv, Finished, use_multithreaded_prepare
<1> QED
  BY <1>1, <1>2, <1>4, <1>5, <1>6

\* A worker finalizes its own graph only.
LEMMA RunJobKeepsInv ==
    ASSUME PrepareInv, NEW t \in Threads, RunJob(t) PROVE PrepareInv'
<1> USE PoolAssumption DEF PrepareInv, RunJob, JobReturns
<1>1. TypeOK'
  <2>1. PoolTypeOK'
    BY DEF TypeOK, PoolTypeOK, Places, Jobs, NoJob, LoopInv, Threads
  <2>2. /\ model' \in [Jobs -> ModelStates]
        /\ result' \in [Jobs -> BOOLEAN]
        /\ qnn_models' \subseteq Jobs
    BY DEF TypeOK, ModelStates, Jobs, LoopInv
  <2>3. /\ pc' \in Points /\ idx' \in Nat
        /\ count' \in 0..NumJobs /\ num_threads' \in 1..MaxThreads
        /\ boosted' \in BOOLEAN /\ relax_failed' \in BOOLEAN
        /\ status' \in {"none", "ok", "error"}
    BY DEF TypeOK, Points
  <2> QED
    BY <2>1, <2>2, <2>3 DEF TypeOK
<1>2. LoopInv'
  BY DEF LoopInv, use_multithreaded_prepare
<1>4. ThreadInv'
  BY BusyChanges, BusyFinite DEF ThreadInv, PoolPoints, TypeOK, PoolTypeOK,
     LoopInv, Places, Busy
<1>5. QueueInv'
  BY SMT DEF QueueInv, Taken, Submitted, Finished, TypeOK, PoolTypeOK, LoopInv,
     Jobs
<1>6. ModelInv'
  <2>1. pc \in {"submit", "wait"} /\ job[t] \in Jobs /\ qnn_models = {}
    <3>1. pc \in {"submit", "wait"}
      BY DEF ThreadInv, Busy
    <3> QED
      BY <3>1, SMT
      DEF ModelInv, PoolPoints, QueueInv, Taken, Submitted, TypeOK, PoolTypeOK,
          LoopInv, Jobs
  <2> QED
    BY <2>1 DEF ModelInv, TypeOK
<1> QED
  BY <1>1, <1>2, <1>4, <1>5, <1>6

\* A worker reports its job.
LEMMA NotifyJobFinishedKeepsInv ==
    ASSUME PrepareInv, NEW t \in Threads, NotifyJobFinished(t), UNCHANGED clientVars
    PROVE  PrepareInv'
<1> USE PoolAssumption DEF PrepareInv, NotifyJobFinished, clientVars
<1>1. TypeOK'
  <2>1. PoolTypeOK'
    <3>1. in_flight_jobs' \in Nat
      <4>1. t \in Busy
        BY DEF Busy
      <4> QED
        BY <4>1, BusyFinite, SMT DEF ThreadInv, PoolPoints
    <3> QED
      BY <3>1 DEF TypeOK, PoolTypeOK, Places
  <2>2. /\ model' \in [Jobs -> ModelStates]
        /\ result' \in [Jobs -> BOOLEAN]
        /\ qnn_models' \subseteq Jobs
    BY DEF TypeOK, ModelStates, Jobs, LoopInv
  <2>3. /\ pc' \in Points /\ idx' \in Nat
        /\ count' \in 0..NumJobs /\ num_threads' \in 1..MaxThreads
        /\ boosted' \in BOOLEAN /\ relax_failed' \in BOOLEAN
        /\ status' \in {"none", "ok", "error"}
    BY DEF TypeOK, Points
  <2> QED
    BY <2>1, <2>2, <2>3 DEF TypeOK
<1>2. LoopInv'
  BY DEF LoopInv, use_multithreaded_prepare
<1>4. ThreadInv'
  BY BusyChanges, BusyFinite DEF ThreadInv, PoolPoints, TypeOK, PoolTypeOK,
     LoopInv, Places, Busy
<1>5. QueueInv'
  BY SMT DEF QueueInv, Taken, Submitted, Finished, TypeOK, PoolTypeOK
<1>6. ModelInv'
  BY DEF ModelInv, Finished, use_multithreaded_prepare
<1> QED
  BY <1>1, <1>2, <1>4, <1>5, <1>6

\* A worker looks at its stop flag.
LEMMA CheckStoppedKeepsInv ==
    ASSUME PrepareInv, NEW t \in Threads, CheckStopped(t), UNCHANGED clientVars
    PROVE  PrepareInv'
<1> USE PoolAssumption DEF PrepareInv, CheckStopped, clientVars
<1>1. TypeOK'
  <2>1. PoolTypeOK'
    BY DEF TypeOK, PoolTypeOK, Places, Jobs, NoJob, LoopInv, Threads
  <2>2. /\ model' \in [Jobs -> ModelStates]
        /\ result' \in [Jobs -> BOOLEAN]
        /\ qnn_models' \subseteq Jobs
    BY SMTT(30) DEF TypeOK, ModelStates, Jobs, LoopInv
  <2>3. /\ pc' \in Points /\ idx' \in Nat
        /\ count' \in 0..NumJobs /\ num_threads' \in 1..MaxThreads
        /\ boosted' \in BOOLEAN /\ relax_failed' \in BOOLEAN
        /\ status' \in {"none", "ok", "error"}
    BY DEF TypeOK, Points
  <2> QED
    BY <2>1, <2>2, <2>3 DEF TypeOK
<1>2. LoopInv'
  BY SMTT(30) DEF LoopInv, use_multithreaded_prepare
<1>4. ThreadInv'
  BY BusyChanges, BusyFinite DEF ThreadInv, PoolPoints, TypeOK, PoolTypeOK,
     LoopInv, Places, Busy
<1>5. QueueInv'
  BY SMTT(30) DEF QueueInv, Taken, Submitted, Finished, TypeOK, PoolTypeOK
<1>6. ModelInv'
  BY DEF ModelInv, Finished, use_multithreaded_prepare
<1> QED
  BY <1>1, <1>2, <1>4, <1>5, <1>6

\* A worker waits.
LEMMA WaitForJobQueueUpdateKeepsInv ==
    ASSUME PrepareInv, NEW t \in Threads, WaitForJobQueueUpdate(t), UNCHANGED clientVars
    PROVE  PrepareInv'
<1> USE PoolAssumption DEF PrepareInv, WaitForJobQueueUpdate, clientVars
<1>1. TypeOK'
  <2>1. PoolTypeOK'
    BY DEF TypeOK, PoolTypeOK, Places, Jobs, NoJob, LoopInv, Threads
  <2>2. /\ model' \in [Jobs -> ModelStates]
        /\ result' \in [Jobs -> BOOLEAN]
        /\ qnn_models' \subseteq Jobs
    BY DEF TypeOK, ModelStates, Jobs, LoopInv
  <2>3. /\ pc' \in Points /\ idx' \in Nat
        /\ count' \in 0..NumJobs /\ num_threads' \in 1..MaxThreads
        /\ boosted' \in BOOLEAN /\ relax_failed' \in BOOLEAN
        /\ status' \in {"none", "ok", "error"}
    BY DEF TypeOK, Points
  <2> QED
    BY <2>1, <2>2, <2>3 DEF TypeOK
<1>2. LoopInv'
  BY SMTT(30) DEF LoopInv, use_multithreaded_prepare
<1>4. ThreadInv'
  BY BusyChanges, BusyFinite DEF ThreadInv, PoolPoints, TypeOK, PoolTypeOK,
     LoopInv, Places, Busy
<1>5. QueueInv'
  BY SMT DEF QueueInv, Taken, Submitted, Finished, TypeOK, PoolTypeOK
<1>6. ModelInv'
  BY DEF ModelInv, Finished, use_multithreaded_prepare
<1> QED
  BY <1>1, <1>2, <1>4, <1>5, <1>6

\* A submitted job is the next number at the end of the queue.
LEMMA SubmitJobsKeepsInv ==
    ASSUME PrepareInv, SubmitJobs PROVE PrepareInv'
<1> USE PoolAssumption DEF PrepareInv, SubmitJobs, SubmitJob, poolVars
<1>1. TypeOK'
  <2>1. PoolTypeOK'
    <3>1. idx <= count => idx \in Jobs
      BY SMT DEF LoopInv, TypeOK, Jobs
    <3> QED
      BY <3>1, SMT DEF TypeOK, PoolTypeOK
  <2>2. /\ model' \in [Jobs -> ModelStates]
        /\ result' \in [Jobs -> BOOLEAN]
        /\ qnn_models' \subseteq Jobs
    BY DEF TypeOK, ModelStates, Jobs, LoopInv
  <2>3. /\ pc' \in Points /\ idx' \in Nat
        /\ count' \in 0..NumJobs /\ num_threads' \in 1..MaxThreads
        /\ boosted' \in BOOLEAN /\ relax_failed' \in BOOLEAN
        /\ status' \in {"none", "ok", "error"}
    BY SMT DEF TypeOK, Points
  <2> QED
    BY <2>1, <2>2, <2>3 DEF TypeOK
<1>2. LoopInv'
  BY SMTT(30) DEF LoopInv, TypeOK, PoolTypeOK, use_multithreaded_prepare, Jobs,
     Threads
<1>3. Busy' = Busy
  BY BusyChanges DEF Busy, TypeOK, PoolTypeOK, Places, LoopInv, Threads,
     ThreadInv
<1>4. ThreadInv'
  BY <1>3, BusyFinite
  DEF ThreadInv, PoolPoints, TypeOK, PoolTypeOK, LoopInv, Threads
<1>5. QueueInv'
  <2> USE DEF TypeOK, PoolTypeOK
  <2>1. CASE idx <= count
    <3>0. /\ Len(job_queue) \in Nat /\ Len(job_queue') = Len(job_queue) + 1
          /\ \A i \in 1..Len(job_queue) : job_queue'[i] = job_queue[i]
          /\ job_queue'[Len(job_queue) + 1] = idx
      BY <2>1, SMT
    <3>1. Taken' = Taken /\ Taken \in Int /\ Taken + Len(job_queue) = idx - 1
      BY <2>1, <3>0, SMT DEF Taken, Submitted
    <3>2. \A i \in 1..Len(job_queue') : job_queue'[i] = Taken' + i
      <4>1. \A i \in 1..Len(job_queue) : job_queue'[i] = Taken' + i
        BY <3>0, <3>1 DEF QueueInv
      <4>2. job_queue'[Len(job_queue) + 1] = Taken' + (Len(job_queue) + 1)
        BY <3>0, <3>1, SMT
      <4>3. \A i \in 1..Len(job_queue') : i \in 1..Len(job_queue) \/ i = Len(job_queue) + 1
        BY <3>0, SMT
      <4> QED
        BY <4>1, <4>2, <4>3
    <3> QED
      BY <2>1, <3>1, <3>2, SMT DEF QueueInv, Finished
  <2>2. CASE idx > count
    <3>1. Taken' = Taken
      BY <2>2, SMT DEF Taken, Submitted, LoopInv
    <3> QED
      BY <2>2, <3>1, SMT DEF QueueInv, Finished
  <2> QED
    BY <2>1, <2>2, SMT
<1>6. ModelInv'
  BY DEF ModelInv, PoolPoints, Finished, use_multithreaded_prepare, TypeOK,
         LoopInv, Jobs
<1> QED
  BY <1>1, <1>2, <1>4, <1>5, <1>6

\* The wait ends with an empty queue and no busy worker, so every graph is
\* finalized or has failed.
LEMMA WaitForQueuedJobsToFinishKeepsInv ==
    ASSUME PrepareInv, WaitForQueuedJobsToFinish PROVE PrepareInv'
<1> USE PoolAssumption DEF PrepareInv, WaitForQueuedJobsToFinish, WaitDone, WaitSleep, AllFinished, poolVars
<1>1. TypeOK'
  <2>1. PoolTypeOK'
    BY DEF TypeOK, PoolTypeOK, Places, Jobs, NoJob, LoopInv, Threads
  <2>2. /\ model' \in [Jobs -> ModelStates]
        /\ result' \in [Jobs -> BOOLEAN]
        /\ qnn_models' \subseteq Jobs
    BY DEF TypeOK, ModelStates, Jobs, LoopInv
  <2>3. /\ pc' \in Points /\ idx' \in Nat
        /\ count' \in 0..NumJobs /\ num_threads' \in 1..MaxThreads
        /\ boosted' \in BOOLEAN /\ relax_failed' \in BOOLEAN
        /\ status' \in {"none", "ok", "error"}
    BY DEF TypeOK, Points
  <2> QED
    BY <2>1, <2>2, <2>3 DEF TypeOK
<1>2. LoopInv'
  BY DEF LoopInv, TypeOK, PoolTypeOK, use_multithreaded_prepare, Jobs, Threads
<1>3. Busy' = Busy
  BY BusyChanges DEF Busy, TypeOK, PoolTypeOK, Places, LoopInv, Threads,
     ThreadInv
<1>4. ThreadInv'
  BY <1>3, BusyFinite
  DEF ThreadInv, PoolPoints, TypeOK, PoolTypeOK, LoopInv, Threads
<1>5. QueueInv'
  <2>1. pc' = "wait" => Taken' = Taken
    BY DEF Taken, Submitted
  <2> QED
    BY <2>1, SMT DEF QueueInv, Finished
<1>6. ModelInv'
  <2>1. CASE pc' = "postBatch"
    <3>1. Taken = count /\ Busy = {}
      BY <2>1, BusyFinite, SMT DEF Taken, Submitted, ThreadInv, TypeOK
    <3>2. \A g \in 1..count : Finished(g)
      BY <3>1 DEF QueueInv, Busy
    <3> QED
      BY <2>1, <3>2 DEF ModelInv, PoolPoints, Finished
  <2>2. CASE pc' = pc
    BY <2>2 DEF ModelInv, PoolPoints, Finished
  <2> QED
    BY <2>1, <2>2
<1> QED
  BY <1>1, <1>2, <1>4, <1>5, <1>6

\* The boost before the batch; no job is submitted if it fails.
LEMMA PreRunBatchKeepsInv ==
    ASSUME PrepareInv, PreRunBatch PROVE PrepareInv'
<1> USE PoolAssumption DEF PrepareInv, PreRunBatch, Relaxed, GuardEnds, poolVars
<1>1. TypeOK'
  <2>1. PoolTypeOK'
    BY DEF TypeOK, PoolTypeOK, Places, Jobs, NoJob, LoopInv, Threads
  <2>2. /\ model' \in [Jobs -> ModelStates]
        /\ result' \in [Jobs -> BOOLEAN]
        /\ qnn_models' \subseteq Jobs
    BY DEF TypeOK, ModelStates, Jobs, LoopInv
  <2>3. /\ pc' \in Points /\ idx' \in Nat
        /\ count' \in 0..NumJobs /\ num_threads' \in 1..MaxThreads
        /\ boosted' \in BOOLEAN /\ relax_failed' \in BOOLEAN
        /\ status' \in {"none", "ok", "error"}
    BY DEF TypeOK, Points
  <2> QED
    BY <2>1, <2>2, <2>3 DEF TypeOK
<1>2. LoopInv'
  BY SMT DEF LoopInv, TypeOK, PoolTypeOK, use_multithreaded_prepare, Jobs, Threads
<1>3. Busy' = Busy
  BY BusyChanges DEF Busy, TypeOK, PoolTypeOK, Places, LoopInv, Threads,
     ThreadInv
<1>4. ThreadInv'
  BY <1>3, BusyFinite
  DEF ThreadInv, PoolPoints, TypeOK, PoolTypeOK, LoopInv, Threads
<1>5. QueueInv'
  <2>1. job_queue = << >> /\ Busy = {} /\ \A g \in 1..count : model[g] = "composed"
    BY DEF ThreadInv, ModelInv
  <2>2. CASE pc' = "submit"
    <3>1. Len(job_queue') = 0 /\ Submitted' = 0
      BY <2>1, <2>2, SMT DEF Submitted
    <3>2. Taken' = 0
      BY <3>1, SMT DEF Taken
    <3> QED
      BY <2>1, <3>1, <3>2, SMT DEF QueueInv, Busy, TypeOK
  <2> QED
    BY <2>2 DEF QueueInv
<1>6. ModelInv'
  BY DEF ModelInv, PoolPoints, Finished, use_multithreaded_prepare, TypeOK,
         LoopInv, Jobs
<1> QED
  BY <1>1, <1>2, <1>4, <1>5, <1>6

\* The end of the boost of the batch, when no worker is busy.
LEMMA PostRunBatchKeepsInv ==
    ASSUME PrepareInv, PostRunBatch PROVE PrepareInv'
<1> USE PoolAssumption DEF PrepareInv, PostRunBatch, Relaxed, GuardEnds, poolVars
<1>1. TypeOK'
  <2>1. PoolTypeOK'
    BY DEF TypeOK, PoolTypeOK, Places, Jobs, NoJob, LoopInv, Threads
  <2>2. /\ model' \in [Jobs -> ModelStates]
        /\ result' \in [Jobs -> BOOLEAN]
        /\ qnn_models' \subseteq Jobs
    BY DEF TypeOK, ModelStates, Jobs, LoopInv
  <2>3. /\ pc' \in Points /\ idx' \in Nat
        /\ count' \in 0..NumJobs /\ num_threads' \in 1..MaxThreads
        /\ boosted' \in BOOLEAN /\ relax_failed' \in BOOLEAN
        /\ status' \in {"none", "ok", "error"}
    BY DEF TypeOK, Points
  <2> QED
    BY <2>1, <2>2, <2>3 DEF TypeOK
<1>2. LoopInv'
  BY DEF LoopInv, TypeOK, PoolTypeOK, use_multithreaded_prepare, Jobs, Threads
<1>3. Busy' = Busy
  BY BusyChanges DEF Busy, TypeOK, PoolTypeOK, Places, LoopInv, Threads,
     ThreadInv
<1>4. ThreadInv'
  BY <1>3, BusyFinite
  DEF ThreadInv, PoolPoints, TypeOK, PoolTypeOK, LoopInv, Threads
<1>5. QueueInv'
  BY DEF QueueInv
<1>6. ModelInv'
  BY DEF ModelInv, PoolPoints, Finished, use_multithreaded_prepare, TypeOK,
         LoopInv, Jobs
<1> QED
  BY <1>1, <1>2, <1>4, <1>5, <1>6

\* The pool stops.
LEMMA StopPoolKeepsInv ==
    ASSUME PrepareInv, StopPool PROVE PrepareInv'
<1> USE PoolAssumption DEF PrepareInv, StopPool, Stop, poolVars
<1>1. TypeOK'
  <2>1. PoolTypeOK'
    BY DEF TypeOK, PoolTypeOK, Places, Jobs, NoJob, LoopInv, Threads
  <2>2. /\ model' \in [Jobs -> ModelStates]
        /\ result' \in [Jobs -> BOOLEAN]
        /\ qnn_models' \subseteq Jobs
    BY DEF TypeOK, ModelStates, Jobs, LoopInv
  <2>3. /\ pc' \in Points /\ idx' \in Nat
        /\ count' \in 0..NumJobs /\ num_threads' \in 1..MaxThreads
        /\ boosted' \in BOOLEAN /\ relax_failed' \in BOOLEAN
        /\ status' \in {"none", "ok", "error"}
    BY DEF TypeOK, Points
  <2> QED
    BY <2>1, <2>2, <2>3 DEF TypeOK
<1>2. LoopInv'
  BY SMT DEF LoopInv, TypeOK, PoolTypeOK, use_multithreaded_prepare, Jobs, Threads
<1>3. Busy' = Busy
  BY BusyChanges DEF Busy, TypeOK, PoolTypeOK, Places, LoopInv, Threads,
     ThreadInv
<1>4. ThreadInv'
  BY <1>3, BusyFinite, SMT
  DEF ThreadInv, PoolPoints, TypeOK, PoolTypeOK, LoopInv, Threads
<1>5. QueueInv'
  BY DEF QueueInv
<1>6. ModelInv'
  BY DEF ModelInv, PoolPoints, Finished, use_multithreaded_prepare, TypeOK,
         LoopInv, Jobs
<1> QED
  BY <1>1, <1>2, <1>4, <1>5, <1>6

\* How the set of graphs done so far grows with the index of a loop.
LEMMA IntervalGrows ==
    1..(1 - 1) = {} /\ \A n \in Nat : (1..(n - 1)) \union {n} = 1..n \/ n = 0
BY SMT

\* Composing a graph puts it among the composed ones or ends the compilation.
LEMMA ComposeGraphKeepsInv ==
    ASSUME PrepareInv, ComposeGraph PROVE PrepareInv'
<1> USE PoolAssumption DEF PrepareInv, ComposeGraph, Return, poolVars
<1>1. TypeOK'
  <2>1. PoolTypeOK'
    BY DEF TypeOK, PoolTypeOK, Places, Jobs, NoJob, LoopInv, Threads
  <2>2. /\ model' \in [Jobs -> ModelStates]
        /\ result' \in [Jobs -> BOOLEAN]
        /\ qnn_models' \subseteq Jobs
    BY DEF TypeOK, ModelStates, Jobs, LoopInv
  <2>3. /\ pc' \in Points /\ idx' \in Nat
        /\ count' \in 0..NumJobs /\ num_threads' \in 1..MaxThreads
        /\ boosted' \in BOOLEAN /\ relax_failed' \in BOOLEAN
        /\ status' \in {"none", "ok", "error"}
    BY SMT DEF TypeOK, Points
  <2> QED
    BY <2>1, <2>2, <2>3 DEF TypeOK
<1>2. LoopInv'
  BY SMT DEF LoopInv, TypeOK, PoolTypeOK, use_multithreaded_prepare, Jobs, Threads
<1>3. Busy' = Busy
  BY BusyChanges DEF Busy, TypeOK, PoolTypeOK, Places, LoopInv, Threads,
     ThreadInv
<1>4. ThreadInv'
  BY <1>3, BusyFinite
  DEF ThreadInv, PoolPoints, TypeOK, PoolTypeOK, LoopInv, Threads
<1>5. QueueInv'
  BY DEF QueueInv
<1>6. ModelInv'
  BY SMT DEF ModelInv, PoolPoints, Finished, use_multithreaded_prepare, TypeOK,
         LoopInv, Jobs
<1> QED
  BY <1>1, <1>2, <1>4, <1>5, <1>6

\* The boost before a single graph is finalized.
LEMMA PreRunKeepsInv ==
    ASSUME PrepareInv, PreRun PROVE PrepareInv'
<1> USE PoolAssumption DEF PrepareInv, PreRun, Return, Relaxed, GuardEnds, poolVars
<1>1. TypeOK'
  <2>1. PoolTypeOK'
    BY DEF TypeOK, PoolTypeOK, Places, Jobs, NoJob, LoopInv, Threads
  <2>2. /\ model' \in [Jobs -> ModelStates]
        /\ result' \in [Jobs -> BOOLEAN]
        /\ qnn_models' \subseteq Jobs
    BY DEF TypeOK, ModelStates, Jobs, LoopInv
  <2>3. /\ pc' \in Points /\ idx' \in Nat
        /\ count' \in 0..NumJobs /\ num_threads' \in 1..MaxThreads
        /\ boosted' \in BOOLEAN /\ relax_failed' \in BOOLEAN
        /\ status' \in {"none", "ok", "error"}
    BY DEF TypeOK, Points
  <2> QED
    BY <2>1, <2>2, <2>3 DEF TypeOK
<1>2. LoopInv'
  BY DEF LoopInv, TypeOK, PoolTypeOK, use_multithreaded_prepare, Jobs, Threads
<1>3. Busy' = Busy
  BY BusyChanges DEF Busy, TypeOK, PoolTypeOK, Places, LoopInv, Threads,
     ThreadInv
<1>4. ThreadInv'
  BY <1>3, BusyFinite
  DEF ThreadInv, PoolPoints, TypeOK, PoolTypeOK, LoopInv, Threads
<1>5. QueueInv'
  BY DEF QueueInv
<1>6. ModelInv'
  BY DEF ModelInv, PoolPoints, Finished, use_multithreaded_prepare, TypeOK,
         LoopInv, Jobs
<1> QED
  BY <1>1, <1>2, <1>4, <1>5, <1>6

\* Finalizing a graph in the loop.
LEMMA FinalizeGraphsKeepsInv ==
    ASSUME PrepareInv, FinalizeGraphs PROVE PrepareInv'
<1> USE PoolAssumption DEF PrepareInv, FinalizeGraphs, Return, Relaxed, GuardEnds, poolVars
<1>1. TypeOK'
  <2>1. PoolTypeOK'
    BY DEF TypeOK, PoolTypeOK, Places, Jobs, NoJob, LoopInv, Threads
  <2>2. /\ model' \in [Jobs -> ModelStates]
        /\ result' \in [Jobs -> BOOLEAN]
        /\ qnn_models' \subseteq Jobs
    BY DEF TypeOK, ModelStates, Jobs, LoopInv
  <2>3. /\ pc' \in Points /\ idx' \in Nat
        /\ count' \in 0..NumJobs /\ num_threads' \in 1..MaxThreads
        /\ boosted' \in BOOLEAN /\ relax_failed' \in BOOLEAN
        /\ status' \in {"none", "ok", "error"}
    BY DEF TypeOK, Points
  <2> QED
    BY <2>1, <2>2, <2>3 DEF TypeOK
<1>2. LoopInv'
  BY DEF LoopInv, TypeOK, PoolTypeOK, use_multithreaded_prepare, Jobs, Threads
<1>3. Busy' = Busy
  BY BusyChanges DEF Busy, TypeOK, PoolTypeOK, Places, LoopInv, Threads,
     ThreadInv
<1>4. ThreadInv'
  BY <1>3, BusyFinite
  DEF ThreadInv, PoolPoints, TypeOK, PoolTypeOK, LoopInv, Threads
<1>5. QueueInv'
  BY DEF QueueInv
<1>6. ModelInv'
  <2>1. CASE pc' = "post"
    BY <2>1, IntervalGrows, SMT
    DEF ModelInv, PoolPoints, Finished, use_multithreaded_prepare, TypeOK,
        LoopInv, Jobs
  <2>2. CASE pc' = "returned"
    BY <2>2 DEF ModelInv, PoolPoints, Finished, TypeOK, Jobs
  <2> QED
    BY <2>1, <2>2
<1> QED
  BY <1>1, <1>2, <1>4, <1>5, <1>6

\* The end of the boost of a single graph.
LEMMA PostRunKeepsInv ==
    ASSUME PrepareInv, PostRun PROVE PrepareInv'
<1> USE PoolAssumption DEF PrepareInv, PostRun, Return, Relaxed, GuardEnds, poolVars
<1>1. TypeOK'
  <2>1. PoolTypeOK'
    BY DEF TypeOK, PoolTypeOK, Places, Jobs, NoJob, LoopInv, Threads
  <2>2. /\ model' \in [Jobs -> ModelStates]
        /\ result' \in [Jobs -> BOOLEAN]
        /\ qnn_models' \subseteq Jobs
    BY DEF TypeOK, ModelStates, Jobs, LoopInv
  <2>3. /\ pc' \in Points /\ idx' \in Nat
        /\ count' \in 0..NumJobs /\ num_threads' \in 1..MaxThreads
        /\ boosted' \in BOOLEAN /\ relax_failed' \in BOOLEAN
        /\ status' \in {"none", "ok", "error"}
    BY DEF TypeOK, Points
  <2> QED
    BY <2>1, <2>2, <2>3 DEF TypeOK
<1>2. LoopInv'
  BY DEF LoopInv, TypeOK, PoolTypeOK, use_multithreaded_prepare, Jobs, Threads
<1>3. Busy' = Busy
  BY BusyChanges DEF Busy, TypeOK, PoolTypeOK, Places, LoopInv, Threads,
     ThreadInv
<1>4. ThreadInv'
  BY <1>3, BusyFinite
  DEF ThreadInv, PoolPoints, TypeOK, PoolTypeOK, LoopInv, Threads
<1>5. QueueInv'
  BY DEF QueueInv
<1>6. ModelInv'
  <2>1. CASE pc' = "setup"
    BY <2>1, IntervalGrows
    DEF ModelInv, PoolPoints, Finished, use_multithreaded_prepare, TypeOK,
        LoopInv, Jobs
  <2>2. CASE pc' = "returned"
    BY <2>2 DEF ModelInv, PoolPoints, Finished, TypeOK, Jobs
  <2> QED
    BY <2>1, <2>2
<1> QED
  BY <1>1, <1>2, <1>4, <1>5, <1>6

\* A finalized model goes to qnn_models_, in the order of the loop.
LEMMA PublishKeepsInv ==
    ASSUME PrepareInv, Publish PROVE PrepareInv'
<1> USE PoolAssumption DEF PrepareInv, Publish, Return, poolVars
<1>1. TypeOK'
  <2>1. PoolTypeOK'
    BY DEF TypeOK, PoolTypeOK, Places, Jobs, NoJob, LoopInv, Threads
  <2>2. /\ model' \in [Jobs -> ModelStates]
        /\ result' \in [Jobs -> BOOLEAN]
    BY DEF TypeOK, ModelStates
  <2>4. qnn_models' \subseteq Jobs
    <3>1. CASE qnn_models' = qnn_models
      BY <3>1 DEF TypeOK
    <3>2. CASE qnn_models' = qnn_models \union {idx} /\ idx \in 1..count
      BY <3>2, SMT DEF TypeOK, Jobs
    <3> QED
      BY <3>1, <3>2 DEF LoopInv, TypeOK
  <2>3. /\ pc' \in Points /\ idx' \in Nat
        /\ count' \in 0..NumJobs /\ num_threads' \in 1..MaxThreads
        /\ boosted' \in BOOLEAN /\ relax_failed' \in BOOLEAN
        /\ status' \in {"none", "ok", "error"}
    BY SMT DEF TypeOK, Points
  <2> QED
    BY <2>1, <2>2, <2>3, <2>4 DEF TypeOK
<1>2. LoopInv'
  BY SMT DEF LoopInv, TypeOK, PoolTypeOK, use_multithreaded_prepare, Jobs, Threads
<1>3. Busy' = Busy
  BY BusyChanges DEF Busy, TypeOK, PoolTypeOK, Places, LoopInv, Threads,
     ThreadInv
<1>4. ThreadInv'
  BY <1>3, BusyFinite
  DEF ThreadInv, PoolPoints, TypeOK, PoolTypeOK, LoopInv, Threads
<1>5. QueueInv'
  BY DEF QueueInv
<1>6. ModelInv'
  <2>1. CASE pc' = "compose"
    <3>1. qnn_models' = (1..(idx - 1)) \union {idx} /\ model[idx] = "finalized"
      BY <2>1 DEF ModelInv
    <3>2. idx' - 1 = idx /\ idx \in Nat /\ idx # 0 /\ ~ use_multithreaded_prepare'
      BY <2>1, SMT DEF LoopInv, TypeOK, use_multithreaded_prepare
    <3>3. qnn_models' = 1..(idx' - 1)
      BY <3>1, <3>2, IntervalGrows
    <3> QED
      BY <2>1, <3>1, <3>2, <3>3 DEF ModelInv, PoolPoints
  <2>2. CASE pc' = "returned"
    BY <2>2 DEF ModelInv, PoolPoints, Finished, TypeOK, Jobs
  <2> QED
    BY <2>1, <2>2
<1> QED
  BY <1>1, <1>2, <1>4, <1>5, <1>6

\* All graphs are composed: the pool starts, or the compilation ends.
LEMMA ComposeDoneKeepsInv ==
    ASSUME PrepareInv, ComposeDone PROVE PrepareInv'
<1> USE PoolAssumption DEF PrepareInv, ComposeDone, Return, Start, poolVars
<1>1. TypeOK'
  <2>1. PoolTypeOK'
    BY DEF TypeOK, PoolTypeOK, Places, Jobs, NoJob, LoopInv, Threads
  <2>2. /\ model' \in [Jobs -> ModelStates]
        /\ result' \in [Jobs -> BOOLEAN]
        /\ qnn_models' \subseteq Jobs
    BY DEF TypeOK, ModelStates, Jobs, LoopInv
  <2>3. /\ pc' \in Points /\ idx' \in Nat
        /\ count' \in 0..NumJobs /\ num_threads' \in 1..MaxThreads
        /\ boosted' \in BOOLEAN /\ relax_failed' \in BOOLEAN
        /\ status' \in {"none", "ok", "error"}
    BY SMT DEF TypeOK, Points
  <2> QED
    BY <2>1, <2>2, <2>3 DEF TypeOK
<1>2. LoopInv'
  BY SMT DEF LoopInv, TypeOK, PoolTypeOK, use_multithreaded_prepare, Jobs, Threads
<1>3. Busy' = Busy
  BY BusyChanges DEF Busy, TypeOK, PoolTypeOK, Places, LoopInv, Threads,
     ThreadInv
<1>4. ThreadInv'
  BY <1>3, BusyFinite
  DEF ThreadInv, PoolPoints, TypeOK, PoolTypeOK, LoopInv, Threads
<1>5. QueueInv'
  BY DEF QueueInv
<1>6. ModelInv'
  BY SMT DEF ModelInv, PoolPoints, Finished, use_multithreaded_prepare, TypeOK,
         LoopInv, Jobs
<1> QED
  BY <1>1, <1>2, <1>4, <1>5, <1>6

\* Threads are started in the order of their numbers.
LEMMA StartThreadsKeepsInv ==
    ASSUME PrepareInv, StartThreads PROVE PrepareInv'
<1> USE PoolAssumption DEF PrepareInv, StartThreads, ThreadStart, poolVars
<1>1. TypeOK'
  <2>1. PoolTypeOK'
    BY DEF TypeOK, PoolTypeOK, Places, Jobs, NoJob, LoopInv, Threads
  <2>2. /\ model' \in [Jobs -> ModelStates]
        /\ result' \in [Jobs -> BOOLEAN]
        /\ qnn_models' \subseteq Jobs
    BY DEF TypeOK, ModelStates, Jobs, LoopInv
  <2>3. /\ pc' \in Points /\ idx' \in Nat
        /\ count' \in 0..NumJobs /\ num_threads' \in 1..MaxThreads
        /\ boosted' \in BOOLEAN /\ relax_failed' \in BOOLEAN
        /\ status' \in {"none", "ok", "error"}
    BY SMT DEF TypeOK, Points
  <2> QED
    BY <2>1, <2>2, <2>3 DEF TypeOK
<1>2. LoopInv'
  BY SMT DEF LoopInv, TypeOK, PoolTypeOK, use_multithreaded_prepare, Jobs, Threads
<1>3. Busy' = Busy
  BY BusyChanges DEF Busy, TypeOK, PoolTypeOK, Places, LoopInv, Threads,
     ThreadInv
<1>4. ThreadInv'
  BY <1>3, BusyFinite, SMT
  DEF ThreadInv, PoolPoints, TypeOK, PoolTypeOK, LoopInv, Threads
<1>5. QueueInv'
  BY DEF QueueInv
<1>6. ModelInv'
  BY DEF ModelInv, PoolPoints, Finished, use_multithreaded_prepare, TypeOK,
         LoopInv, Jobs
<1> QED
  BY <1>1, <1>2, <1>4, <1>5, <1>6

\* Threads are joined in the order of their numbers.
LEMMA JoinThreadsKeepsInv ==
    ASSUME PrepareInv, JoinThreads PROVE PrepareInv'
<1> USE PoolAssumption DEF PrepareInv, JoinThreads, Return, ThreadStop, ThreadJoin, poolVars
<1>1. TypeOK'
  <2>1. PoolTypeOK'
    BY DEF TypeOK, PoolTypeOK, Places, Jobs, NoJob, LoopInv, Threads
  <2>2. /\ model' \in [Jobs -> ModelStates]
        /\ result' \in [Jobs -> BOOLEAN]
        /\ qnn_models' \subseteq Jobs
    BY DEF TypeOK, ModelStates, Jobs, LoopInv
  <2>3. /\ pc' \in Points /\ idx' \in Nat
        /\ count' \in 0..NumJobs /\ num_threads' \in 1..MaxThreads
        /\ boosted' \in BOOLEAN /\ relax_failed' \in BOOLEAN
        /\ status' \in {"none", "ok", "error"}
    BY SMT DEF TypeOK, Points
  <2> QED
    BY <2>1, <2>2, <2>3 DEF TypeOK
<1>2. LoopInv'
  BY SMT DEF LoopInv, TypeOK, PoolTypeOK, use_multithreaded_prepare, Jobs, Threads
<1>3. Busy' = Busy
  BY BusyChanges DEF Busy, TypeOK, PoolTypeOK, Places, LoopInv, Threads,
     ThreadInv
<1>4. ThreadInv'
  BY <1>3, BusyFinite, SMT
  DEF ThreadInv, PoolPoints, TypeOK, PoolTypeOK, LoopInv, Threads
<1>5. QueueInv'
  BY DEF QueueInv
<1>6. ModelInv'
  <2>1. CASE pc' = "join"
    BY <2>1 DEF ModelInv, PoolPoints, Finished
  <2>2. CASE pc' = "consume"
    BY <2>2, IntervalGrows DEF ModelInv, PoolPoints, Finished, TypeOK
  <2>3. CASE pc' = "returned"
    BY <2>3 DEF ModelInv, PoolPoints, TypeOK
  <2> QED
    BY <2>1, <2>2, <2>3
<1> QED
  BY <1>1, <1>2, <1>4, <1>5, <1>6

\* A result that reads as OK belongs to a finalized graph.
LEMMA ConsumeResultsKeepsInv ==
    ASSUME PrepareInv, ConsumeResults PROVE PrepareInv'
<1> USE PoolAssumption DEF PrepareInv, ConsumeResults, Return, poolVars
<1>1. TypeOK'
  <2>1. PoolTypeOK'
    BY DEF TypeOK, PoolTypeOK, Places, Jobs, NoJob, LoopInv, Threads
  <2>2. /\ model' \in [Jobs -> ModelStates]
        /\ result' \in [Jobs -> BOOLEAN]
    BY DEF TypeOK, ModelStates
  <2>4. qnn_models' \subseteq Jobs
    <3>1. CASE qnn_models' = qnn_models
      BY <3>1 DEF TypeOK
    <3>2. CASE qnn_models' = qnn_models \union {idx} /\ idx \in 1..count
      BY <3>2, SMT DEF TypeOK, Jobs
    <3> QED
      BY <3>1, <3>2, SMT DEF LoopInv, TypeOK
  <2>3. /\ pc' \in Points /\ idx' \in Nat
        /\ count' \in 0..NumJobs /\ num_threads' \in 1..MaxThreads
        /\ boosted' \in BOOLEAN /\ relax_failed' \in BOOLEAN
        /\ status' \in {"none", "ok", "error"}
    BY SMT DEF TypeOK, Points
  <2> QED
    BY <2>1, <2>2, <2>3, <2>4 DEF TypeOK
<1>2. LoopInv'
  BY SMT DEF LoopInv, TypeOK, PoolTypeOK, use_multithreaded_prepare, Jobs, Threads
<1>3. Busy' = Busy
  BY BusyChanges DEF Busy, TypeOK, PoolTypeOK, Places, LoopInv, Threads,
     ThreadInv
<1>4. ThreadInv'
  BY <1>3, BusyFinite
  DEF ThreadInv, PoolPoints, TypeOK, PoolTypeOK, LoopInv, Threads
<1>5. QueueInv'
  BY DEF QueueInv
<1>6. ModelInv'
  <2>1. CASE pc' = "consume"
    <3>1. idx \in 1..count /\ result[idx] /\ Finished(idx) /\ status = "none"
      BY <2>1, SMT DEF LoopInv, ModelInv, TypeOK
    <3>2. model[idx] = "finalized"
      BY <3>1, SMT DEF ModelInv, PoolPoints, Finished, TypeOK, Jobs
    <3>3. qnn_models' = 1..(idx' - 1)
      <4>1. qnn_models' = (1..(idx - 1)) \union {idx}
        BY <2>1, <3>1 DEF ModelInv
      <4>2. idx' - 1 = idx /\ idx \in Nat /\ idx # 0
        BY <2>1, <3>1, SMT
      <4> QED
        BY <4>1, <4>2, IntervalGrows
    <3> QED
      BY <2>1, <3>1, <3>2, <3>3 DEF ModelInv, PoolPoints, Finished
  <2>2. CASE pc' = "returned"
    <3>1. status' = "ok" => qnn_models' = 1..count'
      BY <2>2, SMT DEF LoopInv, ModelInv, TypeOK
    <3> QED
      BY <2>2, <3>1 DEF ModelInv, PoolPoints, Finished, TypeOK
  <2> QED
    BY <2>1, <2>2
<1> QED
  BY <1>1, <1>2, <1>4, <1>5, <1>6

\* Every step of CompileOnnxModel and of the workers keeps the invariant.
LEMMA NextPrepareInv == PrepareInv /\ [Next]_vars => PrepareInv'
<1> SUFFICES ASSUME PrepareInv, [Next]_vars PROVE PrepareInv'
  OBVIOUS
<1>1. CASE Compile
  BY <1>1, ComposeGraphKeepsInv, PreRunKeepsInv, FinalizeGraphsKeepsInv,
     PostRunKeepsInv, PublishKeepsInv, ComposeDoneKeepsInv,
     StartThreadsKeepsInv, PreRunBatchKeepsInv, SubmitJobsKeepsInv,
     WaitForQueuedJobsToFinishKeepsInv, PostRunBatchKeepsInv, StopPoolKeepsInv,
     JoinThreadsKeepsInv, ConsumeResultsKeepsInv
  DEF Compile
<1>2. ASSUME NEW t \in Threads, Worker(t) PROVE PrepareInv'
  BY <1>2, RunJobKeepsInv, GetJobFromQueueIfExistsKeepsInv,
     NotifyJobFinishedKeepsInv,
     WaitForJobQueueUpdateKeepsInv, CheckStoppedKeepsInv
  DEF Worker, PoolLoop
<1>3. ASSUME UNCHANGED << job_queue, in_flight_jobs, running, thread_stopped, at, job >>,
             asleep' \in BOOLEAN, UNCHANGED clientVars
      PROVE  PrepareInv'
  <2> USE <1>3 DEF clientVars
  <2>1. TypeOK' /\ LoopInv'
    BY DEF PrepareInv, TypeOK, PoolTypeOK, LoopInv, use_multithreaded_prepare
  <2>2. ThreadInv'
    BY SMTT(30) DEF PrepareInv, ThreadInv, Busy
  <2>3. QueueInv' /\ ModelInv'
    BY SMT DEF PrepareInv, QueueInv, ModelInv, Taken, Submitted, Finished,
           use_multithreaded_prepare
  <2> QED
    BY <2>1, <2>2, <2>3 DEF PrepareInv
<1>4. CASE SpuriousWakeup
  BY <1>3, <1>4 DEF SpuriousWakeup
<1>5. CASE UNCHANGED vars
  <2>1. asleep' \in BOOLEAN
    BY <1>5 DEF vars, poolVars, PrepareInv, TypeOK, PoolTypeOK
  <2> QED
    BY <1>3, <1>5, <2>1 DEF vars, poolVars, clientVars
<1> QED
  BY <1>1, <1>2, <1>4, <1>5 DEF Next, Returned

\* The queue, the workers and the models of a compilation fit together in every
\* reachable state, whatever the number of graphs and threads.
THEOREM PrepareInvHolds == Spec => []PrepareInv
BY InitPrepareInv, NextPrepareInv, PTL DEF Spec

\* A worker of QnnJobThreadPool only finalizes a composed graph whose model is alive.
THEOREM JobsUseComposedModelsHolds == Spec => []JobsUseComposedModels
<1>1. PrepareInv => JobsUseComposedModels
  BY DEF PrepareInv, ThreadInv, QueueInv, JobsUseComposedModels, Busy
<1> QED
  BY <1>1, PrepareInvHolds, PTL

\* The boost around the batch covers every finalization on a worker.
THEOREM BoostedWhileFinalizingHolds == Spec => []BoostedWhileFinalizing
<1>1. PrepareInv => BoostedWhileFinalizing
  BY DEF PrepareInv, ThreadInv, BoostedWhileFinalizing, Busy
<1> QED
  BY <1>1, PrepareInvHolds, PTL

\* Only finalized models are published, and all of them when the result is OK.
THEOREM PublishedAreFinalizedHolds == Spec => []PublishedAreFinalized
<1>1. PrepareInv => PublishedAreFinalized
  BY DEF PrepareInv, ModelInv, PublishedAreFinalized
<1> QED
  BY <1>1, PrepareInvHolds, PTL

\* No thread outlives CompileOnnxModel, and a boost only if the last attempt of
\* the guard to relax it failed.
THEOREM NothingLeftBehindHolds == Spec => []NothingLeftBehind
<1>1. PrepareInv => NothingLeftBehind
  BY DEF PrepareInv, ThreadInv, NothingLeftBehind, PoolPoints
<1> QED
  BY <1>1, PrepareInvHolds, PTL
=============================================================================
