---------------------------- MODULE SsrRecovery ----------------------------
(***************************************************************************)
(* Recovery from an NPU subsystem restart (SSR): QnnModel::ExecuteGraph    *)
(* and QnnModel::RecoverFromSSR (builder/qnn_model.cc) of several models   *)
(* whose contexts one QnnBackendManager owns.                              *)
(*                                                                         *)
(* Threads run models.  A model is one graph of one context binary; models *)
(* of the same binary share its context (weight sharing).  A crash kills   *)
(* every context of the moment: its graphs answer the communication error  *)
(* until the context is freed and created again from the file.             *)
(*                                                                         *)
(* Contexts are numbered as they are created: a handle is not used again,  *)
(* and the first element of contexts_ is the one with the least number.    *)
(***************************************************************************)
EXTENDS Naturals, FiniteSets, Sequences

CONSTANTS
    Threads,       \* threads that call session.Run()
    Models,        \* QnnModel objects
    Binaries,      \* context binaries, one context each
    BinOf,         \* BinOf[m]: the binary whose graph model m is
    SharedMemory,  \* may tensors be bound by mem handle, by raw buffer?
    OtherErrors,   \* may graphExecute fail otherwise on a good context?
    ReloadMayFail, \* may creating the context from the file fail?
    MaxCrashes     \* bound on the number of crashes

NoThread == "NoThread"

ASSUME SsrAssumption ==
    /\ BinOf \in [Models -> Binaries]
    /\ IsFiniteSet(Binaries) /\ Cardinality(Binaries) \in Nat
    /\ SharedMemory \subseteq BOOLEAN
    /\ OtherErrors \in BOOLEAN
    /\ ReloadMayFail \in BOOLEAN
    /\ MaxCrashes \in Nat
    /\ NoThread \notin Threads

VARIABLES
    has_path,        \* has_path[b]: context_bin_filepath_ is not empty
    contexts,        \* the handles in contexts_ and in context_map_
    bin,             \* bin[i]: the binary context i was created from
    dead,            \* contexts that a crash has made useless
    crashes,         \* number of crashes so far
    recovery_owner,  \* who holds context_recovery_mutex_
    exec_owner,      \* exec_owner[m]: who holds m's graph_exec_mutex_
    graph_context,   \* graph_context[m]: the context m's graph belongs to
    infos_set,       \* infos_set[m]: qnn_input_infos_, qnn_output_infos_ built
    pc, model,       \* what a thread does, for which model
    retrying,        \* retrying[t]: this is the attempt after a recovery
    new_context,     \* new_context[t]: local of RecoverFromSSR
    status,          \* status[t]: execute_status of the last graphExecute
    result,          \* result[t]: what the thread's last run returned
    disturbed,       \* history: a crash or another's recovery met the run
    broken           \* history: models hit by a recovery that failed

deviceVars == << has_path, dead, crashes >>
managerVars == << contexts, bin, recovery_owner >>
modelVars == << exec_owner, graph_context, infos_set >>
localVars == << model, retrying, new_context, status >>
historyVars == << disturbed, broken >>
vars == << deviceVars, managerVars, modelVars, localVars, pc, result,
           historyVars >>

Pc == {"idle", "sizes", "lock", "stale", "clear", "rlock", "reload",
       "retrieve", "setup", "bind", "exec"}
InRecovery == {"clear", "rlock", "reload", "retrieve", "setup"}
Results == {"none", "ok", "failed", "unrecoverable"}
Handles == DOMAIN bin

TypeOK ==
    /\ has_path \in [Binaries -> BOOLEAN]
    /\ bin \in Seq(Binaries)
    /\ contexts \subseteq Handles
    /\ dead \subseteq Handles
    /\ crashes \in 0 .. MaxCrashes
    /\ recovery_owner \in Threads \cup {NoThread}
    /\ exec_owner \in [Models -> Threads \cup {NoThread}]
    /\ graph_context \in [Models -> Handles]
    /\ infos_set \in [Models -> BOOLEAN]
    /\ pc \in [Threads -> Pc]
    /\ model \in [Threads -> Models]
    /\ retrying \in [Threads -> BOOLEAN]
    /\ new_context \in [Threads -> Handles \cup {0}]
    /\ status \in [Threads -> {"none", "ok", "crash", "other"}]
    /\ result \in [Threads -> Results]
    /\ disturbed \in [Threads -> BOOLEAN]
    /\ broken \subseteq Models

\* Every binary has been loaded once, in some order, for all its models.
Init ==
    /\ has_path \in [Binaries -> BOOLEAN]
    /\ bin \in [1 .. Cardinality(Binaries) -> Binaries]
    /\ \A b \in Binaries : \E i \in DOMAIN bin : bin[i] = b
    /\ \A i, j \in DOMAIN bin : bin[i] = bin[j] => i = j
    /\ contexts = DOMAIN bin
    /\ dead = {}
    /\ crashes = 0
    /\ recovery_owner = NoThread
    /\ exec_owner = [m \in Models |-> NoThread]
    /\ graph_context = [m \in Models |->
                            CHOOSE i \in DOMAIN bin : bin[i] = BinOf[m]]
    /\ infos_set = [m \in Models |-> TRUE]
    /\ pc = [t \in Threads |-> "idle"]
    /\ model \in {[t \in Threads |-> m] : m \in Models}
    /\ retrying = [t \in Threads |-> FALSE]
    /\ new_context = [t \in Threads |-> 0]
    /\ status = [t \in Threads |-> "none"]
    /\ result = [t \in Threads |-> "none"]
    /\ disturbed = [t \in Threads |-> FALSE]
    /\ broken = {}

-----------------------------------------------------------------------------
Goto(t, l) == pc' = [pc EXCEPT ![t] = l]
Active == {t \in Threads : pc[t] # "idle"}
HasContextHandle(c) == c \in contexts
\* GetQnnContext(0)
FirstContext(c) == \A d \in contexts : c <= d

\* ExecuteGraph returns r; its lock of graph_exec_mutex_, if held, is released.
Return(t, r) ==
    /\ Goto(t, "idle")
    /\ result' = [result EXCEPT ![t] = r]
    /\ exec_owner' = [m \in Models |->
                         IF exec_owner[m] = t THEN NoThread ELSE exec_owner[m]]

\* What graphExecute answers on a graph of context c when it ends: on a freed
\* context anything.
ExecuteOutcomes(c) ==
    IF c \notin contexts THEN {"ok", "crash", "other"}
    ELSE IF c \in dead THEN {"crash"}
    ELSE IF OtherErrors THEN {"ok", "other"} ELSE {"ok"}

\* The subsystem restarts: the contexts of the moment are lost.
Crash ==
    /\ crashes < MaxCrashes
    /\ crashes' = crashes + 1
    /\ dead' = dead \cup contexts
    /\ disturbed' = [t \in Threads |-> disturbed[t] \/ t \in Active]
    /\ UNCHANGED << has_path, managerVars, modelVars, localVars, pc, result,
                    broken >>

-----------------------------------------------------------------------------
(***************************************************************************)
(* ExecuteGraph, up to the first attempt.                                  *)
(***************************************************************************)
Begin(t, m) ==
    /\ pc[t] = "idle"
    /\ Goto(t, "sizes")
    /\ model' = [model EXCEPT ![t] = m]
    /\ retrying' = [retrying EXCEPT ![t] = FALSE]
    /\ status' = [status EXCEPT ![t] = "none"]
    /\ result' = [result EXCEPT ![t] = "none"]
    /\ disturbed' = [disturbed EXCEPT ![t] =
                        \E u \in Threads : pc[u] \in InRecovery]
    /\ UNCHANGED << deviceVars, managerVars, modelVars, new_context, broken >>

\* The sizes of the info vectors are compared before any lock is taken: while
\* a recovery has them cleared, the run ends here.
CheckSizes(t) ==
    /\ pc[t] = "sizes"
    /\ \/ /\ infos_set[model[t]]
          /\ Goto(t, "lock")
          /\ UNCHANGED << result, exec_owner >>
       \/ /\ ~infos_set[model[t]]
          /\ Return(t, "failed")
    /\ UNCHANGED << deviceVars, managerVars, graph_context, infos_set, localVars,
                    historyVars >>

LockGraphExec(t) ==
    /\ pc[t] = "lock"
    /\ exec_owner[model[t]] = NoThread
    /\ exec_owner' = [exec_owner EXCEPT ![model[t]] = t]
    /\ Goto(t, IF has_path[BinOf[model[t]]] THEN "stale" ELSE "bind")
    /\ UNCHANGED << deviceVars, managerVars, graph_context, infos_set, localVars,
                    result, historyVars >>

\* Mutants: no check for a context freed by a sibling; the check's lock is
\* still held when the recovery starts.
CheckStaleMissing(t) ==
    /\ pc[t] = "stale"
    /\ Goto(t, "bind")
    /\ UNCHANGED << deviceVars, managerVars, modelVars, localVars, result,
                    historyVars >>

CheckStaleKeepsLock(t) ==
    /\ pc[t] = "stale"
    /\ recovery_owner = NoThread
    /\ \/ /\ HasContextHandle(graph_context[model[t]])
          /\ Goto(t, "bind")
          /\ UNCHANGED recovery_owner
       \/ /\ ~HasContextHandle(graph_context[model[t]])
          /\ recovery_owner' = t
          /\ Goto(t, "clear")
    /\ UNCHANGED << deviceVars, contexts, bin, modelVars, localVars, result,
                    historyVars >>

CheckStale(t) ==
    /\ pc[t] = "stale"
    /\ recovery_owner = NoThread
    /\ Goto(t, IF HasContextHandle(graph_context[model[t]]) THEN "bind"
                                                            ELSE "clear")
    /\ UNCHANGED << deviceVars, managerVars, modelVars, localVars, result,
                    historyVars >>

\* BindAndExecuteGraph: a tensor in shared memory is bound through the
\* context's record in the map.
Bind(t) ==
    /\ pc[t] = "bind"
    /\ \E shared \in SharedMemory :
         \/ /\ shared => HasContextHandle(graph_context[model[t]])
            /\ Goto(t, "exec")
            /\ UNCHANGED << result, exec_owner >>
         \/ /\ shared /\ ~HasContextHandle(graph_context[model[t]])
            /\ Return(t, "failed")
    /\ UNCHANGED << deviceVars, managerVars, graph_context, infos_set, localVars,
                    historyVars >>

\* graphExecute returns.  After a recovery only the communication error is
\* told from success.
Execute(t) ==
    /\ pc[t] = "exec"
    /\ \E s \in ExecuteOutcomes(graph_context[model[t]]) :
         /\ status' = [status EXCEPT ![t] = s]
         /\ \/ /\ s = "crash" /\ ~retrying[t] /\ has_path[BinOf[model[t]]]
               /\ Goto(t, "clear")
               /\ retrying' = [retrying EXCEPT ![t] = TRUE]
               /\ UNCHANGED << result, exec_owner >>
            \/ /\ s = "crash" /\ (retrying[t] \/ ~has_path[BinOf[model[t]]])
               /\ Return(t, "unrecoverable")
               /\ UNCHANGED retrying
            \/ /\ s = "ok" \/ (s = "other" /\ retrying[t])
               /\ Return(t, "ok")
               /\ UNCHANGED retrying
            \/ /\ s = "other" /\ ~retrying[t]
               /\ Return(t, "failed")
               /\ UNCHANGED retrying
    /\ UNCHANGED << deviceVars, managerVars, graph_context, infos_set, model,
                    new_context, historyVars >>

-----------------------------------------------------------------------------
(***************************************************************************)
(* RecoverFromSSR.  A recovery before the first attempt leaves the retry   *)
(* unused.  Every other run in progress meets the recovery.                *)
(***************************************************************************)
ClearInfos(t) ==
    /\ pc[t] = "clear"
    /\ infos_set' = [infos_set EXCEPT ![model[t]] = FALSE]
    /\ new_context' = [new_context EXCEPT ![t] = 0]
    /\ Goto(t, "rlock")
    /\ disturbed' = [u \in Threads |->
                        disturbed[u] \/ (u # t /\ u \in Active)]
    /\ UNCHANGED << deviceVars, managerVars, exec_owner, graph_context, model,
                    retrying, status, result, broken >>

ReleaseSpecificContextHandle(c) == contexts' = contexts \ {c}

\* Mutants: the model does not ask whether its context was replaced already;
\* it frees the first context instead of its own.
LockRecoveryNoCheck(t) ==
    /\ pc[t] = "rlock"
    /\ recovery_owner = NoThread
    /\ ReleaseSpecificContextHandle(graph_context[model[t]])
    /\ recovery_owner' = t
    /\ Goto(t, "reload")
    /\ UNCHANGED << deviceVars, bin, modelVars, localVars, result, historyVars >>

LockRecoveryFreesFirst(t) ==
    /\ pc[t] = "rlock"
    /\ recovery_owner = NoThread
    /\ \E c \in contexts : FirstContext(c) /\ ReleaseSpecificContextHandle(c)
    /\ recovery_owner' = t
    /\ Goto(t, "reload")
    /\ UNCHANGED << deviceVars, bin, modelVars, localVars, result, historyVars >>

\* Under context_recovery_mutex_ the first model frees the context and
\* reloads it; a sibling takes the first context there is, and GetQnnContext
\* throws when there is none.
LockRecovery(t) ==
    /\ pc[t] = "rlock"
    /\ recovery_owner = NoThread
    /\ \/ /\ HasContextHandle(graph_context[model[t]])
          /\ ReleaseSpecificContextHandle(graph_context[model[t]])
          /\ recovery_owner' = t
          /\ Goto(t, "reload")
          /\ UNCHANGED << new_context, result, exec_owner >>
       \/ /\ ~HasContextHandle(graph_context[model[t]])
          /\ \E c \in contexts : FirstContext(c) /\ new_context' = [new_context EXCEPT ![t] = c]
          /\ Goto(t, "retrieve")
          /\ UNCHANGED << contexts, recovery_owner, result, exec_owner >>
       \/ /\ ~HasContextHandle(graph_context[model[t]])
          /\ contexts = {}
          /\ Return(t, "failed")
          /\ UNCHANGED << contexts, recovery_owner, new_context >>
    /\ UNCHANGED << deviceVars, bin, graph_context, infos_set, model, retrying,
                    status, historyVars >>

\* ReloadContextForSSR and AddQnnContextHandle; the lock ends with them.
ReloadContextForSSR(t) ==
    /\ pc[t] = "reload"
    /\ recovery_owner' = NoThread
    /\ \/ /\ bin' = Append(bin, BinOf[model[t]])
          /\ contexts' = contexts \cup {Len(bin')}
          /\ new_context' = [new_context EXCEPT ![t] = Len(bin')]
          /\ Goto(t, "retrieve")
          /\ UNCHANGED << result, exec_owner, broken >>
       \/ /\ ReloadMayFail
          /\ broken' = broken \cup {m \in Models : BinOf[m] = BinOf[model[t]]}
          /\ Return(t, "failed")
          /\ UNCHANGED << contexts, bin, new_context >>
    /\ UNCHANGED << deviceVars, graph_context, infos_set, model, retrying,
                    status, disturbed >>

\* RetrieveGraph finds the graph in a context of the model's binary; on a
\* context freed meanwhile it may do anything.
RetrieveGraph(t) ==
    /\ pc[t] = "retrieve"
    /\ LET c == new_context[t] IN
       \/ /\ bin[c] = BinOf[model[t]]
          /\ graph_context' = [graph_context EXCEPT ![model[t]] = c]
          /\ Goto(t, "setup")
          /\ UNCHANGED << result, exec_owner, broken >>
       \/ /\ bin[c] # BinOf[model[t]] \/ c \notin contexts
          /\ Return(t, "failed")
          /\ broken' = broken \cup {model[t]}
          /\ UNCHANGED graph_context
    /\ UNCHANGED << deviceVars, managerVars, infos_set, localVars, disturbed >>

\* SetupQnnInputOutput, then ApplyRuntimeGraphConfigs, which the driver may
\* refuse on a graph that is gone.
Setup(t) ==
    /\ pc[t] = "setup"
    /\ infos_set' = [infos_set EXCEPT ![model[t]] = TRUE]
    /\ \/ /\ Goto(t, "bind")
          /\ UNCHANGED << result, exec_owner >>
       \/ /\ graph_context[model[t]] \notin contexts
          /\ Return(t, "failed")
    /\ UNCHANGED << deviceVars, managerVars, graph_context, localVars,
                    historyVars >>

-----------------------------------------------------------------------------
Step(t) ==
    \/ CheckSizes(t) \/ Bind(t) \/ Execute(t) \/ ClearInfos(t)
    \/ ReloadContextForSSR(t) \/ RetrieveGraph(t) \/ Setup(t)
Lock(t) == LockGraphExec(t) \/ CheckStale(t) \/ LockRecovery(t)

Next ==
    \/ Crash
    \/ \E t \in Threads : \/ \E m \in Models : Begin(t, m)
                          \/ Step(t) \/ Lock(t)

(***************************************************************************)
(* A run in progress goes on: the driver answers, and no thread is starved *)
(* of a mutex that is free again and again.                                *)
(***************************************************************************)
Fairness == \A t \in Threads : WF_vars(Step(t)) /\ SF_vars(Lock(t))

Spec == Init /\ [][Next]_vars /\ Fairness

-----------------------------------------------------------------------------
\* Threads that detect the same crash replace a context once: there are never
\* two contexts of one binary (first-model-wins under context_recovery_mutex_).
OneContextPerBinary ==
    \A c, d \in contexts : bin[c] = bin[d] => c = d

\* A recovery frees only a context that a crash has made useless, never the
\* one another model has just created or a context of another binary.
FreesOnlyDeadContexts ==
    [][\A c \in contexts : c \notin contexts' => c \in dead]_vars

\* A run that met neither a crash nor another thread's recovery succeeds,
\* whatever crashed before it: ExecuteGraph recovers without the caller's
\* help.  It may fail only if the binary has no file or the file cannot be
\* loaded again, or if an earlier recovery of the model has failed, which
\* leaves it without tensor infos for good.
RecoveryIsTransparent ==
    [][\A t \in Threads :
           pc[t] # "idle" /\ pc'[t] = "idle" /\ result'[t] # "ok" =>
               \/ disturbed[t]
               \/ ~has_path[BinOf[model[t]]] \/ pc[t] = "reload"
               \/ model[t] \in broken]_vars

\* Every run returns: graph_exec_mutex_ and context_recovery_mutex_ are given
\* back on every path of ExecuteGraph and RecoverFromSSR.
RunsReturn == \A t \in Threads : pc[t] # "idle" ~> pc[t] = "idle"

\* A run that returns success has executed its graph without an error.
OkMeansExecuted ==
    \A t \in Threads : result[t] = "ok" => status[t] = "ok"
=============================================================================
