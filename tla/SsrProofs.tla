----------------------------- MODULE SsrProofs -----------------------------
(***************************************************************************)
(* Proofs about SsrRecovery, for any number of threads, models, binaries   *)
(* and crashes.  OneContextPerBinary is not inductive by itself: a reload  *)
(* adds a context of its model's binary, so the proof also needs that the  *)
(* reloading thread has the recovery mutex to itself and that no context   *)
(* of that binary is left, hence that a model's graph always belongs to a  *)
(* context of its own binary.  That only dead contexts are freed rests on  *)
(* what a thread in recovery knows of its model's context, which nobody    *)
(* else can change while it holds the model's execution mutex.  That a run *)
(* which nothing disturbed succeeds rests on AttemptInv: every binary has  *)
(* a context, or a thread that is making one, or is lost; a model without  *)
(* tensor infos is being recovered or lost; and a thread on its second     *)
(* attempt has a context that no crash has killed.                         *)
(***************************************************************************)
EXTENDS SsrRecovery, TLAPS

\* Leaves are for Zenon unless they name another prover.
USE Zenon

Holding == Pc \ {"idle", "sizes", "lock"}

GraphOfOwnBinary == \A m \in Models : bin[graph_context[m]] = BinOf[m]
RecoveryLock == \A t \in Threads : recovery_owner = t <=> pc[t] = "reload"
NoneLeftAtReload ==
    \A t \in Threads : pc[t] = "reload" =>
        \A c \in contexts : bin[c] # BinOf[model[t]]
ExecLock == \A t \in Threads : pc[t] \in Holding => exec_owner[model[t]] = t
NewContextKnown == \A t \in Threads : pc[t] = "retrieve" => new_context[t] \in Handles
RecoversDead ==
    \A t \in Threads :
        /\ pc[t] \in {"clear", "rlock"}
        /\ graph_context[model[t]] \in contexts
        => graph_context[model[t]] \in dead

SsrInv ==
    /\ TypeOK
    /\ OneContextPerBinary
    /\ GraphOfOwnBinary
    /\ RecoveryLock
    /\ NoneLeftAtReload
    /\ ExecLock
    /\ NewContextKnown
    /\ RecoversDead

-----------------------------------------------------------------------------
\* Every binary is loaded into one context, whose graphs its models use.
LEMMA InitSsrInv == Init => SsrInv
<1> SUFFICES ASSUME Init PROVE SsrInv
  OBVIOUS
<1> DEFINE n == Cardinality(Binaries)
<1>1. n \in Nat
  BY SsrAssumption
<1>2. bin \in Seq(Binaries) /\ Handles = 1 .. n
  <2>1. bin \in [1 .. n -> Binaries]
    BY DEF Init
  <2> QED
    BY <1>1, <2>1, SMT DEF Handles
<1>3. \A m \in Models : graph_context[m] \in Handles /\ bin[graph_context[m]] = BinOf[m]
  <2> TAKE m \in Models
  <2>1. BinOf[m] \in Binaries
    BY SsrAssumption
  <2>2. \E i \in DOMAIN bin : bin[i] = BinOf[m]
    BY <2>1 DEF Init
  <2>3. graph_context[m] = CHOOSE i \in DOMAIN bin : bin[i] = BinOf[m]
    BY DEF Init
  <2> QED
    BY <2>2, <2>3 DEF Handles
<1>4. TypeOK
  BY <1>2, <1>3, SsrAssumption, SMT DEF Init, TypeOK, Pc, Results, Handles
<1>5. OneContextPerBinary /\ GraphOfOwnBinary
  BY <1>2, <1>3 DEF Init, OneContextPerBinary, GraphOfOwnBinary
<1>6. RecoveryLock /\ NoneLeftAtReload /\ ExecLock /\ NewContextKnown /\ RecoversDead
  BY SsrAssumption DEF Init, RecoveryLock, NoneLeftAtReload, ExecLock,
                       NewContextKnown, RecoversDead, Holding
<1> QED
  BY <1>4, <1>5, <1>6 DEF SsrInv

\* ExecuteGraph leaves through Return: it gives back the execution mutex it
\* holds and no other one.
LEMMA ReturnKeepsLocks ==
    ASSUME TypeOK, ExecLock, NEW t \in Threads, NEW r \in Results,
           Return(t, r), UNCHANGED model
    PROVE  /\ ExecLock'
           /\ exec_owner' \in [Models -> Threads \cup {NoThread}]
           /\ pc' \in [Threads -> Pc] /\ pc'[t] = "idle"
           /\ \A u \in Threads \ {t} : pc'[u] = pc[u]
           /\ result' \in [Threads -> Results]
<1>1. pc' = [pc EXCEPT ![t] = "idle"]
  BY DEF Return, Goto
<1>2. \A m \in Models : exec_owner[m] # t => exec_owner'[m] = exec_owner[m]
  BY DEF Return
<1>3. ASSUME NEW u \in Threads, pc'[u] \in Holding
      PROVE  exec_owner'[model'[u]] = u
  <2>1. u # t /\ pc[u] \in Holding
    BY <1>1, <1>3 DEF TypeOK, Holding
  <2>2. model[u] \in Models /\ exec_owner[model[u]] = u
    BY <2>1 DEF TypeOK, ExecLock
  <2> QED
    BY <1>2, <2>1, <2>2
<1>4. exec_owner' \in [Models -> Threads \cup {NoThread}]
  BY DEF Return, TypeOK
<1>5. pc' \in [Threads -> Pc] /\ pc'[t] = "idle"
      /\ \A u \in Threads \ {t} : pc'[u] = pc[u]
  BY <1>1 DEF TypeOK, Pc
<1>6. result' \in [Threads -> Results]
  BY DEF Return, TypeOK
<1> QED
  BY <1>3, <1>4, <1>5, <1>6 DEF ExecLock

\* A step inside ExecuteGraph keeps the execution mutex.
LEMMA GotoKeepsLocks ==
    ASSUME TypeOK, ExecLock, NEW t \in Threads, NEW l \in Pc, Goto(t, l),
           l \in Holding => pc[t] \in Holding, UNCHANGED << exec_owner, model >>
    PROVE  /\ ExecLock'
           /\ pc' \in [Threads -> Pc] /\ pc'[t] = l
           /\ \A u \in Threads \ {t} : pc'[u] = pc[u]
BY DEF TypeOK, ExecLock, Goto

\* A step that leaves contexts and graphs alone, and neither begins nor ends a
\* reload, keeps what is known of them.
LEMMA ContextsKept ==
    ASSUME SsrInv, NEW t \in Threads,
           UNCHANGED << contexts, bin, graph_context, recovery_owner, model >>,
           pc[t] # "reload" /\ pc'[t] # "reload",
           \A u \in Threads \ {t} : pc'[u] = pc[u]
    PROVE  (OneContextPerBinary /\ GraphOfOwnBinary /\ NoneLeftAtReload
            /\ RecoveryLock)'
BY DEF SsrInv, OneContextPerBinary, GraphOfOwnBinary, NoneLeftAtReload,
   RecoveryLock

\* If moreover no crash happens and the thread neither enters the recovery nor
\* gets a context, the rest is kept too.
LEMMA KnowledgeKept ==
    ASSUME SsrInv, NEW t \in Threads,
           UNCHANGED << contexts, bin, graph_context, dead, model, new_context >>,
           pc'[t] \notin {"clear", "rlock", "retrieve"},
           \A u \in Threads \ {t} : pc'[u] = pc[u]
    PROVE  (NewContextKnown /\ RecoversDead)'
BY DEF SsrInv, NewContextKnown, RecoversDead, Handles

\* The steps of a run outside the critical sections of a recovery preserve
\* SsrInv.
LEMMA RunStepKeepsSsrInv ==
    ASSUME SsrInv
    PROVE  \/ UNCHANGED vars
           \/ Crash
           \/ \E t \in Threads : \/ \E m \in Models : Begin(t, m)
                               \/ CheckSizes(t) \/ Bind(t) \/ Execute(t) \/ ClearInfos(t)
           => SsrInv'
<1> USE SsrAssumption DEF SsrInv, deviceVars, managerVars, modelVars, localVars,
      historyVars
<1> DEFINE Rest == /\ OneContextPerBinary /\ GraphOfOwnBinary
                   /\ NoneLeftAtReload /\ RecoveryLock
<1>1. CASE UNCHANGED vars
  BY <1>1 DEF vars, TypeOK, Handles, OneContextPerBinary, GraphOfOwnBinary,
       RecoveryLock, NoneLeftAtReload, ExecLock, NewContextKnown, RecoversDead
<1>2. CASE Crash
  BY <1>2, SMT DEF Crash, TypeOK, Handles, OneContextPerBinary, GraphOfOwnBinary,
       RecoveryLock, NoneLeftAtReload, ExecLock, NewContextKnown, RecoversDead
<1>3. ASSUME NEW t \in Threads, NEW m \in Models, Begin(t, m)
      PROVE  SsrInv'
  <2>1. TypeOK'
    BY <1>3 DEF Begin, Goto, TypeOK, Pc, Results, Handles
  <2>2. (OneContextPerBinary /\ GraphOfOwnBinary /\ NoneLeftAtReload)'
    BY <1>3 DEF Begin, Goto, TypeOK, Pc, OneContextPerBinary, GraphOfOwnBinary,
         NoneLeftAtReload
  <2>3. (RecoveryLock /\ ExecLock)'
    BY <1>3 DEF Begin, Goto, TypeOK, Pc, RecoveryLock, ExecLock, Holding
  <2>4. (NewContextKnown /\ RecoversDead)'
    BY <1>3, SMTT(30) DEF Begin, Goto, TypeOK, Pc, Handles, NewContextKnown,
       RecoversDead
  <2> QED
    BY <2>1, <2>2, <2>3, <2>4
<1>4. ASSUME NEW t \in Threads, CheckSizes(t)
      PROVE  SsrInv'
  <2>1. CASE Goto(t, "lock") /\ UNCHANGED << result, exec_owner >>
    <3>1. UNCHANGED << contexts, bin, graph_context, dead, recovery_owner, model,
                       new_context >>
      BY <1>4 DEF CheckSizes
    <3>2. ExecLock' /\ pc'[t] = "lock" /\ \A u \in Threads \ {t} : pc'[u] = pc[u]
      BY <1>4, <2>1, <3>1, GotoKeepsLocks DEF CheckSizes, Pc, Holding
    <3>3. TypeOK'
      BY <1>4, <2>1, <3>1, GotoKeepsLocks DEF CheckSizes, TypeOK, Pc, Holding,
         Results, Handles
    <3>4. Rest' /\ (NewContextKnown /\ RecoversDead)'
      BY <1>4, <3>1, <3>2, ContextsKept, KnowledgeKept DEF CheckSizes
    <3> QED
      BY <3>2, <3>3, <3>4, SMTT(30)
  <2>2. CASE Return(t, "failed")
    <3>1. UNCHANGED << contexts, bin, graph_context, dead, recovery_owner, model,
                       new_context >>
      BY <1>4 DEF CheckSizes
    <3>2. ExecLock' /\ pc'[t] = "idle" /\ \A u \in Threads \ {t} : pc'[u] = pc[u]
      BY <2>2, <3>1, ReturnKeepsLocks DEF Results
    <3>3. TypeOK'
      BY <1>4, <2>2, <3>1, ReturnKeepsLocks DEF CheckSizes, TypeOK, Results,
         Handles
    <3>4. Rest' /\ (NewContextKnown /\ RecoversDead)'
      BY <1>4, <3>1, <3>2, ContextsKept, KnowledgeKept DEF CheckSizes
    <3> QED
      BY <3>2, <3>3, <3>4, SMTT(30)
  <2> QED
    BY <1>4, <2>1, <2>2 DEF CheckSizes
<1>5. ASSUME NEW t \in Threads, Bind(t)
      PROVE  SsrInv'
  <2>1. CASE Goto(t, "exec") /\ UNCHANGED << result, exec_owner >>
    <3>1. UNCHANGED << contexts, bin, graph_context, dead, recovery_owner, model,
                       new_context >>
      BY <1>5 DEF Bind
    <3>2. ExecLock' /\ pc'[t] = "exec" /\ \A u \in Threads \ {t} : pc'[u] = pc[u]
      BY <1>5, <2>1, <3>1, GotoKeepsLocks, SMTT(30) DEF Bind, Pc, Holding
    <3>3. TypeOK'
      BY <1>5, <2>1, <3>1, GotoKeepsLocks DEF Bind, TypeOK, Pc, Holding, Results,
         Handles
    <3>4. Rest' /\ (NewContextKnown /\ RecoversDead)'
      BY <1>5, <3>1, <3>2, ContextsKept, KnowledgeKept DEF Bind
    <3> QED
      BY <3>2, <3>3, <3>4
  <2>2. CASE Return(t, "failed")
    <3>1. UNCHANGED << contexts, bin, graph_context, dead, recovery_owner, model,
                       new_context >>
      BY <1>5 DEF Bind
    <3>2. ExecLock' /\ pc'[t] = "idle" /\ \A u \in Threads \ {t} : pc'[u] = pc[u]
      BY <2>2, <3>1, ReturnKeepsLocks DEF Results
    <3>3. TypeOK'
      BY <1>5, <2>2, <3>1, ReturnKeepsLocks, SMTT(30) DEF Bind, TypeOK, Results,
         Handles
    <3>4. Rest' /\ (NewContextKnown /\ RecoversDead)'
      BY <1>5, <3>1, <3>2, ContextsKept, KnowledgeKept DEF Bind
    <3> QED
      BY <3>2, <3>3, <3>4, SMTT(30)
  <2> QED
    BY <1>5, <2>1, <2>2 DEF Bind
<1>6. ASSUME NEW t \in Threads, Execute(t)
      PROVE  SsrInv'
  <2>1a. PICK s \in ExecuteOutcomes(graph_context[model[t]]) : Execute(t)!2!(s)
    BY <1>6 DEF Execute
  <2>1b. s \in {"ok", "crash", "other"}
    BY DEF ExecuteOutcomes
  <2>1. UNCHANGED << contexts, bin, graph_context, dead, recovery_owner, model,
                     new_context >> /\ pc[t] = "exec"
    BY <1>6 DEF Execute
  <2>2. status' \in [Threads -> {"none", "ok", "crash", "other"}]
    BY <2>1a, <2>1b DEF TypeOK
  <2>3. ASSUME NEW r \in Results, Return(t, r), UNCHANGED retrying
        PROVE  SsrInv'
    <3>1. ExecLock' /\ pc'[t] = "idle" /\ \A u \in Threads \ {t} : pc'[u] = pc[u]
      BY <2>1, <2>3, ReturnKeepsLocks, SMTT(30)
    <3>2. TypeOK'
      BY <1>6, <2>1, <2>2, <2>3, ReturnKeepsLocks, SMTT(30) DEF Execute, TypeOK,
         Handles
    <3>3. Rest' /\ (NewContextKnown /\ RecoversDead)'
      BY <2>1, <3>1, ContextsKept, KnowledgeKept
    <3> QED
      BY <3>1, <3>2, <3>3
  <2>4. CASE s = "crash" /\ Goto(t, "clear") /\ UNCHANGED << result, exec_owner >>
             /\ retrying' = [retrying EXCEPT ![t] = TRUE]
    <3>1. ExecLock' /\ pc'[t] = "clear" /\ \A u \in Threads \ {t} : pc'[u] = pc[u]
      BY <2>1, <2>4, GotoKeepsLocks, SMTT(30) DEF Pc, Holding
    <3>2. TypeOK'
      BY <1>6, <2>1, <2>2, <2>4, GotoKeepsLocks, ZenonT(30) DEF Execute, TypeOK,
         Pc, Holding, Handles
    <3>3. Rest'
      BY <2>1, <3>1, ContextsKept
    <3>4. graph_context[model[t]] \in contexts => graph_context[model[t]] \in dead
      BY <2>1a, <2>4 DEF ExecuteOutcomes
    <3>5. (NewContextKnown /\ RecoversDead)'
      BY <2>1, <3>1, <3>4, SMTT(30) DEF NewContextKnown, RecoversDead, Handles
    <3> QED
      BY <3>1, <3>2, <3>3, <3>5, ZenonT(30)
  <2> QED
    BY <2>1a, <2>3, <2>4 DEF Results
<1>7. ASSUME NEW t \in Threads, ClearInfos(t)
      PROVE  SsrInv'
  <2>1. UNCHANGED << contexts, bin, graph_context, dead, recovery_owner, model,
                     exec_owner >> /\ pc[t] = "clear" /\ Goto(t, "rlock")
    BY <1>7 DEF ClearInfos
  <2>2. ExecLock' /\ pc'[t] = "rlock" /\ \A u \in Threads \ {t} : pc'[u] = pc[u]
    BY <2>1, GotoKeepsLocks, SMTT(30) DEF Pc, Holding
  <2>3. TypeOK'
    BY <1>7, <2>1, GotoKeepsLocks, ZenonT(30) DEF ClearInfos, TypeOK, Pc, Holding,
       Handles
  <2>4. Rest'
    BY <2>1, <2>2, ContextsKept
  <2>5. (NewContextKnown /\ RecoversDead)'
    BY <1>7, <2>1, <2>2 DEF ClearInfos, NewContextKnown, RecoversDead, Handles,
       TypeOK
  <2> QED
    BY <2>2, <2>3, <2>4, <2>5, SMTT(30)
<1> QED
  BY <1>1, <1>2, <1>3, <1>4, <1>5, <1>6, <1>7

\* The steps of a recovery, and those under the execution lock that read what
\* a recovery writes, preserve SsrInv.
LEMMA RecoveryStepKeepsSsrInv ==
    ASSUME SsrInv
    PROVE  (\E t \in Threads : \/ ReloadContextForSSR(t) \/ RetrieveGraph(t) \/ Setup(t)
                             \/ LockGraphExec(t) \/ CheckStale(t) \/ LockRecovery(t))
           => SsrInv'
<1> USE SsrAssumption DEF SsrInv, deviceVars, managerVars, modelVars, localVars,
      historyVars
<1> DEFINE Rest == /\ OneContextPerBinary /\ GraphOfOwnBinary
                   /\ NoneLeftAtReload /\ RecoveryLock
<1>1. ASSUME NEW t \in Threads, ReloadContextForSSR(t)
      PROVE  SsrInv'
  <2>1. UNCHANGED << graph_context, dead, model >> /\ pc[t] = "reload"
        /\ recovery_owner = t /\ recovery_owner' = NoThread
    BY <1>1 DEF ReloadContextForSSR, RecoveryLock
  <2>2. \A u \in Threads \ {t} : pc[u] # "reload"
    BY <2>1 DEF RecoveryLock
  <2>3. CASE Return(t, "failed") /\ UNCHANGED << contexts, bin, new_context >>
    <3>1. ExecLock' /\ pc'[t] = "idle" /\ \A u \in Threads \ {t} : pc'[u] = pc[u]
      BY <2>1, <2>3, ReturnKeepsLocks DEF Results
    <3>2. TypeOK'
      BY <1>1, <2>1, <2>3, ReturnKeepsLocks DEF ReloadContextForSSR, TypeOK,
         Results, Handles
    <3>3. Rest'
      BY <2>1, <2>2, <2>3, <3>1 DEF OneContextPerBinary, GraphOfOwnBinary,
           NoneLeftAtReload, RecoveryLock
    <3>4. (NewContextKnown /\ RecoversDead)'
      BY <2>1, <2>3, <3>1, KnowledgeKept
    <3> QED
      BY <3>1, <3>2, <3>3, <3>4
  <2>4. CASE /\ bin' = Append(bin, BinOf[model[t]])
             /\ contexts' = contexts \cup {Len(bin')}
             /\ new_context' = [new_context EXCEPT ![t] = Len(bin')]
             /\ Goto(t, "retrieve")
             /\ UNCHANGED << result, exec_owner, broken >>
    <3>1. ExecLock' /\ pc'[t] = "retrieve" /\ \A u \in Threads \ {t} : pc'[u] = pc[u]
      BY <2>1, <2>4, GotoKeepsLocks DEF Pc, Holding
    <3>2. BinOf[model[t]] \in Binaries
      BY DEF TypeOK
    <3>3. /\ bin' \in Seq(Binaries)
          /\ Len(bin') = Len(bin) + 1
          /\ DOMAIN bin = 1 .. Len(bin) /\ Len(bin) \in Nat
          /\ DOMAIN bin' = 1 .. Len(bin) + 1
          /\ bin'[Len(bin')] = BinOf[model[t]]
          /\ \A c \in DOMAIN bin : bin'[c] = bin[c]
      BY <2>4, <3>2, SMT DEF TypeOK
    <3>4. Handles' = Handles \cup {Len(bin')} /\ Len(bin') \notin Handles
      BY <3>3, SMTT(30) DEF Handles
    <3>5. TypeOK'
      <4>1. pc' \in [Threads -> Pc]
        BY <2>1, <2>4, GotoKeepsLocks DEF Pc, Holding
      <4>2. new_context' \in [Threads -> Handles' \cup {0}]
        BY <2>4, <3>4 DEF TypeOK
      <4>3. /\ contexts' \subseteq Handles' /\ dead' \subseteq Handles'
            /\ graph_context' \in [Models -> Handles']
        BY <2>1, <2>4, <3>4 DEF TypeOK
      <4> QED
        BY <1>1, <2>1, <2>4, <3>3, <4>1, <4>2, <4>3 DEF ReloadContextForSSR,
           TypeOK
    <3>6. OneContextPerBinary'
      BY <2>1, <2>4, <3>3, <3>4, SMT DEF OneContextPerBinary, NoneLeftAtReload,
         TypeOK, Handles
    <3>7. GraphOfOwnBinary'
      BY <2>1, <3>3 DEF GraphOfOwnBinary, TypeOK, Handles
    <3>8. (NoneLeftAtReload /\ RecoveryLock)'
      BY <2>1, <2>2, <3>1 DEF NoneLeftAtReload, RecoveryLock
    <3>9. NewContextKnown'
      BY <2>4, <3>1, <3>4 DEF NewContextKnown, TypeOK
    <3>10. RecoversDead'
      BY <2>1, <2>4, <3>1, <3>4, SMT DEF RecoversDead, TypeOK
    <3> QED
      BY <3>1, <3>5, <3>6, <3>7, <3>8, <3>9, <3>10
  <2> QED
    BY <1>1, <2>3, <2>4 DEF ReloadContextForSSR
<1>2. ASSUME NEW t \in Threads, RetrieveGraph(t)
      PROVE  SsrInv'
  <2>1. UNCHANGED << contexts, bin, dead, recovery_owner, model, new_context >>
        /\ pc[t] = "retrieve" /\ new_context[t] \in Handles
    BY <1>2 DEF RetrieveGraph, NewContextKnown
  <2>2. CASE Return(t, "failed") /\ UNCHANGED graph_context
    <3>1. ExecLock' /\ pc'[t] = "idle" /\ \A u \in Threads \ {t} : pc'[u] = pc[u]
      BY <2>1, <2>2, ReturnKeepsLocks DEF Results
    <3>2. broken' \subseteq Models
      BY <1>2, SMT DEF RetrieveGraph, TypeOK
    <3>3. TypeOK'
      BY <1>2, <2>1, <2>2, <3>2, ReturnKeepsLocks, SMTT(30) DEF RetrieveGraph,
         TypeOK, Results, Handles
    <3>4. Rest' /\ (NewContextKnown /\ RecoversDead)'
      BY <2>1, <2>2, <3>1, ContextsKept, KnowledgeKept
    <3> QED
      BY <3>1, <3>3, <3>4
  <2>3. CASE /\ bin[new_context[t]] = BinOf[model[t]]
             /\ graph_context' = [graph_context EXCEPT ![model[t]] = new_context[t]]
             /\ Goto(t, "setup")
             /\ UNCHANGED << result, exec_owner, broken >>
    <3>1. ExecLock' /\ pc'[t] = "setup" /\ \A u \in Threads \ {t} : pc'[u] = pc[u]
      BY <2>1, <2>3, GotoKeepsLocks DEF Pc, Holding
    <3>2. \A u \in Threads \ {t} : pc[u] \in Holding => model[u] # model[t]
      BY <2>1, SMTT(30) DEF ExecLock, Holding, Pc
    <3>3. TypeOK'
      BY <1>2, <2>1, <2>3, GotoKeepsLocks, ZenonT(30) DEF RetrieveGraph, TypeOK,
         Pc, Holding, Handles
    <3>4. (OneContextPerBinary /\ NoneLeftAtReload /\ RecoveryLock)'
      BY <2>1, <3>1 DEF OneContextPerBinary, NoneLeftAtReload, RecoveryLock
    <3>5. GraphOfOwnBinary'
      BY <2>1, <2>3 DEF GraphOfOwnBinary, TypeOK
    <3>6. NewContextKnown'
      BY <2>1, <3>1 DEF NewContextKnown, Handles
    <3>7. RecoversDead'
      BY <2>1, <2>3, <3>1, <3>2, SMTT(30) DEF RecoversDead, TypeOK, Holding, Pc
    <3> QED
      BY <3>1, <3>3, <3>4, <3>5, <3>6, <3>7
  <2> QED
    BY <1>2, <2>2, <2>3, SMTT(30) DEF RetrieveGraph
<1>3. ASSUME NEW t \in Threads, Setup(t)
      PROVE  SsrInv'
  <2>1. CASE Goto(t, "bind") /\ UNCHANGED << result, exec_owner >>
    <3>1. UNCHANGED << contexts, bin, graph_context, dead, recovery_owner, model,
                       new_context >>
      BY <1>3, SMTT(30) DEF Setup
    <3>2. ExecLock' /\ pc'[t] = "bind" /\ \A u \in Threads \ {t} : pc'[u] = pc[u]
      BY <1>3, <2>1, <3>1, GotoKeepsLocks DEF Setup, Pc, Holding
    <3>3. TypeOK'
      BY <1>3, <2>1, <3>1, GotoKeepsLocks DEF Setup, TypeOK, Pc, Holding, Results,
         Handles
    <3>4. Rest' /\ (NewContextKnown /\ RecoversDead)'
      BY <1>3, <3>1, <3>2, ContextsKept, KnowledgeKept DEF Setup
    <3> QED
      BY <3>2, <3>3, <3>4, SMTT(30)
  <2>2. CASE Return(t, "failed")
    <3>1. UNCHANGED << contexts, bin, graph_context, dead, recovery_owner, model,
                       new_context >>
      BY <1>3 DEF Setup
    <3>2. ExecLock' /\ pc'[t] = "idle" /\ \A u \in Threads \ {t} : pc'[u] = pc[u]
      BY <2>2, <3>1, ReturnKeepsLocks DEF Results
    <3>3. TypeOK'
      BY <1>3, <2>2, <3>1, ReturnKeepsLocks, SMTT(30) DEF Setup, TypeOK, Results,
         Handles
    <3>4. Rest' /\ (NewContextKnown /\ RecoversDead)'
      BY <1>3, <3>1, <3>2, ContextsKept, KnowledgeKept DEF Setup
    <3> QED
      BY <3>2, <3>3, <3>4, SMTT(30)
  <2> QED
    BY <1>3, <2>1, <2>2 DEF Setup
<1>4. ASSUME NEW t \in Threads, LockGraphExec(t)
      PROVE  SsrInv'
  <2>1. TypeOK'
    BY <1>4 DEF LockGraphExec, Goto, TypeOK, Pc, Handles
  <2>2. (OneContextPerBinary /\ GraphOfOwnBinary /\ NoneLeftAtReload)'
    BY <1>4 DEF LockGraphExec, Goto, TypeOK, OneContextPerBinary,
       GraphOfOwnBinary,
         NoneLeftAtReload
  <2>3. (RecoveryLock /\ ExecLock)'
    BY <1>4, SMT DEF LockGraphExec, Goto, TypeOK, RecoveryLock, ExecLock, Holding
  <2>4. (NewContextKnown /\ RecoversDead)'
    BY <1>4 DEF LockGraphExec, Goto, TypeOK, Handles, NewContextKnown,
       RecoversDead
  <2> QED
    BY <2>1, <2>2, <2>3, <2>4
<1>5. ASSUME NEW t \in Threads, CheckStale(t)
      PROVE  SsrInv'
  <2>1. TypeOK'
    BY <1>5 DEF CheckStale, Goto, TypeOK, Pc, Handles
  <2>2. (OneContextPerBinary /\ GraphOfOwnBinary /\ NoneLeftAtReload)'
    BY <1>5 DEF CheckStale, Goto, TypeOK, OneContextPerBinary, GraphOfOwnBinary,
         NoneLeftAtReload
  <2>3. (RecoveryLock /\ ExecLock)'
    BY <1>5 DEF CheckStale, Goto, TypeOK, RecoveryLock, ExecLock, Holding, Pc
  <2>4. (NewContextKnown /\ RecoversDead)'
    BY <1>5, SMTT(30) DEF CheckStale, Goto, TypeOK, Handles, HasContextHandle,
         NewContextKnown, RecoversDead
  <2> QED
    BY <2>1, <2>2, <2>3, <2>4
<1>6. ASSUME NEW t \in Threads, LockRecovery(t)
      PROVE  SsrInv'
  <2>1. UNCHANGED << bin, graph_context, dead, model >> /\ pc[t] = "rlock"
        /\ recovery_owner = NoThread
    BY <1>6 DEF LockRecovery
  <2>2. \A u \in Threads : pc[u] # "reload"
    BY <2>1 DEF RecoveryLock
  <2>3. CASE Return(t, "failed") /\ UNCHANGED << contexts, recovery_owner, new_context >>
    <3>1. ExecLock' /\ pc'[t] = "idle" /\ \A u \in Threads \ {t} : pc'[u] = pc[u]
      BY <2>1, <2>3, ReturnKeepsLocks DEF Results
    <3>2. TypeOK'
      BY <1>6, <2>1, <2>3, ReturnKeepsLocks, SMTT(30) DEF LockRecovery, TypeOK,
         Results, Handles
    <3>3. Rest' /\ (NewContextKnown /\ RecoversDead)'
      BY <2>1, <2>3, <3>1, ContextsKept, KnowledgeKept, ZenonT(30)
    <3> QED
      BY <3>1, <3>2, <3>3
  <2>4. ASSUME NEW c \in contexts,
               new_context' = [new_context EXCEPT ![t] = c],
               Goto(t, "retrieve"),
               UNCHANGED << contexts, recovery_owner, result, exec_owner >>
        PROVE  SsrInv'
    <3>1. ExecLock' /\ pc'[t] = "retrieve" /\ \A u \in Threads \ {t} : pc'[u] = pc[u]
      BY <2>1, <2>4, GotoKeepsLocks DEF Pc, Holding
    <3>2. c \in Handles
      BY DEF TypeOK
    <3>3. TypeOK'
      BY <1>6, <2>1, <2>4, <3>2, GotoKeepsLocks DEF LockRecovery, TypeOK, Pc,
         Holding, Handles
    <3>4. Rest'
      BY <2>1, <2>4, <3>1, ContextsKept
    <3>5. (NewContextKnown /\ RecoversDead)'
      BY <2>1, <2>4, <3>1, <3>2, SMTT(30) DEF NewContextKnown, RecoversDead,
         TypeOK, Handles
    <3> QED
      BY <3>1, <3>3, <3>4, <3>5
  <2>5. CASE /\ HasContextHandle(graph_context[model[t]])
             /\ ReleaseSpecificContextHandle(graph_context[model[t]])
             /\ recovery_owner' = t
             /\ Goto(t, "reload")
             /\ UNCHANGED << new_context, result, exec_owner >>
    <3>1. ExecLock' /\ pc'[t] = "reload" /\ \A u \in Threads \ {t} : pc'[u] = pc[u]
      BY <2>1, <2>5, GotoKeepsLocks DEF Pc, Holding
    <3>2. contexts' = contexts \ {graph_context[model[t]]}
          /\ graph_context[model[t]] \in contexts
      BY <2>5, SMTT(30) DEF HasContextHandle, ReleaseSpecificContextHandle
    <3>3. TypeOK'
      BY <1>6, <2>1, <2>5, <3>2, GotoKeepsLocks DEF LockRecovery, TypeOK, Pc,
         Holding, Handles
    <3>4. (OneContextPerBinary /\ GraphOfOwnBinary)'
      BY <2>1, <3>2 DEF OneContextPerBinary, GraphOfOwnBinary
    <3>5. NoneLeftAtReload'
      BY <2>1, <2>2, <3>1, <3>2, SMTT(30) DEF NoneLeftAtReload,
         OneContextPerBinary,
           GraphOfOwnBinary, TypeOK
    <3>6. RecoveryLock'
      BY <2>2, <2>5, <3>1 DEF RecoveryLock
    <3>7. (NewContextKnown /\ RecoversDead)'
      BY <2>1, <2>5, <3>1, <3>2 DEF NewContextKnown, RecoversDead, Handles
    <3> QED
      BY <3>1, <3>3, <3>4, <3>5, <3>6, <3>7
  <2> QED
    BY <1>6, <2>3, <2>4, <2>5, SMTT(30) DEF LockRecovery
<1> QED
  BY <1>1, <1>2, <1>3, <1>4, <1>5, <1>6

\* SsrInv is preserved by every step.
LEMMA NextSsrInv == SsrInv /\ [Next]_vars => SsrInv'
  BY RunStepKeepsSsrInv, RecoveryStepKeepsSsrInv DEF Next, Step, Lock

\* SsrInv holds in every state of every execution.
LEMMA SsrInvHolds == Spec => []SsrInv
<1> QED
  BY InitSsrInv, NextSsrInv, PTL DEF Spec

-----------------------------------------------------------------------------
\* The variables of ExecuteGraph and RecoverFromSSR keep their types; a graph's
\* context and a registered context are always ones that were created.
THEOREM SsrTypeOKHolds == Spec => []TypeOK
<1>1. SsrInv => TypeOK
  BY DEF SsrInv
<1> QED
  BY <1>1, SsrInvHolds, PTL

\* However many threads detect a crash at once, and however many models share
\* a context binary, recovery never leaves two contexts of one binary behind.
THEOREM OneContextPerBinaryHolds == Spec => []OneContextPerBinary
<1>1. SsrInv => OneContextPerBinary
  BY DEF SsrInv
<1> QED
  BY <1>1, SsrInvHolds, PTL

\* A recovery never frees a context that still works, be it the replacement
\* another thread has just created.
THEOREM FreesOnlyDeadContextsHolds == Spec => FreesOnlyDeadContexts
<1>1. ASSUME SsrInv, [Next]_vars
      PROVE  [\A c \in contexts : c \notin contexts' => c \in dead]_vars
  <2>1. CASE contexts' = contexts
    BY <2>1, SMTT(30)
  <2>2. ASSUME NEW t \in Threads, LockRecovery(t), contexts' # contexts
        PROVE  \A c \in contexts : c \notin contexts' => c \in dead
    <3>1. /\ contexts' = contexts \ {graph_context[model[t]]}
          /\ graph_context[model[t]] \in contexts
          /\ pc[t] = "rlock"
      BY <2>2 DEF LockRecovery, ReleaseSpecificContextHandle, HasContextHandle
    <3> QED
      BY <3>1, <1>1 DEF SsrInv, RecoversDead
  <2>3. ASSUME NEW t \in Threads, ReloadContextForSSR(t)
        PROVE  contexts \subseteq contexts'
    BY <2>3, SMTT(30) DEF ReloadContextForSSR
  <2>4. contexts' = contexts
        \/ \E t \in Threads : LockRecovery(t) \/ ReloadContextForSSR(t)
    BY <1>1 DEF Next, Step, Lock, vars, Crash, Begin, CheckSizes, Bind, Execute,
         ClearInfos, RetrieveGraph, Setup, LockGraphExec, CheckStale,
         deviceVars, managerVars
  <2> QED
    BY <2>1, <2>2, <2>3, <2>4
<1> QED
  BY <1>1, SsrInvHolds, PTL DEF Spec, FreesOnlyDeadContexts

-----------------------------------------------------------------------------

\* From clearing the tensor infos until they are set up again.
Reloading == InRecovery \ {"clear"}

\* Every binary has a context, or a thread about to create it, or is lost.
LoadedInv ==
    \A b \in Binaries :
        \/ \E c \in contexts : bin[c] = b
        \/ \E t \in Threads : pc[t] = "reload" /\ BinOf[model[t]] = b
        \/ \A m \in Models : BinOf[m] = b => m \in broken

\* Only a recovery in progress has a model without infos, or one that failed.
InfosInv ==
    \A m \in Models : ~infos_set[m] =>
        m \in broken \/ \E t \in Threads : pc[t] \in Reloading /\ model[t] = m

\* An undisturbed run is alone with its recovery.
AloneInv ==
    \A t \in Threads : pc[t] # "idle" /\ ~disturbed[t] =>
        \A u \in Threads \ {t} : pc[u] \notin Reloading

\* The runs RecoveryIsTransparent speaks of.
Clean(t) == ~disturbed[t] /\ has_path[BinOf[model[t]]] /\ model[t] \notin broken

\* What such a run knows of the context it uses: it is registered, and after a
\* crash it is one that the run has created itself.
KnowsContext(t) ==
    LET g == graph_context[model[t]] IN
    Clean(t) =>
        /\ pc[t] \in {"sizes", "lock", "stale"} => ~retrying[t]
        /\ pc[t] \in {"setup", "bind", "exec"} => g \in contexts
        /\ pc[t] \in {"setup", "bind", "exec"} /\ retrying[t] => g \notin dead
        /\ pc[t] \in {"clear", "rlock"} /\ retrying[t] => g \in contexts
        /\ pc[t] = "retrieve" => new_context[t] \in contexts
        /\ pc[t] = "retrieve" /\ retrying[t] => new_context[t] \notin dead

\* The inductive invariant of RecoveryIsTransparent, relative to SsrInv.
AttemptInv ==
    /\ LoadedInv /\ InfosInv /\ AloneInv
    /\ \A t \in Threads : KnowsContext(t)

\* What a step of the thread t leaves alone.
OwnStep(t) ==
    /\ \A v \in Threads \ {t} :
           /\ pc'[v] = pc[v] /\ model'[v] = model[v] /\ retrying'[v] = retrying[v]
           /\ new_context'[v] = new_context[v] /\ result'[v] = result[v]
           /\ disturbed[v] => disturbed'[v]
    /\ has_path' = has_path /\ dead' = dead /\ broken \subseteq broken'
    /\ pc[t] \notin Reloading => UNCHANGED << contexts, bin, graph_context >>

\* A step of a thread leaves the locals of the others alone, and touches
\* contexts only inside a recovery.
LEMMA StepsAreOwn ==
    ASSUME TypeOK, NEW t \in Threads,
           (\E m \in Models : Begin(t, m)) \/ Step(t) \/ Lock(t)
    PROVE  OwnStep(t)
<1> USE DEF OwnStep, Goto, TypeOK, deviceVars, managerVars, modelVars, localVars,
      historyVars, Reloading, InRecovery
<1>1. CASE \E m \in Models : Begin(t, m)
  BY <1>1 DEF Begin
<1>2. CASE CheckSizes(t) \/ Bind(t) \/ Setup(t)
  BY <1>2, SMT DEF CheckSizes, Bind, Setup, Return
<1>3. CASE Execute(t)
  BY <1>3 DEF Execute, Return
<1>4. CASE ClearInfos(t)
  BY <1>4 DEF ClearInfos
<1>5. CASE ReloadContextForSSR(t)
  BY <1>5 DEF ReloadContextForSSR, Return
<1>6. CASE RetrieveGraph(t)
  BY <1>6 DEF RetrieveGraph, Return
<1>7. CASE LockGraphExec(t) \/ CheckStale(t)
  BY <1>7 DEF LockGraphExec, CheckStale
<1>8. CASE LockRecovery(t)
  BY <1>8 DEF LockRecovery, Return
<1> QED BY <1>1, <1>2, <1>3, <1>4, <1>5, <1>6, <1>7, <1>8 DEF Step, Lock

\* What the others know survives a step of t: if t is recovering, they are
\* disturbed.
LEMMA OthersKept ==
    ASSUME TypeOK, AttemptInv, NEW t \in Threads, OwnStep(t), NEW v \in Threads \ {t}
    PROVE  KnowsContext(v)'
<1>1. KnowsContext(v)'
  <2> SUFFICES ASSUME Clean(v)' PROVE KnowsContext(v)'
    BY DEF KnowsContext
  <2>1. Clean(v)
    BY DEF Clean, OwnStep
  <2>2. CASE pc[v] = "idle"
    BY <2>2 DEF KnowsContext, OwnStep
  <2>3. CASE pc[v] # "idle"
    <3>1. pc[t] \notin Reloading
      BY <2>1, <2>3 DEF AttemptInv, AloneInv, Clean
    <3> QED BY <2>1, <3>1 DEF AttemptInv, KnowsContext, OwnStep
  <2> QED BY <2>2, <2>3
<1> QED BY <1>1

\* A step outside of a recovery has only to look after its own thread.
LEMMA OwnStepKeepsAttemptInv ==
    ASSUME TypeOK, AttemptInv, NEW t \in Threads, OwnStep(t),
           pc[t] # "reload" /\ pc'[t] \notin Reloading,
           infos_set' = infos_set, model'[t] = model[t] \/ pc[t] \notin Reloading,
           pc[t] \in Reloading => UNCHANGED << contexts, bin >> /\ model[t] \in broken',
           pc[t] = "idle" => disturbed'[t] \/ \A u \in Threads : pc[u] \notin Reloading,
           pc[t] # "idle" => disturbed'[t] = disturbed[t],
           KnowsContext(t)'
    PROVE  AttemptInv'
<1>1. LoadedInv'
  <2>1. UNCHANGED << contexts, bin >> /\ broken \subseteq broken'
    BY DEF OwnStep
  <2>2. \A u \in Threads : pc[u] = "reload" => pc'[u] = "reload" /\ model'[u] = model[u]
    BY DEF OwnStep
  <2> QED BY <2>1, <2>2, SMT DEF AttemptInv, LoadedInv
<1>2. InfosInv'
  BY SMT DEF AttemptInv, InfosInv, OwnStep
<1>3. AloneInv'
  BY DEF AttemptInv, AloneInv, OwnStep
<1> QED BY <1>1, <1>2, <1>3, OthersKept DEF AttemptInv

\* A run that begins is disturbed by a recovery that is under way.
LEMMA BeginKeepsAttemptInv ==
    ASSUME SsrInv, AttemptInv, NEW t \in Threads, NEW m \in Models, Begin(t, m)
    PROVE  AttemptInv'
<1>1. OwnStep(t) /\ TypeOK
  BY StepsAreOwn DEF SsrInv
<1>2. /\ pc[t] = "idle" /\ pc'[t] = "sizes" /\ infos_set' = infos_set
      /\ ~retrying'[t] /\ result'[t] = "none"
      /\ disturbed'[t] = \E u \in Threads : pc[u] \in InRecovery
  BY <1>1 DEF Begin, Goto, modelVars, TypeOK
<1>3. KnowsContext(t)'
  BY <1>2 DEF KnowsContext
<1>4. /\ pc[t] \notin Reloading /\ pc'[t] \notin Reloading
      /\ disturbed'[t] \/ \A u \in Threads : pc[u] \notin Reloading
  BY <1>2 DEF Reloading, InRecovery
<1> QED BY <1>1, <1>2, <1>3, <1>4, OwnStepKeepsAttemptInv

\* The steps of ExecuteGraph outside recovery.  A run that nothing disturbs
\* finds its tensor infos and its context, and crashes only on a context that a
\* crash has killed before, so once.
LEMMA RunKeepsAttemptInv ==
    ASSUME SsrInv, AttemptInv, OtherErrors = FALSE, NEW t \in Threads,
           CheckSizes(t) \/ LockGraphExec(t) \/ CheckStale(t) \/ Bind(t) \/ Execute(t)
    PROVE  AttemptInv'
<1> DEFINE g == graph_context[model[t]]
<1>1. OwnStep(t) /\ TypeOK
  BY StepsAreOwn DEF SsrInv, Step, Lock
<1>2. /\ pc[t] \in {"sizes", "lock", "stale", "bind", "exec"}
      /\ pc[t] \notin Reloading
      /\ UNCHANGED << infos_set, model, disturbed, broken >>
  BY DEF CheckSizes, LockGraphExec, CheckStale, Bind, Execute, modelVars,
     localVars, historyVars,
     Reloading, InRecovery
<1>3. UNCHANGED << graph_context, contexts, dead, has_path >>
  BY <1>1, <1>2 DEF OwnStep
<1>4. ASSUME NEW r, Return(t, r)
      PROVE  pc'[t] \notin Reloading /\ KnowsContext(t)'
  <2>1. pc'[t] = "idle"
    BY <1>1, <1>4 DEF Return, Goto, TypeOK
  <2> QED BY <2>1 DEF KnowsContext, Reloading, InRecovery
<1>5. ASSUME NEW l, Goto(t, l), UNCHANGED result,
             Clean(t) => /\ l \in {"lock", "stale"} => ~retrying'[t]
                         /\ l \in {"bind", "exec"} => g \in contexts /\ (retrying'[t] => g \notin dead)
                         /\ l = "clear" /\ retrying'[t] => g \in contexts,
             l \in {"lock", "stale", "bind", "exec", "clear"}
      PROVE  /\ pc'[t] \notin Reloading /\ KnowsContext(t)'
  <2>1. pc'[t] = l
    BY <1>1, <1>5 DEF Goto, TypeOK
  <2>2. KnowsContext(t)'
    BY <1>2, <1>3, <1>5, <2>1 DEF KnowsContext, Clean
  <2> QED BY <1>2, <1>3, <1>5, <2>1, <2>2 DEF Reloading, InRecovery,
       AttemptInv
<1>6. KnowsContext(t)
  BY DEF AttemptInv
<1>7. CASE CheckSizes(t)
  <2>1. pc[t] = "sizes" /\ UNCHANGED retrying
    BY <1>7 DEF CheckSizes, localVars
  <2>2. CASE ~infos_set[model[t]]
    <3>1. Return(t, "failed")
      BY <1>7, <2>2 DEF CheckSizes
    <3>2. pc'[t] \notin Reloading /\ KnowsContext(t)'
      BY <1>4, <3>1
    <3> QED BY <1>1, <1>2, <2>1, <3>2, OwnStepKeepsAttemptInv
  <2>3. CASE infos_set[model[t]]
    <3>1. Goto(t, "lock") /\ UNCHANGED result
      BY <1>7, <2>3 DEF CheckSizes
    <3>2. pc'[t] \notin Reloading /\ KnowsContext(t)'
      BY <1>5, <1>6, <2>1, <3>1 DEF KnowsContext
    <3> QED BY <1>1, <1>2, <2>1, <3>2, OwnStepKeepsAttemptInv
  <2> QED BY <2>2, <2>3
<1>8. CASE LockGraphExec(t)
  <2>1. pc[t] = "lock" /\ UNCHANGED << retrying, result >>
        /\ Goto(t, IF has_path[BinOf[model[t]]] THEN "stale" ELSE "bind")
    BY <1>8 DEF LockGraphExec, localVars
  <2>2. pc'[t] \notin Reloading /\ KnowsContext(t)'
    BY <1>5, <1>6, <2>1 DEF KnowsContext, Clean
  <2> QED BY <1>1, <1>2, <2>1, <2>2, OwnStepKeepsAttemptInv
<1>9. CASE CheckStale(t)
  <2>1. pc[t] = "stale" /\ UNCHANGED << retrying, result >>
        /\ Goto(t, IF g \in contexts THEN "bind" ELSE "clear")
    BY <1>9 DEF CheckStale, localVars, HasContextHandle
  <2>2. pc'[t] \notin Reloading /\ KnowsContext(t)'
    BY <1>5, <1>6, <2>1 DEF KnowsContext
  <2> QED BY <1>1, <1>2, <2>1, <2>2, OwnStepKeepsAttemptInv
<1>10. CASE Bind(t)
  <2>1. pc[t] = "bind" /\ UNCHANGED retrying
    BY <1>10 DEF Bind, localVars
  <2>2. pc'[t] \notin Reloading /\ KnowsContext(t)'
    <3>1. CASE Goto(t, "exec") /\ UNCHANGED result
      BY <1>5, <1>6, <2>1, <3>1 DEF KnowsContext
    <3>2. CASE g \notin contexts /\ Return(t, "failed")
      BY <1>4, <3>2
    <3> QED BY <1>10, <3>1, <3>2 DEF Bind, HasContextHandle
  <2> QED BY <1>1, <1>2, <2>1, <2>2, OwnStepKeepsAttemptInv
<1>11. CASE Execute(t)
  <2>1. pc[t] = "exec"
    BY <1>11 DEF Execute
  <2>2. PICK s \in ExecuteOutcomes(g) : Execute(t)!2!(s)
    BY <1>11 DEF Execute
  <2>3. Clean(t) => g \in contexts /\ s # "other" /\ (retrying[t] => s = "ok")
    BY <1>6, <2>1, <2>2 DEF KnowsContext, ExecuteOutcomes
  <2>4. pc'[t] \notin Reloading /\ KnowsContext(t)'
    <3>1. CASE s = "crash" /\ Goto(t, "clear") /\ UNCHANGED result
      BY <1>5, <2>3, <3>1
    <3>2. CASE \E r : Return(t, r)
      BY <1>4, <3>2
    <3> QED BY <2>2, <3>1, <3>2
  <2> QED BY <1>1, <1>2, <2>1, <2>4, OwnStepKeepsAttemptInv
<1> QED BY <1>7, <1>8, <1>9, <1>10, <1>11

\* Clearing the tensor infos is the step that disturbs the other runs.
LEMMA ClearKeepsAttemptInv ==
    ASSUME SsrInv, AttemptInv, NEW t \in Threads, ClearInfos(t)
    PROVE  AttemptInv'
<1>1. OwnStep(t) /\ TypeOK
  BY StepsAreOwn DEF SsrInv, Step
<1>2. /\ pc[t] = "clear" /\ pc'[t] = "rlock"
      /\ \A m \in Models : m # model[t] => infos_set'[m] = infos_set[m]
      /\ disturbed'[t] = disturbed[t]
      /\ \A u \in Threads \ {t} : disturbed'[u] \/ (pc[u] = "idle" /\ disturbed'[u] = disturbed[u])
      /\ UNCHANGED << contexts, bin, graph_context, dead, has_path, broken, model, retrying, result >>
  BY <1>1 DEF ClearInfos, Goto, TypeOK, Active, deviceVars, managerVars
<1>3. LoadedInv'
  BY <1>1, <1>2, SMT DEF AttemptInv, LoadedInv, OwnStep
<1>4. InfosInv'
  BY <1>1, <1>2 DEF AttemptInv, InfosInv, OwnStep, Reloading, InRecovery
<1>5. AloneInv'
  BY <1>1, <1>2 DEF AttemptInv, AloneInv, OwnStep
<1>6. KnowsContext(t)'
  BY <1>2 DEF AttemptInv, KnowsContext, Clean
<1> QED BY <1>1, <1>3, <1>4, <1>5, <1>6, OthersKept DEF AttemptInv

\* Under the recovery mutex: the dead context is freed, or the one another
\* model has created is taken, or nothing is left to recover with.
LEMMA LockKeepsAttemptInv ==
    ASSUME SsrInv, AttemptInv, NEW t \in Threads, LockRecovery(t)
    PROVE  AttemptInv'
<1> DEFINE g == graph_context[model[t]]
<1>1. OwnStep(t) /\ TypeOK
  BY StepsAreOwn DEF SsrInv, Lock
<1>2. /\ pc[t] = "rlock" /\ pc[t] \in Reloading /\ recovery_owner = NoThread
      /\ UNCHANGED << bin, graph_context, dead, has_path, broken, model, retrying, disturbed, infos_set >>
  BY DEF LockRecovery, Reloading, InRecovery, deviceVars, historyVars
<1>3. model[t] \in Models /\ BinOf[model[t]] \in Binaries
  BY <1>1, SsrAssumption DEF TypeOK
<1>4. \A u \in Threads : pc[u] # "reload"
  BY <1>2, SsrAssumption DEF SsrInv, RecoveryLock
<1>5. CASE g \in contexts /\ contexts' = contexts \ {g} /\ Goto(t, "reload") /\ UNCHANGED result
  <2>1. pc'[t] = "reload" /\ pc'[t] \in Reloading
    BY <1>1, <1>5 DEF Goto, TypeOK, Reloading, InRecovery
  <2>2. LoadedInv'
    <3> SUFFICES ASSUME NEW b \in Binaries
                 PROVE  \/ \E c \in contexts' : bin[c] = b
                        \/ \E u \in Threads : pc'[u] = "reload" /\ BinOf[model[u]] = b
                        \/ \A m \in Models : BinOf[m] = b => m \in broken
      BY <1>2 DEF LoadedInv
    <3>1. bin[g] = BinOf[model[t]]
      BY <1>3 DEF SsrInv, GraphOfOwnBinary
    <3>2. CASE b = BinOf[model[t]]
      BY <2>1, <3>2
    <3>3. CASE b # BinOf[model[t]]
      BY <1>4, <1>5, <3>1, <3>3 DEF AttemptInv, LoadedInv
    <3> QED BY <3>2, <3>3
  <2>3. InfosInv' /\ AloneInv'
    BY <1>1, <1>2, <2>1 DEF AttemptInv, InfosInv, AloneInv, OwnStep
  <2>4. KnowsContext(t)'
    BY <1>2, <1>5, <2>1 DEF AttemptInv, KnowsContext
  <2> QED BY <1>1, <2>2, <2>3, <2>4, OthersKept DEF AttemptInv
<1>6. ASSUME g \notin contexts, NEW c \in contexts, new_context' = [new_context EXCEPT ![t] = c],
             Goto(t, "retrieve"), UNCHANGED << contexts, result >>
      PROVE  AttemptInv'
  <2>1. pc'[t] = "retrieve" /\ pc'[t] \in Reloading
    BY <1>1, <1>6 DEF Goto, TypeOK, Reloading, InRecovery
  <2>2. new_context'[t] = c
    BY <1>1, <1>6 DEF TypeOK
  <2>3. LoadedInv' /\ InfosInv' /\ AloneInv'
    BY <1>1, <1>2, <1>4, <1>6, <2>1, SMT DEF AttemptInv, LoadedInv, InfosInv,
       AloneInv, OwnStep
  <2>4. KnowsContext(t)'
    BY <1>2, <1>6, <2>1, <2>2, SMT DEF AttemptInv, KnowsContext,
       Clean
  <2> QED BY <1>1, <2>3, <2>4, OthersKept DEF AttemptInv
<1>7. CASE contexts = {} /\ Return(t, "failed") /\ UNCHANGED contexts
  <2>1. pc'[t] = "idle" /\ pc'[t] \notin Reloading
    BY <1>1, <1>7 DEF Return, Goto, TypeOK, Reloading, InRecovery
  <2>2. model[t] \in broken
    BY <1>3, <1>4, <1>7 DEF AttemptInv, LoadedInv
  <2>3. KnowsContext(t)'
    BY <1>2, <2>1, <2>2 DEF KnowsContext
  <2> QED BY <1>1, <1>2, <1>7, <2>1, <2>2, <2>3, OwnStepKeepsAttemptInv
<1> QED BY <1>5, <1>6, <1>7 DEF LockRecovery, HasContextHandle,
     ReleaseSpecificContextHandle

\* The new context is registered and alive; a failure loses all models of the
\* binary.
LEMMA ReloadKeepsAttemptInv ==
    ASSUME SsrInv, AttemptInv, NEW t \in Threads, ReloadContextForSSR(t)
    PROVE  AttemptInv'
<1>1. OwnStep(t) /\ TypeOK
  BY StepsAreOwn DEF SsrInv, Step
<1>2. /\ pc[t] = "reload" /\ pc[t] \in Reloading
      /\ UNCHANGED << graph_context, dead, has_path, model, retrying, disturbed, infos_set >>
  BY DEF ReloadContextForSSR, Reloading, InRecovery, deviceVars
<1>3. model[t] \in Models /\ BinOf[model[t]] \in Binaries
  BY <1>1, SsrAssumption DEF TypeOK
<1>4. CASE /\ bin' = Append(bin, BinOf[model[t]])
           /\ contexts' = contexts \cup {Len(bin')}
           /\ new_context' = [new_context EXCEPT ![t] = Len(bin')]
           /\ Goto(t, "retrieve")
           /\ UNCHANGED << result, exec_owner, broken >>
  <2>1. /\ pc'[t] = "retrieve" /\ pc'[t] \in Reloading /\ new_context'[t] = Len(bin')
    BY <1>1, <1>4 DEF Goto, TypeOK, Reloading, InRecovery
  <2>2. /\ bin'[Len(bin')] = BinOf[model[t]] /\ Len(bin') \notin DOMAIN bin
        /\ \A c \in DOMAIN bin : bin'[c] = bin[c]
    BY <1>1, <1>3, <1>4, SMT DEF TypeOK
  <2>3. Len(bin') \in contexts' /\ Len(bin') \notin dead /\ contexts \subseteq DOMAIN bin
    BY <1>1, <1>4, <2>2 DEF TypeOK, Handles
  <2>4. LoadedInv'
    <3> SUFFICES ASSUME NEW b \in Binaries
                 PROVE  \/ \E c \in contexts' : bin'[c] = b
                        \/ \E u \in Threads : pc'[u] = "reload" /\ BinOf[model[u]] = b
                        \/ \A m \in Models : BinOf[m] = b => m \in broken
      BY <1>2, <1>4 DEF LoadedInv
    <3>1. CASE b = BinOf[model[t]]
      BY <2>2, <2>3, <3>1
    <3>2. CASE b # BinOf[model[t]]
      <4>1. \A u \in Threads : pc[u] = "reload" /\ BinOf[model[u]] = b => pc'[u] = "reload"
        BY <1>1, <3>2 DEF OwnStep
      <4>2. \A c \in contexts : c \in contexts' /\ bin'[c] = bin[c]
        BY <1>4, <2>2, <2>3
      <4> QED BY <4>1, <4>2 DEF AttemptInv, LoadedInv
    <3> QED BY <3>1, <3>2
  <2>5. InfosInv' /\ AloneInv'
    BY <1>1, <1>2, <1>4, <2>1 DEF AttemptInv, InfosInv, AloneInv, OwnStep
  <2>6. KnowsContext(t)'
    BY <1>2, <1>4, <2>1, <2>3, SMT DEF AttemptInv, KnowsContext
  <2> QED BY <1>1, <2>4, <2>5, <2>6, OthersKept DEF AttemptInv
<1>5. CASE /\ broken' = broken \cup {m \in Models : BinOf[m] = BinOf[model[t]]}
           /\ Return(t, "failed") /\ UNCHANGED << contexts, bin, new_context >>
  <2>1. /\ pc'[t] = "idle" /\ pc'[t] \notin Reloading
        /\ \A m \in Models : BinOf[m] = BinOf[model[t]] => m \in broken'
    BY <1>1, <1>5 DEF Return, Goto, TypeOK, Reloading, InRecovery
  <2>2. LoadedInv'
    BY <1>1, <1>2, <1>5, <2>1, SMT DEF AttemptInv, LoadedInv, OwnStep
  <2>3. InfosInv' /\ AloneInv'
    BY <1>1, <1>2, <1>3, <2>1, SMT DEF AttemptInv, InfosInv, AloneInv, OwnStep
  <2>4. KnowsContext(t)'
    BY <1>2, <1>3, <2>1 DEF KnowsContext
  <2> QED BY <1>1, <2>2, <2>3, <2>4, OthersKept DEF AttemptInv
<1> QED BY <1>4, <1>5 DEF ReloadContextForSSR

\* The graph is looked up in the new context, and the infos are set again.
LEMMA RetrieveKeepsAttemptInv ==
    ASSUME SsrInv, AttemptInv, NEW t \in Threads, RetrieveGraph(t) \/ Setup(t)
    PROVE  AttemptInv'
<1>1. OwnStep(t) /\ TypeOK
  BY StepsAreOwn DEF SsrInv, Step
<1>2. /\ pc[t] \in {"retrieve", "setup"} /\ pc[t] \in Reloading
      /\ UNCHANGED << contexts, bin, dead, has_path, model, retrying, new_context, disturbed >>
  BY DEF RetrieveGraph, Setup, Reloading, InRecovery, deviceVars, managerVars,
     localVars, historyVars
<1>3. model[t] \in Models /\ KnowsContext(t)
  BY <1>1 DEF TypeOK, AttemptInv
<1>4. CASE RetrieveGraph(t)
  <2>1. pc[t] = "retrieve" /\ UNCHANGED infos_set
    BY <1>4 DEF RetrieveGraph
  <2>2. CASE /\ graph_context' = [graph_context EXCEPT ![model[t]] = new_context[t]]
             /\ Goto(t, "setup") /\ UNCHANGED << result, exec_owner, broken >>
    <3>1. /\ pc'[t] = "setup" /\ pc'[t] \in Reloading
          /\ graph_context'[model[t]] = new_context[t]
      BY <1>1, <2>2 DEF Goto, TypeOK, Reloading, InRecovery
    <3>2. LoadedInv' /\ InfosInv' /\ AloneInv'
      BY <1>1, <1>2, <2>1, <2>2, <3>1, SMT DEF AttemptInv, LoadedInv, InfosInv,
         AloneInv, OwnStep
    <3>3. KnowsContext(t)'
      BY <1>2, <1>3, <2>1, <2>2, <3>1, SMT DEF KnowsContext, Clean
    <3> QED BY <1>1, <3>2, <3>3, OthersKept DEF AttemptInv
  <2>3. CASE Return(t, "failed") /\ broken' = broken \cup {model[t]}
    <3>1. pc'[t] = "idle" /\ pc'[t] \notin Reloading /\ model[t] \in broken'
      BY <1>1, <2>3 DEF Return, Goto, TypeOK, Reloading, InRecovery
    <3>2. KnowsContext(t)'
      BY <1>2, <3>1 DEF KnowsContext
    <3> QED BY <1>1, <1>2, <2>1, <3>1, <3>2, OwnStepKeepsAttemptInv
  <2> QED BY <1>4, <2>2, <2>3 DEF RetrieveGraph
<1>5. CASE Setup(t)
  <2>1. /\ pc[t] = "setup" /\ infos_set'[model[t]] /\ UNCHANGED << graph_context, broken >>
        /\ \A m \in Models : m # model[t] => infos_set'[m] = infos_set[m]
    BY <1>1, <1>3, <1>5 DEF Setup, TypeOK, historyVars
  <2>2. /\ pc'[t] \in {"bind", "idle"} /\ pc'[t] \notin Reloading
        /\ KnowsContext(t)'
    <3>1. CASE Goto(t, "bind") /\ UNCHANGED result
      <4>1. pc'[t] = "bind"
        BY <1>1, <3>1 DEF Goto, TypeOK
      <4> QED BY <1>2, <1>3, <2>1, <3>1, <4>1 DEF KnowsContext,
           Clean, Reloading, InRecovery
    <3>2. CASE graph_context[model[t]] \notin contexts /\ Return(t, "failed")
      <4>1. pc'[t] = "idle"
        BY <1>1, <3>2 DEF Return, Goto, TypeOK
      <4>2. ~Clean(t)
        BY <1>3, <2>1, <3>2 DEF KnowsContext
      <4> QED BY <1>2, <2>1, <4>1, <4>2 DEF KnowsContext, Clean,
           Reloading, InRecovery
    <3> QED BY <1>5, <3>1, <3>2 DEF Setup
  <2>3. LoadedInv' /\ InfosInv' /\ AloneInv'
    BY <1>1, <1>2, <2>1, <2>2, SMT DEF AttemptInv, LoadedInv, InfosInv, AloneInv,
       OwnStep
  <2> QED BY <1>1, <2>2, <2>3, OthersKept DEF AttemptInv
<1> QED BY <1>4, <1>5

\* A run that fails was not clean, or could not load its file.
LEMMA FailureExcused ==
    ASSUME SsrInv, AttemptInv, OtherErrors = FALSE, \A b, c \in Binaries : b = c,
           NEW t \in Threads, Step(t) \/ Lock(t), pc'[t] = "idle", result'[t] # "ok"
    PROVE  ~Clean(t) \/ pc[t] = "reload"
<1> DEFINE g == graph_context[model[t]]
<1>1. TypeOK /\ model[t] \in Models /\ BinOf[model[t]] \in Binaries /\ KnowsContext(t)
  BY SsrAssumption DEF SsrInv, TypeOK, AttemptInv
<1>2. ASSUME NEW l, Goto(t, l), l # "idle" PROVE FALSE
  BY <1>1, <1>2 DEF Goto, TypeOK
<1>3. ASSUME NEW r, Return(t, r) PROVE result'[t] = r
  BY <1>1, <1>3 DEF Return, TypeOK
<1>4. CASE CheckSizes(t)
  <2>1. pc[t] = "sizes" /\ ~infos_set[model[t]]
    BY <1>2, <1>4 DEF CheckSizes
  <2> QED BY <1>1, <2>1 DEF AttemptInv, InfosInv, AloneInv, Clean, Reloading, InRecovery
<1>5. CASE LockGraphExec(t) \/ CheckStale(t) \/ ClearInfos(t)
  BY <1>2, <1>5 DEF LockGraphExec, CheckStale, ClearInfos
<1>6. CASE Bind(t)
  <2>1. pc[t] = "bind" /\ g \notin contexts
    BY <1>2, <1>6 DEF Bind, HasContextHandle
  <2> QED BY <1>1, <2>1 DEF KnowsContext
<1>7. CASE Execute(t)
  <2>1. pc[t] = "exec"
    BY <1>7 DEF Execute
  <2>2. PICK s \in ExecuteOutcomes(g) : Execute(t)!2!(s)
    BY <1>7 DEF Execute
  <2>3. Clean(t) => s # "other" /\ (retrying[t] => s = "ok")
    BY <1>1, <2>1, <2>2 DEF KnowsContext, ExecuteOutcomes
  <2>4. CASE s = "crash" /\ (retrying[t] \/ ~has_path[BinOf[model[t]]])
    BY <2>3, <2>4 DEF Clean
  <2>5. CASE s = "other" /\ ~retrying[t]
    BY <2>3, <2>5
  <2> QED BY <1>2, <1>3, <2>2, <2>4, <2>5
<1>8. CASE LockRecovery(t)
  <2>1. contexts = {} /\ pc[t] = "rlock" /\ recovery_owner = NoThread
    BY <1>2, <1>8 DEF LockRecovery
  <2>2. \A u \in Threads : pc[u] # "reload"
    BY <2>1, SsrAssumption DEF SsrInv, RecoveryLock
  <2> QED BY <1>1, <2>1, <2>2 DEF AttemptInv, LoadedInv, Clean
<1>9. CASE ReloadContextForSSR(t)
  BY <1>9 DEF ReloadContextForSSR
<1>10. CASE RetrieveGraph(t)
  <2>1. /\ pc[t] = "retrieve"
        /\ bin[new_context[t]] # BinOf[model[t]] \/ new_context[t] \notin contexts
    BY <1>2, <1>10 DEF RetrieveGraph
  <2>2. CASE new_context[t] \in contexts
    <3>1. bin[new_context[t]] \in Binaries
      BY <1>1, <2>2, SMT DEF TypeOK, Handles
    <3> QED BY <1>1, <2>1, <2>2, <3>1
  <2> QED BY <1>1, <2>1, <2>2 DEF KnowsContext
<1>11. CASE Setup(t)
  <2>1. pc[t] = "setup" /\ g \notin contexts
    BY <1>2, <1>11 DEF Setup
  <2> QED BY <1>1, <2>1 DEF KnowsContext
<1> QED BY <1>4, <1>5, <1>6, <1>7, <1>8, <1>9, <1>10, <1>11 DEF Step, Lock

\* A run that met neither a crash nor another thread's recovery succeeds,
\* unless its binary has no file, the file cannot be loaded again, or an
\* earlier recovery of its model has failed.  Two hypotheses are needed.
\* graphExecute reports only crashes: otherwise a run may fail by itself, which
\* is no fault of the recovery.  And there is one binary: with several, a model
\* whose context a sibling has replaced takes over the first context of the
\* manager, which may be one of another binary (qnn_model.cc:584).
THEOREM RecoveryIsTransparentHolds ==
    ASSUME OtherErrors = FALSE, \A b, c \in Binaries : b = c
    PROVE  Spec => RecoveryIsTransparent
<1>1. Init => AttemptInv
  <2> SUFFICES ASSUME Init PROVE AttemptInv
    OBVIOUS
  <2>1. LoadedInv
    BY DEF Init, LoadedInv
  <2>2. InfosInv /\ AloneInv
    BY DEF Init, InfosInv, AloneInv
  <2>3. \A t \in Threads : KnowsContext(t)
    BY DEF Init, KnowsContext
  <2> QED BY <2>1, <2>2, <2>3 DEF AttemptInv
<1>2. SsrInv /\ AttemptInv /\ [Next]_vars => AttemptInv'
  <2> SUFFICES ASSUME SsrInv, AttemptInv, [Next]_vars PROVE AttemptInv'
    OBVIOUS
  <2>1. CASE UNCHANGED vars
    BY <2>1 DEF vars, deviceVars, managerVars, modelVars, localVars, historyVars,
       AttemptInv,
       LoadedInv, InfosInv, AloneInv, KnowsContext, Clean
  <2>2. CASE Crash
    <3>1. /\ \A t \in Threads : disturbed[t] => disturbed'[t]
          /\ \A t \in Threads : pc[t] # "idle" => disturbed'[t]
          /\ UNCHANGED << has_path, managerVars, modelVars, localVars, pc, result, broken >>
      BY <2>2 DEF Crash, Active
    <3>2. LoadedInv' /\ InfosInv' /\ AloneInv'
      BY <3>1 DEF managerVars, modelVars, localVars, AttemptInv, LoadedInv,
         InfosInv, AloneInv
    <3>3. \A t \in Threads : KnowsContext(t)'
      BY <3>1 DEF managerVars, modelVars, localVars, AttemptInv, KnowsContext,
         Clean
    <3> QED BY <3>2, <3>3 DEF AttemptInv
  <2> QED BY <2>1, <2>2, BeginKeepsAttemptInv, RunKeepsAttemptInv,
       ClearKeepsAttemptInv,
             LockKeepsAttemptInv, ReloadKeepsAttemptInv, RetrieveKeepsAttemptInv
          DEF Next, Step, Lock
<1>3. SsrInv /\ AttemptInv /\ [Next]_vars =>
        [\A t \in Threads :
             pc[t] # "idle" /\ pc'[t] = "idle" /\ result'[t] # "ok" =>
                 \/ disturbed[t]
                 \/ ~has_path[BinOf[model[t]]] \/ pc[t] = "reload"
                 \/ model[t] \in broken]_vars
  <2> SUFFICES ASSUME SsrInv, AttemptInv, Next, NEW t \in Threads,
                      pc[t] # "idle", pc'[t] = "idle", result'[t] # "ok"
               PROVE  ~Clean(t) \/ pc[t] = "reload"
    BY DEF Clean
  <2>1. CASE Crash
    BY <2>1 DEF Crash
  <2>2. ASSUME NEW u \in Threads, (\E m \in Models : Begin(u, m)) \/ Step(u) \/ Lock(u)
        PROVE  ~Clean(t) \/ pc[t] = "reload"
    <3>1. u = t
      BY <2>2, StepsAreOwn DEF SsrInv, OwnStep
    <3>2. CASE \E m \in Models : Begin(u, m)
      BY <3>1, <3>2 DEF Begin
    <3> QED BY <2>2, <3>1, <3>2, FailureExcused
  <2> QED BY <2>1, <2>2 DEF Next
<1> QED BY <1>1, <1>2, <1>3, SsrInvHolds, PTL DEF Spec, RecoveryIsTransparent
====
