------------------------- MODULE SharedMemoryProofs -------------------------
(***************************************************************************)
(* Proofs about SharedMemory for any threads, contexts, addresses and       *)
(* sizes, in four parts.                                                    *)
(*   MemInv: blocks handed out do not overlap, and a thread that frees a    *)
(*   block is its only owner (BlockInv); who may still own the manager and  *)
(*   a record (LifeInv).                                                    *)
(*   HandleInv: every registered handle has a callback in its allocation's  *)
(*   list, or in the hands of the thread that frees the allocation.         *)
(*   CallInv: the converse, that a callback finds its handle registered.    *)
(*   BindInv: what a run is bound to stays allocated, and registered for as *)
(*   long as no recovery releases its context.                              *)
(***************************************************************************)
EXTENDS SharedMemory, WellFoundedInduction, TLAPS

\* Leaves are for Zenon unless they name another prover.
USE Zenon

\* Where a thread is that frees a block, and where it is that binds a tensor.
Freeing == {"untrack", "cleanup", "lockrecord", "unregister", "droprecord", "dropmanager"}
Calling == {"idle", "register", "addcleanup", "executing", "recover"}

\* t runs a callback that it has taken off its list, and has not unregistered
\* the handle yet.
Running(t) == pc[t] \in {"lockrecord", "unregister"}

\* Blocks, who frees them, and that what a run binds stays allocated.
BlockInv ==
    /\ \A b, d \in memory : b # d => ~Overlap(b, d)
    /\ allocations \subseteq tracked
    /\ tracked \subseteq memory
    /\ \A t \in Threads :
           /\ pc[t] \in Freeing => freeing[t] # NoBlock
           /\ pc[t] \in Calling => freeing[t] = NoBlock
           /\ freeing[t] # NoBlock => freeing[t] \in memory \ allocations
           /\ freeing[t] \in tracked => pc[t] = "untrack"
           /\ Binding(t) => /\ tensor[t] \in Tensors
                            /\ \E b \in allocations : Covers(b, tensor[t].address)
    /\ \A t, u \in Threads : freeing[t] # NoBlock /\ freeing[t] = freeing[u] => t = u

\* What a thread relies on being alive.
ThreadLife(t) ==
    /\ LocksManager(t) => manager = "alive"
    /\ Binding(t) => session
    /\ pc[t] = "teardown" => manager = "dying"
    /\ pc[t] = "destroy" => manager # "gone"
    /\ pc[t] = "destroy" /\ freeing[t] = NoBlock /\ manager = "alive" => session
    /\ pc[t] = "destroy" => held[t][1] \in Contexts /\ record[held[t][1]] # "alive"
    /\ pc[t] = "lockrecord" => held[t] \in CleanUps
    /\ pc[t] \in {"unregister", "droprecord"} =>
           held[t] \in CleanUps /\ record[held[t][1]] = "alive"

\* One thread takes the manager apart.
OneTeardown ==
    manager = "dying" =>
        \A t, u \in Threads : pc[t] \in {"teardown", "destroy"}
                           /\ pc[u] \in {"teardown", "destroy"} => t = u

\* Who keeps the manager and the records alive.
LifeInv ==
    /\ session => manager = "alive"
    /\ \A t \in Threads : ThreadLife(t)
    /\ OneTeardown

\* The inductive invariant of blocks and lifetimes.
MemInv == TypeOK /\ BlockInv /\ LifeInv

-----------------------------------------------------------------------------
\* A block has a natural base and a positive size.
LEMMA BlockFields ==
    ASSUME NEW b \in Blocks
    PROVE  b.base \in Nat /\ b.size \in Nat /\ b.size > 0 /\ b # NoBlock
<1>1. b.base \in Addresses /\ b.size \in Sizes
  BY DEF Blocks
<1>2. b.base \in Nat /\ b.size \in Nat /\ b.size # 0
  BY <1>1, SharedMemoryAssumption DEF SharedMemoryAssumption
<1>3. NoBlock.size = 0
  BY DEF NoBlock
<1> QED BY <1>2, <1>3, SMT

\* Addresses in the range of some block are naturals.
LEMMA WithinNat == ASSUME NEW p \in Within PROVE p \in Nat
BY BlockFields, SMT DEF Within

\* Two blocks around one address overlap.
LEMMA CoversOverlap ==
    ASSUME NEW b \in Blocks, NEW d \in Blocks, NEW p \in Nat, Covers(b, p), Covers(d, p)
    PROVE  Overlap(b, d)
BY BlockFields, SMT DEF Covers, Overlap

\* AllocationTracker::LookUp finds the tracked block around an address, when
\* tracked blocks do not overlap.
LEMMA LookUpFinds ==
    ASSUME tracked \subseteq Blocks, \A b, d \in tracked : b # d => ~Overlap(b, d),
           NEW p \in Nat, NEW a \in tracked, Covers(a, p)
    PROVE  LookUp(p) = a
<1> DEFINE below == {b \in tracked : b.base <= p}
           last == CHOOSE b \in below : \A d \in below : d.base <= b.base
<1>1. a \in below
  BY DEF Covers
<1>2. \A d \in below : d.base <= a.base
  <2> SUFFICES ASSUME NEW d \in below, ~(d.base <= a.base) PROVE FALSE
    OBVIOUS
  <2>1. Overlap(a, d)
    BY BlockFields, SMT DEF Covers, Overlap
  <2> QED BY <2>1, BlockFields, SMT
<1>3. last \in below /\ \A d \in below : d.base <= last.base
  BY <1>1, <1>2
<1>4. last = a
  <2>1. last.base = a.base
    BY <1>1, <1>2, <1>3, BlockFields, SMT
  <2>2. Overlap(a, last)
    BY <2>1, <1>3, BlockFields, SMT DEF Overlap
  <2> QED BY <2>2, <1>3
<1>5. LookUp(p) = IF below = {} \/ p >= last.base + last.size THEN NoBlock ELSE last
  BY DEF LookUp
<1>6. below # {} /\ ~(p >= a.base + a.size)
  BY <1>1, BlockFields, SMT DEF Covers
<1> HIDE DEF below, last
<1> QED BY <1>4, <1>5, <1>6

\* ... and reports none for an address that no tracked block is around.  The
\* greatest base below p exists because p - base is a natural number.
LEMMA LookUpNone ==
    ASSUME tracked \subseteq Blocks, NEW p \in Nat, \A b \in tracked : ~Covers(b, p)
    PROVE  LookUp(p) = NoBlock
<1> DEFINE below == {b \in tracked : b.base <= p}
           last == CHOOSE b \in below : \A d \in below : d.base <= b.base
           gaps == {p - b.base : b \in below}
<1>1. CASE below = {}
  BY <1>1 DEF LookUp
<1>2. CASE below # {}
  <2>1. gaps \subseteq Nat /\ gaps # {}
    <3>1. \A b \in below : p - b.base \in Nat
      BY BlockFields, SMT
    <3> QED BY <1>2, <3>1
  <2> HIDE DEF gaps
  <2>2. \E g \in gaps : \A k \in gaps : << k, g >> \notin OpToRel(<, Nat)
    BY <2>1, NatLessThanWellFounded, WFMin
  <2>3. \A k, g \in Nat : k < g => << k, g >> \in OpToRel(<, Nat)
    BY DEF OpToRel
  <2>4. PICK g \in gaps : \A k \in gaps : ~(k < g)
    BY <2>1, <2>2, <2>3
  <2>5. PICK b \in below : g = p - b.base
    BY <2>4 DEF gaps
  <2>6. \A d \in below : d.base <= b.base
    <3> SUFFICES ASSUME NEW d \in below PROVE d.base <= b.base
      OBVIOUS
    <3>1. p - d.base \in gaps
      BY DEF gaps
    <3>2. ~(p - d.base < p - b.base)
      BY <2>4, <2>5, <3>1
    <3> QED BY <3>2, BlockFields, SMT
  <2>7. last \in below
    BY <2>6
  <2>8. LookUp(p) = IF below = {} \/ p >= last.base + last.size THEN NoBlock ELSE last
    BY DEF LookUp
  <2>9. last \in Blocks /\ last.base <= p /\ ~Covers(last, p)
    BY <2>7
  <2> HIDE DEF below, last
  <2> QED BY <2>8, <2>9, BlockFields, SMT DEF Covers
<1> QED BY <1>1, <1>2

\* The address a run binds is inside one allocation, which LookUp finds.
LEMMA BoundLookUp ==
    ASSUME TypeOK, BlockInv, NEW t \in Threads, Binding(t)
    PROVE  /\ LookUp(tensor[t].address) \in allocations
           /\ Covers(LookUp(tensor[t].address), tensor[t].address)
<1>1. PICK b \in allocations : Covers(b, tensor[t].address)
  BY DEF BlockInv
<1>2. tensor[t].address \in Nat
  BY WithinNat DEF BlockInv, Tensors
<1>3. LookUp(tensor[t].address) = b
  BY <1>1, <1>2, LookUpFinds DEF TypeOK, BlockInv
<1> QED BY <1>1, <1>3

\* Types are preserved.
LEMMA TypeOKStep ==
    ASSUME MemInv, [Next]_vars
    PROVE  TypeOK'
<1> USE DEF MemInv
<1>0. CASE UNCHANGED vars
  BY <1>0 DEF vars, allocatorVars, recordVars, freeVars, TypeOK, Pc
<1>1. ASSUME NEW t \in Threads, NEW b \in Blocks, Alloc(t, b) PROVE TypeOK'
  BY <1>1, SMT DEF Alloc, Goto, allocatorVars, recordVars, freeVars, TypeOK, Pc
<1>2. ASSUME NEW t \in Threads, NEW b \in Blocks, FreeImpl(t, b) PROVE TypeOK'
  BY <1>2, SMT DEF FreeImpl, Goto, allocatorVars, recordVars, freeVars, TypeOK, Pc
<1>3. ASSUME NEW t \in Threads, NEW c \in Contexts, NEW p \in Within, NEW s \in Sizes, BindQnnTensor(t, c, p, s) PROVE TypeOK'
  <2>1. [context |-> c, address |-> p, size |-> s] \in Tensors
    BY DEF Tensors
  <2> QED BY <1>3, <2>1
          DEF BindQnnTensor, Goto, allocatorVars, recordVars, freeVars, TypeOK, Pc
<1>4. ASSUME NEW t \in Threads, GetOrRegister(t) PROVE TypeOK'
  <2>1. tensor[t] \in Tensors
    BY <1>4 DEF GetOrRegister, BlockInv, Binding
  <2>2. CASE ~Register(t)
    BY <1>4, <2>2
    DEF GetOrRegister, RunReturns, Goto, allocatorVars, recordVars, freeVars, TypeOK, Pc
  <2>3. CASE Register(t)
    <3>1. LookUp(tensor[t].address) \in Blocks
      BY <1>4, BoundLookUp DEF GetOrRegister, Binding, TypeOK
    <3>2. [address |-> tensor[t].address, size |-> tensor[t].size,
           block |-> LookUp(tensor[t].address)] \in MemHandles
      BY <2>1, <3>1 DEF Tensors, MemHandles
    <3> QED BY <1>4, <2>1, <2>3, <3>2
            DEF GetOrRegister, Register, Goto, allocatorVars, recordVars, freeVars,
               TypeOK, Pc, Tensors
  <2> QED BY <2>2, <2>3
<1>5. ASSUME NEW t \in Threads, AddAllocationCleanUp(t) PROVE TypeOK'
  <2>1. tensor[t] \in Tensors
    BY <1>5 DEF AddAllocationCleanUp, BlockInv, Binding
  <2>2. << tensor[t].context, tensor[t].address >> \in CleanUps
    BY <2>1 DEF Tensors, CleanUps
  <2> QED BY <1>5, <2>2, SMT
          DEF AddAllocationCleanUp, Goto, allocatorVars, recordVars, freeVars, TypeOK,
             Pc
<1>6. ASSUME NEW t \in Threads, Execute(t) PROVE TypeOK'
  BY <1>6
  DEF Execute, RunReturns, Goto, allocatorVars, recordVars, freeVars, TypeOK, Pc
<1>7. ASSUME NEW t \in Threads, UnregisterAllocation(t) PROVE TypeOK'
  BY <1>7
  DEF UnregisterAllocation, Goto, allocatorVars, recordVars, freeVars, TypeOK, Pc
<1>8. ASSUME NEW t \in Threads, CleanUpLockManager(t) PROVE TypeOK'
  <2>1. Head(node[t]) \in CleanUps /\ Tail(node[t]) \in Seq(CleanUps)
    BY <1>8, SMT DEF CleanUpLockManager, TypeOK
  <2> QED BY <1>8, <2>1, ZenonT(40)
          DEF CleanUpLockManager, Goto, allocatorVars, recordVars, freeVars, TypeOK, Pc
<1>9. ASSUME NEW t \in Threads, Unregister(t) PROVE TypeOK'
  BY <1>9 DEF Unregister, Goto, allocatorVars, recordVars, freeVars, TypeOK, Pc
<1>10. ASSUME NEW t \in Threads, FreeImplReturns(t) PROVE TypeOK'
  BY <1>10
  DEF FreeImplReturns, Goto, allocatorVars, recordVars, freeVars, TypeOK, Pc
<1>11. ASSUME NEW t \in Threads, RecoverFromSSR(t) PROVE TypeOK'
  <2> DEFINE c == tensor[t].context
  <2>1. c \in Contexts
    BY <1>11 DEF RecoverFromSSR, BlockInv, Binding, Tensors
  <2>2. << c, 0 >> \in CleanUps \cup (Contexts \X {0}) \cup {Nothing}
    BY <2>1
  <2> HIDE DEF c
  <2>3. CASE c \notin context_map \/ \E u \in Threads : LocksRecord(u, c)
    BY <1>11, <2>3 DEF RecoverFromSSR, Erase, Goto, allocatorVars, TypeOK, Pc, c
  <2>4. CASE c \in context_map /\ ~\E u \in Threads : LocksRecord(u, c)
    <3>1. /\ tensor' = [tensor EXCEPT ![t] = NoTensor]
          /\ context_map' = context_map \ {c}
          /\ record' = [record EXCEPT ![c] = "dying"]
          /\ held' = [held EXCEPT ![t] = << c, 0 >>]
          /\ pc' = [pc EXCEPT ![t] = "destroy"]
          /\ UNCHANGED << allocatorVars, mem_handles, session, manager, freeing, node >>
      BY <1>11, <2>4 DEF RecoverFromSSR, Erase, Goto, c
    <3> QED BY <2>2, <3>1, ZenonT(30) DEF allocatorVars, TypeOK, Pc
  <2> QED BY <2>3, <2>4
<1>12. ASSUME NEW t \in Threads, NEW c \in Contexts, ReleaseContext(t, c) PROVE TypeOK'
  <2>1. << c, 0 >> \in CleanUps \cup (Contexts \X {0}) \cup {Nothing}
    OBVIOUS
  <2>2. CASE \E u \in Threads : LocksRecord(u, c)
    BY <1>12, <2>2 DEF ReleaseContext, Erase, Goto, allocatorVars, TypeOK, Pc
  <2>3. CASE ~\E u \in Threads : LocksRecord(u, c)
    BY <1>12, <2>1, <2>3, ZenonT(30)
    DEF ReleaseContext, Erase, Goto, allocatorVars, TypeOK, Pc
  <2> QED BY <2>2, <2>3
<1>13. ASSUME NEW t \in Threads, DropRecord(t) PROVE TypeOK'
  BY <1>13 DEF DropRecord, Goto, allocatorVars, recordVars, freeVars, TypeOK, Pc
<1>14. ASSUME NEW t \in Threads, Destroy(t) PROVE TypeOK'
  BY <1>14 DEF Destroy, Goto, allocatorVars, recordVars, freeVars, TypeOK, Pc
<1>15. ASSUME NEW t \in Threads, DropManager(t) PROVE TypeOK'
  BY <1>15 DEF DropManager, Goto, allocatorVars, recordVars, freeVars, TypeOK, Pc
<1>16. ASSUME NEW t \in Threads, CloseSession(t) PROVE TypeOK'
  BY <1>16
  DEF CloseSession, Goto, allocatorVars, recordVars, freeVars, TypeOK, Pc
<1>17. ASSUME NEW t \in Threads, ManagerGone(t) PROVE TypeOK'
  BY <1>17 DEF ManagerGone, Goto, allocatorVars, recordVars, freeVars, TypeOK, Pc
<1>18. ASSUME NEW t \in Threads, CleanUpLockRecord(t) PROVE TypeOK'
  BY <1>18
  DEF CleanUpLockRecord, Goto, allocatorVars, recordVars, freeVars, TypeOK, Pc
<1>19. ASSUME NEW t \in Threads, GetOrRegisterErased(t) PROVE TypeOK'
  BY <1>19
  DEF GetOrRegisterErased, RunReturns, Goto, allocatorVars, recordVars, freeVars, TypeOK,
     Pc
<1> QED BY <1>0, <1>1, <1>2, <1>3, <1>4, <1>5, <1>6, <1>7, <1>8, <1>9, <1>10,
     <1>11,
           <1>12, <1>13, <1>14, <1>15, <1>16, <1>17, <1>18, <1>19
        DEF Next

\* Blocks stay disjoint and each block that is being freed has one owner.
LEMMA BlockInvStep ==
    ASSUME MemInv, [Next]_vars
    PROVE  BlockInv'
<1> USE DEF MemInv
<1>0. CASE UNCHANGED vars
  BY <1>0
  DEF vars, allocatorVars, recordVars, freeVars, TypeOK, BlockInv, Freeing, Calling,
     Binding
<1>1. ASSUME NEW t \in Threads, NEW b \in Blocks, Alloc(t, b) PROVE BlockInv'
  <2>1. \A d \in memory : ~Overlap(b, d) /\ ~Overlap(d, b)
    BY <1>1 DEF Alloc, Overlap
  <2>2. b \notin memory
    BY <2>1, BlockFields, SMT DEF Overlap
  <2>3. \A t1 \in Threads : freeing[t1] # b
    BY <2>2, BlockFields DEF BlockInv
  <2>4. \A d, e \in memory' : d # e => ~Overlap(d, e)
    BY <1>1, <2>1, SMT DEF Alloc, BlockInv
  <2> QED BY <1>1, <2>2, <2>3, <2>4
          DEF Alloc, allocatorVars, recordVars, freeVars, TypeOK, BlockInv, Freeing,
             Calling, Binding
<1>2. ASSUME NEW t \in Threads, NEW b \in Blocks, FreeImpl(t, b) PROVE BlockInv'
  <2>1. \A u \in Threads : Binding(u) => ~Covers(b, tensor[u].address)
    BY <1>2 DEF FreeImpl, InUse
  <2>2. \A u \in Threads : u # t => freeing[u] # b
    BY <1>2, BlockFields DEF FreeImpl, BlockInv
  <2>3. \A u \in Threads : Binding(u)' => Binding(u) /\ u # t
    BY <1>2 DEF FreeImpl, Goto, TypeOK, Binding
  <2>4. b \in memory /\ b # NoBlock
    BY <1>2, BlockFields DEF FreeImpl, BlockInv
  <2>5. \A u \in Threads : Binding(u)' =>
            tensor'[u] \in Tensors /\ \E d \in allocations' : Covers(d, tensor'[u].address)
    <3> SUFFICES ASSUME NEW u \in Threads, Binding(u)'
                 PROVE  tensor'[u] \in Tensors /\ \E d \in allocations' : Covers(d, tensor'[u].address)
      OBVIOUS
    <3>1. PICK d \in allocations : Covers(d, tensor[u].address)
      BY <2>3 DEF BlockInv
    <3> QED BY <1>2, <2>1, <2>3, <3>1 DEF FreeImpl, BlockInv
  <2>6. \A u \in Threads : pc'[u] = IF u = t THEN "untrack" ELSE pc[u]
    BY <1>2 DEF FreeImpl, Goto, TypeOK
  <2>7. \A u \in Threads : freeing'[u] = IF u = t THEN b ELSE freeing[u]
    BY <1>2 DEF FreeImpl, TypeOK
  <2>8. memory' = memory /\ tracked' = tracked /\ allocations' = allocations \ {b}
    BY <1>2 DEF FreeImpl
  <2> QED BY <2>2, <2>4, <2>5, <2>6, <2>7, <2>8 DEF BlockInv, Freeing, Calling
<1>3. ASSUME NEW t \in Threads, NEW c \in Contexts, NEW p \in Within, NEW s \in Sizes, BindQnnTensor(t, c, p, s) PROVE BlockInv'
  <2>1. \E b \in allocations : Covers(b, p)
    BY <1>3 DEF BindQnnTensor
  <2>2. [context |-> c, address |-> p, size |-> s] \in Tensors
    BY DEF Tensors
  <2>3. \A u \in Threads : pc'[u] = IF u = t THEN "register" ELSE pc[u]
    BY <1>3 DEF BindQnnTensor, Goto, TypeOK
  <2>4. \A u \in Threads : tensor'[u] = IF u = t THEN [context |-> c, address |-> p, size |-> s] ELSE tensor[u]
    BY <1>3 DEF BindQnnTensor, TypeOK
  <2>5. pc[t] = "idle" /\ UNCHANGED << allocatorVars, freeVars >>
    BY <1>3 DEF BindQnnTensor
  <2> QED BY <2>1, <2>2, <2>3, <2>4, <2>5, SMT
          DEF allocatorVars, freeVars, BlockInv, Freeing, Calling, Binding
<1>4. ASSUME NEW t \in Threads, GetOrRegister(t) PROVE BlockInv'
  <2>1. pc[t] = "register" /\ UNCHANGED << allocatorVars, freeing >>
    BY <1>4 DEF GetOrRegister, freeVars
  <2>2. pc'[t] \in Calling /\ (Binding(t)' => tensor'[t] = tensor[t])
    BY <1>4 DEF GetOrRegister, Register, RunReturns, Goto, TypeOK, Calling,
       Binding
  <2>3. \A u \in Threads : u # t => pc'[u] = pc[u] /\ tensor'[u] = tensor[u]
    BY <1>4 DEF GetOrRegister, Register, RunReturns, Goto, TypeOK
  <2> QED BY <2>1, <2>2, <2>3 DEF allocatorVars, BlockInv, Freeing, Calling,
       Binding
<1>5. ASSUME NEW t \in Threads, AddAllocationCleanUp(t) PROVE BlockInv'
  BY <1>5, BlockFields
  DEF AddAllocationCleanUp, Goto, allocatorVars, recordVars, freeVars, TypeOK, BlockInv,
     Freeing, Calling, Binding
<1>6. ASSUME NEW t \in Threads, Execute(t) PROVE BlockInv'
  BY <1>6, BlockFields
  DEF Execute, RunReturns, Goto, allocatorVars, recordVars, freeVars, TypeOK, BlockInv,
     Freeing, Calling, Binding
<1>7. ASSUME NEW t \in Threads, UnregisterAllocation(t) PROVE BlockInv'
  BY <1>7, BlockFields
  DEF UnregisterAllocation, Goto, allocatorVars, recordVars, freeVars, TypeOK, BlockInv,
     Freeing, Calling, Binding
<1>8. ASSUME NEW t \in Threads, CleanUpLockManager(t) PROVE BlockInv'
  BY <1>8, BlockFields, SMT
  DEF CleanUpLockManager, Goto, allocatorVars, recordVars, freeVars, TypeOK, BlockInv, Freeing,
     Calling, Binding
<1>9. ASSUME NEW t \in Threads, Unregister(t) PROVE BlockInv'
  BY <1>9, BlockFields
  DEF Unregister, Goto, allocatorVars, recordVars, freeVars, TypeOK, BlockInv, Freeing,
     Calling, Binding
<1>10. ASSUME NEW t \in Threads, FreeImplReturns(t) PROVE BlockInv'
  BY <1>10, BlockFields
  DEF FreeImplReturns, Goto, allocatorVars, recordVars, freeVars, TypeOK, BlockInv,
     Freeing, Calling, Binding
<1>11. ASSUME NEW t \in Threads, RecoverFromSSR(t) PROVE BlockInv'
  <2>1. pc[t] = "recover" /\ pc'[t] \in {"idle", "destroy"}
    BY <1>11 DEF RecoverFromSSR, Erase, Goto, TypeOK
  <2>2. \A u \in Threads : u # t => pc'[u] = pc[u] /\ tensor'[u] = tensor[u]
    BY <1>11 DEF RecoverFromSSR, Erase, Goto, TypeOK
  <2>3. UNCHANGED << allocatorVars, freeing >>
    BY <1>11 DEF RecoverFromSSR
  <2> QED BY <2>1, <2>2, <2>3, SMT DEF allocatorVars, BlockInv, Freeing, Calling, Binding
<1>12. ASSUME NEW t \in Threads, NEW c \in Contexts, ReleaseContext(t, c) PROVE BlockInv'
  BY <1>12, BlockFields, SMT
  DEF ReleaseContext, Erase, Goto, allocatorVars, recordVars, freeVars, TypeOK,
     BlockInv, Freeing, Calling, Binding
<1>13. ASSUME NEW t \in Threads, DropRecord(t) PROVE BlockInv'
  BY <1>13, BlockFields, SMT
  DEF DropRecord, Goto, allocatorVars, recordVars, freeVars, TypeOK, BlockInv, Freeing,
     Calling, Binding
<1>14. ASSUME NEW t \in Threads, Destroy(t) PROVE BlockInv'
  BY <1>14, BlockFields
  DEF Destroy, Goto, allocatorVars, recordVars, freeVars, TypeOK, BlockInv, Freeing,
     Calling, Binding
<1>15. ASSUME NEW t \in Threads, DropManager(t) PROVE BlockInv'
  BY <1>15, BlockFields, SMT
  DEF DropManager, Goto, allocatorVars, recordVars, freeVars, TypeOK, BlockInv, Freeing,
     Calling, Binding
<1>16. ASSUME NEW t \in Threads, CloseSession(t) PROVE BlockInv'
  BY <1>16, BlockFields, SMT
  DEF CloseSession, Goto, allocatorVars, recordVars, freeVars, TypeOK, BlockInv,
     Freeing, Calling, Binding
<1>17. ASSUME NEW t \in Threads, ManagerGone(t) PROVE BlockInv'
  BY <1>17, BlockFields
  DEF ManagerGone, Goto, allocatorVars, recordVars, freeVars, TypeOK, BlockInv, Freeing,
     Calling, Binding
<1>18. ASSUME NEW t \in Threads, CleanUpLockRecord(t) PROVE BlockInv'
  BY <1>18, BlockFields, SMT
  DEF CleanUpLockRecord, Goto, allocatorVars, recordVars, freeVars, TypeOK, BlockInv,
     Freeing, Calling, Binding
<1>19. ASSUME NEW t \in Threads, GetOrRegisterErased(t) PROVE BlockInv'
  <2>1. pc[t] = "register" /\ UNCHANGED << allocatorVars, freeing >>
    BY <1>19 DEF GetOrRegisterErased, freeVars
  <2>2. pc'[t] \in Calling /\ (Binding(t)' => tensor'[t] = tensor[t])
    BY <1>19 DEF GetOrRegisterErased, RunReturns, Goto, TypeOK, Calling, Binding
  <2>3. \A u \in Threads : u # t => pc'[u] = pc[u] /\ tensor'[u] = tensor[u]
    BY <1>19 DEF GetOrRegisterErased, RunReturns, Goto, TypeOK
  <2> QED BY <2>1, <2>2, <2>3 DEF allocatorVars, BlockInv, Freeing, Calling,
       Binding
<1> QED BY <1>0, <1>1, <1>2, <1>3, <1>4, <1>5, <1>6, <1>7, <1>8, <1>9, <1>10,
     <1>11,
           <1>12, <1>13, <1>14, <1>15, <1>16, <1>17, <1>18, <1>19
        DEF Next

\* A thread that does not move keeps what it relies on, if the manager does not
\* change and the record it works on does not change sides.
LEMMA ThreadLifeKept ==
    ASSUME NEW u \in Threads, ThreadLife(u),
           pc'[u] = pc[u], held'[u] = held[u], freeing'[u] = freeing[u],
           session' = session, manager' = manager,
           pc[u] \in {"unregister", "droprecord"} => record'[held[u][1]] = "alive",
           pc[u] = "destroy" => record'[held[u][1]] # "alive"
    PROVE  ThreadLife(u)'
BY DEF ThreadLife, Binding, LocksManager

\* Owners of the manager and of records keep them alive.
LEMMA LifeInvStep ==
    ASSUME MemInv, [Next]_vars
    PROVE  LifeInv'
<1> USE DEF MemInv
<1>0. CASE UNCHANGED vars
  BY <1>0
  DEF vars, allocatorVars, recordVars, freeVars, TypeOK, LifeInv, ThreadLife,
     OneTeardown, BlockInv, Freeing, Calling, Binding, LocksManager, LocksRecord
<1>1. ASSUME NEW t \in Threads, NEW b \in Blocks, Alloc(t, b) PROVE LifeInv'
  BY <1>1
  DEF Alloc, Goto, allocatorVars, recordVars, freeVars, TypeOK, LifeInv, ThreadLife,
     OneTeardown, BlockInv, Freeing, Calling, Binding, LocksManager, LocksRecord
<1>2. ASSUME NEW t \in Threads, NEW b \in Blocks, FreeImpl(t, b) PROVE LifeInv'
  BY <1>2, SMT
  DEF FreeImpl, Goto, allocatorVars, recordVars, freeVars, TypeOK, LifeInv, ThreadLife,
     OneTeardown, BlockInv, Freeing, Calling, Binding, LocksManager, LocksRecord
<1>3. ASSUME NEW t \in Threads, NEW c \in Contexts, NEW p \in Within, NEW s \in Sizes, BindQnnTensor(t, c, p, s) PROVE LifeInv'
  BY <1>3
  DEF BindQnnTensor, Goto, allocatorVars, recordVars, freeVars, TypeOK, LifeInv,
     ThreadLife, OneTeardown, BlockInv, Freeing, Calling, Binding, LocksManager,
     LocksRecord
<1>4. ASSUME NEW t \in Threads, GetOrRegister(t) PROVE LifeInv'
  BY <1>4, SMT
  DEF GetOrRegister, Register, RunReturns, Goto, allocatorVars, recordVars, freeVars,
     TypeOK, LifeInv, ThreadLife, OneTeardown, BlockInv, Freeing, Calling, Binding,
     LocksManager, LocksRecord
<1>5. ASSUME NEW t \in Threads, AddAllocationCleanUp(t) PROVE LifeInv'
  BY <1>5
  DEF AddAllocationCleanUp, Goto, allocatorVars, recordVars, freeVars, TypeOK, LifeInv,
     ThreadLife, OneTeardown, BlockInv, Freeing, Calling, Binding, LocksManager,
     LocksRecord
<1>6. ASSUME NEW t \in Threads, Execute(t) PROVE LifeInv'
  BY <1>6
  DEF Execute, RunReturns, Goto, allocatorVars, recordVars, freeVars, TypeOK, LifeInv,
     ThreadLife, OneTeardown, BlockInv, Freeing, Calling, Binding, LocksManager,
     LocksRecord
<1>7. ASSUME NEW t \in Threads, UnregisterAllocation(t) PROVE LifeInv'
  BY <1>7, SMT
  DEF UnregisterAllocation, Goto, allocatorVars, recordVars, freeVars, TypeOK, LifeInv,
     ThreadLife, OneTeardown, BlockInv, Freeing, Calling, Binding, LocksManager,
     LocksRecord
<1>8. ASSUME NEW t \in Threads, CleanUpLockManager(t) PROVE LifeInv'
  <2>1. Head(node[t]) \in CleanUps
    BY <1>8, SMT DEF CleanUpLockManager, TypeOK
  <2>2. pc[t] = "cleanup" /\ UNCHANGED << session, manager, record, freeing >>
    BY <1>8 DEF CleanUpLockManager, recordVars
  <2>3. \A u \in Threads : u # t => pc'[u] = pc[u] /\ held'[u] = held[u]
    BY <1>8 DEF CleanUpLockManager, Goto, TypeOK
  <2>4. \/ manager = "alive" /\ pc'[t] = "lockrecord" /\ held'[t] \in CleanUps
        \/ pc'[t] = "cleanup"
    BY <1>8, <2>1 DEF CleanUpLockManager, Goto, TypeOK
  <2>5. ThreadLife(t)'
    BY <2>2, <2>4 DEF ThreadLife, Binding, LocksManager
  <2>6. ASSUME NEW u \in Threads, u # t PROVE ThreadLife(u)'
    BY <2>2, <2>3, <2>6, ThreadLifeKept DEF LifeInv, ThreadLife
  <2>7. OneTeardown'
    BY <2>2, <2>3, <2>4 DEF LifeInv, OneTeardown
  <2> QED BY <2>2, <2>5, <2>6, <2>7 DEF LifeInv
<1>9. ASSUME NEW t \in Threads, Unregister(t) PROVE LifeInv'
  BY <1>9
  DEF Unregister, Goto, allocatorVars, recordVars, freeVars, TypeOK, LifeInv,
     ThreadLife, OneTeardown, BlockInv, Freeing, Calling, Binding, LocksManager,
     LocksRecord
<1>10. ASSUME NEW t \in Threads, FreeImplReturns(t) PROVE LifeInv'
  BY <1>10, SMT
  DEF FreeImplReturns, Goto, allocatorVars, recordVars, freeVars, TypeOK, LifeInv,
     ThreadLife, OneTeardown, BlockInv, Freeing, Calling, Binding, LocksManager,
     LocksRecord
<1>11. ASSUME NEW t \in Threads, RecoverFromSSR(t) PROVE LifeInv'
  <2> DEFINE c == tensor[t].context
  <2>0. c \in Contexts
    BY <1>11 DEF RecoverFromSSR, BlockInv, Binding, Tensors
  <2> HIDE DEF c
  <2>1. pc[t] = "recover" /\ UNCHANGED << session, manager, freeing >>
    BY <1>11 DEF RecoverFromSSR
  <2>2. session /\ manager = "alive"
    BY <1>11, <2>1 DEF LifeInv, ThreadLife, Binding
  <2>3. \A u \in Threads : u # t => pc'[u] = pc[u] /\ held'[u] = held[u]
    BY <1>11 DEF RecoverFromSSR, Erase, Goto, TypeOK
  <2>4. CASE c \notin context_map \/ \E u \in Threads : LocksRecord(u, c)
    <3>1. pc'[t] = "idle" /\ record' = record
      BY <1>11, <2>1, <2>4 DEF RecoverFromSSR, Erase, Goto, TypeOK, c
    <3>2. ThreadLife(t)'
      BY <2>1, <3>1 DEF ThreadLife, Binding, LocksManager
    <3>3. ASSUME NEW u \in Threads, u # t PROVE ThreadLife(u)'
      BY <2>1, <2>3, <3>1, <3>3, ThreadLifeKept DEF LifeInv, ThreadLife
    <3> QED BY <2>1, <2>2, <3>2, <3>3 DEF LifeInv, OneTeardown
  <2>5. CASE c \in context_map /\ ~\E u \in Threads : LocksRecord(u, c)
    <3>1. pc'[t] = "destroy" /\ held'[t] = << c, 0 >> /\ held'[t][1] = c
      BY <1>11, <2>0, <2>5, SMT DEF RecoverFromSSR, Erase, Goto, TypeOK, c
    <3>2. record'[c] = "dying" /\ \A d \in Contexts : d # c => record'[d] = record[d]
      BY <1>11, <2>0, <2>5 DEF RecoverFromSSR, Erase, TypeOK, c
    <3>3. ThreadLife(t)'
      BY <2>0, <2>1, <2>2, <3>1, <3>2 DEF ThreadLife, Binding, LocksManager
    <3>4. ASSUME NEW u \in Threads, u # t PROVE ThreadLife(u)'
      <4>1. pc[u] \in {"unregister", "droprecord"} => record'[held[u][1]] = "alive"
        BY <2>5, <3>2 DEF LifeInv, ThreadLife, LocksRecord, CleanUps
      <4>2. pc[u] = "destroy" => record'[held[u][1]] # "alive"
        BY <3>2 DEF LifeInv, ThreadLife
      <4> QED BY <2>1, <2>3, <3>4, <4>1, <4>2, ThreadLifeKept DEF LifeInv
    <3>5. OneTeardown'
      BY <2>1, <2>2, <2>3, <3>1 DEF LifeInv, OneTeardown
    <3> QED BY <2>1, <3>3, <3>4, <3>5 DEF LifeInv
  <2> QED BY <2>4, <2>5
<1>12. ASSUME NEW t \in Threads, NEW c \in Contexts, ReleaseContext(t, c) PROVE LifeInv'
  <2>1. pc[t] = "teardown" /\ UNCHANGED << session, manager, freeing >>
    BY <1>12 DEF ReleaseContext
  <2>2. manager = "dying" /\ ~session
    BY <1>12, <2>1 DEF ReleaseContext, LifeInv, ThreadLife
  <2>3. \A u \in Threads : u # t => pc'[u] = pc[u] /\ held'[u] = held[u]
    BY <1>12 DEF ReleaseContext, Erase, Goto, TypeOK
  <2>4. CASE \E u \in Threads : LocksRecord(u, c)
    <3>1. pc' = pc /\ record' = record /\ held' = held
      BY <1>12, <2>1, <2>4 DEF ReleaseContext, Erase, Goto, TypeOK
    <3> QED BY <2>1, <3>1 DEF LifeInv, ThreadLife, OneTeardown, Binding,
         LocksManager
  <2>5. CASE ~\E u \in Threads : LocksRecord(u, c)
    <3>1. pc'[t] = "destroy" /\ held'[t] = << c, 0 >> /\ held'[t][1] = c
      BY <1>12, <2>5, SMT DEF ReleaseContext, Erase, Goto, TypeOK
    <3>2. record'[c] = "dying" /\ \A d \in Contexts : d # c => record'[d] = record[d]
      BY <1>12, <2>5 DEF ReleaseContext, Erase, TypeOK
    <3>3. ThreadLife(t)'
      BY <2>1, <2>2, <3>1, <3>2 DEF ThreadLife, Binding, LocksManager
    <3>4. ASSUME NEW u \in Threads, u # t PROVE ThreadLife(u)'
      <4>1. pc[u] \in {"unregister", "droprecord"} => record'[held[u][1]] = "alive"
        BY <2>5, <3>2 DEF LifeInv, ThreadLife, LocksRecord, CleanUps
      <4>2. pc[u] = "destroy" => record'[held[u][1]] # "alive"
        BY <3>2 DEF LifeInv, ThreadLife
      <4> QED BY <2>1, <2>3, <3>4, <4>1, <4>2, ThreadLifeKept DEF LifeInv
    <3>5. OneTeardown'
      BY <2>1, <2>2, <2>3, <3>1 DEF LifeInv, OneTeardown
    <3> QED BY <2>1, <3>3, <3>4, <3>5 DEF LifeInv
  <2> QED BY <2>4, <2>5
<1>13. ASSUME NEW t \in Threads, DropRecord(t) PROVE LifeInv'
  <2> DEFINE c == held[t][1]
  <2>1. pc[t] = "droprecord" /\ UNCHANGED << session, manager, freeing, held >>
    BY <1>13 DEF DropRecord, freeVars
  <2>2. c \in Contexts /\ freeing[t] # NoBlock /\ manager = "alive"
    BY <2>1 DEF LifeInv, ThreadLife, LocksManager, BlockInv, Freeing, CleanUps
  <2>3. \A u \in Threads : u # t => pc'[u] = pc[u]
    BY <1>13 DEF DropRecord, Goto, TypeOK
  <2>4. CASE c \in context_map \/ \E u \in Threads \ {t} : LocksRecord(u, c)
    <3>1. pc'[t] = "dropmanager" /\ record' = record
      BY <1>13, <2>4 DEF DropRecord, Goto, TypeOK
    <3>2. ThreadLife(t)'
      BY <2>1, <2>2, <3>1 DEF ThreadLife, Binding, LocksManager
    <3>3. ASSUME NEW u \in Threads, u # t PROVE ThreadLife(u)'
      BY <2>1, <2>3, <3>1, <3>3, ThreadLifeKept DEF LifeInv, ThreadLife
    <3> QED BY <2>1, <2>2, <3>2, <3>3 DEF LifeInv, OneTeardown
  <2>5. CASE ~(c \in context_map \/ \E u \in Threads \ {t} : LocksRecord(u, c))
    <3>1. pc'[t] = "destroy" /\ record'[c] = "dying" /\ \A d \in Contexts : d # c => record'[d] = record[d]
      BY <1>13, <2>2, <2>5, SMT DEF DropRecord, Goto, TypeOK
    <3>2. ThreadLife(t)'
      BY <2>1, <2>2, <3>1 DEF ThreadLife, Binding, LocksManager
    <3>3. ASSUME NEW u \in Threads, u # t PROVE ThreadLife(u)'
      <4>1. pc[u] \in {"unregister", "droprecord"} => record'[held[u][1]] = "alive"
        BY <2>5, <3>1, <3>3 DEF LifeInv, ThreadLife, LocksRecord, CleanUps
      <4>2. pc[u] = "destroy" => record'[held[u][1]] # "alive"
        BY <3>1 DEF LifeInv, ThreadLife
      <4> QED BY <2>1, <2>3, <3>3, <4>1, <4>2, ThreadLifeKept DEF LifeInv
    <3> QED BY <2>1, <2>2, <3>2, <3>3 DEF LifeInv, OneTeardown
  <2> QED BY <2>4, <2>5
<1>14. ASSUME NEW t \in Threads, Destroy(t) PROVE LifeInv'
  <2> DEFINE c == held[t][1]
             l == CASE manager = "dying" -> "teardown"
                      [] manager # "dying" /\ freeing[t] # NoBlock -> "dropmanager"
                      [] OTHER -> "idle"
  <2>1. pc[t] = "destroy" /\ UNCHANGED << session, manager, freeing >>
    BY <1>14 DEF Destroy
  <2>2. c \in Contexts /\ record[c] # "alive" /\ (manager = "alive" \/ manager = "dying")
    BY <2>1 DEF LifeInv, ThreadLife, TypeOK
  <2>3. pc'[t] = l /\ \A u \in Threads : u # t => pc'[u] = pc[u] /\ held'[u] = held[u]
    BY <1>14 DEF Destroy, Goto, TypeOK
  <2>4. record'[c] = "gone" /\ \A d \in Contexts : d # c => record'[d] = record[d]
    BY <1>14, <2>2 DEF Destroy, TypeOK
  <2>5. ThreadLife(t)'
    BY <2>1, <2>2, <2>3 DEF ThreadLife, Binding, LocksManager
  <2>6. ASSUME NEW u \in Threads, u # t PROVE ThreadLife(u)'
    <3>1. pc[u] \in {"unregister", "droprecord"} => record'[held[u][1]] = "alive"
      BY <2>2, <2>4 DEF LifeInv, ThreadLife, CleanUps
    <3>2. pc[u] = "destroy" => record'[held[u][1]] # "alive"
      BY <2>4 DEF LifeInv, ThreadLife
    <3> QED BY <2>1, <2>3, <2>6, <3>1, <3>2, ThreadLifeKept DEF LifeInv
  <2>7. OneTeardown'
    BY <2>1, <2>3 DEF LifeInv, OneTeardown
  <2> QED BY <2>1, <2>5, <2>6, <2>7 DEF LifeInv
<1>15. ASSUME NEW t \in Threads, DropManager(t) PROVE LifeInv'
  <2>1. pc[t] = "dropmanager" /\ UNCHANGED << session, record, freeing >>
    BY <1>15 DEF DropManager
  <2>2. \A u \in Threads : u # t => pc'[u] = pc[u] /\ held'[u] = held[u]
    BY <1>15 DEF DropManager, Goto, TypeOK
  <2>3. manager = "alive"
    BY <2>1 DEF LifeInv, ThreadLife, LocksManager
  <2>4. CASE session \/ \E u \in Threads \ {t} : LocksManager(u)
    <3>1. pc'[t] = "cleanup" /\ manager' = manager
      BY <1>15, <2>4 DEF DropManager, Goto, TypeOK
    <3>2. ThreadLife(t)'
      BY <2>1, <3>1 DEF ThreadLife, Binding, LocksManager
    <3>3. ASSUME NEW u \in Threads, u # t PROVE ThreadLife(u)'
      BY <2>1, <2>2, <3>1, <3>3, ThreadLifeKept DEF LifeInv, ThreadLife
    <3> QED BY <2>1, <2>3, <3>1, <3>2, <3>3 DEF LifeInv, OneTeardown
  <2>5. CASE ~(session \/ \E u \in Threads \ {t} : LocksManager(u))
    <3>1. pc'[t] = "teardown" /\ manager' = "dying"
      BY <1>15, <2>5 DEF DropManager, Goto, TypeOK
    <3>2. \A u \in Threads : u # t =>
              pc[u] \notin {"destroy", "teardown", "lockrecord", "unregister", "droprecord", "dropmanager"}
      BY <2>3, <2>5 DEF LifeInv, ThreadLife, LocksManager
    <3>3. \A u \in Threads : ThreadLife(u)'
      BY <2>1, <2>2, <2>5, <3>1, <3>2 DEF LifeInv, ThreadLife, Binding,
         LocksManager
    <3> QED BY <2>1, <2>2, <2>5, <3>1, <3>2, <3>3 DEF LifeInv, OneTeardown
  <2> QED BY <2>4, <2>5
<1>16. ASSUME NEW t \in Threads, CloseSession(t) PROVE LifeInv'
  <2>1. /\ pc[t] = "idle" /\ session /\ ~session' /\ manager = "alive"
        /\ UNCHANGED << record, freeing, held >>
    BY <1>16 DEF CloseSession, freeVars, LifeInv
  <2>2. \A u \in Threads : ~Binding(u) /\ ~Recovering(u)
    BY <1>16 DEF CloseSession
  <2>3. CASE \E u \in Threads : LocksManager(u)
    <3>1. manager' = manager /\ pc' = pc
      BY <1>16, <2>3 DEF CloseSession
    <3> QED BY <2>1, <2>2, <3>1
            DEF LifeInv, ThreadLife, OneTeardown, Binding, LocksManager, Recovering
  <2>4. CASE ~\E u \in Threads : LocksManager(u)
    <3>1. manager' = "dying" /\ \A u \in Threads : pc'[u] = IF u = t THEN "teardown" ELSE pc[u]
      BY <1>16, <2>4 DEF CloseSession, Goto, TypeOK
    <3>2. \A u \in Threads :
              pc[u] \notin {"destroy", "teardown", "lockrecord", "unregister", "droprecord", "dropmanager"}
      BY <2>1, <2>2, <2>4 DEF LifeInv, ThreadLife, LocksManager, Recovering
    <3>3. \A u \in Threads : ThreadLife(u)'
      BY <2>1, <2>2, <3>1, <3>2 DEF ThreadLife, Binding, LocksManager
    <3> QED BY <2>1, <3>1, <3>2, <3>3 DEF LifeInv, OneTeardown
  <2> QED BY <2>3, <2>4
<1>17. ASSUME NEW t \in Threads, ManagerGone(t) PROVE LifeInv'
  BY <1>17
  DEF ManagerGone, Goto, allocatorVars, recordVars, freeVars, TypeOK, LifeInv,
     ThreadLife, OneTeardown, BlockInv, Freeing, Calling, Binding, LocksManager,
     LocksRecord
<1>18. ASSUME NEW t \in Threads, CleanUpLockRecord(t) PROVE LifeInv'
  <2>1. pc[t] = "lockrecord" /\ UNCHANGED << session, manager, record, freeing, held >>
    BY <1>18 DEF CleanUpLockRecord, recordVars, freeVars
  <2>2. \A u \in Threads : u # t => pc'[u] = pc[u]
    BY <1>18 DEF CleanUpLockRecord, Goto, TypeOK
  <2>3. \/ pc'[t] = "unregister" /\ record[held[t][1]] = "alive"
        \/ pc'[t] = "dropmanager"
    BY <1>18 DEF CleanUpLockRecord, Goto, TypeOK
  <2>4. manager = "alive" /\ held[t] \in CleanUps
    BY <2>1 DEF LifeInv, ThreadLife, LocksManager
  <2>5. ThreadLife(t)'
    BY <2>1, <2>3, <2>4 DEF ThreadLife, Binding, LocksManager
  <2>6. ASSUME NEW u \in Threads, u # t PROVE ThreadLife(u)'
    BY <2>1, <2>2, <2>6, ThreadLifeKept DEF LifeInv, ThreadLife
  <2> QED BY <2>1, <2>4, <2>5, <2>6 DEF LifeInv, OneTeardown
<1>19. ASSUME NEW t \in Threads, GetOrRegisterErased(t) PROVE LifeInv'
  BY <1>19, SMT
  DEF GetOrRegisterErased, RunReturns, Goto, allocatorVars, recordVars, freeVars, TypeOK,
     LifeInv, ThreadLife, OneTeardown, BlockInv, Freeing, Calling, Binding, LocksManager,
     LocksRecord
<1> QED BY <1>0, <1>1, <1>2, <1>3, <1>4, <1>5, <1>6, <1>7, <1>8, <1>9, <1>10,
     <1>11,
           <1>12, <1>13, <1>14, <1>15, <1>16, <1>17, <1>18, <1>19
        DEF Next

\* MemInv holds initially.
LEMMA InitMemInv == Init => MemInv
<1> SUFFICES ASSUME Init PROVE MemInv
  OBVIOUS
<1>1. TypeOK
  BY SMT DEF Init, TypeOK, Pc
<1>2. BlockInv
  BY DEF Init, BlockInv, Binding, Freeing, Calling
<1>3. LifeInv
  BY DEF Init, LifeInv, ThreadLife, OneTeardown, Binding, LocksManager
<1> QED BY <1>1, <1>2, <1>3 DEF MemInv

\* MemInv is an invariant of the allocator, the mem handles and the context
\* records.
THEOREM MemInvHolds == Spec => []MemInv
<1>1. MemInv /\ [Next]_vars => MemInv'
  BY TypeOKStep, BlockInvStep, LifeInvStep DEF MemInv
<1> QED BY <1>1, InitMemInv, PTL DEF Spec

\* Type correctness of the shared memory model.
THEOREM MemTypeOKHolds == Spec => []TypeOK
<1>1. MemInv => TypeOK
  BY DEF MemInv
<1> QED BY <1>1, MemInvHolds, PTL

\* A callback of FreeImpl works on a live record and manager, and no record is
\* destroyed after its manager.
THEOREM CleanUpOnLiveRecordHolds == Spec => []CleanUpOnLiveRecord
<1>1. MemInv => CleanUpOnLiveRecord
  BY DEF MemInv, LifeInv, ThreadLife, CleanUpOnLiveRecord
<1> QED BY <1>1, MemInvHolds, PTL

\* LookUp by upper_bound finds the tracked block around an address, and only it.
THEOREM LookUpFindsAllocationHolds == Spec => []LookUpFindsAllocation
<1>1. MemInv => LookUpFindsAllocation
  <2> SUFFICES ASSUME MemInv, NEW p \in Within
               PROVE  LET around == {b \in tracked : Covers(b, p)}
                      IN  IF around = {} THEN LookUp(p) = NoBlock ELSE around = {LookUp(p)}
    BY DEF LookUpFindsAllocation
  <2>1. p \in Nat /\ tracked \subseteq Blocks /\ \A b, d \in tracked : b # d => ~Overlap(b, d)
    BY WithinNat DEF MemInv, TypeOK, BlockInv
  <2>2. \A b \in tracked : Covers(b, p) => LookUp(p) = b
    BY <2>1, LookUpFinds
  <2>3. (\A b \in tracked : ~Covers(b, p)) => LookUp(p) = NoBlock
    BY <2>1, LookUpNone
  <2> QED BY <2>2, <2>3
<1> QED BY <1>1, MemInvHolds, PTL

\* The callback <<c, p>> is in the list s.
Listed(c, p, s) == \E i \in DOMAIN s : s[i] = << c, p >>

AllocationHasCallback(c, h) ==
    /\ h.block \in allocations
    /\ \/ Listed(c, h.address, clean_up_fns[h.block])
       \/ \E t \in Threads : /\ pc[t] = "addcleanup"
                             /\ tensor[t].context = c
                             /\ tensor[t].address = h.address

FreeHasCallback(c, h) ==
    \E t \in Threads :
        /\ freeing[t] = h.block
        /\ \/ Listed(c, h.address, node[t])
           \/ Running(t) /\ held[t] = << c, h.address >>

HandleInv ==
    \A c \in Contexts :
        manager = "alive" /\ record[c] = "alive" =>
            \A h \in mem_handles[c] :
                /\ Covers(h.block, h.address)
                /\ AllocationHasCallback(c, h) \/ FreeHasCallback(c, h)

-----------------------------------------------------------------------------

\* A step that adds no handle and moves no callback.
Quiet ==
    /\ \A c \in Contexts : record'[c] = "alive" =>
           record[c] = "alive" /\ mem_handles'[c] \subseteq mem_handles[c]
    /\ manager' = "alive" => manager = "alive"
    /\ \A b \in allocations : b \in allocations' /\ clean_up_fns'[b] = clean_up_fns[b]
    /\ \A u \in Threads :
           /\ pc[u] = "addcleanup" => pc'[u] = "addcleanup" /\ tensor'[u] = tensor[u]
           /\ freeing'[u] = freeing[u] /\ node'[u] = node[u]
           /\ Running(u) => Running(u)' /\ held'[u] = held[u]

\* Such a step leaves every handle its callback.
LEMMA QuietKeepsHandleInv == ASSUME HandleInv, Quiet PROVE HandleInv'
<1> SUFFICES ASSUME NEW c \in Contexts, manager' = "alive", record'[c] = "alive", NEW h \in mem_handles'[c]
             PROVE  /\ Covers(h.block, h.address)
                    /\ AllocationHasCallback(c, h)' \/ FreeHasCallback(c, h)'
  BY DEF HandleInv, Covers
<1>1. Covers(h.block, h.address) /\ (AllocationHasCallback(c, h) \/ FreeHasCallback(c, h))
  BY DEF HandleInv, Quiet
<1>2. AllocationHasCallback(c, h) => AllocationHasCallback(c, h)'
  BY DEF AllocationHasCallback, Quiet, Listed
<1>3. FreeHasCallback(c, h) => FreeHasCallback(c, h)'
  BY SMT DEF FreeHasCallback, Quiet, Listed
<1> QED BY <1>1, <1>2, <1>3

\* What a callback appended to a list adds to it.
LEMMA AppendListed ==
    ASSUME NEW s \in Seq(CleanUps), NEW f \in CleanUps
    PROVE  /\ \A i \in DOMAIN Append(s, f) :
                  Append(s, f)[i] = IF i = Len(s) + 1 THEN f ELSE s[i]
           /\ \A i \in DOMAIN Append(s, f) : i = Len(s) + 1 \/ i \in DOMAIN s
           /\ \A i \in DOMAIN s : i # Len(s) + 1
BY SMT DEF CleanUps

\* Appending a callback loses none, and lists it.
LEMMA AppendKeepsListed ==
    ASSUME NEW s \in Seq(CleanUps), NEW c, NEW p
    PROVE  /\ \A d, q : Listed(d, q, s) => Listed(d, q, Append(s, << c, p >>))
           /\ Listed(c, p, Append(s, << c, p >>))
<1> DEFINE f == << c, p >>
           u == Append(s, f)
<1>1. /\ Len(s) \in Nat /\ DOMAIN s = 1 .. Len(s) /\ DOMAIN u = 1 .. (Len(s) + 1)
      /\ u[Len(s) + 1] = f /\ \A i \in 1 .. Len(s) : u[i] = s[i]
  BY SMT
<1> HIDE DEF u
<1>2. \A i \in DOMAIN s : i \in DOMAIN u /\ u[i] = s[i]
  BY <1>1, SMT
<1>3. Len(s) + 1 \in DOMAIN u
  BY <1>1, SMT
<1>4. Listed(c, p, u)
  BY <1>1, <1>3 DEF Listed
<1>5. \A d, q : Listed(d, q, s) => Listed(d, q, u)
  BY <1>2 DEF Listed
<1> QED BY <1>4, <1>5 DEF u

\* A freed block hands its callbacks to the thread that frees it.
LEMMA FreeKeepsHandleInv ==
    ASSUME MemInv, HandleInv, NEW t \in Threads, NEW b \in Blocks, FreeImpl(t, b)
    PROVE  HandleInv'
<1> USE DEF MemInv
<1> SUFFICES ASSUME NEW e \in Contexts, manager' = "alive", record'[e] = "alive", NEW h \in mem_handles'[e]
             PROVE  /\ Covers(h.block, h.address)
                    /\ AllocationHasCallback(e, h)' \/ FreeHasCallback(e, h)'
  BY DEF HandleInv, Covers
<1>1. /\ \A u \in Threads : pc'[u] = IF u = t THEN "untrack" ELSE pc[u]
      /\ \A u \in Threads : freeing'[u] = IF u = t THEN b ELSE freeing[u]
      /\ \A u \in Threads : node'[u] = IF u = t THEN clean_up_fns[b] ELSE node[u]
      /\ \A d \in Blocks : d # b => clean_up_fns'[d] = clean_up_fns[d]
      /\ allocations' = allocations \ {b}
      /\ UNCHANGED << mem_handles, record, manager, tensor, held >>
  BY DEF FreeImpl, Goto, recordVars, TypeOK
<1>2. pc[t] = "idle" /\ freeing[t] = NoBlock /\ ~InUse(b)
  BY DEF FreeImpl, BlockInv, Calling
<1>3. Covers(h.block, h.address) /\ h.block \in Blocks /\ (AllocationHasCallback(e, h) \/ FreeHasCallback(e, h))
  BY <1>1, SMT DEF HandleInv, TypeOK, MemHandles
<1>4. CASE FreeHasCallback(e, h)
  <2>1. PICK u \in Threads : /\ freeing[u] = h.block
                             /\ Listed(e, h.address, node[u]) \/ (Running(u) /\ held[u] = << e, h.address >>)
    BY <1>4 DEF FreeHasCallback
  <2>2. u # t
    BY <1>2, <1>3, <2>1, BlockFields
  <2> QED BY <1>1, <1>3, <2>1, <2>2, SMT DEF FreeHasCallback, Listed, Running
<1>5. CASE AllocationHasCallback(e, h) /\ h.block # b
  BY <1>1, <1>2, <1>3, <1>5 DEF AllocationHasCallback, Listed
<1>6. CASE AllocationHasCallback(e, h) /\ h.block = b
  <2>1. Listed(e, h.address, clean_up_fns[b])
    <3>1. ~\E u \in Threads : pc[u] = "addcleanup" /\ Covers(b, tensor[u].address)
      BY <1>2 DEF InUse, Binding
    <3>2. ~\E u \in Threads : /\ pc[u] = "addcleanup" /\ tensor[u].context = e
                              /\ tensor[u].address = h.address
      BY <1>3, <1>6, <3>1
    <3> QED BY <1>6, <3>2 DEF AllocationHasCallback
  <2> QED BY <1>1, <1>3, <1>6, <2>1, SMT DEF FreeHasCallback, Listed
<1> QED BY <1>3, <1>4, <1>5, <1>6

\* A handle that is registered has the callback that its run adds next.
LEMMA RegisterKeepsHandleInv ==
    ASSUME MemInv, HandleInv, NEW t \in Threads, GetOrRegister(t)
    PROVE  HandleInv'
<1> USE DEF MemInv
<1>1. CASE ~Register(t)
  <2>1. Quiet
    BY <1>1
    DEF GetOrRegister, RunReturns, Goto, allocatorVars, recordVars, freeVars, TypeOK,
       Quiet, Running
  <2> QED BY <2>1, QuietKeepsHandleInv
<1>2. CASE Register(t)
  <2> DEFINE x == tensor[t]
             new == [address |-> x.address, size |-> x.size, block |-> LookUp(x.address)]
  <2>1. x \in Tensors /\ x.context \in Contexts /\ pc[t] = "register"
    BY DEF GetOrRegister, BlockInv, Binding, Tensors
  <2>2. LookUp(x.address) \in allocations /\ Covers(LookUp(x.address), x.address)
    BY BoundLookUp DEF GetOrRegister, Binding
  <2>3. /\ \A d \in Contexts : mem_handles'[d] = IF d = x.context THEN mem_handles[d] \cup {new} ELSE mem_handles[d]
        /\ \A u \in Threads : pc'[u] = IF u = t THEN "addcleanup" ELSE pc[u]
        /\ UNCHANGED << tensor, memory, allocations, clean_up_fns, record, manager, freeing, node, held >>
    BY <1>2
    DEF GetOrRegister, Register, Goto, allocatorVars, recordVars, freeVars, TypeOK
  <2> HIDE DEF x
  <2> SUFFICES ASSUME NEW e \in Contexts, manager' = "alive", record'[e] = "alive", NEW h \in mem_handles'[e]
               PROVE  /\ Covers(h.block, h.address)
                      /\ AllocationHasCallback(e, h)' \/ FreeHasCallback(e, h)'
    BY DEF HandleInv, Covers
  <2>4. CASE h \in mem_handles[e]
    <3>1. Covers(h.block, h.address) /\ (AllocationHasCallback(e, h) \/ FreeHasCallback(e, h))
      BY <2>3, <2>4 DEF HandleInv
    <3>2. AllocationHasCallback(e, h) => AllocationHasCallback(e, h)'
      BY <2>1, <2>3 DEF AllocationHasCallback, Listed
    <3>3. FreeHasCallback(e, h) => FreeHasCallback(e, h)'
      BY <2>1, <2>3 DEF FreeHasCallback, Listed, Running
    <3> QED BY <3>1, <3>2, <3>3
  <2>5. CASE h \notin mem_handles[e]
    <3>1. e = x.context /\ h = new
      BY <2>1, <2>3, <2>5, ZenonT(40) DEF TypeOK
    <3>2. AllocationHasCallback(e, h)'
      BY <2>1, <2>2, <2>3, <3>1 DEF AllocationHasCallback, x
    <3> QED BY <2>2, <3>1, <3>2
  <2> QED BY <2>4, <2>5
<1> QED BY <1>1, <1>2

\* The callback that the run had to add is in the list.
LEMMA AddKeepsHandleInv ==
    ASSUME MemInv, HandleInv, NEW t \in Threads, AddAllocationCleanUp(t)
    PROVE  HandleInv'
<1> USE DEF MemInv
<1> SUFFICES ASSUME NEW e \in Contexts, manager' = "alive", record'[e] = "alive", NEW h \in mem_handles'[e]
             PROVE  /\ Covers(h.block, h.address)
                    /\ AllocationHasCallback(e, h)' \/ FreeHasCallback(e, h)'
  BY DEF HandleInv, Covers
<1> DEFINE x == tensor[t]
           b == LookUp(x.address)
<1>1. pc[t] = "addcleanup" /\ b \in allocations /\ Covers(b, x.address) /\ x.address \in Nat
  BY BoundLookUp, WithinNat DEF AddAllocationCleanUp, Binding, BlockInv, Tensors
<1>2. /\ \A u \in Threads : pc'[u] = IF u = t THEN "executing" ELSE pc[u]
      /\ \A d \in Blocks : d # b => clean_up_fns'[d] = clean_up_fns[d]
      /\ clean_up_fns'[b] = Append(clean_up_fns[b], << x.context, x.address >>)
      /\ UNCHANGED << allocations, mem_handles, record, manager, tensor, freeing, node, held >>
  BY <1>1 DEF AddAllocationCleanUp, Goto, recordVars, freeVars, TypeOK
<1>3. b \in Blocks /\ clean_up_fns[b] \in Seq(CleanUps)
  BY <1>1 DEF TypeOK
<1>4. Covers(h.block, h.address) /\ h.block \in Blocks /\ (AllocationHasCallback(e, h) \/ FreeHasCallback(e, h))
  BY <1>2, SMT DEF HandleInv, TypeOK, MemHandles
<1> HIDE DEF b, x
<1>5. /\ \A c, p : Listed(c, p, clean_up_fns[b]) => Listed(c, p, clean_up_fns'[b])
      /\ Listed(x.context, x.address, clean_up_fns'[b])
  BY <1>2, <1>3, AppendKeepsListed
<1>7. CASE FreeHasCallback(e, h)
  BY <1>1, <1>2, <1>4, <1>7 DEF FreeHasCallback, Listed, Running
<1>8. CASE AllocationHasCallback(e, h)
  <2>1. CASE Listed(e, h.address, clean_up_fns[h.block])
    <3>1. Listed(e, h.address, clean_up_fns'[h.block])
      BY <1>2, <1>4, <1>5, <2>1
    <3>2. AllocationHasCallback(e, h)'
      BY <1>2, <1>8, <3>1 DEF AllocationHasCallback, Listed
    <3> QED BY <1>4, <3>2
  <2>2. CASE x.context = e /\ x.address = h.address
    <3>1. h.block = b
      BY <1>1, <1>4, <1>8, <2>2, CoversOverlap
      DEF AllocationHasCallback, BlockInv, TypeOK
    <3>2. AllocationHasCallback(e, h)'
      BY <1>2, <1>5, <1>8, <2>2, <3>1 DEF AllocationHasCallback, Listed
    <3> QED BY <1>4, <3>2
  <2>3. CASE \E u \in Threads \ {t} : pc[u] = "addcleanup" /\ tensor[u].context = e /\ tensor[u].address = h.address
    BY <1>2, <1>4, <1>8, <2>3 DEF AllocationHasCallback
  <2> QED BY <1>8, <2>1, <2>2, <2>3 DEF AllocationHasCallback, x
<1> QED BY <1>4, <1>7, <1>8

\* A callback taken off the list is run while the manager lives.
LEMMA LockKeepsHandleInv ==
    ASSUME MemInv, HandleInv, NEW t \in Threads, CleanUpLockManager(t)
    PROVE  HandleInv'
<1> USE DEF MemInv
<1> SUFFICES ASSUME NEW e \in Contexts, manager' = "alive", record'[e] = "alive", NEW h \in mem_handles'[e]
             PROVE  /\ Covers(h.block, h.address)
                    /\ AllocationHasCallback(e, h)' \/ FreeHasCallback(e, h)'
  BY DEF HandleInv, Covers
<1> DEFINE f == Head(node[t])
<1>1. node[t] \in Seq(CleanUps) /\ node[t] # << >> /\ f \in CleanUps /\ pc[t] = "cleanup"
  BY SMT DEF CleanUpLockManager, TypeOK
<1>2. /\ \A u \in Threads : u # t => pc'[u] = pc[u] /\ held'[u] = held[u] /\ node'[u] = node[u]
      /\ node'[t] = Tail(node[t])
      /\ manager = "alive" => pc'[t] = "lockrecord" /\ held'[t] = f
      /\ UNCHANGED << allocations, clean_up_fns, mem_handles, record, manager, tensor, freeing >>
  BY DEF CleanUpLockManager, Goto, allocatorVars, recordVars, TypeOK
<1>3. Covers(h.block, h.address) /\ (AllocationHasCallback(e, h) \/ FreeHasCallback(e, h))
  BY <1>2 DEF HandleInv
<1>4. CASE AllocationHasCallback(e, h)
  BY <1>1, <1>2, <1>3, <1>4 DEF AllocationHasCallback, Listed
<1>5. CASE FreeHasCallback(e, h)
  <2>1. PICK u \in Threads : /\ freeing[u] = h.block
                             /\ Listed(e, h.address, node[u]) \/ (Running(u) /\ held[u] = << e, h.address >>)
    BY <1>5 DEF FreeHasCallback
  <2>2. CASE u # t
    BY <1>2, <1>3, <2>1, <2>2, SMT DEF FreeHasCallback, Listed, Running
  <2>3. CASE u = t
    <3>1. PICK i \in DOMAIN node[t] : node[t][i] = << e, h.address >>
      BY <1>1, <2>1, <2>3 DEF Listed, Running
    <3>2. CASE i = 1
      <4>1. f = << e, h.address >> /\ f[1] = e
        BY <1>1, <3>1, <3>2, SMT
      <4> QED BY <1>2, <1>3, <2>1, <2>3, <4>1 DEF FreeHasCallback, Running
    <3>3. CASE i # 1
      <4>1. i - 1 \in DOMAIN Tail(node[t]) /\ Tail(node[t])[i - 1] = << e, h.address >>
        BY <1>1, <3>1, <3>3, SMT
      <4>2. Listed(e, h.address, node'[t])
        BY <1>2, <4>1 DEF Listed
      <4> QED BY <1>2, <1>3, <2>1, <2>3, <4>2 DEF FreeHasCallback, Listed
    <3> QED BY <3>2, <3>3
  <2> QED BY <2>2, <2>3
<1> QED BY <1>3, <1>4, <1>5

\* ... and while the record lives, which the handles it looks after need.
LEMMA LockRecordKeepsHandleInv ==
    ASSUME MemInv, HandleInv, NEW t \in Threads, CleanUpLockRecord(t)
    PROVE  HandleInv'
<1> USE DEF MemInv
<1> SUFFICES ASSUME NEW e \in Contexts, manager' = "alive", record'[e] = "alive", NEW h \in mem_handles'[e]
             PROVE  /\ Covers(h.block, h.address)
                    /\ AllocationHasCallback(e, h)' \/ FreeHasCallback(e, h)'
  BY DEF HandleInv, Covers
<1>1. /\ pc[t] = "lockrecord"
      /\ record[held[t][1]] = "alive" => pc'[t] = "unregister"
      /\ \A u \in Threads : u # t => pc'[u] = pc[u]
      /\ UNCHANGED << allocations, clean_up_fns, mem_handles, record, manager, tensor, freeing, node, held >>
  BY DEF CleanUpLockRecord, Goto, allocatorVars, recordVars, freeVars, TypeOK
<1>2. Covers(h.block, h.address) /\ (AllocationHasCallback(e, h) \/ FreeHasCallback(e, h))
  BY <1>1 DEF HandleInv
<1>3. CASE AllocationHasCallback(e, h)
  BY <1>1, <1>2, <1>3 DEF AllocationHasCallback, Listed
<1>4. CASE FreeHasCallback(e, h)
  <2>1. PICK u \in Threads : /\ freeing[u] = h.block
                             /\ Listed(e, h.address, node[u]) \/ (Running(u) /\ held[u] = << e, h.address >>)
    BY <1>4 DEF FreeHasCallback
  <2>2. held[u] = << e, h.address >> => held[u][1] = e
    BY SMT
  <2>3. Running(u) /\ held[u] = << e, h.address >> => Running(u)'
    BY <1>1, <2>2 DEF Running
  <2> QED BY <1>1, <1>2, <2>1, <2>3 DEF FreeHasCallback, Listed
<1> QED BY <1>2, <1>3, <1>4

\* Unregistering removes the handle with its callback.
LEMMA UnregisterKeepsHandleInv ==
    ASSUME MemInv, HandleInv, NEW t \in Threads, Unregister(t)
    PROVE  HandleInv'
<1> USE DEF MemInv
<1> SUFFICES ASSUME NEW e \in Contexts, manager' = "alive", record'[e] = "alive", NEW h \in mem_handles'[e]
             PROVE  /\ Covers(h.block, h.address)
                    /\ AllocationHasCallback(e, h)' \/ FreeHasCallback(e, h)'
  BY DEF HandleInv, Covers
<1> DEFINE c == held[t][1]
           p == held[t][2]
<1>1. pc[t] = "unregister" /\ held[t] = << c, p >> /\ c \in Contexts
  BY SMT DEF Unregister, LifeInv, ThreadLife, CleanUps
<1>2. /\ \A u \in Threads : pc'[u] = IF u = t THEN "droprecord" ELSE pc[u]
      /\ \A d \in Contexts : mem_handles'[d] =
             IF d = c THEN {g \in mem_handles[d] : g.address # p} ELSE mem_handles[d]
      /\ UNCHANGED << allocations, clean_up_fns, record, manager, tensor, freeing, node, held >>
  BY DEF Unregister, Goto, allocatorVars, recordVars, freeVars, TypeOK
<1> HIDE DEF c, p
<1>3. h \in mem_handles[e] /\ << e, h.address >> # held[t]
  <2>1. h \in mem_handles[e] /\ ~(e = c /\ h.address = p)
    BY <1>2
  <2> QED BY <1>1, <2>1, SMT
<1>4. Covers(h.block, h.address) /\ (AllocationHasCallback(e, h) \/ FreeHasCallback(e, h))
  BY <1>2, <1>3 DEF HandleInv
<1>5. CASE AllocationHasCallback(e, h)
  BY <1>1, <1>2, <1>4, <1>5 DEF AllocationHasCallback, Listed
<1>6. CASE FreeHasCallback(e, h)
  BY <1>1, <1>2, <1>3, <1>4, <1>6 DEF FreeHasCallback, Listed, Running
<1> QED BY <1>4, <1>5, <1>6

\* The last callback has run when the free returns.
LEMMA ReturnKeepsHandleInv ==
    ASSUME MemInv, HandleInv, NEW t \in Threads, FreeImplReturns(t)
    PROVE  HandleInv'
<1> USE DEF MemInv
<1> SUFFICES ASSUME NEW e \in Contexts, manager' = "alive", record'[e] = "alive", NEW h \in mem_handles'[e]
             PROVE  /\ Covers(h.block, h.address)
                    /\ AllocationHasCallback(e, h)' \/ FreeHasCallback(e, h)'
  BY DEF HandleInv, Covers
<1>1. pc[t] = "cleanup" /\ node[t] = << >>
  BY DEF FreeImplReturns
<1>2. /\ \A u \in Threads : pc'[u] = IF u = t THEN "idle" ELSE pc[u]
      /\ \A u \in Threads : u # t => freeing'[u] = freeing[u]
      /\ UNCHANGED << allocations, clean_up_fns, mem_handles, record, manager, tensor, node, held >>
  BY DEF FreeImplReturns, Goto, recordVars, TypeOK
<1>3. Covers(h.block, h.address) /\ (AllocationHasCallback(e, h) \/ FreeHasCallback(e, h))
  BY <1>2 DEF HandleInv
<1>4. CASE AllocationHasCallback(e, h)
  BY <1>1, <1>2, <1>3, <1>4 DEF AllocationHasCallback, Listed
<1>5. CASE FreeHasCallback(e, h)
  <2>1. ~Listed(e, h.address, node[t])
    BY <1>1, SMT DEF Listed
  <2> QED BY <1>1, <1>2, <1>3, <1>5, <2>1 DEF FreeHasCallback, Listed, Running
<1> QED BY <1>3, <1>4, <1>5

\* Every handle of a live context keeps a callback.
LEMMA HandleInvStep ==
    ASSUME MemInv, HandleInv, [Next]_vars
    PROVE  HandleInv'
<1> USE DEF MemInv
<1>0. CASE UNCHANGED vars
  <2>1. Quiet
    BY <1>0 DEF vars, allocatorVars, recordVars, freeVars, Quiet, Running
  <2> QED BY <2>1, QuietKeepsHandleInv
<1>1. ASSUME NEW t \in Threads, NEW b \in Blocks, Alloc(t, b) PROVE HandleInv'
  <2>1. b \notin allocations
    BY <1>1, BlockFields, SMT DEF Alloc, Overlap, BlockInv
  <2>2. Quiet
    BY <1>1, <2>1 DEF Alloc, recordVars, freeVars, TypeOK, Quiet,
       Running
  <2> QED BY <2>2, QuietKeepsHandleInv
<1>2. ASSUME NEW t \in Threads, NEW b \in Blocks, FreeImpl(t, b) PROVE HandleInv'
  BY <1>2, FreeKeepsHandleInv
<1>3. ASSUME NEW t \in Threads, NEW c \in Contexts, NEW p \in Within, NEW s \in Sizes, BindQnnTensor(t, c, p, s) PROVE HandleInv'
  <2>1. Quiet
    BY <1>3 DEF BindQnnTensor, Goto, allocatorVars, recordVars, freeVars, TypeOK,
       Quiet, Running
  <2> QED BY <2>1, QuietKeepsHandleInv
<1>4. ASSUME NEW t \in Threads, GetOrRegister(t) PROVE HandleInv'
  BY <1>4, RegisterKeepsHandleInv
<1>5. ASSUME NEW t \in Threads, AddAllocationCleanUp(t) PROVE HandleInv'
  BY <1>5, AddKeepsHandleInv
<1>6. ASSUME NEW t \in Threads, Execute(t) PROVE HandleInv'
  <2>1. Quiet
    BY <1>6
    DEF Execute, RunReturns, Goto, allocatorVars, recordVars, freeVars, TypeOK, Quiet,
       Running
  <2> QED BY <2>1, QuietKeepsHandleInv
<1>7. ASSUME NEW t \in Threads, UnregisterAllocation(t) PROVE HandleInv'
  <2>1. Quiet
    BY <1>7
    DEF UnregisterAllocation, Goto, allocatorVars, recordVars, freeVars, TypeOK, Quiet,
       Running
  <2> QED BY <2>1, QuietKeepsHandleInv
<1>8. ASSUME NEW t \in Threads, CleanUpLockManager(t) PROVE HandleInv'
  BY <1>8, LockKeepsHandleInv
<1>9. ASSUME NEW t \in Threads, Unregister(t) PROVE HandleInv'
  BY <1>9, UnregisterKeepsHandleInv
<1>10. ASSUME NEW t \in Threads, FreeImplReturns(t) PROVE HandleInv'
  BY <1>10, ReturnKeepsHandleInv
<1>11. ASSUME NEW t \in Threads, RecoverFromSSR(t) PROVE HandleInv'
  <2>1. Quiet
    BY <1>11
    DEF RecoverFromSSR, Erase, Goto, allocatorVars, recordVars, freeVars,
       TypeOK, Quiet,
       Running
  <2> QED BY <2>1, QuietKeepsHandleInv
<1>12. ASSUME NEW t \in Threads, NEW c \in Contexts, ReleaseContext(t, c) PROVE HandleInv'
  <2>1. Quiet
    BY <1>12
    DEF ReleaseContext, Erase, Goto, allocatorVars, recordVars, freeVars, TypeOK, Quiet,
       Running
  <2> QED BY <2>1, QuietKeepsHandleInv
<1>13. ASSUME NEW t \in Threads, DropRecord(t) PROVE HandleInv'
  <2>1. Quiet
    BY <1>13 DEF DropRecord, Goto, allocatorVars, recordVars, freeVars, TypeOK,
       Quiet, Running
  <2> QED BY <2>1, QuietKeepsHandleInv
<1>14. ASSUME NEW t \in Threads, Destroy(t) PROVE HandleInv'
  <2>1. Quiet
    BY <1>14 DEF Destroy, Goto, allocatorVars, recordVars, freeVars, TypeOK, Quiet,
       Running
  <2> QED BY <2>1, QuietKeepsHandleInv
<1>15. ASSUME NEW t \in Threads, DropManager(t) PROVE HandleInv'
  <2>1. Quiet
    BY <1>15 DEF DropManager, Goto, allocatorVars, recordVars, freeVars, TypeOK,
       Quiet, Running
  <2> QED BY <2>1, QuietKeepsHandleInv
<1>16. ASSUME NEW t \in Threads, CloseSession(t) PROVE HandleInv'
  <2>1. Quiet
    BY <1>16 DEF CloseSession, Goto, allocatorVars, recordVars, freeVars, TypeOK,
       Quiet, Running
  <2> QED BY <2>1, QuietKeepsHandleInv
<1>17. ASSUME NEW t \in Threads, ManagerGone(t) PROVE HandleInv'
  <2>1. Quiet
    BY <1>17 DEF ManagerGone, Goto, allocatorVars, recordVars, freeVars, TypeOK,
       Quiet, Running
  <2> QED BY <2>1, QuietKeepsHandleInv
<1>18. ASSUME NEW t \in Threads, CleanUpLockRecord(t) PROVE HandleInv'
  BY <1>18, LockRecordKeepsHandleInv
<1>19. ASSUME NEW t \in Threads, GetOrRegisterErased(t) PROVE HandleInv'
  <2>1. Quiet
    BY <1>19
    DEF GetOrRegisterErased, RunReturns, Goto, allocatorVars, recordVars, freeVars,
       TypeOK, Quiet, Running
  <2> QED BY <2>1, QuietKeepsHandleInv
<1> QED BY <1>0, <1>1, <1>2, <1>3, <1>4, <1>5, <1>6, <1>7, <1>8, <1>9, <1>10,
     <1>11,
           <1>12, <1>13, <1>14, <1>15, <1>16, <1>17, <1>18, <1>19
        DEF Next

\* HandleInv is an invariant of the allocator, the mem handles and the records.
THEOREM HandleInvHolds == Spec => []HandleInv
<1>1. Init => HandleInv
  BY DEF Init, HandleInv
<1>2. MemInv /\ HandleInv /\ [Next]_vars => HandleInv'
  BY HandleInvStep
<1> QED BY <1>1, <1>2, MemInvHolds, PTL DEF Spec

\* allocations_, the tracker and the handles of live contexts only name memory
\* that FreeImpl has not given back, for any number of threads and contexts.
THEOREM NothingNamesFreedMemoryHolds == Spec => []NothingNamesFreedMemory
<1>1. MemInv /\ HandleInv => NothingNamesFreedMemory
  <2> SUFFICES ASSUME MemInv, HandleInv PROVE NothingNamesFreedMemory
    OBVIOUS
  <2>1. \A t \in Threads : freeing[t] \in Blocks => freeing[t] \in memory
    BY BlockFields DEF MemInv, BlockInv
  <2>2. ASSUME NEW c \in Contexts, manager = "alive", record[c] = "alive", NEW h \in mem_handles[c]
        PROVE  h.block \in memory
    <3>1. h.block \in Blocks
      BY SMT DEF MemInv, TypeOK, MemHandles
    <3> QED BY <2>1, <2>2, <3>1, SMT
            DEF MemInv, HandleInv, AllocationHasCallback, FreeHasCallback, BlockInv
  <2> QED BY <2>2 DEF NothingNamesFreedMemory, MemInv, BlockInv
<1> QED BY <1>1, MemInvHolds, HandleInvHolds, PTL

-----------------------------------------------------------------------------

\* The callbacks of the block b: addresses inside it, each once.
CallbacksOf(b, s) ==
    \A i \in DOMAIN s :
        /\ Covers(b, s[i][2])
        /\ \A j \in DOMAIN s : s[i] = s[j] => i = j

\* Callbacks are listed with the block they are for, once each, and the
\* callback a thread is running is in no list any more.
CallbackInv ==
    /\ \A b \in allocations : CallbacksOf(b, clean_up_fns[b])
    /\ \A t \in Threads : freeing[t] # NoBlock => CallbacksOf(freeing[t], node[t])
    /\ \A t \in Threads : Running(t) =>
           /\ Covers(freeing[t], held[t][2])
           /\ ~Listed(held[t][1], held[t][2], node[t])

\* The tensor of t has a handle that is large enough.
Registered(t) ==
    \E h \in mem_handles[tensor[t].context] :
        h.address = tensor[t].address /\ h.size >= tensor[t].size

\* A run that has registered its tensor keeps the handle, for as long as the
\* record lives; one that found an entry of context_map_ erased has none.
BindInv ==
    /\ \A c \in context_map : record[c] = "alive"
    /\ \A t \in Threads :
           /\ pc[t] = "addcleanup" /\ record[tensor[t].context] = "alive" => Registered(t)
           /\ pc[t] = "executing" /\ tensor[t].context \in context_map => Registered(t)

\* Nobody else adds, or has added, the callback that a run is about to add.
AddInv ==
    \A t \in Threads : pc[t] = "addcleanup" =>
        /\ \A b \in allocations : ~Listed(tensor[t].context, tensor[t].address, clean_up_fns[b])
        /\ \A u \in Threads : pc[u] = "addcleanup" /\ u # t =>
               << tensor[u].context, tensor[u].address >> #
                   << tensor[t].context, tensor[t].address >>

\* The callback <<c, p>> is still to come.
Pending(c, p) ==
    \/ \E b \in allocations : Listed(c, p, clean_up_fns[b])
    \/ \E t \in Threads : /\ freeing[t] # NoBlock
                          /\ \/ Listed(c, p, node[t])
                             \/ Running(t) /\ held[t] = << c, p >>

\* A callback that is still to come finds its handle.
PendingInv ==
    \A c \in Contexts, p \in Within :
        manager = "alive" /\ record[c] = "alive" /\ Pending(c, p) =>
            \E h \in mem_handles[c] : h.address = p

-----------------------------------------------------------------------------
\* A step that leaves every callback where it is and takes no handle away.
Still ==
    /\ \A b \in allocations' : b \in allocations /\ clean_up_fns'[b] = clean_up_fns[b]
    /\ \A u \in Threads :
           /\ freeing'[u] # NoBlock => freeing'[u] = freeing[u] /\ node'[u] = node[u]
           /\ Running(u)' => Running(u) /\ held'[u] = held[u] /\ freeing'[u] = freeing[u]
           /\ pc'[u] = "addcleanup" => pc[u] = "addcleanup" /\ tensor'[u] = tensor[u]
    /\ manager' = "alive" => manager = "alive"
    /\ \A c \in Contexts : record'[c] = "alive" =>
           record[c] = "alive" /\ mem_handles[c] \subseteq mem_handles'[c]

\* The inductive invariant of UnregisterFindsHandle.
CallInv == CallbackInv /\ AddInv /\ PendingInv

\* Such a step keeps every callback its handle.
LEMMA StillKeepsCallInv ==
    ASSUME MemInv, CallInv, Still PROVE CallInv'
<1>0. \A u \in Threads : Running(u) => freeing[u] # NoBlock
  BY DEF MemInv, BlockInv, Freeing, Running
<1>1. CallbackInv'
  <2>1. \A u \in Threads : Running(u)' => node'[u] = node[u]
    BY <1>0 DEF Still
  <2> QED BY <2>1, SMT DEF CallInv, CallbackInv, Still, CallbacksOf, Covers,
       Listed
<1>2. AddInv'
  BY SMT DEF CallInv, AddInv, Still, Listed
<1>3. PendingInv'
  <2> SUFFICES ASSUME NEW c \in Contexts, NEW p \in Within, manager' = "alive",
                      record'[c] = "alive", Pending(c, p)'
               PROVE  \E h \in mem_handles'[c] : h.address = p
    BY DEF PendingInv
  <2>1. Pending(c, p)
    BY <1>0, SMT DEF Pending, Still, Listed
  <2> QED BY <2>1 DEF CallInv, PendingInv, Still
<1> QED BY <1>1, <1>2, <1>3 DEF CallInv

\* The steps of a run, of releasing contexts and of taking the manager apart
\* are such steps, unless they register a handle.
LEMMA StillSteps ==
    ASSUME MemInv, NEW t \in Threads,
           \/ \E c \in Contexts, p \in Within, s \in Sizes : BindQnnTensor(t, c, p, s)
           \/ GetOrRegister(t) /\ ~Register(t)
           \/ GetOrRegisterErased(t) \/ Execute(t)
           \/ UnregisterAllocation(t) \/ CleanUpLockRecord(t) \/ FreeImplReturns(t)
           \/ RecoverFromSSR(t) \/ \E c \in Contexts : ReleaseContext(t, c)
           \/ DropRecord(t) \/ Destroy(t) \/ DropManager(t) \/ CloseSession(t)
           \/ ManagerGone(t)
    PROVE  Still
<1> USE DEF MemInv, TypeOK, Still, Running, Goto, allocatorVars, recordVars, freeVars
<1>1. CASE \E c \in Contexts, p \in Within, s \in Sizes : BindQnnTensor(t, c, p, s)
  BY <1>1 DEF BindQnnTensor
<1>2. CASE GetOrRegister(t) /\ ~Register(t)
  BY <1>2 DEF GetOrRegister, RunReturns
<1>3. CASE Execute(t) \/ UnregisterAllocation(t)
  BY <1>3 DEF Execute, RunReturns, UnregisterAllocation
<1>4. CASE FreeImplReturns(t)
  BY <1>4 DEF FreeImplReturns
<1>5. CASE RecoverFromSSR(t)
  BY <1>5 DEF RecoverFromSSR, Erase
<1>6. CASE \E c \in Contexts : ReleaseContext(t, c)
  BY <1>6 DEF ReleaseContext, Erase
<1>7. CASE DropRecord(t)
  BY <1>7 DEF DropRecord
<1>8. CASE Destroy(t)
  <2>1. held[t][1] \in Contexts /\ record[held[t][1]] # "alive"
    BY <1>8 DEF Destroy, LifeInv, ThreadLife
  <2>2. /\ \A c \in Contexts : record'[c] = "alive" => record[c] = "alive" /\ mem_handles'[c] = mem_handles[c]
        /\ \A u \in Threads : u # t => pc'[u] = pc[u] /\ held'[u] = held[u]
        /\ pc'[t] \in {"teardown", "dropmanager", "idle"}
        /\ UNCHANGED << allocations, clean_up_fns, manager, tensor, freeing, node >>
    BY <1>8, <2>1 DEF Destroy
  <2> QED BY <2>2
<1>9. CASE DropManager(t) \/ ManagerGone(t)
  BY <1>9 DEF DropManager, ManagerGone
<1>10. CASE CloseSession(t)
  BY <1>10 DEF CloseSession
<1>11. CASE CleanUpLockRecord(t)
  BY <1>11 DEF CleanUpLockRecord
<1>12. CASE GetOrRegisterErased(t)
  BY <1>12 DEF GetOrRegisterErased, RunReturns
<1> QED BY <1>1, <1>2, <1>3, <1>4, <1>5, <1>6, <1>7, <1>8, <1>9, <1>10, <1>11, <1>12

-----------------------------------------------------------------------------
\* A block that is allocated starts without callbacks.
LEMMA AllocKeepsCallInv ==
    ASSUME MemInv, CallInv, NEW t \in Threads, NEW b \in Blocks, Alloc(t, b)
    PROVE  CallInv'
<1>1. b \notin allocations
  BY BlockFields, SMT DEF Alloc, Overlap, BlockInv, MemInv
<1>2. /\ allocations' = allocations \cup {b} /\ clean_up_fns'[b] = << >>
      /\ \A d \in allocations : clean_up_fns'[d] = clean_up_fns[d]
      /\ UNCHANGED << mem_handles, record, manager, pc, tensor, freeing, node, held >>
  BY <1>1 DEF Alloc, recordVars, freeVars, MemInv, TypeOK
<1>3. \A c, p : ~Listed(c, p, clean_up_fns'[b])
  BY <1>2, SMT DEF Listed
<1>4. CallbackInv'
  <2>1. CallbacksOf(b, clean_up_fns'[b])
    BY <1>2, SMT DEF CallbacksOf
  <2> QED BY <1>2, <2>1, SMT DEF CallInv, CallbackInv, CallbacksOf, Covers, Listed, Running
<1>5. AddInv'
  BY <1>2, <1>3, SMT DEF CallInv, AddInv, Listed
<1>6. PendingInv'
  <2> SUFFICES ASSUME NEW c \in Contexts, NEW p \in Within, manager' = "alive",
                      record'[c] = "alive", Pending(c, p)'
               PROVE  \E h \in mem_handles'[c] : h.address = p
    BY DEF PendingInv
  <2>1. Pending(c, p)
    BY <1>2, <1>3, SMT DEF Pending, Listed, Running
  <2> QED BY <1>2, <2>1 DEF CallInv, PendingInv
<1> QED BY <1>4, <1>5, <1>6 DEF CallInv

\* FreeImpl takes the callbacks of the block with it.
LEMMA FreeKeepsCallInv ==
    ASSUME MemInv, CallInv, NEW t \in Threads, NEW b \in Blocks, FreeImpl(t, b)
    PROVE  CallInv'
<1>1. /\ \A u \in Threads : pc'[u] = IF u = t THEN "untrack" ELSE pc[u]
      /\ \A u \in Threads : freeing'[u] = IF u = t THEN b ELSE freeing[u]
      /\ \A u \in Threads : node'[u] = IF u = t THEN clean_up_fns[b] ELSE node[u]
      /\ \A d \in allocations' : d \in allocations /\ clean_up_fns'[d] = clean_up_fns[d]
      /\ b \in allocations
      /\ UNCHANGED << mem_handles, record, manager, tensor, held >>
  BY DEF FreeImpl, Goto, recordVars, MemInv, TypeOK
<1>2. CallbackInv'
  BY <1>1, SMT DEF CallInv, CallbackInv, CallbacksOf, Covers, Listed, Running
<1>3. AddInv'
  BY <1>1, SMT DEF CallInv, AddInv, Listed
<1>4. PendingInv'
  <2> SUFFICES ASSUME NEW c \in Contexts, NEW p \in Within, manager' = "alive",
                      record'[c] = "alive", Pending(c, p)'
               PROVE  \E h \in mem_handles'[c] : h.address = p
    BY DEF PendingInv
  <2>1. Pending(c, p)
    BY <1>1, SMT DEF Pending, Listed, Running
  <2> QED BY <1>1, <2>1, SMT DEF CallInv, PendingInv
<1> QED BY <1>2, <1>3, <1>4 DEF CallInv

\* A handle is registered where no callback for its address is to come.
LEMMA RegisterKeepsCallInv ==
    ASSUME MemInv, CallInv, BindInv, NEW t \in Threads, GetOrRegister(t), Register(t)
    PROVE  CallInv'
<1> DEFINE x == tensor[t]
<1>1. /\ x \in Tensors /\ x.context \in Contexts /\ x.address \in Within
      /\ pc[t] = "register" /\ Existing(t) = {}
      /\ manager = "alive" /\ record[x.context] = "alive"
  BY DEF GetOrRegister, Register, MemInv, BlockInv, LifeInv, ThreadLife, BindInv,
     Binding, Tensors
<1>2. /\ \A u \in Threads : pc'[u] = IF u = t THEN "addcleanup" ELSE pc[u]
      /\ \A c \in Contexts : mem_handles[c] \subseteq mem_handles'[c]
      /\ UNCHANGED << tensor, allocations, clean_up_fns, record, manager, freeing, node, held >>
  BY <1>1 DEF GetOrRegister, Register, Goto, allocatorVars, recordVars, freeVars,
     MemInv, TypeOK
<1>3. ~\E h \in mem_handles[x.context] : h.address = x.address
  BY <1>1 DEF Existing
<1>4. ASSUME NEW b \in allocations PROVE ~Listed(x.context, x.address, clean_up_fns[b])
  BY <1>1, <1>3 DEF CallInv, PendingInv, Pending
<1>5. ASSUME NEW u \in Threads, pc[u] = "addcleanup",
             tensor[u].context = x.context, tensor[u].address = x.address
      PROVE  FALSE
  BY <1>1, <1>3, <1>5 DEF BindInv, Registered
<1>6. CallbackInv'
  BY <1>2, SMT DEF CallInv, CallbackInv, CallbacksOf, Covers, Listed, Running
<1> HIDE DEF x
<1>7. AddInv'
  <2> SUFFICES ASSUME NEW v \in Threads, pc'[v] = "addcleanup"
               PROVE  /\ \A b \in allocations : ~Listed(tensor[v].context, tensor[v].address, clean_up_fns[b])
                      /\ \A u \in Threads : pc'[u] = "addcleanup" /\ u # v =>
                           << tensor[u].context, tensor[u].address >> #
                               << tensor[v].context, tensor[v].address >>
    BY <1>2 DEF AddInv, Listed
  <2>1. CASE v = t
    BY <1>2, <1>4, <1>5, <2>1 DEF x
  <2>2. CASE v # t
    BY <1>2, <1>5, <2>2 DEF x, CallInv, AddInv
  <2> QED BY <2>1, <2>2
<1>8. PendingInv'
  <2> SUFFICES ASSUME NEW c \in Contexts, NEW p \in Within, manager' = "alive",
                      record'[c] = "alive", Pending(c, p)'
               PROVE  \E h \in mem_handles'[c] : h.address = p
    BY DEF PendingInv
  <2>1. Pending(c, p)
    BY <1>2 DEF Pending, Listed, Running
  <2> QED BY <1>2, <2>1, SMT DEF CallInv, PendingInv
<1> QED BY <1>6, <1>7, <1>8 DEF CallInv

\* The callback that is added is new, and its handle is registered.
LEMMA AddKeepsCallInv ==
    ASSUME MemInv, CallInv, BindInv, NEW t \in Threads, AddAllocationCleanUp(t)
    PROVE  CallInv'
<1> DEFINE x == tensor[t]
           b == LookUp(x.address)
           f == << x.context, x.address >>
           s == clean_up_fns[b]
<1>1. /\ pc[t] = "addcleanup" /\ b \in allocations /\ Covers(b, x.address)
      /\ x \in Tensors /\ f \in CleanUps
  BY BoundLookUp DEF AddAllocationCleanUp, Binding, MemInv, BlockInv, Tensors,
     CleanUps
<1>2. /\ \A u \in Threads : pc'[u] = IF u = t THEN "executing" ELSE pc[u]
      /\ \A d \in allocations : d # b => clean_up_fns'[d] = clean_up_fns[d]
      /\ clean_up_fns'[b] = Append(s, f)
      /\ UNCHANGED << allocations, mem_handles, record, manager, tensor, freeing, node, held >>
  BY <1>1 DEF AddAllocationCleanUp, Goto, recordVars, freeVars, MemInv, TypeOK
<1>3. s \in Seq(CleanUps)
  BY <1>1 DEF MemInv, TypeOK
<1>4. /\ ~Listed(x.context, x.address, s)
      /\ CallbacksOf(b, s)
      /\ \A u \in Threads : pc[u] = "addcleanup" /\ u # t =>
           << tensor[u].context, tensor[u].address >> # f
  BY <1>1 DEF CallInv, CallbackInv, AddInv
<1>5. record[x.context] = "alive" => Registered(t)
  BY <1>1 DEF BindInv
<1>6. f[1] = x.context /\ f[2] = x.address
  OBVIOUS
<1> HIDE DEF b, s
<1>7. CallbacksOf(b, Append(s, f))
  <2>1. \A i \in DOMAIN s : s[i] # f
    BY <1>4 DEF Listed
  <2> HIDE DEF f, x
  <2> QED BY <1>1, <1>3, <1>4, <1>6, <2>1, AppendListed, SMT DEF CallbacksOf
<1>8. \A c, p : Listed(c, p, Append(s, f)) => Listed(c, p, s) \/ << c, p >> = f
  BY <1>1, <1>3, AppendListed, SMT DEF Listed
<1> HIDE DEF f, x
<1>9. CallbackInv'
  BY <1>2, <1>7, SMT DEF CallInv, CallbackInv, CallbacksOf, Covers, Listed, Running
<1>10. AddInv'
  <2> SUFFICES ASSUME NEW v \in Threads, pc'[v] = "addcleanup"
               PROVE  /\ \A d \in allocations : ~Listed(tensor[v].context, tensor[v].address, clean_up_fns'[d])
                      /\ \A u \in Threads : pc'[u] = "addcleanup" /\ u # v =>
                           << tensor[u].context, tensor[u].address >> #
                               << tensor[v].context, tensor[v].address >>
    BY <1>2 DEF AddInv, Listed
  <2>1. v # t /\ pc[v] = "addcleanup"
    BY <1>2
  <2>2. ASSUME NEW d \in allocations
        PROVE  ~Listed(tensor[v].context, tensor[v].address, clean_up_fns'[d])
    <3>1. ~Listed(tensor[v].context, tensor[v].address, clean_up_fns[d])
      BY <2>1 DEF CallInv, AddInv
    <3>2. CASE d # b
      BY <1>2, <3>1, <3>2
    <3>3. CASE d = b
      BY <1>2, <1>4, <1>8, <2>1, <3>1, <3>3 DEF s
    <3> QED BY <3>2, <3>3
  <2> QED BY <1>2, <2>1, <2>2 DEF CallInv, AddInv
<1>11. PendingInv'
  <2> SUFFICES ASSUME NEW c \in Contexts, NEW p \in Within, manager' = "alive",
                      record'[c] = "alive", Pending(c, p)'
               PROVE  \E h \in mem_handles'[c] : h.address = p
    BY DEF PendingInv
  <2>1. Pending(c, p) \/ << c, p >> = f
    <3>1. CASE \E d \in allocations : Listed(c, p, clean_up_fns'[d])
      <4>1. PICK d \in allocations : Listed(c, p, clean_up_fns'[d])
        BY <3>1
      <4>2. Listed(c, p, clean_up_fns[d]) \/ << c, p >> = f
        BY <1>2, <1>8, <4>1 DEF s
      <4> QED BY <4>2 DEF Pending
    <3> QED BY <1>2, <3>1 DEF Pending, Listed, Running
  <2>2. CASE << c, p >> = f
    BY <1>2, <1>5, <1>6, <2>2 DEF Registered, x
  <2> QED BY <1>2, <2>1, <2>2 DEF CallInv, PendingInv
<1> QED BY <1>9, <1>10, <1>11 DEF CallInv

\* What the first callback of a list leaves.
LEMMA TailListed ==
    ASSUME NEW s \in Seq(CleanUps), s # << >>
    PROVE  /\ \A i \in DOMAIN Tail(s) : i + 1 \in DOMAIN s /\ Tail(s)[i] = s[i + 1]
           /\ \A i \in DOMAIN Tail(s) : i + 1 # 1
           /\ \A i, j \in DOMAIN Tail(s) : i + 1 = j + 1 => i = j
           /\ 1 \in DOMAIN s /\ Head(s) = s[1]
           /\ Head(s) \in CleanUps
BY SMT

\* A callback that is taken off its list is the only one for its handle.
LEMMA LockKeepsCallInv ==
    ASSUME MemInv, CallInv, NEW t \in Threads, CleanUpLockManager(t)
    PROVE  CallInv'
<1> DEFINE f == Head(node[t])
<1>1. /\ node[t] \in Seq(CleanUps) /\ node[t] # << >> /\ pc[t] = "cleanup"
      /\ freeing[t] # NoBlock
  BY DEF CleanUpLockManager, MemInv, TypeOK, BlockInv, Freeing
<1>2. /\ \A u \in Threads : u # t => pc'[u] = pc[u] /\ held'[u] = held[u] /\ node'[u] = node[u]
      /\ node'[t] = Tail(node[t])
      /\ Running(t)' => held'[t] = f
      /\ \A u \in Threads : u # t => (Running(u)' <=> Running(u))
      /\ pc'[t] \in {"cleanup", "lockrecord"}
      /\ UNCHANGED << allocations, clean_up_fns, mem_handles, record, manager, tensor, freeing >>
  BY <1>1 DEF CleanUpLockManager, Running, Goto, allocatorVars, recordVars, MemInv, TypeOK
<1>3. CallbacksOf(freeing[t], node[t])
  BY <1>1 DEF CallInv, CallbackInv
<1>4. f \in CleanUps /\ f = << f[1], f[2] >>
  BY <1>1, TailListed, SMT DEF CleanUps
<1>5. CallbacksOf(freeing[t], node'[t])
  BY <1>1, <1>2, <1>3, TailListed, SMT DEF CallbacksOf
<1>6. Covers(freeing[t], f[2]) /\ ~Listed(f[1], f[2], node'[t])
  <2>1. \A i \in DOMAIN node'[t] : node'[t][i] # f
    BY <1>1, <1>2, <1>3, TailListed, SMT DEF CallbacksOf
  <2> QED BY <1>1, <1>3, <1>4, <2>1, TailListed DEF CallbacksOf, Listed
<1>7. \A c, p : Listed(c, p, node'[t]) \/ << c, p >> = f => Listed(c, p, node[t])
  BY <1>1, <1>2, TailListed, SMT DEF Listed
<1> HIDE DEF f
<1>8. CallbackInv'
  <2>1. \A b \in allocations' : CallbacksOf(b, clean_up_fns[b])'
    BY <1>2, SMT DEF CallInv, CallbackInv, CallbacksOf, Covers
  <2>2. ASSUME NEW u \in Threads
        PROVE  /\ freeing'[u] # NoBlock => CallbacksOf(freeing'[u], node'[u])
               /\ Running(u)' => /\ Covers(freeing'[u], held'[u][2])
                                           /\ ~Listed(held'[u][1], held'[u][2], node'[u])
    <3>1. CASE u = t
      BY <1>2, <1>5, <1>6, <3>1
    <3>2. CASE u # t
      BY <1>2, <3>2 DEF CallInv, CallbackInv
    <3> QED BY <3>1, <3>2
  <2> QED BY <2>1, <2>2 DEF CallbackInv, CallbacksOf, Covers, Listed
<1>9. AddInv'
  BY <1>1, <1>2, SMT DEF CallInv, AddInv, Listed
<1>10. PendingInv'
  <2> SUFFICES ASSUME NEW c \in Contexts, NEW p \in Within, manager' = "alive",
                      record'[c] = "alive", Pending(c, p)'
               PROVE  \E h \in mem_handles'[c] : h.address = p
    BY DEF PendingInv
  <2>1. Pending(c, p)
    <3>1. CASE \E b \in allocations' : Listed(c, p, clean_up_fns'[b])
      BY <1>2, <3>1 DEF Pending
    <3>2. ASSUME NEW u \in Threads, freeing'[u] # NoBlock,
                 Listed(c, p, node'[u]) \/ (Running(u)' /\ held'[u] = << c, p >>)
          PROVE  Pending(c, p)
      <4>1. CASE u = t
        BY <1>1, <1>2, <1>7, <3>2, <4>1 DEF Pending
      <4>2. CASE u # t
        BY <1>2, <3>2, <4>2 DEF Pending
      <4> QED BY <4>1, <4>2
    <3> QED BY <3>1, <3>2 DEF Pending, Listed
  <2> QED BY <1>2, <2>1 DEF CallInv, PendingInv
<1> QED BY <1>8, <1>9, <1>10 DEF CallInv

\* Blocks that rpcmem has handed out have no address in common.
LEMMA OneBlockPerAddress ==
    ASSUME MemInv, NEW b \in memory, NEW d \in memory, NEW p \in Nat,
           Covers(b, p), Covers(d, p)
    PROVE  b = d
BY CoversOverlap DEF MemInv, BlockInv, TypeOK

\* The handle that goes was the last callback's.
LEMMA UnregisterKeepsCallInv ==
    ASSUME MemInv, CallInv, NEW t \in Threads, Unregister(t)
    PROVE  CallInv'
<1> DEFINE k == held[t][1]
           q == held[t][2]
<1>1. /\ pc[t] = "unregister" /\ held[t] = << k, q >> /\ k \in Contexts /\ q \in Nat
      /\ freeing[t] \in memory \ allocations /\ Covers(freeing[t], q)
      /\ ~Listed(k, q, node[t])
  BY WithinNat, SMT DEF Unregister, MemInv, LifeInv, ThreadLife, CleanUps,
     BlockInv, Freeing,
     CallInv, CallbackInv, Running
<1>2. /\ \A u \in Threads : pc'[u] = IF u = t THEN "droprecord" ELSE pc[u]
      /\ \A d \in Contexts : mem_handles'[d] =
             IF d = k THEN {g \in mem_handles[d] : g.address # q} ELSE mem_handles[d]
      /\ UNCHANGED << allocations, clean_up_fns, record, manager, tensor, freeing, node, held >>
  BY DEF Unregister, Goto, allocatorVars, recordVars, freeVars, MemInv, TypeOK
<1> HIDE DEF k, q
<1>3. CallbackInv'
  BY <1>2, SMT DEF CallInv, CallbackInv, CallbacksOf, Covers, Listed, Running
<1>4. AddInv'
  BY <1>2, SMT DEF CallInv, AddInv, Listed
<1>5. PendingInv'
  <2> SUFFICES ASSUME NEW c \in Contexts, NEW p \in Within, manager' = "alive",
                      record'[c] = "alive", Pending(c, p)'
               PROVE  \E h \in mem_handles'[c] : h.address = p
    BY DEF PendingInv
  <2>1. Pending(c, p)
    BY <1>2 DEF Pending, Listed, Running
  <2>2. CASE c = k /\ p = q
    <3>1. ASSUME NEW d \in memory, Covers(d, q) PROVE d = freeing[t]
      BY <1>1, <3>1, OneBlockPerAddress
    <3>2. ASSUME NEW d \in allocations, Listed(k, q, clean_up_fns[d]) PROVE FALSE
      <4>1. Covers(d, q) /\ d \in memory
        BY <3>2, SMT DEF CallInv, CallbackInv, CallbacksOf, Listed, MemInv,
           BlockInv
      <4> QED BY <1>1, <3>1, <4>1
    <3>3. ASSUME NEW u \in Threads, u # t, freeing[u] # NoBlock, Covers(freeing[u], q)
          PROVE  FALSE
      <4>1. freeing[u] \in memory /\ freeing[u] # freeing[t]
        BY <3>3 DEF MemInv, BlockInv
      <4> QED BY <3>1, <3>3, <4>1
    <3>4. ASSUME NEW u \in Threads, u # t, freeing[u] # NoBlock, Listed(k, q, node[u])
          PROVE  FALSE
      <4>1. Covers(freeing[u], q)
        BY <3>4, SMT DEF CallInv, CallbackInv, CallbacksOf, Listed
      <4> QED BY <3>3, <3>4, <4>1
    <3>5. ASSUME NEW u \in Threads, u # t, freeing[u] # NoBlock, Running(u),
                 held[u] = << k, q >>
          PROVE  FALSE
      <4>1. Covers(freeing[u], q)
        BY <3>5, SMT DEF CallInv, CallbackInv
      <4> QED BY <3>3, <3>5, <4>1
    <3> QED BY <1>1, <1>2, <2>2, <3>2, <3>4, <3>5 DEF Pending, Listed, Running
  <2>3. CASE ~(c = k /\ p = q)
    <3>1. PICK h \in mem_handles[c] : h.address = p
      BY <1>2, <2>1 DEF CallInv, PendingInv
    <3>2. h \in mem_handles'[c]
      BY <1>2, <2>3, <3>1
    <3> QED BY <3>1, <3>2
  <2> QED BY <2>2, <2>3
<1> QED BY <1>3, <1>4, <1>5 DEF CallInv

-----------------------------------------------------------------------------
\* A step that takes no run further and no handle from a run, unless with the
\* context.
KeepsRuns ==
    /\ \A u \in Threads : pc'[u] = "addcleanup" =>
           /\ pc[u] = "addcleanup" /\ tensor'[u] = tensor[u]
           /\ record'[tensor[u].context] = "alive" =>
                  record[tensor[u].context] = "alive" /\ (Registered(u) => Registered(u)')
    /\ \A u \in Threads : pc'[u] = "executing" =>
           /\ pc[u] = "executing" /\ tensor'[u] = tensor[u]
           /\ tensor[u].context \in context_map' =>
                  tensor[u].context \in context_map /\ (Registered(u) => Registered(u)')
    /\ \A c \in context_map' : c \in context_map /\ (record[c] = "alive" => record'[c] = "alive")

\* Such a step leaves every run what it is bound to.
LEMMA KeepsRunsKeepsBindInv == ASSUME BindInv, KeepsRuns PROVE BindInv'
BY DEF BindInv, KeepsRuns

\* Every step of Next leaves every run what it is bound to.
LEMMA BindInvStep ==
    ASSUME MemInv, CallInv, BindInv, [Next]_vars
    PROVE  BindInv'
<1> USE DEF MemInv
<1>a. \A u \in Threads : pc[u] \in {"addcleanup", "executing"} => tensor[u].context \in Contexts
  BY DEF BlockInv, Binding, Tensors
<1>0. CASE UNCHANGED vars
  BY <1>0 DEF vars, allocatorVars, recordVars, BindInv, Registered, Binding
<1>1. ASSUME NEW u \in Threads, NEW b \in Blocks, Alloc(u, b) \/ FreeImpl(u, b) PROVE BindInv'
  <2>1. KeepsRuns
    BY <1>1 DEF Alloc, FreeImpl, Goto, recordVars, TypeOK, KeepsRuns, Binding,
       Registered
  <2> QED BY <2>1, KeepsRunsKeepsBindInv
<1>2. ASSUME NEW u \in Threads, NEW c \in Contexts, NEW p \in Within, NEW z \in Sizes,
             BindQnnTensor(u, c, p, z)
      PROVE  BindInv'
  BY <1>2 DEF BindQnnTensor, Goto, recordVars, TypeOK, BindInv, Binding,
     Registered
<1>3. ASSUME NEW u \in Threads, GetOrRegister(u), ~Register(u) PROVE BindInv'
  <2>1. CASE /\ \E h \in Existing(u) : tensor[u].size <= h.size
             /\ Goto(u, "executing") /\ UNCHANGED << mem_handles, tensor >>
    <3>1. Registered(u) /\ pc[u] = "register"
      BY <1>3, <2>1, SharedMemoryAssumption
      DEF GetOrRegister, Existing, Registered, BlockInv, Binding, Tensors, TypeOK, MemHandles
    <3> QED BY <1>3, <2>1, <3>1
            DEF GetOrRegister, Goto, recordVars, TypeOK, BindInv, Binding, Registered
  <2>2. CASE RunReturns(u) /\ UNCHANGED mem_handles
    <3>1. KeepsRuns
      BY <1>3, <2>2
      DEF GetOrRegister, RunReturns, Goto, recordVars, TypeOK, KeepsRuns, Binding, Registered
    <3> QED BY <3>1, KeepsRunsKeepsBindInv
  <2> QED BY <1>3, <2>1, <2>2 DEF GetOrRegister
<1>4. ASSUME NEW u \in Threads, GetOrRegister(u), Register(u) PROVE BindInv'
  <2> DEFINE x == tensor[u]
             new == [address |-> x.address, size |-> x.size, block |-> LookUp(x.address)]
  <2>1. x \in Tensors /\ x.context \in Contexts /\ x.size \in Nat /\ pc[u] = "register"
    BY <1>4, SharedMemoryAssumption DEF GetOrRegister, BlockInv, Binding, Tensors
  <2>2. /\ \A c \in Contexts : mem_handles[c] \subseteq mem_handles'[c]
        /\ new \in mem_handles'[x.context]
        /\ \A v \in Threads : pc'[v] = IF v = u THEN "addcleanup" ELSE pc[v]
        /\ UNCHANGED << tensor, context_map, record >>
    BY <1>4, <2>1 DEF GetOrRegister, Register, Goto, recordVars, TypeOK
  <2>3. Registered(u)'
    <3>1. new.address = x.address /\ new.size >= x.size
      BY <2>1, SMT
    <3> QED BY <2>2, <3>1 DEF Registered
  <2>4. \A v \in Threads : /\ v # u
                           /\ \/ pc[v] = "addcleanup" /\ record[tensor[v].context] = "alive"
                              \/ pc[v] = "executing" /\ tensor[v].context \in context_map
                          => Registered(v)'
    BY <1>a, <2>2 DEF BindInv, Registered
  <2> QED BY <2>1, <2>2, <2>3, <2>4 DEF BindInv, Binding
<1>5. ASSUME NEW u \in Threads, AddAllocationCleanUp(u) PROVE BindInv'
  BY <1>5 DEF AddAllocationCleanUp, Goto, recordVars, TypeOK, BindInv, Registered
<1>12. ASSUME NEW u \in Threads, Execute(u) PROVE BindInv'
  <2>1. KeepsRuns
    BY <1>12 DEF Execute, RunReturns, Goto, recordVars, TypeOK, KeepsRuns, Registered
  <2> QED BY <2>1, KeepsRunsKeepsBindInv
<1>13. ASSUME NEW u \in Threads, GetOrRegisterErased(u) PROVE BindInv'
  BY <1>13 DEF GetOrRegisterErased, RunReturns, Goto, recordVars, TypeOK, BindInv, Registered
<1>6. ASSUME NEW u \in Threads,
             UnregisterAllocation(u) \/ CleanUpLockManager(u) \/ CleanUpLockRecord(u)
             \/ FreeImplReturns(u) \/ DropManager(u) \/ ManagerGone(u)
      PROVE  BindInv'
  <2>1. KeepsRuns
    BY <1>6, ZenonT(40) DEF UnregisterAllocation, CleanUpLockManager, CleanUpLockRecord, FreeImplReturns,
       DropManager, ManagerGone,
       Goto, recordVars, TypeOK, KeepsRuns, Binding, Registered
  <2> QED BY <2>1, KeepsRunsKeepsBindInv
<1>7. ASSUME NEW u \in Threads, Unregister(u) PROVE BindInv'
  <2> DEFINE k == held[u][1]
             q == held[u][2]
  <2>1. /\ pc[u] = "unregister" /\ k \in Contexts /\ q \in Nat
        /\ freeing[u] \in memory \ allocations /\ Covers(freeing[u], q)
    BY <1>7, WithinNat DEF Unregister, LifeInv, ThreadLife, CleanUps, BlockInv,
       Freeing,
       CallInv, CallbackInv, Running
  <2>2. /\ \A v \in Threads : pc'[v] = IF v = u THEN "droprecord" ELSE pc[v]
        /\ \A d \in Contexts : mem_handles'[d] =
               IF d = k THEN {g \in mem_handles[d] : g.address # q} ELSE mem_handles[d]
        /\ UNCHANGED << context_map, record, tensor >>
    BY <1>7 DEF Unregister, Goto, recordVars, TypeOK
  <2> HIDE DEF k, q
  <2>3. ASSUME NEW v \in Threads, Binding(v) PROVE tensor[v].address # q /\ tensor[v].context \in Contexts
    <3>1. PICK b \in allocations : Covers(b, tensor[v].address)
      BY <2>3 DEF BlockInv
    <3>2. b \in memory
      BY DEF BlockInv
    <3>3. tensor[v].context \in Contexts
      BY <2>3 DEF BlockInv, Tensors
    <3> QED BY <2>1, <3>1, <3>2, <3>3, OneBlockPerAddress
  <2>4. ASSUME NEW v \in Threads, Binding(v), Registered(v) PROVE Registered(v)'
    <3>1. PICK h \in mem_handles[tensor[v].context] : h.address = tensor[v].address /\ h.size >= tensor[v].size
      BY <2>4 DEF Registered
    <3>2. h \in mem_handles'[tensor[v].context]
      BY <2>2, <2>3, <2>4, <3>1
    <3> QED BY <2>2, <3>1, <3>2 DEF Registered
  <2>5. KeepsRuns
    BY <2>1, <2>2, <2>4 DEF KeepsRuns, Binding
  <2> QED BY <2>5, KeepsRunsKeepsBindInv
<1>8. ASSUME NEW u \in Threads, RecoverFromSSR(u) PROVE BindInv'
  <2>1. KeepsRuns
    BY <1>8, <1>a, SMT DEF RecoverFromSSR, Erase, Goto, TypeOK, KeepsRuns, Registered
  <2> QED BY <2>1, KeepsRunsKeepsBindInv
<1>9. ASSUME NEW u \in Threads, NEW c \in Contexts, ReleaseContext(u, c) PROVE BindInv'
  <2>1. KeepsRuns
    BY <1>9, <1>a, SMT DEF ReleaseContext, Erase, Goto, TypeOK, KeepsRuns, Registered
  <2> QED BY <2>1, KeepsRunsKeepsBindInv
<1>10. ASSUME NEW u \in Threads, CloseSession(u) PROVE BindInv'
  <2>1. KeepsRuns
    BY <1>10 DEF CloseSession, Goto, allocatorVars, TypeOK, KeepsRuns, Registered
  <2> QED BY <2>1, KeepsRunsKeepsBindInv
<1>14. ASSUME NEW u \in Threads, DropRecord(u) PROVE BindInv'
  <2>1. pc[u] = "droprecord" /\ UNCHANGED << mem_handles, context_map, tensor >>
    BY <1>14 DEF DropRecord
  <2>2. /\ \A v \in Threads : v # u => pc'[v] = pc[v]
        /\ pc'[u] \in {"dropmanager", "destroy"}
    BY <1>14 DEF DropRecord, Goto, TypeOK
  <2>3. /\ \A c \in Contexts : record'[c] = "alive" => record[c] = "alive"
        /\ \A c \in context_map : record'[c] = record[c]
    BY <1>14 DEF DropRecord, TypeOK
  <2>4. KeepsRuns
    BY <1>a, <2>1, <2>2, <2>3 DEF KeepsRuns, Registered
  <2> QED BY <2>4, KeepsRunsKeepsBindInv
<1>11. ASSUME NEW u \in Threads, Destroy(u) PROVE BindInv'
  <2>1. held[u][1] \in Contexts /\ record[held[u][1]] # "alive" /\ held[u][1] \notin context_map
    BY <1>11 DEF Destroy, LifeInv, ThreadLife, BindInv
  <2>2. /\ \A c \in Contexts : c = held[u][1] \/ (record'[c] = record[c] /\ mem_handles'[c] = mem_handles[c])
        /\ record'[held[u][1]] # "alive" /\ context_map \subseteq Contexts
        /\ \A v \in Threads : pc[v] \in {"addcleanup", "executing"} => tensor[v].context \in Contexts
        /\ \A v \in Threads : v # u => pc'[v] = pc[v]
        /\ pc'[u] \in {"teardown", "dropmanager", "idle"}
        /\ UNCHANGED << context_map, tensor >>
    BY <1>11, <2>1 DEF Destroy, Goto, TypeOK, BlockInv, Binding, Tensors
  <2>3. KeepsRuns
    BY <2>1, <2>2 DEF KeepsRuns, Binding, Registered
  <2> QED BY <2>3, KeepsRunsKeepsBindInv
<1> QED BY <1>0, <1>1, <1>2, <1>3, <1>4, <1>5, <1>6, <1>7, <1>8, <1>9, <1>10,
     <1>11, <1>12, <1>13, <1>14 DEF Next

\* Every step of Next leaves every callback its handle.
LEMMA CallInvStep ==
    ASSUME MemInv, CallInv, BindInv, [Next]_vars
    PROVE  CallInv'
<1>0. CASE UNCHANGED vars
  <2>1. Still
    BY <1>0 DEF vars, allocatorVars, recordVars, freeVars, Still, Running
  <2> QED BY <2>1, StillKeepsCallInv
<1>1. ASSUME NEW t \in Threads, GetOrRegister(t) PROVE CallInv'
  BY <1>1, RegisterKeepsCallInv, StillSteps, StillKeepsCallInv
<1>2. ASSUME NEW t \in Threads,
             \/ AddAllocationCleanUp(t) \/ CleanUpLockManager(t) \/ Unregister(t)
             \/ \E b \in Blocks : Alloc(t, b) \/ FreeImpl(t, b)
      PROVE  CallInv'
  BY <1>2, AllocKeepsCallInv, FreeKeepsCallInv, AddKeepsCallInv, LockKeepsCallInv,
     UnregisterKeepsCallInv
<1>3. ASSUME NEW t \in Threads,
             \/ \E c \in Contexts, p \in Within, s \in Sizes : BindQnnTensor(t, c, p, s)
             \/ GetOrRegisterErased(t) \/ Execute(t)
             \/ UnregisterAllocation(t) \/ CleanUpLockRecord(t) \/ FreeImplReturns(t)
             \/ RecoverFromSSR(t) \/ \E c \in Contexts : ReleaseContext(t, c)
             \/ DropRecord(t) \/ Destroy(t) \/ DropManager(t) \/ CloseSession(t)
             \/ ManagerGone(t)
      PROVE  CallInv'
  BY <1>3, StillSteps, StillKeepsCallInv
<1> QED BY <1>0, <1>1, <1>2, <1>3 DEF Next

\* Every callback that is still to come has its handle, and every run its
\* registration.
THEOREM CallInvHolds == Spec => [](CallInv /\ BindInv)
<1>1. Init => CallInv /\ BindInv
  BY SMT DEF Init, CallInv, CallbackInv, AddInv, PendingInv, Pending, Listed,
     BindInv, Binding, Running
<1>2. MemInv /\ CallInv /\ BindInv /\ [Next]_vars => (CallInv /\ BindInv)'
  BY CallInvStep, BindInvStep
<1> QED BY <1>1, <1>2, MemInvHolds, PTL DEF Spec

\* A clean-up callback never fails with "No mem handle found for address", for
\* any threads, contexts and addresses and in any order of frees and releases.
THEOREM UnregisterFindsHandleHolds == Spec => []UnregisterFindsHandle
<1>1. MemInv /\ CallInv => UnregisterFindsHandle
  <2> SUFFICES ASSUME MemInv, CallInv, NEW t \in Threads, pc[t] = "unregister"
               PROVE  \E h \in mem_handles[held[t][1]] : h.address = held[t][2]
    BY DEF UnregisterFindsHandle
  <2>1. /\ held[t] \in CleanUps /\ record[held[t][1]] = "alive" /\ manager = "alive"
        /\ freeing[t] # NoBlock
    BY DEF MemInv, LifeInv, ThreadLife, LocksManager, BlockInv, Freeing
  <2>2. held[t][1] \in Contexts /\ held[t][2] \in Within /\ held[t] = << held[t][1], held[t][2] >>
    BY <2>1, SMT DEF CleanUps
  <2>3. Pending(held[t][1], held[t][2])
    BY <2>1, <2>2 DEF Pending, Running
  <2> QED BY <2>1, <2>2, <2>3 DEF CallInv, PendingInv
<1> QED BY <1>1, MemInvHolds, CallInvHolds, PTL

\* A run executes with a handle of its context, for its address, for at least
\* its size and for memory that is allocated, whatever the other threads free,
\* as long as no recovery has released the context.
THEOREM BoundTensorsRegisteredHolds == Spec => []BoundTensorsRegistered
<1>1. MemInv /\ HandleInv /\ BindInv => BoundTensorsRegistered
  <2> SUFFICES ASSUME MemInv, HandleInv, BindInv, NEW t \in Threads, pc[t] = "executing",
                      tensor[t].context \in context_map
               PROVE  \E h \in mem_handles[tensor[t].context] :
                          /\ h.address = tensor[t].address
                          /\ h.size >= tensor[t].size
                          /\ h.block \in allocations
                          /\ Covers(h.block, tensor[t].address)
    BY DEF BoundTensorsRegistered
  <2>1. PICK h \in mem_handles[tensor[t].context] :
            h.address = tensor[t].address /\ h.size >= tensor[t].size
    BY DEF BindInv, Registered
  <2>2. /\ tensor[t] \in Tensors /\ tensor[t].context \in Contexts /\ tensor[t].address \in Nat
        /\ manager = "alive" /\ record[tensor[t].context] = "alive"
    BY WithinNat DEF MemInv, BlockInv, Binding, Tensors, LifeInv, ThreadLife,
       BindInv
  <2>3. /\ Covers(h.block, h.address) /\ h.block \in Blocks
        /\ AllocationHasCallback(tensor[t].context, h) \/ FreeHasCallback(tensor[t].context, h)
    BY <2>2, SMT DEF HandleInv, MemInv, TypeOK, MemHandles
  <2>4. PICK b \in allocations : Covers(b, tensor[t].address)
    BY DEF MemInv, BlockInv, Binding
  <2>5. CASE FreeHasCallback(tensor[t].context, h)
    <3>1. h.block \in memory \ allocations /\ b \in memory
      BY <2>3, <2>5, BlockFields DEF FreeHasCallback, MemInv, BlockInv
    <3> QED BY <2>1, <2>2, <2>3, <2>4, <3>1, OneBlockPerAddress
  <2> QED BY <2>1, <2>3, <2>5 DEF AllocationHasCallback
<1> QED BY <1>1, MemInvHolds, HandleInvHolds, CallInvHolds, PTL
====
