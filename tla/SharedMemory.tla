---------------------------- MODULE SharedMemory ----------------------------
(***************************************************************************)
(* Zero-copy tensor memory: HtpSharedMemoryAllocator and its               *)
(* AllocationTracker (qnn_allocator.cc), QnnContextMemHandleManager        *)
(* (builder/qnn_context_mem_handle_manager.cc) and the context records of  *)
(* QnnBackendManager that tie them together.                               *)
(*                                                                         *)
(* A thread allocates shared memory, binds a tensor inside it to a context *)
(* and executes, frees shared memory, or ends the session.  A run that     *)
(* meets a subsystem restart (SSR) releases its context, whoever else uses *)
(* it.  Binding registers a mem handle with the context and leaves a       *)
(* callback in the allocation that unregisters it; the callback reaches    *)
(* the manager and the context's record through weak_ptrs.  The last owner *)
(* of a record or of the manager destroys it, in steps: from the moment    *)
(* the count is 0 no weak_ptr can be locked, the handles go afterwards.    *)
(*                                                                         *)
(* A block of memory is the record of its base and size, so a block can be *)
(* allocated again.  A context is used once; the context that a recovery   *)
(* creates is one of Contexts that no run has bound yet, and the retry of  *)
(* the run is a new bind.  Dx12SharedMemoryAllocator has the same          *)
(* structure.  The application keeps to what the comment in                *)
(* GetOrRegisterContextMemHandle assumes, that memory is not freed while a *)
(* run binds or uses it, and ends a session only when no run is in it.     *)
(***************************************************************************)
EXTENDS Naturals, Sequences

CONSTANTS
    Threads,
    Contexts,     \* context handles, in context_map_ from the start
    Addresses,    \* 0 .. n: where a block of shared memory may begin
    Sizes         \* sizes of blocks and of tensors

ASSUME SharedMemoryAssumption ==
    /\ Addresses \subseteq Nat
    /\ Sizes \subseteq Nat \ {0}

Blocks == [base : Addresses, size : Sizes]
NoBlock == [base |-> 0, size |-> 0]

Covers(b, p) == b.base <= p /\ p < b.base + b.size
Within == UNION {b.base .. b.base + b.size - 1 : b \in Blocks}
Overlap(b, d) == b.base < d.base + d.size /\ d.base < b.base + b.size

VARIABLES
    memory,        \* the blocks that rpcmem has handed out
    allocations,   \* the blocks in HtpSharedMemoryAllocator::allocations_
    clean_up_fns,  \* clean_up_fns[b]: AllocationRecord::clean_up_fns, as
                   \* <<context, memory_address>> of the callbacks
    tracked,       \* the blocks in AllocationTracker::records_
    mem_handles,   \* mem_handles[c]: what is registered with the context
    context_map,   \* the contexts that context_map_ owns
    record,        \* record[c]: "alive", "dying" (its count is 0) or "gone"
    session,       \* the session still owns the manager
    manager,       \* "alive", "dying" or "gone"
    pc,
    tensor,        \* tensor[t]: what t binds
    freeing,       \* freeing[t]: the block whose record t has extracted
    node,          \* node[t]: the callbacks of that record still to run
    held           \* held[t]: <<context, memory_address>> of the callback
                   \* that has locked its weak_ptrs, or the context t destroys

allocatorVars == << memory, allocations, clean_up_fns, tracked >>
recordVars == << context_map, record, session, manager >>
freeVars == << freeing, node, held >>
vars == << allocatorVars, mem_handles, recordVars, pc, tensor, freeVars >>

\* What a mem handle names: the address and size it was registered for, and
\* the block whose fd went into the descriptor.
MemHandles == [address : Within, size : Sizes, block : Blocks]
Tensors == [context : Contexts, address : Within, size : Sizes]
NoTensor == [context |-> "none", address |-> 0, size |-> 0]
CleanUps == Contexts \X Within
Nothing == << "none", 0 >>

Pc == {"idle", "register", "addcleanup", "executing", "recover", "untrack",
       "cleanup", "lockrecord", "unregister", "droprecord", "destroy",
       "dropmanager", "teardown"}

\* Types of all variables.
TypeOK ==
    /\ memory \subseteq Blocks
    /\ allocations \subseteq Blocks
    /\ clean_up_fns \in [Blocks -> Seq(CleanUps)]
    /\ tracked \subseteq Blocks
    /\ mem_handles \in [Contexts -> SUBSET MemHandles]
    /\ context_map \subseteq Contexts
    /\ record \in [Contexts -> {"alive", "dying", "gone"}]
    /\ session \in BOOLEAN
    /\ manager \in {"alive", "dying", "gone"}
    /\ pc \in [Threads -> Pc]
    /\ tensor \in [Threads -> Tensors \cup {NoTensor}]
    /\ freeing \in [Threads -> Blocks \cup {NoBlock}]
    /\ node \in [Threads -> Seq(CleanUps)]
    /\ held \in [Threads -> CleanUps \cup (Contexts \X {0}) \cup {Nothing}]

\* Every context has been created and added (AddQnnContextHandle).
Init ==
    /\ memory = {}
    /\ allocations = {}
    /\ clean_up_fns = [b \in Blocks |-> << >>]
    /\ tracked = {}
    /\ mem_handles = [c \in Contexts |-> {}]
    /\ context_map = Contexts
    /\ record = [c \in Contexts |-> "alive"]
    /\ session = TRUE
    /\ manager = "alive"
    /\ pc = [t \in Threads |-> "idle"]
    /\ tensor = [t \in Threads |-> NoTensor]
    /\ freeing = [t \in Threads |-> NoBlock]
    /\ node = [t \in Threads |-> << >>]
    /\ held = [t \in Threads |-> Nothing]

Goto(t, l) == pc' = [pc EXCEPT ![t] = l]

-----------------------------------------------------------------------------
\* As LookUp, with the comparison to the end of the block off by one.
LookUpPastEnd(p) ==
    LET below == {b \in tracked : b.base <= p}
        last == CHOOSE b \in below : \A d \in below : d.base <= b.base
    IN  IF below = {} \/ p > last.base + last.size THEN NoBlock ELSE last

\* AllocationTracker::LookUp: the record before upper_bound(p), the one with the
\* greatest base address that is not above p, if p is before its end.
LookUp(p) ==
    LET below == {b \in tracked : b.base <= p}
        last == CHOOSE b \in below : \A d \in below : d.base <= b.base
    IN  IF below = {} \/ p >= last.base + last.size THEN NoBlock ELSE last

\* AllocImpl: rpcmem hands out a block, which is put into allocations_ and
\* registered with the tracker.  One step: until it returns nobody knows the
\* address.  A failed allocation throws and changes nothing.
Alloc(t, b) ==
    /\ pc[t] = "idle"
    /\ \A d \in memory : ~Overlap(b, d)
    /\ memory' = memory \cup {b}
    /\ allocations' = allocations \cup {b}
    /\ clean_up_fns' = [clean_up_fns EXCEPT ![b] = << >>]
    /\ tracked' = tracked \cup {b}
    /\ UNCHANGED << mem_handles, recordVars, pc, tensor, freeVars >>

\* The run t makes uses the address p.
Binding(t) == pc[t] \in {"register", "addcleanup", "executing", "recover"}
InUse(b) == \E t \in Threads : Binding(t) /\ Covers(b, tensor[t].address)

-----------------------------------------------------------------------------
\* BindQnnTensorMemoryToOrtValueMemory: a tensor inside an allocation that the
\* application holds.  An address that is not tracked is bound as clientBuf, and
\* a context that context_map_ does not hold fails the run.
BindQnnTensor(t, c, p, s) ==
    /\ pc[t] = "idle"
    /\ session
    /\ c \in context_map
    /\ \E b \in allocations : Covers(b, p) /\ p + s <= b.base + b.size
    /\ LookUp(p) # NoBlock
    /\ tensor' = [tensor EXCEPT ![t] = [context |-> c, address |-> p, size |-> s]]
    /\ Goto(t, "register")
    /\ UNCHANGED << allocatorVars, mem_handles, recordVars, freeVars >>

\* The run ends, with an error or after execution.
RunReturns(t) ==
    /\ tensor' = [tensor EXCEPT ![t] = NoTensor]
    /\ Goto(t, "idle")

\* The handle that is registered with the tensor's context at its address.
Existing(t) == {h \in mem_handles[tensor[t].context] : h.address = tensor[t].address}

\* GetOrRegister finds no handle and registers the tensor: memRegister gets the
\* fd of the block, and only then the map gets the handle.
Register(t) ==
    LET x == tensor[t]
    IN  /\ Existing(t) = {}
        /\ LookUp(x.address) # NoBlock
        /\ mem_handles' = [mem_handles EXCEPT ![x.context] = @ \cup
               {[address |-> x.address, size |-> x.size, block |-> LookUp(x.address)]}]
        /\ Goto(t, "addcleanup")
        /\ UNCHANGED tensor

\* As GetOrRegister without the check of the tensor against the handle's size.
GetOrRegisterAnySize(t) ==
    /\ pc[t] = "register"
    /\ record[tensor[t].context] = "alive"
    /\ \/ Existing(t) # {} /\ Goto(t, "executing") /\ UNCHANGED << mem_handles, tensor >>
       \/ Existing(t) = {} /\ RunReturns(t) /\ UNCHANGED mem_handles
       \/ Register(t)
    /\ UNCHANGED << allocatorVars, recordVars, freeVars >>

\* As GetOrRegister, but did_register is true for a handle that was found.
GetOrRegisterAlwaysNew(t) ==
    /\ pc[t] = "register"
    /\ record[tensor[t].context] = "alive"
    /\ \/ Existing(t) # {} /\ Goto(t, "addcleanup") /\ UNCHANGED << mem_handles, tensor >>
       \/ Register(t)
    /\ UNCHANGED << allocatorVars, recordVars, freeVars >>

\* QnnContextMemHandleManager::GetOrRegister, under mem_handles_mutex_: a handle
\* for the address is used if the tensor is not larger than it, and otherwise
\* the run fails; without one the tensor is registered, unless the memory is
\* not found or memRegister fails.
GetOrRegister(t) ==
    /\ pc[t] = "register"
    /\ record[tensor[t].context] = "alive"
    /\ \/ /\ \E h \in Existing(t) : tensor[t].size <= h.size
          /\ Goto(t, "executing")
          /\ UNCHANGED << mem_handles, tensor >>
       \/ /\ \E h \in Existing(t) : tensor[t].size > h.size
          /\ RunReturns(t)
          /\ UNCHANGED mem_handles
       \/ /\ Existing(t) = {}
          /\ RunReturns(t)
          /\ UNCHANGED mem_handles
       \/ Register(t)
    /\ UNCHANGED << allocatorVars, recordVars, freeVars >>

\* GetOrRegister through the reference to an entry of context_map_ that a
\* recovery has erased since it was found: undefined behaviour, which ends the
\* run or lets it go on without a handle.
GetOrRegisterErased(t) ==
    /\ pc[t] = "register"
    /\ tensor[t].context \notin context_map
    /\ RunReturns(t) \/ (Goto(t, "executing") /\ UNCHANGED tensor)
    /\ UNCHANGED << allocatorVars, mem_handles, recordVars, freeVars >>

\* AddAllocationCleanUp: the tracker finds the allocation, which gets the
\* callback.
AddAllocationCleanUp(t) ==
    LET x == tensor[t]
        b == LookUp(x.address)
    IN  /\ pc[t] = "addcleanup"
        /\ b \in allocations
        /\ clean_up_fns' = [clean_up_fns EXCEPT ![b] = Append(@, << x.context, x.address >>)]
        /\ Goto(t, "executing")
        /\ UNCHANGED << memory, allocations, tracked, mem_handles, recordVars, tensor, freeVars >>

\* graphExecute returns, with the error of a subsystem restart perhaps.
Execute(t) ==
    /\ pc[t] = "executing"
    /\ RunReturns(t) \/ (Goto(t, "recover") /\ UNCHANGED tensor)
    /\ UNCHANGED << allocatorVars, mem_handles, recordVars, freeVars >>

-----------------------------------------------------------------------------
\* As FreeImpl, with the memory given back before the callbacks have run.
FreeImplGivesBackFirst(t, b) ==
    /\ pc[t] = "idle"
    /\ b \in allocations
    /\ ~InUse(b)
    /\ memory' = memory \ {b}
    /\ allocations' = allocations \ {b}
    /\ freeing' = [freeing EXCEPT ![t] = b]
    /\ node' = [node EXCEPT ![t] = clean_up_fns[b]]
    /\ clean_up_fns' = [clean_up_fns EXCEPT ![b] = << >>]
    /\ Goto(t, "untrack")
    /\ UNCHANGED << tracked, mem_handles, recordVars, tensor, held >>

\* FreeImpl extracts the allocation's record under allocations_mutex_.
FreeImpl(t, b) ==
    /\ pc[t] = "idle"
    /\ b \in allocations
    /\ ~InUse(b)
    /\ allocations' = allocations \ {b}
    /\ freeing' = [freeing EXCEPT ![t] = b]
    /\ node' = [node EXCEPT ![t] = clean_up_fns[b]]
    /\ clean_up_fns' = [clean_up_fns EXCEPT ![b] = << >>]
    /\ Goto(t, "untrack")
    /\ UNCHANGED << memory, tracked, mem_handles, recordVars, tensor, held >>

\* ... and unregisters it with the tracker.
UnregisterAllocation(t) ==
    /\ pc[t] = "untrack"
    /\ tracked' = tracked \ {freeing[t]}
    /\ Goto(t, "cleanup")
    /\ UNCHANGED << memory, allocations, clean_up_fns, mem_handles, recordVars, tensor, freeVars >>

\* The next callback locks its weak_ptr to the manager, or returns at once if
\* the manager has no owner any more.
CleanUpLockManager(t) ==
    /\ pc[t] = "cleanup"
    /\ node[t] # << >>
    /\ node' = [node EXCEPT ![t] = Tail(@)]
    /\ IF manager = "alive"
       THEN held' = [held EXCEPT ![t] = Head(node[t])] /\ Goto(t, "lockrecord")
       ELSE UNCHANGED << held, pc >>
    /\ UNCHANGED << allocatorVars, mem_handles, recordVars, tensor, freeing >>

\* Then the one to the record; without an owner of that the callback returns,
\* and drops the manager.
CleanUpLockRecord(t) ==
    /\ pc[t] = "lockrecord"
    /\ Goto(t, IF record[held[t][1]] = "alive" THEN "unregister" ELSE "dropmanager")
    /\ UNCHANGED << allocatorVars, mem_handles, recordVars, tensor, freeVars >>

\* QnnContextMemHandleManager::Unregister erases the address's handle.
Unregister(t) ==
    LET c == held[t][1]
        p == held[t][2]
    IN  /\ pc[t] = "unregister"
        /\ mem_handles' = [mem_handles EXCEPT ![c] = {h \in @ : h.address # p}]
        /\ Goto(t, "droprecord")
        /\ UNCHANGED << allocatorVars, recordVars, tensor, freeVars >>

\* FreeImpl ends: the unique_ptr gives the memory back to rpcmem.
FreeImplReturns(t) ==
    /\ pc[t] = "cleanup"
    /\ node[t] = << >>
    /\ memory' = memory \ {freeing[t]}
    /\ freeing' = [freeing EXCEPT ![t] = NoBlock]
    /\ Goto(t, "idle")
    /\ UNCHANGED << allocations, clean_up_fns, tracked, mem_handles, recordVars, tensor, node, held >>

-----------------------------------------------------------------------------
\* Threads whose callback owns the record of c, and threads whose callback owns
\* the manager.
LocksRecord(t, c) == pc[t] \in {"unregister", "droprecord"} /\ held[t][1] = c
LocksManager(t) ==
    \/ pc[t] \in {"lockrecord", "unregister", "droprecord", "dropmanager"}
    \/ pc[t] = "destroy" /\ freeing[t] # NoBlock /\ manager = "alive"

\* Erase for a raw pointer in the callback in place of the weak_ptr.
EraseIgnoresOwners(t, c, l) ==
    /\ context_map' = context_map \ {c}
    /\ record' = [record EXCEPT ![c] = "dying"]
    /\ held' = [held EXCEPT ![t] = << c, 0 >>]
    /\ Goto(t, "destroy")

\* Erase c from context_map_; with no other owner the record is destroyed by t.
Erase(t, c, l) ==
    /\ context_map' = context_map \ {c}
    /\ IF \E u \in Threads : LocksRecord(u, c)
       THEN Goto(t, l) /\ UNCHANGED << record, held >>
       ELSE /\ record' = [record EXCEPT ![c] = "dying"]
            /\ held' = [held EXCEPT ![t] = << c, 0 >>]
            /\ Goto(t, "destroy")

\* t is inside ReleaseSpecificContextHandle, with GetContextRecoveryMutex.
Recovering(t) == pc[t] = "destroy" /\ freeing[t] = NoBlock /\ manager = "alive"

\* RecoverFromSSR, under GetContextRecoveryMutex: ReleaseSpecificContextHandle of
\* the run's context, whatever sibling runs are bound to it.  When another model
\* has released it already, there is nothing to release.
RecoverFromSSR(t) ==
    LET c == tensor[t].context
    IN  /\ pc[t] = "recover"
        /\ ~\E u \in Threads : Recovering(u)
        /\ \/ c \in context_map /\ Erase(t, c, "idle")
           \/ /\ c \notin context_map
              /\ Goto(t, "idle")
              /\ UNCHANGED << context_map, record, held >>
        /\ tensor' = [tensor EXCEPT ![t] = NoTensor]
        /\ UNCHANGED << allocatorVars, mem_handles, session, manager, freeing, node >>

\* The callback's shared_ptr to the record goes out of scope.
DropRecord(t) ==
    LET c == held[t][1]
    IN  /\ pc[t] = "droprecord"
        /\ IF c \in context_map \/ \E u \in Threads \ {t} : LocksRecord(u, c)
           THEN UNCHANGED record /\ Goto(t, "dropmanager")
           ELSE record' = [record EXCEPT ![c] = "dying"] /\ Goto(t, "destroy")
        /\ UNCHANGED << allocatorVars, mem_handles, context_map, session, manager, tensor, freeVars >>

\* The record's destructor: mem_handles is declared last and destroyed first,
\* so every handle is unregistered (Clear) before contextFree.
Destroy(t) ==
    LET c == held[t][1]
    IN  /\ pc[t] = "destroy"
        /\ mem_handles' = [mem_handles EXCEPT ![c] = {}]
        /\ record' = [record EXCEPT ![c] = "gone"]
        /\ held' = IF manager = "alive" /\ freeing[t] # NoBlock
                   THEN held ELSE [held EXCEPT ![t] = Nothing]
        /\ Goto(t, CASE manager = "dying" -> "teardown"
                     [] manager # "dying" /\ freeing[t] # NoBlock -> "dropmanager"
                     [] OTHER -> "idle")
        /\ UNCHANGED << allocatorVars, context_map, session, manager, tensor, freeing, node >>

\* The callback's shared_ptr to the manager goes out of scope, after the one to
\* the record; the last owner runs ~QnnBackendManager.
DropManager(t) ==
    /\ pc[t] = "dropmanager"
    /\ held' = [held EXCEPT ![t] = Nothing]
    /\ IF session \/ \E u \in Threads \ {t} : LocksManager(u)
       THEN UNCHANGED manager /\ Goto(t, "cleanup")
       ELSE manager' = "dying" /\ Goto(t, "teardown")
    /\ UNCHANGED << allocatorVars, mem_handles, context_map, record, session, tensor, freeing, node >>

\* The session ends (no call on it is in progress) and drops its shared_ptr.
CloseSession(t) ==
    /\ pc[t] = "idle"
    /\ session
    /\ ~\E u \in Threads : Binding(u) \/ Recovering(u)
    /\ session' = FALSE
    /\ IF \E u \in Threads : LocksManager(u)
       THEN UNCHANGED << manager, pc >>
       ELSE manager' = "dying" /\ Goto(t, "teardown")
    /\ UNCHANGED << allocatorVars, mem_handles, context_map, record, tensor, freeVars >>

\* ~QnnBackendManager: ReleaseContext clears context_map_, record by record.
ReleaseContext(t, c) ==
    /\ pc[t] = "teardown"
    /\ c \in context_map
    /\ Erase(t, c, "teardown")
    /\ UNCHANGED << allocatorVars, mem_handles, session, manager, tensor, freeing, node >>

\* ... and the rest of ReleaseResources ends the manager.
ManagerGone(t) ==
    /\ pc[t] = "teardown"
    /\ context_map = {}
    /\ manager' = "gone"
    /\ Goto(t, IF freeing[t] # NoBlock THEN "cleanup" ELSE "idle")
    /\ UNCHANGED << allocatorVars, mem_handles, context_map, record, session, tensor, freeVars >>

Next ==
    \E t \in Threads :
        \/ \E b \in Blocks : Alloc(t, b) \/ FreeImpl(t, b)
        \/ \E c \in Contexts, p \in Within, s \in Sizes : BindQnnTensor(t, c, p, s)
        \/ GetOrRegister(t)
        \/ GetOrRegisterErased(t)
        \/ AddAllocationCleanUp(t)
        \/ Execute(t)
        \/ UnregisterAllocation(t)
        \/ CleanUpLockManager(t)
        \/ CleanUpLockRecord(t)
        \/ Unregister(t)
        \/ FreeImplReturns(t)
        \/ RecoverFromSSR(t)
        \/ \E c \in Contexts : ReleaseContext(t, c)
        \/ DropRecord(t)
        \/ Destroy(t)
        \/ DropManager(t)
        \/ CloseSession(t)
        \/ ManagerGone(t)

Spec == Init /\ [][Next]_vars

-----------------------------------------------------------------------------
\* FreeImpl gives memory back last: whatever names a block (allocations_, the
\* tracker, a mem handle of a live context) names memory rpcmem has not handed
\* out again.  This is what AllocImpl's two "already exists" errors and the fd
\* in a mem handle rely on.
NothingNamesFreedMemory ==
    /\ allocations \cup tracked \subseteq memory
    /\ \A c \in Contexts :
           manager = "alive" /\ record[c] = "alive" =>
               \A h \in mem_handles[c] : h.block \in memory

\* LookUp by upper_bound finds, for every address, the tracked block around it,
\* and nothing between blocks or past the last one, whatever has been allocated
\* and freed in whatever order.
LookUpFindsAllocation ==
    \A p \in Within :
        LET around == {b \in tracked : Covers(b, p)}
        IN  IF around = {} THEN LookUp(p) = NoBlock ELSE around = {LookUp(p)}

\* A run executes with a handle that is registered with its context, for its
\* address, for at least its size and for memory it may touch, whatever other
\* threads free meanwhile, unless a sibling's recovery from a subsystem restart
\* has released the context under it (RecoverFromSSR, qnn_model.cc:578): nothing
\* keeps the record alive for the runs that are bound to it.
BoundTensorsRegistered ==
    \A t \in Threads : pc[t] = "executing" /\ tensor[t].context \in context_map =>
        \E h \in mem_handles[tensor[t].context] :
            /\ h.address = tensor[t].address
            /\ h.size >= tensor[t].size
            /\ h.block \in allocations
            /\ Covers(h.block, tensor[t].address)

\* A callback never fails with "No mem handle found for address": each handle
\* has one callback, and only it unregisters the handle of a live context.
UnregisterFindsHandle ==
    \A t \in Threads : pc[t] = "unregister" =>
        \E h \in mem_handles[held[t][1]] : h.address = held[t][2]

\* A callback works on a record and a manager that exist, and whoever destroys a
\* record (contextFree goes through the manager's interface) does it before the
\* manager is gone.
CleanUpOnLiveRecord ==
    \A t \in Threads :
        /\ LocksManager(t) => manager = "alive"
        /\ pc[t] \in {"unregister", "droprecord"} => record[held[t][1]] = "alive"
        /\ pc[t] = "destroy" => manager # "gone"
=============================================================================
