--------------------------- MODULE BackendManager ---------------------------
(***************************************************************************)
(* What QnnBackendManager owns and how it takes it apart: the backend      *)
(* library and the objects made through it (log, backend, device, their    *)
(* validator twins, profile handle, DLC plugin), the contexts, the table   *)
(* from EPContext nodes to contexts, and the DMA buffers that file mapping *)
(* registers with RPCMEM.  Set-up is a list of steps, any of which may     *)
(* fail; a failure runs ReleaseResources, in which any single free may     *)
(* fail too.  SetupBackend holds logger_recursive_mutex_ and is one        *)
(* action.  A recovery on a manager that several sessions share does not   *)
(* hold it and a compatibility probe holds it only while it sets up, so    *)
(* each of their calls is an action of its own.                            *)
(*                                                                         *)
(* The manager's members are the fields of `m`.  An object is recorded by  *)
(* the serial number of the library load it was made under; 0 stands for   *)
(* the flag or null pointer that says it does not exist.                   *)
(***************************************************************************)
EXTENDS Integers, Sequences, FiniteSets

CONSTANTS
  Modes,          \* subset of {"plain", "serializer", "multi_soc"}
  Files,          \* context binary files
  NodesOf,        \* file -> keys of ep_context_handle_map_ it provides
  SocCount,       \* entries of soc_model_per_soc_
  MaxLoads,       \* bound on library loads
  MaxContexts     \* bound on contexts ever made

Objects == {"log", "backend", "device", "vlog", "vbackend", "vdevice",
            "profile", "dlc"}

OfValidator == {"vlog", "vbackend", "vdevice"}

ASSUME BackendAssumption ==
  /\ Modes \subseteq {"plain", "serializer", "multi_soc"}
  /\ IsFiniteSet(Files)
  /\ DOMAIN NodesOf = Files
  /\ SocCount \in Nat /\ MaxLoads \in Nat /\ MaxContexts \in Nat

VARIABLES
  mode,     \* which of the three kinds of session owns the manager
  m,        \* the members of QnnBackendManager
  power,    \* load serial of the device that htp_power_config_id_ belongs to, or 0
  soc,      \* index of the SoC being compiled, 0 outside the loop
  leaving,  \* what the destructor of the SoC's scope has still to do
  dlc,      \* contexts appended to the DLC so far
  probe,    \* a compatibility probe: "none", "begun", or "up" after its set-up
  recovering, \* a recovery has released a context and not yet made a new one
  served,   \* history: keys that a set-up in the shared mode has reported ready
            \* and that no recovery or probe has taken away since
  stuck,    \* history: a free of an object has failed
  torn      \* history: a mapped load has failed

vars == <<mode, m, power, soc, leaving, dlc, probe, recovering, served,
          stuck, torn>>

Empty == [x \in {} |-> 0]

Serializer == mode = "serializer"   \* qnn_serializer_config_ is set
MultiSoc == mode = "multi_soc"      \* one binary prepared for several SoCs

Init ==
  /\ mode \in Modes
  /\ m = [lib |-> 0, vlib |-> 0, loaded |-> FALSE, loads |-> 0, sys |-> FALSE,
          made |-> [o \in Objects |-> 0], target |-> 0, deviceSoc |-> 0,
          contexts |-> {}, next |-> 1, created |-> FALSE, nodeCtx |-> Empty,
          buffers |-> {}, mapping |-> FALSE, mapper |-> FALSE,
          share |-> FALSE, partial |-> FALSE, setup |-> FALSE]
  /\ power = 0 /\ soc = 0 /\ leaving = <<>> /\ dlc = <<>>
  /\ probe = "none" /\ recovering = FALSE
  /\ served = {} /\ stuck = FALSE /\ torn = FALSE

-----------------------------------------------------------------------------
(* Contexts                                                                *)

Ids(s) == {c.id : c \in s.contexts}

\* emplace keeps an existing entry: f where both are defined.
Emplace(f, g) == [x \in DOMAIN f \cup DOMAIN g |->
                    IF x \in DOMAIN f THEN f[x] ELSE g[x]]

\* The orders in which the files fs may be met, as numbers from n on.
Numberings(n, fs) ==
  {ord \in [fs -> n..(n + Cardinality(fs) - 1)] :
     \A f, g \in fs : ord[f] = ord[g] => f = g}

\* The entries that emplacing the context of[f] for all nodes of the files f in
\* the order ord adds to an empty table.
Entries(fs, ord, of) ==
  {t \in [UNION {NodesOf[f] : f \in fs} -> {of[f] : f \in fs}] :
     \A n \in DOMAIN t : \E f \in fs :
        /\ n \in NodesOf[f] /\ t[n] = of[f]
        /\ \A g \in fs : n \in NodesOf[g] => ord[f] <= ord[g]}

\* AddQnnContextHandle: the new handle joins context_map_ and contexts_.  A
\* context that was loaded from a file can be loaded again after a crash.
Context(s, id, mapped, disk) ==
  [id |-> id, lib |-> s.lib, soc |-> s.deviceSoc, mapped |-> mapped, disk |-> disk]

AddQnnContextHandle(s, mapped, disk) ==
  [s EXCEPT !.next = @ + 1,
            !.contexts = @ \cup {Context(s, s.next, mapped, disk)},
            !.buffers = IF mapped THEN @ \cup {s.next} ELSE @]

\* The CONTEXT_INIT callbacks of the binaries fs of a list, which come in any
\* order.  A mapped context has its weights registered by MapDmaData before.
ProcessContextFromBinListAsync(s, fs, mapped) ==
  UNION {{[s EXCEPT !.next = @ + Cardinality(fs),
                    !.contexts = @ \cup {Context(s, id[f], mapped, TRUE) : f \in fs},
                    !.nodeCtx = Emplace(@, t),
                    !.buffers = IF mapped THEN @ \cup {id[f] : f \in fs} ELSE @,
                    !.created = @ \/ fs # {}]
            : t \in Entries(fs, id, id)} : id \in Numberings(s.next, fs)}

\* kept: the registrations that RPCMEM refuses to undo.
DeallocateMappedDmaBuffers(s, kept) == [s EXCEPT !.buffers = @ \cap kept]

\* The binaries got are loaded; the call fails unless they are all of fs.
CreateContextFromListAsync(s, fs, failed) ==
  UNION {{[ok |-> got = fs, s |-> t, torn |-> failed]
            : t \in ProcessContextFromBinListAsync(s, got, FALSE)} : got \in SUBSET fs}

\* What a list load with file mapped weights leaves when QNN fails.
CreateContextFromListAsyncWithCallback(s, fs) ==
  UNION {{DeallocateMappedDmaBuffers(t, kept) : kept \in SUBSET t.buffers}
           : t \in UNION {ProcessContextFromBinListAsync(s, got, TRUE) : got \in SUBSET fs}}

\* A mapped attempt, if the feature is on, and a plain one if that fails.  A
\* binary older than 3.3.3 stops the mapped attempt before QNN is called.
CreateContextVtcmBackupBufferSharingEnabled(s, fs) ==
  CreateContextFromListAsync(s, fs, FALSE)
  \cup IF ~ (s.mapping /\ s.mapper) THEN {}
       ELSE {[ok |-> TRUE, s |-> t, torn |-> FALSE]
               : t \in ProcessContextFromBinListAsync(s, fs, TRUE)}
            \cup UNION {CreateContextFromListAsync(t, fs, TRUE)
                          : t \in CreateContextFromListAsyncWithCallback(s, fs)}

\* One binary, mapped if the feature is on, and read directly when the binary
\* is too old or the mapped attempt fails; the new handle is registered.
CreateContextHandleFromBinary(s, mapped, disk) ==
  LET direct(t, failed) == {[ok |-> TRUE, s |-> AddQnnContextHandle(t, FALSE, disk), torn |-> failed],
                            [ok |-> FALSE, s |-> t, torn |-> failed]}
  IN  direct(s, FALSE)
      \cup IF ~ mapped THEN {}
           ELSE {[ok |-> TRUE, s |-> AddQnnContextHandle(s, TRUE, disk), torn |-> FALSE]}
                \cup UNION {direct(DeallocateMappedDmaBuffers(s, kept), TRUE)
                              : kept \in SUBSET s.buffers}

\* CreateContext for a graph that is to be compiled.
CreateContext(s) ==
  IF s.created THEN s
  ELSE [AddQnnContextHandle(s, FALSE, FALSE) EXCEPT !.created = TRUE]

\* ReleaseContext: contexts, the node table and the flag go together.  Freeing
\* a context makes QNN release the DMA data of that context.
ReleaseContext(s) ==
  [s EXCEPT !.contexts = {}, !.nodeCtx = Empty, !.created = FALSE,
            !.buffers = @ \ {c.id : c \in {x \in s.contexts : x.mapped}}]

ReleaseSpecificContextHandleKeepsNodes(s, c) ==
  [s EXCEPT !.contexts = @ \ {c}, !.buffers = IF c.mapped THEN @ \ {c.id} ELSE @]

\* One context goes, and with it the entries of the table that name it.
ReleaseSpecificContextHandle(s, c) ==
  [s EXCEPT !.contexts = @ \ {c},
            !.buffers = IF c.mapped THEN @ \ {c.id} ELSE @,
            !.nodeCtx = [n \in {x \in DOMAIN @ : @[x] # c.id} |-> @[n]]]

-----------------------------------------------------------------------------
(* Set-up steps.  Each skips what its flag says is there.                  *)

Load(s) ==
  IF s.loaded THEN s
  ELSE [s EXCEPT !.loads = @ + 1, !.lib = s.loads + 1,
                 !.vlib = IF Serializer THEN s.loads + 1 ELSE 0,
                 !.loaded = ~ Serializer]

LibOf(s, o) == IF o \in OfValidator THEN s.vlib ELSE s.lib

\* The steps of the set ks, of which "lib" is always the first.
Steps(s, ks) ==
  LET t == IF "lib" \in ks THEN Load(s) ELSE s
  IN  [t EXCEPT !.sys = @ \/ "sys" \in ks,
                !.made = [o \in Objects |-> IF o \in ks /\ @[o] = 0 THEN LibOf(t, o) ELSE @[o]],
                !.deviceSoc = IF "device" \in ks /\ t.made["device"] = 0 THEN t.target ELSE @]

\* The first k steps of a set-up.  The last one, "ops", loads the op packages
\* and makes no object.
FirstOf(order, k) == {order[i] : i \in 1..k}

SetupOrder(cached) ==
  LET step(k, needed) == IF needed THEN k ELSE "none"
  IN  <<"lib", step("sys", cached), "log", "backend", "device", step("vlog", Serializer),
        step("vbackend", Serializer), step("vdevice", Serializer), "profile", "ops">>

PartialOrder == <<"lib", "sys", "log", "backend", "dlc", "profile", "ops">>

\* The frees of a release, less the ones that fail.  A failed free keeps its
\* flag, except that the log handles are forgotten either way.
Freed(made, objs, failing) ==
  [o \in Objects |-> IF o \notin objs \/ (o \in failing \ {"log", "vlog"}) THEN made[o] ELSE 0]

ReleaseResourcesKeepsValidator(s, failing, kept) ==
  [DeallocateMappedDmaBuffers(ReleaseContext(s), kept) EXCEPT
     !.made = Freed(@, Objects \ {"vbackend"}, failing), !.lib = 0, !.vlib = 0,
     !.loaded = FALSE, !.partial = FALSE, !.setup = FALSE]

ReleaseResources(s, failing, kept) ==
  [DeallocateMappedDmaBuffers(ReleaseContext(s), kept) EXCEPT
     !.made = Freed(@, Objects, failing), !.lib = 0, !.vlib = 0,
     !.loaded = FALSE, !.partial = FALSE, !.setup = FALSE]

ReleaseDeviceAndContext(s, failing) ==
  [ReleaseContext(s) EXCEPT !.made = Freed(@, {"device"}, failing), !.target = 0,
                            !.setup = FALSE]

\* At most one of the frees of a release fails.
FailingSets == {{}} \cup {{o} : o \in Objects}

NoteStuck(s, failing) == stuck' = (stuck \/ \E o \in failing : s.made[o] # 0)

-----------------------------------------------------------------------------
(* Public calls                                                            *)

\* The set-up after k of its steps.  `fm`: file mapping asked for, the backend
\* being HTP; rpcmem is then present, the QnnEp constructor having turned the
\* option off otherwise.  The backend type is known once a library was loaded.
AfterSteps(cached, share, fm, k) ==
  LET s == Steps([m EXCEPT !.share = share], FirstOf(SetupOrder(cached), k))
      mapper == fm /\ ~ s.mapper /\ s.loads > 0
  IN  [s EXCEPT !.mapping = @ \/ mapper, !.mapper = @ \/ mapper]

\* How the set-up may end: it fails at a step, or in making the contexts, or
\* succeeds.
SetupEnds(cached, share, fm, fs) ==
  LET order == SetupOrder(cached)
      whole == AfterSteps(cached, share, fm, Len(order))
      ok(s) == [ok |-> TRUE, torn |-> FALSE, s |-> s]
      failed(s) == [ok |-> FALSE, torn |-> FALSE, s |-> s]
  IN  {failed(AfterSteps(cached, share, fm, k)) : k \in 0..(Len(order) - 1)}
      \cup IF share THEN CreateContextVtcmBackupBufferSharingEnabled(whole, fs)
           ELSE IF cached THEN {ok(whole)}
           ELSE {ok(CreateContext(whole)), failed(whole)}

\* A set-up of a manager that is not set up, and its clean-up if it fails.
FirstSetup(cached, share, fm, fs) ==
  /\ ~ m.setup /\ ~ MultiSoc
  /\ m.loads < MaxLoads
  /\ \E end \in SetupEnds(cached, share, fm, fs) :
       /\ end.s.next <= MaxContexts + 1
       /\ torn' = (torn \/ end.torn)
       /\ \/ /\ end.ok
             /\ m' = [end.s EXCEPT !.setup = TRUE]
             /\ UNCHANGED stuck
          \/ /\ ~ end.ok
             /\ \E failing \in FailingSets : \E kept \in SUBSET end.s.buffers :
                  /\ m' = ReleaseResources(end.s, failing, kept)
                  /\ NoteStuck(end.s, failing)

KeysOf(fs) == UNION {NodesOf[f] : f \in fs}

\* SetupBackend of a session on a manager that is not set up.
SetupBackend(cached, share, fm, fs) ==
  /\ FirstSetup(cached, share, fm, fs)
  /\ served' = IF share /\ m'.setup THEN KeysOf(fs) ELSE {}
  /\ UNCHANGED <<mode, power, soc, leaving, dlc, probe, recovering>>

\* The files before the first one whose path is not in the table, where at()
\* throws.
Known(fs, ord) == {f \in fs : \A g \in fs : ord[g] <= ord[f] => g \in DOMAIN m.nodeCtx}

AgainEndsSkipsUnknown(s, fs, ord) ==
  IF ~ s.share THEN {[ok |-> TRUE, s |-> s, torn |-> FALSE]}
  ELSE IF Known(fs, ord) = {}
  THEN CreateContextVtcmBackupBufferSharingEnabled(s, fs)
  ELSE {[ok |-> TRUE, s |-> [s EXCEPT !.nodeCtx = Emplace(@, t)], torn |-> FALSE]
          : t \in Entries(Known(fs, ord), ord, s.nodeCtx)}

\* How the set-up of another session of the group ends, when the file map lists
\* fs in the order ord.  The path of the first file decides whether contexts
\* exist already.
AgainEnds(s, fs, ord) ==
  IF ~ s.share THEN {[ok |-> TRUE, s |-> s, torn |-> FALSE]}
  ELSE IF Known(fs, ord) = {}
  THEN CreateContextVtcmBackupBufferSharingEnabled(s, fs)
  ELSE {[ok |-> Known(fs, ord) = fs, s |-> [s EXCEPT !.nodeCtx = Emplace(@, t)], torn |-> FALSE]
          : t \in Entries(Known(fs, ord), ord, s.nodeCtx)}

\* SetupBackend on a manager that is in the state s0 and set up.
Again(s0, fs, ord) ==
  /\ m.setup /\ ~ MultiSoc
  /\ \E end \in AgainEnds(s0, fs, ord) :
       /\ end.s.next <= MaxContexts + 1
       /\ m' = end.s
       /\ torn' = (torn \/ end.torn)
       /\ served' = IF end.ok /\ m.share THEN served \cup KeysOf(fs) ELSE served
  /\ UNCHANGED <<mode, power, soc, leaving, dlc, probe, recovering, stuck>>

SetupBackendAgainDropsBuffers(readCallback, fs, ord) ==
  Again([m EXCEPT !.mapping = @ /\ ~ readCallback,
                  !.buffers = IF readCallback THEN {} ELSE @], fs, ord)

\* SetupBackend on a manager another session of the group has set up.
SetupBackendAgain(readCallback, fs, ord) ==
  Again([m EXCEPT !.mapping = @ /\ ~ readCallback], fs, ord)

\* LoadCachedQnnContextFromBuffer of an EPContext node's binary.  In the shared
\* mode the context is only looked up; otherwise it is made from the binary.
\* A session that prepares several SoCs compiles its models and loads none.
LoadCachedQnnContextFromBuffer(embedded) ==
  /\ m.setup /\ ~ MultiSoc /\ ~ m.share /\ m.sys
  /\ m.next <= MaxContexts
  /\ \E end \in CreateContextHandleFromBinary(m, m.mapping /\ m.mapper /\ ~ embedded, ~ embedded) :
       /\ torn' = (torn \/ end.torn)
       /\ \/ m' = end.s
          \/ end.ok /\ m' = [end.s EXCEPT !.created = TRUE]
  /\ UNCHANGED <<mode, power, soc, leaving, dlc, probe, recovering, served, stuck>>

\* RecoverFromSSR of a model whose context c is still registered, under the
\* recovery mutex: the context goes.
RecoverFromSSR(c) ==
  /\ m.setup /\ c.disk /\ ~ recovering
  /\ m' = ReleaseSpecificContextHandle(m, c)
  /\ served' = served \ {n \in DOMAIN m.nodeCtx : m.nodeCtx[n] = c.id}
  /\ recovering' = TRUE
  /\ UNCHANGED <<mode, power, soc, leaving, dlc, probe, stuck, torn>>

\* The new context, or an error.  Nothing puts it into the table of the nodes.
ReloadContextForSSR ==
  /\ recovering
  /\ m.setup /\ m.next <= MaxContexts
  /\ \E end \in CreateContextHandleFromBinary(m, m.mapping /\ m.mapper, TRUE) :
       /\ torn' = (torn \/ end.torn)
       /\ m' = end.s
  /\ recovering' = FALSE
  /\ UNCHANGED <<mode, power, soc, leaving, dlc, probe, served, stuck>>

\* ReleaseResources of whatever the manager has.
ReleaseAll ==
  \E failing \in FailingSets : \E kept \in SUBSET m.buffers :
     /\ m' = ReleaseResources(m, failing, kept)
     /\ NoteStuck(m, failing)

\* The destructor of the manager, after its last session has gone, or a set-up
\* discarded by the only session that uses the manager.
Release ==
  /\ m.lib # 0 /\ soc = 0 /\ probe = "none" /\ ~ recovering
  /\ ReleaseAll
  /\ dlc' = <<>> /\ served' = {}
  /\ UNCHANGED <<mode, power, soc, leaving, probe, recovering, torn>>

\* ValidateCompiledModelCompatibilityInfo of a session that is being created in
\* a group with shared resources: it finds the manager not set up.
ProbeBegin ==
  /\ ~ MultiSoc /\ probe = "none" /\ ~ m.setup
  /\ probe' = "begun"
  /\ UNCHANGED <<mode, m, power, soc, leaving, dlc, recovering, served, stuck, torn>>

\* It sets the manager up without contexts, unless another session has set it
\* up meanwhile, and gives up if that fails.
ProbeSetup ==
  /\ probe = "begun"
  /\ \/ FirstSetup(TRUE, FALSE, FALSE, {})
     \/ m.setup /\ UNCHANGED <<m, stuck, torn>>
  /\ probe' = IF m'.setup THEN "up" ELSE "none"
  /\ UNCHANGED <<mode, power, soc, leaving, dlc, recovering, served>>

\* It releases what it takes for its own.
ProbeEnd ==
  /\ probe = "up"
  /\ ReleaseAll
  /\ probe' = "none"
  /\ served' = {}
  /\ UNCHANGED <<mode, power, soc, leaving, dlc, recovering, torn>>

\* SetupBackendExceptDeviceAndContext, for a session that prepares several SoCs.
SetupBackendExceptDeviceAndContext ==
  /\ MultiSoc /\ ~ m.partial /\ m.loads < MaxLoads
  /\ \E k \in 0..Len(PartialOrder) :
       LET s == Steps(m, FirstOf(PartialOrder, k)) IN
       \/ /\ k = Len(PartialOrder)
          /\ m' = [s EXCEPT !.partial = TRUE]
          /\ UNCHANGED stuck
       \/ /\ k < Len(PartialOrder)
          /\ \E failing \in FailingSets : \E kept \in SUBSET s.buffers :
               /\ m' = ReleaseResources(s, failing, kept)
               /\ NoteStuck(s, failing)
  /\ UNCHANGED <<mode, power, soc, leaving, dlc, probe, recovering, served, torn>>

SetupDeviceAndContextKeepsTarget(i, done) ==
  LET s == IF done >= 1 THEN Steps(m, {"device"}) ELSE m
  IN  IF done = 2 THEN [CreateContext(s) EXCEPT !.setup = TRUE] ELSE s

\* SetupDeviceAndContext for SoC i, then the power id of the scope; fails in
\* either object, and cleans up with ReleaseDeviceAndContext.
SetupDeviceAndContext(i, done) ==
  LET s0 == [m EXCEPT !.target = i]
      s == IF done >= 1 THEN Steps(s0, {"device"}) ELSE s0
  IN  IF done = 2 THEN [CreateContext(s) EXCEPT !.setup = TRUE] ELSE s

\* ScopedPerSocQnnBackendSetup::Init of the next round of the loop.
ScopedInit ==
  /\ MultiSoc /\ m.partial /\ ~ m.setup /\ soc = 0
  /\ Len(dlc) < SocCount
  /\ m.next <= MaxContexts
  /\ \/ /\ m' = SetupDeviceAndContext(Len(dlc) + 1, 2)
        /\ soc' = Len(dlc) + 1
        /\ power' \in {0, m'.made["device"]}
        /\ UNCHANGED stuck
     \/ \E done \in {0, 1} : \E failing \in {{}, {"device"}} :
          LET s == SetupDeviceAndContext(Len(dlc) + 1, done) IN
          /\ m' = ReleaseDeviceAndContext(s, failing)
          /\ NoteStuck(s, failing)
          /\ UNCHANGED <<power, soc>>
  /\ UNCHANGED <<mode, leaving, dlc, probe, recovering, served, torn>>

LeaveOrderSwapped == <<"device", "power">>

\* ~ScopedPerSocQnnBackendSetup destroys the power id of the SoC and then
\* releases device and context.
LeaveOrder == <<"power", "device">>

\* The end of the round: the graphs are compiled into the only context, it is
\* appended to the DLC, unless either fails, and the scope is left.
AddContextToDlc ==
  {Append(dlc, c) : c \in {x \in m.contexts : m.made["dlc"] # 0 /\ m.contexts = {x}}}

RoundEnds ==
  /\ soc # 0 /\ leaving = <<>>
  /\ dlc' \in {dlc} \cup AddContextToDlc
  /\ leaving' = LeaveOrder
  /\ UNCHANGED <<mode, m, power, soc, probe, recovering, served, stuck, torn>>

\* The steps of the destructor.  The id is forgotten even if QNN does not
\* destroy it.
ScopedEnd ==
  /\ leaving # <<>>
  /\ \/ /\ Head(leaving) = "power"
        /\ power' = 0
        /\ UNCHANGED <<m, stuck>>
     \/ /\ Head(leaving) = "device"
        /\ \E failing \in {{}, {"device"}} :
             /\ m' = ReleaseDeviceAndContext(m, failing)
             /\ NoteStuck(m, failing)
        /\ UNCHANGED power
  /\ leaving' = Tail(leaving)
  /\ soc' = IF Len(leaving) = 1 THEN 0 ELSE soc
  /\ UNCHANGED <<mode, dlc, probe, recovering, served, torn>>

Next ==
  \/ \E cached, share, fm \in BOOLEAN : \E fs \in (SUBSET Files) \ {{}} :
       (share => cached) /\ SetupBackend(cached, share, fm, fs)
  \/ \E cb \in BOOLEAN : \E fs \in (SUBSET Files) \ {{}} : \E ord \in Numberings(1, fs) :
       SetupBackendAgain(cb, fs, ord)
  \/ \E embedded \in BOOLEAN : LoadCachedQnnContextFromBuffer(embedded)
  \/ \E c \in m.contexts : RecoverFromSSR(c)
  \/ ReloadContextForSSR
  \/ Release
  \/ ProbeBegin \/ ProbeSetup \/ ProbeEnd
  \/ SetupBackendExceptDeviceAndContext
  \/ ScopedInit
  \/ RoundEnds
  \/ ScopedEnd

Spec == Init /\ [][Next]_vars

-----------------------------------------------------------------------------
(* Properties                                                              *)

\* An EPContext node is never left pointing at a context that has been freed:
\* every entry of ep_context_handle_map_ names a handle that contexts_ holds.
NodesHaveContexts ==
  \A n \in DOMAIN m.nodeCtx : m.nodeCtx[n] \in Ids(m)

\* Unless a free has failed, a manager that is set up works only with objects
\* made through the library it has loaded now: nothing of an earlier attempt
\* that was cleaned up survives into a retry, and the power id of a SoC never
\* outlives the device it was created on.
ObjectsOfTheLoadedLibrary ==
  (m.setup \/ m.partial) /\ ~ stuck =>
     /\ \A o \in Objects \ OfValidator : m.made[o] \in {0, m.lib}
     /\ \A o \in OfValidator : m.made[o] \in {0, m.vlib}
     /\ m.setup => m.made["device"] = m.lib /\ m.made["backend"] = m.lib
     /\ \A c \in m.contexts : c.lib = m.lib
     /\ power # 0 => m.made["device"] = power

\* The DLC a multi-SoC session writes holds one context per SoC, in order, each
\* compiled on a device configured for its SoC -- unless freeing a device
\* failed, after which CreateDevice keeps the device of the SoC before.
DlcHoldsEverySoc ==
  ~ stuck => \A i \in 1..Len(dlc) : dlc[i].soc = i

\* In the shared mode LoadCachedQnnContextFromBuffer only looks the context of
\* a node up, so a set-up that reports success must have left an entry for every
\* node of its binaries, known or new, and no later set-up of the group takes it
\* away.  Two things do, and are excepted: a recovery, which erases the entries
\* of the context it replaces, and a compatibility probe that has found the
\* manager not set up and releases it after the set-up of a sibling.
NodesServed == served \subseteq DOMAIN m.nodeCtx

\* Until a mapped load has failed, a node whose context was loaded with file
\* mapped weights finds them registered with RPCMEM: only the release of its
\* context takes them away, whatever the sessions of the group load next.
MappedNodesKeepWeights ==
  ~ torn => \A n \in DOMAIN m.nodeCtx : \A c \in m.contexts :
              c.id = m.nodeCtx[n] /\ c.mapped => c.id \in m.buffers
=============================================================================
