------------------------------ MODULE Sessions ------------------------------
(***************************************************************************)
(* Inference sessions that share one process: QnnEp objects that pass      *)
(* backend managers, deserialized models and the name of a context binary  *)
(* to each other through the SharedContext singleton                       *)
(* (shared_context.h, qnn_execution_provider.cc).                          *)
(*                                                                         *)
(* A "generate" session compiles graphs into the QNN context of its        *)
(* manager and writes EPContext nodes; a "load" session restores its       *)
(* graphs from context binaries, or takes them from the models that other  *)
(* sessions published.  One action is what a session does between two      *)
(* acquisitions of a lock another session may hold.                        *)
(***************************************************************************)
EXTENDS Naturals, Sequences, Functions

CONSTANTS
    Sessions,      \* the sessions; a backend manager is named after its creator
    None,          \* no manager, no session, no file
    Graphs,        \* names of QNN graphs and of the EPContext nodes made of them
    Binaries,      \* paths of context binaries that exist beforehand
    GraphsOf,      \* [Binaries -> SUBSET Graphs], what a binary contains
    Configs,       \* assignments of options and a model to every session
    SerialKinds    \* kinds of sessions that are created one at a time

ASSUME BinariesNamed ==
    /\ Binaries \cap Graphs = {}
    /\ None \notin Sessions \cup Binaries
    /\ GraphsOf \in [Binaries -> SUBSET Graphs]

\* Nodes of a model that name one binary; the first of them is its main node.
NodesIn(nodes, b) == {i \in DOMAIN nodes : nodes[i] \in GraphsOf[b]}
FirstIn(nodes, b) ==
    nodes[CHOOSE i \in NodesIn(nodes, b) : \A j \in NodesIn(nodes, b) : i <= j]

\* A model has nodes of different names.  A context model names the binaries of
\* its nodes: each node is a graph of one of them, and each has a first node.
ASSUME ConfigsWellFormed ==
    \A c \in Configs : \A s \in Sessions :
        /\ c[s].kind \in {"generate", "load", "htp"}
        /\ {c[s].share, c[s].stop, c[s].validate} \subseteq BOOLEAN
        /\ c[s].nodes \in Seq(Graphs) /\ c[s].nodes # <<>>
        /\ \A i, j \in DOMAIN c[s].nodes : c[s].nodes[i] = c[s].nodes[j] => i = j
        /\ c[s].bins \in Seq(Binaries)
        /\ \A b \in Range(c[s].bins) :
             \E i \in NodesIn(c[s].nodes, b) : \A j \in NodesIn(c[s].nodes, b) : i <= j
        /\ IF c[s].kind = "generate" THEN c[s].bins = <<>>
           ELSE \A n \in Range(c[s].nodes) : \E b \in Range(c[s].bins) : n \in GraphsOf[b]

VARIABLES
    config,     \* options and model of every session
    pc,         \* where a session is
    at,         \* node or binary a session looks at
    manager,    \* qnn_backend_manager_ of a session
    group,      \* history: the manager a session was constructed with
    rejected,   \* history: sessions that could not set up a model they found
    backend,    \* the state of every manager
    slot,       \* SharedContext::qnn_backend_manager_
    shared,     \* SharedContext::shared_qnn_models_
    holder,     \* session that is changing shared_qnn_models_ under mtx_
    binName,    \* SharedContext::shared_ctx_bin_file_name_
    table,      \* models a session deserialized and has not given a node yet
    models,     \* qnn_models_ of a session
    buffer,     \* context binary a generating session read from its manager
    nodeFile,   \* file that the EPContext nodes of a session name
    files,      \* written context binaries
    terminated, \* an exception left a noexcept function
    raced       \* history: the vector was read while it was changed

vars == <<config, pc, at, manager, group, rejected, backend, slot, shared, holder,
          binName, table, models, buffer, nodeFile, files, terminated, raced>>

\* Groups of variables that most actions leave alone together.
setup == <<config, group, rejected>>
exchange == <<shared, holder, raced>>
owned == <<table, models>>
outputs == <<binName, buffer, nodeFile, files>>

Config(s) == config[s]
Mgr(s) == backend[manager[s]]
Nodes(s) == Config(s).nodes
IsLoad(s) == Config(s).kind # "generate"

\* A manager that was created and never set up.  Its names are the paths of
\* binaries and the main nodes a context is known by; 0 is none.
Names == Binaries \cup Graphs
FreshManager ==
    [up |-> FALSE, sharing |-> FALSE, alloc |-> "none", compiled |-> {},
     contexts |-> <<>>, names |-> [x \in Names |-> 0]]

MainNode(s, b) == FirstIn(Nodes(s), b)

\* names a session looks up in the models other sessions published
InShared(n) == \E q \in shared : q.graph = n

\* A session is being created.
Busy(t) == pc[t] \notin {"new", "ready", "failed", "gone"}
MayStart(s) ==
    Config(s).kind \in SerialKinds =>
        \A t \in Sessions \ {s} : Config(t).kind \in SerialKinds => ~Busy(t)

Init ==
    /\ config \in Configs
    /\ pc = [s \in Sessions |-> "new"]
    /\ at = [s \in Sessions |-> 1]
    /\ manager = [s \in Sessions |-> None]
    /\ group = [s \in Sessions |-> None]
    /\ rejected = {}
    /\ backend = [m \in Sessions |-> FreshManager]
    /\ slot = None
    /\ shared = {}
    /\ holder = None
    /\ binName = None
    /\ table = [s \in Sessions |-> {}]
    /\ models = [s \in Sessions |-> {}]
    /\ buffer = [s \in Sessions |-> {}]
    /\ nodeFile = [s \in Sessions |-> None]
    /\ files = [f \in Sessions |-> {}]
    /\ terminated = FALSE
    /\ raced = FALSE

Goto(s, l) == pc' = [pc EXCEPT ![s] = l]

\* CompileContextModel returns an error: its table of models goes with it.
Abandon(s) == Goto(s, "failed") /\ table' = [table EXCEPT ![s] = {}]
-----------------------------------------------------------------------------
(***************************************************************************)
(* The constructor of QnnEp.                                               *)
(***************************************************************************)
UsesSharedManager(s) ==
    \/ Config(s).kind = "generate" /\ Config(s).share
    \/ Config(s).kind = "htp"

\* Mutant: a session that ends the sharing does not adopt the manager.
ConstructStopsFirst(s) ==
    /\ pc[s] = "new"
    /\ MayStart(s)
    /\ manager' = [manager EXCEPT ![s] =
                     IF UsesSharedManager(s) /\ slot # None /\ ~Config(s).stop
                     THEN slot ELSE s]
    /\ group' = [group EXCEPT ![s] = manager'[s]]
    /\ Goto(s, "constructed")
    /\ UNCHANGED <<config, rejected, at, backend, slot, terminated, outputs,
                   exchange, owned>>

\* The slot is looked up once; the session keeps what it found.
Construct(s) ==
    /\ pc[s] = "new"
    /\ MayStart(s)
    /\ manager' = [manager EXCEPT ![s] =
                     IF UsesSharedManager(s) /\ slot # None THEN slot ELSE s]
    /\ group' = [group EXCEPT ![s] = manager'[s]]
    /\ Goto(s, "constructed")
    /\ UNCHANGED <<config, rejected, at, backend, slot, terminated, outputs,
                   exchange, owned>>

\* The allocator of an adopted manager has to be the one this session asked
\* for, otherwise the constructor throws; a manager of its own gets the mode
\* before it is published.
SettleAllocator(s) ==
    /\ pc[s] = "constructed"
    /\ IF manager[s] # s /\ Mgr(s).alloc # Config(s).alloc
       THEN /\ manager' = [manager EXCEPT ![s] = None]
            /\ Goto(s, "failed")
            /\ UNCHANGED <<backend, slot>>
       ELSE /\ backend' = [backend EXCEPT ![manager[s]].alloc = Config(s).alloc]
            /\ slot' = IF /\ manager[s] = s
                          /\ Config(s).kind = "htp"
                          /\ slot = None
                       THEN s ELSE slot
            /\ Goto(s, IF Config(s).stop THEN "stopping" ELSE "built")
            /\ UNCHANGED manager
    /\ UNCHANGED <<setup, at, terminated, outputs, exchange, owned>>

StopSharing(s) ==
    /\ pc[s] = "stopping"
    /\ slot' = None
    /\ Goto(s, "built")
    /\ UNCHANGED <<setup, at, manager, backend, terminated, outputs, exchange,
                   owned>>
-----------------------------------------------------------------------------
(***************************************************************************)
(* Setting up the backend.  SetupBackend runs under one mutex.             *)
(***************************************************************************)

\* Contexts for a sequence of binaries: the paths and the main nodes that a
\* later session finds them by; names that are known keep their context.
WithContexts(b, s, bins) ==
    LET of(x) == {i \in DOMAIN bins : x \in {bins[i], MainNode(s, bins[i])}}
    IN [b EXCEPT !.contexts = @ \o bins,
                 !.names = [x \in Names |->
                              IF @[x] # 0 \/ of(x) = {} THEN @[x]
                              ELSE Len(b.contexts) + CHOOSE i \in of(x) : TRUE]]

\* An adopted manager with shared resources: only the first path decides
\* whether contexts are created for all of them or known ones are named again.
ReuseSharing(s, first) ==
    LET b == Mgr(s)
        bins == Config(s).bins
        main(x) == {c \in Range(bins) : MainNode(s, c) = x}
    IN IF b.names[first] = 0
       THEN /\ backend' = [backend EXCEPT ![manager[s]] = WithContexts(b, s, bins)]
            /\ UNCHANGED terminated
       ELSE /\ terminated' = \E c \in Range(bins) : b.names[c] = 0
            /\ backend' =
                 IF terminated' THEN backend
                 ELSE [backend EXCEPT ![manager[s]].names =
                         [x \in Names |-> IF @[x] # 0 \/ main(x) = {} THEN @[x]
                                         ELSE @[CHOOSE c \in main(x) : TRUE]]]

\* A manager after a set-up: the libraries, the device and, for shared
\* resources, a context of every binary.
AfterSetUp(s, b) ==
    LET u == [b EXCEPT !.up = TRUE, !.sharing = (Config(s).kind = "htp")]
    IN IF u.sharing THEN WithContexts(u, s, Config(s).bins) ELSE u

Released(b) ==
    [FreshManager EXCEPT !.alloc = b.alloc]

\* ValidateCompiledModelCompatibility sets a fresh manager up to validate; a
\* set-up that another configuration could not use is only a probe.
ValidateCompatibility(s) ==
    /\ pc[s] = "built"
    /\ Config(s).validate
    /\ \/ /\ ~Mgr(s).up
          /\ backend' = [backend EXCEPT ![manager[s]].up = TRUE]
          /\ Goto(s, IF Config(s).kind = "htp" THEN "probing" ELSE "checked")
       \/ UNCHANGED backend /\ Goto(s, "validated")
    /\ UNCHANGED <<setup, at, manager, slot, terminated, outputs, exchange,
                   owned>>

ReleaseProbe(s) ==
    /\ pc[s] = "probing"
    /\ backend' = [backend EXCEPT ![manager[s]] = Released(@)]
    /\ Goto(s, "validated")
    /\ UNCHANGED <<setup, at, manager, slot, terminated, outputs, exchange,
                   owned>>

\* GetCapability: the set-up of the compatibility check is of no use to a
\* model that is compiled.  A context model whose graphs may all be published
\* is looked up first; everything else sets the backend up.
GetCapability(s) ==
    /\ \/ pc[s] = "built" /\ ~Config(s).validate
       \/ pc[s] \in {"checked", "validated"}
    /\ holder = None
    /\ backend' = IF pc[s] = "checked" /\ ~IsLoad(s)
                  THEN [backend EXCEPT ![manager[s]] = Released(@)] ELSE backend
    /\ Goto(s, IF IsLoad(s) /\ Config(s).share /\ shared # {}
               THEN "look1" ELSE "setup")
    /\ at' = [at EXCEPT ![s] = 1]
    /\ UNCHANGED <<setup, manager, slot, terminated, outputs, exchange, owned>>

SetupBackend(s) ==
    /\ pc[s] = "setup"
    /\ IF Mgr(s).up
       THEN IF Mgr(s).sharing
            THEN \E first \in Range(Config(s).bins) : ReuseSharing(s, first)
            ELSE UNCHANGED <<backend, terminated>>
       ELSE /\ backend' = [backend EXCEPT ![manager[s]] = AfterSetUp(s, @)]
            /\ UNCHANGED terminated
    /\ Goto(s, IF IsLoad(s) THEN "compile" ELSE "compose")
    /\ UNCHANGED <<setup, at, manager, slot, outputs, exchange, owned>>

\* A failed first set-up releases everything; a manager that was set up keeps
\* what it has, including the contexts created before the failure.
SetupBackendFails(s) ==
    /\ pc[s] = "setup"
    /\ IF Mgr(s).up
       THEN /\ Mgr(s).sharing
            /\ \E k \in 0 .. Len(Config(s).bins) - 1 :
                 backend' = [backend EXCEPT ![manager[s]] =
                               WithContexts(@, s, [i \in 1 .. k |-> Config(s).bins[i]])]
       ELSE backend' = [backend EXCEPT ![manager[s]] = Released(@)]
    /\ Goto(s, "failed")
    /\ UNCHANGED <<setup, at, manager, slot, terminated, outputs, exchange,
                   owned>>
-----------------------------------------------------------------------------
(***************************************************************************)
(* A context model: CompileContextModel.                                   *)
(***************************************************************************)

\* HasQnnModel reads the vector without the mutex: while another session
\* changes it, the answer can be anything.
HasQnnModel(n) == IF holder = None THEN {InShared(n)} ELSE BOOLEAN

\* The walk over the node names, in GetCapability (look1) and again in
\* CompileContextModel (look2).
Look(s) ==
    /\ pc[s] \in {"look1", "look2"}
    /\ \E has \in HasQnnModel(Nodes(s)[at[s]]) :
         IF ~has
         THEN /\ Goto(s, IF pc[s] = "look1" THEN "setup" ELSE "load")
              /\ at' = [at EXCEPT ![s] = 1]
         ELSE IF at[s] < Len(Nodes(s))
         THEN at' = [at EXCEPT ![s] = @ + 1] /\ UNCHANGED pc
         ELSE /\ Goto(s, IF pc[s] = "look1" THEN "compile" ELSE "take")
              /\ at' = [at EXCEPT ![s] = 1]
    /\ raced' = (raced \/ holder # None)
    /\ UNCHANGED <<setup, manager, backend, slot, shared, holder, terminated,
                   outputs, owned>>

\* Mutant: published models are not looked at again.
CompileContextModelLoads(s) ==
    /\ pc[s] = "compile"
    /\ holder = None
    /\ Goto(s, "load")
    /\ UNCHANGED <<setup, at, manager, backend, slot, terminated, outputs,
                   exchange, owned>>

CompileContextModel(s) ==
    /\ pc[s] = "compile"
    /\ holder = None
    /\ Goto(s, IF Config(s).share /\ shared # {} THEN "look2" ELSE "load")
    /\ UNCHANGED <<setup, at, manager, backend, slot, terminated, outputs,
                   exchange, owned>>

\* mtx_ is taken to change the vector.
LockShared(s) ==
    /\ pc[s] \in {"take", "publish"}
    /\ holder = None
    /\ holder' = s
    /\ UNCHANGED <<setup, pc, at, manager, backend, slot, shared, terminated,
                   raced, outputs, owned>>

\* Mutant: the model is handed out and stays in the vector.
GetSharedQnnModelKeeps(s) ==
    /\ pc[s] = "take"
    /\ holder = s
    /\ LET found == {q \in shared : q.graph = Nodes(s)[at[s]]} IN
         /\ shared' = shared
         /\ models' = [models EXCEPT ![s] = @ \cup found]
         /\ IF found = {} THEN Goto(s, "failed") /\ UNCHANGED at
            ELSE IF at[s] < Len(Nodes(s))
            THEN at' = [at EXCEPT ![s] = @ + 1] /\ UNCHANGED pc
            ELSE Goto(s, "ready") /\ UNCHANGED at
    /\ holder' = None
    /\ UNCHANGED <<setup, manager, backend, slot, table, terminated, raced,
                   outputs>>

\* Mutant: a missing model is not an error.
GetSharedQnnModelSkips(s) ==
    /\ pc[s] = "take"
    /\ holder = s
    /\ LET found == {q \in shared : q.graph = Nodes(s)[at[s]]} IN
         /\ shared' = shared \ found
         /\ models' = [models EXCEPT ![s] = @ \cup found]
         /\ IF at[s] < Len(Nodes(s))
            THEN at' = [at EXCEPT ![s] = @ + 1] /\ UNCHANGED pc
            ELSE Goto(s, "ready") /\ UNCHANGED at
    /\ holder' = None
    /\ UNCHANGED <<setup, manager, backend, slot, table, terminated, raced,
                   outputs>>

\* GetSharedQnnModel moves one model out of the vector; a missing one fails
\* the session, which keeps the models it took before.
GetSharedQnnModel(s) ==
    /\ pc[s] = "take"
    /\ holder = s
    /\ LET found == {q \in shared : q.graph = Nodes(s)[at[s]]} IN
         /\ shared' = shared \ found
         /\ models' = [models EXCEPT ![s] = @ \cup found]
         /\ IF found = {} THEN Goto(s, "failed") /\ UNCHANGED at
            ELSE IF at[s] < Len(Nodes(s))
            THEN at' = [at EXCEPT ![s] = @ + 1] /\ UNCHANGED pc
            ELSE Goto(s, "ready") /\ UNCHANGED at
    /\ holder' = None
    /\ UNCHANGED <<setup, manager, backend, slot, table, terminated, raced,
                   outputs>>

\* The model was moved out of the vector, but its inputs and outputs or the graph
\* configuration cannot be set: it is destroyed with the error.
TakenModelRejected(s) ==
    /\ pc[s] = "take"
    /\ holder = s
    /\ LET found == {q \in shared : q.graph = Nodes(s)[at[s]]} IN
         found # {} /\ shared' = shared \ found
    /\ Goto(s, "failed")
    /\ rejected' = rejected \cup {s}
    /\ holder' = None
    /\ UNCHANGED <<config, group, at, manager, backend, slot, terminated, raced,
                   outputs, owned>>

\* LoadCachedQnnContextFromBuffer for one main node: the context of the node
\* name when resources are shared, a new one otherwise.  A binary of one graph
\* is filed under the name of the node.  The path for a reload after a restart
\* of the subsystem is set on every model in the session's table.
LoadBinary(s) ==
    /\ pc[s] = "load"
    /\ LET b == Mgr(s)
           bin == Config(s).bins[at[s]]
           ctx == IF b.sharing THEN b.names[MainNode(s, bin)]
                  ELSE Len(b.contexts) + 1
           key(g) == IF \E x \in Graphs : GraphsOf[bin] = {x} THEN MainNode(s, bin) ELSE g
           known == {q.key : q \in table[s]}
           new == {[graph |-> g, key |-> key(g), by |-> s, manager |-> manager[s],
                    context |-> ctx, path |-> bin] :
                     g \in {x \in GraphsOf[bin] : key(x) \notin known}}
       IN IF ~b.up \/ ctx = 0
          THEN Abandon(s) /\ UNCHANGED <<at, backend>>
          ELSE /\ table' = [table EXCEPT ![s] =
                              {[q EXCEPT !.path = bin] : q \in @} \cup new]
               /\ backend' = [backend EXCEPT ![manager[s]].contexts =
                                IF b.sharing THEN @ ELSE Append(@, bin)]
               /\ IF at[s] < Len(Config(s).bins)
                  THEN at' = [at EXCEPT ![s] = @ + 1] /\ UNCHANGED pc
                  ELSE at' = [at EXCEPT ![s] = 1] /\ Goto(s, "assign")
    /\ UNCHANGED <<setup, manager, slot, models, terminated, outputs,
                   exchange>>

\* The binary cannot be read or QNN rejects it.
LoadFails(s) ==
    /\ pc[s] = "load"
    /\ Abandon(s)
    /\ UNCHANGED <<setup, at, manager, backend, slot, models, terminated, outputs,
                   exchange>>

\* Every node gets the model of its name, else that of the first main node;
\* what is left over is published when the session shares.
AssignModels(s) ==
    /\ pc[s] = "assign"
    /\ LET name == Nodes(s)[at[s]]
           main == MainNode(s, Config(s).bins[1])
           byName == {q \in table[s] : q.key = name}
           found == IF byName # {} THEN byName ELSE {q \in table[s] : q.key = main}
           rest == table[s] \ found
       IN IF found = {} THEN Abandon(s) /\ UNCHANGED <<at, models>>
          ELSE /\ models' = [models EXCEPT ![s] = @ \cup found]
               /\ table' = [table EXCEPT ![s] = rest]
               /\ IF at[s] < Len(Nodes(s))
                  THEN at' = [at EXCEPT ![s] = @ + 1] /\ UNCHANGED pc
                  ELSE /\ Goto(s, IF Config(s).share /\ rest # {} THEN "publish" ELSE "ready")
                       /\ UNCHANGED at
    /\ UNCHANGED <<setup, manager, backend, slot, terminated, outputs,
                   exchange>>

\* The model of a node was found, but its inputs and outputs or the graph
\* configuration cannot be set.
FoundModelRejected(s) ==
    /\ pc[s] = "assign"
    /\ Abandon(s)
    /\ rejected' = rejected \cup {s}
    /\ UNCHANGED <<config, group, at, manager, backend, slot, models, terminated,
                   outputs, exchange>>

\* SetSharedQnnModel adds the models whose names are new; any other fails the
\* session after the rest was added.
SetSharedQnnModel(s) ==
    /\ pc[s] = "publish"
    /\ holder = s
    /\ shared' = shared \cup {q \in table[s] : ~InShared(q.graph)}
    /\ table' = [table EXCEPT ![s] = {}]
    /\ Goto(s, IF \E q \in table[s] : InShared(q.graph) THEN "failed" ELSE "ready")
    /\ holder' = None
    /\ UNCHANGED <<setup, at, manager, backend, slot, models, terminated,
                   raced, outputs>>

-----------------------------------------------------------------------------
(***************************************************************************)
(* A generating session: compile, then CreateEPContextNodes.               *)
(***************************************************************************)
CompileGraphs(s) ==
    /\ pc[s] = "compose"
    /\ backend' = [backend EXCEPT ![manager[s]].compiled = @ \cup Range(Nodes(s))]
    /\ models' = [models EXCEPT ![s] =
                    {[graph |-> g, key |-> g, by |-> s, manager |-> manager[s],
                      context |-> 1, path |-> None] : g \in Range(Nodes(s))}]
    /\ Goto(s, "serialize")
    /\ UNCHANGED <<setup, at, manager, slot, table, terminated, outputs,
                   exchange>>

\* A graph that cannot be composed fails the session; the graphs before it
\* stay in the context.
CompileFails(s) ==
    /\ pc[s] = "compose"
    /\ \E done \in SUBSET Range(Nodes(s)) :
         backend' = [backend EXCEPT ![manager[s]].compiled = @ \cup done]
    /\ Goto(s, "failed")
    /\ UNCHANGED <<setup, at, manager, slot, terminated, outputs, exchange,
                   owned>>

\* The whole context of the manager is read, with the graphs of every session
\* that was compiled into it, and the shared name of the binary is looked up.
ReadContextBinary(s) ==
    /\ pc[s] = "serialize"
    /\ buffer' = [buffer EXCEPT ![s] = Mgr(s).compiled]
    /\ nodeFile' = [nodeFile EXCEPT ![s] =
                      IF Config(s).share /\ binName # None THEN binName ELSE s]
    /\ Goto(s, "write")
    /\ UNCHANGED <<setup, at, manager, backend, slot, binName, files,
                   terminated, exchange, owned>>

\* The first session of a group names the binary; the last one writes it and
\* ends the group.
WriteContextBinary(s) ==
    /\ pc[s] = "write"
    /\ files' = IF ~Config(s).share \/ Config(s).stop
                THEN [files EXCEPT ![nodeFile[s]] = buffer[s]] ELSE files
    /\ binName' = IF ~Config(s).share THEN binName
                  ELSE IF Config(s).stop THEN None
                  ELSE IF nodeFile[s] = s THEN s ELSE binName
    /\ Goto(s, IF Config(s).share /\ ~Config(s).stop THEN "handover" ELSE "ready")
    /\ UNCHANGED <<setup, at, manager, backend, slot, buffer, nodeFile,
                   terminated, exchange, owned>>

\* The file cannot be written: the shared name was set before and stays.
WriteFails(s) ==
    /\ pc[s] = "write"
    /\ ~Config(s).share \/ Config(s).stop
    /\ binName' = IF Config(s).share /\ nodeFile[s] = s THEN s ELSE binName
    /\ Goto(s, "failed")
    /\ UNCHANGED <<setup, at, manager, backend, slot, buffer, nodeFile, files,
                   terminated, exchange, owned>>

\* The manager is published for the next session unless one is already: the slot
\* is read and set under two acquisitions of mtx_.
GetSharedQnnBackendManager(s) ==
    /\ pc[s] = "handover"
    /\ Goto(s, IF slot = None THEN "offer" ELSE "ready")
    /\ UNCHANGED <<setup, at, manager, backend, slot, terminated, outputs, exchange,
                   owned>>

\* A manager that another session published in between is an error.
SetSharedQnnBackendManager(s) ==
    /\ pc[s] = "offer"
    /\ slot' = IF slot = None THEN manager[s] ELSE slot
    /\ Goto(s, IF slot' = manager[s] THEN "ready" ELSE "failed")
    /\ UNCHANGED <<setup, at, manager, backend, terminated, outputs, exchange,
                   owned>>

PublishManager(s) == GetSharedQnnBackendManager(s) \/ SetSharedQnnBackendManager(s)
-----------------------------------------------------------------------------
(***************************************************************************)
(* The end of a session.                                                   *)
(***************************************************************************)

\* A manager lives while a session or the slot holds it.
Held(m) == slot = m \/ \E t \in Sessions : manager[t] = m

\* Models that refer to a manager by a raw pointer, outside of session s.
Borrowed(s, m) ==
    \E q \in shared \cup UNION {models[t] \cup table[t] : t \in Sessions \ {s}} :
        q.manager = m

\* The application ends a session; it keeps a session whose manager is used
\* by models that went to other sessions.
DestroySession(s) ==
    /\ pc[s] \in {"ready", "failed"}
    /\ LET m == manager[s]
           last == slot # m /\ \A t \in Sessions \ {s} : manager[t] # m
       IN m # None /\ last => ~Borrowed(s, m)
    /\ Goto(s, "gone")
    /\ manager' = [manager EXCEPT ![s] = None]
    /\ models' = [models EXCEPT ![s] = {}]
    /\ table' = [table EXCEPT ![s] = {}]
    /\ UNCHANGED <<setup, at, backend, slot, terminated, outputs, exchange>>

Step(s) ==
    \/ Construct(s) \/ SettleAllocator(s) \/ StopSharing(s)
    \/ ValidateCompatibility(s) \/ ReleaseProbe(s) \/ GetCapability(s)
    \/ SetupBackend(s) \/ Look(s) \/ CompileContextModel(s) \/ LockShared(s)
    \/ GetSharedQnnModel(s) \/ LoadBinary(s) \/ AssignModels(s)
    \/ SetSharedQnnModel(s) \/ CompileGraphs(s) \/ ReadContextBinary(s)
    \/ WriteContextBinary(s) \/ PublishManager(s)

Next ==
    /\ ~terminated
    /\ \E s \in Sessions : \/ Step(s) \/ DestroySession(s)
                          \/ SetupBackendFails(s) \/ LoadFails(s)
                          \/ TakenModelRejected(s) \/ FoundModelRejected(s)
                          \/ CompileFails(s) \/ WriteFails(s)

Spec == Init /\ [][Next]_vars

\* A session that is being created goes on.
FairSpec == Spec /\ \A s \in Sessions : WF_vars(~terminated /\ Step(s))
-----------------------------------------------------------------------------
Model ==
    [graph : Graphs, key : Graphs, by : Sessions, manager : Sessions,
     context : Nat \ {0}, path : Binaries \cup {None}]

\* A QnnModel that one session deserialized has one owner at any time: the
\* session that loaded it, the shared vector, or the session that took it
\* (SetSharedQnnModel and GetSharedQnnModel move unique_ptrs), although the
\* sessions look without a lock, publish and take in any order.
OneOwner ==
    LET id(q) == <<q.graph, q.by, q.context>>
        ids(S) == {id(q) : q \in S}
    IN /\ \A s \in Sessions :
            /\ ids(models[s] \cup table[s]) \cap ids(shared) = {}
            /\ \A t \in Sessions \ {s} :
                 ids(models[s] \cup table[s]) \cap ids(models[t] \cup table[t]) = {}
       /\ \A q, r \in shared : q.graph = r.graph => q = r

\* A session that came out of CompileContextModel without an error has, for
\* every EPContext node of its model, the graph of that name, deserialized
\* from a binary that contains it, on a backend manager that is alive and set
\* up: whatever other sessions loaded, took, published or destroyed meanwhile.
ReadySessionsCanRun ==
    \A s \in Sessions : pc[s] = "ready" =>
        /\ {q.graph : q \in models[s]} = Range(Nodes(s))
        /\ \A q, r \in models[s] : q.graph = r.graph => q = r
        /\ \A q \in models[s] :
             /\ Held(q.manager)
             /\ backend[q.manager].up
             /\ IsLoad(s) => /\ q.context \in DOMAIN backend[q.manager].contexts
                             /\ q.graph \in GraphsOf[backend[q.manager].contexts[q.context]]

\* The session that ends a group of weight-sharing sessions writes one binary
\* with the graphs of every session that succeeded on the same manager, and
\* all of their EPContext nodes name that file; as long as no session fails,
\* nobody else names it (CreateEPContextNodes, the stop of sharing in the
\* constructor).
GroupBinaryComplete ==
    \A s, t \in Sessions :
        /\ nodeFile[s] # None /\ Config(s).stop /\ pc[s] = "ready"
        /\ nodeFile[t] # None /\ pc[t] = "ready"
        /\ \/ group[s] = group[t]
           \/ /\ nodeFile[s] = nodeFile[t]
              /\ \A u \in Sessions : pc[u] \notin {"failed", "gone"}
        => nodeFile[t] = nodeFile[s] /\ Range(Nodes(t)) \subseteq files[nodeFile[s]]

Wanted(s) == Range(Nodes(s))

\* The rule of shared_context.h: a session that starts after the sessions that
\* published its graphs, and is the only one that wants them, is created from
\* the published models, unless some session read the vector of shared models
\* while another changed it (HasQnnModel does not lock) or a model it took could
\* not be set up.
ConsumersServed ==
    \A s \in Sessions :
        ( /\ pc[s] = "new" /\ Config(s).kind = "load" /\ Config(s).share
          /\ \A n \in Wanted(s) : InShared(n)
          /\ \A t \in Sessions \ {s} : IsLoad(t) => Wanted(t) \cap Wanted(s) = {} )
        ~> (pc[s] \in {"ready", "gone"} \/ raced \/ s \in rejected)
=============================================================================
