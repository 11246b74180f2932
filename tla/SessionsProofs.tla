--------------------------- MODULE SessionsProofs ---------------------------
(***************************************************************************)
(* Proofs about Sessions, for any sessions, graphs, binaries and           *)
(* configurations.  OneOwner needs OwnerInv: where each session is and of  *)
(* which kind (PlaceInv), which models it can have there (OwnInv), that    *)
(* models found outside the session that made them come from one that is   *)
(* created (AbroadInv), and that no two owners have the same model         *)
(* (Apart).  ReadySessionsCanRun needs RunInv, which adds what managers   *)
(* promise: sharing sessions are created one at a time (SerialInv), models *)
(* belong to a manager that is kept (HomeInv), names lead to the contexts  *)
(* of their binaries (NamesInv), contexts of models stay (ModelsInv), a    *)
(* release meets no models (UpInv), and a session has the models of the    *)
(* nodes it has been through (ProgressInv).  The lemmas say first what     *)
(* each action does to places, managers and models, then that it keeps     *)
(* each conjunct.                                                          *)
(***************************************************************************)
EXTENDS Sessions, TLAPS

\* Leaves are for Zenon unless they name another prover.
USE Zenon

-----------------------------------------------------------------------------
\* Where a session is before it has a model.
Early == {"new", "constructed", "stopping", "built", "probing", "checked",
          "validated", "look1", "setup", "compile", "look2", "compose"}
\* The points of a session that compiles, after its graphs are composed.
Written == {"serialize", "write", "handover", "offer"}
\* The points at which a session is not being created.
Over == {"ready", "failed", "gone"}
\* All points of a session.
Pcs == Early \cup {"load", "take", "assign", "publish"} \cup Written \cup Over

\* The memory allocators a manager can have.
Allocs == {"none"} \cup UNION {{c[s].alloc : s \in Sessions} : c \in Configs}
\* The type of a backend manager.
Managers ==
    [up : BOOLEAN, sharing : BOOLEAN, alloc : Allocs, compiled : SUBSET Graphs,
     contexts : Seq(Binaries), names : [Names -> Nat]]
\* Types: where the sessions are and what they look at.
PlacesOK ==
    /\ config \in Configs
    /\ pc \in [Sessions -> Pcs]
    /\ at \in [Sessions -> Nat \ {0}]
    /\ manager \in [Sessions -> Sessions \cup {None}]
    /\ slot \in Sessions \cup {None}

\* Types: the backend managers.
ManagersOK == backend \in [Sessions -> Managers]

\* Types: the models of the shared vector, of the tables and of the sessions.
ModelsOK ==
    /\ shared \in SUBSET Model
    /\ table \in [Sessions -> SUBSET Model]
    /\ models \in [Sessions -> SUBSET Model]

\* Type correctness of the sessions' state.
TypeOK == PlacesOK /\ ManagersOK /\ ModelsOK

\* Which kind of session is at which point, and what it looks at.
PlaceAt(s, l, a, m) ==
    /\ l \in {"look1", "compile", "look2", "take", "load", "assign", "publish"} => IsLoad(s)
    /\ l \in {"compose"} \cup Written => ~IsLoad(s)
    /\ l = "probing" => Config(s).kind = "htp"
    /\ l = "publish" => Config(s).share
    /\ l \in {"setup", "compile", "compose"} => a = 1
    /\ l \in {"look1", "look2", "take", "assign"} => a \in DOMAIN Nodes(s)
    /\ l = "load" => a \in DOMAIN Config(s).bins
    /\ l \notin {"new", "failed", "gone"} => m # None

\* PlaceAt for the point at which session s is now.
PlaceOK(s) == PlaceAt(s, pc[s], at[s], manager[s])

\* Every session is at a point of its kind.
PlaceInv == \A s \in Sessions : PlaceOK(s)

\* Where the models of a session are while it is created.
NoneYet(s) ==
    /\ pc[s] \in Early => models[s] = {} /\ table[s] = {}
    /\ pc[s] = "load" => models[s] = {}
    /\ pc[s] \in Written \cup {"take"} => table[s] = {}
\* The table of a session holds what it deserialized, one model a graph.
TableOK(s) ==
    /\ \A q \in table[s] : q.by = s /\ q.key = q.graph
    /\ \A q, r \in table[s] : q.graph = r.graph => q = r
    /\ \A q \in table[s] : \A r \in models[s] : q.graph # r.graph
\* Every session has the models of its point.
OwnInv == \A s \in Sessions : NoneYet(s) /\ TableOK(s)

\* Whose models may be with others.
AbroadInv ==
    /\ \A q \in shared : pc[q.by] \in Over
    /\ \A s \in Sessions : \A q \in models[s] : q.by = s \/ pc[q.by] \in Over

\* OneOwner, model by model.
Same(q, r) == q.graph = r.graph /\ q.by = r.by /\ q.context = r.context
\* The models that session s owns.
Mine(s) == models[s] \cup table[s]
\* No model is owned twice.
Apart ==
    /\ \A s \in Sessions : \A q \in Mine(s) : \A r \in shared : ~Same(q, r)
    /\ \A s, t \in Sessions : s # t =>
         \A q \in Mine(s) : \A r \in Mine(t) : ~Same(q, r)
    /\ \A q, r \in shared : q.graph = r.graph => q = r

\* The inductive invariant of OneOwner.
OwnerInv == TypeOK /\ PlaceInv /\ OwnInv /\ AbroadInv /\ Apart

\* A session fails while its models are loaded, taken or given to nodes: the
\* models in its table, or the one it took, are lost.
Drops(s) ==
    /\ pc[s] \in {"load", "take", "assign"}
    /\ pc' = [pc EXCEPT ![s] = "failed"]
    /\ shared' \subseteq shared
    /\ \E T \in SUBSET table[s] : table' = [table EXCEPT ![s] = T]
    /\ UNCHANGED <<config, group, at, manager, backend, slot, models, binName,
                   buffer, nodeFile, files>>

\* One step of a session.
StepOf(s) ==
    \/ Step(s) \/ DestroySession(s) \/ SetupBackendFails(s) \/ Drops(s)
    \/ CompileFails(s) \/ WriteFails(s)

\* The failures of CompileContextModel drop models.
LEMMA Failures ==
    ASSUME TypeOK, NEW s \in Sessions,
           LoadFails(s) \/ TakenModelRejected(s) \/ FoundModelRejected(s)
    PROVE  Drops(s)
<1>1. /\ table = [table EXCEPT ![s] = table[s]] /\ table[s] \in SUBSET table[s]
      /\ {} \in SUBSET table[s]
  BY DEF TypeOK, ModelsOK
<1>2. CASE LoadFails(s)
  BY <1>1, <1>2 DEF LoadFails, Abandon, Goto, Drops, setup, exchange, outputs
<1>3. CASE TakenModelRejected(s)
  BY <1>1, <1>3 DEF TakenModelRejected, Goto, Drops, owned, outputs
<1>4. CASE FoundModelRejected(s)
  BY <1>1, <1>4 DEF FoundModelRejected, Abandon, Goto, Drops, exchange, outputs
<1> QED
  BY <1>2, <1>3, <1>4

\* A step of the specification is a step of one session.
LEMMA NextStep ==
    ASSUME TypeOK, Next
    PROVE  \E s \in Sessions : StepOf(s)
BY Failures DEF Next, StepOf

\* AssignModels moves models from the table to the session, or fails.
LEMMA AssignEffect ==
    ASSUME TypeOK, NEW s \in Sessions, AssignModels(s)
    PROVE  \/ Drops(s)
           \/ \E found \in SUBSET table[s] :
                /\ models' = [models EXCEPT ![s] = models[s] \cup found]
                /\ table' = [table EXCEPT ![s] = table[s] \ found]
                /\ shared' = shared
<1> DEFINE name == Nodes(s)[at[s]]
           main == MainNode(s, Config(s).bins[1])
           byName == {q \in table[s] : q.key = name}
           found == IF byName # {} THEN byName ELSE {q \in table[s] : q.key = main}
<1>1. found \in SUBSET table[s] /\ {} \in SUBSET table[s]
  OBVIOUS
<1>2. CASE found = {}
  BY <1>1, <1>2 DEF AssignModels, Abandon, Goto, Drops, setup, exchange, outputs
<1>3. CASE found # {}
  <2>1. /\ models' = [models EXCEPT ![s] = models[s] \cup found]
        /\ table' = [table EXCEPT ![s] = table[s] \ found]
        /\ shared' = shared
    BY <1>3 DEF AssignModels, exchange
  <2> QED
    BY <1>1, <2>1
<1> QED
  BY <1>2, <1>3

\* A failure leaves no new model anywhere.
LEMMA DropEffect ==
    ASSUME TypeOK, NEW s \in Sessions, Drops(s)
    PROVE  /\ shared' \subseteq shared /\ models' = models
           /\ table' \in [Sessions -> SUBSET Model]
           /\ \A t \in Sessions : table'[t] \subseteq table[t]
           /\ \A t \in Sessions : t # s => table'[t] = table[t]
<1>1. table \in [Sessions -> SUBSET Model]
  BY DEF TypeOK, ModelsOK
<1>2. PICK T \in SUBSET table[s] : table' = [table EXCEPT ![s] = T]
  BY DEF Drops
<1>3. T \in SUBSET Model
  BY <1>1
<1> QED
  BY <1>1, <1>2, <1>3 DEF Drops

-----------------------------------------------------------------------------
\* What the assumption on the configurations says of one session.
LEMMA ConfigFacts ==
    ASSUME config \in Configs, NEW s \in Sessions
    PROVE  /\ Config(s).kind \in {"generate", "load", "htp"}
           /\ Config(s).share \in BOOLEAN /\ Config(s).stop \in BOOLEAN
           /\ Nodes(s) \in Seq(Graphs) /\ Nodes(s) # <<>>
           /\ \A i, j \in DOMAIN Nodes(s) : Nodes(s)[i] = Nodes(s)[j] => i = j
           /\ Config(s).bins \in Seq(Binaries)
           /\ IsLoad(s) => \A n \in Range(Nodes(s)) :
                             \E b \in Range(Config(s).bins) : n \in GraphsOf[b]
           /\ ~IsLoad(s) => Config(s).bins = <<>>
BY ConfigsWellFormed DEF Config, Nodes, IsLoad

\* A model has a first node; a context model has a first binary.
LEMMA FirstOnes ==
    ASSUME config \in Configs, NEW s \in Sessions
    PROVE  /\ 1 \in DOMAIN Nodes(s) /\ Len(Nodes(s)) \in Nat
           /\ DOMAIN Nodes(s) = 1 .. Len(Nodes(s))
           /\ DOMAIN Config(s).bins = 1 .. Len(Config(s).bins)
           /\ Len(Config(s).bins) \in Nat
           /\ IsLoad(s) => 1 \in DOMAIN Config(s).bins
<1>1. /\ Nodes(s) \in Seq(Graphs) /\ Nodes(s) # <<>>
      /\ Config(s).bins \in Seq(Binaries)
  BY ConfigFacts
<1>2. /\ 1 \in DOMAIN Nodes(s) /\ Len(Nodes(s)) \in Nat
      /\ DOMAIN Nodes(s) = 1 .. Len(Nodes(s))
      /\ DOMAIN Config(s).bins = 1 .. Len(Config(s).bins)
      /\ Len(Config(s).bins) \in Nat
  BY <1>1, SMT
<1>3. ASSUME IsLoad(s) PROVE 1 \in DOMAIN Config(s).bins
  <2>1. Nodes(s)[1] \in Range(Nodes(s))
    BY <1>2 DEF Range
  <2>2. PICK b \in Range(Config(s).bins) : TRUE
    BY <2>1, <1>3, ConfigFacts
  <2>3. PICK i \in DOMAIN Config(s).bins : TRUE
    BY <2>2 DEF Range
  <2> QED
    BY <2>3, <1>1, SMT
<1> QED
  BY <1>2, <1>3

\* The main node of a binary is a node of the model and a graph of the binary.
LEMMA MainNodes ==
    ASSUME config \in Configs, NEW s \in Sessions, NEW b \in Range(Config(s).bins)
    PROVE  /\ b \in Binaries
           /\ MainNode(s, b) \in Range(Nodes(s)) /\ MainNode(s, b) \in Graphs
           /\ MainNode(s, b) \in GraphsOf[b]
<1> DEFINE I == NodesIn(Nodes(s), b)
           k == CHOOSE i \in I : \A j \in I : i <= j
<1>1. /\ Nodes(s) \in Seq(Graphs) /\ Config(s).bins \in Seq(Binaries)
      /\ \E i \in I : \A j \in I : i <= j
  BY ConfigsWellFormed DEF Config, Nodes
<1>2. b \in Binaries
  BY <1>1, SMT DEF Range
<1>6. k \in I
  BY <1>1
<1> HIDE DEF k, I
<1>7. k \in DOMAIN Nodes(s) /\ Nodes(s)[k] \in GraphsOf[b]
  BY <1>6 DEF I, NodesIn
<1>8. MainNode(s, b) = Nodes(s)[k]
  BY DEF MainNode, FirstIn, k, I
<1> QED
  BY <1>1, <1>2, <1>7, <1>8, SMT DEF Range

-----------------------------------------------------------------------------
\* Managers keep their types.
LEMMA FreshType ==
    ASSUME NEW b \in Managers
    PROVE  Released(b) \in Managers /\ FreshManager \in Managers
<1>1. [x \in Names |-> 0] \in [Names -> Nat]
  BY SMT
<1>2. <<>> \in Seq(Binaries)
  BY SMT
<1>3. FreshManager \in Managers
  <2>1. "none" \in Allocs /\ {} \in SUBSET Graphs
    BY DEF Allocs
  <2> QED
    BY <1>1, <1>2, <2>1 DEF FreshManager, Managers
<1> QED
  BY <1>3 DEF Released, Managers

\* Contexts of a manager for some binaries of a session: what WithContexts adds.
LEMMA WithContextsFields ==
    ASSUME config \in Configs, NEW b \in Managers, NEW s \in Sessions,
           NEW bins \in Seq(Binaries), Range(bins) \subseteq Range(Config(s).bins)
    PROVE  LET w == WithContexts(b, s, bins)
           IN  /\ w \in Managers
               /\ w.up = b.up /\ w.sharing = b.sharing /\ w.compiled = b.compiled
               /\ w.contexts = b.contexts \o bins
               /\ \A x \in Names :
                    \/ w.names[x] = b.names[x]
                    \/ \E i \in DOMAIN bins :
                         /\ x \in {bins[i], MainNode(s, bins[i])}
                         /\ w.names[x] = Len(b.contexts) + i
<1> DEFINE of(x) == {i \in DOMAIN bins : x \in {bins[i], MainNode(s, bins[i])}}
           v(x) == IF b.names[x] # 0 \/ of(x) = {} THEN b.names[x]
                   ELSE Len(b.contexts) + CHOOSE i \in of(x) : TRUE
           n == [x \in Names |-> v(x)]
           c == b.contexts \o bins
           w == WithContexts(b, s, bins)
<1>1. w = [b EXCEPT !.contexts = c, !.names = n]
  BY DEF WithContexts
<1>2. b.contexts \in Seq(Binaries) /\ b.names \in [Names -> Nat] /\ Len(b.contexts) \in Nat
  BY SMT DEF Managers
<1>3. c \in Seq(Binaries)
  BY <1>2, SMT
<1>4. ASSUME NEW x \in Names
      PROVE  \/ v(x) = b.names[x]
             \/ \E i \in DOMAIN bins :
                  /\ x \in {bins[i], MainNode(s, bins[i])}
                  /\ v(x) = Len(b.contexts) + i
  <2>1. CASE b.names[x] # 0 \/ of(x) = {}
    BY <2>1
  <2>2. CASE ~(b.names[x] # 0 \/ of(x) = {})
    <3>1. (CHOOSE i \in of(x) : TRUE) \in of(x)
      BY <2>2
    <3> QED
      BY <3>1, <2>2
  <2> QED
    BY <2>1, <2>2
<1>5. \A x \in Names : v(x) \in Nat
  <2>1. \A i \in DOMAIN bins : i \in Nat
    BY SMT
  <2>2. \A i \in DOMAIN bins : Len(b.contexts) + i \in Nat
    BY <2>1, <1>2, SMT
  <2> QED
    BY <2>2, <1>2, <1>4
<1>6. n \in [Names -> Nat] /\ \A x \in Names : n[x] = v(x)
  BY <1>5
<1> HIDE DEF n, c, w, v
<1>7. w \in Managers
  BY <1>1, <1>3, <1>6 DEF Managers
<1>8. /\ w.up = b.up /\ w.sharing = b.sharing /\ w.compiled = b.compiled
      /\ w.contexts = c /\ w.names = n
  BY <1>1 DEF Managers
<1> QED
  BY <1>4, <1>6, <1>7, <1>8 DEF w, c

\* A part of the binaries of a session.
LEMMA PartOfBinaries ==
    ASSUME config \in Configs, NEW s \in Sessions, NEW k \in 0 .. Len(Config(s).bins) - 1
    PROVE  LET p == [i \in 1 .. k |-> Config(s).bins[i]]
           IN  p \in Seq(Binaries) /\ Range(p) \subseteq Range(Config(s).bins)
<1> DEFINE p == [i \in 1 .. k |-> Config(s).bins[i]]
<1>1. Config(s).bins \in Seq(Binaries)
  BY ConfigFacts
<1>2. \A i \in 1 .. k : i \in DOMAIN Config(s).bins /\ Config(s).bins[i] \in Binaries
  BY <1>1, SMT
<1>3. p \in Seq(Binaries)
  BY <1>2, SMT
<1>4. Range(p) \subseteq Range(Config(s).bins)
  BY <1>2 DEF Range
<1> QED
  BY <1>3, <1>4

\* A manager after its set-up by a session.
LEMMA AfterSetUpFields ==
    ASSUME config \in Configs, NEW b \in Managers, NEW s \in Sessions
    PROVE  LET w == AfterSetUp(s, b)
               u == [b EXCEPT !.up = TRUE, !.sharing = (Config(s).kind = "htp")]
           IN  /\ u \in Managers /\ u.contexts = b.contexts /\ u.names = b.names
               /\ w \in Managers
               /\ w.up /\ w.sharing = (Config(s).kind = "htp") /\ w.compiled = b.compiled
               /\ w = IF Config(s).kind = "htp"
                      THEN WithContexts(u, s, Config(s).bins) ELSE u
<1> DEFINE h == (Config(s).kind = "htp")
           u == [b EXCEPT !.up = TRUE, !.sharing = h]
           w == AfterSetUp(s, b)
<1>0. h \in BOOLEAN
  OBVIOUS
<1> HIDE DEF h
<1>1. u \in Managers /\ u.contexts = b.contexts /\ u.names = b.names
      /\ u.sharing = h /\ u.up = TRUE /\ u.compiled = b.compiled
  BY <1>0 DEF Managers
<1>2. w = IF u.sharing THEN WithContexts(u, s, Config(s).bins) ELSE u
  BY DEF AfterSetUp, h
<1> HIDE DEF u, w
<1>3. Config(s).bins \in Seq(Binaries)
  BY ConfigFacts
<1>4. LET x == WithContexts(u, s, Config(s).bins)
      IN  /\ x \in Managers /\ x.up = u.up /\ x.sharing = u.sharing
          /\ x.compiled = u.compiled
  BY <1>1, <1>3, WithContextsFields
<1> QED
  BY <1>1, <1>2, <1>4 DEF h, u, w

\* What a set-up by an adopted, sharing manager does to it.
ReusedOK(s, b, w) ==
    /\ w \in Managers
    /\ w.up = b.up /\ w.sharing = b.sharing /\ w.compiled = b.compiled
    /\ \/ /\ w.contexts = b.contexts \o Config(s).bins
          /\ \A x \in Names :
               \/ w.names[x] = b.names[x]
               \/ \E i \in DOMAIN Config(s).bins :
                    /\ x \in {Config(s).bins[i], MainNode(s, Config(s).bins[i])}
                    /\ w.names[x] = Len(b.contexts) + i
       \/ /\ w.contexts = b.contexts
          /\ \A x \in Names :
               \/ w.names[x] = b.names[x]
               \/ \E c \in Range(Config(s).bins) :
                    MainNode(s, c) = x /\ w.names[x] = b.names[c]

\* Set-up of a session that finds its manager up and sharing: one manager
\* changes, and only by contexts and names.
LEMMA ReuseFields ==
    ASSUME config \in Configs, NEW s \in Sessions, NEW first, manager[s] \in Sessions,
           ManagersOK, ReuseSharing(s, first)
    PROVE  \E w : /\ backend' = [backend EXCEPT ![manager[s]] = w]
                  /\ ReusedOK(s, backend[manager[s]], w)
<1> DEFINE b == backend[manager[s]]
           bins == Config(s).bins
           main(x) == {c \in Range(bins) : MainNode(s, c) = x}
           v(x) == IF b.names[x] # 0 \/ main(x) = {} THEN b.names[x]
                   ELSE b.names[CHOOSE c \in main(x) : TRUE]
           n == [x \in Names |-> v(x)]
<1>1. b \in Managers /\ b = Mgr(s)
  BY DEF Mgr, ManagersOK
<1>2. b.names \in [Names -> Nat] /\ b.contexts \in Seq(Binaries)
  BY <1>1 DEF Managers
<1>3. bins \in Seq(Binaries)
  BY ConfigFacts
<1>4. CASE b.names[first] = 0
  <2> DEFINE w == WithContexts(b, s, bins)
  <2>1. backend' = [backend EXCEPT ![manager[s]] = w]
    BY <1>4 DEF ReuseSharing, Mgr
  <2>2. ReusedOK(s, b, w)
    BY <1>1, <1>3, WithContextsFields DEF ReusedOK
  <2> QED
    BY <2>1, <2>2
<1>5. CASE b.names[first] # 0 /\ terminated'
  <2>1. backend' = backend
    BY <1>5 DEF ReuseSharing, Mgr
  <2>2. backend' = [backend EXCEPT ![manager[s]] = b]
    BY <2>1, <1>1 DEF ManagersOK
  <2>3. ReusedOK(s, b, b)
    BY <1>1 DEF ReusedOK
  <2> QED
    BY <2>2, <2>3
<1>6. CASE b.names[first] # 0 /\ ~terminated'
  <2> DEFINE w == [b EXCEPT !.names = n]
  <2>1. ASSUME NEW x \in Names
        PROVE  /\ v(x) \in Nat
               /\ \/ v(x) = b.names[x]
                  \/ \E c \in Range(bins) : MainNode(s, c) = x /\ v(x) = b.names[c]
    <3>1. CASE b.names[x] # 0 \/ main(x) = {}
      BY <3>1, <1>2
    <3>2. CASE ~(b.names[x] # 0 \/ main(x) = {})
      <4> DEFINE c == CHOOSE c \in main(x) : TRUE
      <4>1. c \in main(x)
        BY <3>2
      <4> HIDE DEF c
      <4>2. c \in Names
        BY <4>1, <1>3, SMT DEF Range, Names
      <4> QED
        BY <4>1, <4>2, <3>2, <1>2 DEF c
    <3> QED
      BY <3>1, <3>2
  <2>2. n \in [Names -> Nat] /\ \A x \in Names : n[x] = v(x)
    BY <2>1
  <2>3. backend' = [backend EXCEPT ![manager[s]] = w]
    <3>1. backend' = [backend EXCEPT ![manager[s]].names =
                         [x \in Names |-> IF @[x] # 0 \/ main(x) = {} THEN @[x]
                                         ELSE @[CHOOSE c \in main(x) : TRUE]]]
      BY <1>6 DEF ReuseSharing, Mgr
    <3> QED
      BY <3>1
  <2> HIDE DEF n, v
  <2>4. /\ w \in Managers /\ w.names = n
        /\ w.up = b.up /\ w.sharing = b.sharing /\ w.compiled = b.compiled
        /\ w.contexts = b.contexts
    BY <2>2, <1>1 DEF Managers
  <2>5. ReusedOK(s, b, w)
    BY <2>1, <2>2, <2>4 DEF ReusedOK
  <2> QED
    BY <2>3, <2>5
<1> QED
  BY <1>4, <1>5, <1>6

-----------------------------------------------------------------------------
\* A step moves one session to a place where it may be.
MovesTo(s, l, a, m) ==
    /\ l \in Pcs /\ a \in Nat \ {0} /\ m \in Sessions \cup {None}
    /\ pc' = [pc EXCEPT ![s] = l]
    /\ at' = [at EXCEPT ![s] = a]
    /\ manager' = [manager EXCEPT ![s] = m]
    /\ PlaceAt(s, l, a, m)

\* Some move of session s.
Moved(s) == \E l, a, m : MovesTo(s, l, a, m)

\* A move of one session keeps the types and the places of all.
LEMMA MovedPlaces ==
    ASSUME TypeOK, PlaceInv, NEW s \in Sessions, Moved(s), config' = config
    PROVE  /\ PlaceInv'
           /\ pc' \in [Sessions -> Pcs] /\ at' \in [Sessions -> Nat \ {0}]
           /\ manager' \in [Sessions -> Sessions \cup {None}]
<1>1. PICK l, a, m : MovesTo(s, l, a, m)
  BY DEF Moved
<1>2. /\ pc' \in [Sessions -> Pcs] /\ at' \in [Sessions -> Nat \ {0}]
      /\ manager' \in [Sessions -> Sessions \cup {None}]
  BY <1>1 DEF MovesTo, TypeOK, PlacesOK
<1>3. ASSUME NEW t \in Sessions PROVE PlaceOK(t)'
  <2>1. CASE t = s
    <3>1. pc'[t] = l /\ at'[t] = a /\ manager'[t] = m /\ PlaceAt(t, l, a, m)
      BY <1>1, <2>1 DEF MovesTo, TypeOK, PlacesOK
    <3> QED
      BY <3>1 DEF PlaceOK, PlaceAt, IsLoad, Config, Nodes
  <2>2. CASE t # s
    <3>1. /\ pc'[t] = pc[t] /\ at'[t] = at[t] /\ manager'[t] = manager[t]
          /\ PlaceAt(t, pc[t], at[t], manager[t])
      BY <1>1, <2>2 DEF MovesTo, TypeOK, PlacesOK, PlaceInv, PlaceOK
    <3> QED
      BY <3>1 DEF PlaceOK, PlaceAt, IsLoad, Config, Nodes
  <2> QED
    BY <2>1, <2>2
<1> QED
  BY <1>2, <1>3 DEF PlaceInv

-----------------------------------------------------------------------------
\* What a session does to its manager: nothing, it replaces it.
Changes(s, w) == w \in Managers /\ backend' = [backend EXCEPT ![manager[s]] = w]

\* A session that is being created has a manager.
LEMMA HasManager ==
    ASSUME TypeOK, PlaceInv, NEW s \in Sessions, pc[s] \notin {"new", "failed", "gone"}
    PROVE  /\ manager[s] \in Sessions /\ Mgr(s) \in Managers /\ Mgr(s) = backend[manager[s]]
           /\ backend = [backend EXCEPT ![manager[s]] = Mgr(s)]
BY DEF TypeOK, PlacesOK, ManagersOK, PlaceInv, PlaceOK, PlaceAt, Mgr

\* SettleAllocator changes at most the allocator of the session's manager.
LEMMA SettleChanges ==
    ASSUME TypeOK, PlaceInv, NEW s \in Sessions, SettleAllocator(s)
    PROVE  Changes(s, Mgr(s)) \/ Changes(s, [Mgr(s) EXCEPT !.alloc = Config(s).alloc])
<1> DEFINE b == backend[manager[s]]
           w == [b EXCEPT !.alloc = Config(s).alloc]
<1>1. manager[s] \in Sessions /\ b \in Managers /\ Mgr(s) = b
      /\ backend = [backend EXCEPT ![manager[s]] = b]
  BY HasManager DEF SettleAllocator
<1>2. Config(s).alloc \in Allocs
  <2>1. config \in Configs
    BY DEF TypeOK, PlacesOK
  <2>2. config[s].alloc \in {config[t].alloc : t \in Sessions}
    OBVIOUS
  <2> QED
    BY <2>1, <2>2 DEF Allocs, Config
<1>3. w \in Managers
  BY <1>1, <1>2 DEF Managers
<1>4. \/ backend' = backend \/ backend' = [backend EXCEPT ![manager[s]] = w]
  BY DEF SettleAllocator
<1> QED
  BY <1>1, <1>3, <1>4 DEF Changes

\* ValidateCompatibility changes nothing of the managers, or brings up the
\* session's own for the probe.
LEMMA ValidateChanges ==
    ASSUME TypeOK, PlaceInv, NEW s \in Sessions, ValidateCompatibility(s)
    PROVE  \/ Changes(s, Mgr(s)) /\ pc' = [pc EXCEPT ![s] = "validated"]
           \/ ~Mgr(s).up /\ Changes(s, [Mgr(s) EXCEPT !.up = TRUE])
<1> DEFINE b == backend[manager[s]]
           w == [b EXCEPT !.up = TRUE]
<1>1. manager[s] \in Sessions /\ b \in Managers /\ Mgr(s) = b
      /\ backend = [backend EXCEPT ![manager[s]] = b]
  BY HasManager DEF ValidateCompatibility
<1>3. w \in Managers
  BY <1>1 DEF Managers
<1>4. \/ backend' = backend /\ pc' = [pc EXCEPT ![s] = "validated"]
      \/ ~Mgr(s).up /\ backend' = [backend EXCEPT ![manager[s]] = w]
  BY DEF ValidateCompatibility, Goto
<1> QED
  BY <1>1, <1>3, <1>4 DEF Changes

\* ReleaseProbe releases the session's manager.
LEMMA ReleaseChanges ==
    ASSUME TypeOK, PlaceInv, NEW s \in Sessions, ReleaseProbe(s)
    PROVE  Changes(s, Released(Mgr(s)))
BY HasManager, FreshType DEF ReleaseProbe, Changes

\* GetCapability leaves the managers alone, or releases what the compatibility
\* check of a session that compiles had brought up.
LEMMA CapabilityChanges ==
    ASSUME TypeOK, PlaceInv, NEW s \in Sessions, GetCapability(s)
    PROVE  \/ Changes(s, Mgr(s))
           \/ pc[s] = "checked" /\ ~IsLoad(s) /\ Changes(s, Released(Mgr(s)))
BY HasManager, FreshType DEF GetCapability, Changes

\* SetupBackend finds a manager that is up, adds to one that is up and shares,
\* or brings one up.
LEMMA SetupChanges ==
    ASSUME TypeOK, PlaceInv, NEW s \in Sessions, SetupBackend(s)
    PROVE  \/ Mgr(s).up /\ Changes(s, Mgr(s))
           \/ /\ Mgr(s).up /\ Mgr(s).sharing
              /\ \E w : Changes(s, w) /\ ReusedOK(s, Mgr(s), w)
           \/ ~Mgr(s).up /\ Changes(s, AfterSetUp(s, Mgr(s)))
<1>1. manager[s] \in Sessions /\ Mgr(s) \in Managers /\ Mgr(s) = backend[manager[s]]
      /\ backend = [backend EXCEPT ![manager[s]] = Mgr(s)]
  BY HasManager DEF SetupBackend
<1>2. config \in Configs /\ ManagersOK
  BY DEF TypeOK, PlacesOK
<1>3. CASE ~Mgr(s).up
  <2>1. AfterSetUp(s, Mgr(s)) \in Managers
    BY <1>1, <1>2, AfterSetUpFields
  <2> QED
    BY <2>1, <1>3, <1>1 DEF SetupBackend, Changes
<1>4. CASE Mgr(s).up /\ ~Mgr(s).sharing
  BY <1>4, <1>1 DEF SetupBackend, Changes
<1>5. CASE Mgr(s).up /\ Mgr(s).sharing
  <2>1. PICK first \in Range(Config(s).bins) : ReuseSharing(s, first)
    BY <1>5 DEF SetupBackend
  <2>2. PICK w : /\ backend' = [backend EXCEPT ![manager[s]] = w]
                 /\ ReusedOK(s, backend[manager[s]], w)
    BY <2>1, <1>1, <1>2, ReuseFields
  <2> QED
    <3>1. w \in Managers
      BY <2>2 DEF ReusedOK
    <3> QED
      BY <2>2, <3>1, <1>1, <1>5 DEF Changes
<1> QED
  BY <1>3, <1>4, <1>5

\* A set-up that fails leaves some of the contexts in a manager that was up,
\* and a released manager otherwise.
LEMMA SetupFailsChanges ==
    ASSUME TypeOK, PlaceInv, NEW s \in Sessions, SetupBackendFails(s)
    PROVE  \/ /\ Mgr(s).up /\ Mgr(s).sharing
              /\ \E bins \in Seq(Binaries) :
                   /\ Range(bins) \subseteq Range(Config(s).bins)
                   /\ Changes(s, WithContexts(Mgr(s), s, bins))
           \/ ~Mgr(s).up /\ Changes(s, Released(Mgr(s)))
<1>1. manager[s] \in Sessions /\ Mgr(s) \in Managers /\ Mgr(s) = backend[manager[s]]
  BY HasManager DEF SetupBackendFails
<1>2. config \in Configs
  BY DEF TypeOK, PlacesOK
<1>3. CASE ~Mgr(s).up
  BY <1>3, <1>1, FreshType DEF SetupBackendFails, Changes
<1>4. CASE Mgr(s).up
  <2>1. PICK k \in 0 .. Len(Config(s).bins) - 1 :
          backend' = [backend EXCEPT ![manager[s]] =
                        WithContexts(@, s, [i \in 1 .. k |-> Config(s).bins[i]])]
    BY <1>4 DEF SetupBackendFails
  <2> DEFINE p == [i \in 1 .. k |-> Config(s).bins[i]]
  <2>2. p \in Seq(Binaries) /\ Range(p) \subseteq Range(Config(s).bins)
    BY <1>2, PartOfBinaries
  <2>3. backend' = [backend EXCEPT ![manager[s]] = WithContexts(Mgr(s), s, p)]
    BY <2>1, <1>1
  <2> HIDE DEF p
  <2>4. WithContexts(Mgr(s), s, p) \in Managers
    BY <2>2, <1>1, <1>2, WithContextsFields
  <2> QED
    BY <2>2, <2>3, <2>4, <1>4 DEF Changes, SetupBackendFails
<1> QED
  BY <1>3, <1>4

\* The next binary of a session that loads, the context it gets, and the model
\* of one of its graphs.
Bin(s) == Config(s).bins[at[s]]
\* The context of the binary that session s deserializes; 0 if there is none.
LoadContext(s) ==
    IF Mgr(s).sharing THEN Mgr(s).names[MainNode(s, Bin(s))]
    ELSE Len(Mgr(s).contexts) + 1
\* The model of graph g that session s gets from its binary.
NewModel(s, g) ==
    [graph |-> g, key |-> g, by |-> s, manager |-> manager[s],
     context |-> LoadContext(s), path |-> Bin(s)]
\* The graphs that a set of models is for.
Got(S) == {q.graph : q \in S}
\* The models in the session's table after the path is set on each.
Filed(s) == {[q EXCEPT !.path = Bin(s)] : q \in table[s]}
\* The models that deserializing the binary adds to the session's table.
Loaded(s) == {NewModel(s, g) : g \in GraphsOf[Bin(s)] \ Got(table[s])}
\* The manager after the binary is deserialized.
AfterLoad(s) ==
    [Mgr(s) EXCEPT !.contexts = IF Mgr(s).sharing THEN @ ELSE Append(@, Bin(s))]

\* A binary of one graph has that graph as its main node: a model is always
\* filed under the name of its graph.
LEMMA KeyIsGraph ==
    ASSUME config \in Configs, NEW s \in Sessions, NEW b \in Range(Config(s).bins),
           NEW g \in GraphsOf[b]
    PROVE  (IF \E x \in Graphs : GraphsOf[b] = {x} THEN MainNode(s, b) ELSE g) = g
BY MainNodes

\* LoadBinary in these terms.
LEMMA LoadEffect ==
    ASSUME TypeOK, PlaceInv, OwnInv, NEW s \in Sessions, LoadBinary(s)
    PROVE  /\ pc[s] = "load" /\ Bin(s) \in Range(Config(s).bins)
           /\ UNCHANGED <<config, manager, slot, shared, models>>
           /\ \/ Drops(s) /\ pc' = [pc EXCEPT ![s] = "failed"] /\ UNCHANGED <<at, backend>>
              \/ /\ Mgr(s).up /\ LoadContext(s) # 0
                 /\ table' = [table EXCEPT ![s] = Filed(s) \cup Loaded(s)]
                 /\ backend' = [backend EXCEPT ![manager[s]] = AfterLoad(s)]
                 /\ \/ /\ at[s] < Len(Config(s).bins)
                       /\ at' = [at EXCEPT ![s] = @ + 1] /\ pc' = pc
                    \/ /\ ~(at[s] < Len(Config(s).bins))
                       /\ at' = [at EXCEPT ![s] = 1]
                       /\ pc' = [pc EXCEPT ![s] = "assign"]
<1> DEFINE b == Mgr(s)
           bin == Config(s).bins[at[s]]
           ctx == IF b.sharing THEN b.names[MainNode(s, bin)]
                  ELSE Len(b.contexts) + 1
           key(g) == IF \E x \in Graphs : GraphsOf[bin] = {x} THEN MainNode(s, bin) ELSE g
           known == {q.key : q \in table[s]}
           new == {[graph |-> g, key |-> key(g), by |-> s, manager |-> manager[s],
                    context |-> ctx, path |-> bin] :
                     g \in {x \in GraphsOf[bin] : key(x) \notin known}}
           filed == {[q EXCEPT !.path = bin] : q \in table[s]}
<1>1. config \in Configs /\ pc[s] = "load" /\ at[s] \in DOMAIN Config(s).bins
  BY DEF TypeOK, PlacesOK, PlaceInv, PlaceOK, PlaceAt, LoadBinary
<1>2. bin \in Range(Config(s).bins) /\ bin = Bin(s)
  BY <1>1 DEF Range, Bin
<1>3. \A g \in GraphsOf[bin] : key(g) = g
  BY <1>1, <1>2, KeyIsGraph
<1>4. known = Got(table[s])
  <2>1. \A q \in table[s] : q.key = q.graph
    BY DEF OwnInv, TableOK
  <2> QED
    BY <2>1 DEF Got
<1>5. ctx = LoadContext(s) /\ filed = Filed(s)
  BY <1>2 DEF LoadContext, Filed
<1>6. new = Loaded(s)
  BY <1>2, <1>3, <1>4, <1>5 DEF Loaded, NewModel
<1>7. UNCHANGED <<config, manager, slot, shared, models>>
  BY DEF LoadBinary, setup, exchange
<1>8. \/ (~b.up \/ ctx = 0) /\ Abandon(s) /\ UNCHANGED <<at, backend>>
      \/ /\ ~(~b.up \/ ctx = 0)
         /\ table' = [table EXCEPT ![s] = filed \cup new]
         /\ backend' = [backend EXCEPT ![manager[s]].contexts =
                          IF b.sharing THEN @ ELSE Append(@, bin)]
         /\ IF at[s] < Len(Config(s).bins)
            THEN at' = [at EXCEPT ![s] = @ + 1] /\ UNCHANGED pc
            ELSE at' = [at EXCEPT ![s] = 1] /\ Goto(s, "assign")
  BY DEF LoadBinary
<1>9. [backend EXCEPT ![manager[s]].contexts = IF b.sharing THEN @ ELSE Append(@, bin)]
        = [backend EXCEPT ![manager[s]] = AfterLoad(s)]
  BY <1>2 DEF AfterLoad, Mgr
<1>10. Abandon(s) /\ UNCHANGED <<at, backend>> => Drops(s)
  BY <1>1, <1>7 DEF LoadBinary, Abandon, Goto, Drops, setup, outputs
<1> HIDE DEF b, bin, ctx, key, known, new, filed
<1> QED
  BY <1>1, <1>2, <1>5, <1>6, <1>7, <1>8, <1>9, <1>10 DEF Goto, Abandon, b

\* The types of what LoadBinary makes.
LEMMA LoadTypes ==
    ASSUME TypeOK, PlaceInv, NEW s \in Sessions, pc[s] = "load",
           Bin(s) \in Range(Config(s).bins), LoadContext(s) # 0
    PROVE  /\ Filed(s) \in SUBSET Model /\ Loaded(s) \in SUBSET Model
           /\ AfterLoad(s) \in Managers
           /\ AfterLoad(s).up = Mgr(s).up /\ AfterLoad(s).sharing = Mgr(s).sharing
           /\ AfterLoad(s).names = Mgr(s).names
           /\ AfterLoad(s).compiled = Mgr(s).compiled
           /\ AfterLoad(s).contexts =
                IF Mgr(s).sharing THEN Mgr(s).contexts ELSE Append(Mgr(s).contexts, Bin(s))
<1>1. manager[s] \in Sessions /\ Mgr(s) \in Managers
  BY HasManager
<1>2. /\ config \in Configs /\ table[s] \in SUBSET Model
  BY DEF TypeOK, PlacesOK, ModelsOK
<1>3. Bin(s) \in Binaries /\ MainNode(s, Bin(s)) \in Graphs
  BY <1>2, MainNodes
<1>4. GraphsOf[Bin(s)] \subseteq Graphs
  BY <1>3, BinariesNamed
<1>5. /\ Mgr(s).contexts \in Seq(Binaries) /\ Mgr(s).names \in [Names -> Nat]
      /\ Mgr(s).sharing \in BOOLEAN
  BY <1>1 DEF Managers
<1>6. LoadContext(s) \in Nat \ {0}
  <2>1. Mgr(s).names[MainNode(s, Bin(s))] \in Nat
    BY <1>3, <1>5 DEF Names
  <2>2. Len(Mgr(s).contexts) + 1 \in Nat
    BY <1>5, SMT
  <2> QED
    BY <2>1, <2>2 DEF LoadContext
<1>7. \A q \in Model : [q EXCEPT !.path = Bin(s)] \in Model
  BY <1>3 DEF Model
<1>8. \A g \in Graphs : NewModel(s, g) \in Model
  BY <1>1, <1>3, <1>6 DEF NewModel, Model
<1>9. Filed(s) \in SUBSET Model /\ Loaded(s) \in SUBSET Model
  BY <1>2, <1>4, <1>7, <1>8 DEF Filed, Loaded
<1> DEFINE c == IF Mgr(s).sharing THEN Mgr(s).contexts ELSE Append(Mgr(s).contexts, Bin(s))
<1>10. c \in Seq(Binaries)
  BY <1>3, <1>5, SMT
<1>11. AfterLoad(s) = [Mgr(s) EXCEPT !.contexts = c]
  BY DEF AfterLoad
<1> HIDE DEF c
<1>12. /\ AfterLoad(s) \in Managers /\ AfterLoad(s).contexts = c
       /\ AfterLoad(s).up = Mgr(s).up /\ AfterLoad(s).sharing = Mgr(s).sharing
       /\ AfterLoad(s).names = Mgr(s).names
       /\ AfterLoad(s).compiled = Mgr(s).compiled
  BY <1>1, <1>10, <1>11 DEF Managers
<1> QED
  BY <1>9, <1>12 DEF c

\* The models of a generating session, and its manager.
Composed(s) ==
    {[graph |-> g, key |-> g, by |-> s, manager |-> manager[s], context |-> 1,
      path |-> None] : g \in Range(Nodes(s))}
\* The manager after graphs "done" are compiled on it.
AfterCompile(s, done) == [Mgr(s) EXCEPT !.compiled = @ \cup done]

\* Composing graphs makes models, and adds the graphs to what the manager has
\* compiled.
LEMMA ComposeTypes ==
    ASSUME TypeOK, PlaceInv, NEW s \in Sessions, pc[s] = "compose",
           NEW done \in SUBSET Range(Nodes(s))
    PROVE  /\ Composed(s) \in SUBSET Model
           /\ AfterCompile(s, done) \in Managers
           /\ AfterCompile(s, done).up = Mgr(s).up
           /\ AfterCompile(s, done).sharing = Mgr(s).sharing
           /\ AfterCompile(s, done).names = Mgr(s).names
           /\ AfterCompile(s, done).contexts = Mgr(s).contexts
           /\ AfterCompile(s, done).compiled = Mgr(s).compiled \cup done
<1>1. manager[s] \in Sessions /\ Mgr(s) \in Managers
  BY HasManager
<1>2. Nodes(s) \in Seq(Graphs)
  BY ConfigFacts DEF TypeOK, PlacesOK
<1>3. Range(Nodes(s)) \subseteq Graphs
  BY <1>2, SMT DEF Range
<1>4. 1 \in Nat \ {0}
  BY SMT
<1>5. Composed(s) \in SUBSET Model
  <2>1. \A g \in Graphs : [graph |-> g, key |-> g, by |-> s, manager |-> manager[s],
                            context |-> 1, path |-> None] \in Model
    BY <1>1, <1>4 DEF Model
  <2> QED
    BY <2>1, <1>3 DEF Composed
<1> DEFINE c == Mgr(s).compiled \cup done
<1>6. c \in SUBSET Graphs
  BY <1>1, <1>3 DEF Managers
<1>7. AfterCompile(s, done) = [Mgr(s) EXCEPT !.compiled = c]
  BY DEF AfterCompile
<1> HIDE DEF c
<1> QED
  BY <1>1, <1>5, <1>6, <1>7 DEF Managers, c

\* CompileGraphs composes all graphs of the session.
LEMMA ComposeEffect ==
    ASSUME TypeOK, PlaceInv, NEW s \in Sessions, CompileGraphs(s)
    PROVE  /\ backend' = [backend EXCEPT ![manager[s]] = AfterCompile(s, Range(Nodes(s)))]
           /\ models' = [models EXCEPT ![s] = Composed(s)]
BY DEF CompileGraphs, AfterCompile, Composed, Mgr

\* A failing compilation has composed some graphs of the session.
LEMMA ComposeFailsEffect ==
    ASSUME TypeOK, PlaceInv, NEW s \in Sessions, CompileFails(s)
    PROVE  \E done \in SUBSET Range(Nodes(s)) :
             backend' = [backend EXCEPT ![manager[s]] = AfterCompile(s, done)]
BY DEF CompileFails, AfterCompile, Mgr

-----------------------------------------------------------------------------
\* Every step leaves the model and the options alone and moves one session.
LEMMA Moves ==
    ASSUME TypeOK, PlaceInv, OwnInv, NEW s \in Sessions,
           \/ Step(s) \/ DestroySession(s) \/ SetupBackendFails(s) \/ Drops(s)
           \/ CompileFails(s) \/ WriteFails(s)
    PROVE  config' = config /\ Moved(s)
<1> USE DEF Goto
<1>1. /\ config \in Configs
      /\ pc \in [Sessions -> Pcs] /\ pc[s] \in Pcs
      /\ at \in [Sessions -> Nat \ {0}] /\ at[s] \in Nat \ {0}
      /\ manager \in [Sessions -> Sessions \cup {None}]
      /\ manager[s] \in Sessions \cup {None}
      /\ slot \in Sessions \cup {None}
      /\ PlaceAt(s, pc[s], at[s], manager[s])
  BY DEF TypeOK, PlacesOK, PlaceInv, PlaceOK
<1>2. /\ pc = [pc EXCEPT ![s] = pc[s]] /\ at = [at EXCEPT ![s] = at[s]]
      /\ manager = [manager EXCEPT ![s] = manager[s]]
  BY <1>1
<1>3. /\ 1 \in DOMAIN Nodes(s) /\ Len(Nodes(s)) \in Nat
      /\ DOMAIN Nodes(s) = 1 .. Len(Nodes(s))
      /\ DOMAIN Config(s).bins = 1 .. Len(Config(s).bins)
      /\ Len(Config(s).bins) \in Nat
      /\ IsLoad(s) => 1 \in DOMAIN Config(s).bins
  BY <1>1, FirstOnes
<1>4. /\ s \in Sessions \cup {None} /\ s # None /\ None \in Sessions \cup {None}
      /\ 1 \in Nat \ {0}
  BY BinariesNamed, SMT
<1>5. ASSUME Construct(s) PROVE config' = config /\ Moved(s)
  <2> DEFINE m == IF UsesSharedManager(s) /\ slot # None THEN slot ELSE s
  <2>1. MovesTo(s, "constructed", at[s], m)
    <3>1. m \in Sessions \cup {None} /\ m # None
      BY <1>1, <1>4
    <3>2. PlaceAt(s, "constructed", at[s], m)
      BY <3>1, SMT DEF PlaceAt, Written
    <3>3. "constructed" \in Pcs
      BY SMT DEF Pcs, Early
    <3> QED
      BY <3>1, <3>2, <3>3, <1>1, <1>2, <1>5 DEF MovesTo, Construct
  <2> QED
    BY <2>1, <1>5 DEF Moved, Construct
<1>6. ASSUME SettleAllocator(s) PROVE config' = config /\ Moved(s)
  <2> DEFINE l == IF Config(s).stop THEN "stopping" ELSE "built"
  <2>1. MovesTo(s, "failed", at[s], None) \/ MovesTo(s, l, at[s], manager[s])
    <3>1. /\ l \in {"stopping", "built"} /\ l \in Pcs /\ "failed" \in Pcs
      BY SMT DEF Pcs, Early, Over
    <3>2. PlaceAt(s, "failed", at[s], None)
      BY SMT DEF PlaceAt, Written
    <3>3. pc[s] = "constructed"
      BY <1>6 DEF SettleAllocator
    <3>4. PlaceAt(s, l, at[s], manager[s])
      BY <3>1, <3>3, <1>1, SMT DEF PlaceAt, Written
    <3> QED
      BY <3>1, <3>2, <3>4, <1>1, <1>2, <1>4, <1>6 DEF MovesTo, SettleAllocator, l
  <2> QED
    BY <2>1, <1>6 DEF Moved, SettleAllocator, setup
<1>7. ASSUME StopSharing(s) PROVE config' = config /\ Moved(s)
  <2>1. pc[s] \in {"stopping"}
    BY <1>7 DEF StopSharing
  <2>2. PlaceAt(s, "built", at[s], manager[s])
    BY <2>1, <1>1, <1>3, <1>4, SMT DEF PlaceAt, Written
  <2>3. "built" \in Pcs
    BY SMT DEF Pcs, Early, Over, Written
  <2>5. MovesTo(s, "built", at[s], manager[s])
    BY <2>2, <2>3, <1>1, <1>2, <1>4, <1>7 DEF MovesTo, StopSharing
  <2> QED
    BY <2>5, <1>7 DEF Moved, StopSharing, setup
<1>8. ASSUME ValidateCompatibility(s) PROVE config' = config /\ Moved(s)
  <2> DEFINE l == IF Config(s).kind = "htp" THEN "probing" ELSE "checked"
  <2>1. pc[s] \in {"built"}
    BY <1>8 DEF ValidateCompatibility
  <2>2. /\ PlaceAt(s, l, at[s], manager[s])
        /\ PlaceAt(s, "validated", at[s], manager[s])
    BY <2>1, <1>1, <1>3, <1>4, SMT DEF PlaceAt, Written
  <2>3. l \in Pcs /\ "validated" \in Pcs
    BY SMT DEF Pcs, Early, Over, Written
  <2>5. \/ MovesTo(s, l, at[s], manager[s])
        \/ MovesTo(s, "validated", at[s], manager[s])
    BY <2>2, <2>3, <1>1, <1>2, <1>4, <1>8 DEF MovesTo, ValidateCompatibility
  <2> QED
    BY <2>5, <1>8 DEF Moved, ValidateCompatibility, setup
<1>9. ASSUME ReleaseProbe(s) PROVE config' = config /\ Moved(s)
  <2>1. pc[s] \in {"probing"}
    BY <1>9 DEF ReleaseProbe
  <2>2. PlaceAt(s, "validated", at[s], manager[s])
    BY <2>1, <1>1, <1>3, <1>4, SMT DEF PlaceAt, Written
  <2>3. "validated" \in Pcs
    BY SMT DEF Pcs, Early, Over, Written
  <2>5. MovesTo(s, "validated", at[s], manager[s])
    BY <2>2, <2>3, <1>1, <1>2, <1>4, <1>9 DEF MovesTo, ReleaseProbe
  <2> QED
    BY <2>5, <1>9 DEF Moved, ReleaseProbe, setup
<1>10. ASSUME GetCapability(s) PROVE config' = config /\ Moved(s)
  <2> DEFINE l == IF IsLoad(s) /\ Config(s).share /\ shared # {} THEN "look1" ELSE "setup"
  <2>1. pc[s] \in {"built", "checked", "validated"}
    BY <1>10 DEF GetCapability
  <2>2. PlaceAt(s, l, 1, manager[s])
    BY <2>1, <1>1, <1>3, <1>4, SMT DEF PlaceAt, Written
  <2>3. l \in Pcs
    BY SMT DEF Pcs, Early, Over, Written
  <2>5. MovesTo(s, l, 1, manager[s])
    BY <2>2, <2>3, <1>1, <1>2, <1>4, <1>10 DEF MovesTo, GetCapability
  <2> QED
    BY <2>5, <1>10 DEF Moved, GetCapability, setup
<1>11. ASSUME SetupBackend(s) PROVE config' = config /\ Moved(s)
  <2> DEFINE l == IF IsLoad(s) THEN "compile" ELSE "compose"
  <2>1. pc[s] \in {"setup"}
    BY <1>11 DEF SetupBackend
  <2>2. PlaceAt(s, l, at[s], manager[s])
    BY <2>1, <1>1, <1>3, <1>4, SMT DEF PlaceAt, Written
  <2>3. l \in Pcs
    BY SMT DEF Pcs, Early, Over, Written
  <2>5. MovesTo(s, l, at[s], manager[s])
    BY <2>2, <2>3, <1>1, <1>2, <1>4, <1>11 DEF MovesTo, SetupBackend
  <2> QED
    BY <2>5, <1>11 DEF Moved, SetupBackend, setup
<1>12. ASSUME SetupBackendFails(s) PROVE config' = config /\ Moved(s)
  <2>1. pc[s] \in {"setup"}
    BY <1>12 DEF SetupBackendFails
  <2>2. PlaceAt(s, "failed", at[s], manager[s])
    BY <2>1, <1>1, <1>3, <1>4, SMT DEF PlaceAt, Written
  <2>3. "failed" \in Pcs
    BY SMT DEF Pcs, Early, Over, Written
  <2>5. MovesTo(s, "failed", at[s], manager[s])
    BY <2>2, <2>3, <1>1, <1>2, <1>4, <1>12 DEF MovesTo, SetupBackendFails
  <2> QED
    BY <2>5, <1>12 DEF Moved, SetupBackendFails, setup
<1>13. ASSUME CompileContextModel(s) PROVE config' = config /\ Moved(s)
  <2> DEFINE l == IF Config(s).share /\ shared # {} THEN "look2" ELSE "load"
  <2>1. pc[s] \in {"compile"}
    BY <1>13 DEF CompileContextModel
  <2>2. PlaceAt(s, l, at[s], manager[s])
    BY <2>1, <1>1, <1>3, <1>4, SMT DEF PlaceAt, Written
  <2>3. l \in Pcs
    BY SMT DEF Pcs, Early, Over, Written
  <2>5. MovesTo(s, l, at[s], manager[s])
    BY <2>2, <2>3, <1>1, <1>2, <1>4, <1>13 DEF MovesTo, CompileContextModel
  <2> QED
    BY <2>5, <1>13 DEF Moved, CompileContextModel, setup
<1>14. ASSUME LockShared(s) PROVE config' = config /\ Moved(s)
  <2>1. pc[s] \in {"take", "publish"}
    BY <1>14 DEF LockShared
  <2>2. PlaceAt(s, pc[s], at[s], manager[s])
    BY <2>1, <1>1, <1>3, <1>4, SMT DEF PlaceAt, Written
  <2>5. MovesTo(s, pc[s], at[s], manager[s])
    BY <2>2, <1>1, <1>2, <1>4, <1>14 DEF MovesTo, LockShared
  <2> QED
    BY <2>5, <1>14 DEF Moved, LockShared, setup
<1>15. ASSUME Look(s) PROVE config' = config /\ Moved(s)
  <2> DEFINE l == IF pc[s] = "look1" THEN "setup" ELSE "load"
             r == IF pc[s] = "look1" THEN "compile" ELSE "take"
  <2>1. pc[s] \in {"look1", "look2"}
    BY <1>15 DEF Look
  <2>2. /\ PlaceAt(s, l, 1, manager[s])
        /\ (at[s] < Len(Nodes(s)) => PlaceAt(s, pc[s], (at[s] + 1), manager[s]))
        /\ PlaceAt(s, r, 1, manager[s])
    BY <2>1, <1>1, <1>3, <1>4, SMT DEF PlaceAt, Written
  <2>3. l \in Pcs /\ r \in Pcs
    BY SMT DEF Pcs, Early, Over, Written
  <2>4. (at[s] + 1) \in Nat \ {0}
    BY <1>1, SMT
  <2>5. \/ MovesTo(s, l, 1, manager[s])
        \/ MovesTo(s, pc[s], (at[s] + 1), manager[s])
        \/ MovesTo(s, r, 1, manager[s])
    BY <2>2, <2>3, <2>4, <1>1, <1>2, <1>4, <1>15 DEF MovesTo, Look
  <2> QED
    BY <2>5, <1>15 DEF Moved, Look, setup
<1>16. ASSUME GetSharedQnnModel(s) PROVE config' = config /\ Moved(s)
  <2>1. pc[s] \in {"take"}
    BY <1>16 DEF GetSharedQnnModel
  <2>2. /\ PlaceAt(s, "failed", at[s], manager[s])
        /\ (at[s] < Len(Nodes(s)) => PlaceAt(s, pc[s], (at[s] + 1), manager[s]))
        /\ PlaceAt(s, "ready", at[s], manager[s])
    BY <2>1, <1>1, <1>3, <1>4, SMT DEF PlaceAt, Written
  <2>3. "failed" \in Pcs /\ "ready" \in Pcs
    BY SMT DEF Pcs, Early, Over, Written
  <2>4. (at[s] + 1) \in Nat \ {0}
    BY <1>1, SMT
  <2>5. \/ MovesTo(s, "failed", at[s], manager[s])
        \/ MovesTo(s, pc[s], (at[s] + 1), manager[s])
        \/ MovesTo(s, "ready", at[s], manager[s])
    BY <2>2, <2>3, <2>4, <1>1, <1>2, <1>4, <1>16 DEF MovesTo, GetSharedQnnModel
  <2> QED
    BY <2>5, <1>16 DEF Moved, GetSharedQnnModel, setup
<1>17. ASSUME Drops(s) PROVE config' = config /\ Moved(s)
  <2>1. pc[s] \in {"load", "take", "assign"}
    BY <1>17 DEF Drops
  <2>2. PlaceAt(s, "failed", at[s], manager[s])
    BY <2>1, <1>1, <1>3, <1>4, SMT DEF PlaceAt, Written
  <2>3. "failed" \in Pcs
    BY SMT DEF Pcs, Early, Over, Written
  <2>5. MovesTo(s, "failed", at[s], manager[s])
    BY <2>2, <2>3, <1>1, <1>2, <1>4, <1>17 DEF MovesTo, Drops
  <2> QED
    BY <2>5, <1>17 DEF Moved, Drops, setup
<1>18. ASSUME AssignModels(s) PROVE config' = config /\ Moved(s)
  <2>1. pc[s] \in {"assign"}
    BY <1>18 DEF AssignModels
  <2>2. /\ PlaceAt(s, "failed", at[s], manager[s])
        /\ (at[s] < Len(Nodes(s)) => PlaceAt(s, pc[s], (at[s] + 1), manager[s]))
        /\ PlaceAt(s, "ready", at[s], manager[s])
        /\ (Config(s).share => PlaceAt(s, "publish", at[s], manager[s]))
    BY <2>1, <1>1, <1>3, <1>4, SMT DEF PlaceAt, Written
  <2>3. "failed" \in Pcs /\ "ready" \in Pcs /\ "publish" \in Pcs
    BY SMT DEF Pcs, Early, Over, Written
  <2>4. (at[s] + 1) \in Nat \ {0}
    BY <1>1, SMT
  <2>5. \/ MovesTo(s, "failed", at[s], manager[s])
        \/ MovesTo(s, pc[s], (at[s] + 1), manager[s])
        \/ MovesTo(s, "ready", at[s], manager[s])
        \/ MovesTo(s, "publish", at[s], manager[s])
    BY <2>2, <2>3, <2>4, <1>1, <1>2, <1>4, <1>18 DEF MovesTo, AssignModels, Abandon
  <2> QED
    BY <2>5, <1>18 DEF Moved, AssignModels, setup
<1>19. ASSUME SetSharedQnnModel(s) PROVE config' = config /\ Moved(s)
  <2>1. pc[s] \in {"publish"}
    BY <1>19 DEF SetSharedQnnModel
  <2>2. /\ PlaceAt(s, "failed", at[s], manager[s])
        /\ PlaceAt(s, "ready", at[s], manager[s])
    BY <2>1, <1>1, <1>3, <1>4, SMT DEF PlaceAt, Written
  <2>3. "failed" \in Pcs /\ "ready" \in Pcs
    BY SMT DEF Pcs, Early, Over, Written
  <2>5. \/ MovesTo(s, "failed", at[s], manager[s])
        \/ MovesTo(s, "ready", at[s], manager[s])
    BY <2>2, <2>3, <1>1, <1>2, <1>4, <1>19 DEF MovesTo, SetSharedQnnModel
  <2> QED
    BY <2>5, <1>19 DEF Moved, SetSharedQnnModel, setup
<1>20. ASSUME CompileGraphs(s) PROVE config' = config /\ Moved(s)
  <2>1. pc[s] \in {"compose"}
    BY <1>20 DEF CompileGraphs
  <2>2. PlaceAt(s, "serialize", at[s], manager[s])
    BY <2>1, <1>1, <1>3, <1>4, SMT DEF PlaceAt, Written
  <2>3. "serialize" \in Pcs
    BY SMT DEF Pcs, Early, Over, Written
  <2>5. MovesTo(s, "serialize", at[s], manager[s])
    BY <2>2, <2>3, <1>1, <1>2, <1>4, <1>20 DEF MovesTo, CompileGraphs
  <2> QED
    BY <2>5, <1>20 DEF Moved, CompileGraphs, setup
<1>21. ASSUME CompileFails(s) PROVE config' = config /\ Moved(s)
  <2>1. pc[s] \in {"compose"}
    BY <1>21 DEF CompileFails
  <2>2. PlaceAt(s, "failed", at[s], manager[s])
    BY <2>1, <1>1, <1>3, <1>4, SMT DEF PlaceAt, Written
  <2>3. "failed" \in Pcs
    BY SMT DEF Pcs, Early, Over, Written
  <2>5. MovesTo(s, "failed", at[s], manager[s])
    BY <2>2, <2>3, <1>1, <1>2, <1>4, <1>21 DEF MovesTo, CompileFails
  <2> QED
    BY <2>5, <1>21 DEF Moved, CompileFails, setup
<1>22. ASSUME ReadContextBinary(s) PROVE config' = config /\ Moved(s)
  <2>1. pc[s] \in {"serialize"}
    BY <1>22 DEF ReadContextBinary
  <2>2. PlaceAt(s, "write", at[s], manager[s])
    BY <2>1, <1>1, <1>3, <1>4, SMT DEF PlaceAt, Written
  <2>3. "write" \in Pcs
    BY SMT DEF Pcs, Early, Over, Written
  <2>5. MovesTo(s, "write", at[s], manager[s])
    BY <2>2, <2>3, <1>1, <1>2, <1>4, <1>22 DEF MovesTo, ReadContextBinary
  <2> QED
    BY <2>5, <1>22 DEF Moved, ReadContextBinary, setup
<1>23. ASSUME WriteContextBinary(s) PROVE config' = config /\ Moved(s)
  <2>1. pc[s] \in {"write"}
    BY <1>23 DEF WriteContextBinary
  <2>2. /\ PlaceAt(s, "handover", at[s], manager[s])
        /\ PlaceAt(s, "ready", at[s], manager[s])
    BY <2>1, <1>1, <1>3, <1>4, SMT DEF PlaceAt, Written
  <2>3. "handover" \in Pcs /\ "ready" \in Pcs
    BY SMT DEF Pcs, Early, Over, Written
  <2>5. \/ MovesTo(s, "handover", at[s], manager[s])
        \/ MovesTo(s, "ready", at[s], manager[s])
    BY <2>2, <2>3, <1>1, <1>2, <1>4, <1>23 DEF MovesTo, WriteContextBinary
  <2> QED
    BY <2>5, <1>23 DEF Moved, WriteContextBinary, setup
<1>24. ASSUME WriteFails(s) PROVE config' = config /\ Moved(s)
  <2>1. pc[s] \in {"write"}
    BY <1>24 DEF WriteFails
  <2>2. PlaceAt(s, "failed", at[s], manager[s])
    BY <2>1, <1>1, <1>3, <1>4, SMT DEF PlaceAt, Written
  <2>3. "failed" \in Pcs
    BY SMT DEF Pcs, Early, Over, Written
  <2>5. MovesTo(s, "failed", at[s], manager[s])
    BY <2>2, <2>3, <1>1, <1>2, <1>4, <1>24 DEF MovesTo, WriteFails
  <2> QED
    BY <2>5, <1>24 DEF Moved, WriteFails, setup
<1>25. ASSUME PublishManager(s) PROVE config' = config /\ Moved(s)
  <2>1. pc[s] \in {"handover", "offer"}
    BY <1>25 DEF PublishManager, GetSharedQnnBackendManager, SetSharedQnnBackendManager
  <2>2. \A l \in {"offer", "ready", "failed"} : PlaceAt(s, l, at[s], manager[s])
    BY <2>1, <1>1, <1>3, <1>4, SMT DEF PlaceAt, Written
  <2>3. \A l \in {"offer", "ready", "failed"} : l \in Pcs
    BY SMT DEF Pcs, Early, Over, Written
  <2>4. \E l \in {"offer", "ready", "failed"} :
          /\ pc' = [pc EXCEPT ![s] = l] /\ at' = at /\ manager' = manager
          /\ config' = config
    BY <1>25 DEF PublishManager, GetSharedQnnBackendManager,
       SetSharedQnnBackendManager, setup
  <2> QED
    BY <2>2, <2>3, <2>4, <1>1, <1>2, <1>4 DEF Moved, MovesTo
<1>26. ASSUME DestroySession(s) PROVE config' = config /\ Moved(s)
  <2>1. pc[s] \in {"ready", "failed"}
    BY <1>26 DEF DestroySession
  <2>2. PlaceAt(s, "gone", at[s], None)
    BY <2>1, <1>1, <1>3, <1>4, SMT DEF PlaceAt, Written
  <2>3. "gone" \in Pcs
    BY SMT DEF Pcs, Early, Over, Written
  <2>5. MovesTo(s, "gone", at[s], None)
    BY <2>2, <2>3, <1>1, <1>2, <1>4, <1>26 DEF MovesTo, DestroySession
  <2> QED
    BY <2>5, <1>26 DEF Moved, DestroySession, setup
<1>27. ASSUME LoadBinary(s) PROVE config' = config /\ Moved(s)
  <2>1. pc[s] = "load"
    BY <1>27, LoadEffect
  <2>2. /\ PlaceAt(s, "failed", at[s], manager[s]) /\ PlaceAt(s, "assign", 1, manager[s])
        /\ at[s] < Len(Config(s).bins) => PlaceAt(s, pc[s], at[s] + 1, manager[s])
    BY <2>1, <1>1, <1>3, <1>4, SMT DEF PlaceAt, Written
  <2>3. "failed" \in Pcs /\ "assign" \in Pcs
    BY SMT DEF Pcs, Over
  <2>4. at[s] + 1 \in Nat \ {0}
    BY <1>1, SMT
  <2>5. \/ MovesTo(s, "failed", at[s], manager[s])
        \/ MovesTo(s, pc[s], at[s] + 1, manager[s])
        \/ MovesTo(s, "assign", 1, manager[s])
    <3>1. /\ manager' = manager
          /\ \/ pc' = [pc EXCEPT ![s] = "failed"] /\ at' = at
             \/ /\ at[s] < Len(Config(s).bins)
                /\ at' = [at EXCEPT ![s] = at[s] + 1] /\ pc' = pc
             \/ at' = [at EXCEPT ![s] = 1] /\ pc' = [pc EXCEPT ![s] = "assign"]
      BY <1>27, LoadEffect
    <3> QED
      BY <3>1, <2>2, <2>3, <2>4, <1>1, <1>2, <1>4 DEF MovesTo
  <2> QED
    BY <2>5, <1>27 DEF Moved, LoadBinary, setup
<1> QED
  BY <1>5, <1>6, <1>7, <1>8, <1>9, <1>10, <1>11, <1>12, <1>13, <1>14, <1>15,
     <1>16, <1>17, <1>18, <1>19, <1>20, <1>21, <1>22, <1>23, <1>24, <1>25, <1>26,
     <1>27 DEF Step

\* The manager of the session is the only one a step changes.
LEMMA ManagerChanges ==
    ASSUME TypeOK, PlaceInv, OwnInv, NEW s \in Sessions, StepOf(s)
    PROVE  backend' = backend \/ \E w : Changes(s, w)
<1>1. ASSUME SettleAllocator(s) PROVE \E w : Changes(s, w)
  BY <1>1, SettleChanges
<1>2. ASSUME ValidateCompatibility(s) PROVE \E w : Changes(s, w)
  BY <1>2, ValidateChanges
<1>3. ASSUME ReleaseProbe(s) PROVE \E w : Changes(s, w)
  BY <1>3, ReleaseChanges
<1>4. ASSUME GetCapability(s) PROVE \E w : Changes(s, w)
  BY <1>4, CapabilityChanges
<1>5. ASSUME SetupBackend(s) PROVE \E w : Changes(s, w)
  BY <1>5, SetupChanges
<1>6. ASSUME SetupBackendFails(s) PROVE \E w : Changes(s, w)
  BY <1>6, SetupFailsChanges
<1>7. ASSUME LoadBinary(s) PROVE backend' = backend \/ \E w : Changes(s, w)
  <2>1. CASE backend' = backend
    BY <2>1
  <2>2. CASE backend' # backend
    <3>1. /\ pc[s] = "load" /\ Bin(s) \in Range(Config(s).bins) /\ LoadContext(s) # 0
          /\ backend' = [backend EXCEPT ![manager[s]] = AfterLoad(s)]
      BY <2>2, <1>7, LoadEffect
    <3>2. AfterLoad(s) \in Managers
      BY <3>1, LoadTypes
    <3> QED
      BY <3>1, <3>2 DEF Changes
  <2> QED
    BY <2>1, <2>2
<1>8. ASSUME CompileGraphs(s) PROVE \E w : Changes(s, w)
  <2>1. pc[s] = "compose"
    BY <1>8 DEF CompileGraphs
  <2>2. AfterCompile(s, Range(Nodes(s))) \in Managers
    BY <2>1, ComposeTypes
  <2> QED
    BY <2>2, <1>8, ComposeEffect DEF Changes
<1>9. ASSUME CompileFails(s) PROVE \E w : Changes(s, w)
  <2>1. pc[s] = "compose"
    BY <1>9 DEF CompileFails
  <2>2. PICK done \in SUBSET Range(Nodes(s)) :
          backend' = [backend EXCEPT ![manager[s]] = AfterCompile(s, done)]
    BY <1>9, ComposeFailsEffect
  <2>3. AfterCompile(s, done) \in Managers
    BY <2>1, ComposeTypes
  <2> QED
    BY <2>2, <2>3 DEF Changes
<1>10. ASSUME \/ Construct(s) \/ StopSharing(s) \/ Look(s) \/ CompileContextModel(s)
              \/ LockShared(s) \/ GetSharedQnnModel(s) \/ AssignModels(s)
              \/ SetSharedQnnModel(s) \/ ReadContextBinary(s) \/ WriteContextBinary(s)
              \/ PublishManager(s) \/ DestroySession(s) \/ Drops(s) \/ WriteFails(s)
       PROVE  backend' = backend
  BY <1>10 DEF Construct, StopSharing, Look, CompileContextModel, LockShared,
    GetSharedQnnModel, AssignModels, SetSharedQnnModel, ReadContextBinary,
    WriteContextBinary, PublishManager,
      GetSharedQnnBackendManager, SetSharedQnnBackendManager, DestroySession, Drops, WriteFails
<1> QED
  BY <1>1, <1>2, <1>3, <1>4, <1>5, <1>6, <1>7, <1>8, <1>9, <1>10 DEF StepOf, Step

\* What the slot becomes.
LEMMA SlotMoves ==
    ASSUME TypeOK, PlaceInv, NEW s \in Sessions, StepOf(s)
    PROVE  \/ slot' = slot
           \/ slot' = None
           \/ slot' = s /\ SettleAllocator(s) /\ Config(s).kind = "htp"
           \/ slot' = manager[s] /\ pc[s] = "offer"
BY DEF StepOf, Step, Construct, SettleAllocator, StopSharing,
   ValidateCompatibility,
  ReleaseProbe, GetCapability, SetupBackend, Look, CompileContextModel, LockShared,
  GetSharedQnnModel, LoadBinary, AssignModels, SetSharedQnnModel, CompileGraphs,
  ReadContextBinary, WriteContextBinary, PublishManager,
      GetSharedQnnBackendManager, SetSharedQnnBackendManager, DestroySession,
  SetupBackendFails, Drops, CompileFails, WriteFails

\* The actions that leave all models where they are.
LEMMA QuietSteps ==
    ASSUME TypeOK, PlaceInv, OwnInv, NEW s \in Sessions, StepOf(s)
    PROVE  \/ UNCHANGED <<shared, table, models>> \/ Drops(s)
           \/ GetSharedQnnModel(s) \/ LoadBinary(s) \/ AssignModels(s)
           \/ SetSharedQnnModel(s) \/ CompileGraphs(s) \/ DestroySession(s)
<1> USE DEF owned, exchange
<1>1. ASSUME \/ Construct(s) \/ SettleAllocator(s) \/ StopSharing(s)
             \/ ValidateCompatibility(s) \/ ReleaseProbe(s) \/ GetCapability(s)
             \/ SetupBackend(s) \/ SetupBackendFails(s)
      PROVE  UNCHANGED <<shared, table, models>>
  BY <1>1 DEF Construct, SettleAllocator, StopSharing, ValidateCompatibility,
    ReleaseProbe, GetCapability, SetupBackend, SetupBackendFails
<1>2. ASSUME \/ Look(s) \/ CompileContextModel(s) \/ LockShared(s)
             \/ ReadContextBinary(s) \/ WriteContextBinary(s) \/ PublishManager(s)
             \/ CompileFails(s) \/ WriteFails(s)
      PROVE  UNCHANGED <<shared, table, models>>
  BY <1>2 DEF Look, CompileContextModel, LockShared, ReadContextBinary,
    WriteContextBinary, PublishManager,
      GetSharedQnnBackendManager, SetSharedQnnBackendManager, CompileFails, WriteFails
<1> QED
  BY <1>1, <1>2 DEF StepOf, Step

\* Every step keeps the types of the models.
LEMMA ModelTypes ==
    ASSUME TypeOK, PlaceInv, OwnInv, NEW s \in Sessions, StepOf(s)
    PROVE  ModelsOK'
<1>1. /\ shared \in SUBSET Model /\ table \in [Sessions -> SUBSET Model]
      /\ models \in [Sessions -> SUBSET Model]
      /\ table[s] \in SUBSET Model /\ models[s] \in SUBSET Model
  BY DEF TypeOK, ModelsOK
<1>2. CASE UNCHANGED <<shared, table, models>>
  BY <1>1, <1>2 DEF ModelsOK
<1>9. ASSUME Drops(s) PROVE ModelsOK'
  BY <1>1, <1>9, DropEffect DEF ModelsOK
<1>3. CASE GetSharedQnnModel(s)
  <2> DEFINE found == {q \in shared : q.graph = Nodes(s)[at[s]]}
  <2>1. /\ shared' = shared \ found /\ models' = [models EXCEPT ![s] = models[s] \cup found]
        /\ table' = table
    BY <1>3 DEF GetSharedQnnModel
  <2>2. models[s] \cup found \in SUBSET Model /\ shared \ found \in SUBSET Model
    BY <1>1
  <2> HIDE DEF found
  <2> QED
    BY <2>1, <2>2, <1>1 DEF ModelsOK
<1>4. CASE LoadBinary(s)
  <2>1. CASE Drops(s)
    BY <2>1, <1>9
  <2>2. CASE ~Drops(s)
    <3>1. /\ pc[s] = "load" /\ Bin(s) \in Range(Config(s).bins) /\ LoadContext(s) # 0
          /\ table' = [table EXCEPT ![s] = Filed(s) \cup Loaded(s)]
          /\ shared' = shared /\ models' = models
      BY <2>2, <1>4, LoadEffect
    <3>2. Filed(s) \cup Loaded(s) \in SUBSET Model
      BY <3>1, LoadTypes
    <3> QED
      BY <3>1, <3>2, <1>1 DEF ModelsOK
  <2> QED
    BY <2>1, <2>2
<1>5. CASE AssignModels(s) /\ ~Drops(s)
  <2>1. PICK found \in SUBSET table[s] :
          /\ models' = [models EXCEPT ![s] = models[s] \cup found]
          /\ table' = [table EXCEPT ![s] = table[s] \ found]
          /\ shared' = shared
    BY <1>5, AssignEffect
  <2>2. models[s] \cup found \in SUBSET Model /\ table[s] \ found \in SUBSET Model
    BY <1>1
  <2> QED
    BY <2>1, <2>2, <1>1 DEF ModelsOK
<1>6. CASE SetSharedQnnModel(s)
  <2> DEFINE fresh == {q \in table[s] : ~InShared(q.graph)}
  <2>1. /\ shared' = shared \cup fresh /\ table' = [table EXCEPT ![s] = {}]
        /\ models' = models
    BY <1>6 DEF SetSharedQnnModel
  <2>2. shared \cup fresh \in SUBSET Model
    BY <1>1
  <2> HIDE DEF fresh
  <2> QED
    BY <2>1, <2>2, <1>1 DEF ModelsOK
<1>7. CASE CompileGraphs(s)
  <2>1. /\ pc[s] = "compose" /\ table' = table /\ shared' = shared
        /\ models' = [models EXCEPT ![s] = Composed(s)]
    BY <1>7, ComposeEffect DEF CompileGraphs, exchange
  <2>2. Composed(s) \in SUBSET Model
    BY <2>1, ComposeTypes
  <2> QED
    BY <2>1, <2>2, <1>1 DEF ModelsOK
<1>8. CASE DestroySession(s)
  BY <1>1, <1>8 DEF ModelsOK, DestroySession, exchange
<1> QED
  BY <1>2, <1>3, <1>4, <1>5, <1>6, <1>7, <1>8, <1>9, QuietSteps

\* Every step keeps types and places, and moves one session.
LEMMA Types ==
    ASSUME TypeOK, PlaceInv, OwnInv, NEW s \in Sessions, StepOf(s)
    PROVE  config' = config /\ Moved(s) /\ TypeOK' /\ PlaceInv'
<1>1. config' = config /\ Moved(s)
  BY Moves DEF StepOf
<1>2. ManagersOK'
  <2>1. CASE backend' = backend
    BY <2>1 DEF TypeOK, ManagersOK
  <2>2. CASE \E w : Changes(s, w)
    BY <2>2 DEF TypeOK, ManagersOK, Changes
  <2> QED
    BY <2>1, <2>2, ManagerChanges
<1>3. slot' \in Sessions \cup {None}
  BY SlotMoves DEF TypeOK, PlacesOK
<1>4. PlacesOK' /\ PlaceInv'
  BY <1>1, <1>3, MovedPlaces DEF TypeOK, PlacesOK
<1> QED
  BY <1>1, <1>2, <1>4, ModelTypes DEF TypeOK

-----------------------------------------------------------------------------
\* A session never gets back to where it has no models, and it ends once.
Onward(p, l) ==
    /\ l \in Early => p \in Early
    /\ l = "load" => p \in Early \cup {"load"}
    /\ l \in Written \cup {"take"} => p \in Early \cup Written \cup {"take"}
    /\ p \in Over => l \in Over

\* A step moves one session, and onward.
LEMMA PcMoves ==
    ASSUME TypeOK, PlaceInv, OwnInv, NEW s \in Sessions, StepOf(s)
    PROVE  pc' = [pc EXCEPT ![s] = pc'[s]] /\ Onward(pc[s], pc'[s])
<1> USE DEF Goto
<1>1. pc \in [Sessions -> Pcs] /\ Moved(s)
  BY Types DEF TypeOK, PlacesOK
<1>2. pc' = [pc EXCEPT ![s] = pc'[s]]
  BY <1>1 DEF Moved, MovesTo
<1>3. ASSUME \/ Construct(s) \/ SettleAllocator(s) \/ StopSharing(s)
             \/ ValidateCompatibility(s) \/ ReleaseProbe(s) \/ GetCapability(s)
             \/ SetupBackend(s) \/ SetupBackendFails(s)
             \/ Look(s) \/ CompileContextModel(s) \/ CompileGraphs(s) \/ CompileFails(s)
      PROVE  /\ pc[s] \in Early
             /\ pc'[s] \in Early \cup {"load", "take", "serialize", "failed"}
  <2> USE <1>1 DEF Early
  <2>1. CASE Construct(s) \/ SettleAllocator(s) \/ StopSharing(s)
    BY <2>1, SMT DEF Construct, SettleAllocator, StopSharing
  <2>2. CASE ValidateCompatibility(s) \/ ReleaseProbe(s) \/ GetCapability(s)
    BY <2>2, SMT DEF ValidateCompatibility, ReleaseProbe, GetCapability
  <2>3. CASE SetupBackend(s) \/ SetupBackendFails(s)
    BY <2>3, SMT DEF SetupBackend, SetupBackendFails
  <2>4. CASE Look(s)
    BY <2>4, SMT DEF Look
  <2>5. CASE CompileContextModel(s) \/ CompileGraphs(s) \/ CompileFails(s)
    BY <2>5, SMT DEF CompileContextModel, CompileGraphs, CompileFails
  <2> QED
    BY <1>3, <2>1, <2>2, <2>3, <2>4, <2>5
<1>4. ASSUME \/ LockShared(s)
             \/ ReadContextBinary(s) \/ WriteContextBinary(s) \/ PublishManager(s)
             \/ Drops(s) \/ WriteFails(s)
             \/ GetSharedQnnModel(s) \/ LoadBinary(s) \/ AssignModels(s)
             \/ SetSharedQnnModel(s) \/ DestroySession(s)
      PROVE  \/ pc'[s] = pc[s] \/ pc'[s] \in Over
             \/ pc'[s] \in Written /\ pc[s] \in Written
             \/ pc[s] = "load" /\ pc'[s] = "assign"
             \/ pc[s] = "assign" /\ pc'[s] = "publish"
  <2> USE <1>1 DEF Written, Over
  <2>1. CASE LockShared(s) \/ ReadContextBinary(s) \/ WriteContextBinary(s)
    BY <2>1, SMT DEF LockShared, ReadContextBinary, WriteContextBinary
  <2>2. CASE PublishManager(s) \/ Drops(s) \/ WriteFails(s) \/ DestroySession(s)
    BY <2>2, SMT DEF PublishManager,
      GetSharedQnnBackendManager, SetSharedQnnBackendManager, Drops, WriteFails, DestroySession
  <2>3. CASE GetSharedQnnModel(s) \/ SetSharedQnnModel(s)
    BY <2>3, SMT DEF GetSharedQnnModel, SetSharedQnnModel
  <2>4. CASE LoadBinary(s)
    BY <2>4, LoadEffect, SMT
  <2>5. CASE AssignModels(s)
    BY <2>5, SMT DEF AssignModels, Abandon
  <2> QED
    BY <1>4, <2>1, <2>2, <2>3, <2>4, <2>5
<1>6. ASSUME pc[s] \in Over PROVE pc'[s] \in Over
  <2>1. pc[s] \notin Early
    BY <1>6, SMT DEF Early, Over
  <2>2. ~(pc[s] \in Written) /\ pc[s] # "load" /\ pc[s] # "assign"
    BY <1>6, SMT DEF Written, Over
  <2> QED
    BY <1>6, <2>1, <2>2, <1>3, <1>4 DEF StepOf, Step
<1>7. Onward(pc[s], pc'[s])
  <2>1. CASE /\ pc[s] \in Early
             /\ pc'[s] \in Early \cup {"load", "take", "serialize", "failed"}
    BY <2>1, <1>6, SMT DEF Onward, Early, Over, Written
  <2>2. CASE \/ pc'[s] = pc[s] \/ pc'[s] \in Over
             \/ pc'[s] \in Written /\ pc[s] \in Written
             \/ pc[s] = "load" /\ pc'[s] = "assign"
             \/ pc[s] = "assign" /\ pc'[s] = "publish"
    BY <2>2, <1>6, SMT DEF Onward, Early, Over, Written
  <2> QED
    BY <2>1, <2>2, <1>3, <1>4 DEF StepOf, Step
<1> QED
  BY <1>2, <1>7

\* OneOwner says that no model is owned twice.
LEMMA OneOwnerApart == OneOwner <=> Apart
<1> DEFINE ids(S) == {<<q.graph, q.by, q.context>> : q \in S}
<1>1. ASSUME NEW S, NEW T
      PROVE  ids(S) \cap ids(T) = {} <=> \A q \in S : \A r \in T : ~Same(q, r)
  <2>1. \A q, r : <<q.graph, q.by, q.context>> = <<r.graph, r.by, r.context>> <=> Same(q, r)
    BY SMT DEF Same
  <2> QED
    BY <2>1
<1>2. OneOwner <=>
        /\ \A s \in Sessions :
             /\ ids(Mine(s)) \cap ids(shared) = {}
             /\ \A t \in Sessions \ {s} : ids(Mine(s)) \cap ids(Mine(t)) = {}
        /\ \A q, r \in shared : q.graph = r.graph => q = r
  BY DEF OneOwner, Mine
<1>3. \A s \in Sessions :
        ids(Mine(s)) \cap ids(shared) = {} <=>
          \A q \in Mine(s) : \A r \in shared : ~Same(q, r)
  BY <1>1
<1>4. \A s, t \in Sessions :
        ids(Mine(s)) \cap ids(Mine(t)) = {} <=>
          \A q \in Mine(s) : \A r \in Mine(t) : ~Same(q, r)
  BY <1>1
<1> HIDE DEF ids
<1> QED
  BY <1>2, <1>3, <1>4 DEF Apart

\* Every session goes onward; the models of the others are as they were.
LEMMA Others ==
    ASSUME OwnerInv, NEW s \in Sessions, StepOf(s)
    PROVE  /\ \A t \in Sessions : Onward(pc[t], pc'[t])
           /\ \A t \in Sessions : t # s => pc'[t] = pc[t]
           /\ \A q \in Model : q.by \in Sessions
           /\ \A q \in Model : pc[q.by] \in Over => pc'[q.by] \in Over
           /\ shared \in SUBSET Model
           /\ table \in [Sessions -> SUBSET Model] /\ models \in [Sessions -> SUBSET Model]
           /\ \A t \in Sessions : table[t] \in SUBSET Model /\ models[t] \in SUBSET Model
<1>1. /\ pc' = [pc EXCEPT ![s] = pc'[s]] /\ Onward(pc[s], pc'[s])
      /\ pc \in [Sessions -> Pcs]
  BY PcMoves DEF OwnerInv, TypeOK, PlacesOK
<1>2. \A t \in Sessions : t # s => pc'[t] = pc[t]
  BY <1>1
<1>3. \A t \in Sessions : Onward(pc[t], pc'[t])
  <2>1. \A t \in Sessions : Onward(pc[t], pc[t])
    BY DEF Onward
  <2> QED
    BY <1>1, <1>2, <2>1
<1>4. \A q \in Model : q.by \in Sessions
  BY DEF Model
<1>5. \A q \in Model : pc[q.by] \in Over => pc'[q.by] \in Over
  BY <1>3, <1>4 DEF Onward
<1> QED
  BY <1>2, <1>3, <1>4, <1>5 DEF OwnerInv, TypeOK, ModelsOK

\* Steps that leave the models where they are, or drop some.
LEMMA QuietOwners ==
    ASSUME OwnerInv, NEW s \in Sessions, StepOf(s), models' = models,
           shared' \subseteq shared, \A t \in Sessions : table'[t] \subseteq table[t]
    PROVE  OwnInv' /\ AbroadInv' /\ Apart'
<1>1. OwnInv'
  <2>1. \A t \in Sessions : NoneYet(t)'
    <3> SUFFICES ASSUME NEW t \in Sessions PROVE NoneYet(t)'
      OBVIOUS
    <3>1. NoneYet(t) /\ Onward(pc[t], pc'[t])
      BY Others DEF OwnerInv, OwnInv
    <3>2. table[t] = {} => table'[t] = {}
      OBVIOUS
    <3> QED
      BY <3>1, <3>2, SMT DEF NoneYet, Onward, Early, Written
  <2>2. \A t \in Sessions : TableOK(t)'
    BY DEF OwnerInv, OwnInv, TableOK
  <2> QED
    BY <2>1, <2>2 DEF OwnInv
<1>2. AbroadInv'
  <2>1. \A q \in shared : pc'[q.by] \in Over
    BY Others DEF OwnerInv, AbroadInv
  <2>2. \A t \in Sessions : \A q \in models[t] : q.by = t \/ pc'[q.by] \in Over
    BY Others DEF OwnerInv, AbroadInv
  <2> QED
    BY <2>1, <2>2 DEF AbroadInv
<1>3. Apart'
  <2>1. shared' \subseteq shared /\ \A t \in Sessions : Mine(t)' \subseteq Mine(t)
    BY DEF Mine
  <2>2. \A q, r : Same(q, r)' <=> Same(q, r)
    BY DEF Same
  <2> QED
    BY <2>1, <2>2 DEF OwnerInv, Apart
<1> QED
  BY <1>1, <1>2, <1>3

\* A session that fails.
LEMMA DropOwners ==
    ASSUME OwnerInv, NEW s \in Sessions, Drops(s)
    PROVE  OwnInv' /\ AbroadInv' /\ Apart'
<1>1. TypeOK /\ StepOf(s)
  BY DEF OwnerInv, StepOf
<1> QED
  BY <1>1, DropEffect, QuietOwners

\* GetSharedQnnModel: what it finds leaves the vector.
LEMMA TakeOwners ==
    ASSUME OwnerInv, NEW s \in Sessions, GetSharedQnnModel(s)
    PROVE  OwnInv' /\ AbroadInv' /\ Apart'
<1> DEFINE found == {q \in shared : q.graph = Nodes(s)[at[s]]}
<1>1. /\ shared' = shared \ found /\ models' = [models EXCEPT ![s] = models[s] \cup found]
      /\ table' = table /\ pc[s] = "take"
  BY DEF GetSharedQnnModel
<1>2. pc'[s] \in {"take"} \cup Over
  BY SMT DEF GetSharedQnnModel, Goto, OwnerInv, TypeOK, PlacesOK, Over
<1>3. StepOf(s)
  BY DEF StepOf, Step
<1>4. /\ \A q \in found : q \in shared
      /\ \A q \in found : \A r \in shared : r.graph = q.graph => r \in found
  OBVIOUS
<1>5. /\ models'[s] = models[s] \cup found /\ \A t \in Sessions : t # s => models'[t] = models[t]
  BY <1>1, <1>3, Others
<1> HIDE DEF found
<1>6. table[s] = {}
  BY <1>1 DEF OwnerInv, OwnInv, NoneYet
<1>7. OwnInv'
  <2> SUFFICES ASSUME NEW t \in Sessions PROVE NoneYet(t)' /\ TableOK(t)'
    BY DEF OwnInv
  <2>1. NoneYet(t) /\ TableOK(t)
    BY DEF OwnerInv, OwnInv
  <2>2. CASE t # s
    <3>1. pc'[t] = pc[t] /\ models'[t] = models[t] /\ table'[t] = table[t]
      BY <2>2, <1>1, <1>3, <1>5, Others
    <3> QED
      BY <3>1, <2>1 DEF NoneYet, TableOK
  <2>3. CASE t = s
    <3>1. pc'[s] \notin Early /\ pc'[s] # "load"
      BY <1>2, SMT DEF Early, Over
    <3> QED
      BY <3>1, <2>3, <1>1, <1>6 DEF NoneYet, TableOK
  <2> QED
    BY <2>2, <2>3
<1>8. AbroadInv'
  <2>1. \A q \in shared' : pc'[q.by] \in Over
    BY <1>1, <1>3, Others DEF OwnerInv, AbroadInv
  <2>2. \A q \in found : pc'[q.by] \in Over
    BY <1>3, <1>4, Others DEF OwnerInv, AbroadInv
  <2>3. \A t \in Sessions : \A q \in models[t] : q.by = t \/ pc'[q.by] \in Over
    BY <1>3, Others DEF OwnerInv, AbroadInv
  <2>4. \A t \in Sessions : \A q \in models'[t] : q.by = t \/ pc'[q.by] \in Over
    BY <1>5, <2>2, <2>3
  <2> QED
    BY <2>1, <2>4 DEF AbroadInv
<1>9. Apart'
  <2>1. /\ \A t \in Sessions : \A q \in Mine(t) : \A r \in shared : ~Same(q, r)
        /\ \A t, u \in Sessions : t # u =>
             \A q \in Mine(t) : \A r \in Mine(u) : ~Same(q, r)
        /\ \A q, r \in shared : q.graph = r.graph => q = r
    BY DEF OwnerInv, Apart
  <2>2. Mine(s)' = Mine(s) \cup found /\ \A t \in Sessions : t # s => Mine(t)' = Mine(t)
    BY <1>1, <1>5 DEF Mine
  <2>3. \A q, r : Same(q, r) => Same(r, q) /\ q.graph = r.graph
    BY DEF Same
  <2>4. ASSUME NEW t \in Sessions, NEW q \in Mine(t)', NEW r \in shared', Same(q, r)
        PROVE  FALSE
    <3>1. r \in shared /\ r \notin found /\ q.graph = r.graph
      BY <2>4, <2>3, <1>1
    <3>2. q \in Mine(t) \/ q \in found
      BY <2>2
    <3> QED
      BY <3>1, <3>2, <2>1, <2>4, <1>4
  <2>5. ASSUME NEW t \in Sessions, NEW u \in Sessions, t # u,
               NEW q \in Mine(t)', NEW r \in Mine(u)', Same(q, r)
        PROVE  FALSE
    <3>1. CASE q \in Mine(t) /\ r \in Mine(u)
      BY <3>1, <2>1, <2>5
    <3>2. CASE q \in Mine(t) /\ r \in found
      BY <3>2, <2>1, <2>5, <1>4
    <3>3. CASE q \in found /\ r \in Mine(u)
      BY <3>3, <2>1, <2>3, <2>5, <1>4
    <3> QED
      BY <3>1, <3>2, <3>3, <2>2, <2>5
  <2>6. \A q, r \in shared' : q.graph = r.graph => q = r
    BY <2>1, <1>1
  <2> QED
    BY <2>4, <2>5, <2>6 DEF Apart
<1> QED
  BY <1>7, <1>8, <1>9

\* LoadBinary: nobody has a model that this session deserialized.
LEMMA LoadOwners ==
    ASSUME OwnerInv, NEW s \in Sessions, LoadBinary(s)
    PROVE  OwnInv' /\ AbroadInv' /\ Apart'
<1>0. StepOf(s) /\ TypeOK /\ PlaceInv /\ OwnInv
  BY DEF StepOf, Step, OwnerInv
<1>1. CASE Drops(s)
  BY <1>1, DropOwners
<1>2. CASE ~Drops(s)
  <2>1. /\ pc[s] = "load" /\ Bin(s) \in Range(Config(s).bins) /\ LoadContext(s) # 0
        /\ table' = [table EXCEPT ![s] = Filed(s) \cup Loaded(s)]
        /\ shared' = shared /\ models' = models /\ pc' \in {pc, [pc EXCEPT ![s] = "assign"]}
    BY <1>0, <1>2, LoadEffect
  <2>2. pc'[s] \in {"load", "assign"}
    BY <2>1, SMT DEF OwnerInv, TypeOK, PlacesOK
  <2>3. models[s] = {}
    BY <2>1 DEF OwnerInv, OwnInv, NoneYet
  <2>4. table'[s] = Filed(s) \cup Loaded(s) /\ \A t \in Sessions : t # s => table'[t] = table[t]
    BY <2>1, <1>0, Others
  <2>5. \A q \in Filed(s) : \E r \in table[s] :
          q.graph = r.graph /\ q.by = r.by /\ q.key = r.key /\ q = [r EXCEPT !.path = Bin(s)]
    BY <1>0, Others DEF Filed, Model
  <2>6. \A q \in Loaded(s) : \E g \in GraphsOf[Bin(s)] \ Got(table[s]) :
          q = NewModel(s, g) /\ q.graph = g /\ q.by = s /\ q.key = g
    <3>1. \A g : NewModel(s, g).graph = g /\ NewModel(s, g).by = s /\ NewModel(s, g).key = g
      BY DEF NewModel
    <3> QED
      BY <3>1 DEF Loaded
  <2>7. /\ \A q \in table[s] : q.by = s /\ q.key = q.graph
        /\ \A q, r \in table[s] : q.graph = r.graph => q = r
    BY DEF OwnerInv, OwnInv, TableOK
  <2>8. \A q \in table'[s] : q.by = s /\ q.key = q.graph
    <3>1. ASSUME NEW q \in Filed(s) PROVE q.by = s /\ q.key = q.graph
      <4>1. PICK r \in table[s] : q.graph = r.graph /\ q.by = r.by /\ q.key = r.key
        BY <2>5
      <4> QED
        BY <4>1, <2>7
    <3>2. \A q \in Loaded(s) : q.by = s /\ q.key = q.graph
      BY <2>6
    <3> QED
      BY <2>4, <3>1, <3>2
  <2>9. ASSUME NEW q \in table'[s], NEW r \in table'[s], q.graph = r.graph
        PROVE  q = r
    <3>1. CASE q \in Filed(s) /\ r \in Filed(s)
      <4>1. PICK x \in table[s] : q.graph = x.graph /\ q = [x EXCEPT !.path = Bin(s)]
        BY <3>1, <2>5
      <4>2. PICK y \in table[s] : r.graph = y.graph /\ r = [y EXCEPT !.path = Bin(s)]
        BY <3>1, <2>5
      <4>3. x = y
        BY <4>1, <4>2, <2>7, <2>9
      <4> QED
        BY <4>1, <4>2, <4>3
    <3>2. CASE q \in Loaded(s) /\ r \in Loaded(s)
      BY <3>2, <2>6, <2>9
    <3>3. \A x \in Filed(s) : \A y \in Loaded(s) : x.graph # y.graph
      <4>1. \A x \in Filed(s) : x.graph \in Got(table[s])
        BY <2>5 DEF Got
      <4> QED
        BY <4>1, <2>6
    <3> QED
      BY <3>1, <3>2, <3>3, <2>4, <2>9
  <2>10. OwnInv'
    <3> SUFFICES ASSUME NEW t \in Sessions PROVE NoneYet(t)' /\ TableOK(t)'
      BY DEF OwnInv
    <3>1. CASE t # s
      <4>1. pc'[t] = pc[t] /\ models'[t] = models[t] /\ table'[t] = table[t]
        BY <3>1, <1>0, <2>1, <2>4, Others
      <4>2. NoneYet(t) /\ TableOK(t)
        BY DEF OwnerInv, OwnInv
      <4> QED
        BY <4>1, <4>2 DEF NoneYet, TableOK
    <3>2. CASE t = s
      <4>1. pc'[s] \notin Early /\ pc'[s] \notin Written \cup {"take"}
        BY <2>2, SMT DEF Early, Written
      <4> QED
        BY <4>1, <3>2, <2>1, <2>3, <2>8, <2>9 DEF NoneYet, TableOK
    <3> QED
      BY <3>1, <3>2
  <2>11. AbroadInv'
    <3>1. \A q \in shared : pc'[q.by] \in Over
      BY <1>0, Others DEF OwnerInv, AbroadInv
    <3>2. \A t \in Sessions : \A q \in models[t] : q.by = t \/ pc'[q.by] \in Over
      BY <1>0, Others DEF OwnerInv, AbroadInv
    <3> QED
      BY <3>1, <3>2, <2>1 DEF AbroadInv
  <2>12. pc[s] \notin Over
    BY <2>1, SMT DEF Over
  <2>13. /\ \A q \in shared : q.by # s
         /\ \A t \in Sessions : t # s => \A q \in Mine(t) : q.by # s
    BY <2>12 DEF OwnerInv, AbroadInv, OwnInv, TableOK, Mine
  <2>14. /\ \A q \in Mine(s)' : q.by = s
         /\ \A t \in Sessions : t # s => Mine(t)' = Mine(t)
    BY <2>1, <2>3, <2>4, <2>8 DEF Mine
  <2>15. Apart'
    <3>1. /\ \A t \in Sessions : \A q \in Mine(t) : \A r \in shared : ~Same(q, r)
          /\ \A t, u \in Sessions : t # u =>
               \A q \in Mine(t) : \A r \in Mine(u) : ~Same(q, r)
          /\ \A q, r \in shared : q.graph = r.graph => q = r
      BY DEF OwnerInv, Apart
    <3>2. ASSUME NEW t \in Sessions, NEW q \in Mine(t)', NEW r \in shared', Same(q, r)
          PROVE  FALSE
      <4>1. q.by = r.by /\ r \in shared
        BY <3>2, <2>1 DEF Same
      <4>2. t # s
        BY <4>1, <2>13, <2>14
      <4> QED
        BY <4>1, <4>2, <3>1, <3>2, <2>14
    <3>3. ASSUME NEW t \in Sessions, NEW u \in Sessions, t # u,
                 NEW q \in Mine(t)', NEW r \in Mine(u)', Same(q, r)
          PROVE  FALSE
      <4>1. q.by = r.by
        BY <3>3 DEF Same
      <4>2. CASE t = s
        BY <4>1, <4>2, <3>3, <2>13, <2>14
      <4>3. CASE u = s
        BY <4>1, <4>3, <3>3, <2>13, <2>14
      <4>4. CASE t # s /\ u # s
        <5>1. q \in Mine(t) /\ r \in Mine(u)
          BY <4>4, <2>14
        <5> QED
          BY <5>1, <3>1, <3>3
      <4> QED
        BY <4>2, <4>3, <4>4
    <3> QED
      BY <3>1, <3>2, <3>3, <2>1 DEF Apart
  <2> QED
    BY <2>10, <2>11, <2>15
<1> QED
  BY <1>1, <1>2

\* AssignModels: what a node gets leaves the table.
LEMMA AssignOwners ==
    ASSUME OwnerInv, NEW s \in Sessions, AssignModels(s)
    PROVE  OwnInv' /\ AbroadInv' /\ Apart'
<1>0. StepOf(s) /\ TypeOK /\ PlaceInv /\ OwnInv
  BY DEF StepOf, Step, OwnerInv
<1> SUFFICES ASSUME ~Drops(s) PROVE OwnInv' /\ AbroadInv' /\ Apart'
  BY DropOwners
<1>1. PICK found \in SUBSET table[s] :
        /\ models' = [models EXCEPT ![s] = models[s] \cup found]
        /\ table' = [table EXCEPT ![s] = table[s] \ found]
        /\ shared' = shared
  BY <1>0, AssignEffect
<1>2. pc[s] = "assign" /\ pc'[s] \in {"assign", "publish"} \cup Over
  BY SMT DEF AssignModels, Abandon, Goto, OwnerInv, TypeOK, PlacesOK, Over
<1>3. /\ models'[s] = models[s] \cup found /\ table'[s] = table[s] \ found
      /\ \A t \in Sessions : t # s => models'[t] = models[t] /\ table'[t] = table[t]
  BY <1>0, <1>1, Others
<1>4. TableOK(s)
  BY DEF OwnerInv, OwnInv
<1>5. OwnInv'
  <2> SUFFICES ASSUME NEW t \in Sessions PROVE NoneYet(t)' /\ TableOK(t)'
    BY DEF OwnInv
  <2>1. CASE t # s
    <3>1. pc'[t] = pc[t] /\ models'[t] = models[t] /\ table'[t] = table[t]
      BY <2>1, <1>0, <1>3, Others
    <3>2. NoneYet(t) /\ TableOK(t)
      BY DEF OwnerInv, OwnInv
    <3> QED
      BY <3>1, <3>2 DEF NoneYet, TableOK
  <2>2. CASE t = s
    <3>1. pc'[s] \notin Early /\ pc'[s] \notin Written \cup {"take"} /\ pc'[s] # "load"
      BY <1>2, SMT DEF Early, Written, Over
    <3>2. NoneYet(s)'
      BY <3>1 DEF NoneYet
    <3>3. TableOK(s)'
      BY <1>3, <1>4 DEF TableOK
    <3> QED
      BY <3>2, <3>3, <2>2
  <2> QED
    BY <2>1, <2>2
<1>6. AbroadInv'
  <2>1. \A q \in shared : pc'[q.by] \in Over
    BY <1>0, Others DEF OwnerInv, AbroadInv
  <2>2. \A t \in Sessions : \A q \in models[t] : q.by = t \/ pc'[q.by] \in Over
    BY <1>0, Others DEF OwnerInv, AbroadInv
  <2>3. \A q \in found : q.by = s
    BY <1>4 DEF TableOK
  <2> QED
    BY <2>1, <2>2, <2>3, <1>1, <1>3 DEF AbroadInv
<1>7. Apart'
  <2>1. shared' = shared /\ \A t \in Sessions : Mine(t)' = Mine(t)
    BY <1>1, <1>3 DEF Mine
  <2> QED
    BY <2>1, SMT DEF OwnerInv, Apart, Same
<1> QED
  BY <1>5, <1>6, <1>7

\* SetSharedQnnModel: what is new in the vector leaves the table, and nothing
\* in the vector has its name.
LEMMA PublishOwners ==
    ASSUME OwnerInv, NEW s \in Sessions, SetSharedQnnModel(s)
    PROVE  OwnInv' /\ AbroadInv' /\ Apart'
<1> DEFINE fresh == {q \in table[s] : ~InShared(q.graph)}
<1>0. StepOf(s) /\ TypeOK /\ PlaceInv /\ OwnInv
  BY DEF StepOf, Step, OwnerInv
<1>1. /\ shared' = shared \cup fresh /\ table' = [table EXCEPT ![s] = {}]
      /\ models' = models
  BY DEF SetSharedQnnModel
<1>2. pc[s] = "publish" /\ pc'[s] \in Over
  BY SMT DEF SetSharedQnnModel, Goto, OwnerInv, TypeOK, PlacesOK, Over
<1>3. /\ table'[s] = {} /\ \A t \in Sessions : t # s => table'[t] = table[t]
  BY <1>0, <1>1, Others
<1>4. TableOK(s)
  BY DEF OwnerInv, OwnInv
<1>5. /\ fresh \subseteq table[s] /\ \A q \in fresh : \A r \in shared : r.graph # q.graph
  BY DEF InShared
<1> HIDE DEF fresh
<1>6. OwnInv'
  <2> SUFFICES ASSUME NEW t \in Sessions PROVE NoneYet(t)' /\ TableOK(t)'
    BY DEF OwnInv
  <2>1. CASE t # s
    <3>1. pc'[t] = pc[t] /\ models'[t] = models[t] /\ table'[t] = table[t]
      BY <2>1, <1>0, <1>1, <1>3, Others
    <3>2. NoneYet(t) /\ TableOK(t)
      BY DEF OwnerInv, OwnInv
    <3> QED
      BY <3>1, <3>2 DEF NoneYet, TableOK
  <2>2. CASE t = s
    <3>1. pc'[s] \notin Early /\ pc'[s] \notin Written \cup {"take"} /\ pc'[s] # "load"
      BY <1>2, SMT DEF Early, Written, Over
    <3> QED
      BY <3>1, <2>2, <1>3 DEF NoneYet, TableOK
  <2> QED
    BY <2>1, <2>2
<1>7. AbroadInv'
  <2>1. \A q \in shared : pc'[q.by] \in Over
    BY <1>0, Others DEF OwnerInv, AbroadInv
  <2>2. \A t \in Sessions : \A q \in models[t] : q.by = t \/ pc'[q.by] \in Over
    BY <1>0, Others DEF OwnerInv, AbroadInv
  <2>3. \A q \in fresh : pc'[q.by] \in Over
    BY <1>2, <1>4, <1>5 DEF TableOK
  <2> QED
    BY <2>1, <2>2, <2>3, <1>1 DEF AbroadInv
<1>8. Apart'
  <2>1. /\ \A t \in Sessions : \A q \in Mine(t) : \A r \in shared : ~Same(q, r)
        /\ \A t, u \in Sessions : t # u =>
             \A q \in Mine(t) : \A r \in Mine(u) : ~Same(q, r)
        /\ \A q, r \in shared : q.graph = r.graph => q = r
    BY DEF OwnerInv, Apart
  <2>2. /\ Mine(s)' = models[s] /\ fresh \subseteq Mine(s)
        /\ \A t \in Sessions : t # s => Mine(t)' = Mine(t)
        /\ \A t \in Sessions : Mine(t)' \subseteq Mine(t)
    BY <1>1, <1>3, <1>5 DEF Mine
  <2>3. ASSUME NEW t \in Sessions, NEW q \in Mine(t)', NEW r \in shared', Same(q, r)
        PROVE  FALSE
    <3>1. CASE r \in shared
      BY <3>1, <2>1, <2>2, <2>3
    <3>2. CASE r \in fresh /\ t # s
      BY <3>2, <2>1, <2>2, <2>3
    <3>3. CASE r \in fresh /\ t = s
      <4>1. q \in models[s] /\ r \in table[s] /\ r.graph = q.graph
        BY <3>3, <2>2, <2>3, <1>5 DEF Same
      <4> QED
        BY <4>1, <1>4 DEF TableOK
    <3> QED
      BY <3>1, <3>2, <3>3, <1>1
  <2>4. ASSUME NEW t \in Sessions, NEW u \in Sessions, t # u,
               NEW q \in Mine(t)', NEW r \in Mine(u)', Same(q, r)
        PROVE  FALSE
    BY <2>1, <2>2, <2>4
  <2>5. ASSUME NEW q \in shared', NEW r \in shared', q.graph = r.graph PROVE q = r
    <3>1. CASE q \in fresh /\ r \in fresh
      BY <3>1, <2>5, <1>4, <1>5 DEF TableOK
    <3>2. CASE q \in shared /\ r \in shared
      BY <3>2, <2>1, <2>5
    <3> QED
      BY <3>1, <3>2, <2>5, <1>1, <1>5
  <2> QED
    BY <2>3, <2>4, <2>5 DEF Apart
<1> QED
  BY <1>6, <1>7, <1>8

\* CompileGraphs: the models of a generating session are its own.
LEMMA ComposeOwners ==
    ASSUME OwnerInv, NEW s \in Sessions, CompileGraphs(s)
    PROVE  OwnInv' /\ AbroadInv' /\ Apart'
<1>0. StepOf(s) /\ TypeOK /\ PlaceInv /\ OwnInv
  BY DEF StepOf, Step, OwnerInv
<1>1. /\ models' = [models EXCEPT ![s] = Composed(s)] /\ table' = table
      /\ shared' = shared
  BY <1>0, ComposeEffect DEF CompileGraphs, exchange
<1>2. pc[s] = "compose" /\ pc'[s] = "serialize"
  BY DEF CompileGraphs, Goto, OwnerInv, TypeOK, PlacesOK
<1>3. /\ models'[s] = Composed(s) /\ \A t \in Sessions : t # s => models'[t] = models[t]
  BY <1>0, <1>1, Others
<1>4. table[s] = {} /\ pc[s] \notin Over
  <2>1. pc[s] \in Early /\ pc[s] \notin Over
    BY <1>2, SMT DEF Early, Over
  <2> QED
    BY <2>1 DEF OwnerInv, OwnInv, NoneYet
<1>5. \A q \in Composed(s) : q.by = s
  BY SMT DEF Composed
<1>6. OwnInv'
  <2> SUFFICES ASSUME NEW t \in Sessions PROVE NoneYet(t)' /\ TableOK(t)'
    BY DEF OwnInv
  <2>1. CASE t # s
    <3>1. pc'[t] = pc[t] /\ models'[t] = models[t] /\ table'[t] = table[t]
      BY <2>1, <1>0, <1>1, <1>3, Others
    <3>2. NoneYet(t) /\ TableOK(t)
      BY DEF OwnerInv, OwnInv
    <3> QED
      BY <3>1, <3>2 DEF NoneYet, TableOK
  <2>2. CASE t = s
    <3>1. pc'[s] \notin Early /\ pc'[s] # "load"
      BY <1>2, SMT DEF Early
    <3> QED
      BY <3>1, <2>2, <1>1, <1>4 DEF NoneYet, TableOK
  <2> QED
    BY <2>1, <2>2
<1>7. AbroadInv'
  <2>1. \A q \in shared : pc'[q.by] \in Over
    BY <1>0, Others DEF OwnerInv, AbroadInv
  <2>2. \A t \in Sessions : \A q \in models[t] : q.by = t \/ pc'[q.by] \in Over
    BY <1>0, Others DEF OwnerInv, AbroadInv
  <2>3. ASSUME NEW t \in Sessions, NEW q \in models'[t]
        PROVE  q.by = t \/ pc'[q.by] \in Over
    <3>1. CASE t = s
      BY <3>1, <1>3, <1>5
    <3>2. CASE t # s
      BY <3>2, <2>2, <1>3
    <3> QED
      BY <3>1, <3>2
  <2> QED
    BY <2>1, <2>3, <1>1 DEF AbroadInv
<1>8. /\ \A q \in shared : q.by # s
      /\ \A t \in Sessions : t # s => \A q \in Mine(t) : q.by # s
  BY <1>4 DEF OwnerInv, AbroadInv, OwnInv, TableOK, Mine
<1>9. /\ \A q \in Mine(s)' : q.by = s
      /\ \A t \in Sessions : t # s => Mine(t)' = Mine(t)
  BY <1>1, <1>3, <1>4, <1>5 DEF Mine
<1>10. Apart'
  <2>1. /\ \A t \in Sessions : \A q \in Mine(t) : \A r \in shared : ~Same(q, r)
        /\ \A t, u \in Sessions : t # u =>
             \A q \in Mine(t) : \A r \in Mine(u) : ~Same(q, r)
        /\ \A q, r \in shared : q.graph = r.graph => q = r
    BY DEF OwnerInv, Apart
  <2>2. ASSUME NEW t \in Sessions, NEW q \in Mine(t)', NEW r \in shared', Same(q, r)
        PROVE  FALSE
    <3>1. q.by = r.by /\ r \in shared
      BY <2>2, <1>1 DEF Same
    <3>2. r.by # s
      BY <3>1, <1>8
    <3>3. t # s
      BY <3>1, <3>2, <2>2, <1>9
    <3>4. q \in Mine(t)
      BY <3>3, <2>2, <1>9
    <3> QED
      BY <3>1, <3>4, <2>1, <2>2
  <2>3. ASSUME NEW t \in Sessions, NEW u \in Sessions, t # u,
               NEW q \in Mine(t)', NEW r \in Mine(u)', Same(q, r)
        PROVE  FALSE
    <3>1. q.by = r.by
      BY <2>3 DEF Same
    <3>2. CASE t = s
      BY <3>1, <3>2, <2>3, <1>8, <1>9
    <3>3. CASE u = s
      BY <3>1, <3>3, <2>3, <1>8, <1>9
    <3>4. CASE t # s /\ u # s
      <4>1. q \in Mine(t) /\ r \in Mine(u)
        BY <3>4, <1>9
      <4> QED
        BY <4>1, <2>1, <2>3
    <3> QED
      BY <3>2, <3>3, <3>4
  <2> QED
    BY <2>1, <2>2, <2>3, <1>1 DEF Apart
<1> QED
  BY <1>6, <1>7, <1>10

\* DestroySession: its models are gone.
LEMMA DestroyOwners ==
    ASSUME OwnerInv, NEW s \in Sessions, DestroySession(s)
    PROVE  OwnInv' /\ AbroadInv' /\ Apart'
<1>0. StepOf(s) /\ TypeOK /\ PlaceInv /\ OwnInv
  BY DEF StepOf, OwnerInv
<1>1. /\ models' = [models EXCEPT ![s] = {}] /\ table' = [table EXCEPT ![s] = {}]
      /\ shared' = shared
  BY DEF DestroySession, exchange
<1>2. /\ models'[s] = {} /\ table'[s] = {}
      /\ \A t \in Sessions : t # s => models'[t] = models[t] /\ table'[t] = table[t]
  BY <1>0, <1>1, Others
<1>3. OwnInv'
  <2> SUFFICES ASSUME NEW t \in Sessions PROVE NoneYet(t)' /\ TableOK(t)'
    BY DEF OwnInv
  <2>1. CASE t # s
    <3>1. pc'[t] = pc[t] /\ models'[t] = models[t] /\ table'[t] = table[t]
      BY <2>1, <1>0, <1>2, Others
    <3>2. NoneYet(t) /\ TableOK(t)
      BY DEF OwnerInv, OwnInv
    <3> QED
      BY <3>1, <3>2 DEF NoneYet, TableOK
  <2>2. CASE t = s
    BY <2>2, <1>2 DEF NoneYet, TableOK
  <2> QED
    BY <2>1, <2>2
<1>4. AbroadInv'
  <2>1. \A q \in shared : pc'[q.by] \in Over
    BY <1>0, Others DEF OwnerInv, AbroadInv
  <2>2. \A t \in Sessions : \A q \in models[t] : q.by = t \/ pc'[q.by] \in Over
    BY <1>0, Others DEF OwnerInv, AbroadInv
  <2> QED
    BY <2>1, <2>2, <1>1, <1>2 DEF AbroadInv
<1>5. Apart'
  <2>1. /\ \A t \in Sessions : \A q \in Mine(t) : \A r \in shared : ~Same(q, r)
        /\ \A t, u \in Sessions : t # u =>
             \A q \in Mine(t) : \A r \in Mine(u) : ~Same(q, r)
        /\ \A q, r \in shared : q.graph = r.graph => q = r
    BY DEF OwnerInv, Apart
  <2>2. \A t \in Sessions : Mine(t)' \subseteq Mine(t)
    BY <1>2 DEF Mine
  <2>3. ASSUME NEW t \in Sessions, NEW q \in Mine(t)', NEW r \in shared', Same(q, r)
        PROVE  FALSE
    BY <2>1, <2>2, <2>3, <1>1
  <2>4. ASSUME NEW t \in Sessions, NEW u \in Sessions, t # u,
               NEW q \in Mine(t)', NEW r \in Mine(u)', Same(q, r)
        PROVE  FALSE
    BY <2>1, <2>2, <2>4
  <2> QED
    BY <2>1, <2>3, <2>4, <1>1 DEF Apart
<1> QED
  BY <1>3, <1>4, <1>5

\* The invariant holds at first and is kept by every step.
LEMMA OwnerInit == Init => OwnerInv
<1> SUFFICES ASSUME Init PROVE OwnerInv
  OBVIOUS
<1> USE DEF Init
<1>1. PlacesOK
  <2>1. 1 \in Nat \ {0} /\ "new" \in Pcs
    BY SMT DEF Pcs, Early
  <2> QED
    BY <2>1 DEF PlacesOK
<1>2. ManagersOK
  <2>1. FreshManager \in Managers
    <3>1. [x \in Names |-> 0] \in [Names -> Nat] /\ <<>> \in Seq(Binaries)
      BY SMT
    <3>2. "none" \in Allocs /\ {} \in SUBSET Graphs
      BY DEF Allocs
    <3> QED
      BY <3>1, <3>2 DEF FreshManager, Managers
  <2> QED
    BY <2>1 DEF ManagersOK
<1>3. ModelsOK
  BY DEF ModelsOK
<1>4. PlaceInv
  BY SMT DEF PlaceInv, PlaceOK, PlaceAt, Written
<1>5. OwnInv /\ AbroadInv
  BY DEF OwnInv, NoneYet, TableOK, AbroadInv
<1>6. Apart
  BY DEF Apart, Mine
<1> QED
  BY <1>1, <1>2, <1>3, <1>4, <1>5, <1>6 DEF OwnerInv, TypeOK

\* Every step keeps OwnerInv.
LEMMA OwnerStep == OwnerInv /\ [Next]_vars => OwnerInv'
<1>1. ASSUME OwnerInv, NEW s \in Sessions, StepOf(s) PROVE OwnerInv'
  <2>1. TypeOK' /\ PlaceInv'
    BY <1>1, Types DEF OwnerInv
  <2>2. OwnInv' /\ AbroadInv' /\ Apart'
    <3>1. TypeOK /\ PlaceInv /\ OwnInv
      BY <1>1 DEF OwnerInv
    <3> QED
      <4>1. CASE UNCHANGED <<shared, table, models>>
        <5>1. /\ models' = models /\ shared' \subseteq shared
              /\ \A t \in Sessions : table'[t] \subseteq table[t]
          BY <4>1
        <5> QED
          BY <1>1, <5>1, QuietOwners
      <4> QED
        BY <1>1, <3>1, <4>1, QuietSteps, DropOwners, TakeOwners, LoadOwners,
          AssignOwners, PublishOwners, ComposeOwners, DestroyOwners
  <2> QED
    BY <2>1, <2>2 DEF OwnerInv
<1>2. ASSUME OwnerInv, UNCHANGED vars PROVE OwnerInv'
  <2>1. TypeOK' /\ PlaceInv'
    BY <1>2 DEF OwnerInv, vars, TypeOK, PlacesOK, ManagersOK, ModelsOK, PlaceInv,
       PlaceOK,
      PlaceAt, IsLoad, Config, Nodes
  <2>2. OwnInv' /\ AbroadInv'
    <3>1. UNCHANGED <<pc, shared, models, table>>
      BY <1>2 DEF vars
    <3>2. OwnInv'
      BY <3>1, <1>2 DEF OwnerInv, OwnInv, NoneYet, TableOK
    <3>3. AbroadInv'
      BY <3>1, <1>2 DEF OwnerInv, AbroadInv
    <3> QED
      BY <3>2, <3>3
  <2>3. Apart'
    <3>1. shared' = shared /\ \A t \in Sessions : Mine(t)' = Mine(t)
      BY <1>2 DEF Mine, vars
    <3> QED
      BY <3>1, <1>2, SMT DEF OwnerInv, Apart, Same
  <2> QED
    BY <2>1, <2>2, <2>3 DEF OwnerInv
<1>3. OwnerInv => TypeOK
  BY DEF OwnerInv
<1> QED
  BY <1>1, <1>2, <1>3, NextStep

\* A model that a session deserialized has one owner at any time: the session
\* that loaded it, the shared vector or the session that took it.
THEOREM OneOwnerHolds == Spec => []OneOwner
<1>1. OwnerInv => OneOwner
  BY OneOwnerApart DEF OwnerInv
<1> QED
  BY <1>1, OwnerInit, OwnerStep, PTL DEF Spec

-----------------------------------------------------------------------------
\* The kind of session s.
Kind(s) == Config(s).kind
\* The kinds of session that may use the manager of another one.
Sharing == {"generate", "htp"}

\* How sessions may be combined: those that share managers are created one at
\* a time; resources and deserialized models are not shared by one session; the
\* name of a main node stands for one binary.
SharingRules ==
    /\ Sharing \subseteq SerialKinds
    /\ \A c \in Configs : \A s \in Sessions : c[s].kind = "htp" => ~c[s].share
    /\ \A c \in Configs : \A s, t \in Sessions :
         c[s].kind = "htp" /\ c[t].kind = "htp" =>
           \A b \in Range(c[s].bins) : \A d \in Range(c[t].bins) :
             FirstIn(c[s].nodes, b) = FirstIn(c[t].nodes, d) => b = d

\* Sessions that share managers are created one at a time.
SerialInv ==
    \A s, t \in Sessions :
        s # t /\ Kind(s) \in Sharing /\ Kind(t) \in Sharing => ~(Busy(s) /\ Busy(t))

\* A manager belongs to the session it is named after, or is shared by kinds
\* that share.
ManagerInv ==
    /\ \A s \in Sessions : manager[s] # None =>
         manager[s] = s \/ (Kind(s) \in Sharing /\ Kind(manager[s]) \in Sharing)
    /\ slot # None => Kind(slot) \in Sharing

\* A model that went to another session was deserialized by a session that is
\* kept alive with its manager.
Lent(q) == Kind(q.by) = "load" /\ manager[q.by] = q.by /\ q.manager = q.by

\* The models of session s belong to its manager, or were lent to it.
HomeOK(s) ==
    \A q \in Mine(s) :
        /\ q.by = s => q.manager = manager[s]
        /\ q.by # s => Lent(q)
        /\ IsLoad(s) => q.path # None

\* The models of all sessions are at home, and those of the shared vector are
\* lent.
HomeInv ==
    /\ \A s \in Sessions : HomeOK(s)
    /\ \A q \in shared : Lent(q) /\ q.path # None

\* The managers: names lead to the context of their binary, and the models of
\* a manager are graphs of its contexts.
NamesOK(b) ==
    \A x \in Names : b.names[x] # 0 =>
        /\ b.names[x] \in DOMAIN b.contexts
        /\ x \in Binaries => b.contexts[b.names[x]] = x
        /\ x \in Graphs => \E t \in Sessions :
             /\ Kind(t) = "htp" /\ b.contexts[b.names[x]] \in Range(Config(t).bins)
             /\ x = MainNode(t, b.contexts[b.names[x]])

\* All models there are.
All == shared \cup UNION {Mine(s) : s \in Sessions}
\* No model belongs to manager m.
Unused(m) == \A q \in All : q.manager # m

\* Model q can run on manager b: it is up, and has the context of the model if
\* that was deserialized.
ModelIn(q, b) ==
    /\ b.up
    /\ q.path # None => /\ q.context \in DOMAIN b.contexts
                        /\ q.graph \in GraphsOf[b.contexts[q.context]]

\* The names of every manager are right, and no manager of a session that loads
\* shares its contexts.
NamesInv == \A m \in Sessions :
    NamesOK(backend[m]) /\ (backend[m].sharing => Kind(m) # "load")
\* Every model can run on its manager.
ModelsInv == \A q \in All : ModelIn(q, backend[q.manager])
\* The manager is up while graphs are composed; the compatibility check works
\* on a manager without models, which it may release.
UpInv ==
    \A s \in Sessions :
        /\ pc[s] = "compose" => Mgr(s).up
        /\ pc[s] = "probing" \/ (pc[s] = "checked" /\ ~IsLoad(s)) => Unused(manager[s])

\* What a session has got so far.
Part(s, k) == {Nodes(s)[i] : i \in 1 .. k}

\* What session s has got at its point: the models of the nodes before the one
\* it looks at, all of them once it is created.
ProgressOK(s) ==
    /\ \A q, r \in models[s] : q.graph = r.graph => q = r
    /\ pc[s] \in {"take", "assign"} => Got(models[s]) = Part(s, at[s] - 1)
    /\ pc[s] = "assign" =>
         \A i \in DOMAIN Nodes(s) : i >= at[s] => Nodes(s)[i] \in Got(table[s])
    /\ pc[s] = "load" =>
         \A k \in 1 .. at[s] - 1 : GraphsOf[Config(s).bins[k]] \subseteq Got(table[s])
    /\ pc[s] \in Written \cup {"publish", "ready"} => Got(models[s]) = Range(Nodes(s))

\* Every session has what its point says.
ProgressInv == \A s \in Sessions : ProgressOK(s)

\* The inductive invariant of ReadySessionsCanRun.
RunInv == /\ OwnerInv /\ SerialInv /\ ManagerInv /\ HomeInv
          /\ NamesInv /\ ModelsInv /\ UpInv /\ ProgressInv

-----------------------------------------------------------------------------
\* What a step changes of the places, for the other sessions and the busy one.
LEMMA Elsewhere ==
    ASSUME OwnerInv, NEW s \in Sessions, StepOf(s)
    PROVE  /\ config' = config
           /\ \A t \in Sessions : t # s =>
                /\ pc'[t] = pc[t] /\ at'[t] = at[t] /\ manager'[t] = manager[t]
                /\ models'[t] = models[t] /\ table'[t] = table[t]
<1>1. config' = config /\ Moved(s)
  BY Types DEF OwnerInv
<1>2. PICK l, a, m : MovesTo(s, l, a, m)
  BY <1>1 DEF Moved
<1>3. \A t \in Sessions : t # s =>
        pc'[t] = pc[t] /\ at'[t] = at[t] /\ manager'[t] = manager[t]
  BY <1>2 DEF MovesTo, OwnerInv, TypeOK, PlacesOK
<1>4. TypeOK /\ PlaceInv /\ OwnInv
  BY DEF OwnerInv
<1>5. ASSUME NEW t \in Sessions, t # s
      PROVE  models'[t] = models[t] /\ table'[t] = table[t]
  <2>0. table \in [Sessions -> SUBSET Model] /\ models \in [Sessions -> SUBSET Model]
    BY Others
  <2>1. CASE UNCHANGED <<shared, table, models>>
    BY <2>1
  <2>2. CASE GetSharedQnnModel(s)
    BY <2>0, <2>2, <1>5 DEF GetSharedQnnModel
  <2>3. CASE LoadBinary(s) /\ ~Drops(s)
    BY <2>0, <2>3, <1>4, <1>5, LoadEffect
  <2>4. CASE AssignModels(s) /\ ~Drops(s)
    BY <2>0, <2>4, <1>4, <1>5, AssignEffect
  <2>8. CASE Drops(s)
    BY <2>8, <1>4, <1>5, DropEffect
  <2>5. CASE SetSharedQnnModel(s)
    BY <2>0, <2>5, <1>5 DEF SetSharedQnnModel
  <2>6. CASE CompileGraphs(s)
    BY <2>0, <2>6, <1>5 DEF CompileGraphs
  <2>7. CASE DestroySession(s)
    BY <2>0, <2>7, <1>5 DEF DestroySession
  <2> QED
    BY <2>1, <2>2, <2>3, <2>4, <2>5, <2>6, <2>7, <2>8, <1>4, QuietSteps
<1> QED
  BY <1>1, <1>3, <1>5

\* Only the constructor begins the creation of a session.
LEMMA BusyMoves ==
    ASSUME OwnerInv, NEW s \in Sessions, StepOf(s)
    PROVE  Construct(s) \/ DestroySession(s) \/ Busy(s)
<1>1. ASSUME \/ SettleAllocator(s) \/ StopSharing(s) \/ ValidateCompatibility(s)
             \/ ReleaseProbe(s) \/ GetCapability(s) \/ SetupBackend(s)
             \/ SetupBackendFails(s) \/ Look(s) \/ CompileContextModel(s)
      PROVE  Busy(s)
  <2>1. pc[s] \in {"constructed", "stopping", "built", "probing", "checked", "validated",
                   "setup", "look1", "look2", "compile"}
    BY <1>1 DEF SettleAllocator, StopSharing, ValidateCompatibility, ReleaseProbe,
      GetCapability, SetupBackend, SetupBackendFails, Look, CompileContextModel
  <2> QED
    BY <2>1, SMT DEF Busy
<1>2. ASSUME \/ LockShared(s) \/ GetSharedQnnModel(s) \/ LoadBinary(s)
             \/ Drops(s) \/ AssignModels(s) \/ SetSharedQnnModel(s)
             \/ CompileGraphs(s) \/ CompileFails(s) \/ ReadContextBinary(s)
             \/ WriteContextBinary(s) \/ WriteFails(s) \/ PublishManager(s)
      PROVE  Busy(s)
  <2>1. pc[s] \in {"take", "publish", "load", "assign", "compose", "serialize", "write",
                   "handover", "offer"}
    BY <1>2 DEF LockShared, GetSharedQnnModel, LoadBinary, Drops,
       AssignModels,
      SetSharedQnnModel, CompileGraphs, CompileFails, ReadContextBinary,
      WriteContextBinary, WriteFails, PublishManager,
      GetSharedQnnBackendManager, SetSharedQnnBackendManager
  <2> QED
    BY <2>1, SMT DEF Busy
<1> QED
  BY <1>1, <1>2 DEF StepOf, Step

\* Every step keeps SerialInv: a sharing session starts when none is busy.
LEMMA SerialStep ==
    ASSUME SharingRules, OwnerInv, SerialInv, NEW s \in Sessions, StepOf(s)
    PROVE  SerialInv'
<1>1. /\ config' = config /\ \A t \in Sessions : t # s => pc'[t] = pc[t]
  BY Elsewhere
<1>2. \A t \in Sessions : Kind(t)' = Kind(t)
  BY <1>1 DEF Kind, Config
<1>3. \A t \in Sessions : t # s => (Busy(t)' <=> Busy(t))
  BY <1>1 DEF Busy
<1>4. CASE Busy(s)
  BY <1>2, <1>3, <1>4 DEF SerialInv
<1>5. CASE Construct(s)
  <2>1. Kind(s) \in Sharing =>
          \A t \in Sessions : t # s /\ Kind(t) \in Sharing => ~Busy(t)
    BY <1>5 DEF Construct, MayStart, SharingRules, Kind
  <2> QED
    BY <2>1, <1>2, <1>3 DEF SerialInv
<1>6. CASE DestroySession(s)
  <2>1. pc'[s] = "gone"
    BY <1>6 DEF DestroySession, Goto, OwnerInv, TypeOK, PlacesOK
  <2>2. ~Busy(s)'
    BY <2>1, SMT DEF Busy
  <2> QED
    BY <2>2, <1>2, <1>3 DEF SerialInv
<1> QED
  BY <1>4, <1>5, <1>6, BusyMoves

\* What the manager of the session becomes.
LEMMA ManagerMoves ==
    ASSUME OwnerInv, NEW s \in Sessions, StepOf(s)
    PROVE  \/ manager'[s] = manager[s] /\ ~Construct(s)
           \/ manager'[s] = None /\ (SettleAllocator(s) \/ DestroySession(s))
           \/ Construct(s) /\ manager'[s] = s
           \/ Construct(s) /\ manager'[s] = slot /\ slot # None /\ UsesSharedManager(s)
<1>0. manager \in [Sessions -> Sessions \cup {None}] /\ pc \in [Sessions -> Pcs]
  BY DEF OwnerInv, TypeOK, PlacesOK
<1>1. CASE Construct(s)
  BY <1>0, <1>1 DEF Construct
<1>2. CASE SettleAllocator(s)
  <2>1. pc[s] = "constructed"
    BY <1>2 DEF SettleAllocator
  <2>2. ~Construct(s)
    BY <2>1 DEF Construct
  <2> QED
    BY <1>0, <1>2, <2>2 DEF SettleAllocator
<1>3. CASE DestroySession(s)
  BY <1>0, <1>3 DEF DestroySession
<1>4. CASE ~Construct(s) /\ ~SettleAllocator(s) /\ ~DestroySession(s)
  <2>1. manager' = manager
    BY <1>4 DEF StepOf, Step, StopSharing, ValidateCompatibility, ReleaseProbe,
      GetCapability, SetupBackend, SetupBackendFails, Look, CompileContextModel,
      LockShared, GetSharedQnnModel, LoadBinary, Drops, AssignModels,
      SetSharedQnnModel, CompileGraphs, CompileFails, ReadContextBinary,
      WriteContextBinary, WriteFails, PublishManager,
      GetSharedQnnBackendManager, SetSharedQnnBackendManager
  <2> QED
    BY <2>1, <1>4
<1> QED
  BY <1>1, <1>2, <1>3, <1>4

\* Every step keeps ManagerInv: managers are taken over by sharing kinds only.
LEMMA ManagerStep ==
    ASSUME OwnerInv, ManagerInv, NEW s \in Sessions, StepOf(s)
    PROVE  ManagerInv'
<1>1. /\ config' = config /\ \A t \in Sessions : t # s => manager'[t] = manager[t]
  BY Elsewhere
<1>2. \A t : Kind(t)' = Kind(t)
  BY <1>1 DEF Kind, Config
<1>3. \A t \in Sessions : manager[t] # None =>
        manager[t] = t \/ (Kind(t) \in Sharing /\ Kind(manager[t]) \in Sharing)
  BY DEF ManagerInv
<1>4. slot # None => Kind(slot) \in Sharing
  BY DEF ManagerInv
<1>5. UsesSharedManager(s) => Kind(s) \in Sharing
  BY DEF UsesSharedManager, Kind, Sharing
<1>6. manager'[s] # None =>
        manager'[s] = s \/ (Kind(s) \in Sharing /\ Kind(manager'[s]) \in Sharing)
  BY <1>3, <1>4, <1>5, ManagerMoves
<1>7. slot' # None => Kind(slot') \in Sharing
  <2>1. CASE slot' = slot \/ slot' = None
    BY <2>1, <1>4
  <2>2. CASE slot' = s /\ Config(s).kind = "htp"
    BY <2>2 DEF Kind, Sharing
  <2>3. CASE slot' = manager[s] /\ pc[s] = "offer"
    <3>1. manager[s] # None /\ ~IsLoad(s)
      BY <2>3, SMT DEF OwnerInv, PlaceInv, PlaceOK, PlaceAt, Written
    <3>2. Kind(s) \in Sharing
      BY <3>1 DEF Kind, Sharing, IsLoad
    <3> QED
      BY <2>3, <3>1, <3>2, <1>3
  <2> QED
    BY <2>1, <2>2, <2>3, SlotMoves DEF OwnerInv
<1>8. \A t \in Sessions : manager'[t] # None =>
        manager'[t] = t \/ (Kind(t) \in Sharing /\ Kind(manager'[t]) \in Sharing)
  BY <1>1, <1>3, <1>6
<1> QED
  BY <1>2, <1>7, <1>8 DEF ManagerInv

\* Two sessions that are being created have different managers.
LEMMA Exclusive ==
    ASSUME OwnerInv, SerialInv, ManagerInv, NEW s \in Sessions, NEW t \in Sessions,
           Busy(s), Busy(t), manager[s] = manager[t]
    PROVE  s = t
<1>1. manager[s] # None /\ manager[t] # None
  BY DEF OwnerInv, PlaceInv, PlaceOK, PlaceAt, Busy
<1>2. s # t => Kind(s) \in Sharing /\ Kind(t) \in Sharing
  BY <1>1 DEF ManagerInv
<1> QED
  BY <1>2 DEF SerialInv

-----------------------------------------------------------------------------
\* The models there are after a step.
Renamed(s, q) ==
    \E r \in table[s] :
        /\ q.graph = r.graph /\ q.by = r.by /\ q.manager = r.manager
        /\ q.context = r.context /\ q.path = Bin(s)

\* What a step does to the models of its session and to the shared vector.
LEMMA MineMoves ==
    ASSUME OwnerInv, NEW s \in Sessions, StepOf(s)
    PROVE  \/ Mine(s)' \subseteq Mine(s) /\ shared' \subseteq shared
           \/ /\ GetSharedQnnModel(s)
              /\ Mine(s)' \subseteq Mine(s) \cup shared /\ shared' \subseteq shared
           \/ /\ SetSharedQnnModel(s)
              /\ Mine(s)' \subseteq Mine(s) /\ shared' \subseteq shared \cup table[s]
           \/ /\ LoadBinary(s) /\ ~Drops(s) /\ shared' = shared
              /\ \A q \in Mine(s)' : q \in Mine(s) \/ Renamed(s, q) \/ q \in Loaded(s)
           \/ CompileGraphs(s) /\ shared' = shared /\ Mine(s)' \subseteq Mine(s) \cup Composed(s)
<1>3. /\ TypeOK /\ PlaceInv /\ OwnInv
      /\ table \in [Sessions -> SUBSET Model] /\ models \in [Sessions -> SUBSET Model]
      /\ table[s] \in SUBSET Model
  BY Others DEF OwnerInv
<1>6. CASE UNCHANGED <<shared, table, models>>
  BY <1>6 DEF Mine
<1>7. CASE GetSharedQnnModel(s)
  <2> DEFINE found == {q \in shared : q.graph = Nodes(s)[at[s]]}
  <2>1. /\ shared' = shared \ found /\ models' = [models EXCEPT ![s] = models[s] \cup found]
        /\ table' = table
    BY <1>7 DEF GetSharedQnnModel
  <2>2. found \subseteq shared
    OBVIOUS
  <2> HIDE DEF found
  <2> QED
    BY <2>1, <2>2, <1>3, <1>7 DEF Mine
<1>8. CASE AssignModels(s) /\ ~Drops(s)
  <2>1. PICK found \in SUBSET table[s] :
          /\ models' = [models EXCEPT ![s] = models[s] \cup found]
          /\ table' = [table EXCEPT ![s] = table[s] \ found]
          /\ shared' = shared
    BY <1>3, <1>8, AssignEffect
  <2> QED
    BY <2>1, <1>3 DEF Mine
<1>9. CASE SetSharedQnnModel(s)
  <2>1. /\ shared' \subseteq shared \cup table[s] /\ table' = [table EXCEPT ![s] = {}]
        /\ models' = models
    BY <1>9 DEF SetSharedQnnModel
  <2> QED
    BY <2>1, <1>3, <1>9 DEF Mine
<1>10. CASE DestroySession(s)
  BY <1>10, <1>3 DEF Mine, DestroySession, exchange
<1>11. CASE CompileGraphs(s)
  <2>1. /\ models' = [models EXCEPT ![s] = Composed(s)] /\ table' = table
        /\ shared' = shared
    BY <1>3, <1>11, ComposeEffect DEF CompileGraphs, exchange
  <2> QED
    BY <2>1, <1>3, <1>11 DEF Mine
<1>12. CASE Drops(s)
  BY <1>3, <1>12, DropEffect DEF Mine
<1>13. CASE LoadBinary(s) /\ ~Drops(s)
  <2>1. /\ table' = [table EXCEPT ![s] = Filed(s) \cup Loaded(s)]
        /\ shared' = shared /\ models' = models
    BY <1>3, <1>13, LoadEffect
  <2>2. \A q \in Mine(s)' : q \in Mine(s) \/ q \in Filed(s) \/ q \in Loaded(s)
    BY <2>1, <1>3 DEF Mine
  <2>3. \A q \in Filed(s) : Renamed(s, q)
    BY <1>3 DEF Filed, Renamed, Model
  <2> QED
    BY <2>1, <2>2, <2>3, <1>13
<1> QED
  BY <1>3, <1>6, <1>7, <1>8, <1>9, <1>10, <1>11, <1>12, <1>13, QuietSteps

\* The sets of models that All consists of.
LEMMA InAll ==
    ASSUME OwnerInv, NEW s \in Sessions
    PROVE  /\ shared \subseteq All /\ Mine(s) \subseteq All /\ table[s] \subseteq All
           /\ \A q \in All : q \in Model /\ q.manager \in Sessions
<1>1. shared \subseteq All /\ Mine(s) \subseteq All /\ table[s] \subseteq All
  BY DEF All, Mine
<1>2. shared \subseteq Model /\ \A t \in Sessions : Mine(t) \subseteq Model
  BY DEF OwnerInv, TypeOK, ModelsOK, Mine
<1>3. \A q \in All : q \in Model
  BY <1>2 DEF All
<1>4. \A q \in Model : q.manager \in Sessions
  BY SMT DEF Model
<1> QED
  BY <1>1, <1>3, <1>4

\* The fields of the models that LoadBinary and CompileGraphs make.
LEMMA NewFields ==
    ASSUME NEW s \in Sessions
    PROVE  /\ \A q \in Loaded(s) : /\ q.by = s /\ q.manager = manager[s] /\ q.path = Bin(s)
                                   /\ q.context = LoadContext(s)
           /\ \A q \in Composed(s) : q.by = s /\ q.manager = manager[s] /\ q.path = None
<1>1. \A g : /\ NewModel(s, g).by = s /\ NewModel(s, g).manager = manager[s]
             /\ NewModel(s, g).path = Bin(s) /\ NewModel(s, g).context = LoadContext(s)
  BY DEF NewModel
<1>2. \A q \in Loaded(s) : \E g : q = NewModel(s, g)
  BY DEF Loaded
<1>3. \A q \in Composed(s) : q.by = s /\ q.manager = manager[s] /\ q.path = None
  BY SMT DEF Composed
<1> QED
  BY <1>1, <1>2, <1>3

\* Which models a step can add: those of a binary, of a composition, or with a
\* new path.
LEMMA AllMoves ==
    ASSUME OwnerInv, NEW s \in Sessions, StepOf(s)
    PROVE  \/ All' \subseteq All
           \/ /\ LoadBinary(s) /\ ~Drops(s)
              /\ \A q \in All' : q \in All \/ Renamed(s, q) \/ q \in Loaded(s)
           \/ CompileGraphs(s) /\ \A q \in All' : q \in All \/ q \in Composed(s)
<1>1. \A t \in Sessions : t # s => Mine(t)' = Mine(t)
  BY Elsewhere DEF Mine
<1>2. \A q \in All' : q \in shared' \/ q \in Mine(s)' \/ q \in All
  <2>1. \A q \in All' : q \in shared' \/ \E t \in Sessions : q \in Mine(t)'
    BY DEF All
  <2>2. \A t \in Sessions : t # s => \A q \in Mine(t)' : q \in All
    BY <1>1 DEF All
  <2> QED
    BY <2>1, <2>2
<1>3. shared \subseteq All /\ Mine(s) \subseteq All /\ table[s] \subseteq All
  BY InAll
<1> QED
  BY <1>2, <1>3, MineMoves

\* A model that left the session that deserialized it, after a step.
LEMMA LentStep ==
    ASSUME OwnerInv, OwnerInv', ManagerInv, NEW s \in Sessions, StepOf(s),
           NEW q \in Model, Lent(q),
           \/ q \in shared'
           \/ \E t \in Sessions : t # q.by /\ q \in Mine(t)'
    PROVE  Lent(q)'
<1>1. /\ config' = config
      /\ \A t \in Sessions : t # s => manager'[t] = manager[t] /\ Mine(t)' = Mine(t)
  BY Elsewhere DEF Mine
<1>2. \A t : Kind(t)' = Kind(t)
  BY <1>1 DEF Kind, Config
<1>3. q.by \in Sessions
  BY DEF Model
<1>4. pc'[q.by] \in Over
  BY DEF OwnerInv, AbroadInv, OwnInv, TableOK, Mine
<1>5. manager'[q.by] = q.by
  <2>1. CASE q.by # s
    BY <2>1, <1>1, <1>3 DEF Lent
  <2>2. CASE q.by = s
    <3>1. manager[s] = s /\ Kind(s) = "load" /\ q.manager = s
      BY <2>2 DEF Lent
    <3>2. CASE Construct(s)
      <4>1. pc'[s] = "constructed"
        BY <3>2 DEF Construct, Goto, OwnerInv, TypeOK, PlacesOK
      <4> QED
        BY <4>1, <2>2, <1>4, SMT DEF Over
    <3>3. CASE SettleAllocator(s)
      BY <3>1, <3>3, <2>2 DEF SettleAllocator
    <3>4. CASE DestroySession(s)
      <4>1. /\ shared' = shared /\ Mine(s)' = {}
        BY <3>4, Others DEF DestroySession, exchange, Mine
      <4>2. q \in shared \/ \E t \in Sessions \ {s} : q \in Mine(t)
        BY <4>1, <2>2, <1>1, <1>3
      <4>3. Borrowed(s, s)
        BY <4>2, <3>1 DEF Borrowed, Mine
      <4>4. slot # s /\ \A t \in Sessions \ {s} : manager[t] # s
        <5>1. "load" \notin Sharing
          BY DEF Sharing
        <5> QED
          BY <5>1, <3>1, BinariesNamed DEF ManagerInv
      <4>5. s # None
        BY BinariesNamed
      <4> QED
        BY <4>3, <4>4, <4>5, <3>1, <3>4 DEF DestroySession
    <3> QED
      BY <3>1, <3>2, <3>3, <3>4, <2>2, ManagerMoves
  <2> QED
    BY <2>1, <2>2
<1> QED
  BY <1>2, <1>3, <1>5 DEF Lent

\* Every step keeps HomeInv: only sessions that load give models away.
LEMMA HomeStep ==
    ASSUME SharingRules, OwnerInv, OwnerInv', ManagerInv, HomeInv,
           NEW s \in Sessions, StepOf(s)
    PROVE  HomeInv'
<1>1. /\ config' = config
      /\ \A t \in Sessions : t # s => manager'[t] = manager[t] /\ Mine(t)' = Mine(t)
  BY Elsewhere DEF Mine
<1>2. \A t : (IsLoad(t)' <=> IsLoad(t))
  BY <1>1 DEF Config, IsLoad
<1>3. /\ TypeOK /\ PlaceInv /\ OwnInv /\ shared \in SUBSET Model
      /\ \A t \in Sessions : Mine(t) \in SUBSET Model
      /\ \A t \in Sessions : Mine(t)' \in SUBSET Model
      /\ shared' \in SUBSET Model
  BY DEF OwnerInv, Mine, TypeOK, ModelsOK
<1>4. /\ \A t \in Sessions : \A q \in Mine(t) :
           /\ q.by = t => q.manager = manager[t]
           /\ q.by # t => Lent(q)
           /\ IsLoad(t) => q.path # None
      /\ \A q \in shared : Lent(q) /\ q.path # None
  BY DEF HomeInv, HomeOK
<1>5. \A q \in shared : q \in shared' => Lent(q)' /\ q.path # None
  BY <1>3, <1>4, LentStep
<1>6. ASSUME NEW q \in shared', q \notin shared PROVE Lent(q)' /\ q.path # None
  <2>1. SetSharedQnnModel(s) /\ q \in table[s]
    BY <1>6, MineMoves
  <2>2. pc[s] = "publish" /\ manager' = manager
    BY <2>1 DEF SetSharedQnnModel
  <2>3. IsLoad(s) /\ Config(s).share /\ manager[s] # None
    BY <2>2, SMT DEF OwnerInv, PlaceInv, PlaceOK, PlaceAt
  <2>4. Kind(s) = "load"
    <3>1. config \in Configs
      BY <1>3 DEF TypeOK, PlacesOK
    <3>2. Config(s).kind \in {"generate", "load", "htp"}
      BY <3>1, ConfigFacts
    <3> QED
      BY <2>3, <3>1, <3>2 DEF SharingRules, Kind, Config, IsLoad
  <2>5. manager[s] = s
    <3>1. "load" \notin Sharing
      BY DEF Sharing
    <3> QED
      BY <3>1, <2>3, <2>4 DEF ManagerInv
  <2>6. q.by = s /\ q \in Mine(s)
    BY <2>1, <1>3 DEF OwnInv, TableOK, Mine
  <2>7. q.manager = s /\ q.path # None
    BY <2>3, <2>5, <2>6, <1>4
  <2> QED
    BY <2>2, <2>4, <2>5, <2>6, <2>7, <1>1 DEF Lent, Kind, Config
<1>7. ASSUME NEW t \in Sessions, t # s PROVE HomeOK(t)'
  <2> SUFFICES ASSUME NEW q \in Mine(t)'
               PROVE  /\ q.by = t => q.manager = manager'[t]
                      /\ q.by # t => Lent(q)'
                      /\ IsLoad(t) => q.path # None
    BY <1>2 DEF HomeOK
  <2>1. q \in Mine(t) /\ manager'[t] = manager[t] /\ q \in Model
    BY <1>1, <1>3, <1>7
  <2>2. q.by # t => Lent(q)'
    BY <2>1, <1>4, LentStep
  <2> QED
    BY <2>1, <2>2, <1>4
<1>8. manager'[s] = manager[s] \/ Mine(s)' = {}
  <2>1. CASE Construct(s) \/ SettleAllocator(s)
    <3>1. pc[s] \in {"new", "constructed"} /\ UNCHANGED <<models, table>>
      BY <2>1 DEF Construct, SettleAllocator, owned
    <3>2. pc[s] \in Early
      BY <3>1, SMT DEF Early
    <3> QED
      BY <3>1, <3>2 DEF OwnerInv, OwnInv, NoneYet, Mine
  <2>2. CASE DestroySession(s)
    BY <2>2, Others DEF DestroySession, Mine
  <2> QED
    BY <2>1, <2>2, ManagerMoves
<1>9. HomeOK(s)'
  <2> SUFFICES ASSUME NEW q \in Mine(s)'
               PROVE  /\ q.by = s => q.manager = manager'[s]
                      /\ q.by # s => Lent(q)'
                      /\ IsLoad(s) => q.path # None
    BY <1>2 DEF HomeOK
  <2>0. manager'[s] = manager[s] /\ q \in Model
    BY <1>3, <1>8
  <2>1. CASE q \in Mine(s)
    <3>1. q.by # s => Lent(q)'
      BY <2>0, <2>1, <1>4, LentStep
    <3> QED
      BY <3>1, <2>0, <2>1, <1>4
  <2>2. CASE q \in shared /\ GetSharedQnnModel(s)
    <3>1. pc[s] = "take"
      BY <2>2 DEF GetSharedQnnModel
    <3>2. pc[s] \notin Over
      BY <3>1, SMT DEF Over
    <3>3. q.by # s
      BY <3>2, <2>2 DEF OwnerInv, AbroadInv
    <3>4. Lent(q)'
      BY <3>3, <2>0, <2>2, <1>4, LentStep
    <3> QED
      BY <3>3, <3>4, <2>2, <1>4
  <2>3. CASE LoadBinary(s) /\ (Renamed(s, q) \/ q \in Loaded(s))
    <3>1. Bin(s) # None
      <4>1. Bin(s) \in Range(Config(s).bins) /\ config \in Configs
        BY <2>3, <1>3, LoadEffect DEF TypeOK, PlacesOK
      <4>2. Bin(s) \in Binaries
        BY <4>1, MainNodes
      <4> QED
        BY <4>2, BinariesNamed
    <3>2. CASE Renamed(s, q)
      <4>1. PICK r \in table[s] : q.by = r.by /\ q.manager = r.manager /\ q.path = Bin(s)
        BY <3>2 DEF Renamed
      <4>2. r.by = s /\ r \in Mine(s)
        BY <1>3 DEF OwnInv, TableOK, Mine
      <4> QED
        BY <4>1, <4>2, <3>1, <2>0, <1>4
    <3>3. CASE q \in Loaded(s)
      <4>1. q.by = s /\ q.manager = manager[s] /\ q.path = Bin(s)
        BY <3>3, SMT DEF Loaded, NewModel
      <4> QED
        BY <4>1, <3>1, <2>0
    <3> QED
      BY <3>2, <3>3, <2>3
  <2>4. CASE CompileGraphs(s) /\ q \in Composed(s)
    <3>1. q.by = s /\ q.manager = manager[s]
      BY <2>4, SMT DEF Composed
    <3>2. pc[s] = "compose"
      BY <2>4 DEF CompileGraphs
    <3>3. ~IsLoad(s)
      BY <3>2, SMT DEF OwnerInv, PlaceInv, PlaceOK, PlaceAt
    <3> QED
      BY <3>1, <3>3, <2>0
  <2> QED
    BY <2>1, <2>2, <2>3, <2>4, MineMoves
<1> QED
  BY <1>5, <1>6, <1>7, <1>9 DEF HomeInv

-----------------------------------------------------------------------------
\* A manager keeps its contexts.
Grows(b, w) ==
    /\ b.up => w.up
    /\ \A i \in DOMAIN b.contexts :
         i \in DOMAIN w.contexts /\ w.contexts[i] = b.contexts[i]

\* Names keep their contexts, or become names of a binary of the session.
NamesFrom(s, b, w) ==
    \A x \in Names : w.names[x] # 0 /\ w.names[x] # b.names[x] =>
        \E c \in Range(Config(s).bins) :
            /\ x \in {c, MainNode(s, c)}
            /\ w.names[x] \in DOMAIN w.contexts /\ w.contexts[w.names[x]] = c

\* Names stay right when contexts are only added and new names are of the
\* session's binaries.
LEMMA NamesKept ==
    ASSUME config \in Configs, NEW s \in Sessions, NEW b, NEW w,
           NamesOK(b), Range(Config(s).bins) # {} => Kind(s) = "htp",
           Grows(b, w), NamesFrom(s, b, w)
    PROVE  NamesOK(w)
<1> SUFFICES ASSUME NEW x \in Names, w.names[x] # 0
             PROVE  /\ w.names[x] \in DOMAIN w.contexts
                    /\ x \in Binaries => w.contexts[w.names[x]] = x
                    /\ x \in Graphs => \E t \in Sessions :
                         /\ Kind(t) = "htp"
                         /\ w.contexts[w.names[x]] \in Range(Config(t).bins)
                         /\ x = MainNode(t, w.contexts[w.names[x]])
  BY DEF NamesOK
<1>1. CASE w.names[x] = b.names[x]
  <2>1. /\ b.names[x] \in DOMAIN b.contexts
        /\ x \in Binaries => b.contexts[b.names[x]] = x
        /\ x \in Graphs => \E t \in Sessions :
             /\ Kind(t) = "htp" /\ b.contexts[b.names[x]] \in Range(Config(t).bins)
             /\ x = MainNode(t, b.contexts[b.names[x]])
    BY <1>1 DEF NamesOK
  <2>2. w.names[x] \in DOMAIN w.contexts /\ w.contexts[w.names[x]] = b.contexts[b.names[x]]
    BY <2>1, <1>1 DEF Grows
  <2> QED
    BY <2>1, <2>2
<1>2. CASE w.names[x] # b.names[x]
  <2>1. PICK c \in Range(Config(s).bins) :
             /\ x \in {c, MainNode(s, c)}
             /\ w.names[x] \in DOMAIN w.contexts /\ w.contexts[w.names[x]] = c
    BY <1>2 DEF NamesFrom
  <2>2. c \in Binaries /\ MainNode(s, c) \in Graphs
    BY MainNodes
  <2>3. x \in Binaries => x = c
    BY <2>1, <2>2, BinariesNamed
  <2>4. x \in Graphs => x = MainNode(s, c)
    BY <2>1, <2>2, BinariesNamed
  <2> QED
    BY <2>1, <2>3, <2>4
<1> QED
  BY <1>1, <1>2

\* Contexts that are appended.
LEMMA Appended ==
    ASSUME NEW c \in Seq(Binaries), NEW d \in Seq(Binaries), NEW e, e = c \o d
    PROVE  /\ \A i \in DOMAIN c : i \in DOMAIN e /\ e[i] = c[i]
           /\ \A i \in DOMAIN d : Len(c) + i \in DOMAIN e /\ e[Len(c) + i] = d[i]
BY SMT

\* Loading binaries adds contexts and right names.
LEMMA WithContextsKeeps ==
    ASSUME config \in Configs, NEW s \in Sessions, NEW b \in Managers, NamesOK(b),
           Range(Config(s).bins) # {} => Kind(s) = "htp",
           NEW bins \in Seq(Binaries), Range(bins) \subseteq Range(Config(s).bins)
    PROVE  Grows(b, WithContexts(b, s, bins)) /\ NamesOK(WithContexts(b, s, bins))
<1> DEFINE w == WithContexts(b, s, bins)
<1>1. /\ w \in Managers /\ w.up = b.up /\ w.contexts = b.contexts \o bins
      /\ \A x \in Names :
           \/ w.names[x] = b.names[x]
           \/ \E i \in DOMAIN bins :
                /\ x \in {bins[i], MainNode(s, bins[i])}
                /\ w.names[x] = Len(b.contexts) + i
  BY WithContextsFields
<1> HIDE DEF w
<1>2. b.contexts \in Seq(Binaries)
  BY DEF Managers
<1>3. /\ \A i \in DOMAIN b.contexts :
           i \in DOMAIN w.contexts /\ w.contexts[i] = b.contexts[i]
      /\ \A i \in DOMAIN bins : /\ Len(b.contexts) + i \in DOMAIN w.contexts
                                /\ w.contexts[Len(b.contexts) + i] = bins[i]
  <2>1. w.contexts = b.contexts \o bins
    BY <1>1
  <2> QED
    BY <2>1, <1>2, Appended, SMT
<1>4. NamesFrom(s, b, w)
  <2> SUFFICES ASSUME NEW x \in Names, w.names[x] # b.names[x]
               PROVE  \E c \in Range(Config(s).bins) :
                        /\ x \in {c, MainNode(s, c)}
                        /\ w.names[x] \in DOMAIN w.contexts /\ w.contexts[w.names[x]] = c
    BY DEF NamesFrom
  <2>1. PICK i \in DOMAIN bins : /\ x \in {bins[i], MainNode(s, bins[i])}
                                 /\ w.names[x] = Len(b.contexts) + i
    BY <1>1
  <2>2. bins[i] \in Range(Config(s).bins)
    BY DEF Range
  <2> QED
    BY <2>1, <2>2, <1>3
<1>5. Grows(b, w)
  BY <1>1, <1>3 DEF Grows
<1> QED
  BY <1>4, <1>5, NamesKept DEF w

\* Setting up on a manager that shares adds contexts and right names.
LEMMA ReusedKeeps ==
    ASSUME config \in Configs, NEW s \in Sessions, NEW b \in Managers, NamesOK(b),
           Range(Config(s).bins) # {} => Kind(s) = "htp", NEW w, ReusedOK(s, b, w)
    PROVE  Grows(b, w) /\ NamesOK(w)
<1>1. w \in Managers /\ w.up = b.up
  BY DEF ReusedOK
<1>2. b.contexts \in Seq(Binaries) /\ Config(s).bins \in Seq(Binaries)
  BY ConfigFacts DEF Managers
<1>3. CASE /\ w.contexts = b.contexts \o Config(s).bins
           /\ \A x \in Names :
                \/ w.names[x] = b.names[x]
                \/ \E i \in DOMAIN Config(s).bins :
                     /\ x \in {Config(s).bins[i], MainNode(s, Config(s).bins[i])}
                     /\ w.names[x] = Len(b.contexts) + i
  <2>1. /\ \A i \in DOMAIN b.contexts :
             i \in DOMAIN w.contexts /\ w.contexts[i] = b.contexts[i]
        /\ \A i \in DOMAIN Config(s).bins :
             /\ Len(b.contexts) + i \in DOMAIN w.contexts
             /\ w.contexts[Len(b.contexts) + i] = Config(s).bins[i]
    <3>1. \A d \in Seq(Binaries) : w.contexts = b.contexts \o d =>
            /\ \A i \in DOMAIN b.contexts :
                 i \in DOMAIN w.contexts /\ w.contexts[i] = b.contexts[i]
            /\ \A i \in DOMAIN d : /\ Len(b.contexts) + i \in DOMAIN w.contexts
                                   /\ w.contexts[Len(b.contexts) + i] = d[i]
      BY <1>2, Appended, SMT
    <3> QED
      BY <3>1, <1>2, <1>3
  <2>2. \A i \in DOMAIN Config(s).bins : Config(s).bins[i] \in Range(Config(s).bins)
    BY DEF Range
  <2>3. NamesFrom(s, b, w)
    <3> SUFFICES ASSUME NEW x \in Names, w.names[x] # b.names[x]
                 PROVE  \E c \in Range(Config(s).bins) :
                          /\ x \in {c, MainNode(s, c)}
                          /\ w.names[x] \in DOMAIN w.contexts /\ w.contexts[w.names[x]] = c
      BY DEF NamesFrom
    <3>1. PICK i \in DOMAIN Config(s).bins :
            /\ x \in {Config(s).bins[i], MainNode(s, Config(s).bins[i])}
            /\ w.names[x] = Len(b.contexts) + i
      BY <1>3
    <3> QED
      BY <3>1, <2>1, <2>2
  <2>4. Grows(b, w)
    BY <2>1, <1>1 DEF Grows
  <2> QED
    BY <2>3, <2>4, NamesKept
<1>4. CASE /\ w.contexts = b.contexts
           /\ \A x \in Names :
                \/ w.names[x] = b.names[x]
                \/ \E c \in Range(Config(s).bins) :
                     MainNode(s, c) = x /\ w.names[x] = b.names[c]
  <2>1. \A i \in DOMAIN b.contexts :
             i \in DOMAIN w.contexts /\ w.contexts[i] = b.contexts[i]
    BY <1>4
  <2>2. NamesFrom(s, b, w)
    <3> SUFFICES ASSUME NEW x \in Names, w.names[x] # 0, w.names[x] # b.names[x]
                 PROVE  \E c \in Range(Config(s).bins) :
                          /\ x \in {c, MainNode(s, c)}
                          /\ w.names[x] \in DOMAIN w.contexts /\ w.contexts[w.names[x]] = c
      BY DEF NamesFrom
    <3>1. PICK c \in Range(Config(s).bins) :
            MainNode(s, c) = x /\ w.names[x] = b.names[c]
      BY <1>4
    <3>2. c \in Binaries /\ c \in Names
      BY MainNodes DEF Names
    <3>3. b.names[c] \in DOMAIN b.contexts /\ b.contexts[b.names[c]] = c
      BY <3>1, <3>2 DEF NamesOK
    <3> QED
      BY <3>1, <3>3, <1>4
  <2>3. Grows(b, w)
    BY <2>1, <1>1 DEF Grows
  <2> QED
    BY <2>2, <2>3, NamesKept
<1> QED
  BY <1>3, <1>4 DEF ReusedOK

\* What a step makes of the manager of its session.
KeepsTo(s, w) ==
    /\ Changes(s, w) /\ manager[s] \in Sessions /\ Busy(s)
    /\ NamesOK(w) /\ (w.sharing => Kind(manager[s]) # "load")
    /\ Grows(Mgr(s), w) \/ Unused(manager[s])
    /\ pc'[s] = "compose" => w.up

\* A session whose manager shares resources has the kind for it, or no binaries.
LEMMA SharersOnly ==
    ASSUME OwnerInv, ManagerInv, NamesInv, NEW s \in Sessions, manager[s] \in Sessions,
           Mgr(s).sharing
    PROVE  Range(Config(s).bins) # {} => Kind(s) = "htp"
<1>1. config \in Configs
  BY DEF OwnerInv, TypeOK, PlacesOK
<1>2. /\ Config(s).kind \in {"generate", "load", "htp"}
      /\ ~IsLoad(s) => Config(s).bins = <<>>
  BY <1>1, ConfigFacts
<1>3. Kind(manager[s]) # "load"
  BY DEF NamesInv, Mgr
<1>4. Kind(s) # "load"
  <2>1. "load" \notin Sharing /\ manager[s] # None
    BY BinariesNamed DEF Sharing
  <2> QED
    BY <2>1, <1>3 DEF ManagerInv
<1>5. Config(s).bins = <<>> => Range(Config(s).bins) = {}
  BY SMT DEF Range
<1> QED
  BY <1>2, <1>4, <1>5 DEF Kind, IsLoad

\* A manager that is not up has no models.
LEMMA DownUnused ==
    ASSUME ModelsInv, NEW s \in Sessions, ~Mgr(s).up
    PROVE  Unused(manager[s])
BY DEF ModelsInv, ModelIn, Unused, Mgr

\* Contexts that are added take no name away.
LEMMA SameNames ==
    ASSUME NEW b, NEW w, NamesOK(b), Grows(b, w), w.names = b.names
    PROVE  NamesOK(w)
<1> SUFFICES ASSUME NEW x \in Names, w.names[x] # 0
             PROVE  /\ w.names[x] \in DOMAIN w.contexts
                    /\ x \in Binaries => w.contexts[w.names[x]] = x
                    /\ x \in Graphs => \E t \in Sessions :
                         /\ Kind(t) = "htp"
                         /\ w.contexts[w.names[x]] \in Range(Config(t).bins)
                         /\ x = MainNode(t, w.contexts[w.names[x]])
  BY DEF NamesOK
<1>1. /\ b.names[x] \in DOMAIN b.contexts
      /\ x \in Binaries => b.contexts[b.names[x]] = x
      /\ x \in Graphs => \E t \in Sessions :
           /\ Kind(t) = "htp"
           /\ b.contexts[b.names[x]] \in Range(Config(t).bins)
           /\ x = MainNode(t, b.contexts[b.names[x]])
  BY DEF NamesOK
<1>2. w.names[x] \in DOMAIN w.contexts /\ w.contexts[w.names[x]] = b.contexts[b.names[x]]
  BY <1>1 DEF Grows
<1> QED
  BY <1>1, <1>2

\* What a step does to the managers: nothing, or a change of one that keeps
\* what its models need.
LEMMA ManagerEffect ==
    ASSUME OwnerInv, ManagerInv, NamesInv, ModelsInv, UpInv, NEW s \in Sessions, StepOf(s)
    PROVE  (backend' = backend /\ pc'[s] # "compose") \/ \E w : KeepsTo(s, w)
<1> USE DEF Goto
<1>0. /\ TypeOK /\ PlaceInv /\ OwnInv /\ config \in Configs /\ pc \in [Sessions -> Pcs]
  BY DEF OwnerInv, TypeOK, PlacesOK
<1>1. ASSUME Busy(s)
      PROVE  /\ manager[s] \in Sessions /\ Mgr(s) \in Managers /\ NamesOK(Mgr(s))
             /\ Mgr(s).sharing => Kind(manager[s]) # "load"
  BY <1>0, <1>1, HasManager DEF Busy, NamesInv
<1>2. \A b : Grows(b, b)
  BY DEF Grows
<1>3. ASSUME Busy(s), Changes(s, Mgr(s)), pc'[s] # "compose" PROVE KeepsTo(s, Mgr(s))
  BY <1>1, <1>2, <1>3 DEF KeepsTo
<1>4. ASSUME NEW w, Busy(s), Changes(s, w), pc'[s] # "compose",
             w.up = TRUE \/ w.up = Mgr(s).up, w.contexts = Mgr(s).contexts,
             w.names = Mgr(s).names, w.sharing = Mgr(s).sharing
      PROVE  KeepsTo(s, w)
  <2>1. Grows(Mgr(s), w)
    BY <1>4 DEF Grows
  <2>2. NamesOK(w)
    BY <1>1, <1>4 DEF NamesOK
  <2> QED
    BY <2>1, <2>2, <1>1, <1>4 DEF KeepsTo
<1>5. ASSUME Busy(s), Changes(s, Released(Mgr(s))), pc'[s] # "compose", Unused(manager[s])
      PROVE  KeepsTo(s, Released(Mgr(s)))
  <2>1. /\ Released(Mgr(s)).names = [x \in Names |-> 0] /\ Released(Mgr(s)).sharing = FALSE
    BY DEF Released, FreshManager
  <2>2. NamesOK(Released(Mgr(s)))
    BY <2>1 DEF NamesOK
  <2> QED
    BY <2>1, <2>2, <1>1, <1>5 DEF KeepsTo
<1>6. CASE SettleAllocator(s)
  <2>1. pc[s] = "constructed" /\ pc'[s] \in {"failed", "stopping", "built"}
    BY <1>0, <1>6 DEF SettleAllocator
  <2>2. Busy(s) /\ pc'[s] # "compose"
    BY <2>1, SMT DEF Busy
  <2>3. CASE Changes(s, Mgr(s))
    BY <2>2, <2>3, <1>3
  <2>4. CASE Changes(s, [Mgr(s) EXCEPT !.alloc = Config(s).alloc])
    <3> DEFINE w == [Mgr(s) EXCEPT !.alloc = Config(s).alloc]
    <3>1. /\ w.up = Mgr(s).up /\ w.contexts = Mgr(s).contexts /\ w.names = Mgr(s).names
          /\ w.sharing = Mgr(s).sharing
      BY <2>2, <1>1 DEF Managers
    <3> HIDE DEF w
    <3> QED
      BY <3>1, <2>2, <2>4, <1>4 DEF w
  <2> QED
    BY <2>3, <2>4, <1>0, <1>6, SettleChanges
<1>7. CASE ValidateCompatibility(s)
  <2>1. pc[s] = "built" /\ pc'[s] \in {"probing", "checked", "validated"}
    BY <1>0, <1>7 DEF ValidateCompatibility
  <2>2. Busy(s) /\ pc'[s] # "compose"
    BY <2>1, SMT DEF Busy
  <2>3. CASE Changes(s, Mgr(s))
    BY <2>2, <2>3, <1>3
  <2>4. CASE Changes(s, [Mgr(s) EXCEPT !.up = TRUE])
    <3> DEFINE w == [Mgr(s) EXCEPT !.up = TRUE]
    <3>1. /\ w.up = TRUE /\ w.contexts = Mgr(s).contexts /\ w.names = Mgr(s).names
          /\ w.sharing = Mgr(s).sharing
      BY <2>2, <1>1 DEF Managers
    <3> HIDE DEF w
    <3> QED
      BY <3>1, <2>2, <2>4, <1>4 DEF w
  <2> QED
    BY <2>3, <2>4, <1>0, <1>7, ValidateChanges
<1>8. CASE ReleaseProbe(s)
  <2>1. pc[s] = "probing" /\ pc'[s] = "validated"
    BY <1>0, <1>8 DEF ReleaseProbe
  <2>2. Busy(s) /\ pc'[s] # "compose" /\ Unused(manager[s])
    BY <2>1, SMT DEF Busy, UpInv
  <2> QED
    BY <2>2, <1>0, <1>5, <1>8, ReleaseChanges
<1>9. CASE GetCapability(s)
  <2>1. pc[s] \in {"built", "checked", "validated"} /\ pc'[s] \in {"look1", "setup"}
    BY <1>0, <1>9 DEF GetCapability
  <2>2. Busy(s) /\ pc'[s] # "compose"
    BY <2>1, SMT DEF Busy
  <2>3. CASE Changes(s, Mgr(s))
    BY <2>2, <2>3, <1>3
  <2>4. CASE pc[s] = "checked" /\ ~IsLoad(s) /\ Changes(s, Released(Mgr(s)))
    BY <2>2, <2>4, <1>5 DEF UpInv
  <2> QED
    BY <2>3, <2>4, <1>0, <1>9, CapabilityChanges
<1>10. CASE SetupBackend(s)
  <2>1. pc[s] = "setup"
    BY <1>10 DEF SetupBackend
  <2>2. Busy(s)
    BY <2>1, SMT DEF Busy
  <2>3. CASE Mgr(s).up /\ Changes(s, Mgr(s))
    BY <2>2, <2>3, <1>1, <1>2 DEF KeepsTo
  <2>4. CASE Mgr(s).up /\ Mgr(s).sharing /\ \E w : Changes(s, w) /\ ReusedOK(s, Mgr(s), w)
    <3>1. PICK w : Changes(s, w) /\ ReusedOK(s, Mgr(s), w)
      BY <2>4
    <3>2. Range(Config(s).bins) # {} => Kind(s) = "htp"
      BY <2>2, <2>4, <1>1, SharersOnly
    <3>3. Grows(Mgr(s), w) /\ NamesOK(w)
      BY <3>1, <3>2, <2>2, <1>0, <1>1, ReusedKeeps
    <3>4. w.up = Mgr(s).up /\ w.sharing = Mgr(s).sharing
      BY <3>1 DEF ReusedOK
    <3>5. KeepsTo(s, w)
      BY <3>1, <3>3, <3>4, <2>2, <2>4, <1>1 DEF KeepsTo
    <3> QED
      BY <3>5
  <2>5. CASE ~Mgr(s).up /\ Changes(s, AfterSetUp(s, Mgr(s)))
    <3> DEFINE b == Mgr(s)
               w == AfterSetUp(s, b)
               u == [b EXCEPT !.up = TRUE, !.sharing = (Config(s).kind = "htp")]
    <3>1. /\ u \in Managers /\ u.contexts = b.contexts /\ u.names = b.names
          /\ w.up /\ w.sharing = (Config(s).kind = "htp")
          /\ w = IF Config(s).kind = "htp" THEN WithContexts(u, s, Config(s).bins) ELSE u
      BY <2>2, <1>0, <1>1, AfterSetUpFields
    <3>0. NamesOK(b) /\ ~b.up
      BY <2>2, <2>5, <1>1
    <3> HIDE DEF w, u, b
    <3>11. Grows(b, u)
      BY <3>0, <3>1 DEF Grows
    <3>2. NamesOK(u)
      BY <3>0, <3>1, <3>11, SameNames
    <3>3. NamesOK(w)
      <4>1. CASE Config(s).kind = "htp"
        <5>1. Config(s).bins \in Seq(Binaries)
          BY <1>0, ConfigFacts
        <5>2. Kind(s) = "htp"
          BY <4>1 DEF Kind
        <5>3. NamesOK(WithContexts(u, s, Config(s).bins))
          BY <5>1, <5>2, <3>1, <3>2, <1>0, WithContextsKeeps
        <5> QED
          BY <5>3, <4>1, <3>1
      <4>2. CASE Config(s).kind # "htp"
        BY <4>2, <3>1, <3>2
      <4> QED
        BY <4>1, <4>2
    <3>4. w.sharing => Kind(manager[s]) # "load"
      <4>1. ASSUME Config(s).kind = "htp" PROVE Kind(manager[s]) # "load"
        <5>1. "load" \notin Sharing /\ manager[s] # None /\ Kind(s) # "load"
          BY <4>1, <2>2, <1>1, BinariesNamed DEF Sharing, Kind
        <5> QED
          BY <5>1 DEF ManagerInv
      <4> QED
        BY <4>1, <3>1
    <3>5. Unused(manager[s])
      BY <2>5, DownUnused
    <3>6. KeepsTo(s, w)
      BY <3>1, <3>3, <3>4, <3>5, <2>2, <2>5, <1>1 DEF KeepsTo, w, b
    <3> QED
      BY <3>6
  <2> QED
    BY <2>3, <2>4, <2>5, <1>0, <1>10, SetupChanges
<1>11. CASE SetupBackendFails(s)
  <2>1. pc[s] = "setup" /\ pc'[s] = "failed"
    BY <1>0, <1>11 DEF SetupBackendFails
  <2>2. Busy(s) /\ pc'[s] # "compose"
    BY <2>1, SMT DEF Busy
  <2>3. CASE ~Mgr(s).up /\ Changes(s, Released(Mgr(s)))
    BY <2>2, <2>3, <1>5, DownUnused
  <2>4. CASE /\ Mgr(s).up /\ Mgr(s).sharing
             /\ \E bins \in Seq(Binaries) :
                  /\ Range(bins) \subseteq Range(Config(s).bins)
                  /\ Changes(s, WithContexts(Mgr(s), s, bins))
    <3>1. PICK bins \in Seq(Binaries) :
                  /\ Range(bins) \subseteq Range(Config(s).bins)
                  /\ Changes(s, WithContexts(Mgr(s), s, bins))
      BY <2>4
    <3>2. Range(Config(s).bins) # {} => Kind(s) = "htp"
      BY <2>2, <2>4, <1>1, SharersOnly
    <3> DEFINE w == WithContexts(Mgr(s), s, bins)
    <3>3. Grows(Mgr(s), w) /\ NamesOK(w)
      BY <3>1, <3>2, <2>2, <1>0, <1>1, WithContextsKeeps
    <3>4. w.sharing = Mgr(s).sharing
      BY <3>1, <2>2, <1>0, <1>1, WithContextsFields
    <3> HIDE DEF w
    <3>5. KeepsTo(s, w)
      BY <3>1, <3>3, <3>4, <2>2, <1>1 DEF KeepsTo, w
    <3> QED
      BY <3>5
  <2> QED
    BY <2>3, <2>4, <1>0, <1>11, SetupFailsChanges
<1>12. CASE LoadBinary(s)
  <2>1. pc[s] = "load" /\ pc'[s] \in {"failed", "load", "assign"}
    BY <1>0, <1>12, LoadEffect
  <2>2. Busy(s) /\ pc'[s] # "compose"
    BY <2>1, SMT DEF Busy
  <2>3. CASE backend' = backend
    BY <2>2, <2>3
  <2>4. CASE backend' # backend
    <3>1. /\ Bin(s) \in Range(Config(s).bins) /\ LoadContext(s) # 0
          /\ backend' = [backend EXCEPT ![manager[s]] = AfterLoad(s)]
      BY <2>4, <1>0, <1>12, LoadEffect
    <3>2. /\ AfterLoad(s) \in Managers
          /\ AfterLoad(s).up = Mgr(s).up /\ AfterLoad(s).sharing = Mgr(s).sharing
          /\ AfterLoad(s).names = Mgr(s).names
          /\ AfterLoad(s).contexts =
               IF Mgr(s).sharing THEN Mgr(s).contexts ELSE Append(Mgr(s).contexts, Bin(s))
      BY <3>1, <2>1, <1>0, LoadTypes
    <3>3. Mgr(s).contexts \in Seq(Binaries) /\ Bin(s) \in Binaries
      BY <3>1, <2>2, <1>0, <1>1, MainNodes DEF Managers
    <3>4. Grows(Mgr(s), AfterLoad(s))
      BY <3>2, <3>3, SMT DEF Grows
    <3>5. NamesOK(AfterLoad(s))
      BY <3>2, <3>4, <2>2, <1>1, SameNames
    <3> QED
      BY <3>1, <3>2, <3>4, <3>5, <2>2, <1>1 DEF KeepsTo, Changes
  <2> QED
    BY <2>3, <2>4
<1>13. CASE CompileGraphs(s) \/ CompileFails(s)
  <2>1. pc[s] = "compose" /\ pc'[s] \in {"failed", "serialize"}
    BY <1>0, <1>13 DEF CompileGraphs, CompileFails
  <2>2. Busy(s) /\ pc'[s] # "compose"
    BY <2>1, SMT DEF Busy
  <2>3. PICK done \in SUBSET Range(Nodes(s)) :
          backend' = [backend EXCEPT ![manager[s]] = AfterCompile(s, done)]
    BY <1>0, <1>13, ComposeEffect, ComposeFailsEffect
  <2> DEFINE w == AfterCompile(s, done)
  <2>4. /\ w \in Managers /\ w.up = Mgr(s).up /\ w.sharing = Mgr(s).sharing
        /\ w.names = Mgr(s).names /\ w.contexts = Mgr(s).contexts
    BY <2>1, <1>0, ComposeTypes
  <2> HIDE DEF w
  <2>5. Changes(s, w)
    BY <2>3, <2>4 DEF Changes, w
  <2> QED
    BY <2>2, <2>4, <2>5, <1>4
<1>14. CASE \/ Construct(s) \/ StopSharing(s) \/ Look(s) \/ CompileContextModel(s)
            \/ LockShared(s) \/ GetSharedQnnModel(s) \/ AssignModels(s)
            \/ SetSharedQnnModel(s) \/ ReadContextBinary(s) \/ WriteContextBinary(s)
            \/ PublishManager(s) \/ DestroySession(s) \/ Drops(s) \/ WriteFails(s)
  <2>1. backend' = backend
    BY <1>14 DEF Construct, StopSharing, Look, CompileContextModel, LockShared,
      GetSharedQnnModel, AssignModels, SetSharedQnnModel, ReadContextBinary,
      WriteContextBinary, PublishManager,
      GetSharedQnnBackendManager, SetSharedQnnBackendManager, DestroySession, Drops, WriteFails
  <2>2. pc'[s] # "compose"
    <3>1. CASE Construct(s) \/ StopSharing(s)
      BY <3>1, <1>0, SMT DEF Construct, StopSharing
    <3>2. CASE Look(s) \/ CompileContextModel(s)
      BY <3>2, <1>0, SMT DEF Look, CompileContextModel
    <3>3. CASE LockShared(s) \/ GetSharedQnnModel(s)
      BY <3>3, <1>0, SMT DEF LockShared, GetSharedQnnModel
    <3>4. CASE Drops(s) \/ AssignModels(s)
      BY <3>4, <1>0, SMT DEF Drops, AssignModels, Abandon
    <3>5. CASE SetSharedQnnModel(s) \/ ReadContextBinary(s)
      BY <3>5, <1>0, SMT DEF SetSharedQnnModel, ReadContextBinary
    <3>6. CASE WriteContextBinary(s) \/ WriteFails(s)
      BY <3>6, <1>0, SMT DEF WriteContextBinary, WriteFails
    <3>7. CASE PublishManager(s) \/ DestroySession(s)
      BY <3>7, <1>0, SMT DEF PublishManager,
      GetSharedQnnBackendManager, SetSharedQnnBackendManager, DestroySession
    <3> QED
      BY <3>1, <3>2, <3>3, <3>4, <3>5, <3>6, <3>7, <1>14
  <2> QED
    BY <2>1, <2>2
<1> QED
  BY <1>6, <1>7, <1>8, <1>9, <1>10, <1>11, <1>12, <1>13, <1>14 DEF StepOf, Step

\* The managers after a step: the names and the kinds of sharing managers.
LEMMA NamesStep ==
    ASSUME OwnerInv, ManagerInv, NamesInv, ModelsInv, UpInv, NEW s \in Sessions, StepOf(s)
    PROVE  NamesInv'
<1>1. config' = config
  BY Elsewhere
<1>2. \A t : Kind(t)' = Kind(t)
  BY <1>1 DEF Kind, Config
<1> SUFFICES ASSUME NEW m \in Sessions
             PROVE  \E b : /\ b = backend'[m] /\ NamesOK(b)
                           /\ b.sharing => Kind(m) # "load"
  <2>1. ASSUME NEW m \in Sessions, NEW b, b = backend'[m], NamesOK(b)
        PROVE  NamesOK(backend[m])'
    BY <2>1, <1>1 DEF NamesOK, Kind, Config, MainNode, Nodes
  <2> QED
    BY <2>1, <1>2 DEF NamesInv
<1>3. NamesOK(backend[m]) /\ (backend[m].sharing => Kind(m) # "load")
  BY DEF NamesInv
<1>4. backend \in [Sessions -> Managers]
  BY DEF OwnerInv, TypeOK, ManagersOK
<1>5. CASE backend' = backend
  BY <1>3, <1>5
<1>6. CASE \E w : KeepsTo(s, w)
  BY <1>3, <1>4, <1>6 DEF KeepsTo, Changes
<1> QED
  BY <1>5, <1>6, ManagerEffect

\* A model of the session's binary is a graph of the context it is given.
LEMMA LoadedIn ==
    ASSUME SharingRules, OwnerInv, ManagerInv, NamesInv, NEW s \in Sessions,
           LoadBinary(s), ~Drops(s)
    PROVE  /\ backend'[manager[s]] = AfterLoad(s)
           /\ \A q \in Loaded(s) : q.manager = manager[s] /\ ModelIn(q, AfterLoad(s))
<1>0. TypeOK /\ PlaceInv /\ OwnInv /\ config \in Configs /\ backend \in [Sessions -> Managers]
  BY DEF OwnerInv, TypeOK, PlacesOK, ManagersOK
<1>1. /\ pc[s] = "load" /\ Bin(s) \in Range(Config(s).bins)
      /\ Mgr(s).up /\ LoadContext(s) # 0
      /\ backend' = [backend EXCEPT ![manager[s]] = AfterLoad(s)]
  BY <1>0, LoadEffect
<1>2. /\ AfterLoad(s).up = Mgr(s).up
      /\ AfterLoad(s).contexts =
           IF Mgr(s).sharing THEN Mgr(s).contexts ELSE Append(Mgr(s).contexts, Bin(s))
  BY <1>0, <1>1, LoadTypes
<1>3. manager[s] \in Sessions /\ Mgr(s) \in Managers /\ NamesOK(Mgr(s))
  <2>1. manager[s] \in Sessions /\ Mgr(s) \in Managers /\ Mgr(s) = backend[manager[s]]
    BY <1>0, <1>1, HasManager
  <2> QED
    BY <2>1 DEF NamesInv
<1>4. /\ Bin(s) \in Binaries /\ MainNode(s, Bin(s)) \in Graphs
  BY <1>0, <1>1, MainNodes
<1>5. /\ LoadContext(s) \in DOMAIN AfterLoad(s).contexts
      /\ AfterLoad(s).contexts[LoadContext(s)] = Bin(s)
  <2>1. CASE ~Mgr(s).sharing
    <3>1. \A c \in Seq(Binaries) : \A x \in Binaries :
            Len(c) + 1 \in DOMAIN Append(c, x) /\ Append(c, x)[Len(c) + 1] = x
      BY SMT
    <3>2. Mgr(s).contexts \in Seq(Binaries)
      BY <1>3 DEF Managers
    <3> QED
      BY <3>1, <3>2, <2>1, <1>2, <1>4 DEF LoadContext
  <2>2. CASE Mgr(s).sharing
    <3> DEFINE x == MainNode(s, Bin(s))
               c == Mgr(s).contexts[LoadContext(s)]
    <3>1. Mgr(s).names[x] = LoadContext(s) /\ x \in Names
      BY <2>2, <1>4 DEF LoadContext, Names
    <3>2. /\ LoadContext(s) \in DOMAIN Mgr(s).contexts
          /\ \E t \in Sessions : /\ Kind(t) = "htp" /\ c \in Range(Config(t).bins)
                                 /\ x = MainNode(t, c)
      <4>1. Mgr(s).names[x] # 0 /\ x \in Names /\ x \in Graphs
        BY <3>1, <1>1, <1>4
      <4>2. /\ Mgr(s).names[x] \in DOMAIN Mgr(s).contexts
            /\ \E t \in Sessions :
                 /\ Kind(t) = "htp"
                 /\ Mgr(s).contexts[Mgr(s).names[x]] \in Range(Config(t).bins)
                 /\ x = MainNode(t, Mgr(s).contexts[Mgr(s).names[x]])
        BY <4>1, <1>3 DEF NamesOK
      <4> QED
        BY <4>2, <3>1
    <3>3. PICK t \in Sessions : /\ Kind(t) = "htp" /\ c \in Range(Config(t).bins)
                                /\ x = MainNode(t, c)
      BY <3>2
    <3>4. Kind(s) = "htp"
      <4>1. Range(Config(s).bins) # {}
        BY <1>1
      <4> QED
        BY <4>1, <2>2, <1>3, SharersOnly
    <3>5. Bin(s) = c
      BY <3>3, <3>4, <1>0, <1>1 DEF SharingRules, Kind, Config, MainNode, Nodes
    <3> QED
      BY <3>2, <3>5, <2>2, <1>2
  <2> QED
    BY <2>1, <2>2
<1>6. ASSUME NEW q \in Loaded(s) PROVE q.manager = manager[s] /\ ModelIn(q, AfterLoad(s))
  <2>1. PICK g \in GraphsOf[Bin(s)] : q = NewModel(s, g)
    BY DEF Loaded
  <2>2. q.manager = manager[s] /\ q.context = LoadContext(s) /\ q.graph = g
    BY <2>1 DEF NewModel
  <2> QED
    BY <2>2, <1>1, <1>2, <1>5 DEF ModelIn
<1> QED
  BY <1>0, <1>1, <1>3, <1>6

\* The models after a step.
LEMMA ModelsStep ==
    ASSUME SharingRules, OwnerInv, ManagerInv, HomeInv, NamesInv, ModelsInv, UpInv,
           NEW s \in Sessions, StepOf(s)
    PROVE  ModelsInv'
<1>0. /\ TypeOK /\ PlaceInv /\ OwnInv /\ backend \in [Sessions -> Managers]
      /\ table[s] \subseteq All
  BY InAll DEF OwnerInv, TypeOK, ManagersOK
<1>1. ASSUME NEW q \in All PROVE ModelIn(q, backend'[q.manager])
  <2>1. ModelIn(q, backend[q.manager])
    BY DEF ModelsInv
  <2>2. CASE backend' = backend
    BY <2>1, <2>2
  <2>3. CASE \E w : KeepsTo(s, w)
    <3>1. PICK w : KeepsTo(s, w)
      BY <2>3
    <3>2. CASE q.manager = manager[s]
      <4>1. Grows(Mgr(s), w) /\ backend'[q.manager] = w
        BY <3>1, <3>2, <1>0 DEF KeepsTo, Changes, Unused
      <4>2. ModelIn(q, Mgr(s))
        BY <2>1, <3>2 DEF Mgr
      <4> QED
        BY <4>1, <4>2 DEF ModelIn, Grows
    <3>3. CASE q.manager # manager[s]
      <4>1. backend'[q.manager] = backend[q.manager]
        <5>1. q.manager \in Sessions
          BY InAll
        <5> QED
          BY <5>1, <3>1, <3>3, <1>0 DEF KeepsTo, Changes
      <4> QED
        BY <4>1, <2>1
    <3> QED
      BY <3>2, <3>3
  <2> QED
    BY <2>2, <2>3, ManagerEffect
<1> SUFFICES ASSUME NEW q \in All' PROVE ModelIn(q, backend'[q.manager])
  BY DEF ModelsInv, ModelIn
<1>2. CASE q \in All
  BY <1>1, <1>2
<1>3. CASE LoadBinary(s) /\ Renamed(s, q)
  <2>1. PICK r \in table[s] : /\ q.graph = r.graph /\ q.manager = r.manager
                              /\ q.context = r.context
    BY <1>3 DEF Renamed
  <2>2. IsLoad(s)
    <3>1. pc[s] = "load"
      BY <1>3 DEF LoadBinary
    <3> QED
      BY <3>1, <1>0, SMT DEF PlaceInv, PlaceOK, PlaceAt
  <2>3. r.path # None
    BY <2>2 DEF HomeInv, HomeOK, Mine
  <2>4. ModelIn(r, backend'[r.manager])
    BY <1>0, <1>1
  <2> QED
    BY <2>1, <2>3, <2>4 DEF ModelIn
<1>4. CASE LoadBinary(s) /\ ~Drops(s) /\ q \in Loaded(s)
  BY <1>4, LoadedIn
<1>5. CASE CompileGraphs(s) /\ q \in Composed(s)
  <2>1. pc[s] = "compose"
    BY <1>5 DEF CompileGraphs
  <2>2. Mgr(s).up /\ q.manager = manager[s] /\ q.path = None
    BY <2>1, <1>5, NewFields DEF UpInv
  <2>3. manager[s] \in Sessions
    BY <2>1, <1>0, HasManager
  <2>4. backend'[manager[s]] = AfterCompile(s, Range(Nodes(s)))
    BY <2>3, <1>0, <1>5, ComposeEffect
  <2>5. AfterCompile(s, Range(Nodes(s))).up = Mgr(s).up
    BY <2>1, <1>0, ComposeTypes
  <2> QED
    BY <2>2, <2>4, <2>5 DEF ModelIn
<1> QED
  BY <1>2, <1>3, <1>4, <1>5, AllMoves

\* Only the compatibility check gets a session to probing or checked.
LEMMA Probes ==
    ASSUME OwnerInv, NEW s \in Sessions, StepOf(s), pc'[s] \in {"probing", "checked"}
    PROVE  ValidateCompatibility(s) /\ ~Mgr(s).up
<1> USE DEF Goto
<1>0. TypeOK /\ PlaceInv /\ OwnInv /\ pc \in [Sessions -> Pcs]
  BY DEF OwnerInv, TypeOK, PlacesOK
<1>1. CASE Construct(s) \/ SettleAllocator(s) \/ StopSharing(s) \/ ReleaseProbe(s)
  BY <1>0, <1>1, SMT DEF Construct, SettleAllocator, StopSharing, ReleaseProbe
<1>2. CASE GetCapability(s) \/ SetupBackend(s) \/ SetupBackendFails(s)
  BY <1>0, <1>2, SMT DEF GetCapability, SetupBackend, SetupBackendFails
<1>3. CASE Look(s) \/ CompileContextModel(s) \/ LockShared(s)
  BY <1>0, <1>3, SMT DEF Look, CompileContextModel, LockShared
<1>4. CASE GetSharedQnnModel(s) \/ Drops(s) \/ AssignModels(s)
  BY <1>0, <1>4, SMT DEF GetSharedQnnModel, Drops, AssignModels, Abandon
<1>5. CASE LoadBinary(s)
  <2>1. pc[s] = "load" /\ pc'[s] \in {"failed", "load", "assign"}
    BY <1>0, <1>5, LoadEffect
  <2> QED
    BY <2>1, SMT
<1>6. CASE SetSharedQnnModel(s) \/ CompileGraphs(s) \/ CompileFails(s)
  BY <1>0, <1>6, SMT DEF SetSharedQnnModel, CompileGraphs, CompileFails
<1>7. CASE ReadContextBinary(s) \/ WriteContextBinary(s) \/ WriteFails(s)
  BY <1>0, <1>7, SMT DEF ReadContextBinary, WriteContextBinary, WriteFails
<1>8. CASE PublishManager(s) \/ DestroySession(s)
  BY <1>0, <1>8, SMT DEF PublishManager,
      GetSharedQnnBackendManager, SetSharedQnnBackendManager, DestroySession
<1>9. CASE ValidateCompatibility(s)
  BY <1>0, <1>9, SMT DEF ValidateCompatibility
<1> QED
  BY <1>1, <1>2, <1>3, <1>4, <1>5, <1>6, <1>7, <1>8, <1>9 DEF StepOf, Step

\* Every step keeps UpInv.
LEMMA UpStep ==
    ASSUME OwnerInv, SerialInv, ManagerInv, NamesInv, ModelsInv, UpInv,
           NEW s \in Sessions, StepOf(s)
    PROVE  UpInv'
<1>0. /\ TypeOK /\ PlaceInv /\ OwnInv /\ pc \in [Sessions -> Pcs]
      /\ backend \in [Sessions -> Managers]
  BY DEF OwnerInv, TypeOK, PlacesOK, ManagersOK
<1>1. /\ config' = config
      /\ \A t \in Sessions : t # s => manager'[t] = manager[t] /\ pc'[t] = pc[t]
  BY Elsewhere
<1>2. \A t : (IsLoad(t)' <=> IsLoad(t))
  BY <1>1 DEF IsLoad, Config
<1>3. \/ Construct(s) \/ SettleAllocator(s) \/ DestroySession(s)
      \/ manager'[s] = manager[s]
  BY ManagerMoves
<1>4. Construct(s) \/ SettleAllocator(s) \/ DestroySession(s) =>
        pc'[s] \notin {"compose", "probing", "checked"}
  BY <1>0, SMT DEF Construct, SettleAllocator, DestroySession, Goto
<1>5. pc'[s] = "compose" => Mgr(s)'.up
  <2> HAVE pc'[s] = "compose"
  <2>1. manager'[s] = manager[s]
    BY <1>3, <1>4
  <2>2. PICK w : KeepsTo(s, w)
    BY ManagerEffect
  <2>3. w.up /\ backend'[manager[s]] = w
    BY <2>2, <1>0 DEF KeepsTo, Changes
  <2> QED
    BY <2>1, <2>3 DEF Mgr
<1>6. ASSUME NEW t \in Sessions, t # s, pc[t] = "compose" PROVE Mgr(t)'.up
  <2>1. Mgr(t).up /\ Busy(t) /\ manager[t] \in Sessions
    BY <1>0, <1>6, HasManager, SMT DEF UpInv, Busy
  <2>2. CASE backend' = backend
    BY <2>1, <2>2, <1>1, <1>6 DEF Mgr
  <2>3. CASE \E w : KeepsTo(s, w)
    <3>1. PICK w : KeepsTo(s, w)
      BY <2>3
    <3>2. manager[s] # manager[t]
      BY <2>1, <3>1, <1>6, Exclusive DEF KeepsTo
    <3>3. backend'[manager[t]] = backend[manager[t]]
      BY <2>1, <3>1, <3>2, <1>0 DEF KeepsTo, Changes
    <3> QED
      BY <3>3, <2>1, <1>1, <1>6 DEF Mgr
  <2> QED
    BY <2>2, <2>3, ManagerEffect
<1>7. ASSUME NEW t \in Sessions, t # s, Busy(t), Unused(manager[t]) PROVE Unused(manager[t])'
  <2>1. manager'[t] = manager[t]
    BY <1>1, <1>7
  <2>2. ASSUME NEW q \in All' PROVE q.manager # manager[t]
    <3>1. table[s] \subseteq All
      BY InAll
    <3>2. CASE q \in All
      BY <3>2, <1>7 DEF Unused
    <3>3. CASE Renamed(s, q)
      BY <3>1, <3>3, <1>7 DEF Unused, Renamed
    <3>4. CASE \/ LoadBinary(s) /\ q \in Loaded(s)
               \/ CompileGraphs(s) /\ q \in Composed(s)
      <4>1. q.manager = manager[s]
        BY <3>4, NewFields
      <4>2. pc[s] \in {"load", "compose"}
        BY <3>4 DEF LoadBinary, CompileGraphs
      <4>3. Busy(s)
        BY <4>2, SMT DEF Busy
      <4> QED
        BY <4>1, <4>3, <1>7, Exclusive
    <3> QED
      BY <3>2, <3>3, <3>4, AllMoves
  <2> QED
    BY <2>1, <2>2 DEF Unused
<1>8. ASSUME pc'[s] \in {"probing", "checked"} PROVE Unused(manager[s])'
  <2>1. ValidateCompatibility(s) /\ ~Mgr(s).up
    BY <1>8, Probes
  <2>2. UNCHANGED <<manager, shared, models, table>>
    BY <2>1 DEF ValidateCompatibility, exchange, owned
  <2>3. Unused(manager[s])
    BY <2>1, DownUnused
  <2> QED
    BY <2>2, <2>3 DEF Unused, All, Mine
<1> SUFFICES ASSUME NEW t \in Sessions
             PROVE  /\ pc'[t] = "compose" => Mgr(t)'.up
                    /\ pc'[t] = "probing" \/ (pc'[t] = "checked" /\ ~IsLoad(t)) =>
                         Unused(manager[t])'
  BY <1>2 DEF UpInv
<1>9. CASE t = s
  BY <1>5, <1>8, <1>9
<1>10. CASE t # s
  <2>1. pc'[t] = pc[t]
    BY <1>1, <1>10
  <2>2. pc[t] \in {"probing", "checked"} => Busy(t)
    BY SMT DEF Busy
  <2> QED
    BY <2>1, <2>2, <1>6, <1>7, <1>10 DEF UpInv
<1> QED
  BY <1>9, <1>10

-----------------------------------------------------------------------------
\* The first nodes of a session.
LEMMA Parts ==
    ASSUME config \in Configs, NEW s \in Sessions
    PROVE  /\ Part(s, 0) = {}
           /\ \A k \in Nat : k \in DOMAIN Nodes(s) =>
                Part(s, k) = Part(s, k - 1) \cup {Nodes(s)[k]}
           /\ Part(s, Len(Nodes(s))) = Range(Nodes(s))
           /\ \A k \in DOMAIN Nodes(s) : Nodes(s)[k] \notin Part(s, k - 1)
<1>1. /\ Nodes(s) \in Seq(Graphs)
      /\ \A i, j \in DOMAIN Nodes(s) : Nodes(s)[i] = Nodes(s)[j] => i = j
  BY ConfigFacts
<1> DEFINE n == Nodes(s)
<1>2. DOMAIN n = 1 .. Len(n) /\ Len(n) \in Nat
  BY <1>1, SMT
<1> HIDE DEF n
<1>3. Part(s, 0) = {}
  BY SMT DEF Part
<1>4. \A k \in Nat : k \in DOMAIN n => Part(s, k) = Part(s, k - 1) \cup {n[k]}
  BY <1>2, SMT DEF Part, n
<1>5. Part(s, Len(n)) = Range(n)
  BY <1>2, SMT DEF Part, n, Range
<1>6. \A k \in DOMAIN n : n[k] \notin Part(s, k - 1)
  <2>1. \A i, j \in DOMAIN n : n[i] = n[j] => i = j
    BY <1>1 DEF n
  <2> QED
    BY <1>2, <2>1, SMT DEF Part, n
<1> QED
  BY <1>3, <1>4, <1>5, <1>6 DEF n

\* A step of a session that leaves its models alone.
Quiet(s) ==
    /\ config' = config /\ models'[s] = models[s] /\ table'[s] = table[s]
    /\ \/ pc'[s] = pc[s] /\ at'[s] = at[s]
       \/ pc'[s] \in Early \cup {"failed", "gone"}
       \/ pc[s] \in Early /\ pc'[s] \in {"take", "load"} /\ at'[s] = 1
       \/ /\ pc[s] \in Written \cup {"publish"}
          /\ pc'[s] \in Written \cup {"publish", "ready"}

\* A step that leaves the session's models and place alone keeps its progress.
LEMMA QuietProgress ==
    ASSUME OwnerInv, ProgressInv, NEW s \in Sessions, Quiet(s)
    PROVE  ProgressOK(s)'
<1> USE DEF Quiet
<1>0. /\ \A q, r \in models[s] : q.graph = r.graph => q = r
      /\ ProgressOK(s)
  BY DEF ProgressInv, ProgressOK
<1>1. \A k : Part(s, k)' = Part(s, k)
  BY DEF Part, Nodes, Config
<1>2. CASE pc'[s] = pc[s] /\ at'[s] = at[s]
  BY <1>0, <1>2 DEF ProgressOK, Part, Nodes, Config
<1>3. CASE pc'[s] \in Early \cup {"failed", "gone"}
  <2>1. pc'[s] \notin {"take", "assign", "load"} \cup Written \cup {"publish", "ready"}
    BY <1>3, SMT DEF Early, Written
  <2> QED
    BY <2>1, <1>0 DEF ProgressOK
<1>4. CASE pc[s] \in Early /\ pc'[s] \in {"take", "load"} /\ at'[s] = 1
  <2>1. models[s] = {}
    BY <1>4 DEF OwnerInv, OwnInv, NoneYet
  <2>2. Got(models'[s]) = {} /\ Part(s, at'[s] - 1) = {}
    <3>1. at'[s] - 1 = 0
      BY <1>4, SMT
    <3>2. config \in Configs
      BY DEF OwnerInv, TypeOK, PlacesOK
    <3> QED
      BY <2>1, <3>1, <3>2, Parts DEF Got
  <2>3. 1 .. at'[s] - 1 = {}
    BY <1>4, SMT
  <2>4. pc'[s] \notin {"assign"} \cup Written \cup {"publish", "ready"}
    BY <1>4, SMT DEF Written
  <2>5. Got(models[s])' = Got(models'[s])
    BY DEF Got
  <2>6. Part(s, at[s] - 1)' = Part(s, at'[s] - 1)
    BY DEF Part, Nodes, Config
  <2> QED
    BY <2>1, <2>2, <2>3, <2>4, <2>5, <2>6, <1>0 DEF ProgressOK
<1>5. CASE /\ pc[s] \in Written \cup {"publish"}
           /\ pc'[s] \in Written \cup {"publish", "ready"}
  <2>1. pc'[s] \notin {"take", "assign", "load"}
    BY <1>5, SMT DEF Written
  <2>2. Got(models[s]) = Range(Nodes(s))
    BY <1>0, <1>5 DEF ProgressOK
  <2>3. Got(models[s])' = Got(models[s]) /\ Range(Nodes(s))' = Range(Nodes(s))
    BY DEF Got, Nodes, Config
  <2> QED
    BY <2>1, <2>2, <2>3, <1>0 DEF ProgressOK
<1> QED
  BY <1>2, <1>3, <1>4, <1>5

\* One more model: the node it is for is the next one.
Extends(s, M, F, k) ==
    /\ k \in DOMAIN Nodes(s)
    /\ \A q, r \in M : q.graph = r.graph => q = r
    /\ Got(M) = Part(s, k - 1) /\ F # {} /\ \A q \in F : q.graph = Nodes(s)[k]
    /\ \A q, r \in F : q.graph = r.graph => q = r

\* The models M are those of the first k nodes, one a node.
Extended(s, M, k) ==
    /\ \A q, r \in M : q.graph = r.graph => q = r
    /\ Got(M) = Part(s, k)

\* The models of the first k - 1 nodes and one of node k are those of the first
\* k nodes.
LEMMA OneMore ==
    ASSUME config \in Configs, NEW s \in Sessions, NEW M, NEW F, NEW k, Extends(s, M, F, k)
    PROVE  Extended(s, M \cup F, k)
<1>0. /\ k \in DOMAIN Nodes(s) /\ Got(M) = Part(s, k - 1) /\ F # {}
      /\ \A q, r \in M : q.graph = r.graph => q = r
      /\ \A q, r \in F : q.graph = r.graph => q = r
      /\ \A q \in F : q.graph = Nodes(s)[k]
  BY DEF Extends
<1>1. DOMAIN Nodes(s) = 1 .. Len(Nodes(s)) /\ Len(Nodes(s)) \in Nat
  BY FirstOnes
<1>2. k \in Nat
  BY <1>0, <1>1, SMT
<1>3. Got(M \cup F) = Got(M) \cup {Nodes(s)[k]}
  <2>1. Got(M \cup F) = Got(M) \cup Got(F)
    BY DEF Got
  <2>2. Got(F) = {Nodes(s)[k]}
    <3>1. \A x \in Got(F) : x = Nodes(s)[k]
      BY <1>0 DEF Got
    <3>2. Nodes(s)[k] \in Got(F)
      BY <1>0 DEF Got
    <3> QED
      BY <3>1, <3>2
  <2> QED
    BY <2>1, <2>2
<1>4. \A q \in M : q.graph \in Part(s, k - 1)
  BY <1>0 DEF Got
<1>5. \A q \in M : \A r \in F : q.graph # r.graph
  BY <1>0, <1>4, Parts
<1>6. Got(M \cup F) = Part(s, k)
  BY <1>0, <1>2, <1>3, Parts
<1>8. \A q, r \in M \cup F : q.graph = r.graph => q = r
  BY <1>0, <1>5
<1> QED
  BY <1>6, <1>8 DEF Extended

\* A session that has the models of its first nodes, after a step.
LEMMA NextNode ==
    ASSUME OwnerInv, NEW s \in Sessions, config' = config, at[s] \in DOMAIN Nodes(s),
           \A q, r \in models'[s] : q.graph = r.graph => q = r,
           Got(models'[s]) = Part(s, at[s]),
           \/ pc'[s] = "failed"
           \/ at[s] < Len(Nodes(s)) /\ pc'[s] \in {"take", "assign"} /\ at'[s] = at[s] + 1
           \/ ~(at[s] < Len(Nodes(s))) /\ pc'[s] \in {"publish", "ready"},
           pc'[s] = "assign" =>
             \A i \in DOMAIN Nodes(s) : i >= at'[s] => Nodes(s)[i] \in Got(table'[s])
    PROVE  ProgressOK(s)'
<1>0. /\ config \in Configs /\ at[s] \in Nat
      /\ DOMAIN Nodes(s) = 1 .. Len(Nodes(s)) /\ Len(Nodes(s)) \in Nat
  <2>1. config \in Configs /\ at[s] \in Nat \ {0}
    BY DEF OwnerInv, TypeOK, PlacesOK
  <2> QED
    BY <2>1, FirstOnes
<1>1. /\ Got(models[s])' = Got(models'[s]) /\ Got(table[s])' = Got(table'[s])
      /\ Nodes(s)' = Nodes(s) /\ Part(s, at[s] - 1)' = Part(s, at'[s] - 1)
  BY DEF Got, Part, Nodes, Config
<1>2. CASE pc'[s] = "failed"
  <2>1. pc'[s] \notin {"take", "assign", "load"} \cup Written \cup {"publish", "ready"}
    BY <1>2, SMT DEF Written
  <2> QED
    BY <2>1 DEF ProgressOK
<1>3. CASE at[s] < Len(Nodes(s)) /\ pc'[s] \in {"take", "assign"} /\ at'[s] = at[s] + 1
  <2>1. pc'[s] \notin {"load"} \cup Written \cup {"publish", "ready"}
    BY <1>3, SMT DEF Written
  <2>2. at'[s] - 1 = at[s]
    BY <1>0, <1>3, SMT
  <2> QED
    BY <2>1, <2>2, <1>1, <1>3 DEF ProgressOK
<1>4. CASE ~(at[s] < Len(Nodes(s))) /\ pc'[s] \in {"publish", "ready"}
  <2>1. pc'[s] \notin {"take", "assign", "load"}
    BY <1>4, SMT
  <2>2. at[s] = Len(Nodes(s))
    BY <1>0, <1>4, SMT
  <2>3. Got(models'[s]) = Range(Nodes(s))
    BY <2>2, <1>0, Parts
  <2>4. Range(Nodes(s))' = Range(Nodes(s))
    BY <1>1
  <2> QED
    BY <2>1, <2>3, <2>4, <1>1 DEF ProgressOK
<1> QED
  BY <1>2, <1>3, <1>4

\* GetSharedQnnModel takes the model of the next node; the session fails when
\* there is none.
LEMMA TakeProgress ==
    ASSUME OwnerInv, ProgressInv, NEW s \in Sessions, GetSharedQnnModel(s)
    PROVE  ProgressOK(s)'
<1> DEFINE found == {q \in shared : q.graph = Nodes(s)[at[s]]}
<1>0. /\ config \in Configs /\ pc \in [Sessions -> Pcs] /\ at \in [Sessions -> Nat \ {0}]
      /\ models \in [Sessions -> SUBSET Model]
  BY DEF OwnerInv, TypeOK, PlacesOK, ModelsOK
<1>1. /\ pc[s] = "take" /\ config' = config
      /\ models' = [models EXCEPT ![s] = models[s] \cup found]
      /\ IF found = {} THEN Goto(s, "failed") /\ UNCHANGED at
         ELSE IF at[s] < Len(Nodes(s))
         THEN at' = [at EXCEPT ![s] = @ + 1] /\ UNCHANGED pc
         ELSE Goto(s, "ready") /\ UNCHANGED at
  BY DEF GetSharedQnnModel, setup
<1>2. at[s] \in DOMAIN Nodes(s)
  BY <1>1, SMT DEF OwnerInv, PlaceInv, PlaceOK, PlaceAt
<1>3. /\ Got(models[s]) = Part(s, at[s] - 1)
      /\ \A q, r \in models[s] : q.graph = r.graph => q = r
  BY <1>1 DEF ProgressInv, ProgressOK
<1>4. \A q, r \in found : q.graph = r.graph => q = r
  BY DEF OwnerInv, Apart
<1>5. models'[s] = models[s] \cup found
  BY <1>0, <1>1
<1>6. \A q \in found : q.graph = Nodes(s)[at[s]]
  OBVIOUS
<1> HIDE DEF found
<1>7. CASE found = {}
  <2>1. pc'[s] = "failed"
    BY <1>0, <1>1, <1>7 DEF Goto
  <2>2. pc'[s] \notin {"take", "assign", "load"} \cup Written \cup {"publish", "ready"}
    BY <2>1, SMT DEF Written
  <2>3. models'[s] = models[s]
    BY <1>5, <1>7
  <2> QED
    BY <2>2, <2>3, <1>3 DEF ProgressOK
<1>8. CASE found # {}
  <2>1. /\ \A q, r \in models'[s] : q.graph = r.graph => q = r
        /\ Got(models'[s]) = Part(s, at[s])
    <3>1. Extends(s, models[s], found, at[s])
      BY <1>2, <1>3, <1>4, <1>6, <1>8 DEF Extends
    <3>2. Extended(s, models[s] \cup found, at[s])
      BY <3>1, <1>0, OneMore
    <3> QED
      BY <3>2, <1>5 DEF Extended
  <2>2. CASE at[s] < Len(Nodes(s))
    <3>1. pc'[s] = "take" /\ at'[s] = at[s] + 1
      BY <1>0, <1>1, <1>8, <2>2
    <3>2. pc'[s] \in {"take", "assign"} /\ pc'[s] # "assign"
      BY <3>1, SMT
    <3> QED
      BY <2>1, <2>2, <3>1, <3>2, <1>1, <1>2, NextNode
  <2>3. CASE ~(at[s] < Len(Nodes(s)))
    <3>1. pc'[s] = "ready"
      BY <1>0, <1>1, <1>8, <2>3 DEF Goto
    <3>2. pc'[s] \in {"publish", "ready"} /\ pc'[s] # "assign"
      BY <3>1, SMT
    <3> QED
      BY <2>1, <2>3, <3>2, <1>1, <1>2, NextNode
  <2> QED
    BY <2>2, <2>3
<1> QED
  BY <1>7, <1>8

\* AssignModels moves the model of the next node from the table.
LEMMA AssignProgress ==
    ASSUME OwnerInv, ProgressInv, NEW s \in Sessions, AssignModels(s)
    PROVE  ProgressOK(s)'
<1> DEFINE name == Nodes(s)[at[s]]
           found == {q \in table[s] : q.key = name}
<1>0. /\ config \in Configs /\ pc \in [Sessions -> Pcs] /\ at \in [Sessions -> Nat \ {0}]
      /\ models \in [Sessions -> SUBSET Model] /\ table \in [Sessions -> SUBSET Model]
  BY DEF OwnerInv, TypeOK, PlacesOK, ModelsOK
<1>1. pc[s] = "assign" /\ config' = config
  BY DEF AssignModels, setup
<1>2. at[s] \in DOMAIN Nodes(s)
  BY <1>1, SMT DEF OwnerInv, PlaceInv, PlaceOK, PlaceAt
<1>3. /\ Got(models[s]) = Part(s, at[s] - 1)
      /\ \A q, r \in models[s] : q.graph = r.graph => q = r
      /\ \A i \in DOMAIN Nodes(s) : i >= at[s] => Nodes(s)[i] \in Got(table[s])
  BY <1>1 DEF ProgressInv, ProgressOK
<1>4. /\ \A q \in table[s] : q.key = q.graph
      /\ \A q, r \in table[s] : q.graph = r.graph => q = r
  BY DEF OwnerInv, OwnInv, TableOK
<1>5. /\ DOMAIN Nodes(s) = 1 .. Len(Nodes(s)) /\ Len(Nodes(s)) \in Nat /\ at[s] \in Nat
      /\ at[s] >= at[s]
  <2>1. at[s] \in Nat
    BY <1>0
  <2>2. at[s] >= at[s]
    BY <2>1, SMT
  <2> QED
    BY <2>1, <2>2, <1>0, FirstOnes
<1>6. found # {}
  <2>1. name \in Got(table[s])
    BY <1>2, <1>3, <1>5
  <2> QED
    BY <2>1, <1>4 DEF Got
<1>7. /\ models' = [models EXCEPT ![s] = models[s] \cup found]
      /\ table' = [table EXCEPT ![s] = table[s] \ found]
      /\ IF at[s] < Len(Nodes(s))
         THEN at' = [at EXCEPT ![s] = @ + 1] /\ UNCHANGED pc
         ELSE \E l \in {"publish", "ready"} : Goto(s, l) /\ UNCHANGED at
  BY <1>6 DEF AssignModels
<1>8. /\ \A q \in found : q.graph = name
      /\ \A q, r \in found : q.graph = r.graph => q = r
      /\ \A q \in table[s] : q.graph # name => q \in table[s] \ found
  BY <1>4
<1>9. models'[s] = models[s] \cup found /\ table'[s] = table[s] \ found
  BY <1>0, <1>7
<1> HIDE DEF found
<1>10. /\ \A q, r \in models'[s] : q.graph = r.graph => q = r
       /\ Got(models'[s]) = Part(s, at[s])
  <2>1. Extends(s, models[s], found, at[s])
    BY <1>2, <1>3, <1>6, <1>8 DEF Extends
  <2>2. Extended(s, models[s] \cup found, at[s])
    BY <2>1, <1>0, OneMore
  <2> QED
    BY <2>2, <1>9 DEF Extended
<1>11. CASE at[s] < Len(Nodes(s))
  <2>1. pc'[s] = "assign" /\ at'[s] = at[s] + 1
    BY <1>0, <1>1, <1>7, <1>11
  <2>2. pc'[s] \in {"take", "assign"}
    BY <2>1
  <2>3. ASSUME NEW i \in DOMAIN Nodes(s), i >= at'[s] PROVE Nodes(s)[i] \in Got(table'[s])
    <3>1. i >= at[s] /\ i # at[s]
      BY <2>1, <2>3, <1>5, SMT
    <3>2. Nodes(s)[i] # name
      BY <3>1, <1>0, <1>2, ConfigFacts
    <3>3. PICK q \in table[s] : q.graph = Nodes(s)[i]
      BY <3>1, <1>3 DEF Got
    <3>4. q \in table'[s]
      BY <3>2, <3>3, <1>8, <1>9
    <3> QED
      BY <3>3, <3>4 DEF Got
  <2> QED
    BY <2>1, <2>2, <2>3, <1>1, <1>2, <1>10, <1>11, NextNode
<1>12. CASE ~(at[s] < Len(Nodes(s)))
  <2>1. pc'[s] \in {"publish", "ready"}
    BY <1>0, <1>7, <1>12 DEF Goto
  <2>2. pc'[s] # "assign"
    BY <2>1, SMT
  <2> QED
    BY <2>1, <2>2, <1>1, <1>2, <1>10, <1>12, NextNode
<1> QED
  BY <1>11, <1>12

\* LoadBinary leaves all graphs of the binaries up to the next in the table;
\* after the last one every node has its model there.
LEMMA LoadProgress ==
    ASSUME OwnerInv, ProgressInv, NEW s \in Sessions, LoadBinary(s)
    PROVE  ProgressOK(s)'
<1>0. /\ TypeOK /\ PlaceInv /\ OwnInv /\ config \in Configs
      /\ pc \in [Sessions -> Pcs] /\ at \in [Sessions -> Nat \ {0}] /\ at[s] \in Nat
      /\ models \in [Sessions -> SUBSET Model] /\ table \in [Sessions -> SUBSET Model]
  BY DEF OwnerInv, TypeOK, PlacesOK, ModelsOK
<1>1. /\ pc[s] = "load" /\ Bin(s) \in Range(Config(s).bins)
      /\ config' = config /\ models' = models
  BY <1>0, LoadEffect
<1>2. /\ models[s] = {} /\ at[s] \in DOMAIN Config(s).bins /\ IsLoad(s)
      /\ \A k \in 1 .. at[s] - 1 : GraphsOf[Config(s).bins[k]] \subseteq Got(table[s])
  <2>1. pc[s] \in {"look1", "compile", "look2", "take", "load", "assign", "publish"}
    BY <1>1, SMT
  <2> QED
    BY <2>1, <1>0, <1>1 DEF OwnInv, NoneYet, PlaceInv, PlaceOK, PlaceAt,
       ProgressInv, ProgressOK
<1>3. /\ DOMAIN Config(s).bins = 1 .. Len(Config(s).bins) /\ Len(Config(s).bins) \in Nat
  BY <1>0, FirstOnes
<1>4. /\ Got(models[s])' = Got(models'[s]) /\ Got(table[s])' = Got(table'[s])
      /\ Nodes(s)' = Nodes(s) /\ Config(s)' = Config(s)
      /\ Part(s, at[s] - 1)' = Part(s, at'[s] - 1)
  BY <1>1 DEF Got, Part, Nodes, Config
<1>5. CASE pc' = [pc EXCEPT ![s] = "failed"]
  <2>1. pc'[s] = "failed"
    BY <1>0, <1>5
  <2>2. pc'[s] \notin {"take", "assign", "load"} \cup Written \cup {"publish", "ready"}
    BY <2>1, SMT DEF Written
  <2> QED
    BY <2>2, <1>1, <1>2 DEF ProgressOK
<1>6. CASE table' = [table EXCEPT ![s] = Filed(s) \cup Loaded(s)]
  <2>1. /\ Got(table[s]) \subseteq Got(table'[s])
        /\ GraphsOf[Bin(s)] \subseteq Got(table'[s])
    <3>1. table'[s] = Filed(s) \cup Loaded(s)
      BY <1>0, <1>6
    <3>2. \A r \in table[s] : \E q \in Filed(s) : q.graph = r.graph
      <4> SUFFICES ASSUME NEW r \in table[s] PROVE \E q \in Filed(s) : q.graph = r.graph
        OBVIOUS
      <4> DEFINE q == [r EXCEPT !.path = Bin(s)]
      <4>1. q \in Filed(s)
        BY DEF Filed
      <4>2. r \in Model
        BY <1>0
      <4>3. q.graph = r.graph
        BY <4>2 DEF Model
      <4> QED
        BY <4>1, <4>3
    <3>3. \A g \in GraphsOf[Bin(s)] \ Got(table[s]) : \E q \in Loaded(s) : q.graph = g
      <4>1. \A g : NewModel(s, g).graph = g
        BY DEF NewModel
      <4> QED
        BY <4>1 DEF Loaded
    <3>4. Got(table[s]) \subseteq Got(table'[s])
      BY <3>1, <3>2 DEF Got
    <3>5. \A g \in GraphsOf[Bin(s)] \ Got(table[s]) : g \in Got(table'[s])
      BY <3>1, <3>3 DEF Got
    <3> QED
      BY <3>4, <3>5
  <2>2. \A k \in 1 .. at[s] : GraphsOf[Config(s).bins[k]] \subseteq Got(table'[s])
    <3>1. \A k \in 1 .. at[s] : k \in 1 .. at[s] - 1 \/ k = at[s]
      BY <1>0, SMT
    <3> QED
      BY <3>1, <2>1, <1>2 DEF Bin
  <2>3. CASE /\ at[s] < Len(Config(s).bins)
             /\ at' = [at EXCEPT ![s] = @ + 1] /\ pc' = pc
    <3>1. pc'[s] = "load" /\ at'[s] - 1 = at[s]
      <4>1. at'[s] = at[s] + 1
        BY <2>3, <1>0
      <4>2. at'[s] - 1 = at[s]
        BY <4>1, <1>0, SMT
      <4> QED
        BY <4>2, <2>3, <1>1
    <3>2. pc'[s] \notin {"take", "assign"} \cup Written \cup {"publish", "ready"}
      BY <3>1, SMT DEF Written
    <3>3. \A k \in 1 .. at'[s] - 1 : GraphsOf[Config(s).bins[k]] \subseteq Got(table'[s])
      BY <3>1, <2>2
    <3> QED
      BY <3>2, <3>3, <1>1, <1>2, <1>4 DEF ProgressOK
  <2>4. CASE /\ ~(at[s] < Len(Config(s).bins))
             /\ at' = [at EXCEPT ![s] = 1] /\ pc' = [pc EXCEPT ![s] = "assign"]
    <3>1. pc'[s] = "assign" /\ at'[s] = 1
      BY <2>4, <1>0
    <3>2. pc'[s] \notin {"take", "load"} \cup Written \cup {"publish", "ready"}
          /\ at'[s] - 1 = 0
      BY <3>1, SMT DEF Written
    <3>3. at[s] = Len(Config(s).bins)
      BY <2>4, <1>0, <1>2, <1>3, SMT
    <3>4. ASSUME NEW i \in DOMAIN Nodes(s) PROVE Nodes(s)[i] \in Got(table'[s])
      <4>1. Nodes(s)[i] \in Range(Nodes(s))
        BY DEF Range
      <4>2. PICK c \in Range(Config(s).bins) : Nodes(s)[i] \in GraphsOf[c]
        BY <4>1, <1>0, <1>2, ConfigFacts
      <4>3. PICK k \in DOMAIN Config(s).bins : c = Config(s).bins[k]
        BY DEF Range
      <4>4. k \in 1 .. at[s]
        BY <3>3, <1>3
      <4> QED
        BY <4>2, <4>3, <4>4, <2>2
    <3>5. Got(models'[s]) = {} /\ Part(s, 0) = {}
      BY <1>0, <1>1, <1>2, Parts DEF Got
    <3>6. Got(models'[s]) = Part(s, at'[s] - 1)
      BY <3>2, <3>5
    <3> QED
      BY <3>2, <3>4, <3>6, <1>1, <1>2, <1>4 DEF ProgressOK
  <2> QED
    BY <2>3, <2>4, <1>0, <1>5, LoadEffect
<1> QED
  BY <1>0, <1>5, <1>6, LoadEffect

\* Every step keeps ProgressInv.
LEMMA ProgressStep ==
    ASSUME OwnerInv, ProgressInv, NEW s \in Sessions, StepOf(s)
    PROVE  ProgressInv'
<1> USE DEF Goto
<1>0. /\ TypeOK /\ PlaceInv /\ OwnInv /\ pc \in [Sessions -> Pcs]
      /\ at \in [Sessions -> Nat \ {0}] /\ models \in [Sessions -> SUBSET Model]
      /\ table \in [Sessions -> SUBSET Model]
  BY DEF OwnerInv, TypeOK, PlacesOK, ModelsOK
<1>1. /\ config' = config
      /\ \A t \in Sessions : t # s =>
           /\ pc'[t] = pc[t] /\ at'[t] = at[t]
           /\ models'[t] = models[t] /\ table'[t] = table[t]
  BY Elsewhere
<1>2. ASSUME NEW t \in Sessions, t # s PROVE ProgressOK(t)'
  <2>1. ProgressOK(t)
    BY DEF ProgressInv
  <2>2. /\ pc'[t] = pc[t] /\ at'[t] = at[t] /\ config' = config
        /\ models'[t] = models[t] /\ table'[t] = table[t]
    BY <1>1, <1>2
  <2> QED
    BY <2>1, <2>2 DEF ProgressOK, Part, Nodes, Config, Got
<1> SUFFICES ProgressOK(s)'
  BY <1>2 DEF ProgressInv
<1>3. ASSUME models'[s] = models[s], table'[s] = table[s],
             pc'[s] \in Early \cup {"failed", "gone"}
      PROVE  ProgressOK(s)'
  <2>1. Quiet(s)
    BY <1>1, <1>3 DEF Quiet
  <2> QED
    BY <2>1, QuietProgress
<1>4. CASE \/ Construct(s) \/ SettleAllocator(s) \/ StopSharing(s)
           \/ ValidateCompatibility(s) \/ ReleaseProbe(s) \/ GetCapability(s)
  <2>1. UNCHANGED <<models, table>>
    BY <1>4 DEF Construct, SettleAllocator, StopSharing, ValidateCompatibility,
      ReleaseProbe, GetCapability, owned
  <2>2. pc'[s] \in Early \cup {"failed", "gone"}
    BY <1>0, <1>4, SMT DEF Construct, SettleAllocator, StopSharing,
      ValidateCompatibility, ReleaseProbe, GetCapability, Early
  <2> QED
    BY <2>1, <2>2, <1>3
<1>5. CASE SetupBackend(s) \/ SetupBackendFails(s) \/ CompileFails(s) \/ WriteFails(s)
  <2>1. UNCHANGED <<models, table>>
    BY <1>5 DEF SetupBackend, SetupBackendFails, CompileFails, WriteFails, owned
  <2>2. pc'[s] \in Early \cup {"failed", "gone"}
    BY <1>0, <1>5, SMT DEF SetupBackend, SetupBackendFails, CompileFails,
      WriteFails, Early
  <2> QED
    BY <2>1, <2>2, <1>3
<1>12. CASE Drops(s)
  <2>1. models' = models /\ pc'[s] = "failed"
    BY <1>0, <1>12 DEF Drops
  <2>2. pc'[s] \notin {"take", "assign", "load"} \cup Written \cup {"publish", "ready"}
    BY <2>1, SMT DEF Written
  <2>3. \A q, r \in models[s] : q.graph = r.graph => q = r
    BY DEF ProgressInv, ProgressOK
  <2> QED
    BY <2>1, <2>2, <2>3 DEF ProgressOK
<1>6. CASE Look(s) \/ CompileContextModel(s)
  <2>1. UNCHANGED <<models, table>> /\ pc[s] \in Early
    <3>1. pc[s] \in {"look1", "look2", "compile"}
      BY <1>6 DEF Look, CompileContextModel
    <3>2. pc[s] \in Early
      BY <3>1, SMT DEF Early
    <3> QED
      BY <3>2, <1>6 DEF Look, CompileContextModel, owned
  <2>2. \/ pc'[s] \in Early
        \/ pc'[s] \in {"take", "load"} /\ at'[s] = 1
    <3>1. CASE Look(s)
      BY <3>1, <1>0, SMT DEF Look, Early
    <3>2. CASE CompileContextModel(s)
      <4>1. pc[s] = "compile" /\ at'[s] = at[s] /\ pc'[s] \in {"look2", "load"}
        BY <3>2, <1>0 DEF CompileContextModel
      <4>2. at[s] = 1
        BY <4>1, <1>0, SMT DEF PlaceInv, PlaceOK, PlaceAt
      <4> QED
        BY <4>1, <4>2, SMT DEF Early
    <3> QED
      BY <1>6, <3>1, <3>2
  <2> QED
    <3>1. Quiet(s)
      BY <2>1, <2>2, <1>1 DEF Quiet
    <3> QED
      BY <3>1, QuietProgress
<1>7. CASE LockShared(s)
  <2>1. Quiet(s)
    BY <1>1, <1>7 DEF LockShared, owned, Quiet
  <2> QED
    BY <2>1, QuietProgress
<1>8. CASE ReadContextBinary(s) \/ WriteContextBinary(s) \/ PublishManager(s)
  <2>1. UNCHANGED <<models, table>>
    BY <1>8 DEF ReadContextBinary, WriteContextBinary, PublishManager,
      GetSharedQnnBackendManager, SetSharedQnnBackendManager, owned
  <2>2. pc[s] \in Written /\ pc'[s] \in Written \cup {"ready", "failed"}
    BY <1>0, <1>8, SMT DEF ReadContextBinary, WriteContextBinary, PublishManager,
      GetSharedQnnBackendManager, SetSharedQnnBackendManager,
       Written
  <2> QED
    <3>1. pc'[s] \in {"failed"} \/ Quiet(s)
      BY <2>1, <2>2, <1>1 DEF Quiet
    <3> QED
      BY <3>1, <2>1, <1>3, QuietProgress
<1>9. CASE SetSharedQnnModel(s)
  <2>1. pc[s] = "publish" /\ models' = models /\ pc'[s] \in {"failed", "ready"}
    BY <1>0, <1>9 DEF SetSharedQnnModel
  <2>2. pc'[s] \notin {"take", "assign", "load"}
    BY <2>1, SMT
  <2>3. Got(models[s]) = Range(Nodes(s)) /\ \A q, r \in models[s] : q.graph = r.graph => q = r
    BY <2>1 DEF ProgressInv, ProgressOK
  <2>4. Got(models[s])' = Got(models[s]) /\ Range(Nodes(s))' = Range(Nodes(s))
    BY <2>1, <1>1 DEF Got, Nodes, Config
  <2> QED
    BY <2>1, <2>2, <2>3, <2>4 DEF ProgressOK
<1>10. CASE CompileGraphs(s)
  <2>1. models'[s] = Composed(s) /\ pc'[s] = "serialize"
    BY <1>0, <1>10, ComposeEffect DEF CompileGraphs
  <2>2. pc'[s] \notin {"take", "assign", "load"}
    BY <2>1, SMT
  <2>3. Got(Composed(s)) = Range(Nodes(s))
    <3>1. \A g \in Range(Nodes(s)) : \E q \in Composed(s) : q.graph = g
      <4> SUFFICES ASSUME NEW g \in Range(Nodes(s)) PROVE \E q \in Composed(s) : q.graph = g
        OBVIOUS
      <4> DEFINE q == [graph |-> g, key |-> g, by |-> s, manager |-> manager[s],
                       context |-> 1, path |-> None]
      <4>1. q \in Composed(s)
        BY DEF Composed
      <4>2. q.graph = g
        OBVIOUS
      <4> QED
        BY <4>1, <4>2
    <3>2. \A q \in Composed(s) : q.graph \in Range(Nodes(s))
      BY SMT DEF Composed
    <3>3. \A g \in Range(Nodes(s)) : g \in Got(Composed(s))
      BY <3>1 DEF Got
    <3>4. \A g \in Got(Composed(s)) : g \in Range(Nodes(s))
      BY <3>2 DEF Got
    <3> QED
      BY <3>3, <3>4
  <2>4. \A q, r \in Composed(s) : q.graph = r.graph => q = r
    BY SMT DEF Composed
  <2>5. Got(models[s])' = Got(Composed(s)) /\ Range(Nodes(s))' = Range(Nodes(s))
    BY <2>1, <1>1 DEF Got, Nodes, Config
  <2>6. Got(models[s])' = Range(Nodes(s))'
    BY <2>3, <2>5
  <2>7. ASSUME NEW q \in models'[s], NEW r \in models'[s], q.graph = r.graph
        PROVE  q = r
    <3>1. q \in Composed(s) /\ r \in Composed(s)
      BY <2>1
    <3> QED
      BY <3>1, <2>4, <2>7
  <2>8. /\ pc'[s] # "take" /\ pc'[s] # "assign" /\ pc'[s] # "load"
        /\ pc'[s] \notin {"take", "assign"}
    BY <2>2
  <2> QED
    BY <2>6, <2>7, <2>8 DEF ProgressOK
<1>11. CASE DestroySession(s)
  <2>1. models'[s] = {} /\ pc'[s] = "gone"
    BY <1>0, <1>11 DEF DestroySession
  <2>2. pc'[s] \notin {"take", "assign", "load"} \cup Written \cup {"publish", "ready"}
    BY <2>1, SMT DEF Written
  <2> QED
    BY <2>1, <2>2 DEF ProgressOK
<1> QED
  BY <1>4, <1>5, <1>6, <1>7, <1>8, <1>9, <1>10, <1>11, <1>12, TakeProgress,
     AssignProgress, LoadProgress DEF StepOf, Step

-----------------------------------------------------------------------------
\* RunInv holds initially.
LEMMA RunInit == Init => RunInv
<1> SUFFICES ASSUME Init PROVE RunInv
  OBVIOUS
<1>1. OwnerInv
  BY OwnerInit
<1>2. \A s \in Sessions :
        /\ pc[s] = "new" /\ manager[s] = None /\ models[s] = {} /\ table[s] = {}
        /\ backend[s] = FreshManager
  BY DEF Init
<1>3. shared = {} /\ slot = None
  BY DEF Init
<1>4. \A s \in Sessions : ~Busy(s) /\ pc[s] \notin {"compose", "probing", "checked"}
        /\ pc[s] \notin {"take", "assign", "load"} \cup Written \cup {"publish", "ready"}
  BY <1>2, SMT DEF Busy, Written
<1>5. SerialInv /\ ManagerInv
  BY <1>2, <1>3, <1>4 DEF SerialInv, ManagerInv
<1>6. All = {}
  BY <1>2, <1>3 DEF All, Mine
<1>7. HomeInv
  BY <1>2, <1>3 DEF HomeInv, HomeOK, Mine
<1>8. FreshManager.sharing = FALSE /\ FreshManager.names = [x \in Names |-> 0]
  BY DEF FreshManager
<1>9. NamesInv
  BY <1>2, <1>8 DEF NamesInv, NamesOK
<1>10. ModelsInv /\ UpInv
  BY <1>4, <1>6 DEF ModelsInv, UpInv
<1>11. ProgressInv
  BY <1>2, <1>4 DEF ProgressInv, ProgressOK
<1> QED
  BY <1>1, <1>5, <1>7, <1>9, <1>10, <1>11 DEF RunInv

\* Every step keeps RunInv.
LEMMA RunStep ==
    ASSUME SharingRules
    PROVE  RunInv /\ [Next]_vars => RunInv'
<1> SUFFICES ASSUME RunInv, [Next]_vars PROVE RunInv'
  OBVIOUS
<1>1. /\ OwnerInv /\ SerialInv /\ ManagerInv /\ HomeInv
      /\ NamesInv /\ ModelsInv /\ UpInv /\ ProgressInv
  BY DEF RunInv
<1>2. OwnerInv'
  BY <1>1, OwnerStep
<1>3. CASE Next
  <2>1. PICK s \in Sessions : StepOf(s)
    BY <1>1, <1>3, NextStep DEF OwnerInv
  <2>2. SerialInv' /\ ManagerInv'
    BY <2>1, <1>1, SerialStep, ManagerStep
  <2>3. HomeInv'
    BY <2>1, <1>1, <1>2, HomeStep
  <2>4. NamesInv' /\ ModelsInv' /\ UpInv'
    BY <2>1, <1>1, NamesStep, ModelsStep, UpStep
  <2>5. ProgressInv'
    BY <2>1, <1>1, ProgressStep
  <2> QED
    BY <2>2, <2>3, <2>4, <2>5, <1>2 DEF RunInv
<1>4. CASE UNCHANGED vars
  <2>1. UNCHANGED <<config, pc, at, manager, backend, slot, shared, table, models>>
    BY <1>4 DEF vars
  <2>2. SerialInv' /\ ManagerInv'
    BY <2>1, <1>1 DEF SerialInv, ManagerInv, Kind, Config, Busy
  <2>3. HomeInv'
    <3>1. \A q : Lent(q)' <=> Lent(q)
      BY <2>1 DEF Lent, Kind, Config
    <3>2. \A t : HomeOK(t)' <=> HomeOK(t)
      BY <2>1, <3>1 DEF HomeOK, Mine, IsLoad, Config
    <3> QED
      BY <2>1, <3>1, <3>2, <1>1 DEF HomeInv
  <2>4. NamesInv'
    BY <2>1, <1>1 DEF NamesInv, NamesOK, Kind, Config, MainNode, Nodes
  <2>5. ModelsInv' /\ UpInv'
    BY <2>1, <1>1 DEF ModelsInv, ModelIn, UpInv, Unused, All, Mine, Mgr, IsLoad,
       Config
  <2>6. ProgressInv'
    BY <2>1, <1>1 DEF ProgressInv, ProgressOK, Part, Nodes, Config, Got
  <2> QED
    BY <2>2, <2>3, <2>4, <2>5, <2>6, <1>2 DEF RunInv
<1> QED
  BY <1>3, <1>4

\* RunInv implies ReadySessionsCanRun.
LEMMA RunInvReady == RunInv => ReadySessionsCanRun
<1> SUFFICES ASSUME RunInv, NEW s \in Sessions, pc[s] = "ready"
             PROVE  /\ Got(models[s]) = Range(Nodes(s))
                    /\ \A q, r \in models[s] : q.graph = r.graph => q = r
                    /\ \A q \in models[s] :
                         /\ Held(q.manager) /\ backend[q.manager].up
                         /\ IsLoad(s) =>
                              /\ q.context \in DOMAIN backend[q.manager].contexts
                              /\ q.graph \in GraphsOf[backend[q.manager].contexts[q.context]]
  BY DEF ReadySessionsCanRun, Got
<1>1. OwnerInv /\ HomeInv /\ ModelsInv /\ ProgressOK(s)
  BY DEF RunInv, ProgressInv
<1>2. /\ Got(models[s]) = Range(Nodes(s))
      /\ \A q, r \in models[s] : q.graph = r.graph => q = r
  BY <1>1 DEF ProgressOK
<1>3. ASSUME NEW q \in models[s]
      PROVE  /\ Held(q.manager) /\ backend[q.manager].up
             /\ IsLoad(s) =>
                  /\ q.context \in DOMAIN backend[q.manager].contexts
                  /\ q.graph \in GraphsOf[backend[q.manager].contexts[q.context]]
  <2>1. q \in Mine(s) /\ q \in All /\ q \in Model
    BY <1>1, InAll DEF Mine
  <2>2. ModelIn(q, backend[q.manager]) /\ (IsLoad(s) => q.path # None)
    BY <2>1, <1>1 DEF ModelsInv, HomeInv, HomeOK
  <2>3. q.by \in Sessions
    BY <2>1 DEF Model
  <2>4. Held(q.manager)
    BY <2>1, <2>3, <1>1 DEF HomeInv, HomeOK, Lent, Held
  <2> QED
    BY <2>2, <2>4 DEF ModelIn
<1> QED
  BY <1>2, <1>3

\* Where the sharing rules hold, a session that is ready has a model for each
\* of its nodes, on a manager that is up and with the context and the graph it
\* was made from: no other session's set-up, release, sharing or destruction
\* takes it away (Compile, CompileContextModel, ReleaseResources and the shared
\* vector).
THEOREM ReadySessionsCanRunHolds ==
    ASSUME SharingRules
    PROVE  Spec => []ReadySessionsCanRun
<1>1. RunInv /\ [Next]_vars => RunInv'
  BY RunStep
<1>2. Init => RunInv
  BY RunInit
<1>3. RunInv => ReadySessionsCanRun
  BY RunInvReady
<1> QED
  BY <1>1, <1>2, <1>3, PTL DEF Spec

=============================================================================
