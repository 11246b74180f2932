---------------------------- MODULE GroupProofs ----------------------------
(***************************************************************************)
(* Proofs about groups of sessions that share weights, for any sessions,   *)
(* graphs, binaries and configurations. GroupBinaryComplete needs RunInv,  *)
(* the invariant behind ReadySessionsCanRun, and GroupInv: who belongs to  *)
(* which group and names which file (MembersInv, FoundersInv), that        *)
(* managers keep what was compiled and writers have all of it              *)
(* (CompiledInv, BufferInv), whose file is current (NamingInv), that an    *)
(* ended group stays closed (ClosedInv), and that files and groups agree   *)
(* while nothing fails (AgreeInv). GroupEffect says what each step does to *)
(* groups and files; one lemma for each conjunct then says that a step     *)
(* keeps it.                                                               *)
(***************************************************************************)
EXTENDS SessionsProofs

\* Leaves are for Zenon unless they name another prover.
USE ZenonT(30)

-----------------------------------------------------------------------------
\* A session that may use the manager of another one is being created.
Sharer(s) == UsesSharedManager(s) /\ Busy(s)

\* In a configuration in which a generating session ends a group, only such
\* sessions end the sharing.
Grouped == \A s \in Sessions : Config(s).stop => ~IsLoad(s) /\ Config(s).share

\* Types: groups and files.
FilesOK ==
    /\ group \in [Sessions -> Sessions \cup {None}]
    /\ nodeFile \in [Sessions -> Sessions \cup {None}]
    /\ binName \in Sessions \cup {None}
    /\ buffer \in [Sessions -> SUBSET Graphs]
    /\ files \in [Sessions -> SUBSET Graphs]

\* Which session has a group and a file at its point.
MemberOK(s) ==
    /\ pc[s] = "new" => group[s] = None
    /\ pc[s] \notin {"new", "failed", "gone"} => group[s] = manager[s]
    /\ nodeFile[s] # None => ~IsLoad(s) /\ pc[s] \in {"write", "handover", "offer"} \cup Over
    /\ pc[s] \in {"write", "handover", "offer"} => nodeFile[s] # None
    /\ ~IsLoad(s) /\ pc[s] = "ready" => nodeFile[s] # None
    /\ pc[s] \in {"handover", "offer"} => Config(s).share /\ ~Config(s).stop
    /\ pc[s] = "stopping" => Config(s).stop

\* So for every session.
MembersInv == \A s \in Sessions : MemberOK(s)

\* A group is named after a member, a file after a session that names it.
FoundersInv ==
    /\ \A s \in Sessions :
         /\ group[s] # None =>
              /\ group[group[s]] = group[s]
              /\ group[s] = s \/ (UsesSharedManager(s) /\ UsesSharedManager(group[s]))
         /\ nodeFile[s] # None => nodeFile[nodeFile[s]] # None
    /\ slot # None => group[slot] = slot /\ UsesSharedManager(slot)
    /\ binName # None => nodeFile[binName] # None

\* What was compiled stays in the manager, which is up, and holds the graphs
\* of the sessions that compiled.
CompiledInv ==
    /\ \A m \in Sessions : backend[m].compiled # {} => backend[m].up
    /\ \A s \in Sessions :
         /\ pc[s] \in {"checked", "probing"} => Mgr(s).compiled = {}
         /\ ~IsLoad(s) /\ pc[s] \in Written \cup {"ready"} =>
              Range(Nodes(s)) \subseteq backend[group[s]].compiled

\* A session about to write has the graphs of its group.
BufferInv ==
    \A s, t \in Sessions :
        /\ pc[s] = "write" /\ group[t] = group[s]
        /\ ~IsLoad(t) /\ pc[t] \in {"write", "handover", "offer", "ready"}
        => Range(Nodes(t)) \subseteq buffer[s]

\* While session s, which may use the manager of another one, is created, the
\* other members of its group name the current file; the slot has its manager
\* or is empty, and is empty once s has stopped the sharing; an empty slot that
\* s did not empty means that s is alone; s itself names the file it found.
NameOK(s) ==
    /\ \A t \in Sessions : t # s /\ group[t] = group[s] /\ nodeFile[t] # None =>
         nodeFile[t] = binName
    /\ slot \in {None, group[s]}
    /\ Config(s).stop /\ pc[s] \notin {"constructed", "stopping"} => slot = None
    /\ ~Config(s).stop /\ slot = None => \A t \in Sessions : t # s => group[t] # group[s]
    /\ pc[s] = "write" => nodeFile[s] = IF binName # None THEN binName ELSE s
    /\ pc[s] \in {"handover", "offer"} => nodeFile[s] = binName

\* The file that SharedContext names is that of the group whose manager is in
\* the slot, and of the session that is being created.
NamingInv ==
    /\ \A t \in Sessions :
         slot # None /\ group[t] = slot /\ nodeFile[t] # None /\ pc[t] # "write" =>
           nodeFile[t] = binName
    /\ \A s \in Sessions : Sharer(s) => NameOK(s)

\* The group that session s has ended is closed: its file and its manager are
\* not current, no session that is created belongs to it, its members name one
\* file and the file has their graphs.
ClosedOK(s) ==
    /\ binName # nodeFile[s] /\ slot # group[s]
    /\ \A t \in Sessions : Busy(t) => group[t] # group[s] /\ nodeFile[t] # nodeFile[s]
    /\ \A t \in Sessions : group[t] = group[s] =>
         /\ nodeFile[t] # None => nodeFile[t] = nodeFile[s]
         /\ ~IsLoad(t) /\ pc[t] = "ready" =>
              Range(Nodes(t)) \subseteq files[nodeFile[s]]

\* Session s has ended a group.
Closer(s) == ~IsLoad(s) /\ Config(s).stop /\ pc[s] = "ready"
\* Every group that was ended is closed.
ClosedInv == \A s \in Sessions : Closer(s) => ClosedOK(s)

\* No session has failed or is destroyed.
NoneFailed == \A u \in Sessions : pc[u] \notin {"failed", "gone"}

\* Sessions that name the same file are of the same group.
OneGroup ==
    \A s, t \in Sessions : nodeFile[s] # None /\ nodeFile[s] = nodeFile[t] =>
        group[s] = group[t]

\* The group of session t is the one whose manager is in the slot or that of
\* the session that is being created.
Current(t) ==
    /\ \A u \in Sessions : Sharer(u) => group[t] = group[u]
    /\ slot = group[t] \/ \E u \in Sessions : Sharer(u) /\ group[t] = group[u]

\* Files and groups agree.  A session that fails breaks this: it leaves the
\* name of its file in SharedContext to the next group.
AgreeInv ==
    /\ OneGroup
    /\ \A t \in Sessions : binName # None /\ nodeFile[t] = binName => Current(t)

\* The inductive invariant, together with RunInv.
GroupInv ==
    /\ FilesOK /\ MembersInv /\ FoundersInv /\ CompiledInv /\ BufferInv
    /\ Grouped => NamingInv /\ ClosedInv /\ (NoneFailed => AgreeInv)

-----------------------------------------------------------------------------
\* What a step does to what was compiled: it only grows, and only a manager
\* that is up has any.
Compiles(s, w) ==
    /\ Changes(s, w) /\ manager[s] \in Sessions
    /\ Mgr(s).compiled \subseteq w.compiled
    /\ w.compiled # {} => w.up
    /\ w.compiled = Mgr(s).compiled \/ pc[s] = "compose"

\* Managers that were up and that are up with the same graphs.
LEMMA SameCompiled ==
    ASSUME OwnerInv, CompiledInv, NEW s \in Sessions, NEW w, Changes(s, w),
           manager[s] \in Sessions,
           w.compiled = Mgr(s).compiled, Mgr(s).compiled # {} => w.up
    PROVE  Compiles(s, w)
BY DEF Compiles

\* Every step keeps what was compiled.
LEMMA CompileEffect ==
    ASSUME OwnerInv, UpInv, CompiledInv, NEW s \in Sessions, StepOf(s)
    PROVE  backend' = backend \/ \E w : Compiles(s, w)
<1>0. TypeOK /\ PlaceInv /\ OwnInv /\ config \in Configs
  BY DEF OwnerInv, TypeOK, PlacesOK
<1>1. ASSUME pc[s] \notin {"new", "failed", "gone"}
      PROVE  /\ manager[s] \in Sessions /\ Mgr(s) \in Managers
             /\ Mgr(s).compiled # {} => Mgr(s).up
             /\ Released(Mgr(s)).compiled = {}
  <2>1. manager[s] \in Sessions /\ Mgr(s) \in Managers /\ Mgr(s) = backend[manager[s]]
    BY <1>0, <1>1, HasManager
  <2>2. Mgr(s).compiled # {} => Mgr(s).up
    BY <2>1 DEF CompiledInv
  <2>3. Released(Mgr(s)).compiled = {}
    BY DEF Released, FreshManager
  <2> QED
    BY <2>1, <2>2, <2>3
<1>2. CASE SettleAllocator(s)
  <2>1. pc[s] = "constructed"
    BY <1>2 DEF SettleAllocator
  <2>2. PICK w : Changes(s, w) /\ w.compiled = Mgr(s).compiled /\ w.up = Mgr(s).up
    <3>1. LET w == [Mgr(s) EXCEPT !.alloc = Config(s).alloc]
          IN  w.compiled = Mgr(s).compiled /\ w.up = Mgr(s).up
      BY <2>1, <1>1 DEF Managers
    <3> QED
      BY <3>1, <1>0, <1>2, SettleChanges
  <2> QED
    BY <2>1, <2>2, <1>1, SameCompiled
<1>3. CASE ValidateCompatibility(s)
  <2>1. pc[s] = "built"
    BY <1>3 DEF ValidateCompatibility
  <2>2. PICK w : Changes(s, w) /\ w.compiled = Mgr(s).compiled /\ (w.up = Mgr(s).up \/ w.up)
    <3>1. LET w == [Mgr(s) EXCEPT !.up = TRUE]
          IN  w.compiled = Mgr(s).compiled /\ w.up
      BY <2>1, <1>1 DEF Managers
    <3> QED
      BY <3>1, <1>0, <1>3, ValidateChanges
  <2> QED
    BY <2>1, <2>2, <1>1, SameCompiled
<1>4. CASE ReleaseProbe(s)
  <2>1. pc[s] = "probing"
    BY <1>4 DEF ReleaseProbe
  <2>2. Mgr(s).compiled = {}
    BY <2>1 DEF CompiledInv
  <2> QED
    BY <2>1, <2>2, <1>0, <1>1, <1>4, ReleaseChanges, SameCompiled
<1>5. CASE GetCapability(s)
  <2>1. pc[s] \in {"built", "checked", "validated"}
    BY <1>5 DEF GetCapability
  <2>2. pc[s] = "checked" => Mgr(s).compiled = {}
    BY DEF CompiledInv
  <2> QED
    BY <2>1, <2>2, <1>0, <1>1, <1>5, CapabilityChanges, SameCompiled
<1>6. CASE SetupBackend(s)
  <2>1. pc[s] = "setup"
    BY <1>6 DEF SetupBackend
  <2>2. PICK w : Changes(s, w) /\ w.compiled = Mgr(s).compiled /\ (w.up = Mgr(s).up \/ w.up)
    <3>1. LET w == AfterSetUp(s, Mgr(s)) IN w.compiled = Mgr(s).compiled /\ w.up
      BY <2>1, <1>0, <1>1, AfterSetUpFields
    <3> QED
      BY <3>1, <1>0, <1>6, SetupChanges DEF ReusedOK
  <2> QED
    BY <2>1, <2>2, <1>1, SameCompiled
<1>7. CASE SetupBackendFails(s)
  <2>1. pc[s] = "setup"
    BY <1>7 DEF SetupBackendFails
  <2>2. PICK w : /\ Changes(s, w) /\ w.compiled = Mgr(s).compiled
                 /\ w.up = Mgr(s).up \/ ~Mgr(s).up
    <3>1. CASE ~Mgr(s).up /\ Changes(s, Released(Mgr(s)))
      BY <3>1, <2>1, <1>1
    <3>2. CASE \E bins \in Seq(Binaries) :
                 /\ Range(bins) \subseteq Range(Config(s).bins)
                 /\ Changes(s, WithContexts(Mgr(s), s, bins))
      <4>1. PICK bins \in Seq(Binaries) :
              /\ Range(bins) \subseteq Range(Config(s).bins)
              /\ Changes(s, WithContexts(Mgr(s), s, bins))
        BY <3>2
      <4>2. LET w == WithContexts(Mgr(s), s, bins)
            IN  w.compiled = Mgr(s).compiled /\ w.up = Mgr(s).up
        BY <4>1, <2>1, <1>0, <1>1, WithContextsFields
      <4> QED
        BY <4>1, <4>2
    <3> QED
      BY <3>1, <3>2, <1>0, <1>7, SetupFailsChanges
  <2> QED
    BY <2>1, <2>2, <1>1, SameCompiled
<1>8. CASE LoadBinary(s)
  <2>1. CASE backend' = backend
    BY <2>1
  <2>2. CASE backend' # backend
    <3>1. /\ pc[s] = "load" /\ Bin(s) \in Range(Config(s).bins) /\ LoadContext(s) # 0
          /\ backend' = [backend EXCEPT ![manager[s]] = AfterLoad(s)]
      BY <2>2, <1>0, <1>8, LoadEffect
    <3>2. AfterLoad(s) \in Managers
      BY <3>1, <1>0, LoadTypes
    <3>3. AfterLoad(s).compiled = Mgr(s).compiled /\ AfterLoad(s).up = Mgr(s).up
      BY <3>1, <1>1 DEF AfterLoad, Managers
    <3> QED
      BY <3>1, <3>2, <3>3, <1>1, SameCompiled DEF Changes
  <2> QED
    BY <2>1, <2>2
<1>9. CASE CompileGraphs(s) \/ CompileFails(s)
  <2>1. pc[s] = "compose" /\ Mgr(s).up
    BY <1>9 DEF CompileGraphs, CompileFails, UpInv
  <2>2. PICK done \in SUBSET Range(Nodes(s)) :
          backend' = [backend EXCEPT ![manager[s]] = AfterCompile(s, done)]
    BY <1>0, <1>9, ComposeEffect, ComposeFailsEffect
  <2>3. /\ AfterCompile(s, done) \in Managers
        /\ AfterCompile(s, done).up = Mgr(s).up
        /\ AfterCompile(s, done).compiled = Mgr(s).compiled \cup done
    BY <2>1, <1>0, ComposeTypes
  <2> QED
    BY <2>1, <2>2, <2>3, <1>1 DEF Compiles, Changes
<1>10. ASSUME \/ Construct(s) \/ StopSharing(s) \/ Look(s) \/ CompileContextModel(s)
              \/ LockShared(s) \/ GetSharedQnnModel(s) \/ AssignModels(s)
              \/ SetSharedQnnModel(s) \/ ReadContextBinary(s) \/ WriteContextBinary(s)
              \/ PublishManager(s) \/ DestroySession(s) \/ Drops(s) \/ WriteFails(s)
       PROVE  backend' = backend
  BY <1>10 DEF Construct, StopSharing, Look, CompileContextModel, LockShared,
    GetSharedQnnModel, AssignModels, SetSharedQnnModel, ReadContextBinary,
    WriteContextBinary, PublishManager, GetSharedQnnBackendManager,
        SetSharedQnnBackendManager, DestroySession, Drops, WriteFails
<1> QED
  BY <1>2, <1>3, <1>4, <1>5, <1>6, <1>7, <1>8, <1>9, <1>10 DEF StepOf, Step

-----------------------------------------------------------------------------
\* What a step does to groups and files.  The files of the session and those
\* it knows of stay as they are.
SameFiles == UNCHANGED <<group, binName, nodeFile, buffer, files>>

\* Construct.
Joins(s) ==
    /\ pc[s] = "new" /\ pc'[s] = "constructed" /\ MayStart(s)
    /\ group'[s] = IF UsesSharedManager(s) /\ slot # None THEN slot ELSE s
    /\ manager'[s] = group'[s]
    /\ UNCHANGED <<slot, binName, nodeFile, buffer, files>>

\* The steps of the creation of a session that have nothing to do with groups,
\* its failures and its end.
Plainly(s) ==
    /\ SameFiles
    /\ \/ slot' = slot
       \/ /\ slot = None /\ slot' = s /\ manager[s] = s /\ Config(s).kind = "htp"
          /\ pc[s] = "constructed" /\ pc'[s] \in {"stopping", "built"}
    /\ pc[s] # "new" /\ pc[s] \notin Written
    /\ pc'[s] \notin {"new", "constructed"} \cup Written
    /\ Config(s).stop /\ pc'[s] \notin {"stopping"} \cup Over =>
         pc[s] \notin {"constructed", "stopping"}
    /\ pc'[s] \in {"ready", "failed", "gone"} \/ Busy(s)'
    /\ pc'[s] = "ready" => IsLoad(s)
    /\ pc'[s] = "stopping" => Config(s).stop
    /\ \/ Busy(s) /\ manager'[s] = manager[s]
       \/ pc'[s] \in {"failed", "gone"}

\* StopSharing.
Stops(s) ==
    /\ pc[s] = "stopping" /\ pc'[s] = "built" /\ manager'[s] = manager[s]
    /\ slot' = None /\ SameFiles

\* CompileGraphs.
Composes(s) ==
    /\ pc[s] = "compose" /\ pc'[s] = "serialize" /\ manager'[s] = manager[s]
    /\ slot' = slot /\ SameFiles
    /\ Range(Nodes(s)) \subseteq backend'[manager[s]].compiled

\* ReadContextBinary.
Reads(s) ==
    /\ pc[s] = "serialize" /\ pc'[s] = "write" /\ manager'[s] = manager[s]
    /\ nodeFile'[s] = IF Config(s).share /\ binName # None THEN binName ELSE s
    /\ buffer'[s] = Mgr(s).compiled
    /\ UNCHANGED <<slot, group, binName, files, backend>>

\* WriteContextBinary.
Writes(s) ==
    /\ pc[s] = "write" /\ manager'[s] = manager[s]
    /\ UNCHANGED <<slot, group, nodeFile, buffer>>
    /\ IF Config(s).share /\ ~Config(s).stop
       THEN /\ pc'[s] = "handover" /\ files' = files
            /\ binName' = IF nodeFile[s] = s THEN s ELSE binName
       ELSE /\ pc'[s] = "ready" /\ files' = [files EXCEPT ![nodeFile[s]] = buffer[s]]
            /\ binName' = IF Config(s).share THEN None ELSE binName

\* WriteFails.
Misses(s) ==
    /\ pc[s] = "write" /\ pc'[s] = "failed" /\ manager'[s] = manager[s]
    /\ UNCHANGED <<slot, group, nodeFile, buffer, files>>
    /\ ~Config(s).share \/ Config(s).stop
    /\ binName' = IF Config(s).share /\ nodeFile[s] = s THEN s ELSE binName

\* PublishManager.
Hands(s) ==
    /\ pc[s] \in {"handover", "offer"} /\ manager'[s] = manager[s] /\ SameFiles
    /\ \/ pc'[s] = "offer" /\ slot' = slot
       \/ pc'[s] = "ready" /\ slot' = IF slot = None THEN manager[s] ELSE slot
       \/ pc'[s] = "failed" /\ slot' = slot /\ slot # None

\* The steps that leave groups and files alone.
LEMMA PlainSteps ==
    ASSUME OwnerInv, NEW s \in Sessions,
           \/ SettleAllocator(s) \/ ValidateCompatibility(s) \/ ReleaseProbe(s)
           \/ GetCapability(s) \/ SetupBackend(s) \/ SetupBackendFails(s) \/ Look(s)
           \/ CompileContextModel(s) \/ LockShared(s) \/ GetSharedQnnModel(s)
           \/ LoadBinary(s) \/ Drops(s) \/ AssignModels(s) \/ SetSharedQnnModel(s)
           \/ CompileFails(s) \/ DestroySession(s)
    PROVE  Plainly(s)
<1> USE DEF Goto, SameFiles, setup, outputs
<1>0. /\ TypeOK /\ PlaceInv /\ OwnInv /\ pc \in [Sessions -> Pcs] /\ config \in Configs
      /\ manager \in [Sessions -> Sessions \cup {None}]
  BY DEF OwnerInv, TypeOK, PlacesOK
<1>1. /\ pc[s] \in {"look1", "compile", "look2", "take", "load", "assign", "publish"}
           => IsLoad(s)
      /\ pc[s] = "probing" => Config(s).kind = "htp"
  BY <1>0 DEF PlaceInv, PlaceOK, PlaceAt
<1>2. CASE SettleAllocator(s)
  BY <1>0, <1>2, SMTT(20) DEF SettleAllocator, Plainly, Written, Over, Busy
<1>3. CASE ValidateCompatibility(s) \/ ReleaseProbe(s) \/ GetCapability(s)
  BY <1>0, <1>3, SMTT(20) DEF ValidateCompatibility, ReleaseProbe, GetCapability, Plainly,
    Written, Over, Busy
<1>4. CASE SetupBackend(s) \/ SetupBackendFails(s)
  BY <1>0, <1>4, SMTT(20) DEF SetupBackend, SetupBackendFails, Plainly, Written, Over, Busy
<1>5. CASE Look(s) \/ CompileContextModel(s) \/ LockShared(s)
  BY <1>0, <1>5, SMTT(20) DEF Look, CompileContextModel, LockShared, Plainly, Written, Over,
    Busy
<1>6. CASE GetSharedQnnModel(s) \/ Drops(s)
  BY <1>0, <1>1, <1>6, SMTT(20) DEF GetSharedQnnModel, Drops, Plainly, Written, Over, Busy
<1>7. CASE LoadBinary(s)
  <2>1. /\ pc[s] = "load" /\ pc'[s] \in {"failed", "load", "assign"}
        /\ UNCHANGED <<slot, manager>>
    BY <1>0, <1>7, LoadEffect
  <2>2. SameFiles
    BY <1>7 DEF LoadBinary
  <2> QED
    BY <2>1, <2>2, <1>0, SMTT(20) DEF Plainly, Written, Over, Busy
<1>8. CASE AssignModels(s) \/ SetSharedQnnModel(s)
  BY <1>0, <1>1, <1>8, SMTT(20) DEF AssignModels, Abandon, SetSharedQnnModel, Plainly, Written,
    Over, Busy
<1>9. CASE CompileFails(s) \/ DestroySession(s)
  BY <1>0, <1>9, SMTT(20) DEF CompileFails, DestroySession, Plainly, Written, Over, Busy
<1> QED
  BY <1>2, <1>3, <1>4, <1>5, <1>6, <1>7, <1>8, <1>9

\* Every step in these terms.
LEMMA GroupEffect ==
    ASSUME OwnerInv, FilesOK, NEW s \in Sessions, StepOf(s)
    PROVE  \/ Joins(s) \/ Plainly(s) \/ Stops(s) \/ Composes(s)
           \/ Reads(s) \/ Writes(s) \/ Misses(s) \/ Hands(s)
<1> USE DEF Goto, SameFiles, setup, outputs
<1>0. /\ TypeOK /\ PlaceInv /\ OwnInv /\ pc \in [Sessions -> Pcs] /\ config \in Configs
      /\ manager \in [Sessions -> Sessions \cup {None}]
      /\ group \in [Sessions -> Sessions \cup {None}]
      /\ nodeFile \in [Sessions -> Sessions \cup {None}]
      /\ buffer \in [Sessions -> SUBSET Graphs]
  BY DEF OwnerInv, TypeOK, PlacesOK, FilesOK
<1>1. CASE Construct(s)
  BY <1>0, <1>1 DEF Construct, Joins
<1>2. CASE StopSharing(s)
  BY <1>0, <1>2 DEF StopSharing, Stops
<1>3. CASE CompileGraphs(s)
  <2>1. /\ pc[s] = "compose" /\ pc'[s] = "serialize" /\ manager' = manager
        /\ slot' = slot /\ SameFiles
    BY <1>0, <1>3 DEF CompileGraphs
  <2>2. backend' = [backend EXCEPT ![manager[s]] = AfterCompile(s, Range(Nodes(s)))]
    BY <1>0, <1>3, ComposeEffect
  <2>3. Range(Nodes(s)) \in SUBSET Range(Nodes(s))
    OBVIOUS
  <2>4. AfterCompile(s, Range(Nodes(s))).compiled = Mgr(s).compiled \cup Range(Nodes(s))
    BY <1>0, <2>1, <2>3, ComposeTypes
  <2>5. backend \in [Sessions -> Managers] /\ manager[s] \in Sessions
    BY <2>1, <1>0, HasManager DEF TypeOK, ManagersOK
  <2> QED
    BY <2>1, <2>2, <2>4, <2>5 DEF Composes
<1>4. CASE ReadContextBinary(s)
  BY <1>0, <1>4 DEF ReadContextBinary, Reads
<1>5. CASE WriteContextBinary(s)
  BY <1>0, <1>5 DEF WriteContextBinary, Writes
<1>6. CASE WriteFails(s)
  BY <1>0, <1>6 DEF WriteFails, Misses
<1>7. CASE PublishManager(s)
  BY <1>0, <1>7 DEF PublishManager, GetSharedQnnBackendManager, SetSharedQnnBackendManager,
       Hands
<1> QED
  BY <1>1, <1>2, <1>3, <1>4, <1>5, <1>6, <1>7, PlainSteps DEF StepOf, Step

\* What stays of the other sessions.
LEMMA OthersStay ==
    ASSUME OwnerInv, FilesOK, NEW s \in Sessions, StepOf(s)
    PROVE  /\ \A t \in Sessions : t # s =>
                /\ pc'[t] = pc[t] /\ manager'[t] = manager[t] /\ group'[t] = group[t]
                /\ nodeFile'[t] = nodeFile[t] /\ buffer'[t] = buffer[t]
                /\ Busy(t)' = Busy(t)
           /\ \A t : /\ Config(t)' = Config(t) /\ Nodes(t)' = Nodes(t)
                     /\ IsLoad(t)' = IsLoad(t)
                     /\ UsesSharedManager(t)' = UsesSharedManager(t)
           /\ ~(pc[s] = "new") => group' = group
<1>1. /\ config' = config
      /\ \A t \in Sessions : t # s => pc'[t] = pc[t] /\ manager'[t] = manager[t]
  BY Elsewhere
<1>2. \A t \in Sessions : t # s => Busy(t)' = Busy(t)
  BY <1>1 DEF Busy
<1>3. \A t : /\ Config(t)' = Config(t) /\ Nodes(t)' = Nodes(t)
             /\ IsLoad(t)' = IsLoad(t) /\ UsesSharedManager(t)' = UsesSharedManager(t)
  BY <1>1 DEF Config, Nodes, IsLoad, UsesSharedManager
<1>4. /\ \A t \in Sessions : t # s =>
           group'[t] = group[t] /\ nodeFile'[t] = nodeFile[t] /\ buffer'[t] = buffer[t]
      /\ ~(pc[s] = "new") => group' = group
  <2>1. CASE Construct(s)
    BY <2>1 DEF Construct, outputs, FilesOK
  <2>2. CASE ReadContextBinary(s)
    BY <2>2 DEF ReadContextBinary, setup, FilesOK
  <2>3. CASE ~Construct(s) /\ ~ReadContextBinary(s)
    <3>1. UNCHANGED <<group, nodeFile, buffer>>
      BY <2>3 DEF StepOf, Step, SettleAllocator, StopSharing, ValidateCompatibility,
        ReleaseProbe, GetCapability, SetupBackend, SetupBackendFails, Look,
        CompileContextModel, LockShared, GetSharedQnnModel, LoadBinary, Drops,
        AssignModels, SetSharedQnnModel, CompileGraphs, CompileFails,
        WriteContextBinary, WriteFails, PublishManager, GetSharedQnnBackendManager,
        SetSharedQnnBackendManager, DestroySession, setup, outputs
    <3> QED
      BY <3>1
  <2> QED
    BY <2>1, <2>2, <2>3
<1> QED
  BY <1>1, <1>2, <1>3, <1>4

-----------------------------------------------------------------------------
\* Every step keeps the types of groups and files.
LEMMA FilesStep ==
    ASSUME OwnerInv, FilesOK, NEW s \in Sessions, StepOf(s)
    PROVE  FilesOK'
<1> USE DEF Goto, setup, outputs
<1>0. /\ TypeOK /\ PlaceInv /\ pc \in [Sessions -> Pcs]
      /\ slot \in Sessions \cup {None} /\ backend \in [Sessions -> Managers]
      /\ group \in [Sessions -> Sessions \cup {None}]
      /\ nodeFile \in [Sessions -> Sessions \cup {None}]
      /\ binName \in Sessions \cup {None}
      /\ buffer \in [Sessions -> SUBSET Graphs]
      /\ files \in [Sessions -> SUBSET Graphs]
  BY DEF OwnerInv, TypeOK, PlacesOK, ManagersOK, FilesOK
<1>1. CASE Construct(s)
  <2>1. manager'[s] \in Sessions
    BY <1>1, BinariesNamed, <1>0 DEF Construct, OwnerInv, TypeOK, PlacesOK
  <2> QED
    BY <1>0, <1>1, <2>1 DEF Construct, FilesOK
<1>2. CASE ReadContextBinary(s)
  <2>1. Mgr(s).compiled \in SUBSET Graphs
    <3>1. pc[s] = "serialize"
      BY <1>2 DEF ReadContextBinary
    <3>2. Mgr(s) \in Managers
      BY <3>1, <1>0, HasManager
    <3> QED
      BY <3>2 DEF Managers
  <2> QED
    BY <1>0, <1>2, <2>1 DEF ReadContextBinary, FilesOK
<1>3. CASE WriteContextBinary(s)
  <2>1. files' \in [Sessions -> SUBSET Graphs]
    BY <1>0, <1>3 DEF WriteContextBinary
  <2> QED
    BY <1>0, <1>3, <2>1 DEF WriteContextBinary, FilesOK
<1>4. CASE WriteFails(s)
  BY <1>0, <1>4 DEF WriteFails, FilesOK
<1>5. CASE /\ ~Construct(s) /\ ~ReadContextBinary(s)
           /\ ~WriteContextBinary(s) /\ ~WriteFails(s)
  <2>1. UNCHANGED <<group, nodeFile, binName, buffer, files>>
    BY <1>5 DEF StepOf, Step, SettleAllocator, StopSharing, ValidateCompatibility,
      ReleaseProbe, GetCapability, SetupBackend, SetupBackendFails, Look,
      CompileContextModel, LockShared, GetSharedQnnModel, LoadBinary, Drops,
      AssignModels, SetSharedQnnModel, CompileGraphs, CompileFails, PublishManager,
      GetSharedQnnBackendManager, SetSharedQnnBackendManager,
      DestroySession
  <2> QED
    BY <2>1 DEF FilesOK
<1> QED
  BY <1>1, <1>2, <1>3, <1>4, <1>5

\* Every step keeps MembersInv.
LEMMA MembersStep ==
    ASSUME OwnerInv, FilesOK, MembersInv, NEW s \in Sessions, StepOf(s)
    PROVE  MembersInv'
<1>1. /\ \A t \in Sessions : t # s =>
           /\ pc'[t] = pc[t] /\ manager'[t] = manager[t] /\ group'[t] = group[t]
           /\ nodeFile'[t] = nodeFile[t]
      /\ \A t : Config(t)' = Config(t) /\ IsLoad(t)' = IsLoad(t)
      /\ ~(pc[s] = "new") => group' = group
  BY OthersStay
<1>2. \A t \in Sessions : t # s => MemberOK(t)'
  BY <1>1 DEF MembersInv, MemberOK
<1>3. /\ MemberOK(s)
      /\ pc[s] \in {"compose"} \cup Written => ~IsLoad(s)
      /\ binName \in Sessions \cup {None} /\ None \notin Sessions
  BY BinariesNamed DEF MembersInv, OwnerInv, PlaceInv, PlaceOK, PlaceAt, FilesOK
<1>4. MemberOK(s)'
  <2>1. CASE Joins(s)
    BY <2>1, <1>1, <1>3, SMTT(20) DEF Joins, MemberOK, Over
  <2>2. CASE Plainly(s)
    BY <2>2, <1>1, <1>3, SMTT(20) DEF Plainly, SameFiles, MemberOK, Written, Over, Busy
  <2>3. CASE Stops(s) \/ Composes(s) \/ Hands(s)
    BY <2>3, <1>1, <1>3, SMTT(20) DEF Stops, Composes, Hands, SameFiles, MemberOK, Written, Over
  <2>4. CASE Reads(s)
    BY <2>4, <1>1, <1>3, SMTT(20) DEF Reads, MemberOK, Written, Over
  <2>5. CASE Writes(s) \/ Misses(s)
    BY <2>5, <1>1, <1>3, SMTT(20) DEF Writes, Misses, MemberOK, Written, Over
  <2> QED
    BY <2>1, <2>2, <2>3, <2>4, <2>5, GroupEffect
<1> QED
  BY <1>2, <1>4 DEF MembersInv

\* Every step keeps FoundersInv.
LEMMA FoundersStep ==
    ASSUME OwnerInv, FilesOK, MembersInv, FoundersInv, NEW s \in Sessions, StepOf(s)
    PROVE  FoundersInv'
<1>1. /\ \A t \in Sessions : t # s =>
           group'[t] = group[t] /\ nodeFile'[t] = nodeFile[t]
      /\ \A t : UsesSharedManager(t)' = UsesSharedManager(t)
      /\ ~(pc[s] = "new") => group' = group
  BY OthersStay
<1>2. /\ binName \in Sessions \cup {None} /\ None \notin Sessions
      /\ slot \in Sessions \cup {None}
      /\ \A t \in Sessions : group[t] \in Sessions \cup {None}
                             /\ nodeFile[t] \in Sessions \cup {None}
  BY BinariesNamed DEF OwnerInv, TypeOK, PlacesOK, FilesOK
<1>3. /\ pc[s] = "new" => group[s] = None
      /\ pc[s] \notin {"new", "failed", "gone"} => group[s] = manager[s]
      /\ pc[s] \in {"handover", "offer"} => Config(s).share
      /\ pc[s] \in {"write", "handover", "offer"} => nodeFile[s] # None /\ ~IsLoad(s)
      /\ nodeFile[s] # None => pc[s] \in {"write", "handover", "offer", "ready", "failed", "gone"}
  BY DEF MembersInv, MemberOK, Over
<1>4. pc[s] \notin {"new", "failed", "gone"} => manager[s] # None
  BY DEF OwnerInv, PlaceInv, PlaceOK, PlaceAt
<1> DEFINE Groups(g, sl) ==
             /\ \A t \in Sessions : g[t] # None =>
                  /\ g[g[t]] = g[t]
                  /\ g[t] = t \/ (UsesSharedManager(t) /\ UsesSharedManager(g[t]))
             /\ sl # None => g[sl] = sl /\ UsesSharedManager(sl)
           Files(n, bn) ==
             /\ \A t \in Sessions : n[t] # None => n[n[t]] # None
             /\ bn # None => n[bn] # None
<1>5. Groups(group, slot) /\ Files(nodeFile, binName)
  BY DEF FoundersInv
<1> SUFFICES Groups(group', slot') /\ Files(nodeFile', binName')
  BY <1>1 DEF FoundersInv
<1>6. CASE Joins(s)
  <2>1. Groups(group', slot')
    BY <1>6, <1>1, <1>2, <1>3, <1>5, SMTT(20) DEF Joins
  <2> QED
    BY <2>1, <1>6, <1>5 DEF Joins
<1>7. CASE Plainly(s)
  <2>1. pc[s] = "constructed" /\ manager[s] = s => group[s] = s
    BY <1>3, SMTT(20)
  <2>2. Config(s).kind = "htp" => UsesSharedManager(s)
    BY DEF UsesSharedManager
  <2> QED
    BY <1>7, <2>1, <2>2, <1>5 DEF Plainly, SameFiles
<1>8. CASE Stops(s) \/ Composes(s)
  BY <1>8, <1>5 DEF Stops, Composes, SameFiles
<1>9. CASE Hands(s)
  <2>1. group[s] = manager[s] /\ manager[s] # None
    BY <1>9, <1>3, <1>4, SMTT(20) DEF Hands
  <2>2. UsesSharedManager(s)
    BY <1>9, <1>3, SMTT(20) DEF Hands, UsesSharedManager, IsLoad
  <2>3. UsesSharedManager(group[s]) /\ group[group[s]] = group[s]
    BY <2>1, <2>2, <1>5
  <2> QED
    BY <2>1, <2>3, <1>9, <1>5 DEF Hands, SameFiles
<1>10. CASE Reads(s)
  <2>1. Files(nodeFile', binName)
    BY <1>10, <1>1, <1>2, <1>3, <1>5, SMTT(20) DEF Reads
  <2> QED
    BY <2>1, <1>10, <1>5 DEF Reads
<1>11. CASE Writes(s) \/ Misses(s)
  BY <1>11, <1>3, <1>5 DEF Writes, Misses
<1> QED
  BY <1>6, <1>7, <1>8, <1>9, <1>10, <1>11, GroupEffect

\* Every step keeps CompiledInv: a manager that is released had compiled nothing.
LEMMA CompiledStep ==
    ASSUME OwnerInv, SerialInv, ManagerInv, UpInv, FilesOK, MembersInv, CompiledInv,
           NEW s \in Sessions, StepOf(s)
    PROVE  CompiledInv'
<1>0. /\ TypeOK /\ PlaceInv /\ OwnInv /\ backend \in [Sessions -> Managers]
  BY DEF OwnerInv, TypeOK, PlacesOK, ManagersOK
<1>1. /\ \A t \in Sessions : t # s =>
           pc'[t] = pc[t] /\ manager'[t] = manager[t] /\ group'[t] = group[t]
      /\ \A t : Nodes(t)' = Nodes(t) /\ IsLoad(t)' = IsLoad(t)
      /\ ~(pc[s] = "new") => group' = group
  BY OthersStay
<1>2. \A m \in Sessions : /\ backend[m].compiled \subseteq backend'[m].compiled
                          /\ backend'[m].compiled # {} => backend'[m].up
  <2>1. \A m \in Sessions : backend[m].compiled # {} => backend[m].up
    BY DEF CompiledInv
  <2>2. CASE backend' = backend
    BY <2>1, <2>2
  <2>3. CASE \E w : Compiles(s, w)
    <3>1. PICK w : Compiles(s, w)
      BY <2>3
    <3>2. \A m \in Sessions :
            backend'[m] = IF m = manager[s] THEN w ELSE backend[m]
      BY <3>1, <1>0 DEF Compiles, Changes
    <3> QED
      BY <2>1, <3>1, <3>2 DEF Compiles, Mgr
  <2> QED
    BY <2>2, <2>3, CompileEffect
<1>3. ASSUME NEW t \in Sessions, t # s, pc[t] \in {"checked", "probing"}
      PROVE  Mgr(t)'.compiled = {}
  <2>1. /\ Mgr(t).compiled = {} /\ manager[t] \in Sessions
        /\ Mgr(t) = backend[manager[t]]
    <3>1. pc[t] \notin {"new", "failed", "gone"}
      BY <1>3, SMTT(20)
    <3> QED
      BY <3>1, <1>0, <1>3, HasManager DEF CompiledInv
  <2>2. Mgr(t)' = backend'[manager[t]]
    BY <1>1, <1>3 DEF Mgr
  <2>3. CASE backend' = backend
    BY <2>1, <2>2, <2>3
  <2>4. CASE \E w : Compiles(s, w)
    <3>1. PICK w : Compiles(s, w)
      BY <2>4
    <3>2. CASE manager[s] # manager[t]
      BY <2>1, <2>2, <3>1, <3>2, <1>0 DEF Compiles, Changes
    <3>3. CASE manager[s] = manager[t]
      <4>1. pc[s] # "compose"
        <5>1. pc[s] = "compose" => Busy(s)
          BY SMTT(20) DEF Busy
        <5>2. Busy(t)
          BY <1>3, SMTT(20) DEF Busy
        <5> QED
          BY <5>1, <5>2, <3>3, <1>3, Exclusive
      <4>2. w.compiled = {} /\ backend'[manager[t]] = w
        BY <4>1, <3>1, <3>3, <2>1, <1>0 DEF Compiles, Changes, Mgr
      <4> QED
        BY <4>2, <2>2
    <3> QED
      BY <3>2, <3>3
  <2> QED
    BY <2>3, <2>4, CompileEffect
<1>4. ASSUME pc'[s] \in {"checked", "probing"} PROVE Mgr(s)'.compiled = {}
  <2>1. ValidateCompatibility(s) /\ ~Mgr(s).up
    BY <1>4, Probes
  <2>2. pc[s] = "built" /\ manager' = manager
    BY <2>1 DEF ValidateCompatibility
  <2>3. manager[s] \in Sessions /\ Mgr(s) = backend[manager[s]]
    BY <2>2, <1>0, HasManager, SMTT(20)
  <2>4. Mgr(s).compiled = {}
    BY <2>1, <2>3 DEF CompiledInv
  <2>5. pc[s] # "compose"
    BY <2>2, SMTT(20)
  <2>6. Mgr(s)' = backend'[manager[s]]
    BY <2>2 DEF Mgr
  <2>7. CASE backend' = backend
    BY <2>3, <2>4, <2>6, <2>7
  <2>8. CASE \E w : Compiles(s, w)
    BY <2>3, <2>4, <2>5, <2>6, <2>8, <1>0 DEF Compiles, Changes
  <2> QED
    BY <2>7, <2>8, CompileEffect
<1>5. ASSUME NEW t \in Sessions, ~IsLoad(t), pc[t] \in Written \cup {"ready"}
      PROVE  /\ Range(Nodes(t)) \subseteq backend'[group[t]].compiled
             /\ pc[t] # "new"
  <2>1. pc[t] \notin {"new", "failed", "gone"}
    BY <1>5, SMTT(20) DEF Written
  <2>2. group[t] = manager[t] /\ manager[t] \in Sessions
    BY <2>1, <1>0, HasManager DEF MembersInv, MemberOK
  <2>3. Range(Nodes(t)) \subseteq backend[group[t]].compiled
    BY <1>5 DEF CompiledInv
  <2> QED
    BY <2>1, <2>2, <2>3, <1>2
<1>6. ASSUME ~IsLoad(s), pc'[s] \in Written \cup {"ready"}
      PROVE  Range(Nodes(s)) \subseteq backend'[group'[s]].compiled
  <2>1. CASE Joins(s) \/ Stops(s) \/ Misses(s) \/ Plainly(s)
    BY <2>1, <1>6, SMTT(20) DEF Joins, Stops, Misses, Plainly, Written
  <2>2. CASE Composes(s)
    <3>1. group[s] = manager[s] /\ group' = group
      BY <2>2, SMTT(20) DEF Composes, SameFiles, MembersInv, MemberOK
    <3> QED
      BY <2>2, <3>1 DEF Composes
  <2>3. CASE Reads(s) \/ Writes(s) \/ Hands(s)
    <3>1. pc[s] \in Written
      BY <2>3, SMTT(20) DEF Reads, Writes, Hands, Written
    <3> QED
      BY <3>1, <1>1, <1>5, <1>6
  <2> QED
    BY <2>1, <2>2, <2>3, GroupEffect
<1> SUFFICES ASSUME NEW t \in Sessions
             PROVE  /\ pc'[t] \in {"checked", "probing"} => Mgr(t)'.compiled = {}
                    /\ ~IsLoad(t) /\ pc'[t] \in Written \cup {"ready"} =>
                         Range(Nodes(t)) \subseteq backend'[group'[t]].compiled
  BY <1>1, <1>2 DEF CompiledInv
<1>7. CASE t = s
  BY <1>4, <1>6, <1>7
<1>8. CASE t # s
  BY <1>1, <1>3, <1>5, <1>8
<1> QED
  BY <1>7, <1>8

\* A session that writes has read what its group compiled; others of the group
\* come to their graphs only while it is not busy.
LEMMA BufferStep ==
    ASSUME OwnerInv, SerialInv, FilesOK, MembersInv, CompiledInv, BufferInv,
           NEW s \in Sessions, StepOf(s)
    PROVE  BufferInv'
<1>1. /\ \A t \in Sessions : t # s =>
           pc'[t] = pc[t] /\ group'[t] = group[t] /\ buffer'[t] = buffer[t]
      /\ \A t : Nodes(t)' = Nodes(t) /\ IsLoad(t)' = IsLoad(t)
      /\ ~(pc[s] = "new") => group' = group
  BY OthersStay
<1> DEFINE Has(t) == ~IsLoad(t) /\ pc[t] \in {"write", "handover", "offer", "ready"}
<1>2. ASSUME NEW r \in Sessions, NEW t \in Sessions, pc'[r] = "write",
             group'[t] = group'[r], ~IsLoad(t), pc'[t] \in {"write", "handover", "offer", "ready"}
      PROVE  Range(Nodes(t)) \subseteq buffer'[r]
  <2>0. pc[r] = "write" /\ group[t] = group[r] /\ Has(t) =>
          Range(Nodes(t)) \subseteq buffer[r]
    BY DEF BufferInv
  <2>1. CASE Reads(s) /\ r = s
    <3>1. pc[s] = "serialize" /\ buffer'[s] = Mgr(s).compiled /\ group' = group
      BY <2>1 DEF Reads
    <3>2. group[s] = manager[s]
      BY <3>1, SMTT(20) DEF MembersInv, MemberOK
    <3>3. pc[t] \in Written \cup {"ready"}
      <4>1. CASE t = s
        BY <4>1, <3>1, SMTT(20) DEF Written
      <4>2. CASE t # s
        BY <4>2, <1>1, <1>2, SMTT(20) DEF Written
      <4> QED
        BY <4>1, <4>2
    <3>4. Range(Nodes(t)) \subseteq backend[group[t]].compiled
      BY <3>3, <1>2 DEF CompiledInv
    <3> QED
      BY <3>1, <3>2, <3>4, <2>1, <1>2 DEF Mgr
  <2>2. CASE ~(Reads(s) /\ r = s)
    <3>1. pc[r] = "write" /\ buffer'[r] = buffer[r]
      <4>1. CASE r # s
        BY <4>1, <1>1, <1>2
      <4>2. CASE r = s
        BY <2>2, <4>2, <1>2, GroupEffect, SMTT(20) DEF Joins, Plainly, Stops, Composes, Writes,
          Misses, Hands, Written
      <4> QED
        BY <4>1, <4>2
    <3>2. Has(t) /\ group[t] = group[r]
      <4>1. CASE t = s
        <5>1. Kind(s) = "generate" /\ Kind(r) = "generate"
          BY <4>1, <3>1, <1>2 DEF OwnerInv, PlaceInv, PlaceOK, PlaceAt, IsLoad, Kind, Written
        <5>2. Busy(r)
          BY <3>1, SMTT(20) DEF Busy
        <5>3. s # r => ~Busy(s)
          BY <5>1, <5>2 DEF SerialInv, Sharing
        <5>4. CASE s = r
          BY <5>4, <3>1, <4>1, <1>1, <1>2, SMTT(20)
        <5>5. CASE ~Busy(s)
          BY <5>5, <4>1, <1>1, <1>2, GroupEffect, SMTT(20) DEF Joins, Plainly, Stops, Composes,
            Reads, Writes, Misses, Hands, Busy
        <5> QED
          BY <5>3, <5>4, <5>5
      <4>2. CASE t # s /\ r # s
        BY <4>2, <1>1, <1>2
      <4>3. CASE t # s /\ r = s
        <5>1. group' = group
          BY <4>3, <3>1, <1>1, SMTT(20)
        <5> QED
          BY <5>1, <4>3, <1>1, <1>2
      <4> QED
        BY <4>1, <4>2, <4>3
    <3> QED
      BY <3>1, <3>2, <2>0
  <2> QED
    BY <2>1, <2>2
<1> QED
  BY <1>1, <1>2 DEF BufferInv

-----------------------------------------------------------------------------
\* Sessions that share managers are created one at a time.
LEMMA OneSharer ==
    ASSUME OwnerInv, SerialInv, NEW s \in Sessions, NEW u \in Sessions, Sharer(u),
           Sharer(s) \/ pc[s] \in {"compose"} \cup Written
    PROVE  u = s
<1>1. Kind(u) \in Sharing /\ Busy(u)
  BY DEF Sharer, UsesSharedManager, Kind, Sharing
<1>2. CASE Sharer(s)
  <2>1. Kind(s) \in Sharing /\ Busy(s)
    BY <1>2 DEF Sharer, UsesSharedManager, Kind, Sharing
  <2> QED
    BY <1>1, <2>1 DEF SerialInv
<1>3. CASE pc[s] \in {"compose"} \cup Written
  <2>1. Kind(s) \in Sharing
    BY <1>3 DEF OwnerInv, PlaceInv, PlaceOK, PlaceAt, IsLoad, Kind, Sharing
  <2>2. Busy(s)
    BY <1>3, SMTT(20) DEF Busy, Written
  <2> QED
    BY <1>1, <2>1, <2>2 DEF SerialInv
<1> QED
  BY <1>2, <1>3

\* When a session that shares managers starts, none other is busy or writes.
LEMMA NoSharer ==
    ASSUME SharingRules, OwnerInv, NEW s \in Sessions, MayStart(s), UsesSharedManager(s),
           NEW u \in Sessions, u # s
    PROVE  ~Sharer(u) /\ pc[u] \notin {"compose"} \cup Written
<1>1. Config(s).kind \in SerialKinds
  BY DEF UsesSharedManager, SharingRules, Sharing
<1>2. Config(u).kind \in Sharing => ~Busy(u)
  BY <1>1 DEF MayStart, SharingRules
<1>3. ~Sharer(u)
  BY <1>2 DEF Sharer, UsesSharedManager, Sharing
<1>4. ASSUME pc[u] \in {"compose"} \cup Written PROVE FALSE
  <2>1. Config(u).kind \in Sharing
    BY <1>4 DEF OwnerInv, PlaceInv, PlaceOK, PlaceAt, IsLoad, Sharing
  <2>2. Busy(u)
    BY <1>4, SMTT(20) DEF Busy, Written
  <2> QED
    BY <2>1, <2>2, <1>2
<1> QED
  BY <1>3, <1>4

\* What the sessions and the slot look like at a step, for the lemmas below.
Around(s) ==
    /\ None \notin Sessions
    /\ slot \in Sessions \cup {None} /\ binName \in Sessions \cup {None}
    /\ \A t \in Sessions : t # s =>
         /\ pc'[t] = pc[t] /\ group'[t] = group[t] /\ nodeFile'[t] = nodeFile[t]
         /\ Busy(t)' = Busy(t)
    /\ \A t : /\ Config(t)' = Config(t) /\ IsLoad(t)' = IsLoad(t) /\ Nodes(t)' = Nodes(t)
              /\ UsesSharedManager(t)' = UsesSharedManager(t)
    /\ pc[s] # "new" => group' = group
    /\ \A t \in Sessions : t # s => Sharer(t)' = Sharer(t)
    /\ \A t \in Sessions : group[t] \in Sessions \cup {None}
                           /\ nodeFile[t] \in Sessions \cup {None}

\* Every step leaves the surroundings as they are.
LEMMA StepAround ==
    ASSUME OwnerInv, FilesOK, NEW s \in Sessions, StepOf(s)
    PROVE  Around(s)
<1>1. /\ None \notin Sessions
      /\ slot \in Sessions \cup {None} /\ binName \in Sessions \cup {None}
      /\ \A t \in Sessions : group[t] \in Sessions \cup {None}
                             /\ nodeFile[t] \in Sessions \cup {None}
  BY BinariesNamed DEF OwnerInv, TypeOK, PlacesOK, FilesOK
<1>2. \A t \in Sessions : t # s => Sharer(t)' = Sharer(t)
  BY OthersStay DEF Sharer
<1> QED
  BY <1>1, <1>2, OthersStay DEF Around

\* A session that starts founds its group or comes to that of the slot.
LEMMA NamingJoins ==
    ASSUME SharingRules, OwnerInv, MembersInv, FoundersInv, NamingInv,
           NEW s \in Sessions, Around(s), Joins(s)
    PROVE  NamingInv'
<1>1. /\ nodeFile[s] = None /\ group[s] = None /\ nodeFile' = nodeFile
      /\ slot' = slot /\ binName' = binName
      /\ group'[s] = IF UsesSharedManager(s) /\ slot # None THEN slot ELSE s
      /\ pc'[s] = "constructed"
  BY SMTT(20) DEF Joins, MembersInv, MemberOK, Over
<1>2. \A t \in Sessions : group[t] # s
  <2>1. s # None
    BY DEF Around
  <2>2. \A t \in Sessions : group[t] # None => group[group[t]] = group[t]
    BY DEF FoundersInv
  <2> QED
    BY <1>1, <2>1, <2>2
<1>3. \A t \in Sessions :
        slot # None /\ group[t] = slot /\ nodeFile[t] # None /\ pc[t] # "write" =>
          nodeFile[t] = binName
  BY DEF NamingInv
<1>4. \A t \in Sessions :
        slot' # None /\ group'[t] = slot' /\ nodeFile'[t] # None /\ pc'[t] # "write" =>
          nodeFile'[t] = binName'
  BY <1>1, <1>3 DEF Around
<1>5. ASSUME NEW u \in Sessions, u # s, Sharer(u)' PROVE NameOK(u)'
  <2>1. Sharer(u) /\ NameOK(u)
    BY <1>5 DEF Around, NamingInv
  <2>2. ~UsesSharedManager(s)
    BY <2>1, <1>5, NoSharer DEF Joins
  <2>3. group'[s] # group[u] /\ group'[u] = group[u] /\ pc'[u] = pc[u]
    BY <2>2, <1>1, <1>2, <1>5 DEF Around
  <2>4. \A t \in Sessions : t # u /\ group'[t] = group[u] => t # s /\ group[t] = group[u]
    BY <2>3 DEF Around
  <2> QED
    BY <2>1, <2>3, <2>4, <1>1, <1>5 DEF NameOK, Around
<1>6. ASSUME Sharer(s)' PROVE NameOK(s)'
  <2>1. UsesSharedManager(s)
    BY <1>6 DEF Sharer, Around
  <2>2. \A t \in Sessions : t # s => pc[t] # "write"
    BY <2>1, NoSharer DEF Joins, Written
  <2>3. \A t \in Sessions : t # s /\ group'[t] = group'[s] => slot # None /\ group[t] = slot
    BY <2>1, <1>1, <1>2 DEF Around
  <2>4. \A t \in Sessions : t # s /\ group'[t] = group'[s] /\ nodeFile'[t] # None =>
          nodeFile'[t] = binName'
    BY <2>2, <2>3, <1>1, <1>3
  <2>5. slot' \in {None, group'[s]}
    BY <2>1, <1>1
  <2>6. pc'[s] \notin {"write", "handover", "offer"} /\ pc'[s] \in {"constructed", "stopping"}
    BY <1>1, SMTT(20)
  <2> QED
    BY <2>3, <2>4, <2>5, <2>6, <1>1 DEF NameOK
<1> QED
  BY <1>4, <1>5, <1>6 DEF NamingInv

\* Steps that have nothing to do with groups keep the names; a session that
\* shares its resources publishes the manager of a group without files.
LEMMA NamingPlainly ==
    ASSUME OwnerInv, SerialInv, Grouped, MembersInv, FoundersInv, NamingInv,
           NEW s \in Sessions, Around(s), Plainly(s)
    PROVE  NamingInv'
<1>1. group' = group /\ nodeFile' = nodeFile /\ binName' = binName
  BY DEF Plainly, SameFiles
<1>2. \A t \in Sessions : pc'[t] = "write" <=> pc[t] = "write"
  BY SMTT(20) DEF Plainly, Around, Written
<1>3. slot' # slot =>
        /\ slot = None /\ slot' = s /\ Sharer(s) /\ group[s] = s /\ nodeFile[s] = None
        /\ ~Config(s).stop
  <2> HAVE slot' # slot
  <2>1. /\ slot = None /\ slot' = s /\ manager[s] = s /\ Config(s).kind = "htp"
        /\ pc[s] = "constructed"
    BY DEF Plainly
  <2>2. Busy(s) /\ pc[s] \notin {"new", "failed", "gone"}
    BY <2>1, SMTT(20) DEF Busy
  <2>3. IsLoad(s) /\ UsesSharedManager(s)
    BY <2>1, SMTT(20) DEF IsLoad, UsesSharedManager
  <2>4. group[s] = s /\ nodeFile[s] = None
    BY <2>1, <2>2, <2>3 DEF MembersInv, MemberOK
  <2> QED
    BY <2>1, <2>2, <2>3, <2>4 DEF Sharer, Grouped
<1>4. \A u \in Sessions : Sharer(u) => NameOK(u)
  BY DEF NamingInv
<1>5. ASSUME NEW t \in Sessions, slot' # None, group'[t] = slot', nodeFile'[t] # None,
             pc'[t] # "write"
      PROVE  nodeFile'[t] = binName'
  <2>1. CASE slot' = slot
    BY <2>1, <1>1, <1>2, <1>5 DEF NamingInv
  <2>2. CASE slot' # slot
    <3>1. /\ Sharer(s) /\ t # s /\ group[t] = group[s] /\ nodeFile[t] # None
          /\ binName' = binName /\ nodeFile'[t] = nodeFile[t]
      BY <2>2, <1>1, <1>3, <1>5
    <3>2. NameOK(s)
      BY <3>1, <1>4
    <3> QED
      BY <3>1, <3>2 DEF NameOK
  <2> QED
    BY <2>1, <2>2
<1>6. ASSUME NEW u \in Sessions, u # s, Sharer(u)' PROVE NameOK(u)'
  <2>1. Sharer(u) /\ NameOK(u) /\ pc'[u] = pc[u] /\ Config(u)' = Config(u)
    BY <1>4, <1>6 DEF Around
  <2>2. slot' = slot
    BY <2>1, <1>3, <1>6, OneSharer
  <2> QED
    BY <2>1, <2>2, <1>1 DEF NameOK
<1>7. ASSUME Sharer(s)' PROVE NameOK(s)'
  <2>1. Busy(s)'
    BY <1>7 DEF Sharer
  <2>2. pc'[s] \notin Over
    BY <2>1, SMTT(20) DEF Busy, Over
  <2>3. Sharer(s)
    <3>1. Busy(s)
      BY <2>2 DEF Plainly, Over
    <3> QED
      BY <3>1, <1>7 DEF Sharer, Around
  <2>4. NameOK(s) /\ Config(s)' = Config(s)
    BY <2>3, <1>4 DEF Around
  <2>5. pc'[s] \notin {"write", "handover", "offer", "constructed"}
    BY SMTT(20) DEF Plainly, Written
  <2>6. /\ Config(s).stop /\ pc'[s] # "stopping" => slot = None
        /\ Config(s).stop => slot' = slot
    BY <2>2, <2>4, <1>3 DEF Plainly, NameOK
  <2>7. slot' \in {None, group[s]} /\ (slot' = None => slot = None)
    <3>1. slot \in {None, group[s]} /\ s # None
      BY <2>4 DEF NameOK, Around
    <3> QED
      BY <3>1, <1>3
  <2> QED
    BY <2>4, <2>5, <2>6, <2>7, <1>1 DEF NameOK
<1> QED
  BY <1>5, <1>6, <1>7 DEF NamingInv

\* A session that stops the sharing is the one that is created.
LEMMA NamingStops ==
    ASSUME OwnerInv, SerialInv, Grouped, MembersInv, NamingInv,
           NEW s \in Sessions, Around(s), Stops(s)
    PROVE  NamingInv'
<1>1. /\ group' = group /\ nodeFile' = nodeFile /\ binName' = binName /\ slot' = None
      /\ pc[s] = "stopping" /\ pc'[s] = "built"
  BY DEF Stops, SameFiles
<1>2. Sharer(s) /\ Config(s).stop
  <2>1. Config(s).stop
    BY <1>1 DEF MembersInv, MemberOK
  <2>2. UsesSharedManager(s)
    BY <2>1 DEF Grouped, UsesSharedManager, IsLoad
  <2>3. Busy(s)
    BY <1>1, SMTT(20) DEF Busy
  <2> QED
    BY <2>1, <2>2, <2>3 DEF Sharer
<1>3. ASSUME NEW u \in Sessions, u # s PROVE ~Sharer(u)'
  BY <1>2, <1>3, OneSharer DEF Around
<1>4. NameOK(s) /\ Config(s)' = Config(s)
  BY <1>2 DEF NamingInv, Around
<1>5. pc'[s] \notin {"write", "handover", "offer"}
  BY <1>1, SMTT(20)
<1>6. NameOK(s)'
  BY <1>1, <1>2, <1>4, <1>5 DEF NameOK
<1> QED
  BY <1>1, <1>3, <1>6 DEF NamingInv

\* Compiling and reading happen while no other session shares.
LEMMA NamingReads ==
    ASSUME OwnerInv, SerialInv, NamingInv, NEW s \in Sessions, Around(s),
           Composes(s) \/ Reads(s)
    PROVE  NamingInv'
<1>1. /\ group' = group /\ binName' = binName /\ slot' = slot
      /\ \A t \in Sessions : t # s => nodeFile'[t] = nodeFile[t]
      /\ pc[s] \in {"compose"} \cup Written /\ pc'[s] \in {"serialize", "write"}
      /\ pc'[s] = "serialize" => nodeFile' = nodeFile /\ pc[s] # "write"
      /\ pc'[s] = "write" =>
           nodeFile'[s] = IF Config(s).share /\ binName # None THEN binName ELSE s
      /\ pc[s] \notin {"constructed", "stopping"}
  BY SMTT(20) DEF Composes, Reads, SameFiles, Written, Around
<1>2. ~IsLoad(s)
  BY <1>1 DEF OwnerInv, PlaceInv, PlaceOK, PlaceAt
<1>3. ASSUME NEW u \in Sessions, u # s PROVE ~Sharer(u)'
  BY <1>1, <1>3, OneSharer DEF Around
<1>4. ASSUME NEW t \in Sessions, slot' # None, group'[t] = slot', nodeFile'[t] # None,
             pc'[t] # "write"
      PROVE  nodeFile'[t] = binName'
  <2>1. pc[t] # "write" /\ nodeFile'[t] = nodeFile[t]
    BY <1>1, <1>4 DEF Around
  <2> QED
    BY <2>1, <1>1, <1>4 DEF NamingInv
<1>5. ASSUME Sharer(s)' PROVE NameOK(s)'
  <2>1. UsesSharedManager(s) /\ Config(s)' = Config(s)
    BY <1>5 DEF Sharer, Around
  <2>2. Config(s).share
    BY <2>1, <1>2 DEF UsesSharedManager, IsLoad
  <2>3. Busy(s)
    BY <1>1, SMTT(20) DEF Busy, Written
  <2>4. NameOK(s)
    BY <2>1, <2>3 DEF NamingInv, Sharer
  <2>5. pc'[s] \notin {"handover", "offer"} /\ pc'[s] \notin {"constructed", "stopping"}
    BY <1>1, SMTT(20)
  <2> QED
    BY <2>1, <2>2, <2>4, <2>5, <1>1 DEF NameOK
<1> QED
  BY <1>3, <1>4, <1>5 DEF NamingInv

\* Who writes: no other session shares, the slot is empty if the session ends
\* its group, and it is not the session's if that shares nothing.
LEMMA WriterAlone ==
    ASSUME OwnerInv, SerialInv, MembersInv, FoundersInv, NamingInv, NEW s \in Sessions,
           Around(s), pc[s] \in {"write", "handover", "offer"}
    PROVE  /\ ~IsLoad(s) /\ nodeFile[s] # None /\ Busy(s)
           /\ \A u \in Sessions : u # s => ~Sharer(u) /\ ~Sharer(u)'
           /\ Config(s).share => Sharer(s) /\ NameOK(s)
           /\ ~Config(s).share => slot = None \/ group[s] # slot
           /\ group[s] = manager[s] /\ group[s] \in Sessions
<1>1. pc[s] \in {"compose"} \cup Written /\ pc[s] \notin {"new", "failed", "gone"}
  BY SMTT(20) DEF Written
<1>2. ~IsLoad(s) /\ manager[s] # None
  BY <1>1 DEF OwnerInv, PlaceInv, PlaceOK, PlaceAt
<1>3. Busy(s)
  BY SMTT(20) DEF Busy
<1>4. \A u \in Sessions : u # s => ~Sharer(u) /\ ~Sharer(u)'
  BY <1>1, OneSharer DEF Around
<1>5. Config(s).share => Sharer(s) /\ NameOK(s)
  BY <1>2, <1>3 DEF Sharer, UsesSharedManager, IsLoad, NamingInv
<1>6. nodeFile[s] # None /\ group[s] = manager[s]
  BY <1>1 DEF MembersInv, MemberOK
<1>7. group[s] \in Sessions
  BY <1>2, <1>6 DEF Around
<1>8. ASSUME ~Config(s).share, slot # None PROVE group[s] # slot
  <2>1. ~UsesSharedManager(s)
    BY <1>2, <1>8, SMTT(20) DEF UsesSharedManager, IsLoad
  <2>2. group[s] = s
    BY <2>1, <1>2, <1>6 DEF FoundersInv
  <2> QED
    BY <2>1, <2>2, <1>8 DEF FoundersInv
<1> QED
  BY <1>2, <1>3, <1>4, <1>5, <1>6, <1>7, <1>8

\* The first session of a group that writes gives the file its name, the last
\* one takes it away.
LEMMA NamingWrites ==
    ASSUME OwnerInv, SerialInv, Grouped, MembersInv, FoundersInv, NamingInv,
           NEW s \in Sessions, Around(s), Writes(s) \/ Misses(s)
    PROVE  NamingInv'
<1>1. /\ slot' = slot /\ group' = group /\ nodeFile' = nodeFile /\ pc[s] = "write"
      /\ pc'[s] # "write"
  BY SMTT(20) DEF Writes, Misses
<1>2. /\ ~IsLoad(s) /\ nodeFile[s] # None /\ Busy(s)
      /\ \A u \in Sessions : u # s => ~Sharer(u) /\ ~Sharer(u)'
      /\ Config(s).share => Sharer(s) /\ NameOK(s)
      /\ ~Config(s).share => slot = None \/ group[s] # slot
  BY <1>1, WriterAlone
<1>3. Config(s)' = Config(s)
  BY DEF Around
<1>4. CASE Config(s).share /\ ~Config(s).stop
  <2>1. pc'[s] = "handover" /\ binName' = IF nodeFile[s] = s THEN s ELSE binName
    BY <1>4 DEF Writes, Misses
  <2>2. /\ \A t \in Sessions : t # s /\ group[t] = group[s] /\ nodeFile[t] # None =>
             nodeFile[t] = binName
        /\ slot \in {None, group[s]}
        /\ slot = None => \A t \in Sessions : t # s => group[t] # group[s]
        /\ nodeFile[s] = IF binName # None THEN binName ELSE s
    BY <1>1, <1>2, <1>4 DEF NameOK
  <2>3. nodeFile[s] = binName'
    BY <2>1, <2>2
  <2>4. \A t \in Sessions : group[t] = group[s] /\ nodeFile[t] # None =>
          nodeFile[t] = binName'
    BY <2>1, <2>2, <2>3
  <2>5. \A t \in Sessions : slot # None /\ group[t] = slot /\ nodeFile[t] # None =>
          nodeFile[t] = binName'
    BY <2>2, <2>4
  <2>6. NameOK(s)'
    <3>1. pc'[s] \notin {"constructed", "stopping", "write"}
      BY <2>1, SMTT(20)
    <3> QED
      BY <3>1, <2>2, <2>3, <2>4, <1>1, <1>3, <1>4 DEF NameOK
  <2> QED
    BY <2>5, <2>6, <1>1, <1>2 DEF NamingInv
<1>5. CASE ~(Config(s).share /\ ~Config(s).stop)
  <2>1. pc'[s] \in {"ready", "failed"}
    BY <1>5 DEF Writes, Misses
  <2>2. ~Sharer(s)'
    BY <2>1, SMTT(20) DEF Sharer, Busy
  <2>3. CASE slot = None
    BY <2>2, <2>3, <1>1, <1>2 DEF NamingInv
  <2>4. CASE slot # None
    <3>1. ~Config(s).share
      <4>1. pc[s] \notin {"constructed", "stopping"}
        BY <1>1, SMTT(20)
      <4> QED
        BY <4>1, <2>4, <1>2, <1>5 DEF NameOK
    <3>2. binName' = binName
      BY <3>1 DEF Writes, Misses
    <3>3. \A t \in Sessions : group[t] = slot => t # s /\ (pc'[t] = "write" <=> pc[t] = "write")
      BY <3>1, <2>4, <1>2 DEF Around
    <3>4. \A t \in Sessions :
            group[t] = slot /\ nodeFile[t] # None /\ pc[t] # "write" => nodeFile[t] = binName
      BY <2>4 DEF NamingInv
    <3> QED
      BY <2>2, <3>2, <3>3, <3>4, <1>1, <1>2 DEF NamingInv
  <2> QED
    BY <2>3, <2>4
<1> QED
  BY <1>4, <1>5

\* The manager that is handed over is that of the group of the file.
LEMMA NamingHands ==
    ASSUME OwnerInv, SerialInv, MembersInv, FoundersInv, NamingInv,
           NEW s \in Sessions, Around(s), Hands(s)
    PROVE  NamingInv'
<1>1. /\ group' = group /\ nodeFile' = nodeFile /\ binName' = binName
      /\ pc[s] \in {"handover", "offer"} /\ pc[s] \in {"write", "handover", "offer"}
  BY DEF Hands, SameFiles
<1>2. Config(s).share /\ nodeFile[s] = binName /\ Config(s)' = Config(s)
  BY <1>1, WriterAlone DEF MembersInv, MemberOK, Around, NameOK
<1>3. /\ \A u \in Sessions : u # s => ~Sharer(u)'
      /\ NameOK(s) /\ group[s] = manager[s]
  BY <1>1, <1>2, WriterAlone
<1>4. CASE pc'[s] = "offer" /\ slot' = slot
  <2>1. pc[s] \notin {"constructed", "stopping", "write"}
        /\ pc'[s] \notin {"constructed", "stopping", "write"}
    BY <1>1, <1>4, SMTT(20)
  <2>2. NameOK(s)'
    BY <2>1, <1>1, <1>2, <1>3, <1>4 DEF NameOK
  <2>3. \A t \in Sessions : pc'[t] # "write" => pc[t] # "write"
    BY <2>1 DEF Around
  <2> QED
    BY <2>2, <2>3, <1>1, <1>3, <1>4 DEF NamingInv
<1>5. CASE pc'[s] \in {"ready", "failed"}
  <2>1. ~Sharer(s)'
    BY <1>5, SMTT(20) DEF Sharer, Busy
  <2>2. slot' = group[s]
    BY <1>3, <1>5 DEF NameOK, Hands
  <2>3. \A t \in Sessions : group[t] = group[s] /\ nodeFile[t] # None => nodeFile[t] = binName
    BY <1>2, <1>3 DEF NameOK
  <2> QED
    BY <2>1, <2>2, <2>3, <1>1, <1>3 DEF NamingInv
<1> QED
  BY <1>4, <1>5 DEF Hands

\* Every step keeps NamingInv.
LEMMA NamingStep ==
    ASSUME SharingRules, OwnerInv, SerialInv, Grouped, FilesOK, MembersInv, FoundersInv,
           NamingInv, NEW s \in Sessions, StepOf(s)
    PROVE  NamingInv'
BY StepAround, GroupEffect, NamingJoins, NamingPlainly, NamingStops, NamingReads,
   NamingWrites, NamingHands

-----------------------------------------------------------------------------
\* What a step of session s must not do to the group that session r closed.
Spares(s, r) ==
    /\ binName' # nodeFile[r] /\ slot' # group[r]
    /\ files'[nodeFile[r]] = files[nodeFile[r]]
    /\ Busy(s)' => group'[s] # group[r] /\ nodeFile'[s] # nodeFile[r]
    /\ group'[s] = group[r] =>
         /\ group[s] = group[r] /\ nodeFile'[s] = nodeFile[s]
         /\ pc'[s] = "ready" => IsLoad(s)

\* A group that is spared stays closed.
LEMMA ClosedKept ==
    ASSUME NEW s \in Sessions, NEW r \in Sessions, r # s, Around(s), ClosedOK(r),
           Spares(s, r)
    PROVE  ClosedOK(r)'
<1>1. /\ nodeFile'[r] = nodeFile[r] /\ group'[r] = group[r]
      /\ \A t \in Sessions : t # s =>
           /\ pc'[t] = pc[t] /\ group'[t] = group[t] /\ nodeFile'[t] = nodeFile[t]
           /\ Busy(t)' = Busy(t)
      /\ \A t : IsLoad(t)' = IsLoad(t) /\ Nodes(t)' = Nodes(t)
  BY DEF Around
<1>2. \A t \in Sessions : Busy(t)' => group'[t] # group[r] /\ nodeFile'[t] # nodeFile[r]
  BY <1>1 DEF Spares, ClosedOK
<1>3. ASSUME NEW t \in Sessions, group'[t] = group[r]
      PROVE  /\ nodeFile'[t] # None => nodeFile'[t] = nodeFile[r]
             /\ ~IsLoad(t) /\ pc'[t] = "ready" =>
                  Range(Nodes(t)) \subseteq files'[nodeFile[r]]
  <2>1. CASE t = s
    BY <2>1, <1>3 DEF Spares, ClosedOK
  <2>2. CASE t # s
    BY <2>2, <1>1, <1>3 DEF Spares, ClosedOK
  <2> QED
    BY <2>1, <2>2
<1> QED
  BY <1>1, <1>2, <1>3 DEF Spares, ClosedOK

\* No step touches a closed group: the sessions that are being created have
\* other groups and other files.
LEMMA ClosedSpared ==
    ASSUME OwnerInv, SerialInv, Grouped, FilesOK, MembersInv, FoundersInv, NamingInv,
           NEW s \in Sessions, StepOf(s), NEW r \in Sessions, r # s, Closer(r), ClosedOK(r)
    PROVE  Spares(s, r)
<1>0. Around(s)
  BY StepAround
<1>1. /\ nodeFile[r] # None /\ group[r] # None /\ nodeFile[r] \in Sessions
      /\ group[group[r]] = group[r] /\ nodeFile[nodeFile[r]] # None /\ s # None
  <2>1. pc[r] = "ready" /\ ~IsLoad(r)
    BY DEF Closer
  <2>2. pc[r] \notin {"new", "failed", "gone"}
    BY <2>1, SMTT(20)
  <2>3. nodeFile[r] # None /\ group[r] = manager[r] /\ manager[r] # None
    BY <2>1, <2>2 DEF MembersInv, MemberOK, OwnerInv, PlaceInv, PlaceOK, PlaceAt
  <2> QED
    BY <2>3, <1>0 DEF FoundersInv, Around
<1>2. /\ binName # nodeFile[r] /\ slot # group[r]
      /\ Busy(s) => group[s] # group[r] /\ nodeFile[s] # nodeFile[r]
  BY DEF ClosedOK
<1>3. MemberOK(s)
  BY DEF MembersInv
<1>4. CASE Joins(s)
  <2>1. /\ binName' = binName /\ slot' = slot /\ files' = files
        /\ nodeFile[s] = None /\ nodeFile' = nodeFile /\ group[s] = None
        /\ group'[s] = IF UsesSharedManager(s) /\ slot # None THEN slot ELSE s
    BY <1>3, <1>4, SMTT(20) DEF Joins, MemberOK, Over
  <2>2. group'[s] # group[r]
    BY <2>1, <1>1, <1>2
  <2> QED
    BY <2>1, <2>2, <1>1, <1>2 DEF Spares
<1>5. CASE Plainly(s)
  <2>1. /\ binName' = binName /\ files' = files /\ nodeFile' = nodeFile /\ group' = group
        /\ pc'[s] = "ready" => IsLoad(s)
    BY <1>5 DEF Plainly, SameFiles
  <2>2. Busy(s)' => Busy(s)
    <3>1. Busy(s)' => pc'[s] \notin {"failed", "gone"}
      BY DEF Busy
    <3> QED
      BY <3>1, <1>5 DEF Plainly
  <2>3. slot' # group[r]
    <3>1. CASE slot' = slot
      BY <3>1, <1>2
    <3>2. CASE slot' # slot
      <4>1. slot' = s /\ manager[s] = s /\ pc[s] = "constructed"
        BY <3>2, <1>5 DEF Plainly
      <4>2. Busy(s) /\ group[s] = s
        BY <4>1, <1>3, SMTT(20) DEF Busy, MemberOK
      <4> QED
        BY <4>1, <4>2, <1>2
    <3> QED
      BY <3>1, <3>2
  <2> QED
    BY <2>1, <2>2, <2>3, <1>2 DEF Spares
<1>6. ASSUME pc[s] \in {"stopping", "compose", "serialize", "write", "handover", "offer"}
      PROVE  /\ Busy(s) /\ group[s] # group[r] /\ nodeFile[s] # nodeFile[r]
             /\ group[s] = manager[s]
  <2>1. Busy(s) /\ pc[s] \notin {"new", "failed", "gone"}
    BY <1>6, SMTT(20) DEF Busy
  <2> QED
    BY <2>1, <1>2, <1>3 DEF MemberOK
<1>7. CASE Stops(s) \/ Composes(s) \/ Hands(s)
  <2>1. /\ binName' = binName /\ files' = files /\ nodeFile' = nodeFile /\ group' = group
        /\ slot' \in {None, slot, manager[s]}
        /\ pc[s] \in {"stopping", "compose", "serialize", "write", "handover", "offer"}
    BY <1>7 DEF Stops, Composes, Hands, SameFiles
  <2> QED
    BY <2>1, <1>1, <1>2, <1>6 DEF Spares
<1>8. CASE Reads(s)
  <2>1. /\ binName' = binName /\ files' = files /\ group' = group /\ slot' = slot
        /\ pc[s] = "serialize" /\ nodeFile'[s] \in {binName, s}
    BY <1>8 DEF Reads
  <2>2. nodeFile[s] = None
    BY <2>1, <1>3, SMTT(20) DEF MemberOK, Over
  <2>3. nodeFile'[s] # nodeFile[r]
    BY <2>1, <2>2, <1>1, <1>2
  <2> QED
    BY <2>1, <2>3, <1>2, <1>6 DEF Spares
<1>9. CASE Writes(s) \/ Misses(s)
  <2>1. /\ pc[s] = "write" /\ group' = group /\ slot' = slot /\ nodeFile' = nodeFile
        /\ binName' \in {None, binName} \/ binName' = nodeFile[s]
        /\ files' = files \/ files' = [files EXCEPT ![nodeFile[s]] = buffer[s]]
    BY <1>9 DEF Writes, Misses
  <2>2. group[s] # group[r] /\ nodeFile[s] # nodeFile[r]
    BY <2>1, <1>6
  <2>3. files'[nodeFile[r]] = files[nodeFile[r]]
    BY <2>1, <2>2, <1>1 DEF FilesOK
  <2> QED
    BY <2>1, <2>2, <2>3, <1>1, <1>2 DEF Spares
<1> QED
  BY <1>4, <1>5, <1>7, <1>8, <1>9, GroupEffect

\* A session that ends its group writes the graphs of all that are ready, and
\* leaves neither the name of the file nor a manager behind.
LEMMA Closes ==
    ASSUME OwnerInv, SerialInv, ManagerInv, Grouped, FilesOK, MembersInv, FoundersInv,
           BufferInv, NamingInv, NEW s \in Sessions, Around(s), Writes(s), Config(s).stop
    PROVE  ClosedOK(s)'
<1>1. ~IsLoad(s) /\ Config(s).share
  BY DEF Grouped
<1>2. /\ pc[s] = "write" /\ pc'[s] = "ready" /\ slot' = slot /\ group' = group
      /\ nodeFile' = nodeFile /\ files' = [files EXCEPT ![nodeFile[s]] = buffer[s]]
      /\ binName' = None
  BY <1>1 DEF Writes
<1>3. /\ nodeFile[s] # None /\ Sharer(s) /\ NameOK(s) /\ Busy(s)
      /\ group[s] = manager[s] /\ group[s] \in Sessions /\ None \notin Sessions
  BY <1>1, <1>2, WriterAlone DEF Around
<1>4. slot = None
  <2>1. pc[s] \notin {"constructed", "stopping"}
    BY <1>2, SMTT(20)
  <2> QED
    BY <2>1, <1>3 DEF NameOK
<1>5. ASSUME NEW t \in Sessions, Busy(t)' PROVE group[t] # group[s] /\ nodeFile[t] # nodeFile[s]
  <2>1. ~Busy(s)'
    BY <1>2, SMTT(20) DEF Busy
  <2>2. t # s /\ Busy(t)
    BY <2>1, <1>5 DEF Around
  <2>3. pc[t] \notin {"new", "failed", "gone"} /\ pc[t] \notin Over
    BY <2>2, SMTT(20) DEF Busy, Over
  <2>4. group[t] = manager[t]
    BY <2>3 DEF MembersInv, MemberOK
  <2>5. group[t] # group[s]
    BY <2>2, <2>4, <1>3, Exclusive
  <2>6. pc[t] \notin Written
    BY <2>2, <1>3, OneSharer
  <2>7. nodeFile[t] = None
    BY <2>3, <2>6 DEF MembersInv, MemberOK, Written
  <2> QED
    BY <2>5, <2>7, <1>3
<1>6. ASSUME NEW t \in Sessions, group[t] = group[s]
      PROVE  /\ nodeFile[t] # None => nodeFile[t] = nodeFile[s]
             /\ ~IsLoad(t) /\ pc'[t] = "ready" => Range(Nodes(t)) \subseteq buffer[s]
  <2>1. nodeFile[t] # None => nodeFile[t] = nodeFile[s]
    BY <1>2, <1>3, <1>6 DEF NameOK
  <2>2. pc'[t] = "ready" => pc[t] \in {"write", "ready"}
    BY <1>2 DEF Around
  <2> QED
    BY <2>1, <2>2, <1>2, <1>6 DEF BufferInv
<1>7. files'[nodeFile[s]] = buffer[s]
  BY <1>2, <1>3 DEF FilesOK
<1>8. \A t : IsLoad(t)' = IsLoad(t) /\ Nodes(t)' = Nodes(t)
  BY DEF Around
<1> QED
  BY <1>2, <1>3, <1>4, <1>5, <1>6, <1>7, <1>8 DEF ClosedOK

\* Every step keeps ClosedInv.
LEMMA ClosedStep ==
    ASSUME OwnerInv, SerialInv, ManagerInv, Grouped, FilesOK, MembersInv, FoundersInv,
           BufferInv, NamingInv, ClosedInv, NEW s \in Sessions, StepOf(s)
    PROVE  ClosedInv'
<1>0. Around(s)
  BY StepAround
<1> SUFFICES ASSUME NEW r \in Sessions, Closer(r)' PROVE ClosedOK(r)'
  BY DEF ClosedInv
<1>1. ~IsLoad(r) /\ Config(r).stop /\ pc'[r] = "ready"
  BY <1>0 DEF Closer, Around
<1>2. CASE r # s
  <2>1. Closer(r)
    BY <1>0, <1>1, <1>2 DEF Closer, Around
  <2>2. ClosedOK(r)
    BY <2>1 DEF ClosedInv
  <2> QED
    BY <2>1, <2>2, <1>0, <1>2, ClosedSpared, ClosedKept
<1>3. CASE r = s
  <2>1. pc[s] \in {"handover", "offer"} => ~Config(s).stop
    BY DEF MembersInv, MemberOK
  <2>2. Writes(s)
    BY <2>1, <1>1, <1>3, GroupEffect, SMTT(20) DEF Joins, Plainly, Stops, Composes, Reads,
      Misses, Hands
  <2> QED
    BY <2>2, <1>0, <1>1, <1>3, Closes
<1> QED
  BY <1>2, <1>3

-----------------------------------------------------------------------------
\* No session has failed after a step only if none had before.
LEMMA NoneFailedBefore ==
    ASSUME OwnerInv, FilesOK, NEW s \in Sessions, StepOf(s), NoneFailed'
    PROVE  NoneFailed
<1>1. pc'[s] \notin {"failed", "gone"} /\ \A t \in Sessions : t # s => pc'[t] = pc[t]
  BY OthersStay DEF NoneFailed
<1>2. pc[s] \notin {"failed", "gone"}
  BY <1>1, GroupEffect, SMTT(20) DEF Joins, Plainly, Stops, Composes, Reads, Writes, Misses,
    Hands, Busy
<1> QED
  BY <1>1, <1>2, OthersStay DEF NoneFailed

\* A session that names a file and has not failed has a group.
LEMMA NamersHaveGroups ==
    ASSUME OwnerInv, MembersInv, NoneFailed, NEW t \in Sessions, nodeFile[t] # None
    PROVE  group[t] # None
<1>1. pc[t] \in {"write", "handover", "offer", "ready"}
  BY SMTT(20) DEF MembersInv, MemberOK, NoneFailed, Over
<1>2. pc[t] \notin {"new", "failed", "gone"}
  BY <1>1, SMTT(20)
<1> QED
  BY <1>2 DEF MembersInv, MemberOK, OwnerInv, PlaceInv, PlaceOK, PlaceAt

\* A session that starts while a file is named comes to the group of the file.
LEMMA AgreeJoins ==
    ASSUME SharingRules, OwnerInv, MembersInv, FoundersInv, NoneFailed, AgreeInv,
           NEW s \in Sessions, Around(s), Joins(s)
    PROVE  AgreeInv'
<1>1. /\ nodeFile[s] = None /\ nodeFile' = nodeFile /\ slot' = slot /\ binName' = binName
      /\ group'[s] = IF UsesSharedManager(s) /\ slot # None THEN slot ELSE s
      /\ pc[s] = "new"
  BY SMTT(20) DEF Joins, MembersInv, MemberOK, Over
<1>2. ~Sharer(s)
  BY <1>1 DEF Sharer, Busy
<1>3. OneGroup'
  <2>1. \A t \in Sessions : nodeFile[t] # None => group'[t] = group[t]
    BY <1>1 DEF Around
  <2> QED
    BY <2>1, <1>1 DEF AgreeInv, OneGroup
<1>4. ASSUME NEW t \in Sessions, binName' # None, nodeFile'[t] = binName'
      PROVE  Current(t)'
  <2>1. t # s /\ group'[t] = group[t] /\ Current(t)
    BY <1>1, <1>4 DEF AgreeInv, Around
  <2>2. group[t] # None
    BY <1>1, <1>4, NamersHaveGroups
  <2>3. CASE UsesSharedManager(s)
    <3>1. \A u \in Sessions : u # s => ~Sharer(u) /\ ~Sharer(u)'
      BY <2>3, NoSharer DEF Joins, Around
    <3>2. slot = group[t]
      BY <3>1, <2>1, <1>2 DEF Current
    <3>3. group'[s] = slot
      BY <3>2, <2>2, <2>3, <1>1
    <3> QED
      BY <3>1, <3>2, <3>3, <2>1, <1>1 DEF Current
  <2>4. CASE ~UsesSharedManager(s)
    <3>1. ~Sharer(s)'
      BY <2>4 DEF Sharer, Around
    <3>2. \A u \in Sessions : Sharer(u)' <=> Sharer(u)
      BY <3>1, <1>2 DEF Around
    <3>3. \A u \in Sessions : Sharer(u) => group'[u] = group[u]
      BY <1>2 DEF Around
    <3> QED
      BY <3>2, <3>3, <2>1, <1>1 DEF Current
  <2> QED
    BY <2>3, <2>4
<1> QED
  BY <1>3, <1>4 DEF AgreeInv

\* Other steps keep the current group.
LEMMA AgreePlainly ==
    ASSUME OwnerInv, Grouped, MembersInv, NamingInv, NoneFailed, NoneFailed', AgreeInv,
           NEW s \in Sessions, Around(s), Plainly(s)
    PROVE  AgreeInv'
<1>1. nodeFile' = nodeFile /\ group' = group /\ binName' = binName
  BY DEF Plainly, SameFiles
<1>2. Busy(s) /\ pc'[s] \notin {"failed", "gone"}
  BY DEF Plainly, NoneFailed
<1>3. OneGroup'
  BY <1>1 DEF AgreeInv, OneGroup
<1>4. ASSUME NEW t \in Sessions, binName' # None, nodeFile'[t] = binName'
      PROVE  Current(t)'
  <2>1. Current(t) /\ group[t] # None
    BY <1>1, <1>4, NamersHaveGroups DEF AgreeInv
  <2>2. \A u \in Sessions : Sharer(u)' => Sharer(u)
    BY <1>2 DEF Around, Sharer
  <2>3. slot' # slot => slot = None /\ Busy(s)'
    <3>1. slot' # slot => slot = None /\ pc'[s] \in {"stopping", "built"}
      BY DEF Plainly
    <3>2. pc'[s] \in {"stopping", "built"} => Busy(s)'
      BY SMTT(20) DEF Busy
    <3> QED
      BY <3>1, <3>2
  <2>4. CASE slot = group[t]
    BY <2>1, <2>2, <2>3, <2>4, <1>1 DEF Current
  <2>5. CASE slot # group[t]
    <3>1. PICK u \in Sessions : Sharer(u) /\ group[t] = group[u]
      BY <2>1, <2>5 DEF Current
    <3>2. CASE u # s \/ Busy(s)'
      <4>1. Sharer(u)'
        BY <3>1, <3>2 DEF Around, Sharer
      <4> QED
        BY <4>1, <3>1, <2>1, <2>2, <1>1 DEF Current
    <3>3. CASE u = s /\ ~Busy(s)'
      <4>1. IsLoad(s)
        BY <3>3, <1>2 DEF Plainly
      <4>2. ~Config(s).stop /\ nodeFile[s] = None
        BY <4>1 DEF Grouped, MembersInv, MemberOK
      <4>3. NameOK(s) /\ t # s
        BY <3>1, <3>3, <4>2, <1>1, <1>4 DEF NamingInv
      <4> QED
        BY <4>2, <4>3, <3>1, <3>3, <2>5 DEF NameOK
    <3> QED
      BY <3>2, <3>3
  <2> QED
    BY <2>4, <2>5
<1> QED
  BY <1>3, <1>4 DEF AgreeInv

\* Stopping, compiling and handing over: the session is of the current group.
LEMMA AgreeHands ==
    ASSUME OwnerInv, SerialInv, Grouped, MembersInv, FoundersInv, NamingInv, NoneFailed,
           AgreeInv, NEW s \in Sessions, Around(s), Stops(s) \/ Composes(s) \/ Hands(s)
    PROVE  AgreeInv'
<1>1. nodeFile' = nodeFile /\ group' = group /\ binName' = binName
  BY DEF Stops, Composes, Hands, SameFiles
<1>3. OneGroup'
  BY <1>1 DEF AgreeInv, OneGroup
<1>4. ASSUME NEW t \in Sessions, binName' # None, nodeFile'[t] = binName'
      PROVE  Current(t)'
  <2>1. Current(t) /\ group[t] # None
    BY <1>1, <1>4, NamersHaveGroups DEF AgreeInv
  <2>2. CASE Composes(s)
    <3>1. slot' = slot /\ Busy(s) /\ Busy(s)'
      BY <2>2, SMTT(20) DEF Composes, Busy
    <3>2. \A u \in Sessions : Sharer(u)' <=> Sharer(u)
      BY <3>1 DEF Around, Sharer
    <3> QED
      BY <3>1, <3>2, <2>1, <1>1 DEF Current
  <2>3. CASE Stops(s)
    <3>1. Busy(s) /\ Busy(s)' /\ Config(s).stop
      BY <2>3, SMTT(20) DEF Stops, Busy, MembersInv, MemberOK
    <3>2. Sharer(s) /\ Sharer(s)'
      BY <3>1 DEF Around, Sharer, Grouped, UsesSharedManager, IsLoad
    <3>3. \A u \in Sessions : Sharer(u)' => Sharer(u)
      BY <3>2 DEF Around
    <3> QED
      BY <3>2, <3>3, <2>1, <1>1 DEF Current
  <2>4. CASE Hands(s)
    <3>1. pc[s] \in {"write", "handover", "offer"} /\ Config(s).share
      BY <2>4 DEF Hands, MembersInv, MemberOK
    <3>2. /\ Sharer(s) /\ NameOK(s) /\ group[s] = manager[s]
          /\ \A u \in Sessions : u # s => ~Sharer(u)'
      BY <3>1, WriterAlone
    <3>3. group[t] = group[s]
      BY <3>2, <2>1 DEF Current
    <3>4. CASE pc'[s] = "offer" /\ slot' = slot
      <4>1. Busy(s)'
        BY <3>4, SMTT(20) DEF Busy
      <4>2. Sharer(s)'
        BY <4>1, <3>2 DEF Sharer, Around
      <4> QED
        BY <4>2, <3>2, <3>3, <1>1 DEF Current
    <3>5. CASE pc'[s] \in {"ready", "failed"}
      <4>1. ~Sharer(s)'
        BY <3>5, SMTT(20) DEF Sharer, Busy
      <4>2. slot' = group[s]
        BY <3>2, <3>5, <2>4 DEF Hands, NameOK
      <4> QED
        BY <4>1, <4>2, <3>2, <3>3, <1>1 DEF Current
    <3> QED
      BY <3>4, <3>5, <2>4 DEF Hands
  <2> QED
    BY <2>2, <2>3, <2>4
<1> QED
  BY <1>3, <1>4 DEF AgreeInv

\* The file that a session reads the name of is that of its group.
LEMMA AgreeReads ==
    ASSUME OwnerInv, SerialInv, MembersInv, FoundersInv, NoneFailed, AgreeInv,
           NEW s \in Sessions, Around(s), Reads(s)
    PROVE  AgreeInv'
<1>1. /\ group' = group /\ binName' = binName /\ slot' = slot
      /\ nodeFile'[s] = IF Config(s).share /\ binName # None THEN binName ELSE s
      /\ pc[s] = "serialize" /\ pc'[s] = "write"
  BY DEF Reads
<1>2. /\ nodeFile[s] = None /\ Busy(s) /\ Busy(s)' /\ s # None
      /\ pc[s] \in {"compose"} \cup Written
  BY <1>1, SMTT(20) DEF MembersInv, MemberOK, Over, Busy, Around, Written
<1>3. ~IsLoad(s)
  BY <1>2 DEF OwnerInv, PlaceInv, PlaceOK, PlaceAt
<1>4. \A u \in Sessions : Sharer(u)' <=> Sharer(u)
  BY <1>2 DEF Around, Sharer
<1>5. \A u \in Sessions : Sharer(u) => u = s
  BY <1>2, OneSharer
<1>6. Config(s).share => Sharer(s)
  BY <1>2, <1>3 DEF Sharer, UsesSharedManager, IsLoad
<1>7. binName # s /\ \A t \in Sessions : nodeFile[t] # s
  BY <1>2 DEF FoundersInv
<1>8. \A t \in Sessions : t # s => nodeFile'[t] = nodeFile[t]
  BY DEF Around
<1>9. ASSUME NEW t \in Sessions, t # s, nodeFile[t] = nodeFile'[s] PROVE group[t] = group[s]
  <2>1. Config(s).share /\ binName # None /\ nodeFile[t] = binName
    BY <1>1, <1>7, <1>9
  <2> QED
    BY <2>1, <1>6 DEF AgreeInv, Current
<1>10. OneGroup'
  <2> SUFFICES ASSUME NEW r \in Sessions, NEW t \in Sessions, nodeFile'[r] # None,
                      nodeFile'[r] = nodeFile'[t]
               PROVE  group[r] = group[t]
    BY <1>1 DEF OneGroup
  <2>1. CASE r = s \/ t = s
    BY <2>1, <1>8, <1>9
  <2>2. CASE r # s /\ t # s
    BY <2>2, <1>8 DEF AgreeInv, OneGroup
  <2> QED
    BY <2>1, <2>2
<1>11. ASSUME NEW t \in Sessions, binName' # None, nodeFile'[t] = binName'
       PROVE  Current(t)'
  <2>1. CASE t = s
    <3>1. Sharer(s)
      BY <2>1, <1>1, <1>6, <1>7, <1>11
    <3> QED
      BY <3>1, <2>1, <1>1, <1>4, <1>5 DEF Current
  <2>2. CASE t # s
    <3>1. Current(t)
      BY <2>2, <1>1, <1>8, <1>11 DEF AgreeInv
    <3> QED
      BY <3>1, <1>1, <1>4 DEF Current
  <2> QED
    BY <2>1, <2>2
<1> QED
  BY <1>10, <1>11 DEF AgreeInv

\* A file is named by the session that is created.
LEMMA AgreeWrites ==
    ASSUME OwnerInv, SerialInv, MembersInv, FoundersInv, NamingInv, NamingInv',
           NoneFailed, AgreeInv, NEW s \in Sessions, Around(s), Writes(s)
    PROVE  AgreeInv'
<1>1. nodeFile' = nodeFile /\ group' = group /\ slot' = slot /\ pc[s] = "write"
  BY DEF Writes
<1>2. /\ ~IsLoad(s) /\ nodeFile[s] # None
      /\ \A u \in Sessions : u # s => ~Sharer(u) /\ ~Sharer(u)'
      /\ Config(s).share => Sharer(s) /\ NameOK(s)
  BY <1>1, WriterAlone
<1>3. OneGroup'
  BY <1>1 DEF AgreeInv, OneGroup
<1>4. ASSUME NEW t \in Sessions, binName' # None, nodeFile'[t] = binName'
      PROVE  Current(t)'
  <2>1. CASE Config(s).share
    <3>1. pc'[s] = "handover"
      BY <2>1, <1>4 DEF Writes
    <3>2. Sharer(s)'
      <4>1. Busy(s)'
        BY <3>1, SMTT(20) DEF Busy
      <4> QED
        BY <4>1, <2>1, <1>2 DEF Sharer, Around
    <3>3. NameOK(s)'
      BY <3>2 DEF NamingInv
    <3>4. nodeFile[s] = binName'
      BY <3>1, <3>3, <1>1 DEF NameOK
    <3>5. group[t] = group[s]
      BY <3>4, <1>1, <1>2, <1>4 DEF AgreeInv, OneGroup
    <3> QED
      BY <3>2, <3>5, <1>1, <1>2 DEF Current
  <2>2. CASE ~Config(s).share
    <3>1. binName' = binName
      BY <2>2 DEF Writes
    <3>2. ~UsesSharedManager(s)
      BY <2>2, <1>2, SMTT(20) DEF UsesSharedManager, IsLoad
    <3>3. ~Sharer(s) /\ ~Sharer(s)'
      BY <3>2 DEF Sharer, Around
    <3>4. Current(t)
      BY <3>1, <1>1, <1>4 DEF AgreeInv
    <3> QED
      BY <3>3, <3>4, <1>1, <1>2 DEF Current
  <2> QED
    BY <2>1, <2>2
<1> QED
  BY <1>3, <1>4 DEF AgreeInv

\* Every step after which no session has failed keeps AgreeInv.
LEMMA AgreeStep ==
    ASSUME SharingRules, OwnerInv, SerialInv, Grouped, FilesOK, MembersInv, FoundersInv,
           NamingInv, NamingInv', NoneFailed => AgreeInv, NoneFailed',
           NEW s \in Sessions, StepOf(s)
    PROVE  AgreeInv'
<1>1. Around(s) /\ NoneFailed
  BY StepAround, NoneFailedBefore
<1>2. ~Misses(s)
  BY DEF Misses, NoneFailed
<1> QED
  BY <1>1, <1>2, GroupEffect, AgreeJoins, AgreePlainly, AgreeHands, AgreeReads,
     AgreeWrites

-----------------------------------------------------------------------------
\* Every step keeps the invariant.
LEMMA GroupStepOf ==
    ASSUME SharingRules, OwnerInv, SerialInv, ManagerInv, UpInv, GroupInv,
           NEW s \in Sessions, StepOf(s)
    PROVE  GroupInv'
<1>1. Grouped' => Grouped
  <2>1. config' = config
    BY Elsewhere
  <2> QED
    BY <2>1 DEF Grouped, Config, IsLoad
<1>2. FilesOK /\ MembersInv /\ FoundersInv /\ CompiledInv /\ BufferInv
  BY DEF GroupInv
<1>3. FilesOK'
  BY <1>2, FilesStep
<1>4. MembersInv'
  BY <1>2, MembersStep
<1>5. FoundersInv'
  BY <1>2, FoundersStep
<1>6. CompiledInv'
  BY <1>2, CompiledStep
<1>7. BufferInv'
  BY <1>2, BufferStep
<1>8. ASSUME Grouped PROVE NamingInv' /\ ClosedInv' /\ (NoneFailed' => AgreeInv')
  <2>1. NamingInv /\ ClosedInv /\ (NoneFailed => AgreeInv)
    BY <1>8 DEF GroupInv
  <2>2. NamingInv'
    BY <2>1, <1>2, <1>8, NamingStep
  <2>3. ClosedInv'
    BY <2>1, <1>2, <1>8, ClosedStep
  <2>4. NoneFailed' => AgreeInv'
    BY <2>1, <2>2, <1>2, <1>8, AgreeStep
  <2> QED
    BY <2>2, <2>3, <2>4
<1> QED
  BY <1>1, <1>3, <1>4, <1>5, <1>6, <1>7, <1>8 DEF GroupInv

\* In the initial states there is neither a group nor a file.
LEMMA GroupInit == Init => GroupInv
<1> SUFFICES ASSUME Init PROVE GroupInv
  OBVIOUS
<1>1. \A s \in Sessions :
        /\ pc[s] = "new" /\ group[s] = None /\ nodeFile[s] = None
        /\ backend[s].compiled = {}
  BY DEF Init, FreshManager
<1>2. binName = None /\ slot = None
  BY DEF Init
<1>3. FilesOK
  BY DEF Init, FilesOK
<1>4. \A s \in Sessions :
        /\ pc[s] \notin {"write", "handover", "offer", "stopping", "checked", "probing", "ready",
                         "compose", "failed", "gone"} \cup Written
        /\ ~Busy(s)
  BY <1>1, SMTT(20) DEF Written, Busy
<1>5. MembersInv
  BY <1>1, <1>4 DEF MembersInv, MemberOK
<1>6. FoundersInv
  BY <1>1, <1>2 DEF FoundersInv
<1>7. CompiledInv
  BY <1>1, <1>4 DEF CompiledInv
<1>8. BufferInv
  BY <1>4 DEF BufferInv
<1>9. NamingInv
  BY <1>2, <1>4 DEF NamingInv, Sharer
<1>10. ClosedInv
  BY <1>4 DEF ClosedInv, Closer
<1>11. AgreeInv
  BY <1>1, <1>2 DEF AgreeInv, OneGroup
<1> QED
  BY <1>3, <1>5, <1>6, <1>7, <1>8, <1>9, <1>10, <1>11 DEF GroupInv

\* Every step of the specification keeps the invariant.
LEMMA GroupStep ==
    ASSUME SharingRules
    PROVE  RunInv /\ GroupInv /\ [Next]_vars => GroupInv'
<1> SUFFICES ASSUME RunInv, GroupInv, [Next]_vars PROVE GroupInv'
  OBVIOUS
<1>1. OwnerInv /\ SerialInv /\ ManagerInv /\ UpInv
  BY DEF RunInv
<1>2. CASE Next
  BY <1>1, <1>2, NextStep, GroupStepOf DEF OwnerInv
<1>3. CASE UNCHANGED vars
  <2>1. /\ FilesOK' <=> FilesOK
        /\ Grouped' <=> Grouped
        /\ MembersInv' <=> MembersInv
        /\ FoundersInv' <=> FoundersInv
    BY <1>3 DEF vars, FilesOK, Grouped, MembersInv, MemberOK, FoundersInv, Config, IsLoad,
      UsesSharedManager
  <2>2. CompiledInv' <=> CompiledInv
    BY <1>3 DEF vars, CompiledInv, Mgr, Nodes, Config, IsLoad
  <2>3. BufferInv' <=> BufferInv
    BY <1>3 DEF vars, BufferInv, Nodes, Config, IsLoad
  <2>4. \A s \in Sessions : /\ Sharer(s)' <=> Sharer(s)
                            /\ NameOK(s)' <=> NameOK(s)
    BY <1>3 DEF vars, Sharer, Busy, NameOK, Config, UsesSharedManager
  <2>5. NamingInv' <=> NamingInv
    BY <1>3, <2>4 DEF vars, NamingInv
  <2>6. ClosedInv' <=> ClosedInv
    BY <1>3 DEF vars, ClosedInv, Closer, ClosedOK, Busy, Nodes, Config, IsLoad
  <2>7. (NoneFailed' <=> NoneFailed) /\ (AgreeInv' <=> AgreeInv)
    BY <1>3, <2>4 DEF vars, NoneFailed, AgreeInv, OneGroup, Current
  <2> QED
    BY <2>1, <2>2, <2>3, <2>5, <2>6, <2>7 DEF GroupInv
<1> QED
  BY <1>2, <1>3

\* How groups of sessions may be combined: where a session that generates ends a
\* group, the sessions that stop sharing are those of such groups.
GroupRules ==
    \A c \in Configs :
        (\E s \in Sessions : c[s].kind = "generate" /\ c[s].stop) =>
          \A s \in Sessions : c[s].stop => c[s].kind = "generate" /\ c[s].share

\* The invariant implies the property: the session that ends a group is Closer,
\* and a session that names its file is of its group.
LEMMA GroupInvComplete ==
    ASSUME GroupRules
    PROVE  RunInv /\ GroupInv => GroupBinaryComplete
<1> SUFFICES ASSUME RunInv, GroupInv, NEW s \in Sessions, NEW t \in Sessions,
                    nodeFile[s] # None, Config(s).stop, pc[s] = "ready",
                    nodeFile[t] # None, pc[t] = "ready",
                    \/ group[s] = group[t]
                    \/ nodeFile[s] = nodeFile[t] /\ NoneFailed
             PROVE  nodeFile[t] = nodeFile[s] /\ Range(Nodes(t)) \subseteq files[nodeFile[s]]
  BY DEF GroupBinaryComplete, NoneFailed
<1>1. OwnerInv /\ config \in Configs
  BY DEF RunInv, OwnerInv, TypeOK, PlacesOK
<1>2. ~IsLoad(s) /\ ~IsLoad(t)
  BY DEF GroupInv, MembersInv, MemberOK
<1>3. Grouped
  <2>1. Config(s).kind = "generate"
    BY <1>2 DEF IsLoad
  <2> QED
    BY <2>1, <1>1 DEF GroupRules, Grouped, Config, IsLoad
<1>4. ClosedOK(s)
  BY <1>2, <1>3 DEF GroupInv, ClosedInv, Closer
<1>5. group[t] = group[s]
  BY <1>3 DEF GroupInv, AgreeInv, OneGroup
<1> QED
  BY <1>2, <1>4, <1>5 DEF ClosedOK

\* The session that ends a group of weight-sharing sessions writes one binary
\* with the graphs of every session of the group (CreateEPContextNodes), for
\* every number of sessions, graphs and binaries and whatever fails, as long as
\* the sessions that share managers are created one at a time (SharingRules)
\* and only sessions that generate end a group (GroupRules).
THEOREM GroupBinaryCompleteHolds ==
    ASSUME SharingRules, GroupRules
    PROVE  Spec => []GroupBinaryComplete
<1>1. RunInv /\ [Next]_vars => RunInv'
  BY RunStep
<1>2. RunInv /\ GroupInv /\ [Next]_vars => GroupInv'
  BY GroupStep
<1>3. Init => RunInv /\ GroupInv
  BY RunInit, GroupInit
<1>4. RunInv /\ GroupInv => GroupBinaryComplete
  BY GroupInvComplete
<1> QED
  BY <1>1, <1>2, <1>3, <1>4, PTL DEF Spec
=============================================================================
