--------------------------- MODULE BackendProofs ---------------------------
(***************************************************************************)
(* Proofs about BackendManager, for any binaries, nodes, SoCs and bounds.  *)
(* All properties rest on one inductive invariant, BackendInv: contexts    *)
(* are numbered in the order of creation and belong to the library loaded  *)
(* now (ContextsOK), mapped contexts have their weights (WeightsOK),       *)
(* objects belong to the library (ObjectsOK), and between set-ups nothing  *)
(* is left but what could not be freed (SocInv, Released).  It is shown    *)
(* from the inside out: first what making contexts, set-up steps and       *)
(* releases do to the members, then one lemma per public call.             *)
(* NodesServed is inductive relative to it.                                *)
(***************************************************************************)
EXTENDS BackendManager, FiniteSetTheorems, TLAPS

\* Leaves are for Zenon unless they name another prover.
USE Zenon

\* The keys of ep_context_handle_map_.
Keys == UNION {NodesOf[f] : f \in Files}

Contexts == [id : Nat, lib : Nat, soc : Nat, mapped : BOOLEAN, disk : BOOLEAN]

Tables == UNION {[S -> Nat] : S \in SUBSET Keys}

\* The types of the members of QnnBackendManager.
Members ==
  [lib : Nat, vlib : Nat, loaded : BOOLEAN, loads : Nat, sys : BOOLEAN,
   made : [Objects -> Nat], target : Nat, deviceSoc : Nat,
   contexts : SUBSET Contexts, next : Nat, created : BOOLEAN, nodeCtx : Tables,
   buffers : SUBSET Nat, mapping : BOOLEAN, mapper : BOOLEAN,
   share : BOOLEAN, partial : BOOLEAN, setup : BOOLEAN]

\* Type correctness of the manager's state.
TypeOK ==
  /\ mode \in {"plain", "serializer", "multi_soc"}
  /\ m \in Members
  /\ power \in Nat /\ soc \in Nat /\ dlc \in Seq(Contexts)
  /\ stuck \in BOOLEAN /\ torn \in BOOLEAN

\* Handles are numbered in the order of creation, and belong to the library.
ContextsOK(s) ==
  /\ \A c \in s.contexts : c.id < s.next /\ c.lib = s.lib
  /\ \A c, d \in s.contexts : c.id = d.id => c = d
  /\ \A n \in DOMAIN s.nodeCtx : s.nodeCtx[n] \in Ids(s)

\* The mapped weights of every context are registered.
WeightsOK(s) == \A c \in s.contexts : c.mapped => c.id \in s.buffers

\* Every object that exists was made through the library loaded now.
ObjectsOK(s) == \A o \in Objects : s.made[o] \in {0, LibOf(s, o)}

\* Nothing of a set-up is left.
Released(s, failed) ==
  /\ s.lib = 0 /\ s.vlib = 0 /\ ~ s.loaded
  /\ s.contexts = {} /\ ~ s.created
  /\ ~ failed => \A o \in Objects : s.made[o] = 0

\* How the rounds of a multi-SoC session and the other sessions differ: where
\* soc, dlc and the power id stand, and what is left between set-ups.
SocInv ==
  /\ ~ MultiSoc => soc = 0 /\ dlc = <<>> /\ ~ m.partial
  /\ ~ MultiSoc /\ ~ m.setup => Released(m, stuck)
  /\ MultiSoc /\ ~ m.partial => Released(m, stuck) /\ dlc = <<>>
  /\ MultiSoc => (m.setup <=> soc # 0) /\ (m.setup => m.partial)
  /\ MultiSoc /\ ~ m.setup => /\ m.contexts = {} /\ ~ m.created
                              /\ ~ stuck => m.made["device"] = 0
  /\ MultiSoc => \A c \in m.contexts : ~ c.disk
  /\ soc # 0 /\ leaving = <<>> => soc = Len(dlc) + 1
  /\ soc # 0 /\ ~ stuck => \A c \in m.contexts : c.soc = soc
  /\ power # 0 => soc # 0 /\ leaving # Tail(LeaveOrder) /\ m.made["device"] = power
  /\ leaving \in {<<>>, LeaveOrder, Tail(LeaveOrder)}
  /\ leaving # <<>> => soc # 0
  /\ MultiSoc => probe = "none" /\ ~ recovering

\* The inductive invariant of the manager.
BackendInv ==
  /\ TypeOK
  /\ ContextsOK(m)
  /\ ~ torn => WeightsOK(m)
  /\ ~ stuck => /\ ObjectsOK(m)
                /\ m.setup \/ m.partial => m.made["backend"] = m.lib
                /\ m.setup => m.made["device"] = m.lib
  /\ DlcHoldsEverySoc
  /\ SocInv

-----------------------------------------------------------------------------
\* What the making of contexts leaves alone.
Same(s, t) ==
  /\ t.lib = s.lib /\ t.vlib = s.vlib /\ t.loaded = s.loaded /\ t.loads = s.loads
  /\ t.sys = s.sys /\ t.made = s.made /\ t.target = s.target
  /\ t.deviceSoc = s.deviceSoc /\ t.mapping = s.mapping /\ t.mapper = s.mapper
  /\ t.share = s.share /\ t.partial = s.partial /\ t.setup = s.setup

\* The state t may be reached from s by making contexts.
Grown(s, t) == t \in Members /\ Same(s, t) /\ ContextsOK(t)

\* Same is transitive.
LEMMA SameTransitive ==
  ASSUME NEW s, NEW t, NEW u, Same(s, t), Same(t, u)
  PROVE  Same(s, u)
BY DEF Same

\* The fields of the members that proofs ask for one by one.
LEMMA FieldTypes ==
  ASSUME NEW s \in Members
  PROVE  /\ s.lib \in Nat /\ s.deviceSoc \in Nat /\ s.next \in Nat /\ s.target \in Nat
         /\ s.vlib \in Nat /\ s.loads \in Nat /\ s.made \in [Objects -> Nat]
         /\ s.contexts \in SUBSET Contexts /\ s.nodeCtx \in Tables
         /\ s.buffers \in SUBSET Nat
BY DEF Members

\* The handle of a context made in s.
LEMMA ContextFields ==
  ASSUME NEW s \in Members, NEW id \in Nat, NEW mapped \in BOOLEAN, NEW disk \in BOOLEAN
  PROVE  LET c == Context(s, id, mapped, disk)
         IN  /\ c \in Contexts /\ c.id = id /\ c.lib = s.lib /\ c.soc = s.deviceSoc
             /\ c.mapped = mapped /\ c.disk = disk
<1>1. s.lib \in Nat /\ s.deviceSoc \in Nat
  BY FieldTypes
<1> QED
  BY <1>1, SMT DEF Context, Contexts

\* AddQnnContextHandle, field by field.
LEMMA AddFields ==
  ASSUME NEW s \in Members, NEW mapped \in BOOLEAN, NEW disk \in BOOLEAN
  PROVE  LET t == AddQnnContextHandle(s, mapped, disk)
         IN  /\ t \in Members /\ Same(s, t)
             /\ t.contexts = s.contexts \cup {Context(s, s.next, mapped, disk)}
             /\ t.next = s.next + 1 /\ t.nodeCtx = s.nodeCtx /\ t.created = s.created
             /\ t.buffers = IF mapped THEN s.buffers \cup {s.next} ELSE s.buffers
<1> DEFINE c == Context(s, s.next, mapped, disk)
           n == s.next + 1
           b == IF mapped THEN s.buffers \cup {s.next} ELSE s.buffers
           cs == s.contexts \cup {c}
           t == AddQnnContextHandle(s, mapped, disk)
<1>1. c \in Contexts /\ s.contexts \in SUBSET Contexts /\ s.next \in Nat
      /\ s.buffers \in SUBSET Nat
  BY ContextFields, FieldTypes
<1>2. cs \in SUBSET Contexts
  BY <1>1
<1>3. n \in Nat
  BY <1>1, SMT
<1>4. b \in SUBSET Nat
  BY <1>1
<1>5. t = [s EXCEPT !.next = n, !.contexts = cs, !.buffers = b]
  BY DEF AddQnnContextHandle
<1> HIDE DEF n, b, cs, t
<1>6. t \in Members
  BY <1>2, <1>3, <1>4, <1>5 DEF Members
<1>7. Same(s, t)
  BY <1>5 DEF Members, Same
<1>8. /\ t.contexts = cs /\ t.next = n /\ t.nodeCtx = s.nodeCtx
      /\ t.created = s.created /\ t.buffers = b
  BY <1>5 DEF Members
<1> QED
  BY <1>6, <1>7, <1>8 DEF t, n, b, cs, c

\* A context that is added has a new number, and its weights if it is mapped.
LEMMA AddKeeps ==
  ASSUME NEW s \in Members, NEW mapped \in BOOLEAN, NEW disk \in BOOLEAN,
         ContextsOK(s)
  PROVE  LET t == AddQnnContextHandle(s, mapped, disk)
         IN  /\ Grown(s, t)
             /\ WeightsOK(s) => WeightsOK(t)
<1> DEFINE t == AddQnnContextHandle(s, mapped, disk)
           c == Context(s, s.next, mapped, disk)
<1>1. /\ t \in Members /\ Same(s, t)
      /\ t.contexts = s.contexts \cup {c}
      /\ t.next = s.next + 1 /\ t.nodeCtx = s.nodeCtx
      /\ t.buffers = IF mapped THEN s.buffers \cup {s.next} ELSE s.buffers
  BY AddFields, ZenonT(40)
<1>2. c.id = s.next /\ c.lib = s.lib /\ c.mapped = mapped
  BY ContextFields, FieldTypes, SMT
<1>3. s.next \in Nat /\ s.contexts \subseteq Contexts /\ t.lib = s.lib
  BY <1>1, FieldTypes DEF Same
<1>4. \A d \in Contexts : d.id \in Nat
  BY DEF Contexts
<1> HIDE DEF t, c
<1>5. ContextsOK(t)
  <2>1. \A d \in t.contexts : d.id < t.next /\ d.lib = t.lib
    BY <1>1, <1>2, <1>3, <1>4, SMT DEF ContextsOK
  <2>2. \A d, e \in t.contexts : d.id = e.id => d = e
    BY <1>1, <1>2, <1>3, <1>4, SMT DEF ContextsOK
  <2>3. Ids(s) \subseteq Ids(t)
    BY <1>1 DEF Ids
  <2> QED
    BY <1>1, <2>1, <2>2, <2>3 DEF ContextsOK
<1>6. WeightsOK(s) => WeightsOK(t)
  BY <1>1, <1>2 DEF WeightsOK
<1> QED
  BY <1>1, <1>5, <1>6 DEF Grown, t

\* A list of binaries is finite.
LEMMA FinitePart ==
  ASSUME NEW fs \in SUBSET Files
  PROVE  Cardinality(fs) \in Nat
BY BackendAssumption, FS_Subset, FS_CardinalityType

\* Entries are tables with values from the contexts of the files.
LEMMA EntriesInTables ==
  ASSUME NEW fs \in SUBSET Files, NEW ord, NEW of, \A f \in fs : of[f] \in Nat,
         NEW e \in Entries(fs, ord, of)
  PROVE  /\ e \in Tables
         /\ \A n \in DOMAIN e : e[n] \in {of[f] : f \in fs}
<1>1. e \in [UNION {NodesOf[f] : f \in fs} -> {of[f] : f \in fs}]
  BY DEF Entries
<1>2. UNION {NodesOf[f] : f \in fs} \in SUBSET Keys
  BY DEF Keys
<1>3. e \in [UNION {NodesOf[f] : f \in fs} -> Nat]
  BY <1>1
<1> QED
  BY <1>1, <1>2, <1>3 DEF Tables

\* Emplacing keeps entries of the old table and adds some of the new one.
LEMMA EmplaceTables ==
  ASSUME NEW s \in Tables, NEW e \in Tables
  PROVE  /\ Emplace(s, e) \in Tables
         /\ \A n \in DOMAIN Emplace(s, e) :
               \/ n \in DOMAIN s /\ Emplace(s, e)[n] = s[n]
               \/ n \in DOMAIN e /\ Emplace(s, e)[n] = e[n]
<1>1. PICK S \in SUBSET Keys : s \in [S -> Nat]
  BY DEF Tables
<1>2. PICK E \in SUBSET Keys : e \in [E -> Nat]
  BY DEF Tables
<1>3. Emplace(s, e) \in [S \cup E -> Nat] /\ S \cup E \in SUBSET Keys
  BY <1>1, <1>2 DEF Emplace
<1> QED
  BY <1>1, <1>2, <1>3 DEF Tables, Emplace

\* The callbacks of a list load, in any order: the new contexts have numbers of
\* their own, and nodes only name contexts that were registered.
LEMMA ProcessKeeps ==
  ASSUME NEW s \in Members, NEW fs \in SUBSET Files, NEW mapped \in BOOLEAN,
         ContextsOK(s), NEW t \in ProcessContextFromBinListAsync(s, fs, mapped)
  PROVE  /\ Grown(s, t)
         /\ WeightsOK(s) => WeightsOK(t)
<1> DEFINE n == Cardinality(fs)
<1>1. n \in Nat
  BY FinitePart
<1>2. PICK id \in Numberings(s.next, fs) : \E e \in Entries(fs, id, id) :
          t = [s EXCEPT !.next = @ + n,
                    !.contexts = @ \cup {Context(s, id[f], mapped, TRUE) : f \in fs},
                    !.nodeCtx = Emplace(@, e),
                    !.buffers = IF mapped THEN @ \cup {id[f] : f \in fs} ELSE @,
                    !.created = @ \/ fs # {}]
  BY ZenonT(40) DEF ProcessContextFromBinListAsync
<1>20. PICK e \in Entries(fs, id, id) :
          t = [s EXCEPT !.next = @ + n,
                    !.contexts = @ \cup {Context(s, id[f], mapped, TRUE) : f \in fs},
                    !.nodeCtx = Emplace(@, e),
                    !.buffers = IF mapped THEN @ \cup {id[f] : f \in fs} ELSE @,
                    !.created = @ \/ fs # {}]
  BY <1>2
<1>5. s.nodeCtx \in Tables /\ s.next \in Nat /\ s.contexts \subseteq Contexts
  BY FieldTypes
<1>3. /\ \A f \in fs : id[f] \in Nat /\ s.next <= id[f] /\ id[f] < s.next + n
      /\ \A f, g \in fs : id[f] = id[g] => f = g
  BY <1>1, <1>5, SMT DEF Numberings
<1> DEFINE new == {Context(s, id[f], mapped, TRUE) : f \in fs}
           ids == {id[f] : f \in fs}
<1>4. e \in Tables /\ \A k \in DOMAIN e : e[k] \in ids
  <2>1. \A f \in fs : id[f] \in Nat
    BY <1>3
  <2> QED
    BY <1>20, <2>1, EntriesInTables
<1>6. Emplace(s.nodeCtx, e) \in Tables
  BY <1>4, <1>5, EmplaceTables
<1>7. ids \in SUBSET Nat
  BY <1>3
<1>0. \A f \in fs : LET c == Context(s, id[f], mapped, TRUE)
                    IN  c \in Contexts /\ c.id = id[f] /\ c.lib = s.lib /\ c.mapped = mapped
  <2> TAKE f \in fs
  <2>1. id[f] \in Nat
    BY <1>3
  <2> QED
    BY <2>1, ContextFields, ZenonT(40)
<1>8. new \in SUBSET Contexts /\ \A c \in new : c.id \in ids /\ c.lib = s.lib /\ c.mapped = mapped
  BY <1>0
<1>9. \A c, d \in new : c.id = d.id => c = d
  <2> SUFFICES ASSUME NEW c \in new, NEW d \in new, c.id = d.id
               PROVE  c = d
    OBVIOUS
  <2>1. PICK f \in fs : c = Context(s, id[f], mapped, TRUE)
    OBVIOUS
  <2>2. PICK g \in fs : d = Context(s, id[g], mapped, TRUE)
    OBVIOUS
  <2>3. id[f] = id[g]
    BY <1>0, <2>1, <2>2
  <2> QED
    BY <1>3, <2>1, <2>2, <2>3
<1>10. \A i \in ids : \E c \in new : c.id = i
  BY <1>0
<1> HIDE DEF new, ids
<1>11. /\ t \in Members /\ Same(s, t)
       /\ t.contexts = s.contexts \cup new /\ t.next = s.next + n
       /\ t.nodeCtx = Emplace(s.nodeCtx, e)
       /\ t.buffers = IF mapped THEN s.buffers \cup ids ELSE s.buffers
  <2>1. t = [s EXCEPT !.next = @ + n, !.contexts = @ \cup new, !.nodeCtx = Emplace(@, e),
                      !.buffers = IF mapped THEN @ \cup ids ELSE @, !.created = @ \/ fs # {}]
    BY <1>20 DEF new, ids
  <2> HIDE DEF n
  <2> DEFINE nn == s.next + n
             cs == s.contexts \cup new
             b == IF mapped THEN s.buffers \cup ids ELSE s.buffers
             cr == s.created \/ fs # {}
             nc == Emplace(s.nodeCtx, e)
  <2>2. nn \in Nat /\ cs \in SUBSET Contexts /\ cr \in BOOLEAN /\ nc \in Tables
    BY <1>1, <1>5, <1>6, <1>8, SMT
  <2>3. b \in SUBSET Nat
    BY <1>7, FieldTypes
  <2>4. t = [s EXCEPT !.next = nn, !.contexts = cs, !.nodeCtx = nc, !.buffers = b, !.created = cr]
    BY <2>1
  <2> HIDE DEF nn, cs, b, cr, nc
  <2>5. t \in Members
    BY <2>2, <2>3, <2>4 DEF Members
  <2>6. Same(s, t)
    BY <2>4 DEF Members, Same
  <2>7. t.contexts = cs /\ t.next = nn /\ t.nodeCtx = nc /\ t.buffers = b
    BY <2>4 DEF Members
  <2> QED
    BY <2>5, <2>6, <2>7 DEF nn, cs, b, nc
<1>12. \A c \in Contexts : c.id \in Nat
  BY DEF Contexts
<1>13. \A i \in ids : s.next <= i /\ i < s.next + n
  BY <1>3 DEF ids
<1>14. t.lib = s.lib
  BY <1>11 DEF Same
<1> HIDE DEF n
<1>15. ContextsOK(t)
  <2>1. \A c \in t.contexts : c.id < t.next /\ c.lib = t.lib
    BY <1>1, <1>5, <1>7, <1>8, <1>11, <1>12, <1>13, <1>14, SMT DEF ContextsOK
  <2>2. \A c \in s.contexts, d \in new : c.id # d.id
    BY <1>1, <1>5, <1>7, <1>8, <1>12, <1>13, SMT DEF ContextsOK
  <2>3. \A c, d \in t.contexts : c.id = d.id => c = d
    BY <1>9, <1>11, <2>2 DEF ContextsOK
  <2>4. Ids(s) \subseteq Ids(t) /\ ids \subseteq Ids(t)
    BY <1>10, <1>11 DEF Ids
  <2>5. \A k \in DOMAIN t.nodeCtx : t.nodeCtx[k] \in Ids(t)
    <3> TAKE k \in DOMAIN t.nodeCtx
    <3>1. \/ k \in DOMAIN s.nodeCtx /\ t.nodeCtx[k] = s.nodeCtx[k]
          \/ k \in DOMAIN e /\ t.nodeCtx[k] = e[k]
      BY <1>4, <1>5, <1>11, EmplaceTables, SMT
    <3> QED
      BY <1>4, <2>4, <3>1 DEF ContextsOK
  <2> QED
    BY <2>1, <2>3, <2>5 DEF ContextsOK
<1>16. WeightsOK(s) => WeightsOK(t)
  BY <1>8, <1>11 DEF WeightsOK
<1> QED
  BY <1>11, <1>15, <1>16 DEF Grown

-----------------------------------------------------------------------------
\* What an attempt to load binaries into s may leave.
Outcome(s, e) ==
  /\ Grown(s, e.s)
  /\ e.ok \in BOOLEAN /\ e.torn \in BOOLEAN
  /\ ~ e.torn /\ WeightsOK(s) => WeightsOK(e.s)

\* Making contexts is transitive.
LEMMA GrownTransitive ==
  ASSUME NEW s, NEW t, NEW u, Grown(s, t), Grown(t, u)
  PROVE  Grown(s, u)
BY SameTransitive DEF Grown

\* Deallocating DMA buffers leaves the contexts alone.
LEMMA DeallocateKeeps ==
  ASSUME NEW s \in Members, NEW kept, ContextsOK(s)
  PROVE  Grown(s, DeallocateMappedDmaBuffers(s, kept))
<1> DEFINE b == s.buffers \cap kept
           t == DeallocateMappedDmaBuffers(s, kept)
<1>1. b \in SUBSET Nat
  BY FieldTypes
<1>2. t = [s EXCEPT !.buffers = b]
  BY DEF DeallocateMappedDmaBuffers
<1> HIDE DEF b, t
<1>3. t \in Members
  BY <1>1, <1>2 DEF Members
<1>4. Same(s, t) /\ t.contexts = s.contexts /\ t.next = s.next /\ t.nodeCtx = s.nodeCtx
  BY <1>2 DEF Members, Same
<1>5. t.lib = s.lib
  BY <1>4 DEF Same
<1>6. ContextsOK(t)
  BY <1>4, <1>5 DEF ContextsOK, Ids
<1> QED
  BY <1>3, <1>4, <1>6 DEF Grown, t

\* A plain list load registers contexts, also when it fails half way.
LEMMA ListKeeps ==
  ASSUME NEW s \in Members, NEW fs \in SUBSET Files, NEW failed \in BOOLEAN, ContextsOK(s),
         NEW e \in CreateContextFromListAsync(s, fs, failed)
  PROVE  /\ Grown(s, e.s) /\ e.ok \in BOOLEAN /\ e.torn = failed
         /\ WeightsOK(s) => WeightsOK(e.s)
<1>1. PICK got \in SUBSET fs :
        e \in {[ok |-> got = fs, s |-> t, torn |-> failed]
                 : t \in ProcessContextFromBinListAsync(s, got, FALSE)}
  BY DEF CreateContextFromListAsync
<1>2. PICK t \in ProcessContextFromBinListAsync(s, got, FALSE) :
        e = [ok |-> got = fs, s |-> t, torn |-> failed]
  BY <1>1
<1>3. got \in SUBSET Files
  BY <1>1
<1>4. Grown(s, t) /\ (WeightsOK(s) => WeightsOK(t))
  BY <1>2, <1>3, ProcessKeeps
<1>5. e.s = t /\ e.ok \in BOOLEAN /\ e.torn = failed
  BY <1>2
<1> QED
  BY <1>4, <1>5

\* A mapped list load that fails may leave contexts without their weights.
LEMMA WithCallbackKeeps ==
  ASSUME NEW s \in Members, NEW fs \in SUBSET Files, ContextsOK(s),
         NEW u \in CreateContextFromListAsyncWithCallback(s, fs)
  PROVE  Grown(s, u)
<1>1. PICK t \in UNION {ProcessContextFromBinListAsync(s, got, TRUE) : got \in SUBSET fs} :
        u \in {DeallocateMappedDmaBuffers(t, kept) : kept \in SUBSET t.buffers}
  BY DEF CreateContextFromListAsyncWithCallback
<1>2. PICK got \in SUBSET fs : t \in ProcessContextFromBinListAsync(s, got, TRUE)
  BY <1>1
<1>3. PICK kept \in SUBSET t.buffers : u = DeallocateMappedDmaBuffers(t, kept)
  BY <1>1
<1>4. got \in SUBSET Files
  BY <1>2
<1>5. Grown(s, t)
  BY <1>2, <1>4, ProcessKeeps
<1>6. Grown(t, u)
  BY <1>3, <1>5, DeallocateKeeps DEF Grown
<1> QED
  BY <1>5, <1>6, GrownTransitive

\* Either way of loading a list leaves a consistent table.
LEMMA SharedKeeps ==
  ASSUME NEW s \in Members, NEW fs \in SUBSET Files, ContextsOK(s),
         NEW e \in CreateContextVtcmBackupBufferSharingEnabled(s, fs)
  PROVE  Outcome(s, e)
<1>1. CASE e \in CreateContextFromListAsync(s, fs, FALSE)
  <2>1. /\ Grown(s, e.s) /\ e.ok \in BOOLEAN /\ e.torn = FALSE
        /\ WeightsOK(s) => WeightsOK(e.s)
    BY <1>1, ListKeeps
  <2> QED
    BY <2>1 DEF Outcome
<1>2. CASE e \in {[ok |-> TRUE, s |-> t, torn |-> FALSE]
                    : t \in ProcessContextFromBinListAsync(s, fs, TRUE)}
  <2>1. PICK t \in ProcessContextFromBinListAsync(s, fs, TRUE) :
          e = [ok |-> TRUE, s |-> t, torn |-> FALSE]
    BY <1>2
  <2>2. Grown(s, t) /\ (WeightsOK(s) => WeightsOK(t))
    BY <2>1, ProcessKeeps
  <2>3. e.s = t /\ e.ok = TRUE /\ e.torn = FALSE
    BY <2>1
  <2> QED
    BY <2>2, <2>3 DEF Outcome
<1>3. CASE e \in UNION {CreateContextFromListAsync(t, fs, TRUE)
                          : t \in CreateContextFromListAsyncWithCallback(s, fs)}
  <2>1. PICK t \in CreateContextFromListAsyncWithCallback(s, fs) :
          e \in CreateContextFromListAsync(t, fs, TRUE)
    BY <1>3
  <2>2. Grown(s, t)
    BY <2>1, WithCallbackKeeps
  <2>3. t \in Members /\ ContextsOK(t)
    BY <2>2 DEF Grown
  <2>4. Grown(t, e.s) /\ e.ok \in BOOLEAN /\ e.torn = TRUE
    BY <2>1, <2>3, ListKeeps
  <2> QED
    BY <2>2, <2>4, GrownTransitive DEF Outcome
<1> QED
  BY <1>1, <1>2, <1>3 DEF CreateContextVtcmBackupBufferSharingEnabled

\* Loading one binary, with or without the fall-back to reading it directly.
LEMMA HandleKeeps ==
  ASSUME NEW s \in Members, NEW mapped \in BOOLEAN, NEW disk \in BOOLEAN, ContextsOK(s),
         NEW e \in CreateContextHandleFromBinary(s, mapped, disk)
  PROVE  Outcome(s, e)
<1> DEFINE direct(t, failed) ==
             {[ok |-> TRUE, s |-> AddQnnContextHandle(t, FALSE, disk), torn |-> failed],
              [ok |-> FALSE, s |-> t, torn |-> failed]}
<1>1. ASSUME NEW t, Grown(s, t), NEW failed \in BOOLEAN, WeightsOK(s) /\ ~ failed => WeightsOK(t),
             e \in direct(t, failed)
      PROVE  Outcome(s, e)
  <2>1. t \in Members /\ ContextsOK(t)
    BY <1>1 DEF Grown
  <2>2. Grown(t, AddQnnContextHandle(t, FALSE, disk))
        /\ (WeightsOK(t) => WeightsOK(AddQnnContextHandle(t, FALSE, disk)))
    BY <2>1, AddKeeps
  <2>3. Grown(s, AddQnnContextHandle(t, FALSE, disk))
    BY <1>1, <2>2, GrownTransitive
  <2>4. CASE e = [ok |-> TRUE, s |-> AddQnnContextHandle(t, FALSE, disk), torn |-> failed]
    <3>1. e.ok = TRUE /\ e.s = AddQnnContextHandle(t, FALSE, disk) /\ e.torn = failed
      BY <2>4
    <3> QED
      BY <1>1, <2>2, <2>3, <3>1 DEF Outcome
  <2>5. CASE e = [ok |-> FALSE, s |-> t, torn |-> failed]
    <3>1. e.ok = FALSE /\ e.s = t /\ e.torn = failed
      BY <2>5
    <3> QED
      BY <1>1, <3>1 DEF Outcome
  <2> QED
    BY <1>1, <2>4, <2>5
<1> HIDE DEF direct
<1>2. Grown(s, s)
  BY DEF Grown, Same
<1>3. CASE e \in direct(s, FALSE)
  BY <1>1, <1>2, <1>3
<1>4. CASE e = [ok |-> TRUE, s |-> AddQnnContextHandle(s, TRUE, disk), torn |-> FALSE]
  <2>1. e.ok = TRUE /\ e.s = AddQnnContextHandle(s, TRUE, disk) /\ e.torn = FALSE
    BY <1>4
  <2> QED
    BY <2>1, AddKeeps DEF Outcome
<1>5. CASE e \in UNION {direct(DeallocateMappedDmaBuffers(s, kept), TRUE) : kept \in SUBSET s.buffers}
  <2>1. PICK kept \in SUBSET s.buffers : e \in direct(DeallocateMappedDmaBuffers(s, kept), TRUE)
    BY <1>5
  <2>2. Grown(s, DeallocateMappedDmaBuffers(s, kept))
    BY DeallocateKeeps
  <2> QED
    BY <1>1, <2>1, <2>2
<1> QED
  BY <1>3, <1>4, <1>5 DEF CreateContextHandleFromBinary, direct

-----------------------------------------------------------------------------
\* The context of a graph to be compiled is made on the device that exists.
LEMMA CreateContextKeeps ==
  ASSUME NEW s \in Members, ContextsOK(s)
  PROVE  LET t == CreateContext(s)
         IN  /\ Grown(s, t)
             /\ WeightsOK(s) => WeightsOK(t)
             /\ \A c \in t.contexts : c \in s.contexts \/ (~ c.disk /\ c.soc = s.deviceSoc)
<1> DEFINE u == AddQnnContextHandle(s, FALSE, FALSE)
           t == CreateContext(s)
<1>1. CASE s.created
  <2>1. t = s
    BY <1>1 DEF CreateContext
  <2> QED
    BY <2>1 DEF Grown, Same
<1>2. CASE ~ s.created
  <2>1. t = [u EXCEPT !.created = TRUE]
    BY <1>2 DEF CreateContext
  <2>2. Grown(s, u) /\ (WeightsOK(s) => WeightsOK(u))
    BY AddKeeps
  <2>3. u.contexts = s.contexts \cup {Context(s, s.next, FALSE, FALSE)}
    BY AddFields
  <2>4. LET c == Context(s, s.next, FALSE, FALSE) IN ~ c.disk /\ c.soc = s.deviceSoc
    BY DEF Context
  <2>5. \A c \in u.contexts : c \in s.contexts \/ (~ c.disk /\ c.soc = s.deviceSoc)
    BY <2>3, <2>4
  <2> HIDE DEF t, u
  <2>6. u \in Members
    BY <2>2 DEF Grown
  <2>7. t \in Members
    BY <2>1, <2>6 DEF Members
  <2>8. /\ Same(u, t) /\ t.contexts = u.contexts /\ t.next = u.next /\ t.nodeCtx = u.nodeCtx
        /\ t.buffers = u.buffers /\ t.lib = u.lib
    BY <2>1, <2>6 DEF Members, Same
  <2>9. ContextsOK(t) /\ (WeightsOK(u) => WeightsOK(t))
    BY <2>2, <2>8 DEF Grown, ContextsOK, WeightsOK, Ids
  <2>10. Grown(u, t)
    BY <2>7, <2>8, <2>9 DEF Grown
  <2>11. Grown(s, t)
    BY <2>2, <2>10, GrownTransitive
  <2> QED
    BY <2>2, <2>5, <2>8, <2>9, <2>11 DEF t
<1> QED
  BY <1>1, <1>2

\* The empty table is a table.
LEMMA EmptyTable == Empty \in Tables /\ DOMAIN Empty = {}
<1>1. Empty \in [{} -> Nat] /\ {} \in SUBSET Keys
  BY DEF Empty
<1> QED
  BY <1>1 DEF Tables

\* ReleaseContext clears the contexts, the table and the flag, and no more.
LEMMA ReleaseContextFields ==
  ASSUME NEW s \in Members
  PROVE  LET t == ReleaseContext(s)
         IN  /\ t \in Members
             /\ t.contexts = {} /\ t.nodeCtx = Empty /\ t.created = FALSE
             /\ Same(s, t)
<1> DEFINE b == s.buffers \ {c.id : c \in {x \in s.contexts : x.mapped}}
           t == ReleaseContext(s)
<1>1. b \in SUBSET Nat
  BY FieldTypes
<1>2. t = [s EXCEPT !.contexts = {}, !.nodeCtx = Empty, !.created = FALSE, !.buffers = b]
  BY DEF ReleaseContext
<1>3. {} \in SUBSET Contexts /\ FALSE \in BOOLEAN /\ Empty \in Tables
  BY EmptyTable
<1> HIDE DEF b, t
<1>4. t \in Members
  BY <1>1, <1>2, <1>3 DEF Members
<1>5. t.contexts = {} /\ t.nodeCtx = Empty /\ t.created = FALSE
  BY <1>2 DEF Members
<1>6. Same(s, t)
  BY <1>2 DEF Members, Same
<1> QED
  BY <1>4, <1>5, <1>6 DEF t

\* Freed handles are null.
LEMMA FreedType ==
  ASSUME NEW made \in [Objects -> Nat], NEW objs, NEW failing
  PROVE  Freed(made, objs, failing) \in [Objects -> Nat]
BY SMT DEF Freed

\* ReleaseResources, field by field.
LEMMA ReleaseResourcesFields ==
  ASSUME NEW s \in Members, NEW failing, NEW kept
  PROVE  LET t == ReleaseResources(s, failing, kept)
         IN  /\ t \in Members
             /\ t.contexts = {} /\ DOMAIN t.nodeCtx = {} /\ t.created = FALSE
             /\ t.lib = 0 /\ t.vlib = 0 /\ t.loaded = FALSE
             /\ t.partial = FALSE /\ t.setup = FALSE
             /\ t.made = Freed(s.made, Objects, failing)
<1> DEFINE r == ReleaseContext(s)
           u == DeallocateMappedDmaBuffers(r, kept)
           t == ReleaseResources(s, failing, kept)
           f == Freed(s.made, Objects, failing)
           b == r.buffers \cap kept
<1>1. r \in Members /\ r.contexts = {} /\ r.nodeCtx = Empty /\ r.created = FALSE /\ r.made = s.made
  BY ReleaseContextFields DEF Same
<1>2. u = [r EXCEPT !.buffers = b]
  BY DEF DeallocateMappedDmaBuffers
<1>3. b \in SUBSET Nat
  BY <1>1, FieldTypes
<1>4. t = [u EXCEPT !.made = Freed(u.made, Objects, failing), !.lib = 0, !.vlib = 0,
                    !.loaded = FALSE, !.partial = FALSE, !.setup = FALSE]
  BY DEF ReleaseResources
<1> HIDE DEF r, b, u
<1>5. u \in Members
  BY <1>1, <1>2, <1>3 DEF Members
<1>6. u.contexts = {} /\ u.nodeCtx = Empty /\ u.created = FALSE /\ u.made = s.made
  BY <1>1, <1>2 DEF Members
<1>7. t = [u EXCEPT !.made = f, !.lib = 0, !.vlib = 0, !.loaded = FALSE, !.partial = FALSE,
                    !.setup = FALSE]
  BY <1>4, <1>6
<1>8. f \in [Objects -> Nat] /\ 0 \in Nat /\ FALSE \in BOOLEAN
  BY FreedType, FieldTypes
<1> HIDE DEF f, t
<1>9. t \in Members
  BY <1>5, <1>7, <1>8 DEF Members
<1>10. /\ t.contexts = {} /\ t.nodeCtx = Empty /\ t.created = FALSE
       /\ t.lib = 0 /\ t.vlib = 0 /\ t.loaded = FALSE
       /\ t.partial = FALSE /\ t.setup = FALSE /\ t.made = f
  BY <1>5, <1>6, <1>7 DEF Members
<1> QED
  BY <1>9, <1>10, EmptyTable DEF f, t

\* ReleaseDeviceAndContext, field by field.
LEMMA ReleaseDeviceFields ==
  ASSUME NEW s \in Members, NEW failing
  PROVE  LET t == ReleaseDeviceAndContext(s, failing)
         IN  /\ t \in Members
             /\ t.contexts = {} /\ DOMAIN t.nodeCtx = {} /\ t.created = FALSE
             /\ t.lib = s.lib /\ t.vlib = s.vlib /\ t.loaded = s.loaded
             /\ t.partial = s.partial /\ t.setup = FALSE
             /\ t.made = Freed(s.made, {"device"}, failing)
<1> DEFINE r == ReleaseContext(s)
           t == ReleaseDeviceAndContext(s, failing)
           f == Freed(s.made, {"device"}, failing)
<1>1. /\ r \in Members /\ r.contexts = {} /\ r.nodeCtx = Empty /\ r.created = FALSE
      /\ r.made = s.made /\ r.lib = s.lib /\ r.vlib = s.vlib /\ r.loaded = s.loaded
      /\ r.partial = s.partial
  BY ReleaseContextFields DEF Same
<1>2. t = [r EXCEPT !.made = f, !.target = 0, !.setup = FALSE]
  BY <1>1 DEF ReleaseDeviceAndContext
<1>3. f \in [Objects -> Nat] /\ 0 \in Nat /\ FALSE \in BOOLEAN
  BY FreedType, FieldTypes
<1> HIDE DEF f, t, r
<1>4. t \in Members
  BY <1>1, <1>2, <1>3 DEF Members
<1>5. /\ t.contexts = {} /\ t.nodeCtx = Empty /\ t.created = FALSE
      /\ t.lib = r.lib /\ t.vlib = r.vlib /\ t.loaded = r.loaded
      /\ t.partial = r.partial /\ t.setup = FALSE /\ t.made = f
  BY <1>1, <1>2 DEF Members
<1> QED
  BY <1>1, <1>4, <1>5, EmptyTable DEF f, t

\* After a release nothing is left, unless a free has failed.
LEMMA NotedRelease ==
  ASSUME NEW s \in Members, NEW failing, NEW kept, stuck \in BOOLEAN, NoteStuck(s, failing)
  PROVE  /\ Released(ReleaseResources(s, failing, kept), stuck')
         /\ stuck' \in BOOLEAN
<1>1. stuck' = (stuck \/ \E o \in failing : s.made[o] # 0)
  BY DEF NoteStuck
<1>2. ASSUME ~ stuck', NEW o \in Objects PROVE Freed(s.made, Objects, failing)[o] = 0
  BY <1>1, <1>2 DEF Freed
<1> QED
  BY <1>1, <1>2, ReleaseResourcesFields, ZenonT(40) DEF Released

\* Steps change only the library, the objects and the system interface.
Stepped(s, t) ==
  /\ t.contexts = s.contexts /\ t.next = s.next /\ t.created = s.created
  /\ t.nodeCtx = s.nodeCtx /\ t.buffers = s.buffers /\ t.target = s.target
  /\ t.mapping = s.mapping /\ t.mapper = s.mapper /\ t.share = s.share
  /\ t.partial = s.partial /\ t.setup = s.setup

\* Loading the library changes only what records the library.
LEMMA LoadFields ==
  ASSUME NEW s \in Members
  PROVE  /\ Load(s) \in Members
         /\ Stepped(s, Load(s)) /\ Load(s).made = s.made
         /\ Load(s).deviceSoc = s.deviceSoc /\ Load(s).sys = s.sys
<1> DEFINE n == s.loads + 1
           v == IF Serializer THEN s.loads + 1 ELSE 0
           l == ~ Serializer
           t == Load(s)
<1>1. n \in Nat /\ l \in BOOLEAN
  BY FieldTypes, SMT
<1>2. v \in Nat
  BY <1>1
<1>3. CASE s.loaded
  <2>1. t = s
    BY <1>3 DEF Load
  <2> QED
    BY <2>1 DEF Stepped
<1>4. CASE ~ s.loaded
  <2>1. t = [s EXCEPT !.loads = n, !.lib = n, !.vlib = v, !.loaded = l]
    BY <1>4 DEF Load
  <2> HIDE DEF n, v, l, t
  <2>2. t \in Members
    BY <1>1, <1>2, <2>1 DEF Members
  <2>3. Stepped(s, t) /\ t.made = s.made /\ t.deviceSoc = s.deviceSoc /\ t.sys = s.sys
    BY <2>1 DEF Members, Stepped
  <2> QED
    BY <2>2, <2>3 DEF t
<1> QED
  BY <1>3, <1>4

\* What the steps ks of a set-up make of s: an object that did not exist is
\* made through the library, one that did is kept.
StepsTo(s, ks, t) ==
  /\ Stepped(s, t)
  /\ "lib" \notin ks => t.lib = s.lib /\ t.vlib = s.vlib /\ t.loaded = s.loaded
  /\ \A o \in Objects :
        /\ o \in ks /\ s.made[o] = 0 => t.made[o] = LibOf(t, o)
        /\ o \notin ks \/ s.made[o] # 0 => t.made[o] = s.made[o]
  /\ "device" \in ks /\ s.made["device"] = 0 => t.deviceSoc = s.target

\* The steps of a set-up do so.
LEMMA StepsFields ==
  ASSUME NEW s \in Members, NEW ks
  PROVE  /\ Steps(s, ks) \in Members
         /\ StepsTo(s, ks, Steps(s, ks))
<1> DEFINE u == IF "lib" \in ks THEN Load(s) ELSE s
           y == u.sys \/ "sys" \in ks
           f == [o \in Objects |-> IF o \in ks /\ u.made[o] = 0 THEN LibOf(u, o) ELSE u.made[o]]
           d == IF "device" \in ks /\ u.made["device"] = 0 THEN u.target ELSE u.deviceSoc
           t == Steps(s, ks)
<1>1. /\ u \in Members /\ Stepped(s, u) /\ u.made = s.made
      /\ u.deviceSoc = s.deviceSoc
  BY LoadFields DEF Stepped
<1>2. t = [u EXCEPT !.sys = y, !.made = f, !.deviceSoc = d]
  BY DEF Steps
<1> HIDE DEF u
<1>3. /\ u.made \in [Objects -> Nat] /\ u.lib \in Nat /\ u.vlib \in Nat
      /\ u.target \in Nat /\ u.deviceSoc \in Nat
  BY <1>1, FieldTypes
<1>4. f \in [Objects -> Nat]
  BY <1>3, SMT DEF LibOf
<1>5. d \in Nat /\ y \in BOOLEAN
  BY <1>3
<1> HIDE DEF y, f, d, t
<1>6. t \in Members
  BY <1>1, <1>2, <1>4, <1>5 DEF Members
<1>7. /\ t.lib = u.lib /\ t.vlib = u.vlib /\ t.loaded = u.loaded
      /\ t.made = f /\ t.deviceSoc = d
  BY <1>1, <1>2 DEF Members
<1>8. Stepped(u, t)
  BY <1>1, <1>2 DEF Members, Stepped
<1>9. Stepped(s, t)
  BY <1>1, <1>8 DEF Stepped
<1>10. \A o \in Objects :
          /\ o \in ks /\ s.made[o] = 0 => t.made[o] = LibOf(t, o)
          /\ o \notin ks \/ s.made[o] # 0 => t.made[o] = s.made[o]
  BY <1>1, <1>7, SMT DEF f, LibOf
<1>11. "device" \in ks /\ s.made["device"] = 0 => t.deviceSoc = s.target
  BY <1>1, <1>7 DEF d, Stepped
<1>12. "lib" \notin ks => t.lib = s.lib /\ t.vlib = s.vlib /\ t.loaded = s.loaded
  BY <1>7 DEF u
<1> QED
  BY <1>6, <1>9, <1>10, <1>11, <1>12 DEF t, StepsTo

-----------------------------------------------------------------------------
\* Without contexts and nodes there is nothing to be consistent.
LEMMA NoContextsOK ==
  ASSUME NEW s, s.contexts = {}, DOMAIN s.nodeCtx = {}
  PROVE  ContextsOK(s) /\ WeightsOK(s)
BY DEF ContextsOK, WeightsOK

\* BackendInv holds initially.
LEMMA InitBackendInv == Init => BackendInv
<1> SUFFICES ASSUME Init PROVE BackendInv
  OBVIOUS
<1> DEFINE z == [o \in Objects |-> 0]
<1>1. z \in [Objects -> Nat] /\ {} \in SUBSET Contexts /\ {} \in SUBSET Nat /\ Empty \in Tables
      /\ 0 \in Nat /\ 1 \in Nat /\ FALSE \in BOOLEAN /\ \A o \in Objects : z[o] = 0
  BY EmptyTable
<1>2. m = [lib |-> 0, vlib |-> 0, loaded |-> FALSE, loads |-> 0, sys |-> FALSE,
           made |-> z, target |-> 0, deviceSoc |-> 0,
           contexts |-> {}, next |-> 1, created |-> FALSE, nodeCtx |-> Empty,
           buffers |-> {}, mapping |-> FALSE, mapper |-> FALSE,
           share |-> FALSE, partial |-> FALSE, setup |-> FALSE]
  BY DEF Init
<1> HIDE DEF z
<1>3. m \in Members
  BY <1>1, <1>2 DEF Members
<1>4. /\ m.lib = 0 /\ m.vlib = 0 /\ m.loaded = FALSE /\ m.made = z /\ m.contexts = {}
      /\ m.created = FALSE /\ m.nodeCtx = Empty /\ m.partial = FALSE /\ m.setup = FALSE
  BY <1>2
<1>5. mode \in {"plain", "serializer", "multi_soc"} /\ power = 0 /\ soc = 0 /\ dlc = <<>>
      /\ stuck = FALSE /\ torn = FALSE /\ leaving = <<>> /\ probe = "none" /\ recovering = FALSE
  BY BackendAssumption DEF Init
<1>6. TypeOK
  <2>1. <<>> \in Seq(Contexts)
    BY SMT
  <2> QED
    BY <1>1, <1>3, <1>5, <2>1 DEF TypeOK
<1>7. ContextsOK(m) /\ WeightsOK(m)
  BY <1>4, EmptyTable, NoContextsOK
<1>8. ObjectsOK(m)
  BY <1>1, <1>4 DEF ObjectsOK
<1>9. DlcHoldsEverySoc
  BY <1>5, SMT DEF DlcHoldsEverySoc
<1>10. Released(m, stuck)
  BY <1>1, <1>4 DEF Released
<1>11. "device" \in Objects
  BY DEF Objects
<1>12. SocInv
  BY <1>1, <1>4, <1>5, <1>10, <1>11 DEF SocInv
<1> QED
  BY <1>4, <1>6, <1>7, <1>8, <1>9, <1>12 DEF BackendInv

\* What the invariant needs of the fields that are not about contexts.
Alike(s, t) ==
  /\ t.lib = s.lib /\ t.vlib = s.vlib /\ t.made = s.made
  /\ t.partial = s.partial /\ t.setup = s.setup

\* A step of a manager that is set up, and that changes only its contexts.
LEMMA LiveStep ==
  ASSUME BackendInv, ~ MultiSoc, m.setup, m' \in Members, Alike(m, m'), ContextsOK(m'),
         torn' \in BOOLEAN, ~ torn' => WeightsOK(m'),
         UNCHANGED <<mode, power, soc, leaving, dlc, stuck>>
  PROVE  BackendInv'
<1>1. TypeOK'
  BY DEF BackendInv, TypeOK
<1>2. ~ stuck' => /\ ObjectsOK(m')
                  /\ m'.setup \/ m'.partial => m'.made["backend"] = m'.lib
                  /\ m'.setup => m'.made["device"] = m'.lib
  BY DEF BackendInv, Alike, ObjectsOK, LibOf
<1>3. DlcHoldsEverySoc'
  BY DEF BackendInv, DlcHoldsEverySoc
<1>4. SocInv'
  <2>1. ~ MultiSoc' /\ m'.setup /\ m'.made = m.made /\ m'.partial = m.partial
    BY DEF MultiSoc, Alike
  <2>2. soc = 0 /\ dlc = <<>> /\ ~ m.partial /\ power = 0 /\ leaving = <<>>
    BY DEF BackendInv, SocInv
  <2>3. soc' = 0 /\ dlc' = <<>> /\ ~ m'.partial /\ power' = 0 /\ leaving' = <<>>
    BY <2>1, <2>2
  <2> QED
    BY <2>1, <2>3 DEF SocInv
<1> QED
  BY <1>1, <1>2, <1>3, <1>4 DEF BackendInv

\* Making contexts leaves the library, the objects and the flags alone.
LEMMA GrownAlike ==
  ASSUME NEW s, NEW t, Grown(s, t)
  PROVE  t \in Members /\ ContextsOK(t) /\ Alike(s, t)
BY DEF Grown, Same, Alike

\* Alike is transitive.
LEMMA AlikeTransitive ==
  ASSUME NEW s, NEW t, NEW u, Alike(s, t), Alike(t, u)
  PROVE  Alike(s, u)
BY DEF Alike

\* LoadCachedQnnContextFromBuffer keeps the invariant.
LEMMA LoadCachedKeepsInv ==
  ASSUME BackendInv, NEW embedded \in BOOLEAN, LoadCachedQnnContextFromBuffer(embedded)
  PROVE  BackendInv'
<1> DEFINE mapped == m.mapping /\ m.mapper /\ ~ embedded
<1>1. PICK e \in CreateContextHandleFromBinary(m, mapped, ~ embedded) :
        /\ torn' = (torn \/ e.torn)
        /\ \/ m' = e.s
           \/ e.ok /\ m' = [e.s EXCEPT !.created = TRUE]
  BY DEF LoadCachedQnnContextFromBuffer
<1>2. m \in Members /\ ContextsOK(m) /\ torn \in BOOLEAN
  BY DEF BackendInv, TypeOK
<1>3. mapped \in BOOLEAN /\ (~ embedded) \in BOOLEAN
  OBVIOUS
<1> HIDE DEF mapped
<1>4. Outcome(m, e)
  BY <1>1, <1>2, <1>3, HandleKeeps
<1>5. e.s \in Members /\ ContextsOK(e.s) /\ Alike(m, e.s)
  BY <1>4, GrownAlike DEF Outcome
<1>6. torn' \in BOOLEAN /\ (~ torn' => WeightsOK(e.s))
  BY <1>1, <1>2, <1>4 DEF Outcome, BackendInv
<1>7. m' \in Members /\ Alike(m, m') /\ ContextsOK(m') /\ (WeightsOK(e.s) => WeightsOK(m'))
  <2>1. CASE m' = e.s
    BY <1>5, <2>1
  <2>2. CASE m' = [e.s EXCEPT !.created = TRUE]
    <3>1. m' \in Members
      BY <1>5, <2>2 DEF Members
    <3>2. /\ Alike(e.s, m') /\ m'.contexts = e.s.contexts /\ m'.next = e.s.next
          /\ m'.nodeCtx = e.s.nodeCtx /\ m'.buffers = e.s.buffers /\ m'.lib = e.s.lib
      BY <1>5, <2>2 DEF Members, Alike
    <3>3. ContextsOK(m') /\ (WeightsOK(e.s) => WeightsOK(m'))
      BY <1>5, <3>2 DEF ContextsOK, WeightsOK, Ids
    <3> QED
      BY <1>5, <3>1, <3>2, <3>3, AlikeTransitive
  <2> QED
    BY <1>1, <2>1, <2>2
<1>8. m.setup /\ ~ MultiSoc /\ UNCHANGED <<mode, power, soc, leaving, dlc, stuck>>
  BY DEF LoadCachedQnnContextFromBuffer
<1> QED
  BY <1>6, <1>7, <1>8, LiveStep

\* With a context go the nodes that name it.
LEMMA ReleaseSpecificKeeps ==
  ASSUME NEW s \in Members, ContextsOK(s), NEW c \in s.contexts
  PROVE  LET t == ReleaseSpecificContextHandle(s, c)
         IN  Grown(s, t) /\ (WeightsOK(s) => WeightsOK(t))
<1> DEFINE S == {x \in DOMAIN s.nodeCtx : s.nodeCtx[x] # c.id}
           f == [n \in S |-> s.nodeCtx[n]]
           b == IF c.mapped THEN s.buffers \ {c.id} ELSE s.buffers
           cs == s.contexts \ {c}
           t == ReleaseSpecificContextHandle(s, c)
<1>1. f \in Tables
  <2>1. PICK D \in SUBSET Keys : s.nodeCtx \in [D -> Nat]
    BY FieldTypes DEF Tables
  <2>2. f \in [S -> Nat] /\ S \in SUBSET Keys
    BY <2>1
  <2> QED
    BY <2>2 DEF Tables
<1>2. b \in SUBSET Nat
  BY FieldTypes
<1>3. cs \in SUBSET Contexts
  BY FieldTypes
<1>4. t = [s EXCEPT !.contexts = cs, !.buffers = b, !.nodeCtx = f]
  BY DEF ReleaseSpecificContextHandle
<1>5. DOMAIN f = S /\ \A n \in S : f[n] = s.nodeCtx[n]
  OBVIOUS
<1> HIDE DEF f, b, cs, t
<1>6. t \in Members
  BY <1>1, <1>2, <1>3, <1>4 DEF Members
<1>7. Same(s, t) /\ t.contexts = cs /\ t.buffers = b /\ t.nodeCtx = f /\ t.next = s.next
      /\ t.lib = s.lib
  BY <1>4 DEF Members, Same
<1>8. ContextsOK(t)
  <2>1. \A n \in S : s.nodeCtx[n] \in Ids(t)
    BY <1>7, SMT DEF ContextsOK, Ids, cs
  <2>2. \A n \in DOMAIN t.nodeCtx : t.nodeCtx[n] \in Ids(t)
    BY <1>5, <1>7, <2>1
  <2>3. \A d \in t.contexts : d.id < t.next /\ d.lib = t.lib
    BY <1>7 DEF ContextsOK, cs
  <2>4. \A d, e \in t.contexts : d.id = e.id => d = e
    BY <1>7 DEF ContextsOK, cs
  <2> QED
    BY <2>2, <2>3, <2>4 DEF ContextsOK
<1>9. WeightsOK(s) => WeightsOK(t)
  <2> SUFFICES ASSUME WeightsOK(s), NEW d \in cs, d.mapped PROVE d.id \in b
    BY <1>7 DEF WeightsOK
  <2>1. d \in s.contexts /\ d # c
    BY DEF cs
  <2>2. d.id \in s.buffers /\ d.id # c.id
    BY <2>1 DEF WeightsOK, ContextsOK
  <2> QED
    BY <2>2 DEF b
<1> QED
  BY <1>6, <1>7, <1>8, <1>9 DEF Grown, t

\* Giving up a context after a crash keeps the invariant.
LEMMA RecoverKeepsInv ==
  ASSUME BackendInv, NEW c \in m.contexts, RecoverFromSSR(c)
  PROVE  BackendInv'
<1>1. m \in Members /\ ContextsOK(m) /\ torn \in BOOLEAN
  BY DEF BackendInv, TypeOK
<1>2. /\ m.setup /\ c.disk /\ m' = ReleaseSpecificContextHandle(m, c)
      /\ UNCHANGED <<mode, power, soc, leaving, dlc, stuck, torn>>
  BY DEF RecoverFromSSR
<1>3. Grown(m, m') /\ (WeightsOK(m) => WeightsOK(m'))
  BY <1>1, <1>2, ReleaseSpecificKeeps
<1>4. m' \in Members /\ ContextsOK(m') /\ Alike(m, m')
  BY <1>3, GrownAlike
<1>5. torn' \in BOOLEAN /\ (~ torn' => WeightsOK(m'))
  BY <1>1, <1>2, <1>3 DEF BackendInv
<1>6. ~ MultiSoc
  BY <1>2 DEF BackendInv, SocInv
<1> QED
  BY <1>2, <1>4, <1>5, <1>6, LiveStep

\* Making the context anew keeps the invariant.
LEMMA ReloadKeepsInv == ASSUME BackendInv, ReloadContextForSSR PROVE BackendInv'
<1> DEFINE mapped == m.mapping /\ m.mapper
<1>1. PICK e \in CreateContextHandleFromBinary(m, mapped, TRUE) :
        torn' = (torn \/ e.torn) /\ m' = e.s
  BY DEF ReloadContextForSSR
<1>2. m \in Members /\ ContextsOK(m) /\ torn \in BOOLEAN
  BY DEF BackendInv, TypeOK
<1>3. mapped \in BOOLEAN
  OBVIOUS
<1> HIDE DEF mapped
<1>4. Outcome(m, e)
  BY <1>1, <1>2, <1>3, HandleKeeps
<1>5. m' \in Members /\ ContextsOK(m') /\ Alike(m, m')
  BY <1>1, <1>4, GrownAlike DEF Outcome
<1>6. torn' \in BOOLEAN /\ (~ torn' => WeightsOK(m'))
  BY <1>1, <1>2, <1>4 DEF Outcome, BackendInv
<1>7. recovering /\ m.setup /\ UNCHANGED <<mode, power, soc, leaving, dlc, stuck>>
  BY DEF ReloadContextForSSR
<1>8. ~ MultiSoc
  BY <1>7 DEF BackendInv, SocInv
<1> QED
  BY <1>5, <1>6, <1>7, <1>8, LiveStep

-----------------------------------------------------------------------------
\* Another session of the group adds nodes for contexts that exist, or loads
\* its binaries.
LEMMA AgainEndsKeep ==
  ASSUME NEW s \in Members, ContextsOK(s), s.nodeCtx = m.nodeCtx,
         NEW fs \in SUBSET Files, NEW ord \in Numberings(1, fs), NEW e \in AgainEnds(s, fs, ord)
  PROVE  /\ Grown(s, e.s) /\ e.torn \in BOOLEAN
         /\ ~ e.torn /\ WeightsOK(s) => WeightsOK(e.s)
<1>1. CASE ~ s.share
  <2>1. e = [ok |-> TRUE, s |-> s, torn |-> FALSE]
    BY <1>1 DEF AgainEnds
  <2>2. e.s = s /\ e.torn = FALSE
    BY <2>1
  <2> QED
    BY <2>2 DEF Grown, Same
<1>2. CASE s.share /\ Known(fs, ord) = {}
  <2>1. e \in CreateContextVtcmBackupBufferSharingEnabled(s, fs)
    BY <1>2 DEF AgainEnds
  <2>2. Outcome(s, e)
    BY <2>1, SharedKeeps
  <2> QED
    BY <2>2 DEF Outcome
<1>3. CASE s.share /\ Known(fs, ord) # {}
  <2> DEFINE known == Known(fs, ord)
  <2>1. PICK t \in Entries(known, ord, s.nodeCtx) :
          e = [ok |-> known = fs, s |-> [s EXCEPT !.nodeCtx = Emplace(@, t)], torn |-> FALSE]
    BY <1>3 DEF AgainEnds
  <2>2. Cardinality(fs) \in Nat
    BY FinitePart
  <2>3. \A f \in fs : ord[f] \in Int
    BY <2>2, SMT DEF Numberings
  <2>4. known \in SUBSET Files /\ \A f \in known : f \in DOMAIN s.nodeCtx
    BY <2>3, SMT DEF Known
  <2>5. s.nodeCtx \in Tables /\ s.contexts \in SUBSET Contexts
    BY FieldTypes
  <2>6. \A f \in known : s.nodeCtx[f] \in Ids(s)
    BY <2>4 DEF ContextsOK
  <2>7. \A i \in Ids(s) : i \in Nat
    BY <2>5, SMT DEF Ids, Contexts
  <2>8. t \in Tables /\ \A n \in DOMAIN t : t[n] \in {s.nodeCtx[f] : f \in known}
    <3>1. \A f \in known : s.nodeCtx[f] \in Nat
      BY <2>6, <2>7
    <3> DEFINE R == {s.nodeCtx[f] : f \in known}
               D == UNION {NodesOf[f] : f \in known}
    <3>2. t \in [D -> R]
      BY <2>1 DEF Entries
    <3>3. R \in SUBSET Nat
      BY <3>1
    <3>4. D \in SUBSET Keys
      BY <2>4 DEF Keys
    <3> HIDE DEF R, D
    <3>5. t \in [D -> Nat] /\ \A n \in DOMAIN t : t[n] \in R
      BY <3>2, <3>3
    <3> QED
      BY <3>4, <3>5 DEF Tables, R
  <2> DEFINE f == Emplace(s.nodeCtx, t)
             u == [s EXCEPT !.nodeCtx = f]
  <2>9. /\ f \in Tables
        /\ \A n \in DOMAIN f : \/ n \in DOMAIN s.nodeCtx /\ f[n] = s.nodeCtx[n]
                               \/ n \in DOMAIN t /\ f[n] = t[n]
    BY <2>5, <2>8, EmplaceTables
  <2>10. e.s = u /\ e.torn = FALSE
    BY <2>1
  <2> HIDE DEF f, known
  <2>11. u \in Members
    BY <2>9 DEF Members
  <2>12. /\ Same(s, u) /\ u.contexts = s.contexts /\ u.next = s.next /\ u.nodeCtx = f
         /\ u.buffers = s.buffers /\ u.lib = s.lib
    BY DEF Members, Same
  <2> HIDE DEF u
  <2>13. \A n \in DOMAIN f : f[n] \in Ids(s)
    BY <2>6, <2>8, <2>9, SMT DEF ContextsOK
  <2>14. ContextsOK(u) /\ (WeightsOK(s) => WeightsOK(u))
    BY <2>12, <2>13 DEF ContextsOK, WeightsOK, Ids
  <2> QED
    BY <2>10, <2>11, <2>12, <2>14 DEF Grown
<1> QED
  BY <1>1, <1>2, <1>3

\* The set-up of another session of the group keeps the invariant.
LEMMA SetupAgainKeepsInv ==
  ASSUME BackendInv, NEW cb \in BOOLEAN, NEW fs \in SUBSET Files, NEW ord \in Numberings(1, fs),
         SetupBackendAgain(cb, fs, ord)
  PROVE  BackendInv'
<1> DEFINE b == m.mapping /\ ~ cb
           s == [m EXCEPT !.mapping = b]
<1>1. PICK e \in AgainEnds(s, fs, ord) : m' = e.s /\ torn' = (torn \/ e.torn)
  BY DEF SetupBackendAgain, Again
<1>2. m \in Members /\ ContextsOK(m) /\ torn \in BOOLEAN
  BY DEF BackendInv, TypeOK
<1>3. b \in BOOLEAN
  OBVIOUS
<1> HIDE DEF b
<1>4. s \in Members
  BY <1>2, <1>3 DEF Members
<1>5. /\ Alike(m, s) /\ s.contexts = m.contexts /\ s.next = m.next /\ s.nodeCtx = m.nodeCtx
      /\ s.buffers = m.buffers /\ s.lib = m.lib
  BY <1>2 DEF Members, Alike
<1> HIDE DEF s
<1>6. ContextsOK(s) /\ (WeightsOK(m) => WeightsOK(s))
  BY <1>2, <1>5 DEF ContextsOK, WeightsOK, Ids
<1>7. /\ Grown(s, e.s) /\ e.torn \in BOOLEAN
      /\ ~ e.torn /\ WeightsOK(s) => WeightsOK(e.s)
  BY <1>1, <1>4, <1>5, <1>6, AgainEndsKeep
<1>8. m' \in Members /\ ContextsOK(m') /\ Alike(m, m')
  BY <1>1, <1>5, <1>7, GrownAlike, AlikeTransitive
<1>9. torn' \in BOOLEAN /\ (~ torn' => WeightsOK(m'))
  BY <1>1, <1>2, <1>6, <1>7 DEF BackendInv
<1>10. m.setup /\ ~ MultiSoc /\ UNCHANGED <<mode, power, soc, leaving, dlc, stuck>>
  BY DEF SetupBackendAgain, Again
<1> QED
  BY <1>8, <1>9, <1>10, LiveStep

-----------------------------------------------------------------------------
\* A stage of a set-up, before contexts are made; a set-up that is complete.
Stage(t) == t \in Members /\ t.contexts = {} /\ DOMAIN t.nodeCtx = {} /\ ~ t.partial

Ready(t) ==
  ~ stuck => ObjectsOK(t) /\ t.made["backend"] = t.lib /\ t.made["device"] = t.lib

\* A set-up begins with nothing, so all it has made belongs to the library it
\* has loaded, unless a free has failed before.
LEMMA AfterStepsFields ==
  ASSUME BackendInv, ~ m.setup, ~ MultiSoc, NEW cached \in BOOLEAN, NEW share \in BOOLEAN,
         NEW fm \in BOOLEAN, NEW k \in 0..10
  PROVE  /\ Stage(AfterSteps(cached, share, fm, k))
         /\ k = 10 => Ready(AfterSteps(cached, share, fm, k))
<1> DEFINE m1 == [m EXCEPT !.share = share]
           ks == FirstOf(SetupOrder(cached), k)
           s == Steps(m1, ks)
           mapper == fm /\ ~ s.mapper /\ s.loads > 0
           x == s.mapping \/ mapper
           y == s.mapper \/ mapper
           t == AfterSteps(cached, share, fm, k)
<1>1. m \in Members /\ ContextsOK(m)
  BY DEF BackendInv, TypeOK
<1>2. Released(m, stuck) /\ ~ m.partial
  BY DEF BackendInv, SocInv
<1>3. m1 \in Members
  BY <1>1 DEF Members
<1>4. /\ m1.contexts = m.contexts /\ m1.nodeCtx = m.nodeCtx /\ m1.partial = m.partial
      /\ m1.made = m.made
  BY <1>1 DEF Members
<1>5. m1.contexts = {} /\ DOMAIN m1.nodeCtx = {} /\ (~ stuck => \A o \in Objects : m1.made[o] = 0)
  BY <1>1, <1>2, <1>4 DEF Released, ContextsOK, Ids
<1> HIDE DEF m1
<1>6. s \in Members /\ StepsTo(m1, ks, s)
  BY <1>3, StepsFields
<1>7. t = [s EXCEPT !.mapping = x, !.mapper = y]
  BY DEF AfterSteps, m1
<1>8. x \in BOOLEAN /\ y \in BOOLEAN
  OBVIOUS
<1>9. k = 10 => "backend" \in ks /\ "device" \in ks
  BY SMT DEF SetupOrder, FirstOf
<1> HIDE DEF ks, s, x, y, t
<1>10. t \in Members
  BY <1>6, <1>7, <1>8 DEF Members
<1>11. /\ t.contexts = s.contexts /\ t.nodeCtx = s.nodeCtx /\ t.partial = s.partial
       /\ t.made = s.made /\ t.lib = s.lib /\ t.vlib = s.vlib
  BY <1>6, <1>7 DEF Members
<1>12. t.contexts = {} /\ DOMAIN t.nodeCtx = {} /\ ~ t.partial
  BY <1>2, <1>4, <1>5, <1>6, <1>11 DEF StepsTo, Stepped
<1>13. ASSUME ~ stuck, NEW o \in Objects
       PROVE  t.made[o] = (IF o \in ks THEN LibOf(t, o) ELSE 0)
  BY <1>5, <1>6, <1>11, <1>13 DEF StepsTo, LibOf
<1>14. ~ stuck => ObjectsOK(t)
  BY <1>13 DEF ObjectsOK
<1>15. /\ "backend" \in Objects /\ "device" \in Objects
       /\ LibOf(t, "backend") = t.lib /\ LibOf(t, "device") = t.lib
  BY DEF Objects, LibOf, OfValidator
<1>16. ~ stuck /\ k = 10 => t.made["backend"] = t.lib /\ t.made["device"] = t.lib
  BY <1>9, <1>13, <1>15
<1> QED
  BY <1>10, <1>12, <1>14, <1>16 DEF t, Stage, Ready

\* What a set-up may end with.
EndOK(e) ==
  /\ e.s \in Members /\ ContextsOK(e.s) /\ ~ e.s.partial
  /\ e.ok \in BOOLEAN /\ e.torn \in BOOLEAN
  /\ ~ e.torn => WeightsOK(e.s)
  /\ e.ok => Ready(e.s)

\* However a set-up ends, it leaves that.
LEMMA SetupEndsOK ==
  ASSUME BackendInv, ~ m.setup, ~ MultiSoc, NEW cached \in BOOLEAN, NEW share \in BOOLEAN,
         NEW fm \in BOOLEAN, NEW fs \in SUBSET Files, NEW e \in SetupEnds(cached, share, fm, fs)
  PROVE  EndOK(e)
<1> DEFINE A(k) == AfterSteps(cached, share, fm, k)
           whole == A(10)
<1>1. Len(SetupOrder(cached)) = 10
  BY SMT DEF SetupOrder
<1>2. ASSUME NEW k \in 0..10
      PROVE  A(k) \in Members /\ ContextsOK(A(k)) /\ WeightsOK(A(k)) /\ ~ A(k).partial
  <2>1. Stage(A(k))
    BY AfterStepsFields
  <2> QED
    BY <2>1, NoContextsOK DEF Stage
<1>3. 10 \in 0..10
  BY SMT
<1>4. Ready(whole)
  BY <1>3, AfterStepsFields
<1>5. whole \in Members /\ ContextsOK(whole) /\ WeightsOK(whole) /\ ~ whole.partial
  BY <1>2, <1>3
<1> HIDE DEF A
<1>6. ASSUME NEW k \in 0..10, e = [ok |-> FALSE, torn |-> FALSE, s |-> A(k)]
      PROVE  EndOK(e)
  <2>1. e.ok = FALSE /\ e.torn = FALSE /\ e.s = A(k)
    BY <1>6
  <2> QED
    BY <1>2, <2>1 DEF EndOK
<1>7. ASSUME NEW t, Grown(whole, t) PROVE t \in Members /\ ContextsOK(t) /\ Ready(t) /\ ~ t.partial
  <2>1. t \in Members /\ ContextsOK(t) /\ t.made = whole.made /\ t.lib = whole.lib
        /\ t.vlib = whole.vlib /\ t.partial = whole.partial
    BY <1>7 DEF Grown, Same
  <2> QED
    BY <1>4, <1>5, <2>1 DEF Ready, ObjectsOK, LibOf
<1>8. CASE e \in CreateContextVtcmBackupBufferSharingEnabled(whole, fs)
  <2>1. Outcome(whole, e)
    BY <1>5, <1>8, SharedKeeps
  <2> QED
    BY <1>5, <1>7, <2>1 DEF Outcome, EndOK
<1>9. ASSUME NEW t, Grown(whole, t), WeightsOK(t), e = [ok |-> TRUE, torn |-> FALSE, s |-> t]
      PROVE  EndOK(e)
  <2>1. e.ok = TRUE /\ e.torn = FALSE /\ e.s = t
    BY <1>9
  <2> QED
    BY <1>7, <1>9, <2>1 DEF EndOK
<1>10. Grown(whole, whole)
  BY <1>5 DEF Grown, Same
<1>11. Grown(whole, CreateContext(whole)) /\ WeightsOK(CreateContext(whole))
  BY <1>5, CreateContextKeeps
<1>12. \/ \E k \in 0..(10 - 1) : e = [ok |-> FALSE, torn |-> FALSE, s |-> A(k)]
       \/ e \in CreateContextVtcmBackupBufferSharingEnabled(whole, fs)
       \/ e = [ok |-> TRUE, torn |-> FALSE, s |-> whole]
       \/ e = [ok |-> TRUE, torn |-> FALSE, s |-> CreateContext(whole)]
       \/ e = [ok |-> FALSE, torn |-> FALSE, s |-> whole]
  BY <1>1 DEF SetupEnds, A
<1>13. \A k \in 0..(10 - 1) : k \in 0..10
  BY SMT
<1> QED
  BY <1>3, <1>5, <1>6, <1>8, <1>9, <1>10, <1>11, <1>12, <1>13

\* A release leaves the manager as it was before the set-up.
LEMMA ReleasedStep ==
  ASSUME BackendInv, NEW s \in Members, NEW failing, NEW kept,
         m' = ReleaseResources(s, failing, kept), NoteStuck(s, failing),
         torn' \in BOOLEAN, soc = 0, dlc' = <<>>, UNCHANGED <<mode, power, soc, leaving>>,
         MultiSoc => UNCHANGED <<probe, recovering>>
  PROVE  BackendInv'
<1>1. /\ stuck \in BOOLEAN /\ mode \in {"plain", "serializer", "multi_soc"} /\ power = 0
      /\ leaving = <<>>
      /\ MultiSoc => probe' = "none" /\ ~ recovering'
  <2>1. MultiSoc => probe = "none" /\ ~ recovering
    BY DEF BackendInv, SocInv
  <2>2. MultiSoc => probe' = "none" /\ ~ recovering'
    BY <2>1
  <2> QED
    BY <2>2 DEF BackendInv, TypeOK, SocInv
<1>2. Released(m', stuck') /\ stuck' \in BOOLEAN
  <2>1. Released(ReleaseResources(s, failing, kept), stuck') /\ stuck' \in BOOLEAN
    BY <1>1, NotedRelease, SMT
  <2> QED
    BY <2>1
<1>3. /\ m' \in Members /\ m'.contexts = {} /\ DOMAIN m'.nodeCtx = {} /\ m'.created = FALSE
      /\ m'.partial = FALSE /\ m'.setup = FALSE
  BY ReleaseResourcesFields, ZenonT(40)
<1>4. TypeOK'
  <2>1. <<>> \in Seq(Contexts) /\ 0 \in Nat
    BY SMT
  <2> QED
    BY <1>1, <1>2, <1>3, <2>1 DEF TypeOK
<1>5. ContextsOK(m') /\ WeightsOK(m')
  BY <1>3, NoContextsOK
<1>6. ~ stuck' => ObjectsOK(m')
  BY <1>2 DEF Released, ObjectsOK
<1>7. DlcHoldsEverySoc'
  <2>1. 1..Len(dlc') = {}
    BY SMT
  <2> QED
    BY <2>1 DEF DlcHoldsEverySoc
<1>8. "device" \in Objects
  BY DEF Objects
<1>9. ~ stuck' => m'.made["device"] = 0
  BY <1>2, <1>8 DEF Released
<1>10. soc' = 0 /\ power' = 0 /\ leaving' = <<>> /\ (MultiSoc' => probe' = "none" /\ ~ recovering')
  BY <1>1 DEF MultiSoc
<1>11. SocInv'
  BY <1>2, <1>3, <1>9, <1>10 DEF SocInv
<1> QED
  BY <1>3, <1>4, <1>5, <1>6, <1>7, <1>11 DEF BackendInv

\* A first set-up keeps the invariant, whichever step fails.
LEMMA FirstSetupKeepsInv ==
  ASSUME BackendInv, NEW cached \in BOOLEAN, NEW share \in BOOLEAN, NEW fm \in BOOLEAN,
         NEW fs \in SUBSET Files, FirstSetup(cached, share, fm, fs),
         UNCHANGED <<mode, power, soc, leaving, dlc>>
  PROVE  BackendInv'
<1>1. ~ m.setup /\ ~ MultiSoc
  BY DEF FirstSetup
<1>2. PICK e \in SetupEnds(cached, share, fm, fs) :
        /\ torn' = (torn \/ e.torn)
        /\ \/ /\ e.ok
              /\ m' = [e.s EXCEPT !.setup = TRUE]
              /\ UNCHANGED stuck
           \/ /\ ~ e.ok
              /\ \E failing \in FailingSets : \E kept \in SUBSET e.s.buffers :
                   /\ m' = ReleaseResources(e.s, failing, kept)
                   /\ NoteStuck(e.s, failing)
  BY DEF FirstSetup
<1>3. EndOK(e)
  BY <1>1, <1>2, SetupEndsOK
<1>4. torn \in BOOLEAN /\ soc = 0 /\ dlc = <<>> /\ power = 0 /\ leaving = <<>>
  BY <1>1 DEF BackendInv, TypeOK, SocInv
<1>5. torn' \in BOOLEAN /\ (~ torn' => WeightsOK(e.s))
  BY <1>2, <1>3, <1>4 DEF EndOK
<1>6. CASE /\ e.ok
           /\ m' = [e.s EXCEPT !.setup = TRUE]
           /\ UNCHANGED stuck
  <2> DEFINE s == e.s
  <2>1. s \in Members /\ ContextsOK(s) /\ ~ s.partial /\ Ready(s)
    BY <1>3, <1>6 DEF EndOK
  <2>2. m' = [s EXCEPT !.setup = TRUE] /\ (~ torn' => WeightsOK(s))
    BY <1>5, <1>6
  <2> HIDE DEF s
  <2>3. m' \in Members
    BY <2>1, <2>2 DEF Members
  <2>4. /\ m'.contexts = s.contexts /\ m'.next = s.next /\ m'.nodeCtx = s.nodeCtx
        /\ m'.buffers = s.buffers /\ m'.lib = s.lib /\ m'.vlib = s.vlib /\ m'.made = s.made
        /\ m'.partial = s.partial /\ m'.setup = TRUE
    BY <2>1, <2>2 DEF Members
  <2>5. ContextsOK(m') /\ (~ torn' => WeightsOK(m'))
    BY <2>1, <2>2, <2>4 DEF ContextsOK, WeightsOK, Ids
  <2>6. ~ stuck' => /\ ObjectsOK(m') /\ m'.made["backend"] = m'.lib
                    /\ m'.made["device"] = m'.lib
    BY <1>6, <2>1, <2>4 DEF Ready, ObjectsOK, LibOf
  <2>7. TypeOK'
    BY <1>1, <1>5, <1>6, <2>3 DEF BackendInv, TypeOK
  <2>8. DlcHoldsEverySoc'
    BY <1>1, <1>6 DEF BackendInv, DlcHoldsEverySoc
  <2>9. ~ MultiSoc' /\ soc' = 0 /\ dlc' = <<>> /\ power' = 0 /\ leaving' = <<>>
    BY <1>1, <1>4 DEF MultiSoc
  <2>10. SocInv'
    BY <2>1, <2>4, <2>9 DEF SocInv
  <2> QED
    BY <2>5, <2>6, <2>7, <2>8, <2>10 DEF BackendInv
<1>7. CASE \E failing \in FailingSets : \E kept \in SUBSET e.s.buffers :
                   /\ m' = ReleaseResources(e.s, failing, kept)
                   /\ NoteStuck(e.s, failing)
  BY <1>1, <1>3, <1>4, <1>5, <1>7, ReleasedStep DEF EndOK
<1> QED
  BY <1>2, <1>6, <1>7

\* The release at the end of a session keeps the invariant.
LEMMA ReleaseKeepsInv == ASSUME BackendInv, Release PROVE BackendInv'
<1>1. m \in Members /\ torn \in BOOLEAN
  BY DEF BackendInv, TypeOK
<1> QED
  BY <1>1, ReleasedStep DEF Release, ReleaseAll

\* A step that touches nothing the invariant speaks of.
LEMMA SideStep ==
  ASSUME BackendInv, ~ MultiSoc, UNCHANGED <<mode, m, power, soc, leaving, dlc, stuck, torn>>
  PROVE  BackendInv'
BY DEF BackendInv, TypeOK, ContextsOK, WeightsOK, Ids, ObjectsOK, LibOf, DlcHoldsEverySoc,
   SocInv, Released, MultiSoc

\* Neither does a compatibility probe break it, whatever it releases.
LEMMA ProbeKeepsInv == ASSUME BackendInv, ProbeBegin \/ ProbeSetup \/ ProbeEnd PROVE BackendInv'
<1>1. CASE ProbeBegin
  BY <1>1, SideStep DEF ProbeBegin
<1>2. CASE ProbeSetup
  <2>1. UNCHANGED <<mode, power, soc, leaving, dlc>> /\ ~ MultiSoc
    <3>1. "begun" # "none"
      OBVIOUS
    <3> QED
      BY <1>2, <3>1 DEF ProbeSetup, BackendInv, SocInv
  <2>2. CASE FirstSetup(TRUE, FALSE, FALSE, {})
    <3>1. {} \in SUBSET Files /\ TRUE \in BOOLEAN /\ FALSE \in BOOLEAN
      OBVIOUS
    <3> QED
      BY <2>1, <2>2, <3>1, FirstSetupKeepsInv
  <2>3. CASE UNCHANGED <<m, stuck, torn>>
    BY <2>1, <2>3, SideStep
  <2> QED
    BY <1>2, <2>2, <2>3 DEF ProbeSetup
<1>3. CASE ProbeEnd
  <2>1. ~ MultiSoc
    <3>1. "up" # "none"
      OBVIOUS
    <3> QED
      BY <1>3, <3>1 DEF ProbeEnd, BackendInv, SocInv
  <2>2. m \in Members /\ torn \in BOOLEAN /\ soc = 0 /\ dlc = <<>>
    BY <2>1 DEF BackendInv, TypeOK, SocInv
  <2>3. UNCHANGED <<mode, power, soc, leaving, dlc, torn>> /\ ReleaseAll
    BY <1>3 DEF ProbeEnd
  <2> QED
    BY <2>1, <2>2, <2>3, ReleasedStep DEF ReleaseAll
<1> QED
  BY <1>1, <1>2, <1>3

\* The set-up of a multi-SoC session makes everything but the device.
LEMMA PartialSetupKeepsInv ==
  ASSUME BackendInv, SetupBackendExceptDeviceAndContext
  PROVE  BackendInv'
<1>1. MultiSoc /\ ~ m.partial
      /\ UNCHANGED <<mode, power, soc, leaving, dlc, probe, recovering, torn>>
  BY DEF SetupBackendExceptDeviceAndContext
<1>2. Len(PartialOrder) = 7
  BY SMT DEF PartialOrder
<1>3. PICK k \in 0..7 :
        \/ /\ k = 7
           /\ m' = [Steps(m, FirstOf(PartialOrder, k)) EXCEPT !.partial = TRUE]
           /\ UNCHANGED stuck
        \/ \E failing \in FailingSets :
             \E kept \in SUBSET Steps(m, FirstOf(PartialOrder, k)).buffers :
               /\ m' = ReleaseResources(Steps(m, FirstOf(PartialOrder, k)), failing, kept)
               /\ NoteStuck(Steps(m, FirstOf(PartialOrder, k)), failing)
  BY <1>2 DEF SetupBackendExceptDeviceAndContext
<1> DEFINE ks == FirstOf(PartialOrder, k)
           s == Steps(m, ks)
<1>4. /\ m \in Members /\ torn \in BOOLEAN /\ ContextsOK(m) /\ soc = 0 /\ dlc = <<>>
      /\ power = 0 /\ leaving = <<>> /\ probe = "none" /\ ~ recovering /\ ~ m.setup /\ m.contexts = {} /\ ~ m.created
      /\ ~ stuck => \A o \in Objects : m.made[o] = 0
  BY <1>1 DEF BackendInv, TypeOK, SocInv, Released
<1>5. s \in Members /\ StepsTo(m, ks, s)
  BY <1>4, StepsFields
<1>6. CASE k = 7 /\ m' = [s EXCEPT !.partial = TRUE] /\ UNCHANGED stuck
  <2>1. "backend" \in ks /\ "device" \notin ks
    <3>1. PartialOrder[4] = "backend" /\ \A i \in 1..7 : PartialOrder[i] # "device"
      BY SMT DEF PartialOrder
    <3> QED
      BY <1>6, <3>1, SMT DEF FirstOf
  <2>2. "backend" \in Objects /\ "device" \in Objects
    BY DEF Objects
  <2> HIDE DEF s, ks
  <2>3. m' \in Members
    BY <1>5, <1>6 DEF Members
  <2>4. /\ m'.contexts = s.contexts /\ m'.nodeCtx = s.nodeCtx /\ m'.created = s.created
        /\ m'.lib = s.lib /\ m'.vlib = s.vlib /\ m'.made = s.made
        /\ m'.partial = TRUE /\ m'.setup = s.setup
    BY <1>5, <1>6 DEF Members
  <2>5. m'.contexts = {} /\ ~ m'.setup /\ ~ m'.created /\ m'.nodeCtx = m.nodeCtx
    BY <1>4, <1>5, <2>4 DEF StepsTo, Stepped
  <2>6. DOMAIN m.nodeCtx = {}
    BY <1>4 DEF ContextsOK, Ids
  <2>7. ContextsOK(m') /\ WeightsOK(m')
    BY <2>5, <2>6, NoContextsOK
  <2>8. ~ stuck' => ObjectsOK(m') /\ m'.made["backend"] = m'.lib /\ m'.made["device"] = 0
    BY <1>4, <1>5, <1>6, <2>1, <2>2, <2>4, SMT DEF StepsTo, ObjectsOK, LibOf,
       OfValidator
  <2>9. TypeOK'
    BY <1>1, <1>6, <2>3 DEF BackendInv, TypeOK
  <2>10. DlcHoldsEverySoc'
    BY <1>1, <1>6 DEF BackendInv, DlcHoldsEverySoc
  <2>11. MultiSoc' /\ soc' = 0 /\ dlc' = <<>> /\ power' = 0 /\ leaving' = <<>>
         /\ probe' = "none" /\ ~ recovering'
    BY <1>1, <1>4 DEF MultiSoc
  <2>12. SocInv'
    BY <2>4, <2>5, <2>8, <2>11 DEF SocInv
  <2> QED
    BY <2>5, <2>7, <2>8, <2>9, <2>10, <2>12 DEF BackendInv
<1>7. CASE \E failing \in FailingSets : \E kept \in SUBSET s.buffers :
               /\ m' = ReleaseResources(s, failing, kept)
               /\ NoteStuck(s, failing)
  BY <1>1, <1>4, <1>5, <1>7, ReleasedStep
<1> QED
  BY <1>3, <1>6, <1>7

\* Leaving a round: the device is gone unless freeing it failed, which is
\* noted.
LEMMA DeviceReleased ==
  ASSUME NEW s \in Members, NEW failing \in {{}, {"device"}}, stuck \in BOOLEAN,
         NoteStuck(s, failing)
  PROVE  /\ stuck' \in BOOLEAN
         /\ ~ stuck' => ReleaseDeviceAndContext(s, failing).made["device"] = 0
         /\ \A o \in Objects : o # "device" =>
               ReleaseDeviceAndContext(s, failing).made[o] = s.made[o]
<1>1. stuck' = (stuck \/ \E o \in failing : s.made[o] # 0)
  BY DEF NoteStuck
<1>2. ReleaseDeviceAndContext(s, failing).made = Freed(s.made, {"device"}, failing)
  BY ReleaseDeviceFields
<1>3. "device" \in Objects
  BY DEF Objects
<1>4. ~ stuck' => Freed(s.made, {"device"}, failing)["device"] = 0
  BY <1>1, <1>3 DEF Freed
<1>5. \A o \in Objects : o # "device" => Freed(s.made, {"device"}, failing)[o] = s.made[o]
  BY DEF Freed
<1> QED
  BY <1>1, <1>2, <1>4, <1>5

\* A step that leaves a multi-SoC session with no device and no context.
LEMMA RoundLeft ==
  ASSUME BackendInv, MultiSoc, m.partial, NEW s \in Members, NEW failing \in {{}, {"device"}},
         m' = ReleaseDeviceAndContext(s, failing), NoteStuck(s, failing),
         s.lib = m.lib, s.vlib = m.vlib, s.partial = m.partial,
         \A o \in Objects : o # "device" => s.made[o] = m.made[o],
         soc' = 0, power' = 0, leaving' = <<>>, UNCHANGED <<mode, probe, recovering, torn>>,
         dlc' \in Seq(Contexts), DlcHoldsEverySoc'
  PROVE  BackendInv'
<1>1. stuck \in BOOLEAN
  BY DEF BackendInv, TypeOK
<1>2. /\ stuck' \in BOOLEAN
      /\ ~ stuck' => m'.made["device"] = 0
      /\ \A o \in Objects : o # "device" => m'.made[o] = s.made[o]
  BY <1>1, DeviceReleased
<1>3. /\ m' \in Members
      /\ m'.contexts = {} /\ DOMAIN m'.nodeCtx = {} /\ m'.created = FALSE
      /\ m'.lib = m.lib /\ m'.vlib = m.vlib
      /\ m'.partial = m.partial /\ m'.setup = FALSE
  BY ReleaseDeviceFields
<1>4. ContextsOK(m') /\ WeightsOK(m')
  BY <1>3, NoContextsOK
<1>5. \A o \in Objects : o # "device" => m'.made[o] = m.made[o]
  BY <1>2
<1>6. ~ stuck' => ~ stuck
  BY DEF NoteStuck
<1>7. "backend" \in Objects /\ "backend" # "device"
  BY DEF Objects
<1>8. ~ stuck' => ObjectsOK(m') /\ m'.made["backend"] = m'.lib
  BY <1>2, <1>3, <1>5, <1>6, <1>7 DEF BackendInv, ObjectsOK, LibOf
<1>9. TypeOK'
  <2>1. 0 \in Nat
    OBVIOUS
  <2> QED
    BY <1>2, <1>3, <2>1 DEF BackendInv, TypeOK
<1>10. MultiSoc' /\ probe' = "none" /\ ~ recovering'
  BY DEF MultiSoc, BackendInv, SocInv
<1>11. SocInv'
  BY <1>2, <1>3, <1>10 DEF SocInv
<1> QED
  BY <1>3, <1>4, <1>8, <1>9, <1>11 DEF BackendInv

\* The members while the next round is being set up: the device is new, and
\* made for SoC i, unless an old one was left.
LEMMA RoundFields ==
  ASSUME NEW i \in Nat, NEW done \in {0, 1}, m \in Members
  PROVE  LET s == SetupDeviceAndContext(i, done)
         IN  /\ s \in Members /\ s.lib = m.lib /\ s.vlib = m.vlib /\ s.loaded = m.loaded
             /\ s.partial = m.partial /\ s.setup = m.setup /\ s.created = m.created
             /\ s.contexts = m.contexts /\ s.nodeCtx = m.nodeCtx /\ s.next = m.next
             /\ s.buffers = m.buffers
             /\ \A o \in Objects : o # "device" => s.made[o] = m.made[o]
             /\ done = 1 /\ m.made["device"] = 0 => s.made["device"] = m.lib /\ s.deviceSoc = i
<1> DEFINE s0 == [m EXCEPT !.target = i]
           s1 == Steps(s0, {"device"})
           s == SetupDeviceAndContext(i, done)
<1> HIDE DEF s0
<1>1. s0 \in Members
  BY DEF Members, s0
<1>2. /\ s0.lib = m.lib /\ s0.vlib = m.vlib /\ s0.loaded = m.loaded
      /\ s0.partial = m.partial /\ s0.setup = m.setup /\ s0.created = m.created
      /\ s0.contexts = m.contexts /\ s0.nodeCtx = m.nodeCtx /\ s0.next = m.next
      /\ s0.buffers = m.buffers /\ s0.made = m.made /\ s0.target = i
  BY DEF Members, s0
<1>3. s1 \in Members /\ StepsTo(s0, {"device"}, s1)
  BY <1>1, StepsFields
<1>4. "lib" \notin {"device"} /\ "device" \in Objects /\ "device" \notin OfValidator
  BY DEF Objects, OfValidator
<1>5. CASE done = 0
  <2>1. s = s0
    BY <1>5, SMT DEF SetupDeviceAndContext, s0
  <2> QED
    BY <1>1, <1>2, <1>5, <2>1, SMT
<1>6. CASE done = 1
  <2>1. s = s1
    BY <1>6, SMT DEF SetupDeviceAndContext, s0
  <2> HIDE DEF s1
  <2>2. /\ s1.lib = m.lib /\ s1.vlib = m.vlib /\ s1.loaded = m.loaded
        /\ \A o \in Objects : o # "device" => s1.made[o] = m.made[o]
        /\ m.made["device"] = 0 => s1.made["device"] = m.lib /\ s1.deviceSoc = i
    BY <1>2, <1>3, <1>4 DEF StepsTo, LibOf
  <2>3. /\ s1.partial = m.partial /\ s1.setup = m.setup /\ s1.created = m.created
        /\ s1.contexts = m.contexts /\ s1.nodeCtx = m.nodeCtx /\ s1.next = m.next
        /\ s1.buffers = m.buffers
    BY <1>2, <1>3 DEF StepsTo, Stepped
  <2> QED
    BY <1>3, <2>1, <2>2, <2>3
<1> QED
  BY <1>5, <1>6

\* The steps that leave a round.
LEMMA LeaveSteps ==
  /\ Head(LeaveOrder) = "power" /\ Len(LeaveOrder) = 2 /\ LeaveOrder # <<>>
  /\ Tail(LeaveOrder) # <<>> /\ LeaveOrder # Tail(LeaveOrder)
  /\ Head(Tail(LeaveOrder)) = "device" /\ Len(Tail(LeaveOrder)) = 1
  /\ Tail(Tail(LeaveOrder)) = <<>>
BY SMT DEF LeaveOrder

\* The next round is set up completely, or nothing of it is left.
LEMMA ScopedInitKeepsInv == ASSUME BackendInv, ScopedInit PROVE BackendInv'
<1> DEFINE i == Len(dlc) + 1
<1>1. /\ MultiSoc /\ m.partial /\ ~ m.setup /\ soc = 0
      /\ UNCHANGED <<mode, leaving, dlc, probe, recovering, torn>>
      /\ \/ /\ m' = SetupDeviceAndContext(i, 2)
            /\ soc' = i
            /\ power' \in {0, m'.made["device"]}
            /\ UNCHANGED stuck
         \/ \E done \in {0, 1} : \E failing \in {{}, {"device"}} :
              /\ m' = ReleaseDeviceAndContext(SetupDeviceAndContext(i, done), failing)
              /\ NoteStuck(SetupDeviceAndContext(i, done), failing)
              /\ UNCHANGED <<power, soc>>
  BY DEF ScopedInit
<1>2. /\ m \in Members /\ ContextsOK(m) /\ dlc \in Seq(Contexts) /\ power = 0 /\ ~ m.created
      /\ leaving = <<>> /\ probe = "none" /\ ~ recovering
      /\ m.contexts = {} /\ (~ stuck => m.made["device"] = 0)
  BY <1>1 DEF BackendInv, TypeOK, SocInv
<1>3. i \in Nat /\ i # 0
  BY <1>2, SMT
<1>4. DOMAIN m.nodeCtx = {}
  BY <1>2 DEF ContextsOK, Ids
<1>5. DlcHoldsEverySoc' \/ stuck # stuck'
  BY <1>1, SMT DEF BackendInv, DlcHoldsEverySoc
<1> HIDE DEF i
<1>6. CASE /\ m' = SetupDeviceAndContext(i, 2) /\ soc' = i
           /\ power' \in {0, m'.made["device"]} /\ UNCHANGED stuck
  <2> DEFINE s == SetupDeviceAndContext(i, 1)
             t == CreateContext(s)
  <2>1. /\ s \in Members /\ s.lib = m.lib /\ s.vlib = m.vlib
        /\ s.partial = m.partial /\ s.setup = m.setup
        /\ s.contexts = m.contexts /\ s.nodeCtx = m.nodeCtx
        /\ \A o \in Objects : o # "device" => s.made[o] = m.made[o]
        /\ m.made["device"] = 0 => s.made["device"] = m.lib /\ s.deviceSoc = i
    BY <1>2, <1>3, RoundFields
  <2>2. m' = [t EXCEPT !.setup = TRUE]
    BY <1>6, SMT DEF SetupDeviceAndContext
  <2>3. ContextsOK(s) /\ WeightsOK(s)
    BY <1>2, <1>4, <2>1, NoContextsOK
  <2> HIDE DEF s
  <2>4. /\ Grown(s, t) /\ WeightsOK(t)
        /\ \A c \in t.contexts : ~ c.disk /\ c.soc = s.deviceSoc
    BY <1>2, <2>1, <2>3, CreateContextKeeps
  <2> HIDE DEF t
  <2>5. t \in Members /\ ContextsOK(t) /\ Same(s, t)
    BY <2>4 DEF Grown
  <2>6. m' \in Members
    BY <2>2, <2>5 DEF Members
  <2>7. /\ m'.contexts = t.contexts /\ m'.next = t.next /\ m'.nodeCtx = t.nodeCtx
        /\ m'.buffers = t.buffers /\ m'.lib = t.lib /\ m'.vlib = t.vlib /\ m'.made = t.made
        /\ m'.partial = t.partial /\ m'.setup = TRUE
    BY <2>2, <2>5 DEF Members
  <2>8. ContextsOK(m') /\ WeightsOK(m')
    BY <2>4, <2>5, <2>7 DEF ContextsOK, WeightsOK, Ids
  <2>9. /\ m'.lib = m.lib /\ m'.vlib = m.vlib /\ m'.made = s.made /\ m'.partial
    BY <1>1, <2>1, <2>5, <2>7 DEF Same
  <2>10. "backend" \in Objects /\ "backend" # "device" /\ "device" \notin OfValidator
         /\ "device" \in Objects
    BY DEF Objects, OfValidator
  <2>11. ~ stuck => ObjectsOK(m') /\ m'.made["backend"] = m'.lib /\ m'.made["device"] = m'.lib
    BY <1>1, <1>2, <2>1, <2>9, <2>10, SMT DEF BackendInv, ObjectsOK, LibOf
  <2>12. ~ stuck => \A c \in m'.contexts : c.soc = soc'
    BY <1>2, <1>6, <2>1, <2>4, <2>7
  <2>13. \A c \in m'.contexts : ~ c.disk
    BY <2>4, <2>7
  <2>14. power' \in Nat
    <3>1. m'.made \in [Objects -> Nat] /\ 0 \in Nat
      BY <2>6, FieldTypes
    <3> QED
      BY <1>6, <2>10, <3>1
  <2>15. TypeOK'
    BY <1>1, <1>3, <1>6, <2>6, <2>14 DEF BackendInv, TypeOK
  <2>16. /\ MultiSoc' /\ soc' # 0 /\ soc' = Len(dlc') + 1
         /\ leaving' = <<>> /\ probe' = "none" /\ ~ recovering'
    BY <1>1, <1>2, <1>3, <1>6 DEF MultiSoc, i
  <2>17. SocInv'
    BY <1>6, <2>7, <2>9, <2>12, <2>13, <2>16, LeaveSteps DEF SocInv
  <2> QED
    BY <1>5, <1>6, <2>7, <2>8, <2>9, <2>11, <2>15, <2>17 DEF BackendInv
<1>7. ASSUME NEW done \in {0, 1}, NEW failing \in {{}, {"device"}},
             m' = ReleaseDeviceAndContext(SetupDeviceAndContext(i, done), failing),
             NoteStuck(SetupDeviceAndContext(i, done), failing), UNCHANGED <<power, soc>>
      PROVE  BackendInv'
  <2> DEFINE s == SetupDeviceAndContext(i, done)
  <2>1. /\ s \in Members /\ s.lib = m.lib /\ s.vlib = m.vlib /\ s.partial = m.partial
        /\ \A o \in Objects : o # "device" => s.made[o] = m.made[o]
    BY <1>2, <1>3, RoundFields
  <2>2. DlcHoldsEverySoc'
    <3>1. ~ stuck' => ~ stuck
      BY <1>7 DEF NoteStuck
    <3> QED
      BY <1>1, <3>1 DEF BackendInv, DlcHoldsEverySoc
  <2> HIDE DEF s
  <2>3. m' = ReleaseDeviceAndContext(s, failing) /\ NoteStuck(s, failing)
    BY <1>7 DEF s
  <2> QED
    BY <1>1, <1>2, <1>7, <2>1, <2>2, <2>3, RoundLeft
<1> QED
  BY <1>1, <1>6, <1>7

\* The context that is appended to the DLC is the one of the round's SoC.
LEMMA RoundEndsKeepsInv == ASSUME BackendInv, RoundEnds PROVE BackendInv'
<1>1. /\ soc # 0 /\ leaving = <<>> /\ leaving' = LeaveOrder
      /\ UNCHANGED <<mode, m, power, soc, probe, recovering, stuck, torn>>
      /\ dlc' \in {dlc} \cup AddContextToDlc
  BY DEF RoundEnds
<1>2. MultiSoc /\ m.partial /\ m \in Members /\ dlc \in Seq(Contexts) /\ soc = Len(dlc) + 1
  BY <1>1 DEF BackendInv, TypeOK, SocInv
<1>3. m.contexts \in SUBSET Contexts
  BY <1>2, FieldTypes
<1>4. dlc' \in Seq(Contexts) /\ DlcHoldsEverySoc'
  <2>1. CASE dlc' = dlc
    BY <1>1, <1>2, <2>1 DEF BackendInv, DlcHoldsEverySoc
  <2>2. ASSUME NEW c \in m.contexts, dlc' = Append(dlc, c)
        PROVE  dlc' \in Seq(Contexts) /\ DlcHoldsEverySoc'
    <3>1. c \in Contexts /\ (~ stuck => c.soc = soc)
      BY <1>1, <1>3 DEF BackendInv, SocInv
    <3>2. /\ dlc' \in Seq(Contexts) /\ Len(dlc') = Len(dlc) + 1 /\ dlc'[Len(dlc) + 1] = c
          /\ \A i \in 1..Len(dlc) : dlc'[i] = dlc[i]
      BY <1>2, <2>2, <3>1, SMT
    <3>3. \A i \in 1..(Len(dlc) + 1) : i = Len(dlc) + 1 \/ i \in 1..Len(dlc)
      BY <1>2, SMT
    <3> QED
      BY <1>1, <1>2, <3>1, <3>2, <3>3 DEF BackendInv, DlcHoldsEverySoc
  <2> QED
    BY <1>1, <2>1, <2>2 DEF AddContextToDlc
<1>5. TypeOK' /\ ContextsOK(m)' /\ (~ torn' => WeightsOK(m)')
  BY <1>1, <1>4 DEF BackendInv, TypeOK, ContextsOK, WeightsOK, Ids
<1>6. ~ stuck' => /\ ObjectsOK(m)'
                  /\ m'.setup \/ m'.partial => m'.made["backend"] = m'.lib
                  /\ m'.setup => m'.made["device"] = m'.lib
  BY <1>1 DEF BackendInv, ObjectsOK, LibOf
<1>7. SocInv'
  BY <1>1, <1>2, LeaveSteps DEF BackendInv, SocInv, MultiSoc
<1> QED
  BY <1>4, <1>5, <1>6, <1>7 DEF BackendInv

\* The destructor of the scope gives up the power id first, then the device.
LEMMA ScopedEndKeepsInv == ASSUME BackendInv, ScopedEnd PROVE BackendInv'
<1>1. /\ leaving # <<>> /\ leaving' = Tail(leaving)
      /\ soc' = (IF Len(leaving) = 1 THEN 0 ELSE soc)
      /\ UNCHANGED <<mode, dlc, probe, recovering, torn>>
  BY DEF ScopedEnd
<1>2. /\ MultiSoc /\ m.partial /\ m \in Members /\ dlc \in Seq(Contexts) /\ soc # 0
      /\ leaving \in {LeaveOrder, Tail(LeaveOrder)}
  BY <1>1 DEF BackendInv, TypeOK, SocInv
<1>3. CASE leaving = LeaveOrder
  <2>1. /\ power' = 0 /\ UNCHANGED <<m, stuck>> /\ soc' = soc
        /\ leaving' = Tail(LeaveOrder)
    <3>1. Head(leaving) # "device" /\ Len(leaving) # 1
      BY <1>3, LeaveSteps, SMT
    <3> QED
      BY <1>1, <1>3, <3>1 DEF ScopedEnd
  <2>2. TypeOK' /\ ContextsOK(m)' /\ (~ torn' => WeightsOK(m)')
    <3>1. 0 \in Nat
      OBVIOUS
    <3> QED
      BY <1>1, <2>1, <3>1 DEF BackendInv, TypeOK, ContextsOK, WeightsOK, Ids
  <2>3. ~ stuck' => /\ ObjectsOK(m)'
                    /\ m'.setup \/ m'.partial => m'.made["backend"] = m'.lib
                    /\ m'.setup => m'.made["device"] = m'.lib
    BY <2>1 DEF BackendInv, ObjectsOK, LibOf
  <2>4. DlcHoldsEverySoc'
    BY <1>1, <2>1 DEF BackendInv, DlcHoldsEverySoc
  <2>5. SocInv'
    BY <1>1, <1>2, <2>1, LeaveSteps DEF BackendInv, SocInv, MultiSoc
  <2> QED
    BY <2>2, <2>3, <2>4, <2>5 DEF BackendInv
<1>4. CASE leaving = Tail(LeaveOrder)
  <2>1. /\ leaving' = <<>> /\ soc' = 0 /\ UNCHANGED power
        /\ \E failing \in {{}, {"device"}} :
              m' = ReleaseDeviceAndContext(m, failing) /\ NoteStuck(m, failing)
    <3>1. Head(leaving) # "power" /\ Len(leaving) = 1 /\ Tail(leaving) = <<>>
      BY <1>4, LeaveSteps, SMT
    <3> QED
      BY <1>1, <3>1 DEF ScopedEnd
  <2>2. power' = 0
    BY <1>4, <2>1 DEF BackendInv, SocInv
  <2>3. PICK failing \in {{}, {"device"}} :
          m' = ReleaseDeviceAndContext(m, failing) /\ NoteStuck(m, failing)
    BY <2>1
  <2>4. DlcHoldsEverySoc'
    <3>1. ~ stuck' => ~ stuck
      BY <2>3 DEF NoteStuck
    <3> QED
      BY <1>1, <3>1 DEF BackendInv, DlcHoldsEverySoc
  <2> QED
    BY <1>1, <1>2, <2>1, <2>2, <2>3, <2>4, RoundLeft
<1> QED
  BY <1>2, <1>3, <1>4

\* Every step of the manager keeps BackendInv.
LEMMA NextBackendInv == BackendInv /\ [Next]_vars => BackendInv'
<1> SUFFICES ASSUME BackendInv, [Next]_vars PROVE BackendInv'
  OBVIOUS
<1>1. CASE UNCHANGED vars
  BY <1>1 DEF vars, BackendInv, TypeOK, ContextsOK, WeightsOK, Ids, ObjectsOK,
     LibOf,
                     DlcHoldsEverySoc, SocInv, Released, MultiSoc
<1>2. ASSUME NEW cached \in BOOLEAN, NEW share \in BOOLEAN, NEW fm \in BOOLEAN,
             NEW fs \in (SUBSET Files) \ {{}}, SetupBackend(cached, share, fm, fs)
      PROVE  BackendInv'
  BY <1>2, FirstSetupKeepsInv DEF SetupBackend
<1>3. ASSUME NEW cb \in BOOLEAN, NEW fs \in (SUBSET Files) \ {{}}, NEW ord \in Numberings(1, fs),
             SetupBackendAgain(cb, fs, ord)
      PROVE  BackendInv'
  BY <1>3, SetupAgainKeepsInv
<1>4. ASSUME NEW embedded \in BOOLEAN, LoadCachedQnnContextFromBuffer(embedded)
      PROVE  BackendInv'
  BY <1>4, LoadCachedKeepsInv
<1>5. ASSUME NEW c \in m.contexts, RecoverFromSSR(c) PROVE BackendInv'
  BY <1>5, RecoverKeepsInv
<1>6. CASE Release
  BY <1>6, ReleaseKeepsInv
<1>7. CASE SetupBackendExceptDeviceAndContext
  BY <1>7, PartialSetupKeepsInv
<1>8. CASE ScopedInit
  BY <1>8, ScopedInitKeepsInv
<1>9. CASE ScopedEnd
  BY <1>9, ScopedEndKeepsInv
<1>10. CASE ReloadContextForSSR
  BY <1>10, ReloadKeepsInv
<1>11. CASE ProbeBegin \/ ProbeSetup \/ ProbeEnd
  BY <1>11, ProbeKeepsInv
<1>12. CASE RoundEnds
  BY <1>12, RoundEndsKeepsInv
<1> QED
  BY <1>1, <1>2, <1>3, <1>4, <1>5, <1>6, <1>7, <1>8, <1>9, <1>10, <1>11, <1>12 DEF Next

\* BackendInv holds in every state of every execution.
THEOREM BackendInvHolds == Spec => []BackendInv
BY InitBackendInv, NextBackendInv, PTL DEF Spec

\* No EPContext node is left pointing at a context that has been freed, for any
\* binaries and nodes, whichever loads and frees fail and in whichever order
\* the callbacks of a list load come.
THEOREM NodesHaveContextsHolds == Spec => []NodesHaveContexts
<1>1. BackendInv => NodesHaveContexts
  BY DEF BackendInv, ContextsOK, NodesHaveContexts
<1> QED
  BY <1>1, BackendInvHolds, PTL

\* Unless a free has failed, a manager that is set up works only with objects
\* and contexts made through the library it has loaded now: nothing of an
\* attempt that was cleaned up survives into a retry, at whichever step it
\* failed.
THEOREM ObjectsOfTheLoadedLibraryHolds == Spec => []ObjectsOfTheLoadedLibrary
<1>1. ASSUME BackendInv, ~ stuck, m.setup \/ m.partial
      PROVE  /\ \A o \in Objects \ OfValidator : m.made[o] \in {0, m.lib}
             /\ \A o \in OfValidator : m.made[o] \in {0, m.vlib}
             /\ m.setup => m.made["device"] = m.lib /\ m.made["backend"] = m.lib
             /\ \A c \in m.contexts : c.lib = m.lib
             /\ power # 0 => m.made["device"] = power
  <2>1. \A o \in Objects : m.made[o] \in {0, LibOf(m, o)}
    BY <1>1 DEF BackendInv, ObjectsOK
  <2>2. \A o \in Objects \ OfValidator : m.made[o] \in {0, m.lib}
    BY <2>1 DEF LibOf
  <2>3. \A o \in OfValidator : o \in Objects
    BY DEF Objects, OfValidator
  <2>4. \A o \in OfValidator : m.made[o] \in {0, m.vlib}
    BY <2>1, <2>3 DEF LibOf
  <2> QED
    BY <1>1, <2>2, <2>4 DEF BackendInv, ContextsOK, SocInv
<1> QED
  <2>1. BackendInv => ObjectsOfTheLoadedLibrary
    BY <1>1 DEF ObjectsOfTheLoadedLibrary
  <2> QED
    BY <2>1, BackendInvHolds, PTL

\* The DLC of a multi-SoC session holds one context per SoC, in order, for any
\* number of SoCs and with any rounds failing, unless freeing a device failed.
THEOREM DlcHoldsEverySocHolds == Spec => []DlcHoldsEverySoc
<1>1. BackendInv => DlcHoldsEverySoc
  BY DEF BackendInv
<1> QED
  BY <1>1, BackendInvHolds, PTL

\* What emplacing entries for the files fs leaves in the table.
LEMMA EmplacedKeys ==
  ASSUME NEW s, NEW fs, NEW ord, NEW of, NEW t \in Entries(fs, ord, of)
  PROVE  DOMAIN Emplace(s, t) = DOMAIN s \cup KeysOf(fs)
BY DEF Entries, Emplace, KeysOf

\* The keys that a list load reports and the ones it found are in the table.
Kept(s, e, fs) ==
  /\ DOMAIN s.nodeCtx \subseteq DOMAIN e.s.nodeCtx
  /\ e.ok => KeysOf(fs) \subseteq DOMAIN e.s.nodeCtx

\* The callbacks of the binaries of a list put all their nodes into the table.
LEMMA ProcessServes ==
  ASSUME NEW s \in Members, NEW fs, NEW mapped,
         NEW t \in ProcessContextFromBinListAsync(s, fs, mapped)
  PROVE  DOMAIN t.nodeCtx = DOMAIN s.nodeCtx \cup KeysOf(fs)
<1>1. PICK id \in Numberings(s.next, fs) : \E x \in Entries(fs, id, id) :
        t = [s EXCEPT !.next = @ + Cardinality(fs),
                      !.contexts = @ \cup {Context(s, id[f], mapped, TRUE) : f \in fs},
                      !.nodeCtx = Emplace(@, x),
                      !.buffers = IF mapped THEN @ \cup {id[f] : f \in fs} ELSE @,
                      !.created = @ \/ fs # {}]
  BY DEF ProcessContextFromBinListAsync
<1>2. PICK x \in Entries(fs, id, id) :
        t = [s EXCEPT !.next = @ + Cardinality(fs),
                      !.contexts = @ \cup {Context(s, id[f], mapped, TRUE) : f \in fs},
                      !.nodeCtx = Emplace(@, x),
                      !.buffers = IF mapped THEN @ \cup {id[f] : f \in fs} ELSE @,
                      !.created = @ \/ fs # {}]
  BY <1>1
<1>3. t.nodeCtx = Emplace(s.nodeCtx, x)
  BY <1>2 DEF Members
<1>4. DOMAIN Emplace(s.nodeCtx, x) = DOMAIN s.nodeCtx \cup KeysOf(fs)
  BY EmplacedKeys
<1> QED
  BY <1>3, <1>4

\* A plain list load.
LEMMA ListServes ==
  ASSUME NEW s \in Members, NEW fs, NEW failed, NEW e \in CreateContextFromListAsync(s, fs, failed)
  PROVE  Kept(s, e, fs)
<1>1. PICK got \in SUBSET fs :
        e \in {[ok |-> got = fs, s |-> t, torn |-> failed]
                 : t \in ProcessContextFromBinListAsync(s, got, FALSE)}
  BY DEF CreateContextFromListAsync
<1>2. PICK t \in ProcessContextFromBinListAsync(s, got, FALSE) :
        e = [ok |-> got = fs, s |-> t, torn |-> failed]
  BY <1>1
<1>3. DOMAIN t.nodeCtx = DOMAIN s.nodeCtx \cup KeysOf(got)
  BY <1>2, ProcessServes
<1>4. e.s = t /\ e.ok = (got = fs)
  BY <1>2
<1> QED
  BY <1>3, <1>4 DEF Kept

\* Either way of loading a list.
LEMMA SharedServes ==
  ASSUME NEW s \in Members, ContextsOK(s), NEW fs \in SUBSET Files,
         NEW e \in CreateContextVtcmBackupBufferSharingEnabled(s, fs)
  PROVE  Kept(s, e, fs)
<1>1. CASE e \in CreateContextFromListAsync(s, fs, FALSE)
  BY <1>1, ListServes
<1>2. CASE e \in {[ok |-> TRUE, s |-> t, torn |-> FALSE]
                    : t \in ProcessContextFromBinListAsync(s, fs, TRUE)}
  <2>1. PICK t \in ProcessContextFromBinListAsync(s, fs, TRUE) :
          e = [ok |-> TRUE, s |-> t, torn |-> FALSE]
    BY <1>2
  <2>2. e.s = t
    BY <2>1
  <2>3. DOMAIN t.nodeCtx = DOMAIN s.nodeCtx \cup KeysOf(fs)
    BY <2>1, ProcessServes
  <2>4. DOMAIN e.s.nodeCtx = DOMAIN s.nodeCtx \cup KeysOf(fs)
    BY <2>2, <2>3
  <2> QED
    BY <2>4 DEF Kept
<1>3. CASE e \in UNION {CreateContextFromListAsync(u, fs, TRUE)
                          : u \in CreateContextFromListAsyncWithCallback(s, fs)}
  <2>1. PICK u \in CreateContextFromListAsyncWithCallback(s, fs) :
          e \in CreateContextFromListAsync(u, fs, TRUE)
    BY <1>3
  <2>2. PICK t \in UNION {ProcessContextFromBinListAsync(s, got, TRUE) : got \in SUBSET fs} :
          u \in {DeallocateMappedDmaBuffers(t, kept) : kept \in SUBSET t.buffers}
    BY <2>1 DEF CreateContextFromListAsyncWithCallback
  <2>3. PICK got \in SUBSET fs : t \in ProcessContextFromBinListAsync(s, got, TRUE)
    BY <2>2
  <2>4. PICK kept \in SUBSET t.buffers : u = DeallocateMappedDmaBuffers(t, kept)
    BY <2>2
  <2>5. u \in Members /\ t \in Members
    <3>1. got \in SUBSET Files
      BY <2>3
    <3> QED
      BY <2>1, <2>3, <3>1, WithCallbackKeeps, ProcessKeeps DEF Grown
  <2>6. DOMAIN s.nodeCtx \subseteq DOMAIN t.nodeCtx
    BY <2>3, ProcessServes
  <2>7. u.nodeCtx = t.nodeCtx
    BY <2>4, <2>5 DEF Members, DeallocateMappedDmaBuffers
  <2>8. Kept(u, e, fs)
    BY <2>1, <2>5, ListServes
  <2> QED
    BY <2>6, <2>7, <2>8 DEF Kept
<1> QED
  BY <1>1, <1>2, <1>3 DEF CreateContextVtcmBackupBufferSharingEnabled

\* Loading one binary leaves the table as it is.
LEMMA HandleSameTable ==
  ASSUME NEW s \in Members, NEW mapped \in BOOLEAN, NEW disk \in BOOLEAN, ContextsOK(s),
         NEW e \in CreateContextHandleFromBinary(s, mapped, disk)
  PROVE  e.s \in Members /\ e.s.nodeCtx = s.nodeCtx
<1> SUFFICES e.s.nodeCtx = s.nodeCtx
  BY HandleKeeps DEF Outcome, Grown
<1> DEFINE direct(t, failed) ==
             {[ok |-> TRUE, s |-> AddQnnContextHandle(t, FALSE, disk), torn |-> failed],
              [ok |-> FALSE, s |-> t, torn |-> failed]}
<1>1. ASSUME NEW t \in Members, t.nodeCtx = s.nodeCtx, NEW failed, e \in direct(t, failed)
      PROVE  e.s.nodeCtx = s.nodeCtx
  <2>1. CASE e = [ok |-> TRUE, s |-> AddQnnContextHandle(t, FALSE, disk), torn |-> failed]
    <3>1. e.s = AddQnnContextHandle(t, FALSE, disk)
      BY <2>1
    <3>2. FALSE \in BOOLEAN
      OBVIOUS
    <3>3. AddQnnContextHandle(t, FALSE, disk).nodeCtx = t.nodeCtx
      BY <3>2, AddFields
    <3> QED
      BY <1>1, <3>1, <3>3
  <2>2. CASE e = [ok |-> FALSE, s |-> t, torn |-> failed]
    <3>1. e.s = t
      BY <2>2
    <3> QED
      BY <1>1, <3>1
  <2> QED
    BY <1>1, <2>1, <2>2
<1> HIDE DEF direct
<1>2. CASE e \in direct(s, FALSE)
  BY <1>1, <1>2
<1>3. CASE e = [ok |-> TRUE, s |-> AddQnnContextHandle(s, TRUE, disk), torn |-> FALSE]
  <2>1. e.s = AddQnnContextHandle(s, TRUE, disk)
    BY <1>3
  <2>2. TRUE \in BOOLEAN
    OBVIOUS
  <2>3. AddQnnContextHandle(s, TRUE, disk).nodeCtx = s.nodeCtx
    BY <2>2, AddFields
  <2> QED
    BY <2>1, <2>3
<1>4. CASE e \in UNION {direct(DeallocateMappedDmaBuffers(s, kept), TRUE) : kept \in SUBSET s.buffers}
  <2>1. PICK kept \in SUBSET s.buffers : e \in direct(DeallocateMappedDmaBuffers(s, kept), TRUE)
    BY <1>4
  <2>2. DeallocateMappedDmaBuffers(s, kept) \in Members
    BY DeallocateKeeps DEF Grown
  <2>3. DeallocateMappedDmaBuffers(s, kept).nodeCtx = s.nodeCtx
    BY DEF Members, DeallocateMappedDmaBuffers
  <2> QED
    BY <1>1, <2>1, <2>2, <2>3
<1> QED
  BY <1>2, <1>3, <1>4 DEF CreateContextHandleFromBinary, direct

\* The set-up of another session takes no key away and, if it succeeds, all
\* keys of its files are there.
LEMMA AgainServes ==
  ASSUME NEW s \in Members, ContextsOK(s), s.share, NEW fs \in SUBSET Files, NEW ord,
         NEW e \in AgainEnds(s, fs, ord)
  PROVE  Kept(s, e, fs)
<1>1. CASE Known(fs, ord) = {}
  <2>1. e \in CreateContextVtcmBackupBufferSharingEnabled(s, fs)
    BY <1>1 DEF AgainEnds
  <2> QED
    BY <2>1, SharedServes
<1>2. CASE Known(fs, ord) # {}
  <2> DEFINE known == Known(fs, ord)
  <2>1. PICK t \in Entries(known, ord, s.nodeCtx) :
          e = [ok |-> known = fs, s |-> [s EXCEPT !.nodeCtx = Emplace(@, t)], torn |-> FALSE]
    BY <1>2 DEF AgainEnds
  <2> HIDE DEF known
  <2>2. e.s.nodeCtx = Emplace(s.nodeCtx, t) /\ e.ok = (known = fs)
    BY <2>1 DEF Members
  <2>3. DOMAIN Emplace(s.nodeCtx, t) = DOMAIN s.nodeCtx \cup KeysOf(known)
    BY EmplacedKeys
  <2>4. DOMAIN e.s.nodeCtx = DOMAIN s.nodeCtx \cup KeysOf(known)
    BY <2>2, <2>3
  <2> QED
    BY <2>2, <2>4 DEF Kept
<1> QED
  BY <1>1, <1>2

\* Until a mapped load has failed, the mapped weights of a node's context stay
\* registered, whatever the sessions of the group load, recover or release.
THEOREM MappedNodesKeepWeightsHolds == Spec => []MappedNodesKeepWeights
<1>1. BackendInv => MappedNodesKeepWeights
  BY DEF BackendInv, WeightsOK, MappedNodesKeepWeights
<1> QED
  BY <1>1, BackendInvHolds, PTL

\* A first set-up that succeeds in the shared mode has all keys of its files.
LEMMA FirstSetupServes ==
  ASSUME BackendInv, NEW cached \in BOOLEAN, NEW fm \in BOOLEAN,
         NEW fs \in SUBSET Files, FirstSetup(cached, TRUE, fm, fs), m'.setup
  PROVE  KeysOf(fs) \subseteq DOMAIN m'.nodeCtx
<1>1. ~ m.setup /\ ~ MultiSoc
  BY DEF FirstSetup
<1>2. PICK e \in SetupEnds(cached, TRUE, fm, fs) :
        \/ /\ e.ok
           /\ m' = [e.s EXCEPT !.setup = TRUE]
        \/ /\ ~ e.ok
           /\ \E failing \in FailingSets : \E kept \in SUBSET e.s.buffers :
                m' = ReleaseResources(e.s, failing, kept)
  BY DEF FirstSetup
<1>3. EndOK(e)
  BY <1>1, <1>2, SetupEndsOK
<1>4. e.ok /\ m' = [e.s EXCEPT !.setup = TRUE]
  <2>1. ASSUME NEW failing, NEW kept, m' = ReleaseResources(e.s, failing, kept) PROVE FALSE
    <3>1. m'.setup = FALSE
      BY <1>3, <2>1, ReleaseResourcesFields DEF EndOK
    <3> QED
      BY <3>1
  <2> QED
    BY <1>2, <2>1
<1>5. m'.nodeCtx = e.s.nodeCtx
  BY <1>3, <1>4 DEF EndOK, Members
<1> DEFINE whole == AfterSteps(cached, TRUE, fm, 10)
<1>6. Len(SetupOrder(cached)) = 10
  BY SMT DEF SetupOrder
<1>7. whole \in Members /\ ContextsOK(whole)
  <2>1. 10 \in 0..10
    BY SMT
  <2>2. Stage(whole)
    BY <1>1, <2>1, AfterStepsFields
  <2> QED
    BY <2>2, NoContextsOK DEF Stage
<1>8. e \in CreateContextVtcmBackupBufferSharingEnabled(whole, fs)
  <2>1. \/ \E k \in 0..(10 - 1) : e = [ok |-> FALSE, torn |-> FALSE,
                                       s |-> AfterSteps(cached, TRUE, fm, k)]
        \/ e \in CreateContextVtcmBackupBufferSharingEnabled(whole, fs)
    BY <1>2, <1>6 DEF SetupEnds
  <2>2. ASSUME NEW x, e = [ok |-> FALSE, torn |-> FALSE, s |-> x] PROVE FALSE
    <3>1. e.ok = FALSE
      BY <2>2
    <3> QED
      BY <1>4, <3>1
  <2> QED
    BY <2>1, <2>2
<1> QED
  BY <1>4, <1>5, <1>7, <1>8, SharedServes DEF Kept

\* A session that prepares several SoCs reports no node ready.
OthersServed == MultiSoc => served = {}

\* No step of such a session changes that.
LEMMA NextOthersServed == BackendInv /\ OthersServed /\ [Next]_vars => OthersServed'
<1> SUFFICES ASSUME BackendInv, OthersServed, [Next]_vars PROVE OthersServed'
  OBVIOUS
<1>1. mode' = mode
  BY DEF Next, vars, SetupBackend, SetupBackendAgain, Again, LoadCachedQnnContextFromBuffer,
     RecoverFromSSR, ReloadContextForSSR, Release, ProbeBegin, ProbeSetup, ProbeEnd,
     SetupBackendExceptDeviceAndContext, ScopedInit, RoundEnds, ScopedEnd
<1>2. MultiSoc => served' = {} \/ served' \subseteq served
  BY DEF Next, vars, SetupBackend, FirstSetup, SetupBackendAgain, Again,
     LoadCachedQnnContextFromBuffer, RecoverFromSSR, ReloadContextForSSR, Release, ProbeBegin,
     ProbeSetup, ProbeEnd, SetupBackendExceptDeviceAndContext, ScopedInit, RoundEnds, ScopedEnd
<1>3. MultiSoc => served' = {}
  BY <1>2 DEF OthersServed
<1> QED
  BY <1>1, <1>3 DEF OthersServed, MultiSoc

\* What a set-up has reported ready stays ready: every step that is not a
\* recovery or a release keeps the keys of the table, and a set-up that
\* succeeds has put all of its keys there.
LEMMA NextNodesServed ==
  BackendInv /\ OthersServed /\ NodesServed /\ [Next]_vars => NodesServed'
<1> SUFFICES ASSUME BackendInv, OthersServed, NodesServed, [Next]_vars PROVE NodesServed'
  OBVIOUS
<1>m. m \in Members /\ ContextsOK(m)
  BY DEF BackendInv, TypeOK
<1>k. ASSUME DOMAIN m.nodeCtx \subseteq DOMAIN m'.nodeCtx, served' = served PROVE NodesServed'
  BY <1>k DEF NodesServed
<1>1. CASE UNCHANGED vars
  BY <1>1 DEF vars, NodesServed
<1>2. ASSUME NEW cached \in BOOLEAN, NEW share \in BOOLEAN, NEW fm \in BOOLEAN,
             NEW fs \in (SUBSET Files) \ {{}}, SetupBackend(cached, share, fm, fs)
      PROVE  NodesServed'
  <2>1. FirstSetup(cached, share, fm, fs)
        /\ served' = (IF share /\ m'.setup THEN KeysOf(fs) ELSE {})
    BY <1>2 DEF SetupBackend
  <2>2. CASE share /\ m'.setup
    <3>1. share = TRUE
      BY <2>2
    <3> QED
      BY <2>1, <2>2, <3>1, FirstSetupServes DEF NodesServed
  <2>3. CASE ~ (share /\ m'.setup)
    BY <2>1, <2>3 DEF NodesServed
  <2> QED
    BY <2>2, <2>3
<1>3. ASSUME NEW cb \in BOOLEAN, NEW fs \in (SUBSET Files) \ {{}}, NEW ord \in Numberings(1, fs),
             SetupBackendAgain(cb, fs, ord)
      PROVE  NodesServed'
  <2> DEFINE b == m.mapping /\ ~ cb
             s == [m EXCEPT !.mapping = b]
  <2>1. PICK e \in AgainEnds(s, fs, ord) :
          m' = e.s /\ served' = (IF e.ok /\ m.share THEN served \cup KeysOf(fs) ELSE served)
    BY <1>3 DEF SetupBackendAgain, Again
  <2>2. b \in BOOLEAN
    OBVIOUS
  <2> HIDE DEF b
  <2>3. s \in Members
    BY <1>m, <2>2 DEF Members
  <2>4. /\ s.nodeCtx = m.nodeCtx /\ s.share = m.share /\ s.contexts = m.contexts
        /\ s.next = m.next /\ s.lib = m.lib
    BY <1>m DEF Members
  <2> HIDE DEF s
  <2>5. ContextsOK(s)
    BY <1>m, <2>4 DEF ContextsOK, Ids
  <2>6. CASE s.share
    <3>1. Kept(s, e, fs)
      BY <2>1, <2>3, <2>5, <2>6, AgainServes
    <3> QED
      BY <2>1, <2>4, <3>1 DEF Kept, NodesServed
  <2>7. CASE ~ s.share
    <3>1. e = [ok |-> TRUE, s |-> s, torn |-> FALSE]
      BY <2>1, <2>7 DEF AgainEnds
    <3>2. e.s = s
      BY <3>1
    <3> QED
      BY <2>1, <2>4, <2>7, <3>2 DEF NodesServed
  <2> QED
    BY <2>6, <2>7
<1>4. ASSUME NEW embedded \in BOOLEAN, LoadCachedQnnContextFromBuffer(embedded)
      PROVE  NodesServed'
  <2> DEFINE mapped == m.mapping /\ m.mapper /\ ~ embedded
  <2>1. PICK e \in CreateContextHandleFromBinary(m, mapped, ~ embedded) :
          m' = e.s \/ m' = [e.s EXCEPT !.created = TRUE]
    BY <1>4 DEF LoadCachedQnnContextFromBuffer
  <2>2. mapped \in BOOLEAN /\ (~ embedded) \in BOOLEAN
    OBVIOUS
  <2> HIDE DEF mapped
  <2>3. e.s \in Members /\ e.s.nodeCtx = m.nodeCtx
    BY <1>m, <2>1, <2>2, HandleSameTable
  <2>4. m'.nodeCtx = m.nodeCtx
    BY <2>1, <2>3 DEF Members
  <2>5. served' = served
    BY <1>4 DEF LoadCachedQnnContextFromBuffer
  <2> QED
    BY <1>k, <2>4, <2>5
<1>5. ASSUME NEW c \in m.contexts, RecoverFromSSR(c) PROVE NodesServed'
  <2>1. /\ m' = ReleaseSpecificContextHandle(m, c)
        /\ served' = served \ {n \in DOMAIN m.nodeCtx : m.nodeCtx[n] = c.id}
    BY <1>5 DEF RecoverFromSSR
  <2>2. m'.nodeCtx = [n \in {x \in DOMAIN m.nodeCtx : m.nodeCtx[x] # c.id} |-> m.nodeCtx[n]]
    BY <1>m, <2>1 DEF Members, ReleaseSpecificContextHandle
  <2> QED
    BY <2>1, <2>2 DEF NodesServed
<1>6. CASE ReloadContextForSSR
  <2> DEFINE mapped == m.mapping /\ m.mapper
  <2>1. PICK e \in CreateContextHandleFromBinary(m, mapped, TRUE) : m' = e.s
    BY <1>6 DEF ReloadContextForSSR
  <2>2. mapped \in BOOLEAN /\ TRUE \in BOOLEAN
    OBVIOUS
  <2> HIDE DEF mapped
  <2>3. m'.nodeCtx = m.nodeCtx
    BY <1>m, <2>1, <2>2, HandleSameTable
  <2>4. served' = served
    BY <1>6 DEF ReloadContextForSSR
  <2> QED
    BY <1>k, <2>3, <2>4
<1>7. CASE Release \/ ProbeEnd
  BY <1>7 DEF Release, ProbeEnd, NodesServed
<1>8. CASE ProbeBegin \/ RoundEnds
  BY <1>8, <1>k DEF ProbeBegin, RoundEnds
<1>9. CASE ProbeSetup
  <2>1. served' = served
    BY <1>9 DEF ProbeSetup
  <2>2. CASE FirstSetup(TRUE, FALSE, FALSE, {})
    <3>1. ~ m.setup /\ ~ MultiSoc
      BY <2>2 DEF FirstSetup
    <3>2. DOMAIN m.nodeCtx = {}
      BY <1>m, <3>1 DEF BackendInv, SocInv, Released, ContextsOK, Ids
    <3> QED
      BY <1>k, <2>1, <3>2
  <2>3. CASE UNCHANGED m
    BY <1>k, <2>1, <2>3
  <2> QED
    BY <1>9, <2>2, <2>3 DEF ProbeSetup
<1>10. CASE SetupBackendExceptDeviceAndContext \/ ScopedInit \/ ScopedEnd
  <2>1. served' = served
    BY <1>10 DEF SetupBackendExceptDeviceAndContext, ScopedInit, ScopedEnd
  <2>2. served = {}
    <3>1. MultiSoc \/ leaving # <<>>
      BY <1>10 DEF SetupBackendExceptDeviceAndContext, ScopedInit, ScopedEnd
    <3>2. MultiSoc
      BY <3>1 DEF BackendInv, SocInv
    <3> QED
      BY <3>2 DEF OthersServed
  <2> QED
    BY <2>1, <2>2 DEF NodesServed
<1> QED
  BY <1>1, <1>2, <1>3, <1>4, <1>5, <1>6, <1>7, <1>8, <1>9, <1>10 DEF Next

\* A node that a set-up in the shared mode has reported ready finds its context
\* in the table, for any binaries and nodes, in whatever order the sessions of
\* the group set up, fail or load, until a recovery replaces that context or
\* the manager is released.
THEOREM NodesServedHolds == Spec => []NodesServed
<1>1. Init => NodesServed /\ OthersServed
  BY DEF Init, NodesServed, OthersServed
<1> QED
  BY <1>1, BackendInvHolds, NextNodesServed, NextOthersServed, PTL DEF Spec
=============================================================================
