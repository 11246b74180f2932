----------------------------- MODULE NodeGroups ------------------------------
(***************************************************************************)
(* The groups of node units that are translated together                    *)
(* (builder/qnn_node_group/qnn_node_group.cc): fusions, and a group of its  *)
(* own for every other unit.                                                *)
(*                                                                          *)
(* ns is the sequence of the graph's units.  A group is a record: fusion    *)
(* (its name, "none" for a single unit), members (indices in ns) and        *)
(* target.                                                                  *)
(***************************************************************************)
EXTENDS LinearFusions

IsFusion(u) == u.fusion # "none"

Single(k) == [fusion |-> "none", members |-> <<k>>, target |-> k]

(***************************************************************************)
(* The op_affinity option: m.affinity maps operators to the backend that    *)
(* they are pinned to.  On an NPU session a pin to "cpu" keeps an operator  *)
(* off QNN.                                                                 *)
(***************************************************************************)
SeedDefaultIfAbsent(affinity, backend) ==
  IF backend = "htp" THEN affinity @@ ("GroupQueryAttention" :> "cpu") ELSE affinity

ValidateForSessionBackend(affinity, backend) == \A op \in DOMAIN affinity : affinity[op] \in {"cpu", backend}

Evaluate(m, op) == op \in DOMAIN m.affinity => m.affinity[op] = m.backend

(***************************************************************************)
(* The fusions.                                                             *)
(***************************************************************************)
\* The operators at which a fusion may start in a unit with DequantizeLinear
\* or QuantizeLinear around it.
QdqStarts == {"Gather", "MatMul", "Gemm", "Erf", "Tanh", "Reshape", "Concat"}

Fusions(v, k) ==
  CASE v.ns[k].op = "DequantizeLinear" -> <<DQQMatch(v, k)>>
    [] v.ns[k].op = "DynamicQuantizeLinear" -> <<DqlDqMatch(v, k)>>
    [] v.ns[k].op = "MatMulInteger" -> <<DQMatMulIntegerMatch(v, k)>>
    [] v.ns[k].op = "ConvInteger" -> <<DQConvIntegerMatch(v, k)>>
    [] v.ns[k].op = "Gather" -> <<GatherTransposeReshapeMatch(v, k)>>
    [] v.ns[k].op = "HardSigmoid" -> <<HardSigmoidMulMatch(v, k)>>
    [] v.ns[k].op = "Gemm" -> [j \in 1..3 |-> ReshapeGemmMatch(v, k, 3 - j)]
    [] v.ns[k].op = "Mul" -> <<ScaleSoftmaxMatch(v, k)>>
    [] v.ns[k].op = "Cast" -> <<CastLoneQMatch(v, k)>>
    [] v.ns[k].op = "Erf" -> <<GeluMatch(v, k)>>
    [] v.ns[k].op = "Tanh" -> <<TanhGeluMatch(v, k)>>
    [] v.ns[k].op = "ReduceMean" -> [j \in 1..3 |-> LayerNormMatch(v, k, 3 - j)]
    [] v.ns[k].op = "ReduceL2" -> <<L2NormMatch(v, k)>>
    [] v.ns[k].op = "Einsum" -> <<ReshapeEinsumReshapeMatch(v, k)>>
    [] v.ns[k].op = "Reshape" -> <<SpaceToDepthMatch(v, k), ChannelShuffleFromReshapeMatch(v, k), Rank6ToRank5Match(v, k),
                                   ReshapeTransposeMatch(v, k), Rank5ToRank4Match(v, k)>>
    [] v.ns[k].op = "Concat" -> <<SliceConcatSpaceToDepthMatch(v, k)>>
    [] v.ns[k].op = "Transpose" -> <<ChannelShuffleMatch(v, k), TransposeReshapeTransposeMatch(v, k)>>
    [] OTHER -> <<>>

\* The fusions that start at unit k, of units that are in none yet, in the
\* order in which they are tried.
TryQnnFusions(v, k) ==
  IF v.ns[k].op \in QdqStarts \/ Standalone(v.ns[k])
  THEN FoldLeft(LAMBDA found, f : found \o f, <<>>, Fusions(v, k))
  ELSE <<>>

FusionSteps(m, u, U) ==
  CASE u.fusion = "DQQ" -> DQQSteps(m, U)
    [] u.fusion = "DqlDq" -> DqlDqSteps(m, U)
    [] u.fusion = "DQMatMulInteger" -> DQMatMulIntegerSteps(m, u, U)
    [] u.fusion = "DQConvInteger" -> DQConvIntegerSteps(m, u, U)
    [] u.fusion = "GatherTransposeReshape" -> GatherTransposeReshapeSteps(m, U)
    [] u.fusion = "HardSigmoidMul" -> HardSigmoidMulSteps(m, U)
    [] u.fusion = "ReshapeGemm" -> ReshapeGemmSteps(m, U)
    [] u.fusion = "ScaleSoftmax" -> ScaleSoftmaxSteps(m, U)
    [] u.fusion = "CastLoneQ" -> CastLoneQSteps(m, U)
    [] u.fusion = "Gelu" -> GeluSteps(m, U)
    [] u.fusion = "TanhGelu" -> TanhGeluSteps(m, U)
    [] u.fusion = "LayerNorm" -> LayerNormSteps(m, U)
    [] u.fusion = "L2Norm" -> L2NormSteps(m, U)
    [] u.fusion = "ReshapeEinsumReshape" -> ReshapeEinsumReshapeSteps(m, U)
    [] u.fusion = "SpaceToDepth" -> SpaceToDepthSteps(m, U)
    [] u.fusion = "ChannelShuffle" -> ChannelShuffleSteps(m, U)
    [] u.fusion = "Rank6ToRank5" -> Rank6ToRank5Steps(m, U)
    [] u.fusion = "ReshapeTranspose" -> ReshapeTransposeSteps(m, U)
    [] u.fusion = "Rank5ToRank4" -> Rank5ToRank4Steps(m, U)
    [] u.fusion = "SliceConcatSpaceToDepth" -> SliceConcatSpaceToDepthSteps(m, U)
    [] u.fusion = "TransposeReshapeTranspose" -> TransposeReshapeTransposeSteps(m, U)

\* Fusions that go through the wrapper's AddXNode functions, which register
\* tensors even when they only validate.
Registering == {"GatherTransposeReshape", "Rank6ToRank5", "ReshapeTranspose", "Rank5ToRank4",
                "TransposeReshapeTranspose"}

\* The calls of a fusion when it is tried, when GetCapability asks whether it
\* is supported and when it is composed.
StepsIn(phase, m, u, U) ==
  CASE phase = "compose" \/ u.fusion \in Registering -> FusionSteps(m, u, U)
    [] phase = "support" /\ u.fusion = "DQQ" -> DQQSupportSteps(m, U)
    [] phase # "compose" /\ u.fusion = "DQConvInteger" -> DQConvIntegerSupportSteps(m, u, U)
    [] phase # "compose" /\ u.fusion = "CastLoneQ" -> SubSeq(CastLoneQSteps(m, U), 1, IF phase = "try" THEN 2 ELSE 3)
    [] OTHER -> <<>>

Members(ns, u) == [j \in 1..Len(u.members) |-> ns[u.members[j]]]

(***************************************************************************)
(* Grouping: fusions first; then the groups in the order of their targets.  *)
(* The backend validates a fusion when it is tried; it refuses the ones     *)
(* whose tag is in refused.                                                 *)
(***************************************************************************)
FusionTag(n, u) == n.name \o "+" \o u.fusion

Validating(m, steps) == [Do([m EXCEPT !.dov = TRUE], steps) EXCEPT !.dov = m.dov]

\* Mutant: only the group's target is looked up.
TargetUnpinned(m, ns, u) == Evaluate(m, ns[u.target].op)

\* A fusion must not bring an operator to QNN that is pinned elsewhere.
Unpinned(m, ns, u) == \A j \in ToSet(u.members) : Evaluate(m, ns[j].op)

\* The search for fusions so far: the wrapper, the fusions found, and whether
\* the last unit starts one.
Taken(fused) == UNION {ToSet(fused[j].members) : j \in 1..Len(fused)}

View(s, ns) == [m |-> s.wrapper, ns |-> ns, taken |-> Taken(s.fused), groups |-> ToSet(s.fused)]

Try(s, ns, refused, u, k) ==
  IF s.done THEN s
  ELSE [wrapper |-> Validating(s.wrapper, StepsIn("try", s.wrapper, u, Members(ns, u))),
        fused |-> IF FusionTag(ns[k], u) \in refused THEN s.fused ELSE Append(s.fused, u),
        done |-> FusionTag(ns[k], u) \notin refused]

\* r is the search s after the fusions of a unit were tried.
KeepUnpinned(s, r, ns) ==
  IF r.done /\ ~Unpinned(r.wrapper, ns, LastOf(r.fused)) THEN [r EXCEPT !.fused = s.fused] ELSE r

TryAll(s, ns, refused, k) ==
  IF k \in Taken(s.fused) THEN s
  ELSE KeepUnpinned(s, FoldLeft(LAMBDA t, u : Try(t, ns, refused, u, k), [s EXCEPT !.done = FALSE],
                                TryQnnFusions(View(s, ns), k)), ns)

InOrder(fused, ns, m) ==
  LET Placed(k) == CASE \E u \in fused : u.target = k -> <<CHOOSE u \in fused : u.target = k>>
                     [] \E u \in fused : k \in ToSet(u.members) -> <<>>
                     [] OTHER -> <<Single(k)>>
  IN  [units |-> FlattenSeq([k \in 1..Len(ns) |-> Placed(k)]), wrapper |-> m]

GroupsOf(s, ns) == InOrder(ToSet(s.fused), ns, s.wrapper)

GetQnnNodeGroups(m, ns, refused) ==
  GroupsOf(FoldLeft(LAMBDA s, k : TryAll(s, ns, refused, k), [wrapper |-> m, fused |-> <<>>, done |-> FALSE],
                    [k \in 1..Len(ns) |-> k]), ns)

\* The group's AddToModelBuilder, or, in GetCapability, its IsSupported.  A
\* fusion was validated when it was tried.  The XSupported operators hold the
\* error returns of a builder's ProcessInputs and ProcessAttributesAndOutputs,
\* which are made in both, along with those of its IsOpSupported.
AddUnit(m, ns, u) ==
  IF IsFusion(u) THEN Do(m, StepsIn(IF m.dov THEN "support" ELSE "compose", m, u, Members(ns, u)))
  ELSE IF Evaluate(m, ns[u.target].op) THEN AddIfSupported(m, ns[u.target])
  ELSE [m EXCEPT !.ok = FALSE]

(***************************************************************************)
(* Layout.                                                                  *)
(***************************************************************************)
\* ORT's own list, and what the provider adds to it.
LayoutSensitive ==
  {"Conv", "ConvTranspose", "DepthToSpace", "SpaceToDepth", "GridSample", "LRN", "Upsample", "LpPool", "Resize",
   "BatchNormalization", "InstanceNormalization", "GroupNormalization"}
  \cup PoolOpTypes

ShouldConvertDataLayoutForOp(n) == n.op \in LayoutSensitive /\ n.domain = ""

\* The builder leaves the backend's validation to the second pass.
LayoutComes(m, n) == n.op \in LayoutSensitive /\ n.domain # "nhwc"
=============================================================================
