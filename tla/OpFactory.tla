------------------------------ MODULE OpFactory ------------------------------
(***************************************************************************)
(* Which builder translates a node unit (builder/op_builder_factory.cc),    *)
(* and BaseOpBuilder's IsOpSupported and AddToModelBuilder, which call it.  *)
(***************************************************************************)
EXTENDS MoveOps, IndexOps, Elementwise, ReduceOps, MatrixOps, NormOps

Supported(m, n) ==
  CASE n.op = "Reshape" -> ReshapeSupported(m, n)
    [] n.op \in {"Transpose", "Identity"} -> TRUE
    [] n.op = "Slice" -> SliceSupported(m, n)
    [] n.op = "Split" -> SplitSupported(m, n)
    [] n.op = "Concat" -> ConcatSupported(m, n)
    [] n.op = "Pad" -> PadSupported(m, n)
    [] n.op = "Expand" -> ExpandSupported(m, n)
    [] n.op = "Tile" -> TileSupported(m, n)
    [] n.op = "Shape" -> ShapeSupported(m, n)
    [] n.op = "Range" -> RangeSupported(m, n)
    [] n.op \in {"Gather", "GatherElements"} -> GatherSupported(m, n)
    [] n.op = "GatherND" -> GatherNDSupported(m, n)
    [] n.op = "ArrayFeatureExtractor" -> ArrayFeatureExtractorSupported(m, n)
    [] n.op = "ScatterElements" -> ScatterElementsSupported(m, n)
    [] n.op = "ScatterND" -> ScatterNDSupported(m, n)
    [] n.op = "OneHot" -> OneHotSupported(m, n)
    [] n.op = "TopK" -> TopKSupported(m, n)
    [] n.op \in {"ArgMax", "ArgMin"} -> ArgMaxMinSupported(m, n)
    [] n.op = "CumSum" -> CumSumSupported(m, n)
    [] n.op = "NonZero" -> NonZeroSupported(m, n)
    [] n.op \in SimpleOps -> SimpleSupported(m, n)
    [] n.op \in {"Cast", "CastLike"} -> CastSupported(m, n)
    [] n.op = "Clip" -> ClipSupported(m, n)
    [] n.op = "Mod" -> ModSupported(m, n)
    [] n.op = "Reciprocal" -> ReciprocalSupported(m, n)
    [] n.op = "Tan" -> TanSupported(m, n)
    [] n.op \in {"Selu", "QuickGelu", "Swish"} -> TRUE
    [] n.op = "IsInf" -> IsInfSupported(m, n)
    [] n.op = "IsNaN" -> IsNaNSupported(m, n)
    [] n.op = "Mean" -> MeanSupported(m, n)
    [] n.op = "ThresholdedRelu" -> ThresholdedReluSupported(m, n)
    [] n.op = "LRN" -> LRNSupported(m, n)
    [] n.op \in {"Softmax", "LogSoftmax"} -> SoftmaxSupported(m, n)
    [] n.op \in ReduceOpTypes -> ReduceSupported(m, n)
    [] n.op \in PoolOpTypes -> PoolSupported(m, n)
    [] n.op = "LpPool" -> LpPoolSupported(m, n)
    [] n.op = "Resize" -> ResizeSupported(m, n)
    [] n.op = "Upsample" -> UpsampleSupported(m, n)
    [] n.op \in {"Conv", "ConvTranspose"} -> ConvSupported(m, n)
    [] n.op = "QLinearConv" -> QLinearConvSupported(m, n)
    [] n.op = "MatMul" -> MatMulSupported(m, n)
    [] n.op = "QLinearMatMul" -> QLinearMatMulSupported(m, n)
    [] n.op = "Gemm" -> GemmSupported(m, n)
    [] n.op = "FusedMatMul" -> FusedMatMulSupported(m, n)
    [] n.op = "LayerNormalization" -> LayerNormSupported(m, n)
    [] n.op \in RmsOpTypes -> RmsNormSupported(m, n)
    [] n.op = "BatchNormalization" -> BatchNormSupported(m, n)
    [] n.op = "InstanceNormalization" -> InstanceNormSupported(m, n)
    [] n.op = "GroupNormalization" -> GroupNormSupported(m, n)
    [] OTHER -> FALSE

Inputs(m, n) ==
  CASE n.op = "Reshape" -> ReshapeInputs(m, n)
    [] n.op = "Slice" -> SliceInputs(m, n)
    [] n.op = "Split" -> SplitInputs(m, n)
    [] n.op = "Concat" -> ConcatInputs(m, n)
    [] n.op = "Pad" -> PadInputs(m, n)
    [] n.op = "Expand" -> ExpandInputs(m, n)
    [] n.op = "Tile" -> TileInputs(m, n)
    [] n.op = "Range" -> RangeInputs(m, n)
    [] n.op \in {"Gather", "GatherElements"} -> GatherInputs(m, n)
    [] n.op = "GatherND" -> GatherNDInputs(m, n)
    [] n.op = "ArrayFeatureExtractor" -> ArrayFeatureExtractorInputs(m, n)
    [] n.op = "ScatterElements" -> ScatterElementsInputs(m, n)
    [] n.op = "ScatterND" -> ScatterNDInputs(m, n)
    [] n.op = "OneHot" -> OneHotInputs(m, n)
    [] n.op = "TopK" -> TopKInputs(m, n)
    [] n.op = "CumSum" -> CumSumInputs(m, n)
    [] n.op = "NonZero" -> NonZeroInputs(m, n)
    [] n.op \in SimpleOps -> SimpleInputs(m, n)
    [] n.op \in {"Cast", "CastLike"} -> CastInputs(m, n)
    [] n.op = "Clip" -> ClipInputs(m, n)
    [] n.op \in {"Softmax", "LogSoftmax"} -> SoftmaxInputs(m, n)
    [] n.op \in ReduceOpTypes \cup {"Resize", "Upsample"} -> FirstInput(m, n)
    [] n.op \in {"Conv", "ConvTranspose"} -> ConvInputs(m, n)
    [] n.op = "QLinearConv" -> QLinearConvInputs(m, n)
    [] n.op = "MatMul" -> MatMulInputs(m, n)
    [] n.op = "QLinearMatMul" -> QLinearMatMulInputs(m, n)
    [] n.op = "Gemm" -> GemmInputs(m, n)
    [] n.op = "LayerNormalization" -> LayerNormInputs(m, n)
    [] n.op \in RmsOpTypes -> RmsNormInputs(m, n)
    [] n.op = "BatchNormalization" -> BatchNormInputs(m, n)
    [] n.op = "InstanceNormalization" -> InstanceNormInputs(m, n)
    [] OTHER -> ProcessInputs(m, n)

Outputs(m, n, ins) ==
  CASE n.op = "Reshape" -> ReshapeOutputs(m, n, ins)
    [] n.op = "Transpose" -> TransposeOutputs(m, n, ins)
    [] n.op = "Identity" -> IdentityOutputs(m, n, ins)
    [] n.op = "Slice" -> SliceOutputs(m, n, ins)
    [] n.op = "Split" -> SplitOutputs(m, n, ins)
    [] n.op = "Concat" -> ConcatOutputs(m, n, ins)
    [] n.op = "Pad" -> PadOutputs(m, n, ins)
    [] n.op = "Expand" -> ExpandOutputs(m, n, ins)
    [] n.op = "Tile" -> TileOutputs(m, n, ins)
    [] n.op = "Shape" -> ShapeOutputs(m, n, ins)
    [] n.op = "Range" -> RangeOutputs(m, n, ins)
    [] n.op \in {"Gather", "GatherElements"} -> GatherOutputs(m, n, ins)
    [] n.op = "GatherND" -> GatherNDOutputs(m, n, ins)
    [] n.op = "ArrayFeatureExtractor" -> ArrayFeatureExtractorOutputs(m, n, ins)
    [] n.op = "ScatterElements" -> ScatterElementsOutputs(m, n, ins)
    [] n.op = "ScatterND" -> ScatterNDOutputs(m, n, ins)
    [] n.op = "OneHot" -> OneHotOutputs(m, n, ins)
    [] n.op = "TopK" -> TopKOutputs(m, n, ins)
    [] n.op \in {"ArgMax", "ArgMin"} -> ArgMaxMinOutputs(m, n, ins)
    [] n.op = "CumSum" -> CumSumOutputs(m, n, ins)
    [] n.op = "NonZero" -> NonZeroOutputs(m, n, ins)
    [] n.op \in SimpleOps -> SimpleOutputs(m, n, ins)
    [] n.op \in {"Cast", "CastLike"} -> CastOutputs(m, n, ins)
    [] n.op = "Clip" -> ClipOutputs(m, n, ins)
    [] n.op = "Mod" -> ModOutputs(m, n, ins)
    [] n.op = "Reciprocal" -> ReciprocalOutputs(m, n, ins)
    [] n.op = "Tan" -> TanOutputs(m, n, ins)
    [] n.op = "Selu" -> SeluOutputs(m, n, ins)
    [] n.op \in {"QuickGelu", "Swish"} -> QuickGeluOutputs(m, n, ins)
    [] n.op = "IsInf" -> IsInfOutputs(m, n, ins)
    [] n.op = "IsNaN" -> IsNaNOutputs(m, n, ins)
    [] n.op = "Mean" -> MeanOutputs(m, n, ins)
    [] n.op = "ThresholdedRelu" -> ThresholdedReluOutputs(m, n, ins)
    [] n.op = "LRN" -> LRNOutputs(m, n, ins)
    [] n.op \in {"Softmax", "LogSoftmax"} -> SoftmaxOutputs(m, n, ins)
    [] n.op \in ReduceOpTypes -> ReduceOutputs(m, n, ins)
    [] n.op \in PoolOpTypes -> PoolOutputs(m, n, ins)
    [] n.op = "LpPool" -> LpPoolOutputs(m, n, ins)
    [] n.op = "Resize" -> ResizeOutputs(m, n, ins)
    [] n.op = "Upsample" -> UpsampleOutputs(m, n, ins)
    [] n.op \in {"Conv", "ConvTranspose"} -> ConvOutputs(m, n, ins)
    [] n.op = "QLinearConv" -> <<>>
    [] n.op = "MatMul" -> MatMulOutputs(m, n, ins)
    [] n.op = "QLinearMatMul" -> QLinearMatMulOutputs(m, n, ins)
    [] n.op = "Gemm" -> GemmOutputs(m, n, ins)
    [] n.op = "FusedMatMul" -> FusedMatMulOutputs(m, n, ins)
    [] n.op = "LayerNormalization" -> LayerNormOutputs(m, n, ins)
    [] n.op \in RmsOpTypes -> RmsNormOutputs(m, n, ins)
    [] n.op = "BatchNormalization" -> BatchNormOutputs(m, n, ins)
    [] n.op = "InstanceNormalization" -> InstanceNormOutputs(m, n, ins)
    [] n.op = "GroupNormalization" -> GroupNormOutputs(m, n, ins)

\* These builders call AddToModelBuilder for validation only once the node's
\* layout is NHWC.
ValidatedLater(m, n) ==
  /\ m.dov /\ n.domain # "nhwc"
  /\ n.op \in {"Conv", "ConvTranspose", "LRN", "LpPool", "Resize", "Upsample", "BatchNormalization",
               "InstanceNormalization", "GroupNormalization"} \cup PoolOpTypes

\* The builder's calls on the wrapper, in order: the inputs, the casts of
\* int64 inputs, then the op and its outputs.
AddOutputs(m, n, names) == Do(m, Outputs(m, n, names))

AddCasts(m, n, i64) == AddOutputs(Do(m, i64.steps), n, i64.names)

AddProcessedInputs(m, n, names) == AddCasts(m, n, ProcessInt64Tensors(m, n, names))

AddInputs(m, n, in) == AddProcessedInputs(Do(m, in.steps), n, in.names)

AddToModelBuilder(m, n) == IF ValidatedLater(m, n) THEN m ELSE AddInputs(m, n, Inputs(m, n))

\* IsOpSupported makes the builder's checks, then AddToModelBuilder with
\* do_op_validation set.  A wrapper that is not ok says no.
AddIfSupported(m, n) == IF Supported(m, n) THEN AddToModelBuilder(m, n) ELSE [m EXCEPT !.ok = FALSE]
=============================================================================
