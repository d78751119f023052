---------------------------- MODULE StablehloOps ----------------------------
(***************************************************************************)
(* The methods of the ops (stablehlo/dialect/StablehloOps.cpp): what types *)
(* an op infers, what it verifies, the result shape it computes at run     *)
(* time (reifyReturnTypeShapes), and whether it may be executed where its  *)
(* result is not needed (getSpeculatability).                              *)
(*                                                                         *)
(* An op is a record: name, operands (their types), values (the constants  *)
(* among the operands; Unknown where an operand is not a constant), attrs, *)
(* regions (their blocks) and results (the declared types).                *)
(***************************************************************************)
EXTENDS OpVerifiers

Op(name, operands, attrs, results) ==
    [name |-> name, operands |-> operands, values |-> [i \in DOMAIN operands |-> Unknown],
     attrs |-> attrs, regions |-> << >>, results |-> results]
\* The first and the second half of the operands: inputs and init values.
Inputs(op) == SubSeq(op.operands, 1, Len(op.operands) \div 2)
InitValues(op) == SubSeq(op.operands, Len(op.operands) \div 2 + 1, Len(op.operands))

-----------------------------------------------------------------------------
(* Element-wise ops.                                                       *)

UnaryOps == {"abs", "exponential", "negate", "not", "sine", "is_finite", "convert"}
BinaryOps == {"add", "multiply", "maximum", "and", "subtract"}

INFER_RETURN_TYPE_COMPONENTS_FROM_OPERANDS(op) == inferMostSpecificShapedType(op.operands)
AddOp_inferReturnTypeComponents(op) == inferMostSpecificShapedType(op.operands)
AddOp_verify(op) == verifyAddOp(op.operands[1], op.operands[2], op.results[1])
AbsOp_inferReturnTypes(op) == inferAbsOp(op.operands[1])
ComplexOp_inferReturnTypes(op) == inferComplexOp(op.operands[1])
ImagOp_inferReturnTypes(op) == inferImagOp(op.operands[1])
IsFiniteOp_inferReturnTypes(op) == inferIsFiniteOp(op.operands[1])
RealOp_inferReturnTypes(op) == inferRealOp(op.operands[1])
ConvertOp_build(op) == inferConvertOp(op.operands[1])
CompareOp_inferReturnTypeComponents(op) == inferCompareOp(op.operands[1])
ClampOp_inferReturnTypeComponents(op) ==
    inferClampOp(op.operands[1], op.operands[2], op.operands[3])
SelectOp_inferReturnTypeComponents(op) ==
    inferSelectOp(op.operands[1], op.operands[2], op.operands[3])
UniformDequantizeOp_inferReturnTypeComponents(op) == inferUniformDequantizeOp(op.operands[1])
UniformQuantizeOp_verify(op) == verifyUniformQuantizeOp(op.operands[1], op.results[1])
ResultAccuracyAttr_verify(op) ==
    LET a == op.attrs.resultAccuracy IN verifyResultAccuracyAttr(a.atol, a.rtol, a.ulps, a.mode)

-----------------------------------------------------------------------------
(* Shape ops: inference and verification.                                  *)

CholeskyOp_inferReturnTypeComponents(op) == inferCholeskyOp(op.operands[1])
DotOp_verify(op) == verifyDotOp(op.operands[1], op.operands[2], op.results[1])
DotOp_inferReturnTypeComponents(op) == inferDotOp(op.operands[1], op.operands[2])
\* attrs.algorithm: absent, or the arguments of DotAlgorithmAttr.
DotAlgorithmAttr_verify(a) == verifyDotAlgorithmAttr(a.lhs, a.rhs, a.acc, a.lhsComponents,
                                  a.rhsComponents, a.ops, a.imprecise)
DotGeneralOp_verify(op) ==
    /\ op.attrs.algorithm # << >> => DotAlgorithmAttr_verify(op.attrs.algorithm[1])
    /\ verifyDotGeneralOp(op.operands[1], op.operands[2], op.attrs.dn,
                          op.attrs.isDefaultPrecisionConfig, op.attrs.algorithm # << >>,
                          op.results[1])
DotGeneralOp_inferReturnTypeComponents(op) ==
    inferDotGeneralOp(op.operands[1], op.operands[2], op.attrs.dn)
FftOp_inferReturnTypeComponents(op) ==
    inferFftOp(op.operands[1], op.attrs.fftType, op.attrs.fftLength)
GatherOp_inferReturnTypeComponents(op) ==
    inferGatherOp(op.operands[1], op.operands[2], op.attrs.dn, op.attrs.sliceSizes)
DynamicGatherOp_inferReturnTypeComponents(op) ==
    inferDynamicGatherOp(op.operands[1], op.operands[2], op.operands[3], op.values[3], op.attrs.dn)
GetDimensionSizeOp_inferReturnTypeComponents(op) ==
    inferGetDimensionSizeOp(op.operands[1], op.attrs.dimension)
IotaOp_verify(op) == verifyIotaOp(op.attrs.iotaDimension, op.results[1])
DynamicIotaOp_verify(op) == verifyDynamicIotaOp(op.values[1], op.attrs.iotaDimension, op.results[1])
DynamicUpdateSliceOp_inferReturnTypeComponents(op) ==
    inferDynamicUpdateSliceOp(op.operands[1], op.operands[2], SubSeq(op.operands, 3, Len(op.operands)))
ConvolutionOp_verify(op) ==
    verifyConvolutionOp(op.operands[1], op.operands[2], op.attrs, op.results[1])
DynamicConvOp_verify(op) ==
    verifyDynamicConvOp(op.operands[1], op.operands[2], op.operands[3], op.values[3], op.attrs,
                        op.results[1])
BatchNormGradOp_inferReturnTypeComponents(op) ==
    inferBatchNormGradOp(op.operands[1], op.operands[2], op.operands[3], op.operands[4],
                         op.operands[5], op.attrs.featureIndex)
BatchNormTrainingOp_inferReturnTypeComponents(op) ==
    inferBatchNormTrainingOp(op.operands[1], op.operands[2], op.operands[3], op.attrs.featureIndex)
BatchNormInferenceOp_inferReturnTypeComponents(op) ==
    inferBatchNormInferenceOp(op.operands[1], op.operands[2], op.operands[3], op.operands[4],
                              op.operands[5], op.attrs.featureIndex)
BitcastConvertOp_verify(op) == verifyBitcastConvertOp(op.operands[1], op.results[1])
BroadcastOp_inferReturnTypeComponents(op) ==
    inferBroadcastOp(op.operands[1], op.attrs.broadcastSizes)
BroadcastInDimOp_verify(op) ==
    verifyBroadcastInDimOp(op.operands[1], op.attrs.broadcastDimensions, op.results[1])
DynamicBroadcastInDimOp_verify(op) ==
    verifyDynamicBroadcastInDimOp(op.operands[1], op.values[2], op.attrs.broadcastDimensions,
        op.attrs.knownExpanding, op.attrs.knownNonexpanding, op.results[1])
ConcatenateOp_inferReturnTypes(op) == inferConcatenateOp(op.operands, op.attrs.dimension)
DynamicReshapeOp_verify(op) ==
    verifyDynamicReshapeOp(op.operands[1], op.operands[2], op.values[2], op.results[1])
DynamicSliceOp_inferReturnTypeComponents(op) ==
    inferDynamicSliceOp(op.operands[1], Tail(op.operands), op.attrs.sliceSizes)
RealDynamicSliceOp_verify(op) ==
    verifyRealDynamicSliceOp(op.operands[1], op.operands[2], op.operands[3], op.operands[4])
MapOp_inferReturnTypeComponents(op) ==
    inferMapOp(op.operands, op.attrs.dimensions, op.regions[1])
ReduceOp_inferReturnTypeComponents(op) ==
    inferReduceOp(Inputs(op), op.attrs.dimensions, op.regions[1])
ReduceOp_verify(op) ==
    verifyReduceOp(Inputs(op), InitValues(op), op.attrs.dimensions, op.regions[1])
ReduceWindowOp_inferReturnTypeComponents(op) ==
    inferReduceWindowOp(Inputs(op), op.attrs, op.regions[1])
ReduceWindowOp_verify(op) ==
    verifyReduceWindowOp(Inputs(op), InitValues(op), op.attrs, op.regions[1])
ReverseOp_verify(op) == verifyReverseOp(op.operands[1], op.attrs.dimensions)
ReverseOp_inferReturnTypes(op) == inferReverseOp(op.operands[1])
RngOp_inferReturnTypeComponents(op) ==
    inferRngOp(op.operands[1], op.operands[2], op.operands[3], op.values[3], op.attrs.isUniform)
RngBitGeneratorOp_verify(op) == verifyRngBitGeneratorOp(op.operands[1], op.results[1])
SetDimensionSizeOp_inferReturnTypeComponents(op) ==
    inferSetDimensionSizeOp(op.operands[1], op.operands[2],
        IF isConstantShape(op.values[2]) THEN op.values[2][1] ELSE kDynamic, op.attrs.dimension)
TransposeOp_verify(op) == verifyTransposeOp(op.operands[1], op.attrs.permutation, op.results[1])
TransposeOp_inferReturnTypes(op) == inferTransposeOp(op.operands[1], op.attrs.permutation)
PadOp_inferReturnTypes(op) ==
    inferPadOp(op.operands[1], op.attrs.low, op.attrs.high, op.attrs.interior)
DynamicPadOp_verify(op) ==
    verifyDynamicPadOp(op.operands[1], op.operands[3], op.values[3], op.values[4], op.values[5],
                       op.results[1])
ReshapeOp_verify(op) == verifyReshapeOp(op.operands[1], op.results[1])
SliceOp_inferReturnTypes(op) ==
    inferSliceOp(op.operands[1], op.attrs.start, op.attrs.limit, op.attrs.strides)
SortOp_inferReturnTypeComponents(op) == inferSortOp(op.operands)
SortOp_verify(op) == verifySortOp(op.operands, op.attrs.dimension, op.regions[1])
TriangularSolveOp_inferReturnTypeComponents(op) ==
    inferTriangularSolveOp(op.operands[1], op.operands[2], op.attrs.leftSide, FALSE)
SelectAndScatterOp_inferReturnTypes(op) ==
    inferSelectAndScatterOp(op.operands[1], op.regions[2])
SelectAndScatterOp_verify(op) ==
    verifySelectAndScatterOp(op.operands[1], op.operands[2], op.operands[3], op.attrs,
                             op.regions[1], op.regions[2])
\* Operands of scatter: n inputs, the indices, n updates.
ScatterInputs(op) == SubSeq(op.operands, 1, Len(op.operands) \div 2)
ScatterOp_inferReturnTypes(op) == inferScatterOp(ScatterInputs(op), op.regions[1])
ScatterOp_verify(op) ==
    LET n == Len(op.operands) \div 2
    IN  verifyScatterOp(ScatterInputs(op), op.operands[n + 1],
            SubSeq(op.operands, n + 2, Len(op.operands)), op.attrs.dn, op.regions[1])

-----------------------------------------------------------------------------
(* Control flow, tuples, tokens and collectives.                           *)

AfterAllOp_inferReturnTypes(op) == inferAfterAllOp
CreateTokenOp_inferReturnTypes(op) == inferCreateTokenOp
ConstantOp_inferReturnTypes(op) == inferConstantOp(op.attrs.type)
InfeedOp_verify(op) == verifyInfeedOp(op.attrs.layout, op.results)
OutfeedOp_inferReturnTypes(op) == inferOutfeedOp
\* The type of the channel: 1 device to device, 2 device to host, 3 host to device.
SendOp_inferReturnTypes(op) ==
    inferSendOp(op.attrs.channelType = 1, op.attrs.channelType = 2, op.attrs.isHostTransfer)
RecvOp_verify(op) ==
    verifyRecvOp(op.attrs.channelType = 1, op.attrs.channelType = 3, op.attrs.isHostTransfer,
                 op.results)
OptimizationBarrierOp_inferReturnTypes(op) == inferOptimizationBarrierOp(op.operands)
ReplicaIdOp_inferReturnTypes(op) == inferReplicaIdOp
PartitionIdOp_inferReturnTypes(op) == inferPartitionIdOp
IfOp_inferReturnTypes(op) == inferIfOp(op.operands[1], op.regions)
CaseOp_inferReturnTypes(op) == inferCaseOp(op.operands[1], op.regions)
GetTupleElementOp_inferReturnTypes(op) == inferGetTupleElementOp(op.operands, op.attrs.index)
TupleOp_inferReturnTypes(op) == inferTupleOp(op.operands)
WhileOp_inferReturnTypes(op) == inferWhileOp(op.operands)
WhileOp_verify(op) == verifyWhileOp(op.operands, op.regions[1], op.regions[2])
CompositeOp_verifySymbolUses(op) ==
    verifyCompositeOp(op.operands, op.results, op.attrs.nameIsValid, op.attrs.decomposition)

AllGatherOp_verify(op) ==
    verifyAllGatherOp(op.operands, op.attrs.dim, op.attrs.replicaGroups, op.attrs.channelId,
                      op.attrs.useGlobalDeviceIds, op.results)
AllReduceOp_verify(op) ==
    verifyAllReduceOp(op.operands, op.attrs.replicaGroups, op.attrs.channelId,
                      op.attrs.useGlobalDeviceIds, op.regions[1])
AllReduceOp_inferReturnTypeComponents(op) == inferAllReduceOp(op.operands, op.regions[1])
AllToAllOp_inferReturnTypeComponents(op) ==
    inferAllToAllOp(op.operands, op.attrs.splitDimension, op.attrs.concatDimension,
                    op.attrs.splitCount, op.attrs.replicaGroups)
ReduceScatterOp_verify(op) ==
    verifyReduceScatterOp(op.operands[1], op.attrs.dim, op.attrs.replicaGroups, op.attrs.channelId,
                          op.attrs.useGlobalDeviceIds, op.regions[1], op.results[1])
CollectiveBroadcastOp_inferReturnTypes(op) ==
    inferCollectiveBroadcastOp(op.operands, op.attrs.hasDynamicRoot)
CollectiveBroadcastOp_verify(op) ==
    verifyCollectiveBroadcastOp(op.operands, op.attrs.replicaGroups, op.attrs.hasDynamicRoot)
CollectiveReduceOp_verify(op) ==
    verifyCollectiveReduceOp(op.operands, op.attrs.replicaGroups, op.attrs.channelId,
                             op.attrs.useGlobalDeviceIds, op.attrs.hasDynamicRoot, op.regions[1])
CollectiveReduceOp_inferReturnTypeComponents(op) ==
    inferCollectiveReduceOp(op.operands, op.regions[1], op.attrs.hasDynamicRoot)
CollectivePermuteOp_inferReturnTypes(op) == inferCollectivePermuteOp(op.operands)
CollectivePermuteOp_verify(op) == verifyCollectivePermuteOp(op.attrs.sourceTargetPairs)

\* attrs.body: does the region hold one asynchronous op and its terminator?
AsyncStartOp_inferReturnTypes(op) ==
    If(/\ op.regions # << >> /\ op.attrs.bodyIsOneAsyncOp
       /\ op.operands = op.regions[1].args
       /\ Len(op.regions[1].returns) = 1,
       op.regions[1].returns)
\* The operand is a future: the types it will hold.
AsyncDoneOp_inferReturnTypes(op) == If(Len(op.operands) = 1, op.operands)

\* layouts: for each value a permutation of its dimensions, or absent.
CustomCallOp_verify(op) ==
    LET IsLayout(layout, t) == \/ t = TokenType /\ layout = << >>
                               \/ Len(layout) = Rank(t) /\ SeqToSet(layout) = 0..(Rank(t) - 1)
        Fit(types, layouts) == Len(types) = Len(layouts)
                                  /\ \A i \in DOMAIN types : IsLayout(layouts[i], types[i])
        a == op.attrs
    IN  /\ a.operandLayouts = Failure <=> a.resultLayouts = Failure
        /\ a.operandLayouts # Failure => /\ Fit(op.operands, a.operandLayouts[1])
                                         /\ Fit(op.results, a.resultLayouts[1])
        /\ \A i \in DOMAIN a.aliases :
              /\ 0 <= a.aliases[i].operand /\ a.aliases[i].operand < Len(op.operands)
              /\ 0 <= a.aliases[i].output /\ a.aliases[i].output < Len(op.results)
              /\ At(op.operands, a.aliases[i].operand) = At(op.results, a.aliases[i].output)
        /\ a.backendConfig \in {"none", IF a.isTypedFfi THEN "dictionary" ELSE "string"}

============================================================================
