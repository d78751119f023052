---------------------------- MODULE OpInterfaces ----------------------------
(***************************************************************************)
(* The op interfaces over all ops: the run-time shape functions            *)
(* (reifyReturnTypeShapes), the speculatability methods of StablehloOps.cpp*)
(* and of the traits of Base.h, and the dispatch of inferReturnTypes,      *)
(* verify and the two by the name of the op.                               *)
(*                                                                         *)
(* At run time every operand type is static, and values holds the values   *)
(* of the operands that are shapes, indices or paddings.                   *)
(***************************************************************************)
EXTENDS StablehloOps

-----------------------------------------------------------------------------
(* reifyReturnTypeShapes: the shape of the (first) result.                 *)

deriveShapeFromOperand(op, i) == Sizes(op.operands[i])
\* dynamic_iota, dynamic_broadcast_in_dim, dynamic_reshape and rng return the
\* shape operand itself.
castToIndexTensor(op, i) == op.values[i]

DotGeneralOp_reifyReturnTypeShapes(op) ==
    LET lhs == op.operands[1]  rhs == op.operands[2]  dn == op.attrs.dn
        SizesOf(t, dims) == [i \in DOMAIN dims |-> SizeAt(t, dims[i])]
    IN  SizesOf(lhs, dn.lhsBatching)
           \o SizesOf(lhs, Without(Iota(Rank(lhs)), dn.lhsContracting \o dn.lhsBatching))
           \o SizesOf(rhs, Without(Iota(Rank(rhs)), dn.rhsContracting \o dn.rhsBatching))

\* The slice sizes are an attribute of gather and an operand of dynamic_gather.
getSliceSizeValues(op) ==
    IF op.name = "gather" THEN op.attrs.sliceSizes ELSE op.values[3]

reifyGatherShape(op) ==
    inferGatherShape(Rank(op.results[1]), Sizes(op.operands[2]), getSliceSizeValues(op), op.attrs.dn)

BitcastConvertOp_reifyReturnTypeShapes(op) ==
    If(getBitWidth(op.operands[1].et) = getBitWidth(op.results[1].et),
       deriveShapeFromOperand(op, 1))

BroadcastOp_reifyReturnTypeShapes(op) == op.attrs.broadcastSizes \o Sizes(op.operands[1])

ConcatenateOp_reifyReturnTypeShapes(op) ==
    LET axis == op.attrs.dimension + 1
    IN  FoldLeft(LAMBDA shape, t : [shape EXCEPT ![axis] = @ + t.dims[axis].size],
                 Sizes(op.operands[1]), Tail(op.operands))

\* Division truncates (arith.divsi); the dividend is not negative here.
RealDynamicSliceOp_reifyReturnTypeShapes(op) ==
    LET start == op.values[2]  limit == op.values[3]  strides == op.values[4]
    IN  [i \in DOMAIN op.operands[1].dims |->
            (strides[i] + (limit[i] - start[i]) - 1) \div strides[i]]

ReduceOp_reifyReturnTypeShapes(op) ==
    LET kept == Without(Iota(Rank(op.operands[1])), op.attrs.dimensions)
    IN  [i \in DOMAIN kept |-> SizeAt(op.operands[1], kept[i])]

\* Faulty variant: an empty dimension has -1 gaps.
PadOp_reifyReturnTypeShapesUnclamped(op) ==
    [i \in DOMAIN op.operands[1].dims |->
        LET n == op.operands[1].dims[i].size
        IN  n + (n - 1) * op.attrs.interior[i] + op.attrs.high[i] + op.attrs.low[i]]
PadOp_reifyReturnTypeShapes(op) ==
    [i \in DOMAIN op.operands[1].dims |->
        LET n == op.operands[1].dims[i].size
        IN  (IF op.attrs.interior[i] > 0 THEN n + Max({n - 1, 0}) * op.attrs.interior[i] ELSE n)
               + op.attrs.high[i] + op.attrs.low[i]]

DynamicPadOp_reifyReturnTypeShapes(op) ==
    [i \in DOMAIN op.operands[1].dims |->
        LET n == op.operands[1].dims[i].size
        IN  op.values[5][i] * (IF n < 1 THEN 0 ELSE n - 1) + n + op.values[3][i] + op.values[4][i]]

TransposeOp_reifyReturnTypeShapes(op) ==
    [i \in DOMAIN op.attrs.permutation |-> SizeAt(op.operands[1], op.attrs.permutation[i])]

Reifying == {"dot_general", "gather", "dynamic_gather", "bitcast_convert", "broadcast",
             "concatenate", "real_dynamic_slice", "reduce", "pad", "dynamic_pad", "transpose",
             "dynamic_iota", "dynamic_broadcast_in_dim", "dynamic_reshape", "rng", "clamp",
             "select", "map", "reverse", "compare"} \cup UnaryOps \cup BinaryOps

reifyReturnTypeShapes(op) ==
    CASE op.name = "dot_general" -> DotGeneralOp_reifyReturnTypeShapes(op)
      [] op.name \in {"gather", "dynamic_gather"} -> reifyGatherShape(op)
      [] op.name = "bitcast_convert" -> BitcastConvertOp_reifyReturnTypeShapes(op)
      [] op.name = "broadcast" -> BroadcastOp_reifyReturnTypeShapes(op)
      [] op.name = "concatenate" -> ConcatenateOp_reifyReturnTypeShapes(op)
      [] op.name = "real_dynamic_slice" -> RealDynamicSliceOp_reifyReturnTypeShapes(op)
      [] op.name = "reduce" -> ReduceOp_reifyReturnTypeShapes(op)
      [] op.name = "pad" -> PadOp_reifyReturnTypeShapes(op)
      [] op.name = "dynamic_pad" -> DynamicPadOp_reifyReturnTypeShapes(op)
      [] op.name = "transpose" -> TransposeOp_reifyReturnTypeShapes(op)
      [] op.name = "dynamic_iota" -> castToIndexTensor(op, 1)
      [] op.name \in {"dynamic_broadcast_in_dim", "dynamic_reshape"} -> castToIndexTensor(op, 2)
      [] op.name = "rng" -> castToIndexTensor(op, 3)
      [] op.name \in {"clamp", "select"} -> deriveShapeFromOperand(op, 2)
      [] op.name \in {"map", "reverse", "compare"} \cup UnaryOps \cup BinaryOps ->
            deriveShapeFromOperand(op, 1)

-----------------------------------------------------------------------------
(* getSpeculatability: TRUE for Speculatable and RecursivelySpeculatable.  *)

Dyn(t, d) == isDynamicDimSize(SizeAt(t, d))
Dims(t) == 0..(Rank(t) - 1)
\* Static in the result although dynamic in the operand.
Unchecked(operand, result, d) == ~ Dyn(result, d) /\ Dyn(operand, d)

StaticDimInOutputIsStaticInInput(op) ==
    SpeculatableIfStaticDimInOutputIsStaticInInput(op.operands[1], op.results[1])
AllInputsStatic(op) == SpeculatableIfAllInputsStatic(op.operands)
getShapedSpeculatability(op, shapeCount) ==
    /\ SpeculatableIfAllInputsStatic(op.operands)
    /\ \A i \in 0..(shapeCount - 1) : isConstantShape(op.values[Len(op.operands) - i])

ReduceScatterOp_getSpeculatability(op) ==
    /\ Dyn(op.results[1], op.attrs.dim)
    /\ \A d \in Dims(op.results[1]) \ {op.attrs.dim} : ~ Unchecked(op.operands[1], op.results[1], d)

\* Faulty variant: only the sizes of the result are checked.
DotGeneralOp_getSpeculatabilityFree(op) ==
    LET dn == op.attrs.dn
        FreeDims(t, special) == LET kept == Without(Iota(Rank(t)), special)
                                IN  [i \in DOMAIN kept |-> Dyn(t, kept[i])]
        free == FreeDims(op.operands[1], dn.lhsBatching \o dn.lhsContracting)
                  \o FreeDims(op.operands[2], dn.rhsBatching \o dn.rhsContracting)
    IN  \A i \in DOMAIN free : free[i] => Dyn(op.results[1], Len(dn.lhsBatching) + i - 1)
DotGeneralOp_getSpeculatability(op) ==
    LET lhs == op.operands[1]  rhs == op.operands[2]  dn == op.attrs.dn
        lhsSpecial == dn.lhsBatching \o dn.lhsContracting
        rhsSpecial == dn.rhsBatching \o dn.rhsContracting
        FreeDims(t, special) == LET kept == Without(Iota(Rank(t)), special)
                                IN  [i \in DOMAIN kept |-> Dyn(t, kept[i])]
        free == FreeDims(lhs, lhsSpecial) \o FreeDims(rhs, rhsSpecial)
    IN  /\ \A d \in SeqToSet(lhsSpecial) : ~ Dyn(lhs, d)
        /\ \A d \in SeqToSet(rhsSpecial) : ~ Dyn(rhs, d)
        /\ \A i \in DOMAIN free : free[i] => Dyn(op.results[1], Len(dn.lhsBatching) + i - 1)

FftOp_getSpeculatability(op) ==
    LET minStaticDim == Rank(op.operands[1]) - (IF op.attrs.fftType \in {"RFFT", "IRFFT"}
                                                THEN Len(op.attrs.fftLength) ELSE 0)
    IN  \A d \in Dims(op.operands[1]) : /\ ~ (d >= minStaticDim /\ Dyn(op.operands[1], d))
                                        /\ ~ Unchecked(op.operands[1], op.results[1], d)

GatherOp_getSpeculatability(op) == ~ op.attrs.indicesAreSorted /\ AllInputsStatic(op)

DynamicIotaOp_getSpeculatability(op) ==
    \/ isConstantShape(op.values[1])
    \/ \A d \in Dims(op.results[1]) : Dyn(op.results[1], d)

ConvolutionOp_getSpeculatability(op) ==
    LET lhs == op.operands[1]  rhs == op.operands[2]  res == op.results[1]  dn == op.attrs.dn
    IN  /\ ~ Dyn(lhs, dn.inputFeature) /\ ~ Dyn(rhs, dn.kernelInputFeature)
        /\ Dyn(lhs, dn.inputBatch) =>
              op.attrs.batchGroupCount = 1 /\ Dyn(res, dn.outputBatch)
        /\ Dyn(rhs, dn.kernelOutputFeature) =>
              op.attrs.batchGroupCount = 1 /\ op.attrs.featureGroupCount = 1
                 /\ Dyn(res, dn.outputFeature)
        /\ \A i \in DOMAIN dn.inputSpatial :
              Dyn(lhs, dn.inputSpatial[i]) \/ Dyn(rhs, dn.kernelSpatial[i]) =>
                  Dyn(res, dn.outputSpatial[i])

AllToAllOp_getSpeculatability(op) ==
    LET special == {op.attrs.splitDimension, op.attrs.concatDimension}
    IN  \A i \in DOMAIN op.operands :
           /\ \A d \in special : Dyn(op.results[i], d)
           /\ \A d \in Dims(op.results[i]) \ special :
                 ~ Unchecked(op.operands[i], op.results[i], d)

AllGatherOp_getSpeculatability(op) ==
    \A i \in DOMAIN op.operands :
        /\ Dyn(op.results[i], op.attrs.dim)
        /\ \A d \in Dims(op.results[i]) \ {op.attrs.dim} :
              ~ Unchecked(op.operands[i], op.results[i], d)

BitcastConvertOp_getSpeculatability(op) ==
    \A d \in Dims(op.operands[1]) \cap Dims(op.results[1]) :
        ~ Unchecked(op.operands[1], op.results[1], d)

DynamicBroadcastInDimOp_getSpeculatability(op) ==
    /\ isStaticShape(op.operands[1])
    /\ \/ /\ NumElements(op.operands[1]) = 1
          /\ \A d \in Dims(op.results[1]) : Dyn(op.results[1], d)
       \/ isConstantShape(op.values[2])

ConcatenateOp_getSpeculatability(op) ==
    \A i \in DOMAIN op.operands : \A d \in Dims(op.operands[i]) :
        \/ d = op.attrs.dimension /\ Dyn(op.results[1], d)
        \/ ~ Dyn(op.operands[i], d)

SetDimensionSizeOp_getSpeculatability(op) ==
    /\ isConstantShape(op.values[2]) \/ Dyn(op.results[1], op.attrs.dimension)
    /\ \A d \in Dims(op.results[1]) \ {op.attrs.dimension} :
          ~ Unchecked(op.operands[1], op.results[1], d)

ReshapeOp_getSpeculatability(op) == isStaticShape(op.operands[1])

TransposeOp_getSpeculatability(op) ==
    \A d \in Dims(op.results[1]) :
        ~ (~ Dyn(op.results[1], d) /\ Dyn(op.operands[1], At(op.attrs.permutation, d)))

TriangularSolveOp_getSpeculatability(op) == ~ op.attrs.unitDiagonal /\ AllInputsStatic(op)
ScatterOp_getSpeculatability(op) ==
    ~ op.attrs.uniqueIndices /\ ~ op.attrs.indicesAreSorted /\ AllInputsStatic(op)
MapOp_getSpeculatability(op) == AllInputsStatic(op)

ConditionallySpeculatable(op) ==
    CASE op.name = "reduce_scatter" -> ReduceScatterOp_getSpeculatability(op)
      [] op.name = "dot_general" -> DotGeneralOp_getSpeculatability(op)
      [] op.name = "fft" -> FftOp_getSpeculatability(op)
      [] op.name = "gather" -> GatherOp_getSpeculatability(op)
      [] op.name = "dynamic_iota" -> DynamicIotaOp_getSpeculatability(op)
      [] op.name = "convolution" -> ConvolutionOp_getSpeculatability(op)
      [] op.name = "all_to_all" -> AllToAllOp_getSpeculatability(op)
      [] op.name = "all_gather" -> AllGatherOp_getSpeculatability(op)
      [] op.name = "bitcast_convert" -> BitcastConvertOp_getSpeculatability(op)
      [] op.name = "dynamic_broadcast_in_dim" -> DynamicBroadcastInDimOp_getSpeculatability(op)
      [] op.name = "concatenate" -> ConcatenateOp_getSpeculatability(op)
      [] op.name = "set_dimension_size" -> SetDimensionSizeOp_getSpeculatability(op)
      [] op.name = "reshape" -> ReshapeOp_getSpeculatability(op)
      [] op.name = "transpose" -> TransposeOp_getSpeculatability(op)
      [] op.name = "triangular_solve" -> TriangularSolveOp_getSpeculatability(op)
      [] op.name = "scatter" -> ScatterOp_getSpeculatability(op)
      [] op.name = "map" -> MapOp_getSpeculatability(op)
      [] op.name \in {"dynamic_reshape", "dynamic_gather", "dynamic_conv"} ->
            getShapedSpeculatability(op, 1)
      [] op.name \in {"real_dynamic_slice", "dynamic_pad"} -> getShapedSpeculatability(op, 3)
      [] op.name \in {"slice", "pad", "reverse", "all_reduce", "collective_broadcast",
                      "collective_reduce", "collective_permute", "rng_bit_generator",
                      "select_and_scatter"} \cup UnaryOps -> StaticDimInOutputIsStaticInInput(op)
      [] op.name \in {"complex", "compare", "clamp", "select", "broadcast_in_dim", "sort",
                      "reduce", "reduce_window", "batch_norm_grad", "batch_norm_training",
                      "batch_norm_inference"} \cup BinaryOps -> AllInputsStatic(op)
      [] OTHER -> FALSE

-----------------------------------------------------------------------------
(* inferReturnTypes and verify, and what MLIR does with the two.           *)

\* Are the result types inferred?  Those of the others are declared only.
Inferring == {"complex", "real", "imag", "compare", "clamp", "select",
    "uniform_dequantize", "cholesky", "dot", "dot_general", "fft", "gather", "dynamic_gather",
    "get_dimension_size", "dynamic_update_slice", "batch_norm_grad", "batch_norm_training",
    "batch_norm_inference", "broadcast", "concatenate", "dynamic_slice", "map", "reduce",
    "reduce_window", "reverse", "rng", "set_dimension_size", "transpose", "pad", "slice", "sort",
    "triangular_solve", "select_and_scatter", "scatter", "after_all", "create_token", "constant",
    "outfeed", "send", "optimization_barrier", "replica_id", "partition_id", "if", "case",
    "get_tuple_element", "tuple", "while", "all_reduce", "all_to_all", "collective_broadcast",
    "collective_reduce", "collective_permute", "async_start", "async_done"}
        \cup UnaryOps \cup BinaryOps

inferReturnTypes(op) ==
    CASE op.name = "add" -> AddOp_inferReturnTypeComponents(op)
      [] op.name = "abs" -> AbsOp_inferReturnTypes(op)
      [] op.name = "complex" -> ComplexOp_inferReturnTypes(op)
      [] op.name = "imag" -> ImagOp_inferReturnTypes(op)
      [] op.name = "is_finite" -> IsFiniteOp_inferReturnTypes(op)
      [] op.name = "real" -> RealOp_inferReturnTypes(op)
      [] op.name = "convert" -> ConvertOp_build(op)
      [] op.name \in (UnaryOps \cup BinaryOps) \ {"add", "abs", "is_finite", "convert"} ->
            INFER_RETURN_TYPE_COMPONENTS_FROM_OPERANDS(op)
      [] op.name = "compare" -> CompareOp_inferReturnTypeComponents(op)
      [] op.name = "clamp" -> ClampOp_inferReturnTypeComponents(op)
      [] op.name = "select" -> SelectOp_inferReturnTypeComponents(op)
      [] op.name = "uniform_dequantize" -> UniformDequantizeOp_inferReturnTypeComponents(op)
      [] op.name = "cholesky" -> CholeskyOp_inferReturnTypeComponents(op)
      [] op.name = "dot" -> DotOp_inferReturnTypeComponents(op)
      [] op.name = "dot_general" -> DotGeneralOp_inferReturnTypeComponents(op)
      [] op.name = "fft" -> FftOp_inferReturnTypeComponents(op)
      [] op.name = "gather" -> GatherOp_inferReturnTypeComponents(op)
      [] op.name = "dynamic_gather" -> DynamicGatherOp_inferReturnTypeComponents(op)
      [] op.name = "get_dimension_size" -> GetDimensionSizeOp_inferReturnTypeComponents(op)
      [] op.name = "dynamic_update_slice" -> DynamicUpdateSliceOp_inferReturnTypeComponents(op)
      [] op.name = "batch_norm_grad" -> BatchNormGradOp_inferReturnTypeComponents(op)
      [] op.name = "batch_norm_training" -> BatchNormTrainingOp_inferReturnTypeComponents(op)
      [] op.name = "batch_norm_inference" -> BatchNormInferenceOp_inferReturnTypeComponents(op)
      [] op.name = "broadcast" -> BroadcastOp_inferReturnTypeComponents(op)
      [] op.name = "concatenate" -> ConcatenateOp_inferReturnTypes(op)
      [] op.name = "dynamic_slice" -> DynamicSliceOp_inferReturnTypeComponents(op)
      [] op.name = "map" -> MapOp_inferReturnTypeComponents(op)
      [] op.name = "reduce" -> ReduceOp_inferReturnTypeComponents(op)
      [] op.name = "reduce_window" -> ReduceWindowOp_inferReturnTypeComponents(op)
      [] op.name = "reverse" -> ReverseOp_inferReturnTypes(op)
      [] op.name = "rng" -> RngOp_inferReturnTypeComponents(op)
      [] op.name = "set_dimension_size" -> SetDimensionSizeOp_inferReturnTypeComponents(op)
      [] op.name = "transpose" -> TransposeOp_inferReturnTypes(op)
      [] op.name = "pad" -> PadOp_inferReturnTypes(op)
      [] op.name = "slice" -> SliceOp_inferReturnTypes(op)
      [] op.name = "sort" -> SortOp_inferReturnTypeComponents(op)
      [] op.name = "triangular_solve" -> TriangularSolveOp_inferReturnTypeComponents(op)
      [] op.name = "select_and_scatter" -> SelectAndScatterOp_inferReturnTypes(op)
      [] op.name = "scatter" -> ScatterOp_inferReturnTypes(op)
      [] op.name = "after_all" -> AfterAllOp_inferReturnTypes(op)
      [] op.name = "create_token" -> CreateTokenOp_inferReturnTypes(op)
      [] op.name = "constant" -> ConstantOp_inferReturnTypes(op)
      [] op.name = "outfeed" -> OutfeedOp_inferReturnTypes(op)
      [] op.name = "send" -> SendOp_inferReturnTypes(op)
      [] op.name = "optimization_barrier" -> OptimizationBarrierOp_inferReturnTypes(op)
      [] op.name = "replica_id" -> ReplicaIdOp_inferReturnTypes(op)
      [] op.name = "partition_id" -> PartitionIdOp_inferReturnTypes(op)
      [] op.name = "if" -> IfOp_inferReturnTypes(op)
      [] op.name = "case" -> CaseOp_inferReturnTypes(op)
      [] op.name = "get_tuple_element" -> GetTupleElementOp_inferReturnTypes(op)
      [] op.name = "tuple" -> TupleOp_inferReturnTypes(op)
      [] op.name = "while" -> WhileOp_inferReturnTypes(op)
      [] op.name = "all_reduce" -> AllReduceOp_inferReturnTypeComponents(op)
      [] op.name = "all_to_all" -> AllToAllOp_inferReturnTypeComponents(op)
      [] op.name = "collective_broadcast" -> CollectiveBroadcastOp_inferReturnTypes(op)
      [] op.name = "collective_reduce" -> CollectiveReduceOp_inferReturnTypeComponents(op)
      [] op.name = "collective_permute" -> CollectivePermuteOp_inferReturnTypes(op)
      [] op.name = "async_start" -> AsyncStartOp_inferReturnTypes(op)
      [] op.name = "async_done" -> AsyncDoneOp_inferReturnTypes(op)

verify(op) ==
    CASE op.name = "exponential" -> ResultAccuracyAttr_verify(op)
      [] op.name = "add" -> AddOp_verify(op)
      [] op.name = "uniform_quantize" -> UniformQuantizeOp_verify(op)
      [] op.name = "dot" -> DotOp_verify(op)
      [] op.name = "dot_general" -> DotGeneralOp_verify(op)
      [] op.name = "iota" -> IotaOp_verify(op)
      [] op.name = "dynamic_iota" -> DynamicIotaOp_verify(op)
      [] op.name = "convolution" -> ConvolutionOp_verify(op)
      [] op.name = "dynamic_conv" -> DynamicConvOp_verify(op)
      [] op.name = "bitcast_convert" -> BitcastConvertOp_verify(op)
      [] op.name = "broadcast_in_dim" -> BroadcastInDimOp_verify(op)
      [] op.name = "dynamic_broadcast_in_dim" -> DynamicBroadcastInDimOp_verify(op)
      [] op.name = "dynamic_reshape" -> DynamicReshapeOp_verify(op)
      [] op.name = "real_dynamic_slice" -> RealDynamicSliceOp_verify(op)
      [] op.name = "reduce" -> ReduceOp_verify(op)
      [] op.name = "reduce_window" -> ReduceWindowOp_verify(op)
      [] op.name = "reverse" -> ReverseOp_verify(op)
      [] op.name = "rng_bit_generator" -> RngBitGeneratorOp_verify(op)
      [] op.name = "transpose" -> TransposeOp_verify(op)
      [] op.name = "dynamic_pad" -> DynamicPadOp_verify(op)
      [] op.name = "reshape" -> ReshapeOp_verify(op)
      [] op.name = "sort" -> SortOp_verify(op)
      [] op.name = "select_and_scatter" -> SelectAndScatterOp_verify(op)
      [] op.name = "scatter" -> ScatterOp_verify(op)
      [] op.name = "infeed" -> InfeedOp_verify(op)
      [] op.name = "recv" -> RecvOp_verify(op)
      [] op.name = "while" -> WhileOp_verify(op)
      [] op.name = "composite" -> CompositeOp_verifySymbolUses(op)
      [] op.name = "all_gather" -> AllGatherOp_verify(op)
      [] op.name = "all_reduce" -> AllReduceOp_verify(op)
      [] op.name = "reduce_scatter" -> ReduceScatterOp_verify(op)
      [] op.name = "collective_broadcast" -> CollectiveBroadcastOp_verify(op)
      [] op.name = "collective_reduce" -> CollectiveReduceOp_verify(op)
      [] op.name = "collective_permute" -> CollectivePermuteOp_verify(op)
      [] op.name = "custom_call" -> CustomCallOp_verify(op)
      [] OTHER -> TRUE

\* The declared result types agree with the inferred ones.  An inference of
\* shapes only says nothing about element types.
ResultsAgree(inferred, declared) ==
    /\ inferred # Failure
    /\ Len(inferred) = Len(declared)
    /\ \A i \in DOMAIN inferred :
          IF inferred[i].et = NoElementType
          THEN verifyCompatibleShape(inferred[i], declared[i])
          ELSE isCompatibleForHloTypeInference(inferred[i], declared[i])

\* The traits the ops are declared with.
SameOperandsAndResultShape(op) == verifyPairwiseCompatibleShapes(op.operands \o op.results)
traits(op) ==
    CASE op.name \in {"multiply", "maximum", "subtract", "and", "negate", "not", "sine",
                      "exponential"} ->
            CompatibleOperandsAndResultType(op.operands, op.results)
      [] op.name \in {"add", "convert", "abs", "is_finite", "map", "sort"} ->
            SameOperandsAndResultShape(op)
      [] op.name \in {"complex", "compare"} ->
            CompatibleOperandsElementType(op.operands) /\ SameOperandsAndResultShape(op)
      [] op.name \in {"slice", "pad", "concatenate", "reverse", "broadcast", "clamp", "cholesky",
                      "transpose", "triangular_solve", "reshape", "broadcast_in_dim",
                      "collective_permute", "batch_norm_grad", "batch_norm_training",
                      "batch_norm_inference"} ->
            CompatibleOperandsAndResultElementType(op.operands, op.results)
      [] op.name \in {"all_gather", "all_to_all"} ->
            PairwiseSameOperandAndResultElementType(op.operands, op.results)
      [] op.name = "optimization_barrier" ->
            PairwiseSameOperandAndResultType(op.operands, op.results)
      [] OTHER -> TRUE

\* The constraints on every type, and the results that have to be static: at most
\* one dimension of them may be dynamic, and only with a bound.
typeIsValid(t) == /\ verifyBounds(t)
                  /\ isQuantized(t.et) => isValidStablehloQuantizedElementType(t.et)
                                            /\ isValidQuantizedDimension(t)
StaticResults == {"reshape", "broadcast_in_dim", "iota", "constant"}

\* What mlir::verify asks of an op.
Valid(op) ==
    /\ \A i \in DOMAIN op.operands : typeIsValid(op.operands[i])
    /\ \A i \in DOMAIN op.results :
          /\ typeIsValid(op.results[i])
          /\ op.name \in StaticResults =>
                isStaticShape(op.results[i]) \/ hasSingleBoundedDimension(op.results[i])
    /\ traits(op)
    /\ op.name \in Inferring => ResultsAgree(inferReturnTypes(op), op.results)
    /\ verify(op)

============================================================================
