--------------------------- MODULE TypeInference ---------------------------
(***************************************************************************)
(* The shape functions of stablehlo/dialect/TypeInference.cpp: for every   *)
(* op the types of its results, inferred from operand types, attributes    *)
(* and regions, or Failure when the op is rejected.                        *)
(*                                                                         *)
(* Not distinguished: precision_config, error messages, and tuples as      *)
(* operands of ops other than get_tuple_element and tuple.                 *)
(***************************************************************************)
EXTENDS TypeInferenceUtils

\* Some functions infer a shape only.
NoElementType == [k |-> "none", w |-> 0]
Shaped(et, sizes, bounds) ==
    [et |-> et, dims |-> [i \in DOMAIN sizes |-> [size |-> sizes[i], bound |-> bounds[i]]]]
If(ok, result) == IF ok THEN result ELSE Failure
\* 0 .. n - 1 in increasing order.
Iota(n) == [i \in 1..n |-> i - 1]
Without(dims, removed) == SelectSeq(dims, LAMBDA d : d \notin SeqToSet(removed))
IndexOf(d, dims) == (CHOOSE i \in DOMAIN dims : dims[i] = d) - 1
TakeBack(s, n) == SubSeq(s, Len(s) - n + 1, Len(s))

-----------------------------------------------------------------------------
(* Gather.                                                                 *)

verifyGather(operand, indices, sliceSizesCount, dn) ==
    /\ Rank(operand) = Len(dn.offsetDims) + Len(dn.collapsedSliceDims)
                          + Len(dn.operandBatchingDims)
    /\ checkDimInBounds(dn.indexVectorDim, Rank(indices), TRUE)
    /\ IF dn.indexVectorDim = Rank(indices)
       THEN Len(dn.startIndexMap) = 1
       ELSE \/ isDynamicDimSize(SizeAt(indices, dn.indexVectorDim))
            \/ SizeAt(indices, dn.indexVectorDim) = Len(dn.startIndexMap)
    /\ is_sorted(dn.offsetDims) /\ isUnique(dn.offsetDims)
    /\ checkDimsDistinct(dn.collapsedSliceDims, dn.operandBatchingDims)
    /\ is_sorted(dn.collapsedSliceDims)
    /\ checkDimsInBounds(dn.collapsedSliceDims, Rank(operand))
    /\ is_sorted(dn.operandBatchingDims)
    /\ checkDimsInBounds(dn.operandBatchingDims, Rank(operand))
    /\ isUnique(dn.startIndicesBatchingDims)
    /\ checkDimsInBounds(dn.startIndicesBatchingDims, Rank(indices))
    /\ dn.indexVectorDim \notin SeqToSet(dn.startIndicesBatchingDims)
    /\ Len(dn.operandBatchingDims) = Len(dn.startIndicesBatchingDims)
    /\ \A i \in DOMAIN dn.operandBatchingDims :
          verifyCompatibleDims(SizeAt(operand, dn.operandBatchingDims[i]),
                               SizeAt(indices, dn.startIndicesBatchingDims[i]))
    /\ checkDimsDistinct(dn.startIndexMap, dn.operandBatchingDims)
    /\ checkDimsInBounds(dn.startIndexMap, Rank(operand))
    /\ sliceSizesCount = Rank(operand)

\* The dimensions of the result, given those of start_indices and the slice.
\* Used on types here and on run-time sizes by reifyGatherDimSizes.
inferGatherShape(resultRank, startIndicesDims, sliceDims, dn) ==
    LET dropped == dn.collapsedSliceDims \o dn.operandBatchingDims
        maxOperandDim == IF dropped = << >> THEN -1 ELSE Max(SeqToSet(dropped))
        prefix == Without(Iota(maxOperandDim + 1), dropped)
        AdjustedSliceDim(index) == IF index < Len(prefix) THEN At(sliceDims, At(prefix, index))
                                   ELSE At(sliceDims, index + Len(dropped))
        batchDims == Without(Iota(resultRank), dn.offsetDims)
        BatchDim(index) == IF index >= dn.indexVectorDim THEN index + 1 ELSE index
    IN  [i \in 1..resultRank |->
            IF (i - 1) \in SeqToSet(dn.offsetDims)
            THEN AdjustedSliceDim(IndexOf(i - 1, dn.offsetDims))
            ELSE At(startIndicesDims, BatchDim(IndexOf(i - 1, batchDims)))]

GatherResultRank(indices, dn) ==
    Len(dn.offsetDims) + (IF dn.indexVectorDim = Rank(indices) THEN Rank(indices)
                                                              ELSE Rank(indices) - 1)

inferGatherReturnTypeComponents(operand, indices, sliceSizes, dn) ==
    LET rank == GatherResultRank(indices, dn)
        sliceDims == [i \in DOMAIN operand.dims |-> Dim(sliceSizes[i])]
    IN  If(checkDimsInBounds(dn.offsetDims, rank),
           <<[et |-> operand.et, dims |-> inferGatherShape(rank, indices.dims, sliceDims, dn)]>>)

SliceSizesAreValid(operand, sliceSizes, dn) ==
    /\ \A d \in SeqToSet(dn.collapsedSliceDims \o dn.operandBatchingDims) : At(sliceSizes, d) <= 1
    /\ \A i \in DOMAIN sliceSizes :
          /\ sliceSizes[i] >= 0
          /\ isDynamicDimSize(operand.dims[i].size) \/ sliceSizes[i] <= operand.dims[i].size

inferGatherOp(operand, indices, dn, sliceSizes) ==
    If(/\ verifyGather(operand, indices, Len(sliceSizes), dn)
       /\ SliceSizesAreValid(operand, sliceSizes, dn),
       inferGatherReturnTypeComponents(operand, indices, sliceSizes, dn))

\* slice_sizes is an operand: its type has one dimension, its value may be
\* Unknown.
inferDynamicGatherOp(operand, indices, sliceSizesType, sliceSizes, dn) ==
    If(/\ Rank(sliceSizesType) = 1
       /\ verifyGather(operand, indices, SizeAt(sliceSizesType, 0), dn)
       /\ isConstantShape(sliceSizes) => SliceSizesAreValid(operand, sliceSizes, dn),
       inferGatherReturnTypeComponents(operand, indices,
           IF isConstantShape(sliceSizes) THEN sliceSizes ELSE [i \in DOMAIN operand.dims |-> kDynamic], dn))

-----------------------------------------------------------------------------
(* Control flow, tokens and collectives.                                   *)

inferConditionalOp(operand, branches) ==
    LET first == branches[1].returns
        Column(i) == [b \in DOMAIN branches |-> branches[b].returns[i]]
        Result(inferred) == If(\A i \in DOMAIN inferred : inferred[i] # Failure,
                               [i \in DOMAIN inferred |-> inferred[i][1]])
    IN  If(/\ Rank(operand) = 0
           /\ branches # << >>
           /\ \A b \in DOMAIN branches : /\ branches[b].args = << >>
                                         /\ isCompatibleTypeRange(first, branches[b].returns),
           Result([i \in DOMAIN first |-> inferLeastSpecificShapedType(Column(i))]))

inferCaseOp(index, branches) == inferConditionalOp(index, branches)
inferIfOp(pred, branches) == inferConditionalOp(pred, branches)

verifyDimInBounds(t, dim) == 0 <= dim /\ dim < Rank(t)

inferAfterAllOp == <<TokenType>>
inferCreateTokenOp == <<TokenType>>

inferAllToAllOp(operands, splitDimension, concatDimension, splitCount, replicaGroups) ==
    LET Split(n) == IF isStaticDimSize(n) THEN n \div splitCount ELSE n
        Join(n) == IF isStaticDimSize(n) THEN n * splitCount ELSE n
        Resize(dim, Fn(_)) == [size |-> Fn(dim.size), bound |-> Fn(dim.bound)]
        Parted(dims) == [dims EXCEPT ![splitDimension + 1] = Resize(@, Split)]
        Joined(dims) == [dims EXCEPT ![concatDimension + 1] = Resize(@, Join)]
        Result(t) == [t EXCEPT !.dims = Joined(Parted(t.dims))]
    IN  If(/\ verifyReplicaGroups(replicaGroups, TRUE, FALSE, splitCount)
           /\ \A i \in DOMAIN operands :
                 /\ splitDimension < Rank(operands[i]) /\ concatDimension < Rank(operands[i])
                 /\ \/ isDynamicDimSize(SizeAt(operands[i], splitDimension))
                    \/ SizeAt(operands[i], splitDimension) % splitCount = 0,
           [i \in DOMAIN operands |-> Result(operands[i])])

inferAllReduceOp(operands, computation) ==
    LET accumulators == getAccumulatorTypesOrInputTypes(computation, operands)
    IN  [i \in DOMAIN operands |-> WithElementType(operands[i], accumulators[1].et)]

inferCollectiveBroadcastOp(operands, hasDynamicRoot) ==
    IF hasDynamicRoot THEN Front(operands) ELSE operands
inferCollectivePermuteOp(operands) == operands

inferCollectiveReduceOp(operands, computation, hasDynamicRoot) ==
    LET data == IF hasDynamicRoot THEN Front(operands) ELSE operands
    IN  [i \in DOMAIN data |->
            WithElementType(data[i], getAccumulatorTypesOrInputTypes(computation, <<data[i]>>)[1].et)]

inferBatchNormGradOp(operand, scale, mean, variance, gradOutput, featureIndex) ==
    inferBatchNormOp(<<operand, gradOutput>>, <<scale, mean, variance>>, featureIndex, FALSE)
inferBatchNormInferenceOp(operand, scale, offset, mean, variance, featureIndex) ==
    inferBatchNormOp(<<operand>>, <<scale, offset, mean, variance>>, featureIndex, TRUE)
inferBatchNormTrainingOp(operand, scale, offset, featureIndex) ==
    inferBatchNormOp(<<operand>>, <<scale, offset>>, featureIndex, FALSE)

-----------------------------------------------------------------------------
(* Element-wise ops.                                                       *)

inferAbsOp(operand) == <<createRealType(operand)>>
inferImagOp(operand) == <<createRealType(operand)>>
inferRealOp(operand) == <<createRealType(operand)>>
inferIsFiniteOp(x) == <<WithElementType(x, I(1))>>
inferCompareOp(lhs) == <<WithElementType(lhs, I(1))>>
inferComplexOp(lhs) == <<WithElementType(lhs, C(lhs.et.w))>>
inferConstantOp(type) == <<type>>
inferConvertOp(operand) == <<WithElementType(operand, NoElementType)>>

inferClampOp(min, operand, max) ==
    If(/\ verifyCompatibleShape(min, operand) \/ Rank(min) = 0
       /\ verifyCompatibleShape(max, operand) \/ Rank(max) = 0,
       <<operand>>)

-----------------------------------------------------------------------------
(* Shapes.                                                                 *)

inferBroadcastOp(operand, broadcastSizes) ==
    If(\A i \in DOMAIN broadcastSizes : broadcastSizes[i] >= 0,
       <<Tensor(operand.et, broadcastSizes \o Sizes(operand))>>)

inferCholeskyOp(a) ==
    If(Rank(a) >= 2 /\ verifyCompatibleDims(SizeAt(a, Rank(a) - 2), SizeAt(a, Rank(a) - 1)),
       <<a>>)

inferConcatenateOp(inputs, dimension) ==
    LET witness == inputs[1]
        start == [i \in DOMAIN witness.dims |->
                     Dim(IF i = dimension + 1 THEN 0 ELSE kDynamic)]
        Merged(ds) == If(\A i \in DOMAIN ds : ds[i] # Failure, <<[i \in DOMAIN ds |-> ds[i][1]]>>)
        Merge(acc, t) ==
            IF acc = Failure THEN Failure
            ELSE Merged([i \in DOMAIN t.dims |->
                           IF i = dimension + 1
                           THEN <<inferConcatenatedDimAndBound(acc[1][i], t.dims[i])>>
                           ELSE inferMostSpecificDimAndBound(acc[1][i], t.dims[i])])
        Result(merged) == If(merged # Failure, <<[et |-> witness.et, dims |-> merged[1]]>>)
    IN  If(/\ Rank(witness) > 0 /\ dimension < Rank(witness)
           /\ \A i \in DOMAIN inputs :
                 /\ Rank(inputs[i]) = Rank(witness)
                 /\ \A d \in 0..(Rank(witness) - 1) : d # dimension =>
                        verifyCompatibleDims(SizeAt(witness, d), SizeAt(inputs[i], d)),
           Result(FoldLeft(Merge, <<start>>, inputs)))

\* Common to convolution and dynamic_conv, whose padding may be Unknown: then
\* nothing is inferred about the result, which is the type it is declared with.
ConvolutionIsValid(lhs, rhs, attrs) ==
    /\ Rank(lhs) >= 2 /\ Rank(lhs) = Rank(rhs)
    /\ \/ anyQuantized(<<lhs, rhs>>)
       \/ isCompatibleElementTypeForHloTypeInference(lhs.et, rhs.et)
       \/ lhs.et.k = "f" /\ rhs.et.k = "f" /\ lhs.et.w = 8 /\ rhs.et.w = 8
    /\ verifyConvolutionAttributes(lhs, rhs, attrs.dn, attrs.featureGroupCount,
                                   attrs.batchGroupCount)
    /\ Rank(lhs) = Len(attrs.dn.inputSpatial) + 2

ConvolutionResult(lhs, rhs, attrs, padding) ==
    LET dn == attrs.dn
        kernel == [i \in DOMAIN dn.kernelSpatial |-> SizeAt(rhs, dn.kernelSpatial[i])]
        image == [i \in DOMAIN dn.inputSpatial |-> SizeAt(lhs, dn.inputSpatial[i])]
        window == verifyWindowAttributesAndInferWindowDimensions(kernel, attrs.windowStrides,
                     padding, attrs.lhsDilation, attrs.rhsDilation, attrs.windowReversal)
        spatial == inferWindowOutputShape(image, window[1])
        batch == SizeAt(lhs, dn.inputBatch)
        Size(d) == CASE d = dn.outputBatch ->
                           IF isDynamicDimSize(batch) THEN kDynamic
                                                      ELSE batch \div attrs.batchGroupCount
                     [] d = dn.outputFeature -> SizeAt(rhs, dn.kernelOutputFeature)
                     [] OTHER -> At(spatial, IndexOf(d, dn.outputSpatial))
    IN  If(window # Failure,
           <<Tensor(NoElementType, [i \in 1..Rank(lhs) |-> Size(i - 1)])>>)

inferConvolutionOp(lhs, rhs, attrs) ==
    If(ConvolutionIsValid(lhs, rhs, attrs), ConvolutionResult(lhs, rhs, attrs, attrs.padding))

inferDynamicConvOp(lhs, rhs, paddingType, padding, attrs, declared) ==
    If(/\ ConvolutionIsValid(lhs, rhs, attrs)
       /\ Sizes(paddingType) = <<Rank(lhs) - 2, 2>>,
       IF isConstantShape(padding)
       THEN ConvolutionResult(lhs, rhs, attrs,
               [i \in 1..(Len(padding) \div 2) |-> <<padding[2 * i - 1], padding[2 * i]>>])
       ELSE <<declared>>)

inferDotOp(lhs, rhs) ==
    LET l == Rank(lhs)  r == Rank(rhs)
        Contract(i, j) == verifyCompatibleDims(SizeAt(lhs, i), SizeAt(rhs, j))
        dims == (IF l = 2 THEN <<DimAt(lhs, 0)>> ELSE << >>)
                   \o (IF r = 2 THEN <<DimAt(rhs, 1)>> ELSE << >>)
    IN  If(l \in 1..2 /\ r \in 1..2 /\ Contract(l - 1, 0),
           <<[et |-> NoElementType, dims |-> dims]>>)

checkDotGeneralConstraints(lhs, rhs, dn) ==
    /\ Len(dn.lhsBatching) = Len(dn.rhsBatching)
    /\ Len(dn.lhsContracting) = Len(dn.rhsContracting)
    /\ checkDimsDistinct(dn.lhsBatching, dn.lhsContracting)
    /\ checkDimsDistinct(dn.rhsBatching, dn.rhsContracting)
    /\ checkDimsInBounds(dn.lhsBatching \o dn.lhsContracting, Rank(lhs))
    /\ checkDimsInBounds(dn.rhsBatching \o dn.rhsContracting, Rank(rhs))
    /\ \A i \in DOMAIN dn.lhsBatching :
          verifyCompatibleDims(SizeAt(lhs, dn.lhsBatching[i]), SizeAt(rhs, dn.rhsBatching[i]))
    /\ \A i \in DOMAIN dn.lhsContracting :
          verifyCompatibleDims(SizeAt(lhs, dn.lhsContracting[i]), SizeAt(rhs, dn.rhsContracting[i]))

inferDotGeneralOp(lhs, rhs, dn) ==
    LET batch == [i \in DOMAIN dn.lhsBatching |->
                    inferMostSpecificDimAndBound(DimAt(lhs, dn.lhsBatching[i]),
                                                 DimAt(rhs, dn.rhsBatching[i]))]
        Free(t, used) == LET kept == Without(Iota(Rank(t)), used)
                         IN  [i \in DOMAIN kept |-> DimAt(t, kept[i])]
    IN  If(checkDotGeneralConstraints(lhs, rhs, dn) /\ \A i \in DOMAIN batch : batch[i] # Failure,
           <<[et |-> NoElementType,
              dims |-> [i \in DOMAIN batch |-> batch[i][1]]
                          \o Free(lhs, dn.lhsBatching \o dn.lhsContracting)
                          \o Free(rhs, dn.rhsBatching \o dn.rhsContracting)]>>)

inferDynamicSliceOp(operand, startIndices, sliceSizes) ==
    If(/\ Len(startIndices) = Len(sliceSizes) /\ Rank(operand) = Len(startIndices)
       /\ tensorsHaveSameElType(startIndices, TRUE)
       /\ \A i \in DOMAIN sliceSizes :
             /\ sliceSizes[i] >= 0
             /\ isDynamicDimSize(operand.dims[i].size) \/ sliceSizes[i] <= operand.dims[i].size,
       <<Tensor(operand.et, sliceSizes)>>)

inferDynamicUpdateSliceOp(operand, update, startIndices) ==
    If(/\ Rank(update) = Rank(operand) /\ Len(startIndices) = Rank(operand)
       /\ tensorsHaveSameElType(startIndices, TRUE)
       /\ \A i \in DOMAIN update.dims :
             \/ isDynamicDimSize(update.dims[i].size) \/ isDynamicDimSize(operand.dims[i].size)
             \/ update.dims[i].size <= operand.dims[i].size,
       <<operand>>)

inferFftOp(operand, fftType, fftLength) ==
    LET n == Len(fftLength)
        last == Rank(operand)
        back == TakeBack(Sizes(operand), n)
        Matches(i) == verifyCompatibleDims(back[i], fftLength[i])
        lastSize == operand.dims[last].size
        resultLast == CASE fftType = "RFFT" /\ fftLength[n] # 0 -> Dim(fftLength[n] \div 2 + 1)
                        [] fftType = "RFFT" /\ fftLength[n] = 0 -> Dim(lastSize)
                        [] fftType = "IRFFT" -> Dim(fftLength[n])
                        [] OTHER -> operand.dims[last]
        et == CASE fftType = "RFFT" -> C(operand.et.w)
                [] fftType = "IRFFT" -> F(operand.et.w)
                [] OTHER -> operand.et
    IN  If(/\ n \in 1..3
           /\ IF fftType = "RFFT" THEN operand.et \in {F(32), F(64)} ELSE operand.et.k = "c"
           /\ Rank(operand) >= n
           /\ fftType = "RFFT" => \A i \in 1..n : Matches(i)
           /\ fftType = "IRFFT" =>
                 /\ \A i \in 1..(n - 1) : Matches(i)
                 /\ \/ verifyCompatibleDims(lastSize, 0) /\ fftLength[n] = 0
                    \/ verifyCompatibleDims(lastSize, fftLength[n] \div 2 + 1),
           <<[et |-> et, dims |-> [operand.dims EXCEPT ![last] = resultLast]]>>)

inferGetDimensionSizeOp(operand, dimension) ==
    If(verifyDimInBounds(operand, dimension), <<Tensor(I(32), << >>)>>)

inferGetTupleElementOp(types, index) == If(index < Len(types), <<types[index + 1]>>)

-----------------------------------------------------------------------------
(* The rest of the ops, in the order of the source.                        *)

inferMapOp(inputs, dimensions, computation) ==
    If(/\ Len(inputs) = Len(computation.args)
       /\ \A i \in DOMAIN inputs : /\ Rank(computation.args[i]) = 0
                                   /\ computation.args[i].et = inputs[i].et
                                   /\ Len(dimensions) = Rank(inputs[i])
       /\ Len(computation.returns) = 1 /\ Rank(computation.returns[1]) = 0
       /\ dimensions = Iota(Len(dimensions)),
       <<Tensor(computation.returns[1].et, Sizes(Last(inputs)))>>)

inferOptimizationBarrierOp(operands) == operands
inferOutfeedOp == <<TokenType>>

inferPadOp(operand, low, high, interior) ==
    LET Padded(i, n) == n + low[i] + high[i] + Max({n - 1, 0}) * interior[i]
        SizeOrBound(d) == IF isStaticDimSize(d.size) THEN d.size ELSE d.bound
        Result(i, d) == CASE isStaticDimSize(d.size) -> Dim(Padded(i, d.size))
                          [] isStaticDimSize(d.bound) -> BoundedDim(Padded(i, d.bound))
                          [] OTHER -> Dim(kDynamic)
    IN  If(/\ Len(low) = Rank(operand)
           /\ \A i \in DOMAIN operand.dims :
                 /\ interior[i] >= 0
                 /\ \/ isDynamicDimSize(SizeOrBound(operand.dims[i]))
                    \/ Padded(i, SizeOrBound(operand.dims[i])) >= 0,
           <<[et |-> operand.et,
              dims |-> [i \in DOMAIN operand.dims |-> Result(i, operand.dims[i])]]>>)

inferPartitionIdOp == <<Tensor(U(32), << >>)>>
inferReplicaIdOp == <<Tensor(U(32), << >>)>>

inferReduceOp(inputs, dimensions, body) ==
    LET kept == verifyReduceOpInputsAndInferShape(inputs, dimensions)
        accumulators == getAccumulatorTypesOrInputTypes(body, inputs)
    IN  If(kept # Failure,
           [i \in DOMAIN inputs |-> [et |-> accumulators[i].et, dims |-> kept[1]]])

inferReduceWindowOp(inputs, attrs, body) ==
    LET window == verifyReduceWindowOpInputsAndInferWindow(inputs, attrs)
        accumulators == getAccumulatorTypesOrInputTypes(body, inputs)
        Result(i) == Shaped(accumulators[i].et,
                            inferWindowOutputShape(Sizes(inputs[i]), window[1]),
                            inferWindowOutputShape(Bounds(inputs[i]), window[1]))
    IN  If(window # Failure, [i \in DOMAIN inputs |-> Result(i)])

inferReverseOp(operand) == <<operand>>

\* The rank of the result is the size of the shape operand.
inferRngOp(a, b, shapeType, shape, isUniform) ==
    If(isUniform \/ (a.et.k = "f" /\ b.et.k = "f"),
       <<Tensor(b.et, IF isConstantShape(shape) THEN shape
                      ELSE [i \in 1..SizeAt(shapeType, 0) |-> kDynamic])>>)

inferScatterOp(inputs, updateComputation) ==
    LET accumulators == getAccumulatorTypesOrInputTypes(updateComputation, inputs)
    IN  [i \in DOMAIN inputs |-> WithElementType(inputs[i], accumulators[i].et)]

inferSelectOp(pred, onTrue, onFalse) ==
    If(/\ compatibleShapeAndElementType(onTrue, onFalse, FALSE)
       /\ Rank(pred) = 0 \/ verifyCompatibleShape(pred, onTrue),
       inferMostSpecificShapedType(<<onTrue, onFalse>>))

inferSelectAndScatterOp(operand, scatter) ==
    <<WithElementType(operand, getAccumulatorTypesOrInputTypes(scatter, <<operand>>)[1].et)>>

inferSendOp(isDeviceToDevice, isDeviceToHost, isHostTransfer) ==
    If(/\ isHostTransfer \/ isDeviceToDevice
       /\ isHostTransfer => isDeviceToHost,
       <<TokenType>>)

\* size is the value of the size operand, or kDynamic.
inferSetDimensionSizeOp(operand, sizeType, size, dimension) ==
    LET d == DimAt(operand, dimension)
        bound == IF isStaticDimSize(d.size) THEN d.size ELSE d.bound
        new == IF isStaticDimSize(size) /\ size = bound THEN Dim(size) ELSE BoundedDim(bound)
    IN  If(Rank(sizeType) = 0 /\ verifyDimInBounds(operand, dimension),
           <<[operand EXCEPT !.dims[dimension + 1] = new]>>)

inferSliceOp(operand, start, limit, strides) ==
    LET SizeOrBound(d) == IF isStaticDimSize(d.size) THEN d.size ELSE d.bound
        Count(i) == (limit[i] - start[i] + strides[i] - 1) \div strides[i]
    IN  If(/\ Len(start) = Rank(operand)
           /\ \A i \in DOMAIN start :
                 /\ start[i] >= 0
                 /\ \/ isDynamicDimSize(SizeOrBound(operand.dims[i]))
                    \/ limit[i] <= SizeOrBound(operand.dims[i])
                 /\ start[i] <= limit[i] /\ strides[i] > 0,
           <<Tensor(operand.et, [i \in DOMAIN start |-> Count(i)])>>)

inferSortOp(inputs) == inputs

inferTransposeOp(operand, permutation) ==
    If(Len(permutation) = Rank(operand) /\ SeqToSet(permutation) = 0..(Rank(operand) - 1),
       <<[operand EXCEPT !.dims = [i \in DOMAIN permutation |-> DimAt(operand, permutation[i])]]>>)

inferTriangularSolveOp(a, b, leftSide, isTransposeAInvalid) ==
    LET r == Rank(a)
    IN  If(/\ r >= 2 /\ verifyCompatibleDims(SizeAt(a, r - 2), SizeAt(a, r - 1))
           /\ r = Rank(b)
           /\ verifyCompatibleDims(SizeAt(a, r - 1), SizeAt(b, r - (IF leftSide THEN 2 ELSE 1)))
           /\ \A d \in 0..(r - 3) : verifyCompatibleDims(SizeAt(a, d), SizeAt(b, d))
           /\ ~ isTransposeAInvalid,
           <<b>>)

inferTupleOp(operands) == operands
inferUniformDequantizeOp(operand) == <<Tensor(operand.et.expressed, Sizes(operand))>>
inferUniformQuantizeOp(operand) == <<Tensor(NoElementType, Sizes(operand))>>
inferWhileOp(operands) == operands

============================================================================
