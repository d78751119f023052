------------------------- MODULE TypeInferenceUtils -------------------------
(***************************************************************************)
(* The checks that the shape functions of stablehlo/dialect/               *)
(* TypeInference.cpp share: quantization constraints, dimension numbers,   *)
(* windows, replica groups, reducers, convolution and scatter attributes.  *)
(*                                                                         *)
(* A check is a predicate.  Types are those of ShapedTypes.  A region is a *)
(* record of the types of its block arguments and of what its terminator   *)
(* returns.                                                                *)
(***************************************************************************)
EXTENDS ShapedTypes

SeqToSet(s) == {s[i] : i \in DOMAIN s}
\* A function on 1..n, as the list of its values.
ListOf(f) == f \o << >>
\* The members of a sequence of sizes, counted from 0.
At(s, d) == s[d + 1]
Block(args, returns) == [args |-> args, returns |-> returns]

-----------------------------------------------------------------------------
(* Quantization.                                                           *)

allQuantized(Kind(_), ts) == \A i \in DOMAIN ts : Kind(ts[i].et)
anyQuantized(ts) == \E i \in DOMAIN ts : isQuantized(ts[i].et)

verifyBinaryOpQuantizationConstraints(lhs, rhs, result) ==
    LET l == lhs.et  r == rhs.et  res == result.et
    IN  /\ allQuantized(isQuantized, <<lhs, rhs, result>>)
        /\ l.storage = r.storage /\ l.storage = res.storage
        /\ l.expressed = r.expressed /\ l.expressed = res.expressed
        /\ IF isPerAxis(l) \/ isPerAxis(r)
           THEN /\ isPerAxis(res)
                /\ isPerAxis(l) => res.axis = l.axis
                /\ isPerAxis(r) => res.axis = r.axis
           ELSE ~ isPerAxis(res)

verifyConvolutionDotGeneralCommonQuantizationConstraints(l, r, res) ==
    /\ isQuantized(r)
    /\ isQuantized(l) <=> isQuantized(res)
    /\ IF isQuantized(l)
       THEN /\ l.storage = r.storage
            /\ l.expressed = r.expressed /\ l.expressed = res.expressed
            /\ isPerTensor(r) => isPerTensor(res)
       ELSE l = r.expressed /\ l = res

\* zip stops at the shorter list: the numbers of scales are not compared.
isSameQuantPerAxisScaleZeroPoint(e1, e2) ==
    /\ isPerAxis(e1) /\ isPerAxis(e2)
    /\ \A i \in DOMAIN e1.scales \cap DOMAIN e2.scales : e1.scales[i] = e2.scales[i]
    /\ \A i \in DOMAIN e1.zeroPoints \cap DOMAIN e2.zeroPoints :
          e1.zeroPoints[i] = e2.zeroPoints[i]

verifyQPerTensorScaleAndZeroPointConstraints(t1, t2) ==
    allQuantized(isPerTensor, <<t1, t2>>) => t1.et = t2.et

verifyQPerAxisScaleAndZeroPointConstraints(t1, t2) ==
    allQuantized(isPerAxis, <<t1, t2>>) => isSameQuantPerAxisScaleZeroPoint(t1.et, t2.et)

Product(s) == FoldLeft(LAMBDA a, n : a * n, 1, s)

verifyReshapeOpQuantizationConstraints(operand, result) ==
    LET opDim == operand.et.axis
        resDim == result.et.axis
        Before(t, d) == Product(SubSeq(Sizes(t), 1, d))
    IN  /\ verifyQPerTensorScaleAndZeroPointConstraints(operand, result)
        /\ verifyQPerAxisScaleAndZeroPointConstraints(operand, result)
        /\ allQuantized(isPerAxis, <<operand, result>>) =>
              /\ \/ isDynamicDimSize(SizeAt(operand, opDim))
                 \/ isDynamicDimSize(SizeAt(result, resDim))
                 \/ SizeAt(operand, opDim) = SizeAt(result, resDim)
              /\ isStaticShape(operand) /\ isStaticShape(result) =>
                    Before(operand, opDim) = Before(result, resDim)

verifyBroadcastInDimOpQuantConstraints(operand, result, broadcastDimensions) ==
    LET o == operand.et  r == result.et
    IN  /\ r.axis = At(broadcastDimensions, o.axis)
        /\ SizeAt(operand, o.axis) = 1 =>
              \A i \in 1..SizeAt(result, r.axis) :
                  r.scales[i] = o.scales[1] /\ r.zeroPoints[i] = o.zeroPoints[1]

-----------------------------------------------------------------------------
(* Dimension numbers and element types.                                    *)

isUnique(nums) == \A i, j \in DOMAIN nums : nums[i] = nums[j] => i = j
checkDimsDistinct(lhsDims, rhsDims) == isUnique(lhsDims \o rhsDims)
checkDimInBounds(dim, upperBound, inclusive) ==
    0 <= dim /\ dim < upperBound + (IF inclusive THEN 1 ELSE 0)
checkDimsInBounds(dims, upperBound) ==
    \A i \in DOMAIN dims : 0 <= dims[i] /\ dims[i] < upperBound
is_sorted(nums) == \A i, j \in DOMAIN nums : i < j => nums[i] <= nums[j]

tensorsHaveSameElType(ts, ignoreFpPrecision) ==
    \A i \in DOMAIN ts : \/ ignoreFpPrecision /\ ts[1].et.k = "f" /\ ts[i].et.k = "f"
                         \/ ts[1].et = ts[i].et

getBitWidth(et) == IF et.k = "c" THEN 2 * et.w ELSE et.w

matchesType(a, b) ==
    \/ a.k \in {"i", "ui"} /\ b.k \in {"i", "ui"}
    \/ a.k \in {"f", "c"} /\ b.k = a.k
    \/ isQuantized(a) /\ isQuantized(b) /\ a.expressed = b.expressed

isPromotableElementType(t1, t2, ignoreFpPrecision) ==
    /\ matchesType(t1.et, t2.et)
    /\ \/ ignoreFpPrecision /\ t1.et.k = "f"
       \/ getBitWidth(t1.et) <= getBitWidth(t2.et)

compatibleShapeAndElementType(t1, t2, ignoreFpPrecision) ==
    verifyCompatibleShape(t1, t2) /\ tensorsHaveSameElType(<<t1, t2>>, ignoreFpPrecision)

\* Faulty variant: the first size has to be known.
verifyCompatibleDimsOneSided(n1, n2) == isDynamicDimSize(n2) \/ n1 = n2
verifyCompatibleDims(n1, n2) == isDynamicDimSize(n1) \/ isDynamicDimSize(n2) \/ n1 = n2

verifyPairwiseCompatibleShapes(ts) ==
    \A i, j \in DOMAIN ts : verifyCompatibleShape(ts[i], ts[j])

\* A shape operand is the sequence of its values when it is a constant, and
\* Unknown when it is not.
Unknown == <<kDynamic>>
isConstantShape(s) == s # Unknown

verifyShapeOperandIsCompatibleWithResultType(shapeOperand, result) ==
    isConstantShape(shapeOperand) => isCompatibleShapeForHloTypeInference(shapeOperand, result)

-----------------------------------------------------------------------------
(* Windows.                                                                *)

dilatedBound(bound, dilation) == IF bound = 0 THEN 0 ELSE (bound - 1) * dilation + 1

stridedBound(bound, windowSize, stride) ==
    IF bound = 0 \/ windowSize > bound THEN 0 ELSE (bound - windowSize) \div stride + 1

\* Attributes are sequences; the empty sequence is an absent attribute.
verifyWindowAttributesAndInferWindowDimensions(sizes, strides, padding, lhsDilation, rhsDilation, reversal) ==
    LET Given(attr, i, default) == IF attr = << >> THEN default ELSE attr[i]
        SizeOk(attr) == attr = << >> \/ Len(attr) = Len(sizes)
        window == [i \in DOMAIN sizes |->
                     [size |-> sizes[i],
                      stride |-> Given(strides, i, 1),
                      baseDilation |-> Given(lhsDilation, i, 1),
                      windowDilation |-> Given(rhsDilation, i, 1),
                      paddingLow |-> Given(padding, i, <<0, 0>>)[1],
                      paddingHigh |-> Given(padding, i, <<0, 0>>)[2]]]
    IN  IF /\ SizeOk(strides) /\ SizeOk(lhsDilation) /\ SizeOk(rhsDilation)
           /\ SizeOk(padding) /\ SizeOk(reversal)
           /\ \A i \in DOMAIN sizes :
                 /\ isDynamicDimSize(sizes[i]) \/ sizes[i] > 0
                 /\ window[i].stride > 0
                 /\ window[i].baseDilation > 0
                 /\ window[i].windowDilation > 0
        THEN <<window>>
        ELSE Failure

inferWindowOutputShape(baseShape, window) ==
    [i \in DOMAIN window |->
        LET w == window[i]
            padded == w.paddingLow + dilatedBound(baseShape[i], w.baseDilation) + w.paddingHigh
        IN  IF isDynamicDimSize(baseShape[i]) \/ isDynamicDimSize(w.size)
            THEN kDynamic
            ELSE stridedBound(padded, dilatedBound(w.size, w.windowDilation), w.stride)]

-----------------------------------------------------------------------------
(* Replica groups: a sequence of rows of one length, padded with -1.       *)

AnySize == -1

verifyReplicaGroups(groups, allGroupsMustHaveSameSize, useGlobalDeviceIds, expectedGroupSize) ==
    LET ids == FlattenSeq(groups)
        real == SelectSeq(ids, LAMBDA id : id # -1)
    IN  /\ useGlobalDeviceIds => Len(ids) > 0
        /\ allGroupsMustHaveSameSize => real = ids
        /\ isUnique(real)
        /\ \A n \in 0..(Len(real) - 1) : n \in SeqToSet(real)
        /\ allGroupsMustHaveSameSize /\ expectedGroupSize # AnySize =>
              Len(groups) > 0 /\ Len(ids) \div Len(groups) = expectedGroupSize

-----------------------------------------------------------------------------
(* Reductions.                                                             *)

\* The dimensions that are left, or Failure, wrapped in a sequence.
verifyReduceOpInputsAndInferShape(inputs, dimensions) ==
    LET witness == inputs[1]
        kept == SelectSeq([i \in DOMAIN witness.dims |-> i - 1],
                          LAMBDA d : d \notin SeqToSet(dimensions))
    IN  IF /\ \A i \in DOMAIN inputs : verifyCompatibleShape(witness, inputs[i])
           /\ checkDimsInBounds(dimensions, Rank(witness))
           /\ isUnique(dimensions)
        THEN <<[i \in DOMAIN kept |-> DimAt(witness, kept[i])]>>
        ELSE Failure

getAccumulatorTypesOrInputTypes(block, inputs) ==
    IF block = Block(<< >>, << >>) THEN inputs ELSE block.returns

\* Greedy matching of the dimensions of an argument with the allowed ones.
DimensionsAreAllowed(argSizes, allowed) ==
    Len(argSizes) <= Len(allowed) /\
    FoldLeft(LAMBDA n, size : IF n < Len(argSizes) /\ verifyCompatibleDims(size, argSizes[n + 1])
                              THEN n + 1 ELSE n, 0, allowed) = Len(argSizes)

verifyReducerShape(block, inputs, initValues, allowedDimensions) ==
    LET n == Len(inputs)
    IN  /\ Len(block.args) = 2 * n
        /\ block.returns # << >> /\ Len(block.returns) = n
        /\ \A i \in 1..n :
              /\ compatibleShapeAndElementType(block.returns[i], block.args[i], FALSE)
              /\ compatibleShapeAndElementType(block.returns[i], block.args[n + i], TRUE)
              /\ verifyCompatibleShape(initValues[i], block.returns[i])
              /\ isPromotableElementType(initValues[i], block.returns[i], TRUE)
              /\ isPromotableElementType(inputs[i], block.args[n + i], TRUE)
              /\ DimensionsAreAllowed(Sizes(block.args[n + i]), allowedDimensions)

\* The window, wrapped in a sequence, or Failure.
verifyReduceWindowOpInputsAndInferWindow(inputs, attrs) ==
    IF /\ inputs # << >>
       /\ \A i \in DOMAIN inputs : /\ verifyCompatibleShape(inputs[1], inputs[i])
                                   /\ Rank(inputs[i]) = Len(attrs.windowDimensions)
    THEN verifyWindowAttributesAndInferWindowDimensions(
            attrs.windowDimensions, attrs.windowStrides, attrs.padding,
            attrs.baseDilations, attrs.windowDilations, << >>)
    ELSE Failure

-----------------------------------------------------------------------------
(* Ops with several variants.                                              *)

verifyTransposeOp(operand, permutation, result) ==
    /\ verifyQPerTensorScaleAndZeroPointConstraints(operand, result)
    /\ verifyQPerAxisScaleAndZeroPointConstraints(operand, result)
    /\ isPerAxis(result.et) => operand.et.axis = At(permutation, result.et.axis)

verifyBatchNorm(multiDim, singleDim, featureIndex) ==
    /\ verifyPairwiseCompatibleShapes(multiDim)
    /\ verifyPairwiseCompatibleShapes(singleDim)
    /\ featureIndex < Rank(multiDim[1])
    /\ verifyCompatibleDims(SizeAt(singleDim[1], 0), SizeAt(multiDim[1], featureIndex))

inferBatchNormOp(multiDim, singleDim, featureIndex, isInference) ==
    LET feature == [et |-> multiDim[1].et, dims |-> <<DimAt(multiDim[1], featureIndex)>>]
    IN  IF ~ verifyBatchNorm(multiDim, singleDim, featureIndex) THEN Failure
        ELSE IF isInference THEN <<multiDim[1]>>
        ELSE <<multiDim[1], feature, feature>>

\* Dimension numbers of a convolution: input and output are batch, feature and
\* spatial dimensions, kernel is input feature, output feature and spatial.
isSpatialDimensionsValid(lhs, dn) ==
    LET groups == <<<<dn.inputBatch, dn.inputFeature>> \o dn.inputSpatial,
                    <<dn.kernelInputFeature, dn.kernelOutputFeature>> \o dn.kernelSpatial,
                    <<dn.outputBatch, dn.outputFeature>> \o dn.outputSpatial>>
    IN  /\ \A i \in 1..3 : /\ Len(groups[i]) = Len(groups[1])
                           /\ checkDimsInBounds(groups[i], Rank(lhs))
                           /\ isUnique(groups[i])

verifyConvolutionAttributes(lhs, rhs, dn, featureGroupCount, batchGroupCount) ==
    LET inputFeatures == SizeAt(lhs, dn.inputFeature)
        inputBatch == SizeAt(lhs, dn.inputBatch)
        kernelInputFeatures == SizeAt(rhs, dn.kernelInputFeature)
        kernelOutputFeatures == SizeAt(rhs, dn.kernelOutputFeature)
    IN  /\ isSpatialDimensionsValid(lhs, dn)
        /\ ~ (batchGroupCount > 1 /\ featureGroupCount > 1)
        /\ isStaticDimSize(inputBatch) => inputBatch % batchGroupCount = 0
        /\ isStaticDimSize(inputFeatures) =>
              /\ inputFeatures % featureGroupCount = 0
              /\ \/ isDynamicDimSize(kernelInputFeatures)
                 \/ inputFeatures \div featureGroupCount = kernelInputFeatures
        /\ isStaticDimSize(kernelOutputFeatures) =>
              /\ kernelOutputFeatures % batchGroupCount = 0
              /\ kernelOutputFeatures % featureGroupCount = 0

\* indicesShape is the shape of scatter_indices, extended by 1 when the index
\* vector is implicit.
validateScatterDimensionNumbers(operand, indicesShape, update, dn) ==
    /\ Rank(operand) = Len(dn.updateWindowDims) + Len(dn.insertedWindowDims)
                          + Len(dn.inputBatchingDims)
    /\ is_sorted(dn.updateWindowDims) /\ isUnique(dn.updateWindowDims)
    /\ checkDimsInBounds(dn.updateWindowDims, Rank(update))
    /\ checkDimsDistinct(dn.insertedWindowDims, dn.inputBatchingDims)
    /\ is_sorted(dn.insertedWindowDims)
    /\ checkDimsInBounds(dn.insertedWindowDims, Rank(operand))
    /\ is_sorted(dn.inputBatchingDims)
    /\ checkDimsInBounds(dn.inputBatchingDims, Rank(operand))
    /\ isUnique(dn.scatterIndicesBatchingDims)
    /\ checkDimsInBounds(dn.scatterIndicesBatchingDims, Len(indicesShape))
    /\ dn.indexVectorDim \notin SeqToSet(dn.scatterIndicesBatchingDims)
    /\ Len(dn.inputBatchingDims) = Len(dn.scatterIndicesBatchingDims)
    /\ \A i \in DOMAIN dn.inputBatchingDims :
          verifyCompatibleDims(SizeAt(operand, dn.inputBatchingDims[i]),
                               At(indicesShape, dn.scatterIndicesBatchingDims[i]))
    /\ dn.indexVectorDim = Len(indicesShape) => Len(dn.scatterDimsToOperandDims) = 1
    /\ \/ isDynamicDimSize(At(indicesShape, dn.indexVectorDim))
       \/ Len(dn.scatterDimsToOperandDims) = At(indicesShape, dn.indexVectorDim)
    /\ checkDimsDistinct(dn.scatterDimsToOperandDims, dn.inputBatchingDims)
    /\ checkDimsInBounds(dn.scatterDimsToOperandDims, Rank(operand))

============================================================================
