---------------------------- MODULE OpVerifiers ----------------------------
(***************************************************************************)
(* The verifiers of stablehlo/dialect/TypeInference.cpp: the checks an op  *)
(* has to pass beyond what the inference of its result types establishes.  *)
(* Where the result types are declared rather than inferred (reshape,      *)
(* broadcast_in_dim, the dynamic ops, convolution and dot) the verifier is *)
(* what keeps the declared type in line with the operands.                 *)
(*                                                                         *)
(* Not distinguished: element types below the kinds of ShapedTypes (bf16   *)
(* and f16 are both F(16)), precision_config, names of composites.         *)
(***************************************************************************)
EXTENDS TypeInference

ScalarType(et) == Tensor(et, << >>)
\* The reducer of a collective works on scalars of the operand's element type.
verifyScalarReducer(computation, operand) ==
    verifyReducerShape(computation, <<operand>>, <<ScalarType(operand.et)>>, << >>)

-----------------------------------------------------------------------------
(* Collectives.                                                            *)

\* The loop over the operands stops with success at the first operand whose
\* gathered dimension is dynamic: the operands after it are not checked.
verifyAllGatherOp(operands, dim, replicaGroups, channelId, useGlobalDeviceIds, results) ==
    LET Dynamic(i) == \/ isDynamicDimSize(SizeAt(operands[i], dim))
                      \/ isDynamicDimSize(SizeAt(results[i], dim))
        Prefix(i) == /\ dim < Rank(operands[i])
                     /\ SizeAt(operands[i], dim) # 0
                     /\ Rank(results[i]) = Rank(operands[i])
                     /\ \A d \in 0..(Rank(operands[i]) - 1) : d # dim =>
                           verifyCompatibleDims(SizeAt(results[i], d), SizeAt(operands[i], d))
        Whole(i) == Prefix(i) /\ ~ Dynamic(i)
                       /\ SizeAt(results[i], dim) % SizeAt(operands[i], dim) = 0
    IN  /\ verifyReplicaGroups(replicaGroups, TRUE, useGlobalDeviceIds, AnySize)
        /\ useGlobalDeviceIds => channelId >= 0
        /\ \/ \A i \in DOMAIN operands : Whole(i)
           \/ \E i \in DOMAIN operands : /\ Prefix(i) /\ Dynamic(i)
                                         /\ \A j \in 1..(i - 1) : Whole(j)

verifyAllReduceOp(operands, replicaGroups, channelId, useGlobalDeviceIds, computation) ==
    /\ verifyReplicaGroups(replicaGroups, FALSE, useGlobalDeviceIds, AnySize)
    /\ useGlobalDeviceIds => channelId > 0
    /\ \A i \in DOMAIN operands : verifyScalarReducer(computation, operands[i])

\* The operand that holds the roots: one i32 for each data operand.
verifyRoots(operands, hasDynamicRoot) ==
    IF hasDynamicRoot
    THEN /\ Len(operands) >= 2
         /\ Last(operands).et = I(32) /\ Rank(Last(operands)) = 1
         /\ SizeAt(Last(operands), 0) = Len(operands) - 1
    ELSE operands # << >>

verifyCollectiveReduceOp(operands, replicaGroups, channelId, useGlobalDeviceIds, hasDynamicRoot, computation) ==
    /\ verifyReplicaGroups(replicaGroups, FALSE, useGlobalDeviceIds, AnySize)
    /\ useGlobalDeviceIds => channelId > 0
    /\ verifyRoots(operands, hasDynamicRoot)
    /\ \A i \in 1..(Len(operands) - (IF hasDynamicRoot THEN 1 ELSE 0)) :
          verifyScalarReducer(computation, operands[i])

verifyCollectiveBroadcastOp(operands, replicaGroups, hasDynamicRoot) ==
    /\ \A i \in DOMAIN FlattenSeq(replicaGroups) : FlattenSeq(replicaGroups)[i] >= 0
    /\ isUnique(FlattenSeq(replicaGroups))
    /\ verifyRoots(operands, hasDynamicRoot)

verifyCollectivePermuteOp(pairs) ==
    /\ \A i \in DOMAIN pairs : Len(pairs[i]) = 2 /\ pairs[i][1] >= 0 /\ pairs[i][2] >= 0
    /\ isUnique([i \in DOMAIN pairs |-> pairs[i][1]])
    /\ isUnique([i \in DOMAIN pairs |-> pairs[i][2]])

verifyReduceScatterOp(operand, dim, replicaGroups, channelId, useGlobalDeviceIds, computation, result) ==
    LET o == SizeAt(operand, dim)  r == SizeAt(result, dim)
    IN  /\ verifyReplicaGroups(replicaGroups, TRUE, useGlobalDeviceIds, AnySize)
        /\ verifyScalarReducer(computation, operand)
        /\ Rank(operand) = Rank(result) /\ dim < Rank(operand)
        /\ useGlobalDeviceIds => channelId > 0
        /\ \/ isDynamicDimSize(o) \/ isDynamicDimSize(r)
           \/ /\ o # 0 /\ r # 0 /\ o % r = 0
              /\ \A d \in 0..(Rank(operand) - 1) : d # dim =>
                    verifyCompatibleDims(SizeAt(operand, d), SizeAt(result, d))
              /\ result.et = getAccumulatorTypesOrInputTypes(computation, <<operand>>)[1].et

verifyInfeedOp(layout, results) ==
    /\ results # << >>
    /\ \A i \in 1..(Len(results) - 1) : results[i] # TokenType
    /\ Last(results) = TokenType
    /\ layout = << >> \/ Len(layout[1]) = Len(results) - 1

verifyRecvOp(isDeviceToDevice, isHostToDevice, isHostTransfer, results) ==
    /\ isHostTransfer \/ isDeviceToDevice
    /\ isHostTransfer => isHostToDevice
    /\ results # << >>
    /\ \A i \in 1..(Len(results) - 1) : results[i] # TokenType
    /\ Last(results) = TokenType

verifyAddOp(lhs, rhs, result) ==
    IF anyQuantized(<<lhs, rhs, result>>)
    THEN verifyBinaryOpQuantizationConstraints(lhs, rhs, result)
    ELSE lhs.et = rhs.et /\ lhs.et = result.et

-----------------------------------------------------------------------------
(* Ops whose result type is declared.                                      *)

NumElements(t) == Product(Sizes(t))

verifyBitcastConvertOp(operand, result) ==
    LET o == getBitWidth(operand.et)  r == getBitWidth(result.et)
        small == IF o < r THEN operand ELSE result
        big == IF o < r THEN result ELSE operand
        smallWidth == Min({o, r})
        Agree(n) == \A d \in 0..(n - 1) : verifyCompatibleDims(SizeAt(small, d), SizeAt(big, d))
    IN  /\ operand.et.k = "c" <=> result.et.k = "c"
        /\ IF o = r
           THEN Agree(Min({Rank(small), Rank(big)}))
           ELSE /\ Rank(small) = Rank(big) + 1
                /\ \/ isDynamicDimSize(Last(small.dims).size)
                   \/ Last(small.dims).size * smallWidth = Max({o, r})
                /\ Agree(Rank(big))

verifyBroadcastInDimOp(operand, dims, result) ==
    /\ verifyQPerTensorScaleAndZeroPointConstraints(operand, result)
    /\ Len(dims) = Rank(operand)
    /\ isUnique(dims)
    /\ \A i \in DOMAIN dims :
          /\ 0 <= dims[i] /\ dims[i] < Rank(result)
          /\ operand.dims[i].size \in {kDynamic, 1, SizeAt(result, dims[i])}
    /\ isPerAxis(result.et) => verifyBroadcastInDimOpQuantConstraints(operand, result, dims)

\* decomposition is the type of the function: args and results.
verifyCompositeOp(operands, results, nameIsValid, decomposition) ==
    /\ nameIsValid
    /\ decomposition # Failure
    /\ operands = decomposition[1].args
    /\ results = decomposition[1].returns

verifyConvolutionOpQuantizationConstraints(lhs, rhs, result, kernelOutputFeature, outputFeature) ==
    /\ isPerAxis(rhs.et) => rhs.et.axis = kernelOutputFeature
    /\ isPerAxis(result.et) => result.et.axis = outputFeature
    /\ verifyConvolutionDotGeneralCommonQuantizationConstraints(lhs.et, rhs.et, result.et)

verifyConvolutionOp(lhs, rhs, attrs, result) ==
    LET inferred == inferConvolutionOp(lhs, rhs, attrs)
    IN  /\ inferred # Failure
        /\ verifyCompatibleShape(inferred[1], result)
        /\ anyQuantized(<<lhs, rhs, result>>) =>
              verifyConvolutionOpQuantizationConstraints(lhs, rhs, result,
                  attrs.dn.kernelOutputFeature, attrs.dn.outputFeature)

\* Unlike verifyConvolutionOp, does not compare the inferred shape with the
\* declared one.
verifyDynamicConvOp(lhs, rhs, paddingType, padding, attrs, result) ==
    /\ inferDynamicConvOp(lhs, rhs, paddingType, padding, attrs, result) # Failure
    /\ anyQuantized(<<lhs, rhs, result>>) =>
          verifyConvolutionOpQuantizationConstraints(lhs, rhs, result,
              attrs.dn.kernelOutputFeature, attrs.dn.outputFeature)

verifyDotOp(lhs, rhs, result) ==
    LET inferred == inferDotOp(lhs, rhs)
    IN  inferred # Failure /\ verifyCompatibleShape(inferred[1], result)

verifyDotGeneralOpQuantizationConstraints(lhs, rhs, result, rhsContracting) ==
    /\ isQuantized(rhs.et) => \A i \in DOMAIN rhs.et.zeroPoints : rhs.et.zeroPoints[i] = 0
    /\ isPerAxis(rhs.et) => rhs.et.axis \notin SeqToSet(rhsContracting)
    /\ verifyConvolutionDotGeneralCommonQuantizationConstraints(lhs.et, rhs.et, result.et)

verifyDotGeneralOp(lhs, rhs, dn, isDefaultPrecisionConfig, hasAlgorithmSpecified, result) ==
    LET inferred == inferDotGeneralOp(lhs, rhs, dn)
    IN  /\ inferred # Failure
        /\ verifyCompatibleShape(inferred[1], result)
        /\ isDefaultPrecisionConfig \/ ~ hasAlgorithmSpecified
        /\ anyQuantized(<<lhs, rhs, result>>) =>
              verifyDotGeneralOpQuantizationConstraints(lhs, rhs, result, dn.rhsContracting)

verifyDynamicBroadcastInDimOp(operand, outputDimensions, dims, knownExpanding, knownNonexpanding, result) ==
    /\ \/ anyQuantized(<<operand, result>>)
       \/ isCompatibleElementTypeForHloTypeInference(operand.et, result.et)
    /\ Len(dims) = Rank(operand) /\ Rank(operand) <= Rank(result)
    /\ isUnique(dims)
    /\ \A i \in DOMAIN dims :
          /\ 0 <= dims[i] /\ dims[i] < Rank(result)
          /\ \/ operand.dims[i].size = 1
             \/ verifyCompatibleDims(operand.dims[i].size, SizeAt(result, dims[i]))
    /\ verifyShapeOperandIsCompatibleWithResultType(outputDimensions, result)
    /\ isUnique(knownExpanding \o knownNonexpanding)
    /\ checkDimsInBounds(knownExpanding \o knownNonexpanding, Rank(operand))
    /\ isStaticShape(operand) /\ isConstantShape(outputDimensions) =>
          \A i \in DOMAIN dims : operand.dims[i].size \in {1, At(outputDimensions, dims[i])}
    /\ isPerAxis(result.et) => verifyBroadcastInDimOpQuantConstraints(operand, result, dims)

verifyDynamicIotaOp(outputShape, iotaDimension, result) ==
    /\ iotaDimension < Rank(result)
    /\ verifyShapeOperandIsCompatibleWithResultType(outputShape, result)

verifyDynamicPadOp(operand, lowType, low, high, interior, result) ==
    /\ SizeAt(lowType, 0) = Rank(operand)
    /\ isConstantShape(interior) => \A i \in DOMAIN interior : interior[i] >= 0
    /\ /\ isStaticShape(operand) /\ isStaticShape(result)
       /\ isConstantShape(interior) /\ isConstantShape(low) /\ isConstantShape(high)
       => \A i \in DOMAIN operand.dims :
             result.dims[i].size = operand.dims[i].size + low[i] + high[i]
                                      + Max({operand.dims[i].size - 1, 0}) * interior[i]

verifyDynamicReshapeOp(operand, outputShapeType, outputShape, result) ==
    /\ \/ anyQuantized(<<operand, result>>)
       \/ isCompatibleElementTypeForHloTypeInference(operand.et, result.et)
    /\ isStaticShape(operand) /\ isStaticShape(result) => NumElements(operand) = NumElements(result)
    /\ verifyShapeOperandIsCompatibleWithResultType(outputShape, result)
    /\ SizeAt(outputShapeType, 0) = Rank(result)
    /\ isStaticShape(operand) /\ isConstantShape(outputShape) =>
          NumElements(operand) = Product(outputShape)
    /\ anyQuantized(<<operand, result>>) => verifyReshapeOpQuantizationConstraints(operand, result)

verifyIotaOp(iotaDimension, result) == Rank(result) # 0 /\ iotaDimension < Rank(result)

verifyRealDynamicSliceOp(operand, startType, limitType, stridesType) ==
    \A t \in {startType, limitType, stridesType} : NumElements(t) = Rank(operand)

\* A dynamic dimension ends the checks: quantization is not verified then.
verifyReshapeOp(operand, result) ==
    isStaticShape(operand) /\ isStaticShape(result) =>
        /\ NumElements(operand) = NumElements(result)
        /\ anyQuantized(<<operand, result>>) =>
              verifyReshapeOpQuantizationConstraints(operand, result)

verifyReverseOp(operand, dims) == isUnique(dims) /\ checkDimsInBounds(dims, Rank(operand))

verifyRngBitGeneratorOp(initialState, outputState) ==
    verifyCompatibleShape(initialState, outputState)

verifyUniformQuantizeOp(operand, result) ==
    result.et.expressed = IF operand.et.k = "f" THEN operand.et ELSE operand.et.expressed

-----------------------------------------------------------------------------
(* Ops with regions.                                                       *)

verifyReduceOp(inputs, initValues, dims, body) ==
    LET kept == verifyReduceOpInputsAndInferShape(inputs, dims)
    IN  /\ kept # Failure
        /\ verifyReducerShape(body, inputs, initValues, [i \in DOMAIN kept[1] |-> kept[1][i].size])

verifyReduceWindowOp(inputs, initValues, attrs, body) ==
    /\ verifyReduceWindowOpInputsAndInferWindow(inputs, attrs) # Failure
    /\ verifyReducerShape(body, inputs, initValues, attrs.windowDimensions)

verifyScatterOp(inputs, indices, updates, dn, computation) ==
    LET expanded == Sizes(indices) \o (IF dn.indexVectorDim = Rank(indices) THEN <<1>> ELSE << >>)
        window(i) == LET kept == Without(Iota(Rank(inputs[i])),
                                         dn.insertedWindowDims \o dn.inputBatchingDims)
                     IN  [k \in DOMAIN kept |-> SizeAt(inputs[i], kept[k])]
        scatterDims(i) == Without(Iota(Rank(updates[i])), dn.updateWindowDims)
        batch == Without(Iota(Len(expanded)), <<dn.indexVectorDim>>)
    IN  /\ \A i \in DOMAIN inputs : /\ verifyCompatibleShape(inputs[1], inputs[i])
                                    /\ verifyCompatibleShape(updates[1], updates[i])
        /\ checkDimInBounds(dn.indexVectorDim, Rank(indices), TRUE)
        /\ verifyReducerShape(computation, inputs,
              [i \in DOMAIN inputs |-> ScalarType(updates[i].et)], << >>)
        /\ \A i \in DOMAIN inputs :
              /\ Rank(updates[i]) = Len(expanded) - 1 + Len(dn.updateWindowDims)
              /\ validateScatterDimensionNumbers(inputs[i], expanded, updates[i], dn)
              /\ \A k \in DOMAIN dn.updateWindowDims :
                    \/ isDynamicDimSize(SizeAt(updates[i], dn.updateWindowDims[k]))
                    \/ isDynamicDimSize(window(i)[k])
                    \/ SizeAt(updates[i], dn.updateWindowDims[k]) <= window(i)[k]
              /\ \A k \in DOMAIN scatterDims(i) :
                    verifyCompatibleDims(SizeAt(updates[i], scatterDims(i)[k]), At(expanded, batch[k]))

verifySelectAndScatterOp(operand, source, initValue, attrs, select, scatter) ==
    LET window == verifyWindowAttributesAndInferWindowDimensions(attrs.windowDimensions,
                     attrs.windowStrides, attrs.padding, << >>, << >>, << >>)
    IN  /\ Len(select.args) = 2
        /\ \A i \in 1..2 : compatibleShapeAndElementType(ScalarType(operand.et), select.args[i], TRUE)
        /\ select.returns = <<ScalarType(I(1))>>
        /\ verifyReducerShape(scatter, <<ScalarType(source.et)>>, <<initValue>>, << >>)
        /\ Rank(operand) = Len(attrs.windowDimensions)
        /\ window # Failure
        /\ compatibleShapeAndElementType(
              Tensor(operand.et, inferWindowOutputShape(Sizes(operand), window[1])), source, TRUE)

verifySortOp(inputs, dimension, comparator) ==
    /\ inputs # << >> => -Rank(inputs[1]) <= dimension /\ dimension < Rank(inputs[1])
    /\ Len(comparator.args) = 2 * Len(inputs)
    /\ \A i \in DOMAIN inputs : /\ comparator.args[2 * i - 1] = ScalarType(inputs[i].et)
                                /\ comparator.args[2 * i] = ScalarType(inputs[i].et)
    /\ comparator.returns = <<ScalarType(I(1))>>

verifyWhileOp(operands, cond, body) ==
    /\ isCompatibleTypeRange(operands, cond.args)
    /\ isCompatibleTypeRange(operands, body.args)
    /\ isCompatibleTypeRange(operands, body.returns)
    /\ cond.returns = <<ScalarType(I(1))>>

-----------------------------------------------------------------------------
(* Attributes.                                                             *)

\* lhs, rhs and accumulation types, components of both sides, primitive
\* operations: the algorithms of KnownDotAlgorithm.  bf16, tf32 and the f8 types
\* other than f8E4M3FN are F types with widths of their own.
AnyF8 == {F(8), F(81)}
KnownDotAlgorithms ==
    LET bf16 == F(161)  tf32 == F(19)  f8 == F(8)
    IN  {<<F(16), F(16), F(16), 1>>, <<F(16), F(16), F(32), 1>>, <<bf16, bf16, bf16, 1>>,
         <<f8, f8, F(32), 3>>, <<f8, f8, F(32), 4>>,
         <<tf32, tf32, F(32), 1>>, <<tf32, tf32, F(32), 3>>,
         <<F(32), F(32), F(32), 1>>, <<F(64), F(64), F(64), 1>>}
            \cup {<<bf16, bf16, F(32), n>> : n \in {1, 3, 6, 9}}

getKnownDotAlgorithm(lhs, rhs, acc, lhsComponents, rhsComponents, ops, imprecise) ==
    /\ lhsComponents = 1 /\ rhsComponents = 1
    /\ \/ lhs \in AnyF8 /\ rhs \in AnyF8 /\ acc = F(32) /\ ops = 1
       \/ ~ imprecise /\ <<lhs, rhs, acc, ops>> \in KnownDotAlgorithms

verifyDotAlgorithmAttr(lhs, rhs, acc, lhsComponents, rhsComponents, ops, imprecise) ==
    /\ lhsComponents >= 1 /\ rhsComponents >= 1 /\ ops >= 1
    /\ getKnownDotAlgorithm(lhs, rhs, acc, lhsComponents, rhsComponents, ops, imprecise)

verifyResultAccuracyCombination(atol, rtol, ulps, mode) ==
    mode \in {"DEFAULT", "HIGHEST"} => atol = 0 /\ rtol = 0 /\ ulps = 0

verifyResultAccuracyAttr(atol, rtol, ulps, mode) ==
    /\ atol >= 0 /\ rtol >= 0 /\ ulps >= 0
    /\ verifyResultAccuracyCombination(atol, rtol, ulps, mode)

============================================================================
