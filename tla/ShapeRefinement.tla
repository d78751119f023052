--------------------------- MODULE ShapeRefinement ---------------------------
(***************************************************************************)
(* The patterns and steps of the passes that make a program static:        *)
(* StablehloRefineArguments.cpp, StablehloRefineShapes.cpp,                *)
(* StablehloCanonicalizeDynamism.cpp and StablehloCheckShapeAssertions.cpp.*)
(* A function is its body and the result types of its signature.           *)
(***************************************************************************)
EXTENDS CompatibilityExpander

Function(body, results) == [body |-> body, results |-> results]
\* The outcome of a refinement: whether it succeeded, and the program, which
\* a failed refinement may have changed too.
Refinement(ok, body) == [ok |-> ok, body |-> body]
Unrefined(b) == Refinement(FALSE, b)

Cast(from, to) == OpOf("unrealized_conversion_cast", <<from>>, NoAttrs, <<to>>)
isCast(b, v) == definedBy(b, v, "unrealized_conversion_cast")

insertAfter(b, o, news) ==
    [b EXCEPT !.ops = FlattenSeq([i \in DOMAIN @ |->
        IF @[i].outs # << >> /\ IdsOf(@[i].outs) = IdsOf(o.outs) THEN <<@[i]>> \o news ELSE <<@[i]>>])]
prepend(b, news) == [b EXCEPT !.ops = news \o @]
LeadingCount(s, Test(_)) == Min({i \in DOMAIN s : ~ Test(s[i])} \cup {Len(s) + 1}) - 1

-----------------------------------------------------------------------------
(* refineValues and what is built on it.                                   *)

\* Ops of other dialects may not expect the types of their operands to change.
\* The values before the first one with such a user are refined all the same.
\* What the function returns keeps its type behind a cast.

\* Faulty variant: what the function returns changes its type, too.
refineValuesNoCast(b, o, values, types) ==
    LET merged(i) == inferMostSpecificShapedType(<<values[i].type, types[i]>>)
        place(n) == CHOOSE i \in DOMAIN values : values[i].id = n
    IN  IF Len(values) # Len(types) \/ \E i \in DOMAIN values : merged(i) = Failure THEN Unrefined(b)
        ELSE Refinement(TRUE, retype(b, [n \in IdsOf(values) |-> merged(place(n))[1]]))
refineTo(b, o, values, merged) ==
    LET changed == {i \in DOMAIN values : merged[i] # values[i].type}
        blocked == {i \in changed : \E u \in opsOf(b) :
                        u.name = "unrealized_conversion_cast" /\ CountIn(u.ins, values[i]) > 0}
        done == {i \in changed : \A j \in blocked : i < j}
        place(n) == CHOOSE i \in DOMAIN values : values[i].id = n
        returned == {i \in done : values[i].id \in IdsOf(b.rets)}
        old(i) == Fresh(b, i, values[i].type)
        casts == SetToSeq({Cast(Value(values[i].id, merged[i]), old(i)) : i \in returned})
        typed == retype(b, [n \in {values[i].id : i \in done} |-> merged[place(n)]])
    IN  IF changed = {} THEN Unrefined(b)
        ELSE Refinement(blocked = {},
                [insertAfter(typed, o, casts) EXCEPT !.rets =
                    SubstituteIn(@, [n \in {values[i].id : i \in returned} |-> old(place(n))])])
refineToMerged(b, o, values, merged) ==
    IF Failure \in SeqToSet(merged) THEN Unrefined(b)
    ELSE refineTo(b, o, values, [i \in DOMAIN values |-> merged[i][1]])
refineValues(b, o, values, types) ==
    IF Len(values) # Len(types) THEN Unrefined(b)
    ELSE refineToMerged(b, o, values,
            [i \in DOMAIN values |-> inferMostSpecificShapedType(<<values[i].type, types[i]>>)])

refineReturnTypes(b, o, types) == refineValues(b, o, o.outs, types)

\* The same from shapes, which may come without an element type.
refineReturnTypeComponents(b, o, refinements) ==
    LET refinedType(i) == WithElementType(refinements[i], o.outs[i].type.et)
    IN  IF /\ Len(refinements) = Len(o.outs)
           /\ \A i \in DOMAIN refinements :
                 /\ refinements[i].et \in {NoElementType, o.outs[i].type.et}
                 /\ ~ hasBounds(o.outs[i].type) /\ ~ hasBounds(refinements[i])
                 /\ isCompatibleForHloTypeInference(o.outs[i].type, refinedType(i))
        THEN refineReturnTypes(b, o, [i \in DOMAIN refinements |-> refinedType(i)])
        ELSE Unrefined(b)
refineReturnShape(b, o, shape) == refineReturnTypeComponents(b, o, <<Tensor(NoElementType, shape)>>)
refineReturnShapeFromOperand(b, o, shapeValue) ==
    LET shape == matchInts(b, shapeValue)
    IN  IF shape = << >> THEN Unrefined(b) ELSE refineReturnShape(b, o, shape[1])

\* hlo::getShapeRefinements: the operands that hold the shapes of the results.
getShapeRefinements(b, o) ==
    LET indices == o.attrs.indicesOfShapeOperands
        operand(i) == At(o.ins, indices[i])
    IN  IF /\ indices # << >> /\ Len(indices) = Len(o.outs)
           /\ \A i \in DOMAIN indices : indices[i] \in 0..(Len(o.ins) - 1)
           /\ \A i \in DOMAIN indices :
                 /\ matchInts(b, operand(i)) # << >>
                 /\ isCompatibleShapeForHloTypeInference(matchInts(b, operand(i))[1], o.outs[i].type)
        THEN [i \in DOMAIN indices |-> Tensor(NoElementType, matchInts(b, operand(i))[1])]
        ELSE Failure

-----------------------------------------------------------------------------
(* StablehloRefineArguments.cpp                                            *)

WrapperTarget == "stablehlo.shape_refinement_operand_wrapper"
CustomCallAttrs(target, indices, hasSideEffect) ==
    [target |-> target, indicesOfShapeOperands |-> indices, hasSideEffect |-> hasSideEffect,
     operandLayouts |-> << >>, resultLayouts |-> << >>, aliases |-> << >>, backendConfig |-> "none",
     isTypedFfi |-> FALSE, errorMessage |-> << >>]
I64Tensor(ints) == [type |-> Tensor(I(64), <<Len(ints)>>),
                    data |-> [i \in DOMAIN ints |-> APInt(I(64), ints[i])]]

makeShapeRefinementOperandWrapper(operand, refinedType, shape, result) ==
    <<ConstantOp(shape, I64Tensor(Sizes(refinedType))),
      OpOf("custom_call", <<operand, shape>>, CustomCallAttrs(WrapperTarget, <<1>>, FALSE), <<result>>)>>

validateRefinedTypes(argTypes, refinedTypes) ==
    /\ Len(argTypes) = Len(refinedTypes)
    /\ \A i \in DOMAIN argTypes :
          \/ argTypes[i] = refinedTypes[i]
          \/ /\ TokenType \notin {argTypes[i], refinedTypes[i]}
             /\ argTypes[i].et = refinedTypes[i].et
             /\ Rank(argTypes[i]) = Rank(refinedTypes[i])
             /\ \A d \in DOMAIN argTypes[i].dims :
                   argTypes[i].dims[d].size \in {kDynamic, refinedTypes[i].dims[d].size}

\* Until its users are refined, an argument is used with its old type.
wrapRefinedOperands(b, refinedTypes) ==
    LET n == Len(b.args)
        wrapped == SelectSeq([i \in 1..n |-> i], LAMBDA i : b.args[i].type # refinedTypes[i])
        shape(i) == Fresh(b, i, Tensor(I(64), <<Rank(refinedTypes[i])>>))
        result(i) == Fresh(b, n + i, b.args[i].type)
        index(id) == CHOOSE i \in 1..n : b.args[i].id = id
    IN  prepend(substitute(b, [id \in {b.args[wrapped[k]].id : k \in DOMAIN wrapped} |-> result(index(id))]),
                FlattenSeq([k \in DOMAIN wrapped |->
                   LET i == wrapped[k]
                   IN  makeShapeRefinementOperandWrapper(b.args[i], refinedTypes[i], shape(i), result(i))]))
refineOperandsAndUpdateFunctionSignature(b, refinedTypes) ==
    retype(b, [id \in IdsOf(b.args) |-> refinedTypes[CHOOSE i \in DOMAIN b.args : b.args[i].id = id]])

refineArguments(b, refinedTypes) ==
    IF validateRefinedTypes(TypesOf(b.args), refinedTypes)
    THEN <<refineOperandsAndUpdateFunctionSignature(wrapRefinedOperands(b, refinedTypes), refinedTypes)>>
    ELSE Failure

-----------------------------------------------------------------------------
(* The patterns of StablehloRefineShapes.cpp for one op.                   *)

\* shardCount is the size of the replica groups
ScaledAt(shape, d, Scale(_)) ==
    [shape EXCEPT ![d + 1] = IF isDynamicDimSize(@) THEN @ ELSE Scale(@)]
groupsAreKnown(o) == o.attrs.channelId > 0 => o.attrs.useGlobalDeviceIds
RefineAllGatherOpPattern(b, o) ==
    LET shardCount == Len(o.attrs.replicaGroups[1])
    IN  IF ~ groupsAreKnown(o) THEN Unrefined(b)
        ELSE refineReturnShape(b, o, ScaledAt(Sizes(o.ins[1].type), o.attrs.dim, LAMBDA n : n * shardCount))
RefineReduceScatterOpPattern(b, o) ==
    LET shardCount == Len(o.attrs.replicaGroups[1])
    IN  IF ~ groupsAreKnown(o) \/ shardCount = 0 THEN Unrefined(b)
        ELSE refineReturnShape(b, o, ScaledAt(Sizes(o.ins[1].type), o.attrs.dim, LAMBDA n : n \div shardCount))

RefineBitcastConvertOpPattern(b, o) ==
    IF o.ins[1].type.et.w # o.outs[1].type.et.w THEN Unrefined(b)
    ELSE refineReturnShape(b, o, Sizes(o.ins[1].type))

RefineConvertOpPattern(b, o) == refineReturnTypeComponents(b, o, inferConvertOp(o.ins[1].type))
RefineConvolutionOpPattern(b, o) ==
    refineReturnTypeComponents(b, o, inferConvolutionOp(o.ins[1].type, o.ins[2].type, o.attrs))
RefineDotGeneralOpPattern(b, o) ==
    refineReturnTypeComponents(b, o, inferDotGeneralOp(o.ins[1].type, o.ins[2].type, o.attrs.dn))
RefineDotOpPattern(b, o) ==
    refineReturnTypeComponents(b, o, inferDotOp(o.ins[1].type, o.ins[2].type))
RefineUniformQuantizeOpPattern(b, o) ==
    refineReturnTypeComponents(b, o, inferUniformQuantizeOp(o.ins[1].type))

RefineDynamicBroadcastInDimOpPattern(b, o) == refineReturnShapeFromOperand(b, o, o.ins[2])
RefineDynamicReshapeOpPattern(b, o) == refineReturnShapeFromOperand(b, o, o.ins[2])
RefineDynamicIotaOpPattern(b, o) == refineReturnShapeFromOperand(b, o, o.ins[1])
RefineRngOpPattern(b, o) == refineReturnShapeFromOperand(b, o, o.ins[3])

Pairs(ints) == [i \in 1..(Len(ints) \div 2) |-> <<ints[2 * i - 1], ints[2 * i]>>]
RefineDynamicConvOpPattern(b, o) ==
    LET padding == matchInts(b, o.ins[3])
    IN  IF padding = << >> THEN Unrefined(b)
        ELSE refineReturnTypeComponents(b, o,
                inferConvolutionOp(o.ins[1].type, o.ins[2].type, [o.attrs EXCEPT !.padding = Pairs(padding[1])]))

RefineDynamicPadOpPattern(b, o) ==
    IF ~ areInts(b, SubSeq(o.ins, 3, 5)) THEN Unrefined(b)
    ELSE refineReturnTypes(b, o, inferPadOp(o.ins[1].type, i64Array(b, o.ins[3]), i64Array(b, o.ins[4]),
                                            i64Array(b, o.ins[5])))

\* From the indices, or from the size alone where limit = start + constant.
limitIsStartPlusConstant(b, o) ==
    /\ definedBy(b, o.ins[3], "add")
    /\ LET sum == definingOp(b, o.ins[3]).ins
       IN  \E i \in 1..2 : sum[i] = o.ins[2] /\ matchInts(b, sum[3 - i]) # << >>
sliceSizesOf(b, o) ==
    LET sum == definingOp(b, o.ins[3]).ins
    IN  i64Array(b, sum[CHOOSE i \in 1..2 : sum[3 - i] = o.ins[2] /\ matchInts(b, sum[i]) # << >>])
RefineRealDynamicSliceOpPattern(b, o) ==
    IF areInts(b, Tail(o.ins))
    THEN refineReturnTypes(b, o, inferSliceOp(o.ins[1].type, i64Array(b, o.ins[2]), i64Array(b, o.ins[3]),
                                              i64Array(b, o.ins[4])))
    ELSE IF limitIsStartPlusConstant(b, o) /\ constantIs(b, o.ins[4], isIntOne)
    THEN LET sizes == sliceSizesOf(b, o)
         IN  refineReturnTypeComponents(b, o,
                inferDynamicSliceOp(o.ins[1].type, Repeat(Tensor(o.ins[2].type.et, << >>), Len(sizes)), sizes))
    ELSE Unrefined(b)

\* The wrapper of an argument goes away once its type is refined; its users get
\* the argument, unless that has another type.
removeWrapper(o, refined) ==
    LET wrapper == definingOp(refined.body, o.outs[1])
    IN  IF ~ refined.ok \/ o.attrs.target # WrapperTarget THEN refined
        ELSE Refinement(TRUE, IF wrapper.ins[1].type = wrapper.outs[1].type
                              THEN applied(refined.body, wrapper, ReplaceWith(<<wrapper.ins[1]>>))
                              ELSE erase(refined.body, wrapper))
refineCustomCall(b, o, refinements) ==
    IF refinements = Failure THEN Unrefined(b)
    ELSE removeWrapper(o, refineReturnTypeComponents(b, o, refinements))
RefineCustomCallOpPattern(b, o) == refineCustomCall(b, o, getShapeRefinements(b, o))

refineInferred(b, o, inferred) ==
    IF inferred = Failure \/ NoElementType \in SeqToSet(ElementTypes(inferred)) THEN Unrefined(b)
    ELSE refineReturnTypes(b, o, inferred)
RefineInferTypeOpInterfacePattern(b, o) == refineInferred(b, o, inferReturnTypes(viewOf(b, o)))

refineBody(o, cond) ==
    LET body == refineValues(cond.body, o, o.regions[2].args, TypesOf(o.ins))
    IN  Refinement(cond.ok \/ body.ok, body.body)
RefineWhileOpPattern(b, o) == refineBody(o, refineValues(b, o, o.regions[1].args, TypesOf(o.ins)))

\* populateStablehloRefineShapesPatterns: the patterns for an op.  (What
\* UpdateRegionTypePattern does is to have the op around the region visited.)
RefineShapesPatterns(b, o) ==
    (IF o.name \in Inferring THEN {RefineInferTypeOpInterfacePattern(b, o)} ELSE {}) \cup
    CASE o.name = "all_gather" -> {RefineAllGatherOpPattern(b, o)}
      [] o.name = "bitcast_convert" -> {RefineBitcastConvertOpPattern(b, o)}
      [] o.name = "convert" -> {RefineConvertOpPattern(b, o)}
      [] o.name = "convolution" -> {RefineConvolutionOpPattern(b, o)}
      [] o.name = "custom_call" -> {RefineCustomCallOpPattern(b, o)}
      [] o.name = "dot_general" -> {RefineDotGeneralOpPattern(b, o)}
      [] o.name = "dot" -> {RefineDotOpPattern(b, o)}
      [] o.name = "dynamic_broadcast_in_dim" -> {RefineDynamicBroadcastInDimOpPattern(b, o)}
      [] o.name = "dynamic_conv" -> {RefineDynamicConvOpPattern(b, o)}
      [] o.name = "dynamic_iota" -> {RefineDynamicIotaOpPattern(b, o)}
      [] o.name = "dynamic_pad" -> {RefineDynamicPadOpPattern(b, o)}
      [] o.name = "dynamic_reshape" -> {RefineDynamicReshapeOpPattern(b, o)}
      [] o.name = "real_dynamic_slice" -> {RefineRealDynamicSliceOpPattern(b, o)}
      [] o.name = "reduce_scatter" -> {RefineReduceScatterOpPattern(b, o)}
      [] o.name = "rng" -> {RefineRngOpPattern(b, o)}
      [] o.name = "uniform_quantize" -> {RefineUniformQuantizeOpPattern(b, o)}
      [] o.name = "while" -> {RefineWhileOpPattern(b, o)}
      [] OTHER -> {}

\* The function returns the refined value, and its signature says so.
UpdateFunctionTypePattern(f) ==
    LET rets == f.body.rets
        cast(i) == definingOp(f.body, rets[i])
        updated == {i \in DOMAIN rets :
                      /\ isCast(f.body, rets[i])
                      /\ inferMostSpecificShapedType(<<cast(i).ins[1].type, rets[i].type>>)
                           \notin {Failure, <<rets[i].type>>}}
        casts == {cast(i) : i \in updated}
        body == FoldLeft(LAMBDA b, c : applied(b, c, ReplaceWith(c.ins)), f.body, SetToSeq(casts))
    IN  Function(body, [i \in DOMAIN f.results |->
                          IF i \in updated THEN cast(i).ins[1].type ELSE rets[i].type])
needsUpdate(f) == UpdateFunctionTypePattern(f).body # f.body

-----------------------------------------------------------------------------
(* Calls: a function is refined once, for the operands of one key.         *)

\* Faulty variant: the constants among the operands are not seen.
getGlobalConstantsNone(b, o, leadingTokens) == << >>
getGlobalConstants(b, o, leadingTokens) ==
    LET operands == SubSeq(o.ins, leadingTokens + 1, Len(o.ins))
        isGlobalConstant(v) == /\ Rank(v.type) = 0 /\ isInteger(v.type.et)
                               /\ matchInts(b, v) # << >>
    IN  [i \in 1..LeadingCount(operands, isGlobalConstant) |-> i64Array(b, operands[i])[1]]
\* RefinementKey::fromCallOp
KeyOf(o, tokens, globalConstants) ==
    [leadingTokenOperands |-> tokens, globalConstants |-> globalConstants,
     functionalArgumentTypes |-> TypesOf(SubSeq(o.ins, tokens + Len(globalConstants) + 1, Len(o.ins)))]
RefinementKey(b, o) ==
    LET tokens == LeadingCount(o.ins, LAMBDA v : v.type = TokenType)
    IN  KeyOf(o, tokens, getGlobalConstants(b, o, tokens))
getAllNonGlobalConstantArgumentTypes(key) ==
    Repeat(TokenType, key.leadingTokenOperands) \o key.functionalArgumentTypes
sameContext(key, prevKey) ==
    /\ key.globalConstants \in {<< >>, prevKey.globalConstants}
    /\ getAllNonGlobalConstantArgumentTypes(key) = getAllNonGlobalConstantArgumentTypes(prevKey)

\* The start of refineFunction: the constants move into the function, and the
\* other arguments get the types of the operands.
enterFunction(f, key) ==
    LET first == key.leadingTokenOperands
        n == Len(key.globalConstants)
        arg(i) == f.body.args[first + i]
        folded(i) == Fresh(f.body, i, arg(i).type)
        ops == [i \in 1..n |-> ConstantOp(folded(i), makeSplat(arg(i).type,
                                                          APInt(arg(i).type.et, key.globalConstants[i])))]
        replaced == substitute(f.body, [id \in {arg(i).id : i \in 1..n} |->
                                          folded(CHOOSE i \in 1..n : arg(i).id = id)])
        erased == [prepend(replaced, ops) EXCEPT !.args =
                      SubSeq(@, 1, first) \o SubSeq(@, first + n + 1, Len(@))]
        refined == refineArguments(erased, getAllNonGlobalConstantArgumentTypes(key))
    IN  Function(IF refined = Failure THEN erased ELSE refined[1], f.results)

getConstantResults(f) ==
    [i \in DOMAIN f.body.rets |->
        LET c == m_Constant(f.body, f.body.rets[i])
        IN  IF c # << >> /\ isInteger(c[1].type.et) THEN c ELSE << >>]

\* The end of RefineCallOpPattern, when the callee has been refined: constant
\* results move into the caller, and so do the result types.
inlineConstantResults(b, o, constants) ==
    LET news == [i \in DOMAIN constants |-> ConstantOp(Fresh(b, i, constants[i][1].type), constants[i][1])]
    IN  applied(b, o, [ops |-> news, values |-> [i \in DOMAIN news |-> news[i].outs[1]]])
\* typed is b with the result types of the callee.
replaceOperandsAndResults(b, typed, o, key, constants, used) ==
    LET new(i) == Fresh(b, i, constants[i][1].type)
        call == CHOOSE u \in opsOf(typed) : u.name = "call" /\ IdsOf(u.outs) = IdsOf(o.outs)
        operands == SubSeq(o.ins, 1, key.leadingTokenOperands)
                      \o TakeBack(o.ins, Len(key.functionalArgumentTypes))
        news == SetToSeq({ConstantOp(new(i), constants[i][1]) : i \in used})
    IN  substitute(replaceIn(typed, call, <<[call EXCEPT !.ins = operands]>> \o news),
                   [id \in {o.outs[i].id : i \in used} |-> new(CHOOSE i \in used : o.outs[i].id = id)])
refineCallTo(b, refined, typesDiffer, o, key, constants, used) ==
    IF typesDiffer /\ ~ refined.ok THEN refined
    ELSE Refinement(typesDiffer \/ key.globalConstants # << >> \/ used # {},
                    replaceOperandsAndResults(b, refined.body, o, key, constants, used))
refineCallResults(b, refined, typesDiffer, o, key, constants) ==
    refineCallTo(b, refined, typesDiffer, o, key, constants,
                 {i \in DOMAIN o.outs : constants[i] # << >> /\ ~ use_empty(refined.body, o.outs[i])})
refineCallWith(b, o, key, results, isMemoryEffectFree, constants) ==
    IF isMemoryEffectFree /\ \A i \in DOMAIN constants : constants[i] # << >>
    THEN Refinement(TRUE, inlineConstantResults(b, o, constants))
    ELSE refineCallResults(b, refineReturnTypes(b, o, results), TypesOf(o.outs) # results, o, key, constants)
refineCall(b, o, key, callee, isMemoryEffectFree) ==
    refineCallWith(b, o, key, callee.results, isMemoryEffectFree, getConstantResults(callee))

-----------------------------------------------------------------------------
(* StablehloCanonicalizeDynamism.cpp                                       *)

CanonicalizeCustomCallOpPattern(b, o) ==
    LET indices == SeqToSet(o.attrs.indicesOfShapeOperands)
        kept == SelectSeq([i \in DOMAIN o.ins |-> i], LAMBDA i : i - 1 \notin indices)
        Kept(s) == [k \in DOMAIN kept |-> s[kept[k]]]
        attrs == [o.attrs EXCEPT !.indicesOfShapeOperands = << >>,
                                 !.operandLayouts = [k \in DOMAIN @ |-> Kept(@[k])]]
    IN  When(/\ getShapeRefinements(b, o) # Failure
             /\ \A i \in 1..Cardinality(indices) : isStaticShape(o.outs[i].type),
             ReplaceWithNewOp(b, o, "custom_call", Kept(o.ins), attrs))

\* The static form of an op whose shape operands are constants; the ops that
\* have to have static results wait until they do.
CanonicalizeDynamicOpPattern(b, o) ==
    LET New(name, operands, attrs) == ReplaceWithNewOp(b, o, name, operands, attrs)
        Ints(i) == i64Array(b, o.ins[i])
        known(first) == areInts(b, SubSeq(o.ins, first, Len(o.ins)))
        static == isStaticShape(ResultType(o))
    IN  CASE o.name = "dynamic_broadcast_in_dim" ->
                When(isStaticShape(o.ins[1].type) /\ known(2) /\ static,
                     New("broadcast_in_dim", <<o.ins[1]>>, [broadcastDimensions |-> o.attrs.broadcastDimensions]))
          [] o.name = "dynamic_conv" ->
                When(known(3), New("convolution", SubSeq(o.ins, 1, 2), [o.attrs EXCEPT !.padding = Pairs(Ints(3))]))
          [] o.name = "dynamic_gather" ->
                When(known(3), New("gather", SubSeq(o.ins, 1, 2),
                                   [dn |-> o.attrs.dn, sliceSizes |-> Ints(3),
                                    indicesAreSorted |-> o.attrs.indicesAreSorted]))
          [] o.name = "dynamic_iota" ->
                When(known(1) /\ static, New("iota", << >>, [iotaDimension |-> o.attrs.iotaDimension]))
          [] o.name = "dynamic_pad" ->
                When(known(3), New("pad", SubSeq(o.ins, 1, 2),
                                   [low |-> Ints(3), high |-> Ints(4), interior |-> Ints(5)]))
          [] o.name = "dynamic_reshape" ->
                When(known(2) /\ static, New("reshape", <<o.ins[1]>>, NoAttrs))

CanonicalizeRealDynamicSliceOpToDynamicSliceOpPattern(b, o) ==
    LET sizes == sliceSizesOf(b, o)
        start == o.ins[2]
        index1D(i) == OpOf("slice", <<start>>, [start |-> <<i - 1>>, limit |-> <<i>>, strides |-> <<1>>],
                           <<Fresh(b, i, Tensor(start.type.et, <<1>>))>>)
        index0D(i) == OpOf("reshape", index1D(i).outs, NoAttrs,
                           <<Fresh(b, Len(sizes) + i, Tensor(start.type.et, << >>))>>)
        slice == OpOf("dynamic_slice", <<o.ins[1]>> \o [i \in DOMAIN sizes |-> index0D(i).outs[1]],
                      [sliceSizes |-> sizes], <<Fresh(b, 2 * Len(sizes) + 1, ResultType(o))>>)
    IN  When(constantIs(b, o.ins[4], isIntOne) /\ limitIsStartPlusConstant(b, o),
             ReplaceWithOps(FlattenSeq([i \in DOMAIN sizes |-> <<index1D(i), index0D(i)>>]) \o <<slice>>))
CanonicalizeRealDynamicSliceOpToSliceOpPattern(b, o) ==
    When(areInts(b, Tail(o.ins)),
         ReplaceWithNewOp(b, o, "slice", <<o.ins[1]>>,
            [start |-> i64Array(b, o.ins[2]), limit |-> i64Array(b, o.ins[3]), strides |-> i64Array(b, o.ins[4])]))

CanonicalizeDynamismPatterns(b, o) ==
    CASE o.name = "custom_call" -> {CanonicalizeCustomCallOpPattern(b, o)}
      [] o.name \in {"dynamic_broadcast_in_dim", "dynamic_conv", "dynamic_gather", "dynamic_iota",
                     "dynamic_pad", "dynamic_reshape"} -> {CanonicalizeDynamicOpPattern(b, o)}
      [] o.name = "real_dynamic_slice" -> {CanonicalizeRealDynamicSliceOpToDynamicSliceOpPattern(b, o),
                                           CanonicalizeRealDynamicSliceOpToSliceOpPattern(b, o)}
      [] OTHER -> {}

-----------------------------------------------------------------------------
(* StablehloCheckShapeAssertions.cpp.  The error message is absent or the  *)
(* set of the numbers of its placeholders.                                 *)

shapeAssertionName == "shape_assertion"
maxErrorMessageInputs == 32
hasOnlySupportedAttributes(o) ==
    << >> = o.attrs.indicesOfShapeOperands \o o.attrs.operandLayouts \o o.attrs.resultLayouts \o o.attrs.aliases
verifyShapeAssertion(o) ==
    /\ Len(o.ins) \in 1..(1 + maxErrorMessageInputs)
    /\ o.outs = << >>
    /\ hasOnlySupportedAttributes(o) /\ o.attrs.backendConfig = "none"
    /\ o.ins[1].type = Tensor(I(1), << >>)
    /\ \A i \in 2..Len(o.ins) : o.ins[i].type \in {Tensor(I(32), << >>), Tensor(I(64), << >>)}
    /\ o.attrs.errorMessage # << >> /\ o.attrs.errorMessage[1] \subseteq 0..(Len(o.ins) - 2)
\* Faulty variant: a constant is enough.
assertionHoldsAnyConstant(b, o) == verifyShapeAssertion(o) /\ matchInts(b, o.ins[1]) # << >>
assertionHolds(b, o) ==
    verifyShapeAssertion(o) /\ matchInts(b, o.ins[1]) # << >> /\ i64Array(b, o.ins[1])[1] # 0
============================================================================
