---------------------- MODULE AggressiveSimplification ----------------------
(***************************************************************************)
(* The patterns of StablehloAggressiveSimplification.cpp and of its        *)
(* declarative part, StablehloAggressiveSimplificationPatterns.td: what    *)
(* each makes of an op o of the program b.  The attributes that carry no   *)
(* meaning of their own (mergeDiscardableAttributes) are left out.         *)
(***************************************************************************)
EXTENDS AggressiveFolder

\* An op that is built without a result type, with the one that it infers.
inferredTypes(name, types, attrs) ==
    CASE name = "concatenate" -> inferConcatenateOp(types, attrs.dimension)
      [] name = "dynamic_slice" -> inferDynamicSliceOp(types[1], Tail(types), attrs.sliceSizes)
      [] name = "gather" -> inferGatherOp(types[1], types[2], attrs.dn, attrs.sliceSizes)
      [] name = "slice" -> inferSliceOp(types[1], attrs.start, attrs.limit, attrs.strides)
Inferred(b, k, name, ins, attrs) ==
    OpOf(name, ins, attrs, <<Fresh(b, k, inferredTypes(name, TypesOf(ins), attrs)[1])>>)
\* A new op in the place of o, with the type of its result.
ReplaceWithNewOp(b, o, name, ins, attrs) ==
    ReplaceWithOp(OpOf(name, ins, attrs, <<Fresh(b, 1, ResultType(o))>>))
ModifyInPlace(o) == ReplaceWithOp(o)
\* Ops in the place of o; the last one computes its result.
ReplaceWithOps(ops) == [ops |-> ops, values |-> ops[Len(ops)].outs]

constantIs(b, v, Fits(_, _)) ==
    LET c == m_Constant(b, v) IN c # << >> /\ isSplat(c[1]) /\ Fits(c[1].type.et, c[1].data[1])
isZero(et, x) == x = <<0>>
isOne(et, x) == x = <<1>> /\ et.k # "c"
isIntZero(et, x) == isInteger(et) /\ x = <<0>>
isIntOne(et, x) == isInteger(et) /\ x = <<1>>
isIntAllOnes(et, x) == isInteger(et) /\ x = APInt(et, -1)
isIotaRange(dims) == dims = Iota(Len(dims))
getNumElementsOf(type) == Product(Sizes(type))
isZeroExtent(type) == isStaticShape(type) /\ getNumElementsOf(type) = 0
i64Array(b, v) == matchInts(b, v)[1]
areInts(b, vs) == \A i \in DOMAIN vs : matchInts(b, vs[i]) # << >>

-----------------------------------------------------------------------------
(* Compare, select.                                                        *)

\* Faulty variant: the comparison is negated, not turned round.
invertDirectionNegated(d) ==
    CASE d = "GE" -> "LT" [] d = "GT" -> "LE" [] d = "LE" -> "GT" [] d = "LT" -> "GE" [] OTHER -> d
invertDirection(d) ==
    CASE d = "GE" -> "LE" [] d = "GT" -> "LT" [] d = "LE" -> "GE" [] d = "LT" -> "GT" [] OTHER -> d
CompareOpCanon(b, o) ==
    LET lhs == o.ins[1]  rhs == o.ins[2]
        isConstant(v) == m_Constant(b, v) # << >>
    IN  IF o.attrs.compareType \notin {"SIGNED", "UNSIGNED"} THEN NoMatch
        ELSE IF lhs = rhs
        THEN ReplaceWithConstant(b, makeSplat(ResultType(o), B(o.attrs.direction \in {"EQ", "GE", "LE"})))
        ELSE When(isConstant(lhs) /\ ~ isConstant(rhs),
                  ModifyInPlace([o EXCEPT !.ins = <<rhs, lhs>>, !.attrs.direction = invertDirection(@)]))

SelectOpCanon(b, o) ==
    LET pred == o.ins[1]  trueVal == o.ins[2]  falseVal == o.ins[3]
        c == constantsOf(b, o.ins)
        cond == m_Constant(b, pred)
    IN  IF trueVal = falseVal THEN ReplaceWith(<<trueVal>>)
        ELSE IF cond = << >> THEN NoMatch
        ELSE IF isSplat(cond[1])
        THEN ReplaceWith(<<IF cond[1].data[1] = <<1>> THEN trueVal ELSE falseVal>>)
        ELSE When(Len(cond[1].data) <= foldOpElementLimit /\ areConstants(b, o.ins),
                  ReplaceWithConstant(b, [type |-> ResultType(o),
                     data |-> [k \in DOMAIN c[1].data |->
                                 IF c[1].data[k] = <<1>> THEN c[2].data[k] ELSE c[3].data[k]]]))

-----------------------------------------------------------------------------
(* Concatenate and slice.                                                  *)

ConcatenateOpNoop(b, o) ==
    When(Len(o.ins) = 1 /\ o.ins[1].type = ResultType(o), ReplaceWith(o.ins))
ConcatenateOpRemoveEmpty(b, o) ==
    LET newOperands == SelectSeq(o.ins, LAMBDA v : SizeAt(v.type, o.attrs.dimension) # 0)
    IN  When(newOperands # << >> /\ Len(newOperands) < Len(o.ins),
             ModifyInPlace([o EXCEPT !.ins = newOperands]))
ConcatenateOpFlatten(b, o) ==
    LET getFlattenedOperands(v) ==
            IF /\ definedBy(b, v, "concatenate") /\ hasOneUse(b, v)
               /\ definingOp(b, v).attrs.dimension = o.attrs.dimension
            THEN definingOp(b, v).ins ELSE <<v>>
        newOperands == FlattenSeq([i \in DOMAIN o.ins |-> getFlattenedOperands(o.ins[i])])
    IN  When(newOperands # o.ins, ModifyInPlace([o EXCEPT !.ins = newOperands]))

\* Only the operands of the concatenation that the slice reads.
SliceOpConcatSimplify(b, o) ==
    LET concat == definingOp(b, o.ins[1])
        d == concat.attrs.dimension
        n == Len(concat.ins)
        sizes == [i \in 1..n |-> SizeAt(concat.ins[i].type, d)]
        Before(i) == FoldLeft(+, 0, SubSeq(sizes, 1, i - 1))
        starts == {i \in 1..n : Before(i) + sizes[i] > At(o.attrs.start, d)}
        ends == {i \in 1..n : Before(i) < At(o.attrs.limit, d)}
        \* operand_end where there is none
        subsetStart == Min(starts \cup {n + 1})
        subsetEnd == IF ends = {} THEN n + 1 ELSE Max(ends) + 1
        frontOffset == IF starts = {} THEN SizeAt(concat.outs[1].type, d) ELSE Before(subsetStart)
        newConcat == Inferred(b, 1, "concatenate", SubSeq(concat.ins, subsetStart, subsetEnd - 1), concat.attrs)
        newAttrs == [o.attrs EXCEPT !.start[d + 1] = @ - frontOffset, !.limit[d + 1] = @ - frontOffset]
    IN  When(/\ isStaticShape(ResultType(o)) /\ definedBy(b, o.ins[1], "concatenate")
             /\ \A i \in 1..n : isStaticDimSize(sizes[i])
             /\ subsetEnd - subsetStart \notin {0, n}
             /\ subsetEnd - subsetStart > 1 => hasOneUse(b, concat.outs[1]),
             ReplaceWithOps(<<newConcat, Inferred(b, 2, "slice", newConcat.outs, newAttrs)>>))

DynamicSliceOpToSlice(b, o) ==
    LET input == o.ins[1]
        starts == Tail(o.ins)
        start == clampIndex(0, [i \in DOMAIN starts |-> i64Array(b, starts[i])[1]],
                            Minus(Sizes(input.type), o.attrs.sliceSizes))
    IN  When(isStaticShape(input.type) /\ areInts(b, starts),
             ReplaceWithOp(Inferred(b, 1, "slice", <<input>>,
                [start |-> start, limit |-> Plus(start, o.attrs.sliceSizes),
                 strides |-> Repeat(1, Rank(input.type))])))

\* Unit strides, and limits that are the starts plus a constant.
RealDynamicSliceOpToDynamicSlice(b, o) ==
    LET start == o.ins[2]
        sum == definingOp(b, o.ins[3])
        sizesOperand == IF sum.ins[1] = start THEN sum.ins[2] ELSE sum.ins[1]
        sizes == i64Array(b, sizesOperand)
        Scalar1D(i) == Inferred(b, i, "slice", <<start>>, [start |-> <<i - 1>>, limit |-> <<i>>, strides |-> <<1>>])
        Scalar0D(i) == OpOf("reshape", Scalar1D(i).outs, NoAttrs,
                            <<Fresh(b, Len(sizes) + i, Tensor(start.type.et, << >>))>>)
        newOp == Inferred(b, 2 * Len(sizes) + 1, "dynamic_slice",
                          <<o.ins[1]>> \o [i \in DOMAIN sizes |-> Scalar0D(i).outs[1]], [sliceSizes |-> sizes])
    IN  When(/\ constantIs(b, o.ins[4], isIntOne)
             /\ definedBy(b, o.ins[3], "add") /\ start \in SeqToSet(sum.ins)
             /\ matchInts(b, sizesOperand) # << >>,
             ReplaceWithOps(FlattenSeq([i \in DOMAIN sizes |-> <<Scalar1D(i), Scalar0D(i)>>]) \o <<newOp>>))

\* A gather of one slice at a constant index.
GatherOpCanon(b, o) ==
    LET dn == o.attrs.dn
        operandType == o.ins[1].type
        index == i64Array(b, o.ins[2])
        sizes == o.attrs.sliceSizes
        Offset(d) == IF d \in SeqToSet(dn.startIndexMap)
                     THEN clampIndex(0, <<At(index, IndexOf(d, dn.startIndexMap))>>,
                                     <<SizeAt(operandType, d) - At(sizes, d)>>)[1]
                     ELSE 0
        start == [i \in DOMAIN sizes |-> Offset(i - 1)]
        slice == OpOf("slice", <<o.ins[1]>>,
                      [start |-> start, limit |-> Plus(start, sizes), strides |-> Repeat(1, Len(sizes))],
                      <<Fresh(b, 1, Tensor(ResultType(o).et, sizes))>>)
        reshape == OpOf("reshape", slice.outs, NoAttrs, <<Fresh(b, 2, ResultType(o))>>)
    IN  When(/\ matchInts(b, o.ins[2]) # << >>
             /\ dn.indexVectorDim = 0 /\ Rank(o.ins[2].type) <= 1
             /\ Len(index) = Len(dn.startIndexMap) /\ isStaticShape(operandType),
             IF dn.collapsedSliceDims # << >> THEN ReplaceWithOps(<<slice, reshape>>)
             ELSE ReplaceWithOp([slice EXCEPT !.outs = <<Fresh(b, 1, ResultType(o))>>]))

-----------------------------------------------------------------------------
(* Broadcast, iota, pad, transpose, tuple.                                 *)

getInvertedBroadcastDimensions(dims) == [i \in DOMAIN dims |-> IndexOf(i - 1, dims)]
getMergedBroadcastDimensions(dims, dimsParent) == [i \in DOMAIN dimsParent |-> At(dims, dimsParent[i])]
getMergedTransposePermutation(childPerm, parentPerm) ==
    [i \in DOMAIN parentPerm |-> At(childPerm, parentPerm[i])]

BroadcastTo(dims) == [broadcastDimensions |-> dims]
DynamicBroadcastTo(dims) ==
    [broadcastDimensions |-> dims, knownExpanding |-> << >>, knownNonexpanding |-> << >>]

DynamicBroadcastInDimOpNotActuallyDynamic(b, o) ==
    LET type == ResultType(o)
        shape == matchInts(b, o.ins[2])
        NewOp(to) == OpOf("broadcast_in_dim", <<o.ins[1]>>, BroadcastTo(o.attrs.broadcastDimensions),
                          <<Fresh(b, 1, to)>>)
        refined == NewOp(Tensor(type.et, shape[1]))
        \* refineOpWithNewOp: the users that are not StableHLO ops keep the old type.
        converted == OpOf("convert", refined.outs, NoAttrs, <<Fresh(b, 2, type)>>)
        foreignUser == CountIn(b.rets, o.outs[1]) > 0
    IN  IF ~ isStaticShape(o.ins[1].type) THEN NoMatch
        ELSE IF isStaticShape(type) THEN ReplaceWithOp(NewOp(type))
        ELSE When(shape # << >>, ReplaceWithOps(IF foreignUser THEN <<refined, converted>> ELSE <<refined>>))

DynamicIotaIsStatic(b, o) ==
    When(isStaticShape(ResultType(o)), ReplaceWithNewOp(b, o, "iota", << >>, o.attrs))
DynamicIotaOpToBroadcast(b, o) ==
    LET type == ResultType(o)
        d == o.attrs.iotaDimension
        shape64 == OpOf("convert", <<o.ins[1]>>, NoAttrs, <<Fresh(b, 1, Tensor(I(64), Sizes(o.ins[1].type)))>>)
        size == Inferred(b, 2, "slice", shape64.outs, [start |-> <<d>>, limit |-> <<d + 1>>, strides |-> <<1>>])
        iota1D == OpOf("dynamic_iota", size.outs, [iotaDimension |-> 0],
                       <<Fresh(b, 3, Tensor(type.et, <<SizeAt(type, d)>>))>>)
        result == OpOf("dynamic_broadcast_in_dim", iota1D.outs \o o.ins, DynamicBroadcastTo(<<d>>),
                       <<Fresh(b, 4, type)>>)
    IN  When(Rank(type) >= 2, ReplaceWithOps(<<shape64, size, iota1D, result>>))
IotaOpBroadcast(b, o) ==
    LET type == ResultType(o)
        d == o.attrs.iotaDimension
        iota1D == OpOf("iota", << >>, [iotaDimension |-> 0], <<Fresh(b, 1, Tensor(type.et, <<SizeAt(type, d)>>))>>)
    IN  When(Rank(type) >= 2,
             ReplaceWithOps(<<iota1D, OpOf("broadcast_in_dim", iota1D.outs, BroadcastTo(<<d>>),
                                           <<Fresh(b, 2, type)>>)>>))

DynamicReshapeOpIsStatic(b, o) ==
    When(isStaticShape(ResultType(o)), ReplaceWithNewOp(b, o, "reshape", <<o.ins[1]>>, NoAttrs))
\* reshape(op(reshape(x, s)), s), where op keeps the shape
ShapeKeeping == (Unary \cup Binary) \ {"convert"}
DynamicReshapeOpSameOperandAndResultShape(b, o) ==
    LET defOp == definingOp(b, o.ins[1])
    IN  When(/\ \E n \in ShapeKeeping : definedBy(b, o.ins[1], n)
             /\ definedBy(b, defOp.ins[1], "dynamic_reshape")
             /\ definingOp(b, defOp.ins[1]).ins[2] = o.ins[2],
             ReplaceWith(defOp.outs))

GetDimensionSizeOpCanon(b, o) == FoldGetDimensionSizeOpPattern(b, o)

\* An operand without elements; a result of unknown shape gets the reified one.
PadOpBroadcastEmptyTensor(b, o) ==
    LET shape == PadOp_reifyReturnTypeShapes(viewOf(b, o))
        shapeOp == ConstantOp(Fresh(b, 1, Tensor(I(64), <<Len(shape)>>)),
                              [type |-> Tensor(I(64), <<Len(shape)>>),
                               data |-> [i \in DOMAIN shape |-> <<shape[i]>>]])
    IN  IF ~ isZeroExtent(o.ins[1].type) THEN NoMatch
        ELSE IF isStaticShape(ResultType(o))
        THEN ReplaceWithNewOp(b, o, "broadcast_in_dim", <<o.ins[2]>>, BroadcastTo(<< >>))
        ELSE ReplaceWithOps(<<shapeOp, OpOf("dynamic_broadcast_in_dim", <<o.ins[2], shapeOp.outs[1]>>,
                                            DynamicBroadcastTo(<< >>), <<Fresh(b, 2, ResultType(o))>>)>>)

TransposeIsReshape(b, o) ==
    LET type == o.ins[1].type
        moved == SelectSeq(o.attrs.permutation, LAMBDA d : SizeAt(type, d) # 1)
    IN  When(/\ isStaticShape(type) /\ isStaticShape(ResultType(o))
             /\ \A i \in 2..Len(moved) : moved[i - 1] <= moved[i],
             ReplaceWithNewOp(b, o, "reshape", o.ins, NoAttrs))

TupleIsRepacking(b, o) ==
    LET tuple == definingOp(b, o.ins[1]).ins[1]
    IN  When(/\ o.ins # << >> /\ definedBy(b, o.ins[1], "get_tuple_element")
             /\ tuple.type = ResultType(o)
             /\ \A i \in DOMAIN o.ins : /\ definedBy(b, o.ins[i], "get_tuple_element")
                                        /\ definingOp(b, o.ins[i]).attrs.index = i - 1
                                        /\ definingOp(b, o.ins[i]).ins[1] = tuple,
             ReplaceWith(<<tuple>>))

-----------------------------------------------------------------------------
(* Ops with regions.                                                       *)

DefinedIn(block, v) == v.id \in idsOf(block)

\* Nothing that the body returns is computed in the body.
ReduceOpNoopVariableReturn(b, o) ==
    When(\A i \in DOMAIN o.outs : ~ DefinedIn(o.regions[1], o.regions[1].rets[i]),
         ReplaceWith(o.regions[1].rets))

\* The shape that ReduceOp::reifyReturnTypeShapes computes at run time.
ReducedShapeOps(b, o) ==
    LET kept == Without(Iota(Rank(o.ins[1].type)), o.attrs.dimensions)
        n == Len(kept)
        Size(i) == OpOf("get_dimension_size", <<o.ins[1]>>, [dimension |-> kept[i]],
                        <<Fresh(b, i, Tensor(I(32), << >>))>>)
        Size1D(i) == OpOf("reshape", Size(i).outs, NoAttrs, <<Fresh(b, n + i, Tensor(I(32), <<1>>))>>)
    IN  FlattenSeq([i \in 1..n |-> <<Size(i), Size1D(i)>>])
          \o <<OpOf("concatenate", [i \in 1..n |-> Size1D(i).outs[1]], [dimension |-> 0],
                    <<Fresh(b, 2 * n + 1, Tensor(I(32), <<n>>))>>)>>
ReduceOpEmptyCanon(b, o) ==
    LET type == o.ins[1].type
        inits == Half(o.ins, 2)
        static == [i \in DOMAIN o.outs |->
                     OpOf("broadcast_in_dim", <<inits[i]>>, BroadcastTo(<< >>), <<Fresh(b, i, o.outs[i].type)>>)]
        shape == ReducedShapeOps(b, o)
        shapeValue == shape[Len(shape)].outs[1]
        dynamic == [i \in DOMAIN o.outs |->
                      OpOf("dynamic_broadcast_in_dim", <<inits[i], shapeValue>>, DynamicBroadcastTo(<< >>),
                           <<Fresh(b, 2 * Rank(type) + 1 + i, o.outs[i].type)>>)]
        Results(ops) == [i \in DOMAIN ops |-> ops[i].outs[1]]
    IN  When(0 \in SeqToSet(Sizes(type)),
             IF isStaticShape(type) THEN [ops |-> static, values |-> Results(static)]
             ELSE [ops |-> shape \o dynamic, values |-> Results(dynamic)])

\* The values of the body that the values vs are computed from.
RECURSIVE reachedFrom(_, _)
reachedFrom(body, vs) ==
    LET more == vs \cup UNION {SeqToSet(x.ins) : x \in {y \in SeqToSet(body.ops) :
                                                        SeqToSet(y.outs) \cap vs # {}}}
    IN  IF more = vs THEN vs ELSE reachedFrom(body, more)

\* Only the number of the argument pairs in use is compared with that of the
\* results in use.
ReduceOpUnusedResultCanon(b, o) ==
    LET body == o.regions[1]
        n == Len(o.outs)
        used == {i \in 1..n : ~ use_empty(b, o.outs[i])}
        reached == reachedFrom(body, {body.rets[i] : i \in used})
        usedArgs == {i \in 1..n : {body.args[i], body.args[i + n]} \cap reached # {}}
        Pairs(vs, keep) == LET ks == SetToSortSeq(keep, <) IN [k \in DOMAIN ks |-> vs[ks[k]]]
        bothHalves == usedArgs \cup {i + n : i \in usedArgs}
        newOuts == LET ks == SetToSortSeq(used, <) IN [k \in DOMAIN ks |-> Fresh(b, k, o.outs[ks[k]].type)]
        newOp == [o EXCEPT !.ins = Pairs(o.ins, bothHalves),
                           !.outs = newOuts,
                           !.regions = <<BlockOf(Pairs(body.args, bothHalves),
                                                 SelectSeq(body.ops, LAMBDA x : SeqToSet(x.outs) \cap reached # {}),
                                                 Pairs(body.rets, used))>>]
    IN  When(used # 1..n /\ Cardinality(usedArgs) = Cardinality(used),
             [ops |-> <<newOp>>,
              values |-> [i \in 1..n |-> IF i \in used THEN newOuts[Cardinality({j \in used : j <= i})]
                                         ELSE o.outs[i]]])

ScatterOpEmptyIndices(b, o) ==
    LET n == (Len(o.ins) - 1) \div 2
        indices == o.ins[n + 1].type
    IN  When(/\ isStaticShape(indices)
             /\ \E d \in Dims(indices) : d # o.attrs.dn.indexVectorDim /\ SizeAt(indices, d) = 0,
             ReplaceWith(SubSeq(o.ins, 1, n)))
ScatterOpZeroExtentUpdates(b, o) ==
    LET n == (Len(o.ins) - 1) \div 2
    IN  When(\A i \in (n + 2)..(2 * n + 1) : isZeroExtent(o.ins[i].type), ReplaceWith(SubSeq(o.ins, 1, n)))

SortOpDropUnusedArgs(b, o) ==
    LET block == o.regions[1]
        n == Len(o.ins)
        erased == {i \in 1..n : /\ use_empty(b, o.outs[i])
                                /\ use_empty(b, block.args[2 * i - 1]) /\ use_empty(b, block.args[2 * i])}
        kept == SetToSortSeq((1..n) \ erased, <)
        newOuts == [k \in DOMAIN kept |-> Fresh(b, k, o.outs[kept[k]].type)]
        newOp == [o EXCEPT !.ins = [k \in DOMAIN kept |-> @[kept[k]]], !.outs = newOuts,
                           !.regions[1].args =
                              FlattenSeq([k \in DOMAIN kept |-> <<@[2 * kept[k] - 1], @[2 * kept[k]]>>])]
    IN  When(erased # {},
             [ops |-> <<newOp>>,
              values |-> [i \in 1..n |-> IF i \in erased THEN o.outs[i] ELSE newOuts[IndexOf(i, kept) + 1]]])
SortOpSetDimension(b, o) ==
    LET outs == [i \in DOMAIN o.outs |-> Fresh(b, i, o.outs[i].type)]
    IN  When(o.outs # << >> /\ o.attrs.dimension = -1,
             ReplaceWithOp([o EXCEPT !.attrs.dimension = Rank(o.outs[1].type) - 1, !.outs = outs]))

\* The operands that every iteration passes on are used where they are.
WhileOpImplicitCapture(b, o) ==
    LET cond == o.regions[1]  body == o.regions[2]
        n == Len(o.ins)
        forwarded == {i \in 1..n : body.rets[i] \in {o.ins[i], body.args[i]}}
        kept == SetToSortSeq((1..n) \ forwarded, <)
        Kept(vs) == [k \in DOMAIN kept |-> vs[kept[k]]]
        Captured(block) ==
            substitute([block EXCEPT !.args = Kept(@)],
                       [m \in {block.args[i].id : i \in forwarded} |->
                          o.ins[CHOOSE i \in forwarded : block.args[i].id = m]])
        newBody == [Captured(body) EXCEPT !.rets = Kept(@)]
        newOuts == [k \in DOMAIN kept |-> Fresh(b, k, body.rets[kept[k]].type)]
        newOp == [o EXCEPT !.ins = Kept(@), !.regions = <<Captured(cond), newBody>>, !.outs = newOuts]
    IN  When(forwarded # {},
             [ops |-> <<newOp>>,
              values |-> [i \in 1..n |-> IF i \in forwarded THEN o.ins[i] ELSE newOuts[IndexOf(i, kept) + 1]]])

-----------------------------------------------------------------------------
(* Tensors without elements.                                               *)

getMaybeZeroExtentType(type) == "dims" \in DOMAIN type /\ isZeroExtent(type)
EmptyConstant(value) == ConstantOp(value, [type |-> value.type, data |-> << >>])
ZeroExtentToEmptyConstant(b, o) ==
    LET results == {i \in DOMAIN o.outs : getMaybeZeroExtentType(o.outs[i].type) /\ ~ use_empty(b, o.outs[i])}
        operands == {i \in DOMAIN o.ins : /\ getMaybeZeroExtentType(o.ins[i].type)
                                          /\ ~ definedBy(b, o.ins[i], "constant")}
        NewResult(i) == Fresh(b, i, o.outs[i].type)
        NewOperand(i) == Fresh(b, Len(o.outs) + i, o.ins[i].type)
        constants == SetToSeq({EmptyConstant(NewResult(i)) : i \in results}
                                \cup {EmptyConstant(NewOperand(i)) : i \in operands})
    IN  When(/\ o.name \notin {"constant", "call", "unrealized_conversion_cast"} /\ ~ declaresEffects(o)
             /\ results \cup operands # {},
             [ops |-> Append(constants, [o EXCEPT !.ins = [i \in DOMAIN @ |->
                                            IF i \in operands THEN NewOperand(i) ELSE @[i]]]),
              values |-> [i \in DOMAIN o.outs |-> IF i \in results THEN NewResult(i) ELSE o.outs[i]]])

-----------------------------------------------------------------------------
(* The declarative patterns, by the op that they match.                    *)

Commutative == {"add", "and", "maximum", "minimum", "multiply", "or", "xor"}
\* Faulty variant: the other operand may be a constant, too.
CanonicalizeConstantToRhsAlways(b, o) ==
    When(m_Constant(b, o.ins[1]) # << >>,
         ReplaceWithNewOp(b, o, o.name, <<o.ins[2], o.ins[1]>>, o.attrs))
CanonicalizeConstantToRhs(b, o) ==
    When(m_Constant(b, o.ins[1]) # << >> /\ m_Constant(b, o.ins[2]) = << >>,
         ReplaceWithNewOp(b, o, o.name, <<o.ins[2], o.ins[1]>>, o.attrs))

RemoveNoop(b, o) ==
    LET lhs == o.ins[1]
        rhsIs(Fits(_, _)) == constantIs(b, o.ins[2], Fits)
    IN  When(CASE o.name \in {"add", "subtract"} -> rhsIs(isZero)
               [] o.name = "multiply" -> rhsIs(isOne)
               [] o.name = "and" -> rhsIs(isIntAllOnes)
               [] o.name \in {"or", "xor"} -> rhsIs(isIntZero)
               [] o.name = "convert" -> lhs.type = ResultType(o)
               [] o.name = "reshape" -> lhs.type = ResultType(o)
               [] o.name = "slice" -> isStaticShape(lhs.type) /\ lhs.type = ResultType(o)
               [] o.name = "transpose" -> isIotaRange(o.attrs.permutation)
               [] o.name = "broadcast_in_dim" ->
                     isIotaRange(o.attrs.broadcastDimensions) /\ lhs.type = ResultType(o)
               [] o.name = "pad" -> /\ \A i \in DOMAIN o.attrs.low :
                                         o.attrs.low[i] = 0 /\ o.attrs.high[i] = 0 /\ o.attrs.interior[i] = 0
                                    /\ lhs.type = ResultType(o)
               [] o.name = "reverse" -> \/ o.attrs.dimensions = << >> \/ isZeroExtent(lhs.type)
                                        \/ /\ isStaticShape(lhs.type)
                                           /\ \A i \in DOMAIN o.attrs.dimensions :
                                                SizeAt(lhs.type, o.attrs.dimensions[i]) = 1
                                        \/ m_Constant(b, lhs) # << >> /\ isSplat(m_Constant(b, lhs)[1])
               [] o.name = "compare" ->
                     /\ o.ins[2].type.et = I(1)
                     /\ \/ o.attrs.direction = "NE" /\ rhsIs(isIntZero)
                        \/ o.attrs.direction = "EQ" /\ rhsIs(isIntOne)
               [] o.name = "dynamic_update_slice" ->
                     m_Constant(b, o.ins[2]) # << >> /\ m_Constant(b, o.ins[2])[1].data = << >>
               [] OTHER -> FALSE,
             ReplaceWith(<<lhs>>))
ReduceOp_RemoveNoop(b, o) == When(o.attrs.dimensions = << >>, ReplaceWith(Half(o.ins, 1)))

\* The result is the constant operand, or a zero.
FoldToConstant(b, o) ==
    LET rhs == o.ins[2]
        zero(v) == makeSplat(v.type, getZeroValueOfType(v.type.et))
    IN  CASE o.name \in {"and", "multiply"} -> When(constantIs(b, rhs, isIntZero), ReplaceWith(<<rhs>>))
          [] o.name = "or" -> When(constantIs(b, rhs, isIntAllOnes), ReplaceWith(<<rhs>>))
          [] o.name = "subtract" -> When(/\ o.ins[1] = rhs /\ isStaticShape(rhs.type) /\ isInteger(rhs.type.et),
                                         ReplaceWithConstant(b, zero(rhs)))
          [] o.name = "xor" -> When(o.ins[1] = rhs /\ isStaticShape(rhs.type), ReplaceWithConstant(b, zero(rhs)))
          [] o.name = "iota" -> When(SizeAt(ResultType(o), o.attrs.iotaDimension) = 1,
                                     ReplaceWithConstant(b, zero(o.outs[1])))
          [] OTHER -> NoMatch

BroadcastNotReducibleToReshape(inner) ==
    \/ ~ isStaticShape(ResultType(inner))
    \/ ~ /\ \A i \in 2..Len(inner.attrs.broadcastDimensions) :
              inner.attrs.broadcastDimensions[i - 1] <= inner.attrs.broadcastDimensions[i]
         /\ getNumElementsOf(ResultType(inner)) = getNumElementsOf(inner.ins[1].type)
BroadcastInDimPatterns(b, o) ==
    LET operand == o.ins[1]
        dims == o.attrs.broadcastDimensions
        inner == definingOp(b, operand)
        sameElements == /\ isStaticShape(operand.type)
                        /\ getNumElementsOf(ResultType(o)) = getNumElementsOf(operand.type)
    IN  {When(definedBy(b, operand, "broadcast_in_dim") /\ BroadcastNotReducibleToReshape(inner),
              ReplaceWithNewOp(b, o, "broadcast_in_dim", inner.ins,
                 BroadcastTo(getMergedBroadcastDimensions(dims, inner.attrs.broadcastDimensions)))),
         When(sameElements /\ \A i \in 2..Len(dims) : dims[i - 1] <= dims[i],
              ReplaceWithNewOp(b, o, "reshape", <<operand>>, NoAttrs)),
         When(sameElements /\ Rank(ResultType(o)) = Rank(operand.type),
              ReplaceWithNewOp(b, o, "transpose", <<operand>>,
                               [permutation |-> getInvertedBroadcastDimensions(dims)]))}

DynamicBroadcastInDimPatterns(b, o) ==
    LET operand == o.ins[1]  shape == o.ins[2]
        dims == o.attrs.broadcastDimensions
        inner == definingOp(b, operand)
    IN  {When(definedBy(b, operand, "dynamic_broadcast_in_dim"),
              ReplaceWithNewOp(b, o, "dynamic_broadcast_in_dim", <<inner.ins[1], shape>>,
                 DynamicBroadcastTo(getMergedBroadcastDimensions(dims, inner.attrs.broadcastDimensions)))),
         When(isIotaRange(dims) /\ Len(o.attrs.knownNonexpanding) = Rank(ResultType(o)),
              ReplaceWithNewOp(b, o, "convert", <<operand>>, NoAttrs)),
         When(definedBy(b, operand, "dynamic_reshape") /\ inner.ins[2] = shape /\ isIotaRange(dims),
              ReplaceWithNewOp(b, o, "dynamic_reshape", inner.ins, NoAttrs))}

\* An op on the result of an op of the same kind.
MergeComposition(b, o) ==
    LET inner == definingOp(b, o.ins[1])
    IN  When(definedBy(b, o.ins[1], o.name),
             CASE o.name = "reshape" -> ReplaceWithNewOp(b, o, "reshape", inner.ins, NoAttrs)
               [] o.name = "dynamic_reshape" ->
                     ReplaceWithNewOp(b, o, "dynamic_reshape", <<inner.ins[1], o.ins[2]>>, NoAttrs)
               [] o.name = "transpose" ->
                     ReplaceWithNewOp(b, o, "transpose", inner.ins,
                        [permutation |-> getMergedTransposePermutation(inner.attrs.permutation,
                                                                       o.attrs.permutation)]))

\* The dynamic forms whose shape operands are constants.
ReplaceWithStaticForm(b, o) ==
    LET New(name, n, attrs) == ReplaceWithNewOp(b, o, name, SubSeq(o.ins, 1, n), attrs)
        Known(n) == areInts(b, SubSeq(o.ins, n + 1, Len(o.ins)))
        Ints(i) == i64Array(b, o.ins[i])
    IN  CASE o.name = "dynamic_gather" ->
                When(Known(2), New("gather", 2, [dn |-> o.attrs.dn, sliceSizes |-> Ints(3),
                                                 indicesAreSorted |-> o.attrs.indicesAreSorted]))
          [] o.name = "dynamic_pad" ->
                When(Known(2), New("pad", 2, [low |-> Ints(3), high |-> Ints(4), interior |-> Ints(5)]))
          [] o.name = "real_dynamic_slice" ->
                When(Known(1), New("slice", 1, [start |-> Ints(2), limit |-> Ints(3), strides |-> Ints(4)]))

DynamicUpdateSliceOp_FoldToUpdateOperand(b, o) ==
    When(/\ isStaticShape(o.ins[1].type) /\ o.ins[1].type = o.ins[2].type
         /\ \A i \in 3..Len(o.ins) : constantIs(b, o.ins[i], isIntZero),
         ReplaceWith(<<o.ins[2]>>))

\* complex(real(x), imag(x)), real(complex(x, y)), imag(complex(x, y)), and the
\* elements of a tuple.
CancelOutComposedOps(b, o) ==
    LET inner == definingOp(b, o.ins[1])
    IN  CASE o.name = "complex" ->
                When(/\ definedBy(b, o.ins[1], "real") /\ definedBy(b, o.ins[2], "imag")
                     /\ inner.ins = definingOp(b, o.ins[2]).ins, ReplaceWith(inner.ins))
          [] o.name = "real" -> When(definedBy(b, o.ins[1], "complex"), ReplaceWith(<<inner.ins[1]>>))
          [] o.name = "imag" -> When(definedBy(b, o.ins[1], "complex"), ReplaceWith(<<inner.ins[2]>>))
          [] o.name = "get_tuple_element" ->
                When(definedBy(b, o.ins[1], "tuple"), ReplaceWith(<<At(inner.ins, o.attrs.index)>>))

\* select(not(p), x, y), also of a broadcast predicate that nothing else uses
SelectOp_InvertPredicateAndSwap(b, o) ==
    LET pred == o.ins[1]
        inner == definingOp(b, pred)
        broadcast == OpOf("broadcast_in_dim", definingOp(b, inner.ins[1]).ins, inner.attrs,
                          <<Fresh(b, 2, pred.type)>>)
        Swapped(p) == OpOf("select", <<p, o.ins[3], o.ins[2]>>, o.attrs, <<Fresh(b, 1, ResultType(o))>>)
    IN  IF definedBy(b, pred, "not") THEN ReplaceWithOp(Swapped(inner.ins[1]))
        ELSE When(/\ definedBy(b, pred, "broadcast_in_dim") /\ hasOneUse(b, pred)
                  /\ definedBy(b, inner.ins[1], "not"),
                  ReplaceWithOps(<<broadcast, Swapped(broadcast.outs[1])>>))

DeclarativePatterns(b, o) ==
    (IF o.name \in Commutative THEN {CanonicalizeConstantToRhs(b, o)} ELSE {})
      \cup (IF o.ins = << >> THEN {} ELSE {RemoveNoop(b, o)})
      \cup {FoldToConstant(b, o)}
      \cup CASE o.name = "broadcast_in_dim" -> BroadcastInDimPatterns(b, o)
             [] o.name = "dynamic_broadcast_in_dim" -> DynamicBroadcastInDimPatterns(b, o)
             [] o.name \in {"reshape", "dynamic_reshape", "transpose"} -> {MergeComposition(b, o)}
             [] o.name \in {"dynamic_gather", "dynamic_pad", "real_dynamic_slice"} ->
                   {ReplaceWithStaticForm(b, o)}
             [] o.name = "dynamic_update_slice" -> {DynamicUpdateSliceOp_FoldToUpdateOperand(b, o)}
             [] o.name \in {"complex", "real", "imag", "get_tuple_element"} -> {CancelOutComposedOps(b, o)}
             [] o.name = "select" -> {SelectOp_InvertPredicateAndSwap(b, o)}
             [] o.name = "reduce" -> {ReduceOp_RemoveNoop(b, o)}
             [] OTHER -> {}

\* populateStablehloCanonicalizationPatterns
CanonicalizationPatterns(b, o) ==
    DeclarativePatterns(b, o) \cup {ZeroExtentToEmptyConstant(b, o)} \cup
    CASE o.name = "compare" -> {CompareOpCanon(b, o)}
      [] o.name = "concatenate" -> {ConcatenateOpFlatten(b, o), ConcatenateOpNoop(b, o),
                                    ConcatenateOpRemoveEmpty(b, o)}
      [] o.name = "dynamic_iota" -> {DynamicIotaOpToBroadcast(b, o), DynamicIotaIsStatic(b, o)}
      [] o.name = "dynamic_reshape" -> {DynamicReshapeOpSameOperandAndResultShape(b, o),
                                        DynamicReshapeOpIsStatic(b, o)}
      [] o.name = "dynamic_slice" -> {DynamicSliceOpToSlice(b, o)}
      [] o.name = "dynamic_broadcast_in_dim" -> {DynamicBroadcastInDimOpNotActuallyDynamic(b, o)}
      [] o.name = "gather" -> {GatherOpCanon(b, o)}
      [] o.name = "get_dimension_size" -> {GetDimensionSizeOpCanon(b, o)}
      [] o.name = "iota" -> {IotaOpBroadcast(b, o)}
      [] o.name = "pad" -> {PadOpBroadcastEmptyTensor(b, o)}
      [] o.name = "real_dynamic_slice" -> {RealDynamicSliceOpToDynamicSlice(b, o)}
      [] o.name = "reduce" -> {ReduceOpEmptyCanon(b, o), ReduceOpNoopVariableReturn(b, o),
                               ReduceOpUnusedResultCanon(b, o)}
      [] o.name = "scatter" -> {ScatterOpEmptyIndices(b, o), ScatterOpZeroExtentUpdates(b, o)}
      [] o.name = "select" -> {SelectOpCanon(b, o)}
      [] o.name = "slice" -> {SliceOpConcatSimplify(b, o)}
      [] o.name = "sort" -> {SortOpDropUnusedArgs(b, o), SortOpSetDimension(b, o)}
      [] o.name = "transpose" -> {TransposeIsReshape(b, o)}
      [] o.name = "tuple" -> {TupleIsRepacking(b, o)}
      [] o.name = "while" -> {WhileOpImplicitCapture(b, o)}
      [] OTHER -> {}

\* populateStablehloHloImportCanonicalizationPatterns
HloImportCanonicalizationPatterns(b, o) ==
    CASE o.name = "concatenate" -> {ConcatenateOpNoop(b, o), ConcatenateOpRemoveEmpty(b, o)}
      [] o.name = "reshape" -> {RemoveNoop(b, o)}
      [] o.name = "get_tuple_element" -> {CancelOutComposedOps(b, o)}
      [] o.name = "tuple" -> {TupleIsRepacking(b, o)}
      [] o.name = "while" -> {WhileOpImplicitCapture(b, o)}
      [] OTHER -> {}
============================================================================
