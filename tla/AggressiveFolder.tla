-------------------------- MODULE AggressiveFolder --------------------------
(***************************************************************************)
(* The patterns of StablehloAggressiveFolder.cpp: what each makes of an op *)
(* o of the program b.  They compute with APInt and APFloat, not with the  *)
(* elements of the interpreter: an i1 is an integer of one bit to them.    *)
(***************************************************************************)
EXTENDS Programs

CONSTANTS foldOpElementLimit, optimizeFloat, assumeNoUndeclaredSideEffects

isInteger(et) == et.k \in {"i", "ui"}
isFloat(et) == et.k = "f"
isBoolean(et) == et = I(1)
ResultType(o) == o.outs[1].type

validateStaticShapeResult(type) == isStaticShape(type)
validateElementCountForFold(type) == Product(Sizes(type)) <= foldOpElementLimit
validateShapeFoldDtype(type, allowComplex) ==
    \/ isInteger(type.et)
    \/ optimizeFloat /\ (isFloat(type.et) \/ (allowComplex /\ type.et.k = "c"))

\* An APInt of the width of et, and the same read as a signed number.
APInt(et, n) == <<IntegerOf(et, n)>>
Signed(et, x) == IF et.w = 1 THEN -x[1] ELSE IntegerOf(I(et.w), x[1])

\* The constant with the elements data, unless one of them could not be folded.
FoldedTo(b, type, data) ==
    When(\A k \in DOMAIN data : data[k] # Fatal, ReplaceWithConstant(b, [type |-> type, data |-> ListOf(data)]))

\* A function of two elements has no way to decline.
foldBinaryOfAttrs(b, type, x, y, Fn(_, _, _)) ==
    When(x.type = y.type /\ (isInteger(x.type.et) \/ isFloat(x.type.et)),
         ReplaceWithConstant(b, [type |-> type, data |-> ListOf([k \in DOMAIN x.data |->
                                    Fn(x.type.et, x.data[k], y.data[k])])]))
foldBinaryOpIntOrFloat(b, o, Fn(_, _, _)) ==
    IF ~ areConstants(b, o.ins) THEN NoMatch
    ELSE LET c == constantsOf(b, o.ins) IN foldBinaryOfAttrs(b, ResultType(o), c[1], c[2], Fn)

-----------------------------------------------------------------------------
(* One element at a time.                                                  *)

EvaluateOp(fn, et, x) ==
    CASE fn = "abs" -> IF isInteger(et) THEN APInt(et, Abs(Signed(et, x))) ELSE abs(et, x)
      [] fn = "negate" -> IF isInteger(et) THEN APInt(et, -x[1]) ELSE negate(et, x)
      [] fn = "not" -> IF isInteger(et) THEN APInt(et, -x[1] - 1) ELSE Fatal
      [] fn = "sign" /\ isInteger(et) -> IF et.k = "ui" THEN Fatal ELSE sign(I(et.w), x)
      [] fn = "sign" -> IF x = <<NaN>> THEN Fatal ELSE sign(et, x)
      [] isInteger(et) -> Fatal
      [] fn \in {"round_nearest_afz", "round_nearest_even"} -> roundToIntegral(et, x)
      [] fn \in {"log", "rsqrt"} -> IF x[1] <= 0 THEN Fatal ELSE mapWithUpcastToDouble(et, fn, <<x>>)
      [] fn = "sqrt" -> IF x[1] < 0 THEN Fatal ELSE mapWithUpcastToDouble(et, fn, <<x>>)
      [] fn = "logistic" -> logistic(et, x)
      [] OTHER -> mapWithUpcastToDouble(et, fn, <<x>>)
FoldedUnary == {"abs", "cosine", "exponential", "log", "logistic", "negate", "not", "round_nearest_afz",
                "round_nearest_even", "rsqrt", "sign", "sine", "sqrt", "tan", "tanh"}
foldUnaryOpIntOrFloat(b, o) ==
    LET operand == m_Constant(b, o.ins[1])
    IN  IF operand = << >> THEN NoMatch
        ELSE LET x == operand[1]
             IN  When(isInteger(x.type.et) \/ isFloat(x.type.et),
                      FoldedTo(b, x.type, [k \in DOMAIN x.data |-> EvaluateOp(o.name, x.type.et, x.data[k])]))
FoldUnaryOpPattern(b, o) ==
    When(o.name \in FoldedUnary /\ (isInteger(ResultType(o).et) \/ isFloat(ResultType(o).et)),
         foldUnaryOpIntOrFloat(b, o))

FoldShapeBinary(b, o, Fn(_, _, _)) ==
    When(validateShapeFoldDtype(ResultType(o), FALSE), foldBinaryOpIntOrFloat(b, o, Fn))

FoldAddOpPattern(b, o) ==
    FoldShapeBinary(b, o, LAMBDA et, x, y :
        IF isInteger(et) THEN APInt(et, x[1] + y[1]) ELSE add(et, x, y))
FoldMulOpPattern(b, o) ==
    FoldShapeBinary(b, o, LAMBDA et, x, y :
        IF isInteger(et) THEN APInt(et, x[1] * y[1]) ELSE multiply(et, x, y))
FoldSubtractOpPattern(b, o) ==
    FoldShapeBinary(b, o, LAMBDA et, x, y :
        IF isInteger(et) THEN APInt(et, x[1] - y[1]) ELSE subtract(et, x, y))

FoldAndOpPattern(b, o) ==
    When(isInteger(ResultType(o).et), foldBinaryOpIntOrFloat(b, o, and))
FoldOrOpPattern(b, o) ==
    When(isInteger(ResultType(o).et), foldBinaryOpIntOrFloat(b, o, or))
FoldXorOpPattern(b, o) ==
    When(isInteger(ResultType(o).et), foldBinaryOpIntOrFloat(b, o, xor))

integerDivisorHasZeroElement(b, o) ==
    /\ m_Constant(b, o.ins[2]) # << >>
    /\ \E k \in DOMAIN m_Constant(b, o.ins[2])[1].data : m_Constant(b, o.ins[2])[1].data[k] = <<0>>
FoldDivOpPattern(b, o) ==
    When(~ (isInteger(ResultType(o).et) /\ integerDivisorHasZeroElement(b, o)),
         FoldShapeBinary(b, o, divide))
FoldRemOpPattern(b, o) ==
    When(~ (isInteger(ResultType(o).et) /\ integerDivisorHasZeroElement(b, o)),
         FoldShapeBinary(b, o, rem))

\* Of integers as signed or as unsigned numbers.
FoldMax(isUnsigned, et, x, y) ==
    IF isFloat(et) THEN maximum(et, x, y)
    ELSE IF isUnsigned THEN <<Max2(x[1], y[1])>>
    ELSE APInt(et, Max2(Signed(et, x), Signed(et, y)))
FoldMin(isUnsigned, et, x, y) ==
    IF isFloat(et) THEN minimum(et, x, y)
    ELSE IF isUnsigned THEN <<Min2(x[1], y[1])>>
    ELSE APInt(et, Min2(Signed(et, x), Signed(et, y)))
isUnsignedIntOrBool(et) == et.k = "ui" \/ isBoolean(et)
FoldMaxOpPattern(b, o) ==
    FoldShapeBinary(b, o, LAMBDA et, x, y : FoldMax(isUnsignedIntOrBool(et), et, x, y))
FoldMinOpPattern(b, o) ==
    FoldShapeBinary(b, o, LAMBDA et, x, y : FoldMin(isUnsignedIntOrBool(et), et, x, y))
FoldClampOpPattern(b, o) ==
    LET c == constantsOf(b, o.ins)
        unsigned == ResultType(o).et.k = "ui"
        clamped == [k \in DOMAIN c[2].data |->
                      FoldMin(unsigned, c[2].type.et, c[3].data[k],
                              FoldMax(unsigned, c[2].type.et, c[1].data[k], c[2].data[k]))]
    IN  When(/\ validateShapeFoldDtype(ResultType(o), FALSE)
             /\ areConstants(b, o.ins)
             /\ c[1].type = c[2].type /\ c[3].type = ResultType(o),
             FoldedTo(b, ResultType(o), clamped))

\* The comparison type of the op, or the one that fits its operands.
getComparisonType(o) ==
    LET et == o.ins[1].type.et
    IN  CASE o.attrs.compareType # "NOTYPE" -> o.attrs.compareType
          [] isUnsignedIntOrBool(et) -> "UNSIGNED"
          [] et.k = "i" -> "SIGNED"
          [] OTHER -> "FLOAT"
FoldCompareOpPattern(b, o) ==
    LET Number(et, x) == IF isFloat(et) \/ getComparisonType(o) # "SIGNED" THEN x ELSE <<Signed(et, x)>>
        Compare(et, x, y) ==
            LET l == Number(et, x)  r == Number(et, y)  d == o.attrs.direction
            IN  CASE d = "EQ" -> EQ(et, l, r) [] d = "NE" -> NE(et, l, r) [] d = "GE" -> GE(et, l, r)
                  [] d = "GT" -> GT(et, l, r) [] d = "LE" -> LE(et, l, r) [] d = "LT" -> LT(et, l, r)
    IN  FoldShapeBinary(b, o, Compare)

\* A float that is not finite or does not fit the integer is not folded.
foldConvertElement(from, to, x) ==
    CASE isFloat(from) /\ isFloat(to) -> x
      [] isFloat(from) /\ isBoolean(to) -> B(x[1] # 0)
      [] isFloat(from) -> IF x[1] = NaN \/ convertFloat(to, x[1]) # x THEN Fatal ELSE x
      [] isFloat(to) -> x
      [] isBoolean(to) -> B(x[1] # 0)
      [] OTHER -> APInt(to, x[1])
FoldConvertOpPattern(b, o) ==
    LET type == ResultType(o)
        x == constantsOf(b, o.ins)[1]
    IN  When(/\ validateStaticShapeResult(type) /\ validateShapeFoldDtype(type, FALSE)
             /\ validateElementCountForFold(type)
             /\ optimizeFloat \/ ~ (isFloat(o.ins[1].type.et) \/ isFloat(type.et))
             /\ areConstants(b, o.ins) /\ x.type.et.k # "c",
             FoldedTo(b, type, [k \in DOMAIN x.data |-> foldConvertElement(x.type.et, type.et, x.data[k])]))

-----------------------------------------------------------------------------
(* Shapes.                                                                 *)

FoldBroadcastInDimOpSplatPattern(b, o) ==
    When(/\ validateStaticShapeResult(ResultType(o)) /\ validateShapeFoldDtype(ResultType(o), TRUE)
         /\ areConstants(b, o.ins) /\ isSplat(constantsOf(b, o.ins)[1]),
         ReplaceWithConstant(b, resizeSplat(constantsOf(b, o.ins)[1], ResultType(o))))

FoldConcatenateOpPattern(b, o) ==
    LET type == ResultType(o)
        c == constantsOf(b, o.ins)
        topSize == Product(SubSeq(Sizes(type), 1, o.attrs.dimension))
        Row(x, i) == LET bottomSize == Len(x.data) \div topSize
                     IN  SubSeq(x.data, (i - 1) * bottomSize + 1, i * bottomSize)
    IN  When(/\ validateStaticShapeResult(type) /\ validateShapeFoldDtype(type, FALSE)
             /\ validateElementCountForFold(type)
             /\ areConstants(b, o.ins),
             FoldedTo(b, type, FlattenSeq([i \in 1..topSize |->
                                    FlattenSeq([k \in DOMAIN c |-> Row(c[k], i)])])))

\* Runs of equal splats become one constant each.
FoldConcatenateAdjacentSplatsOpPattern(b, o) ==
    LET IsSplat(v) == m_Constant(b, v) # << >> /\ isSplat(m_Constant(b, v)[1])
        Group(groups, v) ==
            LET last == groups[Len(groups)]
            IN  IF groups # << >> /\ IsSplat(v) /\ IsSplat(last.value)
                      /\ m_Constant(b, v) = m_Constant(b, last.value)
                THEN [groups EXCEPT ![Len(groups)].count = @ + 1]
                ELSE Append(groups, [value |-> v, count |-> 1])
        groups == FoldLeft(Group, << >>, o.ins)
        Merged(g) ==
            LET x == m_Constant(b, g.value)[1]
            IN  resizeSplat(x, [x.type EXCEPT !.dims[o.attrs.dimension + 1].size = @ * g.count])
        NewValue(k) == IF groups[k].count = 1 THEN groups[k].value
                       ELSE Fresh(b, k, Merged(groups[k]).type)
        constants == FlattenSeq([k \in DOMAIN groups |->
                        IF groups[k].count = 1 THEN << >>
                        ELSE <<ConstantOp(NewValue(k), Merged(groups[k]))>>])
        result == Fresh(b, Len(groups) + 1, ResultType(o))
    IN  When(Len(groups) # Len(o.ins),
             [ops |-> Append(constants, OpOf("concatenate", [k \in DOMAIN groups |-> NewValue(k)],
                                             o.attrs, <<result>>)),
              values |-> <<result>>])

FoldGetDimensionSizeOpPattern(b, o) ==
    LET size == SizeAt(o.ins[1].type, o.attrs.dimension)
    IN  When(isStaticDimSize(size), ReplaceWithConstant(b, constant(ResultType(o).et, <<size>>)))

FoldReshapeOpPattern(b, o) ==
    When(/\ validateStaticShapeResult(ResultType(o)) /\ validateShapeFoldDtype(ResultType(o), TRUE)
         /\ areConstants(b, o.ins),
         ReplaceWithConstant(b, [type |-> ResultType(o), data |-> constantsOf(b, o.ins)[1].data]))

\* Windows of the buffer change places, one reversed dimension after another.
foldReverseHelper(x, type, dims) ==
    LET Reversed(data, d) ==
            LET n == SizeAt(type, d)
                window == Stride(Sizes(type), d + 1)
                \* The element at position k (from 0) comes from the mirrored window.
                From(k) == LET w == (k \div window) % n IN k + (n - 1 - 2 * w) * window
            IN  ListOf([k \in DOMAIN data |-> data[From(k - 1) + 1]])
    IN  [type |-> type, data |-> FoldLeft(Reversed, x.data, dims)]
FoldReverseOpPattern(b, o) ==
    LET type == o.ins[1].type
        dims == o.attrs.dimensions
        x == constantsOf(b, o.ins)[1]
    IN  When(/\ validateStaticShapeResult(type) /\ validateElementCountForFold(type)
             /\ areConstants(b, o.ins)
             /\ dims # << >> /\ Len(x.data) > 1 /\ ~ isSplat(x)
             /\ \E i \in DOMAIN dims : SizeAt(type, dims[i]) # 1
             /\ isInteger(type.et) \/ isFloat(type.et),
             ReplaceWithConstant(b, foldReverseHelper(x, type, dims)))

FoldSelectOpPattern(b, o) ==
    LET type == ResultType(o)
        c == constantsOf(b, o.ins)
    IN  IF ~ (/\ validateStaticShapeResult(type) /\ validateShapeFoldDtype(type, FALSE)
              /\ areConstants(b, o.ins))
        THEN NoMatch
        ELSE IF isSplat(c[1])
        THEN ReplaceWithConstant(b, IF c[1].data[1] = <<0>> THEN c[3] ELSE c[2])
        ELSE When(~ isFloat(type.et) /\ validateElementCountForFold(type),
                  FoldedTo(b, type, [k \in DOMAIN c[2].data |->
                                       IF c[1].data[k] # <<0>> THEN c[2].data[k] ELSE c[3].data[k]]))

FoldSetDimensionSizeOpPattern(b, o) ==
    When(/\ o.ins[1].type = ResultType(o)
         /\ m_Constant(b, o.ins[2]) # << >>
         /\ m_Constant(b, o.ins[2])[1].data[1] = <<SizeAt(ResultType(o), o.attrs.dimension)>>,
         ReplaceWith(<<o.ins[1]>>))

\* An odometer over the source indices, the last dimension fastest.
sliceData(x, start, limit, strides, count) ==
    LET rank == Len(start)
        Advance(index) ==
            LET carry == {d \in 1..rank : \A e \in (d + 1)..rank : index[e] + strides[e] >= limit[e]}
            IN  [d \in 1..rank |-> IF d \notin carry THEN index[d]
                                   ELSE IF index[d] + strides[d] >= limit[d] THEN start[d]
                                   ELSE index[d] + strides[d]]
        Step(s, i) == [index |-> Advance(s.index), data |-> Append(s.data, Get(x, s.index))]
    IN  FoldLeft(Step, [index |-> start, data |-> << >>], Iota(count)).data
FoldSliceOpPattern(b, o) ==
    LET type == ResultType(o)
        x == constantsOf(b, o.ins)[1]
    IN  When(/\ validateStaticShapeResult(type) /\ validateShapeFoldDtype(type, FALSE)
             /\ areConstants(b, o.ins),
             IF isSplat(x) THEN ReplaceWithConstant(b, resizeSplat(x, type))
             ELSE FoldedTo(b, type, sliceData(x, o.attrs.start, o.attrs.limit, o.attrs.strides,
                                              Product(Sizes(type)))))
FoldDynamicSliceOpPattern(b, o) ==
    When(/\ validateStaticShapeResult(ResultType(o))
         /\ m_Constant(b, o.ins[1]) # << >> /\ isSplat(m_Constant(b, o.ins[1])[1]),
         ReplaceWithConstant(b, resizeSplat(m_Constant(b, o.ins[1])[1], ResultType(o))))

\* Only of a tensor with no element or one.
FoldIotaOpPattern(b, o) ==
    LET type == ResultType(o)
    IN  When(/\ validateElementCountForFold(type) /\ isInteger(type.et)
             /\ Product(Sizes(type)) <= 1,
             ReplaceWithConstant(b, makeSplat(type, <<0>>)))

FoldTransposeOpPattern(b, o) ==
    LET type == ResultType(o)
        x == constantsOf(b, o.ins)[1]
        \* applyPermutation of the inverse of the permutation
        Source(it) == [d \in DOMAIN it |-> it[IndexOf(d - 1, o.attrs.permutation) + 1]]
    IN  When(validateStaticShapeResult(type) /\ areConstants(b, o.ins) /\ (isSplat(x) \/ type.et.k # "c"),
             IF isSplat(x) THEN ReplaceWithConstant(b, resizeSplat(x, type))
             ELSE ReplaceWithConstant(b, MakeTensor(type, LAMBDA it : Get(x, Source(it)))))

-----------------------------------------------------------------------------
(* Control flow and reductions.                                            *)

\* preparePlaceholderFor: a zero of the type.
PlaceholderValue(type) == makeSplat(type, getZeroValueOfType(type.et))

\* The ops of the branch come before the case op, whose branch gets a body that
\* returns placeholders.
InlineCaseOpWithConstantBranchIndex(b, o) ==
    LET index == makeSizes(m_Constant(b, o.ins[1])[1])[1]
        k == IF index < 0 \/ index >= Len(o.regions) THEN Len(o.regions) ELSE index + 1
        places == [i \in DOMAIN o.outs |-> Fresh(b, i, o.outs[i].type)]
        noop == BlockOf(<< >>, [i \in DOMAIN o.outs |-> ConstantOp(places[i], PlaceholderValue(o.outs[i].type))],
                        places)
    IN  When(/\ \E i \in DOMAIN o.outs : ~ use_empty(b, o.outs[i])
             /\ m_Constant(b, o.ins[1]) # << >>,
             [ops |-> Append(o.regions[k].ops, [o EXCEPT !.regions[k] = noop]),
              values |-> o.regions[k].rets])

\* Once the body does not use its arguments this changes nothing any more.
LowerBoolSplatConstantsIntoReduceOpRegion(b, o) ==
    LET body == o.regions[1]
        c == constantsOf(b, o.ins)
        places == [i \in DOMAIN o.ins |-> Fresh(b, i, body.args[i].type)]
        Use(v) == places[CHOOSE i \in DOMAIN body.args : body.args[i].id = v.id]
        outs == [i \in DOMAIN o.outs |-> Fresh(b, Len(places) + i, o.outs[i].type)]
    IN  When(/\ Len(body.ops) = 1 /\ body.ops[1].name \in {"and", "or"}
             /\ areConstants(b, o.ins) /\ \A i \in DOMAIN c : isSplat(c[i])
             /\ \E i \in DOMAIN body.args : ~ use_empty(b, body.args[i]),
             [ops |-> Append([i \in DOMAIN places |-> ConstantOp(places[i], resizeSplat(c[i], places[i].type))],
                             [o EXCEPT !.regions[1] = substitute(body, [n \in IdsOf(body.args) |->
                                                         Use(Value(n, body.args[1].type))]),
                                       !.outs = outs]),
              values |-> outs])

FoldReduceOpReducingZeroDims(b, o) ==
    LET inputs == Half(o.ins, 1)
    IN  When(o.attrs.dimensions = << >> /\ TypesOf(inputs) = TypesOf(o.outs), ReplaceWith(inputs))

FoldReduceOpToConstantInitializer(b, o) ==
    LET body == o.regions[1]
        c == constantsOf(b, body.rets)
        outs == [i \in DOMAIN o.outs |-> Fresh(b, i, o.outs[i].type)]
    IN  When(body.ops = << >> /\ areConstants(b, body.rets),
             [ops |-> [i \in DOMAIN outs |-> ConstantOp(outs[i], resizeSplat(c[i], outs[i].type))],
              values |-> outs])

FoldReduceOpWithRedundantResults(b, o) ==
    LET body == o.regions[1]
    IN  When(\A i \in DOMAIN o.outs : /\ body.rets[i].id \notin idsOf(body)
                                      /\ body.rets[i].type = o.outs[i].type,
             ReplaceWith(body.rets))

whileCondIsFalse(b, o) ==
    LET c == m_Constant(b, o.regions[1].rets[1]) IN c # << >> /\ c[1].data[1] = <<0>>
FoldWhileOpPattern(b, o) ==
    When((\E i \in DOMAIN o.outs : ~ use_empty(b, o.outs[i])) /\ whileCondIsFalse(b, o),
         [ops |-> <<o>>, values |-> o.ins])
RECURSIVE hasAnyDeclaredSideEffects(_)
hasAnyDeclaredSideEffects(o) ==
    \/ declaresEffects(o)
    \/ \E k \in DOMAIN o.regions : \E i \in DOMAIN o.regions[k].ops :
          hasAnyDeclaredSideEffects(o.regions[k].ops[i])
\* The op is erased.
FoldWhileOpIfDeadAndPresumedPure(b, o) ==
    When(/\ assumeNoUndeclaredSideEffects
         /\ \A i \in DOMAIN o.outs : use_empty(b, o.outs[i])
         /\ whileCondIsFalse(b, o) /\ ~ hasAnyDeclaredSideEffects(o),
         ReplaceWith(o.ins))

-----------------------------------------------------------------------------
\* populateStablehloShapeFolderPatterns: the patterns for an op.
ShapeFolderPatterns(b, o) ==
    CASE o.name = "add" -> {FoldAddOpPattern(b, o)}
      [] o.name = "and" -> {FoldAndOpPattern(b, o)}
      [] o.name = "broadcast_in_dim" -> {FoldBroadcastInDimOpSplatPattern(b, o)}
      [] o.name = "clamp" -> {FoldClampOpPattern(b, o)}
      [] o.name = "compare" -> {FoldCompareOpPattern(b, o)}
      [] o.name = "concatenate" -> {FoldConcatenateOpPattern(b, o),
                                    FoldConcatenateAdjacentSplatsOpPattern(b, o)}
      [] o.name = "convert" -> {FoldConvertOpPattern(b, o)}
      [] o.name = "divide" -> {FoldDivOpPattern(b, o)}
      [] o.name = "dynamic_slice" -> {FoldDynamicSliceOpPattern(b, o)}
      [] o.name = "get_dimension_size" -> {FoldGetDimensionSizeOpPattern(b, o)}
      [] o.name = "maximum" -> {FoldMaxOpPattern(b, o)}
      [] o.name = "minimum" -> {FoldMinOpPattern(b, o)}
      [] o.name = "multiply" -> {FoldMulOpPattern(b, o)}
      [] o.name = "or" -> {FoldOrOpPattern(b, o)}
      [] o.name = "remainder" -> {FoldRemOpPattern(b, o)}
      [] o.name = "reshape" -> {FoldReshapeOpPattern(b, o)}
      [] o.name = "select" -> {FoldSelectOpPattern(b, o)}
      [] o.name = "set_dimension_size" -> {FoldSetDimensionSizeOpPattern(b, o)}
      [] o.name = "sign" -> {FoldUnaryOpPattern(b, o)}
      [] o.name = "slice" -> {FoldSliceOpPattern(b, o)}
      [] o.name = "subtract" -> {FoldSubtractOpPattern(b, o)}
      [] OTHER -> {}

AggressiveFolderPatterns(b, o) ==
    ShapeFolderPatterns(b, o) \cup
    CASE o.name = "iota" -> {FoldIotaOpPattern(b, o)}
      [] o.name = "reduce" -> {FoldReduceOpReducingZeroDims(b, o), FoldReduceOpToConstantInitializer(b, o),
                               FoldReduceOpWithRedundantResults(b, o),
                               LowerBoolSplatConstantsIntoReduceOpRegion(b, o)}
      [] o.name = "reverse" -> {FoldReverseOpPattern(b, o)}
      [] o.name = "transpose" -> {FoldTransposeOpPattern(b, o)}
      [] o.name = "while" -> {FoldWhileOpIfDeadAndPresumedPure(b, o), FoldWhileOpPattern(b, o)}
      [] o.name = "xor" -> {FoldXorOpPattern(b, o)}
      [] o.name = "case" -> {InlineCaseOpWithConstantBranchIndex(b, o)}
      [] OTHER -> {FoldUnaryOpPattern(b, o)}
============================================================================
