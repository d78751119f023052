---------------------------- MODULE Interpreter ----------------------------
(***************************************************************************)
(* The evaluator of the reference interpreter: eval (reference/Ops.cpp),   *)
(* Scope, Value and evalModule (reference/Api.cpp), for one process.  The  *)
(* ops that talk to other processes are in RunParallel.                    *)
(*                                                                         *)
(* A program is a block: the values of its arguments, its ops, and the     *)
(* values that its terminator returns.  A value is [id, type]; an op is    *)
(* [name, ins, attrs, regions, outs], where ins and outs are values and    *)
(* regions are blocks, which may use the values of the blocks around them. *)
(***************************************************************************)
EXTENDS ReferenceOps

Value(id, type) == [id |-> id, type |-> type]
TypesOf(values) == [i \in DOMAIN values |-> values[i].type]

\* What the interpreter holds for a value: a tensor, a token or a tuple.
Token == [type |-> TokenType, data |-> << >>]
MakeTuple(values) == [type |-> [tuple |-> TypesOf(values)], data |-> values]
isTensor(value) == "et" \in DOMAIN value.type /\ value.type # TokenType
hasStaticType(type) == "dims" \in DOMAIN type => isStaticShape(type)

\* report_fatal_error, for an op with the results outs.
Abort(outs) == [i \in DOMAIN outs |-> [type |-> outs[i].type, data |-> <<Fatal>>]]
Evaluated(values) == \A i \in DOMAIN values : isTensor(values[i]) => Defined(values[i])

-----------------------------------------------------------------------------
(* Scope: the innermost frame is the last.                                 *)

Frame(values, runtime) == [n \in {values[i].id : i \in DOMAIN values} |->
                             runtime[CHOOSE i \in DOMAIN values : values[i].id = n]]
\* Adding a value twice, or with a runtime value of another type, is fatal.
mayAdd(scope, values, runtime) ==
    /\ \A i \in DOMAIN values : values[i].id \notin DOMAIN scope[Len(scope)]
    /\ \A i \in DOMAIN values : i \in DOMAIN runtime /\ runtime[i].type = values[i].type
addToScope(scope, values, runtime) ==
    [scope EXCEPT ![Len(scope)] = @ @@ Frame(values, runtime)]
find(scope, value) ==
    LET frames == {k \in DOMAIN scope : value.id \in DOMAIN scope[k]}
    IN  scope[Max(frames)][value.id]

-----------------------------------------------------------------------------
(* Ops with regions.  A region is evaluated in an environment: the scope   *)
(* around the op, and the functions of the program.                        *)

Environment(scope, funcs) == [scope |-> scope, funcs |-> funcs]
BlockType(b) == Block(TypesOf(b.args), TypesOf(b.rets))

RECURSIVE eval(_, _, _)

\* An update whose place is out of bounds is dropped.
scatterOp(inputs, scatterIndices, updates, dn, body, env) ==
    LET rank == Rank(inputs[1].type)
        scatterDims == Without(getAxes(updates[1]), dn.updateWindowDims)
        Place(it) ==
            LET indicesIndex == StartIndicesIndex(extractElements(it, scatterDims), scatterIndices,
                                                  dn.indexVectorDim)
                startIndex == evalIndex(sliceAt(scatterIndices, indicesIndex))
                start == FullStartIndex(rank, startIndex, dn.scatterDimsToOperandDims)
                batching == FullBatchingIndex(rank, indicesIndex, dn.inputBatchingDims,
                                              dn.scatterIndicesBatchingDims)
                window == FullOffsetIndex(rank, extractElements(it, dn.updateWindowDims),
                                          dn.insertedWindowDims \o dn.inputBatchingDims)
            IN  Plus(Plus(start, batching), window)
        Update(results, it) ==
            LET place == Place(it)
                ScalarsAt(xs, index) == [i \in DOMAIN xs |-> constant(ElementType(xs[i]), Get(xs[i], index))]
                updated == eval(body, ScalarsAt(results, place) \o ScalarsAt(updates, it), env)
            IN  IF ~ inBounds(place, Shape(results[1])) THEN results
                ELSE [i \in DOMAIN results |-> Set(results[i], place, Scalar(updated[i]))]
    IN  FoldLeft(Update, inputs, IndexSpace(Shape(updates[1])))

mapOp(inputs, body, env, resultType) ==
    MakeTensor(resultType, LAMBDA it :
        Scalar(eval(body, [i \in DOMAIN inputs |-> makeSplat(body.args[i].type, Get(inputs[i], it))], env)[1]))

reduceOp(inputs, initValues, dimensions, body, env, resultTypes) ==
    LET kept == Without(getAxes(inputs[1]), dimensions)
        Accumulate(results, it) ==
            LET to == extractElements(it, kept)
                Args(xs, index) == [i \in DOMAIN xs |-> makeSplat(initValues[i].type, Get(xs[i], index))]
                updated == eval(body, Args(results, to) \o Args(inputs, it), env)
            IN  [i \in DOMAIN results |-> Set(results[i], to, Scalar(updated[i]))]
    IN  FoldLeft(Accumulate,
                 [i \in DOMAIN initValues |-> makeSplat(resultTypes[i], Scalar(initValues[i]))],
                 IndexSpace(Shape(inputs[1])))
\* The overload that infers its result types.
reduceInferred(inputs, initValues, dimensions, body, env) ==
    LET inferred == inferReduceOp(TypesOf(inputs), dimensions, BlockType(body))
    IN  IF inferred = Failure THEN [i \in DOMAIN inputs |-> FatalTensor(ElementType(inputs[i]))]
        ELSE reduceOp(inputs, initValues, dimensions, body, env, inferred)

reduceWindowOp(inputs, initValues, a, body, env, resultTypes) ==
    LET rank == Rank(inputs[1].type)
        Padding(side) == [i \in 1..rank |-> a.padding[i][side]]
        padded == [i \in DOMAIN inputs |->
                     padInferred(inputs[i], initValues[i], Padding(1), Padding(2),
                                 [d \in 1..rank |-> a.baseDilations[d] - 1])]
        Window(x, it) ==
            LET start == Times(it, a.windowStrides)
                end == [d \in 1..rank |->
                          start[d] + (a.windowDimensions[d] - 1) * a.windowDilations[d] + 1]
            IN  sliceInferred(x, start, end, a.windowDilations)
        At1(it) == reduceInferred([i \in DOMAIN inputs |-> Window(padded[i], it)], initValues,
                                  Iota(rank), body, env)
    IN  [i \in DOMAIN inputs |-> MakeTensor(resultTypes[i], LAMBDA it : Scalar(At1(it)[i]))]

\* The first element of the window that no later one beats is selected; the
\* source element is scattered to it.
selectAndScatterOp(operand, source, initValue, a, select, scatter, env, resultType) ==
    LET et == ElementType(operand)
        low == [i \in DOMAIN a.padding |-> a.padding[i][1]]
        Window(it) == SelectSeq([k \in DOMAIN IndexSpace(a.windowDimensions) |->
                                    Minus(Plus(Times(it, a.windowStrides),
                                               IndexSpace(a.windowDimensions)[k]), low)],
                                LAMBDA index : inBounds(index, Shape(operand)))
        Choice(selected, index) ==
            LET keep == eval(select, <<constant(et, Get(operand, selected)), constant(et, Get(operand, index))>>, env)
            IN  IF Scalar(keep[1]) = <<1>> THEN selected ELSE index
        Step(result, it) ==
            LET window == Window(it)
                place == FoldLeft(Choice, window[1], window)
                values == [type |-> Tensor(ElementType(initValue), <<2>>),
                           data |-> <<Get(source, it), Get(result, place)>>]
                reduced == reduceInferred(<<values>>, <<initValue>>, <<0>>, scatter, env)
            IN  IF window = << >> THEN result ELSE Set(result, place, Scalar(reduced[1]))
    IN  FoldLeft(Step, makeSplat(resultType, Scalar(initValue)), IndexSpace(Shape(source)))

\* Every slice is sorted by handles, which keeps the inputs together.  Of equal
\* handles the first comes first, which is one of the results an unstable sort
\* may have.
sortOp(inputs, dimension, comparator, env, resultTypes) ==
    LET rank == Rank(inputs[1].type)
        axis == (IF dimension >= 0 THEN dimension ELSE dimension + rank) + 1
        handles == Iota(Shape(inputs[1])[axis])
        Args(it, l, r) == FlattenSeq([i \in DOMAIN inputs |->
                            <<constant(ElementType(inputs[i]), Get(inputs[i], [it EXCEPT ![axis] = l])),
                              constant(ElementType(inputs[i]), Get(inputs[i], [it EXCEPT ![axis] = r]))>>])
        Before(it, l, r) == Scalar(eval(comparator, Args(it, l, r), env)[1]) = <<1>>
        Position(it, h) == Cardinality({g \in SeqToSet(handles) :
                              Before(it, g, h) \/ (g < h /\ ~ Before(it, h, g))})
        InputHandle(it) == CHOOSE h \in SeqToSet(handles) : Position(it, h) = it[axis]
    IN  [i \in DOMAIN inputs |->
            MakeTensor(resultTypes[i], LAMBDA it : Get(inputs[i], [it EXCEPT ![axis] = InputHandle(it)]))]

\* An index out of range takes the last branch.
caseOp(index, branches, env) ==
    LET n == getSExtValue(ElementType(index), Scalar(index))
    IN  eval(branches[IF n < 0 \/ n >= Len(branches) THEN Len(branches) ELSE n + 1], << >>, env)
ifOp(pred, trueBranch, falseBranch, env) ==
    eval(IF Scalar(pred) = <<1>> THEN trueBranch ELSE falseBranch, << >>, env)
\* A function is evaluated in a scope of its own.
callOp(inputs, callee, env) == eval(env.funcs[callee], inputs, [env EXCEPT !.scope = << >>])

RECURSIVE whileOp(_, _, _)
whileOp(o, operand, env) ==
    LET go == eval(o.regions[1], operand, env)
    IN  IF ~ Evaluated(operand) \/ ~ Evaluated(go) THEN Abort(o.outs)
        ELSE IF Scalar(go[1]) # <<1>> THEN operand
        ELSE whileOp(o, eval(o.regions[2], operand, env), env)

-----------------------------------------------------------------------------
(* What eval does for every op, in the order of its dispatch.  in are the  *)
(* runtime operands, to the types of the results, env the scope and the    *)
(* functions that a region of the op is evaluated with.                    *)

Unary == {"abs", "cbrt", "ceil", "convert", "cosine", "count_leading_zeros", "exponential",
          "exponential_minus_one", "floor", "imag", "is_finite", "log", "log_plus_one", "logistic",
          "negate", "not", "popcnt", "real", "round_nearest_afz", "round_nearest_even", "rsqrt",
          "sign", "sine", "sqrt", "tan", "tanh"}
Binary == {"add", "and", "atan2", "complex", "divide", "maximum", "minimum", "multiply", "or",
           "power", "remainder", "shift_left", "shift_right_arithmetic", "shift_right_logical",
           "subtract", "xor"}

\* failOnDecomposableOp: to be expanded before the program is interpreted.
Decomposable == {"batch_norm_grad", "batch_norm_inference", "batch_norm_training", "broadcast",
                 "cholesky", "create_token", "cross-replica-sum", "dot", "einsum", "rng",
                 "rng_bit_generator", "torch_index_select", "unary_einsum"}

\* The operands and attributes of a convolution, with the defaults of the
\* attributes that are not there; dynamic_conv takes its padding from an operand.
withConvolutionDefaults(a, rank) ==
    [a EXCEPT !.windowStrides = extractAttributeOrDefault(@, rank - 2, 1),
              !.padding = extractAttributeOrDefault(@, rank - 2, <<0, 0>>),
              !.lhsDilation = extractAttributeOrDefault(@, rank - 2, 1),
              !.rhsDilation = extractAttributeOrDefault(@, rank - 2, 1),
              !.windowReversal = extractAttributeOrDefault(@, rank - 2, FALSE)]
PaddingPairs(x) == [i \in 1..(Len(x.data) \div 2) |-> <<makeSizes(x)[2 * i - 1], makeSizes(x)[2 * i]>>]
withWindowDefaults(a, rank) ==
    [a EXCEPT !.windowStrides = extractAttributeOrDefault(@, rank, 1),
              !.padding = extractAttributeOrDefault(@, rank, <<0, 0>>),
              !.baseDilations = extractAttributeOrDefault(@, rank, 1),
              !.windowDilations = extractAttributeOrDefault(@, rank, 1)]

evalAbsToClz(o, in, to) ==
    CASE o.name = "after_all" -> <<Token>>
      [] o.name = "bitcast_convert" -> <<bitcastConvertOp(in[1], to[1])>>
      [] o.name = "broadcast_in_dim" -> <<broadcastInDimOp(in[1], o.attrs.broadcastDimensions, to[1])>>
      [] o.name = "clamp" -> <<clampOp(in[1], in[2], in[3], to[1])>>
      [] OTHER -> << >>

evalCompareToConvolution(o, in, to) ==
    CASE o.name = "compare" -> <<compareOp(in[1], in[2], o.attrs.direction, to[1])>>
      [] o.name = "concatenate" -> <<concatenateOp(in, o.attrs.dimension, to[1])>>
      [] o.name = "constant" -> <<makeTensor(o.attrs.value)>>
      [] o.name = "convolution" ->
            <<convolutionOp(in[1], in[2], withConvolutionDefaults(o.attrs, Rank(in[1].type)), to[1])>>
      [] OTHER -> << >>

\* The dynamic ops run with the declared result type, whatever their shape
\* operand says; dynamic_pad infers it again.
evalDotToDynamic(o, in, to) ==
    CASE o.name = "dot_general" -> <<dotGeneralOp(in[1], in[2], o.attrs.dn, to[1])>>
      [] o.name = "dynamic_broadcast_in_dim" ->
            <<broadcastInDimOp(in[1], o.attrs.broadcastDimensions, to[1])>>
      [] o.name = "dynamic_conv" ->
            <<convolutionOp(in[1], in[2],
                 [withConvolutionDefaults(o.attrs, Rank(in[1].type)) EXCEPT !.padding = PaddingPairs(in[3])],
                 to[1])>>
      [] o.name = "dynamic_gather" -> <<gatherOp(in[1], in[2], o.attrs.dn, makeSizes(in[3]), to[1])>>
      [] o.name = "dynamic_iota" -> <<iotaOp(o.attrs.iotaDimension, to[1])>>
      [] o.name = "dynamic_pad" ->
            <<padInferred(in[1], in[2], makeSizes(in[3]), makeSizes(in[4]), makeSizes(in[5]))>>
      [] o.name = "dynamic_reshape" -> <<reshapeOp(in[1], to[1])>>
      [] o.name = "dynamic_slice" -> <<dynamicSliceOp(in[1], Tail(in), o.attrs.sliceSizes, to[1])>>
      [] o.name = "dynamic_update_slice" ->
            <<dynamicUpdateSliceOp(in[1], in[2], SubSeq(in, 3, Len(in)), to[1])>>
      [] OTHER -> << >>

evalFftToMap(o, in, to, env) ==
    CASE o.name = "fft" -> <<fftOp(in[1], o.attrs.fftType, o.attrs.fftLength, to[1])>>
      [] o.name = "gather" -> <<gatherOp(in[1], in[2], o.attrs.dn, o.attrs.sliceSizes, to[1])>>
      [] o.name = "get_dimension_size" -> <<getDimensionSizeOp(in[1], o.attrs.dimension, to[1])>>
      [] o.name = "get_tuple_element" -> <<in[1].data[o.attrs.index + 1]>>
      [] o.name = "iota" -> <<iotaOp(o.attrs.iotaDimension, to[1])>>
      [] o.name = "map" ->
            <<mapOp(in, o.regions[1], env, to[1])>>
      [] o.name = "optimization_barrier" -> in
      [] OTHER -> << >>

Half(in, k) == SubSeq(in, 1 + (k - 1) * (Len(in) \div 2), k * (Len(in) \div 2))
evalPadToReshape(o, in, to, env) ==
    CASE o.name = "pad" -> <<padOp(in[1], in[2], o.attrs.low, o.attrs.interior, to[1])>>
      [] o.name = "reduce" ->
            reduceOp(Half(in, 1), Half(in, 2), o.attrs.dimensions, o.regions[1], env, to)
      [] o.name = "reduce_precision" ->
            <<reducePrecisionOp(in[1], o.attrs.exponentBits, o.attrs.mantissaBits, to[1])>>
      [] o.name = "reduce_window" ->
            reduceWindowOp(Half(in, 1), Half(in, 2), withWindowDefaults(o.attrs, Rank(in[1].type)),
                           o.regions[1], env, to)
      [] o.name = "reshape" -> <<reshapeOp(in[1], to[1])>>
      [] OTHER -> << >>

evalReverseToSelect(o, in, to, env) ==
    LET rank == Rank(in[1].type)
        n == (Len(in) - 1) \div 2
    IN  CASE o.name = "reverse" -> <<reverseOp(in[1], o.attrs.dimensions, to[1])>>
          [] o.name = "scatter" ->
                scatterOp(SubSeq(in, 1, n), in[n + 1], SubSeq(in, n + 2, 2 * n + 1), o.attrs.dn,
                          o.regions[1], env)
          [] o.name = "select_and_scatter" ->
                <<selectAndScatterOp(in[1], in[2], in[3],
                     [o.attrs EXCEPT
                        !.windowDimensions = extractAttributeOrDefault(@, rank, 1),
                        !.windowStrides = extractAttributeOrDefault(@, rank, 1),
                        !.padding = extractAttributeOrDefault(@, rank, <<0, 0>>)],
                     o.regions[1], o.regions[2], env, to[1])>>
          [] o.name = "select" -> <<selectOp(in[1], in[2], in[3], to[1])>>
          [] OTHER -> << >>

evalSliceToXor(o, in, to, env) ==
    CASE o.name = "slice" -> <<sliceOp(in[1], o.attrs.start, o.attrs.strides, to[1])>>
      [] o.name = "sort" ->
            sortOp(in, o.attrs.dimension, o.regions[1], env, to)
      [] o.name = "transpose" -> <<transposeOp(in[1], o.attrs.permutation, to[1])>>
      [] o.name = "triangular_solve" ->
            <<triangularSolveOp(in[1], in[2], o.attrs.leftSide, o.attrs.lower, o.attrs.unitDiagonal,
                                o.attrs.transposeA, to[1])>>
      [] o.name = "tuple" -> <<MakeTuple(in)>>
      [] OTHER -> << >>

-----------------------------------------------------------------------------
(* Blocks.                                                                 *)

evalOp(o, in, env) ==
    LET to == TypesOf(o.outs)
        parts == <<evalAbsToClz(o, in, to), evalCompareToConvolution(o, in, to),
                   evalDotToDynamic(o, in, to), evalFftToMap(o, in, to, env),
                   evalPadToReshape(o, in, to, env), evalSliceToXor(o, in, to, env)>>
        results == FlattenSeq(parts)
    IN  CASE o.name \in Decomposable -> Abort(o.outs)
          [] o.name \in Unary -> <<unaryOp(o.name, in[1], to[1])>>
          [] o.name \in Binary -> <<binaryOp(o.name, in[1], in[2], to[1])>>
          [] o.name = "case" -> caseOp(in[1], o.regions, env)
          [] o.name = "if" -> ifOp(in[1], o.regions[1], o.regions[2], env)
          [] o.name = "while" -> whileOp(o, in, env)
          [] o.name \in {"call", "composite"} -> callOp(in, o.attrs.callee, env)
          [] o.name \in {"reverse", "scatter", "select_and_scatter", "select"} ->
                evalReverseToSelect(o, in, to, env)
          [] results # << >> -> results
          [] OTHER -> Abort(o.outs)

eval(block, args, env) ==
    LET Step(s, o) ==
            LET in == [i \in DOMAIN o.ins |-> find(s.scope, o.ins[i])]
                results == evalOp(o, in, [env EXCEPT !.scope = s.scope])
            IN  IF ~ s.ok \/ ~ (\A i \in DOMAIN o.outs : hasStaticType(o.outs[i].type))
                THEN [s EXCEPT !.ok = FALSE]
                ELSE IF ~ mayAdd(s.scope, o.outs, results) \/ ~ Evaluated(results)
                THEN [s EXCEPT !.ok = FALSE]
                ELSE [s EXCEPT !.scope = addToScope(@, o.outs, results)]
        start == Append(env.scope, << >>)
        entered == [ok |-> Len(block.args) = Len(args) /\ mayAdd(start, block.args, args),
                    scope |-> addToScope(start, block.args, args)]
        end == FoldLeft(Step, entered, block.ops)
    IN  IF ~ Evaluated(args) \/ Len(block.args) # Len(args) THEN Abort(block.rets)
        ELSE IF end.ok THEN [i \in DOMAIN block.rets |-> find(end.scope, block.rets[i])]
        ELSE Abort(block.rets)
============================================================================
