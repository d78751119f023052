----------------------------- MODULE MCRewriting -----------------------------
(***************************************************************************)
(* Programs for TLC.  A program is written for a size n: with a number it  *)
(* is the program for inputs of that size, with kDynamic it is the dynamic *)
(* program, and the first is the reference for the second.                 *)
(***************************************************************************)
EXTENDS Rewriting

\* No function of libm is needed for the programs below.
MCLibm(fn, args) == <<0>>

IT(sizes) == Tensor(I(32), sizes)
ST(sizes) == Tensor(I(8), sizes)
PT(sizes) == Tensor(I(1), sizes)
IT64(sizes) == Tensor(I(64), sizes)
FT(sizes) == Tensor(F(32), sizes)
S32 == IT(<< >>)
Data(type, ints) == [type |-> type, data |-> [k \in DOMAIN ints |-> <<ints[k]>>]]
V(id, type) == Value(id, type)
Const(id, type, ints) == ConstantOp(V(id, type), Data(type, ints))
Node(name, ins, attrs, out) == OpOf(name, ins, attrs, <<out>>)
WithRegions(name, ins, attrs, regions, outs) ==
    [name |-> name, ins |-> ins, attrs |-> attrs, regions |-> regions, outs |-> outs]
Main(body) == [main |-> Function(numbered(body), TypesOf(body.rets))]

\* A static program to be optimized.
Optimize(args, ops, rets, inputs) ==
    [funcs |-> Main(BlockOf(args, ops, rets)), reference |-> Main(BlockOf(args, ops, rets)),
     types |-> TypesOf(args), inputs |-> inputs, pipeline |-> "optimize", holds |-> TRUE]
X == V(1, IT(<<3>>))
XInputs == {<<Data(IT(<<3>>), <<5, -2, 7>>)>>, <<Data(IT(<<3>>), <<1, 2, 3>>)>>}

-----------------------------------------------------------------------------
(* Folding and simplification.                                             *)

\* select(not (2 < x), 1 * (0 + x), 0), with the constants on the wrong side
CompareSelect ==
    LET c == V(2, IT(<<3>>))  lt == V(3, PT(<<3>>))  neg == V(4, PT(<<3>>))
        z == V(5, IT(<<3>>))  s == V(6, IT(<<3>>))  one == V(7, IT(<<3>>))  m == V(8, IT(<<3>>))
        r == V(9, IT(<<3>>))
    IN  Optimize(<<X>>,
          <<Const(2, IT(<<3>>), <<2, 2, 2>>),
            Node("compare", <<c, X>>, [direction |-> "LT", compareType |-> "SIGNED"], lt),
            Node("not", <<lt>>, NoAttrs, neg), Const(5, IT(<<3>>), <<0, 0, 0>>),
            Node("add", <<z, X>>, NoAttrs, s), Const(7, IT(<<3>>), <<1, 1, 1>>),
            Node("multiply", <<one, s>>, NoAttrs, m), Node("select", <<neg, m, z>>, NoAttrs, r)>>,
          <<r>>, XInputs)

\* Constants of eight bits at the limits of their type.
Arithmetic(fn) ==
    LET a == V(2, ST(<<4>>))  c == V(3, ST(<<4>>))  r == V(4, ST(<<4>>))  y == V(5, ST(<<4>>))
    IN  Optimize(<<V(1, ST(<<4>>))>>,
          <<Const(2, ST(<<4>>), <<-128, 127, -7, 100>>), Const(3, ST(<<4>>), <<-1, 1, 2, 100>>),
            Node(fn, <<a, c>>, NoAttrs, r), Node("xor", <<r, V(1, ST(<<4>>))>>, NoAttrs, y)>>,
          <<y>>, {<<Data(ST(<<4>>), <<0, 1, 2, 3>>)>>})

\* One op on constants (and on what else is given to the program).
Fold(args, consts, node, inputs) == Optimize(args, consts \o <<node>>, node.outs, inputs)
FoldConstants(consts, node) == Fold(<<X>>, consts, node, XInputs)
K == Const(2, IT(<<4>>), <<300, -7, 4, -128>>)
L == Const(3, IT(<<4>>), <<-1, -8, 1, -128>>)
H == Const(4, IT(<<4>>), <<9, -7, 3, 127>>)
Ones(sizes) == Const(2, IT(sizes), [k \in 1..Product(sizes) |-> 1])
CT(sizes) == Tensor(C(32), sizes)
Complex(re) == ConstantOp(V(2, CT(<<1, 2>>)), [type |-> CT(<<1, 2>>), data |-> [k \in 1..2 |-> <<re[k], 3>>]])
Transposed == Node("transpose", <<V(2, CT(<<1, 2>>))>>, [permutation |-> <<1, 0>>], V(5, CT(<<2, 1>>)))
\* A divisor with a zero, in a loop that is never entered: the program runs.
DivisionByZero(fn) ==
    LET k == Const(2, IT(<<3>>), <<1, 0, 2>>)
        never == BlockOf(<<V(10, IT(<<3>>))>>, <<Const(11, PT(<< >>), <<0>>)>>, <<V(11, PT(<< >>))>>)
        body == BlockOf(<<V(12, IT(<<3>>))>>,
                        <<k, Node(fn, k.outs \o k.outs, NoAttrs, V(13, IT(<<3>>))),
                          Node("add", <<V(12, IT(<<3>>)), V(13, IT(<<3>>))>>, NoAttrs, V(14, IT(<<3>>)))>>,
                        <<V(14, IT(<<3>>))>>)
    IN  Optimize(<<X>>, <<WithRegions("while", <<X>>, NoAttrs, <<never, body>>, <<V(20, IT(<<3>>))>>)>>,
                 <<V(20, IT(<<3>>))>>, XInputs)
Folds ==
    {FoldConstants(<<K>>, Node(fn, K.outs, NoAttrs, V(5, IT(<<4>>)))) : fn \in {"negate", "not", "abs", "sign"}}
    \cup
    {FoldConstants(<<K, L, H>>, Node("clamp", L.outs \o K.outs \o H.outs, NoAttrs, V(5, IT(<<4>>)))),
     FoldConstants(<<K>>, Node("convert", K.outs, NoAttrs, V(5, ST(<<4>>)))),
     FoldConstants(<<K>>, Node("slice", K.outs, [start |-> <<1>>, limit |-> <<4>>, strides |-> <<2>>], V(5, IT(<<2>>)))),
     FoldConstants(<<Ones(<<2>>)>>, Node("broadcast_in_dim", Ones(<<2>>).outs, [broadcastDimensions |-> <<1>>], V(5, IT(<<3, 2>>)))),
     FoldConstants(<<Const(6, PT(<<4>>), <<1, 0, 0, 1>>), K, L>>,
          Node("select", <<V(6, PT(<<4>>))>> \o K.outs \o L.outs, NoAttrs, V(5, IT(<<4>>)))),
     FoldConstants(<<Const(6, PT(<<4>>), <<0, 0, 0, 0>>), K, L>>,
          Node("select", <<V(6, PT(<<4>>))>> \o K.outs \o L.outs, NoAttrs, V(5, IT(<<4>>)))),
     FoldConstants(<< >>, Node("iota", << >>, [iotaDimension |-> 0], V(5, IT(<<1>>)))),
     FoldConstants(<< >>, Node("iota", << >>, [iotaDimension |-> 1], V(5, IT(<<2, 3>>)))),
     FoldConstants(<<Const(2, IT(<<3>>), <<0, 0, 0>>)>>, Node("multiply", <<X, V(2, IT(<<3>>))>>, NoAttrs, V(5, IT(<<3>>)))),
     FoldConstants(<< >>, Node("subtract", <<X, X>>, NoAttrs, V(5, IT(<<3>>)))),
     FoldConstants(<<Complex(<<1, 1>>)>>, Transposed), FoldConstants(<<Complex(<<1, 2>>)>>, Transposed),
     Fold(<<V(7, S32)>>, <<Ones(<<4>>)>>,
          Node("dynamic_slice", <<V(2, IT(<<4>>)), V(7, S32)>>, [sliceSizes |-> <<2>>], V(5, IT(<<2>>))),
          {<<Data(S32, <<n>>)>> : n \in {-1, 1, 9}})}

\* A dynamic op with a constant shape is replaced with its static form.
Static(consts, node, static) ==
    [Fold(<<X>>, consts, node, XInputs) EXCEPT !.reference = Main(BlockOf(<<X>>, consts \o <<static>>, static.outs))]
Index(id, ints) == Const(id, IT64(<<Len(ints)>>), ints)
IndexValue(id, n) == V(id, IT64(<<n>>))
Padding == [low |-> <<1>>, high |-> <<0>>, interior |-> <<1>>]
SliceBounds == [start |-> <<1>>, limit |-> <<3>>, strides |-> <<1>>]
Gathered(sizes) == [dn |-> [offsetDims |-> <<0>>, collapsedSliceDims |-> << >>, operandBatchingDims |-> << >>,
                            startIndicesBatchingDims |-> << >>, startIndexMap |-> <<0>>, indexVectorDim |-> 0],
                    indicesAreSorted |-> FALSE] @@ sizes
Broadcast == [broadcastDimensions |-> <<1>>]
Expanding == [knownExpanding |-> << >>, knownNonexpanding |-> << >>]
StaticForms ==
    {Static(<<Index(2, <<4>>)>>,
            Node("dynamic_iota", <<IndexValue(2, 1)>>, [iotaDimension |-> 0], V(5, IT(<<4>>))),
            Node("iota", << >>, [iotaDimension |-> 0], V(5, IT(<<4>>)))),
     Static(<<Index(2, <<2, 3>>)>>,
            Node("dynamic_iota", <<IndexValue(2, 2)>>, [iotaDimension |-> 1], V(5, IT(<<2, 3>>))),
            Node("iota", << >>, [iotaDimension |-> 1], V(5, IT(<<2, 3>>)))),
     Static(<<Index(2, <<1, 3>>)>>,
            Node("dynamic_reshape", <<X, IndexValue(2, 2)>>, NoAttrs, V(5, IT(<<1, 3>>))),
            Node("reshape", <<X>>, NoAttrs, V(5, IT(<<1, 3>>)))),
     Static(<<Index(2, <<2, 3>>)>>,
            Node("dynamic_broadcast_in_dim", <<X, IndexValue(2, 2)>>, Broadcast @@ Expanding, V(5, IT(<<2, 3>>))),
            Node("broadcast_in_dim", <<X>>, Broadcast, V(5, IT(<<2, 3>>)))),
     Static(<<Index(2, <<1>>), Index(3, <<0>>), Index(4, <<1>>), Const(6, S32, <<-9>>)>>,
            Node("dynamic_pad", <<X, V(6, S32), IndexValue(2, 1), IndexValue(3, 1), IndexValue(4, 1)>>, NoAttrs,
                 V(5, IT(<<6>>))),
            Node("pad", <<X, V(6, S32)>>, Padding, V(5, IT(<<6>>)))),
     Static(<<Index(2, <<1>>), Index(3, <<3>>), Index(4, <<1>>)>>,
            Node("real_dynamic_slice", <<X, IndexValue(2, 1), IndexValue(3, 1), IndexValue(4, 1)>>, NoAttrs, V(5, IT(<<2>>))),
            Node("slice", <<X>>, SliceBounds, V(5, IT(<<2>>)))),
     Static(<<Index(2, <<2>>), Index(3, <<2>>)>>,
            Node("dynamic_gather", <<X, IndexValue(2, 1), IndexValue(3, 1)>>, Gathered([none |-> 0]), V(5, IT(<<2>>))),
            Node("slice", <<X>>, SliceBounds, V(5, IT(<<2>>)))),
     Static(<< >>, Node("get_dimension_size", <<X>>, [dimension |-> 0], V(5, S32)), Const(5, S32, <<3>>)),
     Static(<<Const(2, S32, <<3>>)>>,
            Node("set_dimension_size", <<X, V(2, S32)>>, [dimension |-> 0], V(5, IT(<<3>>))),
            Node("reshape", <<X>>, NoAttrs, V(5, IT(<<3>>))))}

\* slice of a concatenation of concatenations, one of them empty
SliceOfConcatenate ==
    LET e == V(2, IT(<<0>>))  in == V(3, IT(<<5>>))  c == V(4, IT(<<2>>))  cat == V(5, IT(<<8>>))
        s == V(6, IT(<<2>>))
    IN  Optimize(<<X>>,
          <<Const(2, IT(<<0>>), << >>), Const(4, IT(<<2>>), <<8, 9>>),
            Node("concatenate", <<X, e, c>>, [dimension |-> 0], in),
            Node("concatenate", <<in, X>>, [dimension |-> 0], cat),
            Node("slice", <<cat>>, [start |-> <<3>>, limit |-> <<7>>, strides |-> <<2>>], s)>>,
          <<s>>, XInputs)

\* Indices beyond the operand are clamped, in the fold as in the program.
Indexing ==
    LET i == V(2, IT64(<< >>))  d == V(3, IT(<<2>>))  u == V(4, IT(<<3>>))  g == V(6, IT(<< >>))
        j == V(5, IT64(<<1>>))  z == V(7, IT64(<< >>))  all == V(8, IT(<<3>>))
        dn == [offsetDims |-> << >>, collapsedSliceDims |-> <<0>>, operandBatchingDims |-> << >>,
               startIndicesBatchingDims |-> << >>, startIndexMap |-> <<0>>, indexVectorDim |-> 0]
    IN  Optimize(<<X>>,
          <<Const(2, IT64(<< >>), <<2>>), Node("dynamic_slice", <<X, i>>, [sliceSizes |-> <<2>>], d),
            Node("dynamic_update_slice", <<X, d, i>>, NoAttrs, u), Const(5, IT64(<<1>>), <<7>>),
            Node("gather", <<X, j>>, [dn |-> dn, sliceSizes |-> <<1>>, indicesAreSorted |-> FALSE], g),
            Const(7, IT64(<< >>), <<0>>), Node("dynamic_update_slice", <<u, X, z>>, NoAttrs, all)>>,
          <<u, g, all>>, XInputs)

\* Constants that are moved around: transpose, reverse, reshape, iota, broadcast
Layout ==
    LET c == V(2, IT(<<2, 3>>))  t == V(3, IT(<<3, 2>>))  r == V(4, IT(<<3, 2>>))  h == V(5, IT(<<6>>))
        n == V(6, IT(<<6>>))  s == V(7, IT(<<6>>))  w == V(8, IT(<<2, 6>>))
    IN  Optimize(<<X>>,
          <<Const(2, IT(<<2, 3>>), <<1, 2, 3, 4, 5, 6>>),
            Node("transpose", <<c>>, [permutation |-> <<1, 0>>], t),
            Node("reverse", <<t>>, [dimensions |-> <<0>>], r), Node("reshape", <<r>>, NoAttrs, h),
            Node("iota", << >>, [iotaDimension |-> 0], n), Node("add", <<h, n>>, NoAttrs, s),
            Node("broadcast_in_dim", <<s>>, [broadcastDimensions |-> <<1>>], w)>>,
          <<w>>, XInputs)

\* Ops on the result of an op of the same kind.
Composition ==
    LET a == V(1, IT(<<2, 1, 3>>))  t == V(2, IT(<<3, 2, 1>>))  t2 == V(3, IT(<<1, 3, 2>>))
        w == V(4, IT(<<3, 1>>))  w2 == V(5, IT(<<3, 2>>))  r == V(6, IT(<<6>>))  r2 == V(7, IT(<<3, 2>>))
        s == V(8, IT(<<3, 2>>))
    IN  Optimize(<<a, V(9, IT(<<3>>))>>,
          <<Node("transpose", <<a>>, [permutation |-> <<2, 0, 1>>], t),
            Node("transpose", <<t>>, [permutation |-> <<2, 0, 1>>], t2),
            Node("reshape", <<t2>>, NoAttrs, r), Node("reshape", <<r>>, NoAttrs, r2),
            Node("broadcast_in_dim", <<V(9, IT(<<3>>))>>, [broadcastDimensions |-> <<0>>], w),
            Node("broadcast_in_dim", <<w>>, [broadcastDimensions |-> <<0, 1>>], w2),
            Node("subtract", <<r2, w2>>, NoAttrs, s)>>,
          <<s>>, {<<Data(IT(<<2, 1, 3>>), <<1, 2, 3, 4, 5, 6>>), Data(IT(<<3>>), <<10, 20, 30>>)>>})

\* A loop with an operand that it only passes on, and a branch with a known index.
Loop ==
    LET k == V(2, S32)  zero == V(3, S32)
        cond == BlockOf(<<V(10, S32), V(11, S32)>>,
                        <<Node("compare", <<V(10, S32), V(11, S32)>>,
                             [direction |-> "LT", compareType |-> "SIGNED"], V(12, PT(<< >>)))>>,
                        <<V(12, PT(<< >>))>>)
        body == BlockOf(<<V(13, S32), V(14, S32)>>,
                        <<Node("add", <<V(13, S32), V(1, S32)>>, NoAttrs, V(15, S32))>>,
                        <<V(15, S32), V(14, S32)>>)
        Branch(id, n) == BlockOf(<< >>, <<Const(id, S32, <<n>>)>>, <<V(id, S32)>>)
        i == V(5, S32)
    IN  Optimize(<<V(1, S32)>>,
          <<Const(2, S32, <<7>>), Const(3, S32, <<0>>), Const(5, S32, <<1>>),
            WithRegions("while", <<zero, k>>, NoAttrs, <<cond, body>>, <<V(20, S32), V(21, S32)>>),
            WithRegions("case", <<i>>, NoAttrs, <<Branch(30, 4), Branch(31, 5)>>, <<V(22, S32)>>),
            Node("add", <<V(20, S32), V(22, S32)>>, NoAttrs, V(23, S32))>>,
          <<V(23, S32), V(21, S32)>>, {<<Data(S32, <<3>>)>>, <<Data(S32, <<9>>)>>})

\* A reduction that keeps its initial value, one of a boolean splat, a sort with
\* an operand that nothing uses.
Regions ==
    LET zero == V(2, S32)  t == V(4, PT(<<3>>))  f == V(5, PT(<< >>))
        Reducer(name, id, type) ==
            BlockOf(<<V(id, type), V(id + 1, type)>>,
                    <<Node(name, <<V(id, type), V(id + 1, type)>>, NoAttrs, V(id + 2, type))>>, <<V(id + 2, type)>>)
        less == BlockOf(<<V(40, S32), V(41, S32), V(42, S32), V(43, S32)>>,
                        <<Node("compare", <<V(40, S32), V(41, S32)>>,
                             [direction |-> "LT", compareType |-> "SIGNED"], V(44, PT(<< >>)))>>,
                        <<V(44, PT(<< >>))>>)
    IN  Optimize(<<X>>,
          <<Const(2, S32, <<0>>),
            WithRegions("reduce", <<X, zero>>, [dimensions |-> <<0>>], <<Reducer("add", 10, S32)>>, <<V(3, S32)>>),
            Const(4, PT(<<3>>), <<1, 1, 1>>), Const(5, PT(<< >>), <<0>>),
            WithRegions("reduce", <<t, f>>, [dimensions |-> <<0>>], <<Reducer("or", 20, PT(<< >>))>>,
                        <<V(6, PT(<< >>))>>),
            WithRegions("sort", <<X, X>>, [dimension |-> -1], <<less>>, <<V(7, IT(<<3>>)), V(8, IT(<<3>>))>>)>>,
          <<V(3, S32), V(6, PT(<< >>)), V(7, IT(<<3>>))>>, XInputs)

\* A reducer of two operands whose second half is not used, a maximum with its
\* index of which one is used, a reduction of nothing, reductions over no
\* dimension and of an empty tensor.
Reductions ==
    LET greatest == BlockOf(<<V(10, S32), V(11, S32), V(12, S32), V(13, S32)>>,
                        <<Node("maximum", <<V(10, S32), V(12, S32)>>, NoAttrs, V(14, S32)),
                          Node("compare", <<V(10, S32), V(12, S32)>>,
                               [direction |-> "GE", compareType |-> "SIGNED"], V(15, PT(<< >>))),
                          Node("select", <<V(15, PT(<< >>)), V(11, S32), V(13, S32)>>, NoAttrs, V(16, S32))>>,
                        <<V(14, S32), V(16, S32)>>)
        Greatest(id) == Optimize(<<X>>,
           <<Const(2, S32, <<-128>>), Const(3, S32, <<-1>>), Const(4, IT(<<3>>), <<0, 1, 2>>),
             WithRegions("reduce", <<X, V(4, IT(<<3>>)), V(2, S32), V(3, S32)>>, [dimensions |-> <<0>>], <<greatest>>,
                         <<V(30, S32), V(31, S32)>>)>>,
           <<V(id, S32)>>, XInputs)
        both == BlockOf(<<V(10, S32), V(11, S32), V(12, S32), V(13, S32)>>,
                        <<Node("add", <<V(10, S32), V(12, S32)>>, NoAttrs, V(14, S32)),
                          Node("maximum", <<V(11, S32), V(13, S32)>>, NoAttrs, V(15, S32))>>,
                        <<V(14, S32), V(15, S32)>>)
        sum == BlockOf(<<V(20, S32), V(21, S32)>>,
                       <<Node("add", <<V(20, S32), V(21, S32)>>, NoAttrs, V(22, S32))>>, <<V(22, S32)>>)
        zero == V(2, S32)
        e == V(3, IT(<<2, 0>>))
    IN  {Greatest(30), Greatest(31),
         Optimize(<<X>>,
           <<Const(2, S32, <<0>>),
             WithRegions("reduce", <<X, X, zero, zero>>, [dimensions |-> <<0>>], <<both>>, <<V(30, S32), V(31, S32)>>)>>,
           <<V(30, S32)>>, XInputs),
         Optimize(<<X, e>>,
           <<Const(2, S32, <<4>>),
             WithRegions("reduce", <<e, zero>>, [dimensions |-> <<1>>], <<sum>>, <<V(30, IT(<<2>>))>>)>>,
           <<V(30, IT(<<2>>))>>, {x \o <<Data(IT(<<2, 0>>), << >>)>> : x \in XInputs}),
         Optimize(<<X>>,
           <<Const(2, S32, <<0>>),
             WithRegions("reduce", <<X, zero>>, [dimensions |-> << >>], <<sum>>, <<V(30, IT(<<3>>))>>)>>,
           <<V(30, IT(<<3>>))>>, XInputs)}

\* A loop that is never entered, and one whose results nothing uses with a call
\* in its body.
NeverEntered ==
    LET false == BlockOf(<<V(10, IT(<<3>>))>>, <<Const(11, PT(<< >>), <<0>>)>>, <<V(11, PT(<< >>))>>)
        body == BlockOf(<<V(12, IT(<<3>>))>>, <<Node("negate", <<V(12, IT(<<3>>))>>, NoAttrs, V(13, IT(<<3>>)))>>,
                        <<V(13, IT(<<3>>))>>)
        calling == BlockOf(<<V(14, IT(<<3>>))>>,
                           <<WithRegions("call", <<V(14, IT(<<3>>))>>, [callee |-> "f"], << >>, <<V(15, IT(<<3>>))>>)>>,
                           <<V(15, IT(<<3>>))>>)
        While(b, id) == WithRegions("while", <<X>>, NoAttrs, <<false, b>>, <<V(id, IT(<<3>>))>>)
        i == Optimize(<<X>>, <<While(body, 20), While(calling, 21)>>, <<V(20, IT(<<3>>))>>, XInputs)
        f == Function(numbered(body), <<IT(<<3>>)>>)
    IN  [i EXCEPT !.funcs = [main |-> i.funcs.main, f |-> f], !.reference = [main |-> i.reference.main, f |-> f]]

\* Parts of complex numbers, and an update with no indices.
Cancelling ==
    LET x == V(1, FT(<<2>>))  y == V(2, FT(<<2>>))  c == V(3, Tensor(C(32), <<2>>))
        indices == V(6, IT64(<<0, 1>>))
        update == BlockOf(<<V(10, Tensor(F(32), << >>)), V(11, Tensor(F(32), << >>))>>, << >>, <<V(11, Tensor(F(32), << >>))>>)
        dn == [updateWindowDims |-> << >>, insertedWindowDims |-> <<0>>, inputBatchingDims |-> << >>,
               scatterIndicesBatchingDims |-> << >>, scatterDimsToOperandDims |-> <<0>>, indexVectorDim |-> 1]
    IN  Optimize(<<x, y, indices, V(7, FT(<<0>>))>>,
          <<Node("complex", <<x, y>>, NoAttrs, c), Node("real", <<c>>, NoAttrs, V(4, FT(<<2>>))),
            WithRegions("scatter", <<y, indices, V(7, FT(<<0>>))>>,
                 [dn |-> dn, indicesAreSorted |-> FALSE, uniqueIndices |-> FALSE], <<update>>, <<V(8, FT(<<2>>))>>)>>,
          <<V(4, FT(<<2>>)), V(8, FT(<<2>>))>>,
          {<<Data(FT(<<2>>), <<1, 2>>), Data(FT(<<2>>), <<3, 4>>), Data(IT64(<<0, 1>>), << >>), Data(FT(<<0>>), << >>)>>})

\* Tensors without elements.
ZeroExtent ==
    LET e == V(1, IT(<<0>>))  p == V(3, IT(<<2>>))  s == V(4, IT(<<0>>))
    IN  Optimize(<<e, V(5, S32)>>,
          <<Node("pad", <<e, V(5, S32)>>, [low |-> <<1>>, high |-> <<1>>, interior |-> <<0>>], p),
            Node("add", <<e, e>>, NoAttrs, s)>>,
          <<p, s>>, {<<Data(IT(<<0>>), << >>), Data(S32, <<6>>)>>})

Import ==
    LET i == Optimize(<<X>>,
               <<Node("reshape", <<X>>, NoAttrs, V(2, IT(<<3>>))),
                 Node("concatenate", <<V(2, IT(<<3>>))>>, [dimension |-> 0], V(3, IT(<<3>>)))>>,
               <<V(3, IT(<<3>>))>>, XInputs)
    IN  [i EXCEPT !.pipeline = "hlo_import"]

-----------------------------------------------------------------------------
(* Batching dimensions for a target without them.                          *)

Expand(args, op, inputs) == [Optimize(args, <<op>>, op.outs, inputs) EXCEPT !.pipeline = "compatibility"]
Operand == V(1, IT(<<2, 3, 2>>))
OperandInputs == Data(IT(<<2, 3, 2>>), [k \in 1..12 |-> k])
BatchGather(indices, resultSizes, offsetDims, collapsed, batching, indicesBatching, map, vectorDim, sliceSizes, ints) ==
    LET dn == [offsetDims |-> offsetDims, collapsedSliceDims |-> collapsed, operandBatchingDims |-> batching,
               startIndicesBatchingDims |-> indicesBatching, startIndexMap |-> map, indexVectorDim |-> vectorDim]
    IN  Expand(<<Operand, V(2, indices)>>,
               Node("gather", <<Operand, V(2, indices)>>,
                    [dn |-> dn, sliceSizes |-> sliceSizes, indicesAreSorted |-> TRUE], V(3, IT(resultSizes))),
               {<<OperandInputs, Data(indices, ints)>>})
\* Updates of one element of each batch, added to what is there.
BatchScatter(indices, vectorDim, ints) ==
    LET dn == [updateWindowDims |-> << >>, insertedWindowDims |-> <<1>>, inputBatchingDims |-> <<0, 2>>,
               scatterIndicesBatchingDims |-> <<1, 0>>, scatterDimsToOperandDims |-> <<1>>, indexVectorDim |-> vectorDim]
        sum == BlockOf(<<V(10, S32), V(11, S32)>>, <<Node("add", <<V(10, S32), V(11, S32)>>, NoAttrs, V(12, S32))>>,
                       <<V(12, S32)>>)
    IN  Expand(<<Operand, V(2, indices), V(3, IT(<<2, 2>>))>>,
               WithRegions("scatter", <<Operand, V(2, indices), V(3, IT(<<2, 2>>))>>,
                    [dn |-> dn, indicesAreSorted |-> TRUE, uniqueIndices |-> FALSE], <<sum>>, <<V(4, Operand.type)>>),
               {<<OperandInputs, Data(indices, ints), Data(IT(<<2, 2>>), <<100, 200, 300, 400>>)>>})
\* An implicit and an explicit index vector, batching dimensions in another order
\* than those of the operand, sizes that do not fit in the type of the indices.
Expansions ==
    {BatchGather(IT(<<2>>), <<2, 2>>, <<1>>, <<1>>, <<0>>, <<0>>, <<1>>, 1, <<1, 1, 2>>, <<2, 0>>),
     BatchGather(IT(<<1, 2>>), <<2, 2>>, <<1>>, <<1>>, <<0>>, <<1>>, <<1>>, 0, <<1, 1, 2>>, <<7, 1>>),
     BatchGather(Tensor(I(2), <<2, 2>>), <<2, 2, 2>>, <<2>>, << >>, <<0, 2>>, <<1, 0>>, <<1>>, 2, <<1, 2, 1>>,
                 <<1, -1, 0, 1>>),
     BatchGather(Tensor(I(2), <<3>>), <<3, 2>>, <<1>>, <<0>>, <<1>>, <<0>>, <<0>>, 1, <<1, 1, 2>>, <<1, 0, 1>>),
     BatchScatter(Tensor(U(2), <<2, 2>>), 2, <<3, 2, 0, 1>>),
     BatchScatter(IT(<<2, 2, 1>>), 2, <<0, -1, 2, 2>>)}

-----------------------------------------------------------------------------
(* Dynamic programs.                                                       *)

Interpret(P(_), n, inputs) ==
    [funcs |-> P(kDynamic), reference |-> P(n), types |-> TypesOf(P(n).main.body.args),
     inputs |-> inputs, pipeline |-> "interpret", holds |-> TRUE]
SizedInputs(n) == {<<Data(IT(<<n, 2>>), [k \in 1..(2 * n) |-> 3 * k - 4])>>}
XN(n) == V(1, IT(<<n, 2>>))

\* The size of the argument as a tensor of one element.
SizeOps(n, id) ==
    <<Node("get_dimension_size", <<XN(n)>>, [dimension |-> 0], V(id, S32)),
      Node("reshape", <<V(id, S32)>>, NoAttrs, V(id + 1, IT(<<1>>)))>>

\* x + broadcast(iota) for the shape of x, flattened
BroadcastProgram(n) ==
    LET flat == IF n = kDynamic THEN kDynamic ELSE 2 * n
    IN  Main(BlockOf(<<XN(n)>>,
          SizeOps(n, 2) \o
          <<Const(4, IT(<<1>>), <<2>>),
            Node("concatenate", <<V(3, IT(<<1>>)), V(4, IT(<<1>>))>>, [dimension |-> 0], V(5, IT(<<2>>))),
            Node("dynamic_iota", <<V(3, IT(<<1>>))>>, [iotaDimension |-> 0], V(6, IT(<<n>>))),
            Node("dynamic_broadcast_in_dim", <<V(6, IT(<<n>>)), V(5, IT(<<2>>))>>,
               [broadcastDimensions |-> <<0>>, knownExpanding |-> << >>, knownNonexpanding |-> << >>], V(7, IT(<<n, 2>>))),
            Node("add", <<XN(n), V(7, IT(<<n, 2>>))>>, NoAttrs, V(8, IT(<<n, 2>>))),
            Node("multiply", <<V(3, IT(<<1>>)), V(4, IT(<<1>>))>>, NoAttrs, V(9, IT(<<1>>))),
            Node("dynamic_reshape", <<V(8, IT(<<n, 2>>)), V(9, IT(<<1>>))>>, NoAttrs, V(10, IT(<<flat>>)))>>,
          <<V(10, IT(<<flat>>))>>))

\* A loop that carries the dynamic argument; what it returns is returned.
LoopProgram(n) ==
    LET cond == BlockOf(<<V(10, S32), V(11, IT(<<n, 2>>))>>,
                        <<Node("compare", <<V(10, S32), V(3, S32)>>,
                             [direction |-> "LT", compareType |-> "SIGNED"], V(12, PT(<< >>)))>>,
                        <<V(12, PT(<< >>))>>)
        body == BlockOf(<<V(13, S32), V(14, IT(<<n, 2>>))>>,
                        <<Node("add", <<V(13, S32), V(3, S32)>>, NoAttrs, V(15, S32)),
                          Node("add", <<V(14, IT(<<n, 2>>)), XN(n)>>, NoAttrs, V(16, IT(<<n, 2>>)))>>,
                        <<V(15, S32), V(16, IT(<<n, 2>>))>>)
    IN  Main(BlockOf(<<XN(n)>>,
          <<Const(2, S32, <<0>>), Const(3, S32, <<1>>),
            WithRegions("while", <<V(2, S32), XN(n)>>, NoAttrs, <<cond, body>>,
                        <<V(20, S32), V(21, IT(<<n, 2>>))>>)>>,
          <<V(21, IT(<<n, 2>>))>>))

\* dot(x, transpose(x)), converted and padded
DotProgram(n) ==
    LET d == V(4, IT(<<n, n>>))  p == IF n = kDynamic THEN n ELSE n + 1
        dn == [lhsBatching |-> << >>, rhsBatching |-> << >>, lhsContracting |-> <<1>>, rhsContracting |-> <<1>>]
    IN  Main(BlockOf(<<XN(n)>>,
          <<Node("convert", <<XN(n)>>, NoAttrs, V(2, IT64(<<n, 2>>))),
            Node("convert", <<V(2, IT64(<<n, 2>>))>>, NoAttrs, V(3, IT(<<n, 2>>))),
            Node("dot_general", <<V(3, IT(<<n, 2>>)), XN(n)>>,
                 [dn |-> dn, isDefaultPrecisionConfig |-> TRUE, algorithm |-> << >>], d),
            Index(5, <<1, 0>>), Index(6, <<0, 0>>), Const(7, S32, <<-9>>),
            Node("dynamic_pad", <<d, V(7, S32), IndexValue(5, 2), IndexValue(6, 2), IndexValue(6, 2)>>, NoAttrs,
                 V(8, IT(<<p, n>>))),
            Node("bitcast_convert", <<V(8, IT(<<p, n>>))>>, NoAttrs, V(9, Tensor(U(32), <<p, n>>)))>>,
          <<V(9, Tensor(U(32), <<p, n>>))>>))

\* A slice whose size is known and whose start is not, in a dynamic program;
\* the interpreter has no real_dynamic_slice, the reference is a dynamic_slice.
SliceProgram(n) ==
    LET m == IF n = kDynamic THEN n ELSE 1
        y == V(2, IT64(<<2>>))
        Start(i) == Node("slice", <<y>>, [start |-> <<i>>, limit |-> <<i + 1>>, strides |-> <<1>>], V(20 + i, IT64(<<1>>)))
        Scalar_(i) == Node("reshape", <<V(20 + i, IT64(<<1>>))>>, NoAttrs, V(30 + i, IT64(<< >>)))
        dynamic == <<Index(3, <<1, 2>>), Index(4, <<1, 1>>), Node("add", <<y, IndexValue(3, 2)>>, NoAttrs, V(5, IT64(<<2>>))),
                     Node("real_dynamic_slice", <<XN(n), y, V(5, IT64(<<2>>)), V(4, IT64(<<2>>))>>, NoAttrs, V(6, IT(<<m, 2>>)))>>
        static == <<Start(0), Start(1), Scalar_(0), Scalar_(1),
                    Node("dynamic_slice", <<XN(n), V(30, IT64(<< >>)), V(31, IT64(<< >>))>>, [sliceSizes |-> <<1, 2>>],
                         V(6, IT(<<1, 2>>)))>>
    IN  Main(BlockOf(<<XN(n), y>>, IF n = kDynamic THEN dynamic ELSE static, <<V(6, IT(<<m, 2>>))>>))
SliceInputs == {<<Data(IT(<<3, 2>>), <<1, 2, 3, 4, 5, 6>>), Data(IT64(<<2>>), <<1, 0>>)>>}

\* Ops that the interpreter runs on one process only with others, or not at all.
CollectiveProgram(n) ==
    LET Scaled_(k) == IF n = kDynamic THEN n ELSE k * n
        groups == [replicaGroups |-> <<<<0, 1>>>>, channelId |-> 0, useGlobalDeviceIds |-> FALSE, dim |-> 0]
        sum == BlockOf(<<V(20, S32), V(21, S32)>>, <<Node("add", <<V(20, S32), V(21, S32)>>, NoAttrs, V(22, S32))>>,
                       <<V(22, S32)>>)
    IN  Main(BlockOf(<<XN(n)>>,
          SizeOps(n, 10) \o
          <<Node("all_gather", <<XN(n)>>, groups, V(2, IT(<<Scaled_(2), 2>>))),
            WithRegions("reduce_scatter", <<V(2, IT(<<Scaled_(2), 2>>))>>, groups, <<sum>>, <<V(3, IT(<<n, 2>>))>>),
            WithRegions("custom_call", <<V(3, IT(<<n, 2>>)), V(11, IT(<<1>>))>>,
                        CustomCallAttrs("f", <<1>>, FALSE), << >>, <<V(5, IT(<<n>>))>>)>>,
          <<V(5, IT(<<n>>))>>))

\* Two calls of a function that takes the size as an argument.
CallProgram(n) ==
    LET callee == BlockOf(<<V(1, S32), V(2, IT(<<n, 2>>))>>,
                     <<Node("reshape", <<V(1, S32)>>, NoAttrs, V(3, IT(<<1>>))),
                       Node("dynamic_iota", <<V(3, IT(<<1>>))>>, [iotaDimension |-> 0], V(4, IT(<<n>>))),
                       Node("dynamic_broadcast_in_dim", <<V(4, IT(<<n>>)), V(5, IT(<<2>>))>>,
                          [broadcastDimensions |-> <<0>>, knownExpanding |-> << >>, knownNonexpanding |-> << >>],
                          V(6, IT(<<n, 2>>))),
                       Node("add", <<V(2, IT(<<n, 2>>)), V(6, IT(<<n, 2>>))>>, NoAttrs, V(7, IT(<<n, 2>>)))>>,
                     <<V(7, IT(<<n, 2>>)), V(1, S32)>>)
        shape == <<Const(9, IT(<<1>>), <<2>>),
                   Node("concatenate", <<V(3, IT(<<1>>)), V(9, IT(<<1>>))>>, [dimension |-> 0], V(5, IT(<<2>>)))>>
        full == [callee EXCEPT !.ops = SubSeq(@, 1, 1) \o shape \o SubSeq(@, 2, Len(@))]
        Call(x, id) == WithRegions("call", <<V(2, S32), x>>, [callee |-> "f"], << >>,
                                   <<V(id, IT(<<n, 2>>)), V(id + 1, S32)>>)
        body == BlockOf(<<XN(n)>>,
                   <<Node("get_dimension_size", <<XN(n)>>, [dimension |-> 0], V(2, S32)),
                     Call(XN(n), 4), Call(V(4, IT(<<n, 2>>)), 6)>>,
                   <<V(6, IT(<<n, 2>>)), V(7, S32)>>)
    IN  [main |-> Function(numbered(body), TypesOf(body.rets)),
         f |-> Function(numbered(full), TypesOf(full.rets))]

\* Two calls of one function with arguments of different sizes.
ConflictProgram(n) ==
    LET m == IF n = kDynamic THEN n ELSE n + 1
        DT(k) == IT(<<k>>)
        callee == BlockOf(<<V(1, DT(kDynamic))>>,
                     <<Node("add", <<V(1, DT(kDynamic)), V(1, DT(kDynamic))>>, NoAttrs, V(2, DT(kDynamic)))>>,
                     <<V(2, DT(kDynamic))>>)
        Call(x, id) == WithRegions("call", <<x>>, [callee |-> "f"], << >>, <<V(id, DT(kDynamic))>>)
        body == BlockOf(<<V(1, DT(n)), V(2, DT(m))>>, <<Call(V(1, DT(n)), 3), Call(V(2, DT(m)), 4)>>,
                        <<V(3, DT(kDynamic)), V(4, DT(kDynamic))>>)
    IN  [main |-> Function(body, TypesOf(body.rets)), f |-> Function(callee, TypesOf(callee.rets))]
Conflict == [funcs |-> ConflictProgram(kDynamic), reference |-> ConflictProgram(2),
             types |-> <<IT(<<2>>), IT(<<3>>)>>, inputs |-> {}, pipeline |-> "interpret", holds |-> FALSE]

\* A call with tokens before and after the size: both lead when the size is gone.
TokenProgram(n) ==
    LET token(id) == V(id, TokenType)
        callee == BlockOf(<<token(1), V(2, S32), token(3), V(4, IT(<<n>>))>>,
                     <<Node("reshape", <<V(2, S32)>>, NoAttrs, V(5, IT(<<1>>))),
                       Node("dynamic_iota", <<V(5, IT(<<1>>))>>, [iotaDimension |-> 0], V(6, IT(<<n>>))),
                       Node("add", <<V(4, IT(<<n>>)), V(6, IT(<<n>>))>>, NoAttrs, V(7, IT(<<n>>))),
                       Node("after_all", <<token(1), token(3)>>, NoAttrs, token(8))>>,
                     <<V(7, IT(<<n>>)), token(8)>>)
        body == BlockOf(<<V(1, IT(<<n>>))>>,
                   <<Node("after_all", << >>, NoAttrs, token(2)),
                     Node("get_dimension_size", <<V(1, IT(<<n>>))>>, [dimension |-> 0], V(3, S32)),
                     WithRegions("call", <<token(2), V(3, S32), token(2), V(1, IT(<<n>>))>>, [callee |-> "f"], << >>,
                                 <<V(4, IT(<<n>>)), token(5)>>)>>,
                   <<V(4, IT(<<n>>))>>)
    IN  [main |-> Function(numbered(body), TypesOf(body.rets)),
         f |-> Function(numbered(callee), TypesOf(callee.rets))]

\* A function that calls itself, by way of next: no sizes make it static.
RecursiveProgram(n, next) ==
    LET Calling(callee) == BlockOf(<<V(1, IT(<<n>>))>>,
                   <<WithRegions("call", <<V(1, IT(<<n>>))>>, [callee |-> callee], << >>, <<V(2, IT(<<n>>))>>)>>,
                   <<V(2, IT(<<n>>))>>)
        Calls(callee) == Function(Calling(callee), <<IT(<<n>>)>>)
    IN  [main |-> Calls("f"), f |-> Calls(next), g |-> Calls("f")]
Recursive(next) == [funcs |-> RecursiveProgram(kDynamic, next), reference |-> RecursiveProgram(2, next),
                    types |-> <<IT(<<2>>)>>, inputs |-> {}, pipeline |-> "interpret", holds |-> FALSE]

\* assert 2 * n = 4, with the size in the message
Assertion == [CustomCallAttrs(shapeAssertionName, << >>, TRUE) EXCEPT !.errorMessage = <<{0}>>]
AssertProgram(n, attrs) ==
    Main(BlockOf(<<XN(n)>>,
      <<Node("get_dimension_size", <<XN(n)>>, [dimension |-> 0], V(2, S32)),
        Const(3, S32, <<2>>), Node("multiply", <<V(2, S32), V(3, S32)>>, NoAttrs, V(4, S32)),
        Const(5, S32, <<4>>),
        Node("compare", <<V(4, S32), V(5, S32)>>, [direction |-> "EQ", compareType |-> "SIGNED"], V(6, PT(<< >>))),
        WithRegions("custom_call", <<V(6, PT(<< >>)), V(2, S32)>>, attrs, << >>, << >>)>>,
      <<XN(n)>>))
Asserting(n, attrs, pipeline, holds) ==
    [Interpret(LAMBDA k : AssertProgram(k, attrs), n, {}) EXCEPT !.pipeline = pipeline, !.holds = holds]
\* With an attribute that assertions do not have, a configuration, no message, or
\* a message with a placeholder too many.
IllFormed == {[Assertion EXCEPT !.operandLayouts = <<<<<< >>, << >>>>>>, !.resultLayouts = <<<< >>>>],
              [Assertion EXCEPT !.backendConfig = "string"],
              [Assertion EXCEPT !.errorMessage = << >>], [Assertion EXCEPT !.errorMessage = <<{0, 1}>>]}
Assertions ==
    {Asserting(n, Assertion, "check_assertions", n = 2) : n \in {2, 3}}
      \cup {Asserting(2, attrs, "check_assertions", FALSE) : attrs \in IllFormed}
      \cup {Asserting(3, attrs, "ignore_assertions", TRUE) : attrs \in {Assertion} \cup IllFormed}

Optimizations ==
    Folds \cup StaticForms \cup Reductions \cup {NeverEntered, Cancelling, CompareSelect, SliceOfConcatenate, Indexing, Layout, Composition, Loop, Regions, ZeroExtent, Import}
      \cup {Arithmetic(fn) : fn \in {"add", "subtract", "multiply", "divide", "remainder", "maximum",
                                     "minimum", "and", "or", "xor"}}
      \cup {DivisionByZero(fn) : fn \in {"divide", "remainder"}}
Refinements ==
    {Interpret(BroadcastProgram, 3, SizedInputs(3)), Interpret(LoopProgram, 2, SizedInputs(2)),
     Interpret(CallProgram, 2, SizedInputs(2)),
     Interpret(DotProgram, 2, SizedInputs(2)), Interpret(SliceProgram, 3, SliceInputs),
     Interpret(TokenProgram, 2, {<<Data(IT(<<2>>), <<5, -3>>)>>}),
     Interpret(CollectiveProgram, 2, {}), Conflict, Recursive("f"), Recursive("g")}
MCInstances == Optimizations \cup Refinements \cup Assertions \cup Expansions

\* The sum of two booleans.
BooleanInstances ==
    {FoldConstants(<<Const(2, PT(<<2>>), <<1, 0>>), Const(3, PT(<<2>>), <<1, 1>>)>>,
                   Node("add", <<V(2, PT(<<2>>)), V(3, PT(<<2>>))>>, NoAttrs, V(5, PT(<<2>>))))}
============================================================================
