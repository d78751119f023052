---------------------------- MODULE ReferenceOps ----------------------------
(***************************************************************************)
(* The ops of the reference interpreter (reference/Ops.cpp): what every op *)
(* computes on tensors.  The ops with a region are in Interpreter.         *)
(***************************************************************************)
EXTENDS Tensors

\* The element type of a shape that was inferred without one.
Typed(inferred, et) == WithElementType(inferred[1], et)
FatalTensor(et) == [type |-> Tensor(et, << >>), data |-> <<Fatal>>]

evalIndices(scalars) ==
    [i \in DOMAIN scalars |-> getSExtValue(ElementType(scalars[i]), Scalar(scalars[i]))]
evalIndex(x) == [k \in DOMAIN x.data |-> getSExtValue(ElementType(x), x.data[k])]
extractElements(arr, indices) == [i \in DOMAIN indices |-> At(arr, indices[i])]
extractAttributeOrDefault(attr, size, value) == IF attr = << >> THEN Repeat(value, size) ELSE attr

-----------------------------------------------------------------------------
(* Element-wise ops: absOp, ceilOp, ..., xorOp share one loop each.        *)

unaryOp(fn, x, resultType) ==
    LET et == ElementType(x)
        Fn(e) == CASE fn = "abs" -> abs(et, e)
                   [] fn \in {"ceil", "floor", "round_nearest_afz", "round_nearest_even"} ->
                        IF e = Fatal THEN e ELSE roundToIntegral(et, e)
                   [] fn = "count_leading_zeros" ->
                        IF e = Fatal THEN e ELSE convertInteger(resultType.et, countLeadingZeros(et, e))
                   [] fn = "convert" -> convert(resultType.et, et, e)
                   [] fn = "imag" -> imag(et, e)
                   [] fn = "is_finite" -> isFinite(et, e)
                   [] fn = "logistic" -> logistic(et, e)
                   [] fn = "negate" -> negate(et, e)
                   [] fn = "not" -> not(et, e)
                   [] fn = "popcnt" -> popcnt(et, e)
                   [] fn = "real" -> real(et, e)
                   [] fn = "sign" -> sign(et, e)
                   [] OTHER -> mapWithUpcastToDouble(et, fn, <<e>>)
    IN  MakeTensor(resultType, LAMBDA it : Fn(Get(x, it)))

binaryOp(fn, x, y, resultType) ==
    LET et == ElementType(x)
        Fn(a, b) == CASE fn = "add" -> add(et, a, b)
                      [] fn = "and" -> and(et, a, b)
                      [] fn = "atan2" -> atan2(et, a, b)
                      [] fn = "complex" -> IF Fatal \in {a, b} THEN Fatal ELSE complex(a, b)
                      [] fn = "divide" -> divide(et, a, b)
                      [] fn = "maximum" -> maximum(et, a, b)
                      [] fn = "minimum" -> minimum(et, a, b)
                      [] fn = "multiply" -> multiply(et, a, b)
                      [] fn = "or" -> or(et, a, b)
                      [] fn = "power" -> power(et, a, b)
                      [] fn = "remainder" -> rem(et, a, b)
                      [] fn = "shift_left" -> shiftLeft(et, a, b)
                      [] fn = "shift_right_arithmetic" -> shiftRightArithmetic(et, a, b)
                      [] fn = "shift_right_logical" -> shiftRightLogical(et, a, b)
                      [] fn = "subtract" -> subtract(et, a, b)
                      [] fn = "xor" -> xor(et, a, b)
    IN  MakeTensor(resultType, LAMBDA it : Fn(Get(x, it), Get(y, it)))

compareOp(lhs, rhs, direction, resultType) ==
    LET et == ElementType(lhs)
        Fn(a, b) == CASE direction = "EQ" -> EQ(et, a, b) [] direction = "NE" -> NE(et, a, b)
                      [] direction = "GE" -> GE(et, a, b) [] direction = "GT" -> GT(et, a, b)
                      [] direction = "LE" -> LE(et, a, b) [] direction = "LT" -> LT(et, a, b)
    IN  MakeTensor(resultType, LAMBDA it : Fn(Get(lhs, it), Get(rhs, it)))

OrScalar(x, it) == IF Rank(x.type) # 0 THEN Get(x, it) ELSE Scalar(x)
clampOp(lo, operand, hi, resultType) ==
    LET et == ElementType(operand)
    IN  MakeTensor(resultType, LAMBDA it :
            minimum(et, maximum(et, Get(operand, it), OrScalar(lo, it)), OrScalar(hi, it)))
selectOp(pred, onTrue, onFalse, resultType) ==
    MakeTensor(resultType, LAMBDA it :
        IF OrScalar(pred, it) = Fatal THEN Fatal
        ELSE IF OrScalar(pred, it) = <<1>> THEN Get(onTrue, it) ELSE Get(onFalse, it))
reducePrecisionOp(operand, exponentBits, mantissaBits, resultType) ==
    MakeTensor(resultType, LAMBDA it :
        reducePrecision(ElementType(operand), Get(operand, it), exponentBits, mantissaBits))

\* Between types of different widths one element becomes many, or many one.
bitcastConvertOp(operand, resultType) ==
    LET from == ElementType(operand)  to == resultType.et
        ratio == numBits(to) \div numBits(from)
    IN  [type |-> resultType,
         data |->
            CASE numBits(to) < numBits(from) ->
                    FlattenSeq([k \in DOMAIN operand.data |->
                                   bitcastConvertOneToMany(to, from, operand.data[k])])
              [] numBits(to) > numBits(from) ->
                    [k \in 1..Product(Sizes(resultType)) |->
                        IF k * ratio > Len(operand.data) THEN Fatal
                        ELSE bitcastConvertManyToOne(to, from,
                                SubSeq(operand.data, (k - 1) * ratio + 1, k * ratio))]
              [] OTHER -> [k \in 1..Product(Sizes(resultType)) |->
                             IF k > Len(operand.data) THEN Fatal
                             ELSE bitcastConvertOneToOne(to, from, operand.data[k])]]

-----------------------------------------------------------------------------
(* Data movement.                                                          *)

broadcastInDimOp(operand, broadcastDimensions, resultType) ==
    MakeTensor(resultType, LAMBDA it :
        Get(operand, [d \in DOMAIN Shape(operand) |->
                        IF Shape(operand)[d] = 1 THEN 0 ELSE At(it, broadcastDimensions[d])]))

concatenateOp(inputs, dimension, resultType) ==
    LET axis == dimension + 1
        Copy(acc, x) ==
            [result |-> FoldLeft(LAMBDA r, it : Set(r, [it EXCEPT ![axis] = @ + acc.offset], Get(x, it)),
                                 acc.result, IndexSpace(Shape(x))),
             offset |-> acc.offset + Shape(x)[axis]]
    IN  FoldLeft(Copy, [result |-> Uninitialized(resultType), offset |-> 0], inputs).result

sliceOp(operand, startIndices, strides, resultType) ==
    MakeTensor(resultType, LAMBDA it : Get(operand, Plus(startIndices, Times(it, strides))))
\* The overload that infers its result type.
sliceInferred(operand, start, limit, strides) ==
    LET inferred == inferSliceOp(operand.type, start, limit, strides)
    IN  IF inferred = Failure THEN FatalTensor(ElementType(operand))
        ELSE sliceOp(operand, start, strides, inferred[1])
\* The overload on an index whose kColon components stand for a whole dimension.
kColon == -1
sliceAt(operand, index) ==
    sliceInferred(operand,
        [i \in DOMAIN index |-> IF index[i] = kColon THEN 0 ELSE index[i]],
        [i \in DOMAIN index |-> IF index[i] = kColon THEN Shape(operand)[i] ELSE index[i] + 1],
        Repeat(1, Len(index)))

dynamicSliceOp(operand, startIndices, sliceSizes, resultType) ==
    LET start == clampIndex(0, evalIndices(startIndices), Minus(Shape(operand), sliceSizes))
    IN  MakeTensor(resultType, LAMBDA it : Get(operand, Plus(start, it)))

dynamicUpdateSliceOp(operand, update, startIndices, resultType) ==
    LET start == clampIndex(0, evalIndices(startIndices), Minus(Shape(operand), Shape(update)))
    IN  MakeTensor(resultType, LAMBDA it :
            IF inBounds(Minus(it, start), Shape(update)) THEN Get(update, Minus(it, start))
            ELSE Get(operand, it))

getDimensionSizeOp(operand, dimension, resultType) ==
    constant(resultType.et, convertInteger(resultType.et, At(Shape(operand), dimension)))
iotaOp(iotaDimension, resultType) ==
    MakeTensor(resultType, LAMBDA it : convertInteger(resultType.et, At(it, iotaDimension)))

padOp(operand, paddingValue, low, interior, resultType) ==
    LET Place(r, it) ==
            LET to == Plus(low, Times(it, [i \in DOMAIN interior |-> interior[i] + 1]))
            IN  IF inBounds(to, Shape(r)) THEN Set(r, to, Get(operand, it)) ELSE r
    IN  FoldLeft(Place, makeSplat(resultType, Scalar(paddingValue)), IndexSpace(Shape(operand)))
padInferred(operand, paddingValue, low, high, interior) ==
    LET inferred == inferPadOp(operand.type, low, high, interior)
    IN  IF inferred = Failure THEN FatalTensor(ElementType(operand))
        ELSE padOp(operand, paddingValue, low, interior, inferred[1])

\* The two iterators advance together; the operand may not have as many elements.
reshapeOp(operand, resultType) ==
    [type |-> resultType,
     data |-> [k \in 1..Product(Sizes(resultType)) |->
                 IF k <= Len(operand.data) THEN operand.data[k] ELSE Fatal]]
reverseOp(operand, dimensions, resultType) ==
    MakeTensor(resultType, LAMBDA it :
        Get(operand, [i \in DOMAIN it |->
                        IF i - 1 \in SeqToSet(dimensions) THEN Sizes(resultType)[i] - it[i] - 1
                        ELSE it[i]]))
transposeOp(operand, permutation, resultType) ==
    FoldLeft(LAMBDA r, it : Set(r, [d \in DOMAIN permutation |-> At(it, permutation[d])], Get(operand, it)),
             Uninitialized(resultType), IndexSpace(Shape(operand)))

split(x, numResults, axis) ==
    LET size == At(Shape(x), axis) \div numResults
        shape == [Shape(x) EXCEPT ![axis + 1] = size]
        Start(i) == [d \in DOMAIN shape |->
                        constant(I(64), <<IF d = axis + 1 THEN i * size ELSE 0>>)]
    IN  IF At(Shape(x), axis) % numResults # 0
        THEN Repeat(FatalTensor(ElementType(x)), numResults)
        ELSE [i \in 1..numResults |->
                dynamicSliceOp(x, Start(i - 1), shape, Tensor(ElementType(x), shape))]

-----------------------------------------------------------------------------
(* Contractions.                                                           *)

\* The loop over the contracting dimensions looks at the first index before it
\* looks at their sizes.
dotGeneralOp(lhs, rhs, dn, resultType) ==
    LET et == resultType.et
        lhsResultDims == Without(getAxes(lhs), dn.lhsBatching \o dn.lhsContracting)
        rhsResultDims == Without(getAxes(rhs), dn.rhsBatching \o dn.rhsContracting)
        nb == Len(dn.lhsBatching)
        sizes == extractElements(Shape(lhs), dn.lhsContracting)
        contracted == IF 0 \in SeqToSet(sizes) THEN <<Repeat(0, Len(sizes))>> ELSE IndexSpace(sizes)
        IndexOfSide(x, batching, free, offset, contracting, it, c) ==
            [i \in DOMAIN Shape(x) |->
                LET d == i - 1
                IN  CASE d \in SeqToSet(batching) -> At(it, IndexOf(d, batching))
                      [] d \in SeqToSet(contracting) -> At(c, IndexOf(d, contracting))
                      [] OTHER -> At(it, offset + IndexOf(d, free))]
        Lhs(it, c) == Get(lhs, IndexOfSide(lhs, dn.lhsBatching, lhsResultDims, nb,
                                           dn.lhsContracting, it, c))
        Rhs(it, c) == Get(rhs, IndexOfSide(rhs, dn.rhsBatching, rhsResultDims,
                                           nb + Len(lhsResultDims), dn.rhsContracting, it, c))
        Term(it, c) == multiply(et, convert(et, ElementType(lhs), Lhs(it, c)),
                                    convert(et, ElementType(rhs), Rhs(it, c)))
    IN  MakeTensor(resultType, LAMBDA it :
            FoldLeft(LAMBDA acc, c : add(et, acc, Term(it, c)), getZeroValueOfType(et), contracted))

concatAndPermute(n, hw, c, permutation) ==
    [i \in DOMAIN permutation |->
        LET p == IndexOf(i - 1, permutation)
        IN  IF p = 0 THEN n ELSE IF p = Len(permutation) - 1 THEN c ELSE hw[p]]

\* One group: every window of the padded input is contracted with the kernel, and
\* the products are laid out over the dimensions that are not spatial in order.
convolutionUngrouped(lhs, rhs, a, resultType) ==
    LET dn == a.dn
        perm == <<dn.inputBatch>> \o dn.inputSpatial \o <<dn.inputFeature>>
        Permute(n, hw, c) == concatAndPermute(n, hw, c, perm)
        windowDims == Permute(At(Shape(lhs), dn.inputBatch),
                              extractElements(Shape(rhs), dn.kernelSpatial),
                              At(Shape(lhs), dn.inputFeature))
        strides == Permute(1, a.windowStrides, 1)
        dilations == Permute(1, a.rhsDilation, 1)
        Padding(side) == Permute(0, [i \in DOMAIN a.padding |-> a.padding[i][side]], 0)
        padded == padInferred(lhs, constant(resultType.et, getZeroValueOfType(resultType.et)),
                     Padding(1), Padding(2),
                     Permute(0, [i \in DOMAIN a.lhsDilation |-> a.lhsDilation[i] - 1], 0))
        dotDn == [lhsBatching |-> << >>, rhsBatching |-> << >>,
                  lhsContracting |-> dn.inputSpatial \o <<dn.inputFeature>>,
                  rhsContracting |-> dn.kernelSpatial \o <<dn.kernelInputFeature>>]
        reversed == SelectSeq(dn.inputSpatial,
                              LAMBDA d : a.windowReversal[IndexOf(d, dn.inputSpatial) + 1])
        outPerm == <<dn.outputBatch>> \o dn.outputSpatial \o <<dn.outputFeature>>
        nonSpatial == extractElements(Sizes(resultType),
                         Without(Iota(Rank(resultType)), dn.outputSpatial))
        AtWindow(result, it) ==
            LET start == Times(strides, Permute(0, it, 0))
                limit == [i \in DOMAIN start |->
                            Min2(start[i] + windowDims[i] * dilations[i], Shape(padded)[i])]
                window == sliceInferred(padded, start, limit, dilations)
                lhsWindow == reverseOp(window, reversed, window.type)
                inferred == inferDotGeneralOp(lhsWindow.type, rhs.type, dotDn)
                product == dotGeneralOp(lhsWindow, rhs, dotDn, Typed(inferred, resultType.et))
                places == IndexSpace(nonSpatial)
            IN  IF inferred = Failure THEN Uninitialized(resultType)
                ELSE FoldLeft(LAMBDA r, k :
                        Set(r, concatAndPermute(places[k][1], it, places[k][2], outPerm), product.data[k]),
                        result, [k \in DOMAIN product.data |-> k])
    IN  FoldLeft(AtWindow, Uninitialized(resultType),
                 IndexSpace(extractElements(Sizes(resultType), dn.outputSpatial)))

convolutionOp(lhs, rhs, a, resultType) ==
    LET Grouped(count, inputDim, groupless) ==
            LET lhses == split(lhs, count, inputDim)
                rhses == split(rhs, count, a.dn.kernelOutputFeature)
                Part(i) == LET inferred == inferConvolutionOp(lhses[i].type, rhses[i].type, groupless)
                           IN  IF inferred = Failure THEN FatalTensor(resultType.et)
                               ELSE convolutionUngrouped(lhses[i], rhses[i], groupless,
                                                         Typed(inferred, resultType.et))
            IN  concatenateOp([i \in 1..count |-> Part(i)], a.dn.outputFeature, resultType)
    IN  CASE a.featureGroupCount > 1 ->
                Grouped(a.featureGroupCount, a.dn.inputFeature, [a EXCEPT !.featureGroupCount = 1])
          [] a.batchGroupCount > 1 ->
                Grouped(a.batchGroupCount, a.dn.inputBatch, [a EXCEPT !.batchGroupCount = 1])
          [] OTHER -> convolutionUngrouped(lhs, rhs, a, resultType)

\* Only of a complex tensor: the code casts the element type.
conjugate(x) ==
    MakeTensor(x.type, LAMBDA it : LET e == Get(x, it)
                                   IN  IF Len(e) = 2 THEN <<e[1], -e[2]>> ELSE Fatal)

triangularSolveOp(A, b, leftSide, isLower, unitDiagonal, transposeA, resultType) ==
    LET et == resultType.et
        rank == Rank(A.type)
        swapped == [Iota(rank) EXCEPT ![rank] = rank - 2, ![rank - 1] = rank - 1]
        transposed == transposeA \in {"TRANSPOSE", "ADJOINT"}
        turned == IF transposed THEN transposeOp(A, swapped, A.type) ELSE A
        tA == IF transposeA = "ADJOINT" THEN conjugate(turned) ELSE turned
        lower == IF transposed THEN ~ isLower ELSE isLower
        N == Shape(A)[rank]
        dimI == IF leftSide THEN rank - 1 ELSE rank
        dimK == IF leftSide THEN rank ELSE rank - 1
        down == leftSide # lower
        Place(batch, i, k) == [d \in 1..rank |-> IF d = dimK THEN k ELSE IF d = dimI THEN i ELSE batch[d]]
        \* The rows before i in the order of elimination, first to last.
        rows == IF down THEN [p \in 1..N |-> N - p] ELSE Iota(N)
        Before(i) == SelectSeq(rows, LAMBDA j : IF down THEN j > i ELSE j < i)
        Solve(result, batch, i, k) ==
            LET x == FoldLeft(LAMBDA acc, j : subtract(et, acc,
                                 multiply(et, Get(tA, Place(batch, i, j)), Get(result, Place(batch, j, k)))),
                              Get(b, Place(batch, i, k)), Before(i))
            IN  Set(result, Place(batch, i, k),
                    IF unitDiagonal THEN x ELSE divide(et, x, Get(tA, <<i, i>>)))
        steps == FlattenSeq([n \in DOMAIN IndexSpace(SubSeq(Sizes(resultType), 1, rank - 2)) |->
                    FlattenSeq([k \in 1..Shape(b)[dimK] |->
                        [p \in 1..N |-> <<IndexSpace(SubSeq(Sizes(resultType), 1, rank - 2))[n],
                                          rows[p], k - 1>>]])])
    IN  FoldLeft(LAMBDA r, s : Solve(r, s[1], s[2], s[3]), Uninitialized(resultType), steps)

-----------------------------------------------------------------------------
(* Fourier transforms.                                                     *)

\* complex(cosine(phase), sine(phase)) for the phase -2*pi*m/N.
Rotator(m, N) ==
    IF (4 * m) % N = 0
    THEN <<<<1, 0>>, <<0, -1>>, <<-1, 0>>, <<0, 1>>>>[(((4 * m) \div N) % 4) + 1]
    ELSE Libm("rotator", <<<<m % N, N>>>>)

fft_1d(operand, resultType, d) ==
    LET N == Shape(operand)[d]
        et == resultType.et
    IN  MakeTensor(resultType, LAMBDA it :
            FoldLeft(LAMBDA X, n : add(et, X, multiply(et, Get(operand, [it EXCEPT ![d] = n]),
                                                       Rotator(n * it[d], N))),
                     <<0, 0>>, Iota(N)))

fftOp(operand, fftType, fftLength, resultType) ==
    LET rank == Rank(resultType)
        dims == [i \in DOMAIN fftLength |-> rank - Len(fftLength) + i]
        last == dims[Len(dims)]
        Divide(x, n) == MakeTensor(x.type, LAMBDA it :
                            divide(x.type.et, Get(x, it), convertInteger(x.type.et, n)))
        Inverse1d(x, type, d) == conjugate(fft_1d(conjugate(x), type, d))
        asComplex == WithElementType(operand.type, resultType.et)
    IN  CASE fftType = "FFT" ->
                FoldLeft(LAMBDA x, d : fft_1d(x, resultType, d), operand, Reverse(dims))
          [] fftType = "IFFT" ->
                FoldLeft(LAMBDA x, d : Divide(Inverse1d(x, resultType, d), Sizes(resultType)[d]),
                         operand, dims)
          [] fftType = "RFFT" ->
                LET full == fft_1d(unaryOp("convert", operand, asComplex), asComplex, last)
                    half == sliceOp(full, Repeat(0, rank), Repeat(1, rank), resultType)
                IN  FoldLeft(LAMBDA x, d : fft_1d(x, resultType, d), half, Reverse(Front(dims)))
          [] fftType = "IRFFT" ->
                LET x == FoldLeft(LAMBDA y, d : Inverse1d(y, y.type, d), operand, Front(dims))
                    replica == sliceInferred(x, [Repeat(0, rank) EXCEPT ![rank] = 1],
                                  [Shape(x) EXCEPT ![rank] = @ - 1], Repeat(1, rank))
                    mirrored == conjugate(reverseOp(replica, <<last - 1>>, replica.type))
                    full == concatenateOp(<<x, mirrored>>, last - 1,
                               WithElementType(resultType, C(resultType.et.w)))
                    spectrum == fft_1d(conjugate(full), full.type, last)
                IN  Divide(unaryOp("real", spectrum, resultType),
                           Product([i \in DOMAIN dims |-> Sizes(resultType)[dims[i]]]))

-----------------------------------------------------------------------------
(* Gather and scatter share the index of the slice in the operand.         *)

\* The index into the index tensor: the batch index, with a colon where the
\* index vector is.
StartIndicesIndex(batchIndex, indices, indexVectorDim) ==
    IF indexVectorDim < Rank(indices.type)
    THEN SubSeq(batchIndex, 1, indexVectorDim) \o <<kColon>>
            \o SubSeq(batchIndex, indexVectorDim + 1, Len(batchIndex))
    ELSE batchIndex

\* The components of the index of an element: where its slice starts, its
\* batch, and its place in the slice.  0 where a dimension has none.
FullStartIndex(rank, startIndex, startIndexMap) ==
    [i \in 1..rank |-> IF (i - 1) \in SeqToSet(startIndexMap)
                       THEN At(startIndex, IndexOf(i - 1, startIndexMap)) ELSE 0]
FullBatchingIndex(rank, indicesIndex, batchingDims, indicesBatchingDims) ==
    [i \in 1..rank |-> IF (i - 1) \in SeqToSet(batchingDims)
                       THEN At(indicesIndex, At(indicesBatchingDims, IndexOf(i - 1, batchingDims))) ELSE 0]
FullOffsetIndex(rank, offsetIndex, dropped) ==
    LET kept == Without(Iota(rank), dropped)
    IN  [i \in 1..rank |-> IF (i - 1) \in SeqToSet(kept)
                           THEN At(offsetIndex, IndexOf(i - 1, kept)) ELSE 0]

gatherOp(operand, startIndices, dn, sliceSizes, resultType) ==
    LET rank == Rank(operand.type)
        batchDims == Without(Iota(Rank(resultType)), dn.offsetDims)
    IN  MakeTensor(resultType, LAMBDA it :
            LET indicesIndex == StartIndicesIndex(extractElements(it, batchDims), startIndices,
                                                  dn.indexVectorDim)
                startIndex == evalIndex(sliceAt(startIndices, indicesIndex))
                start == clampIndex(0, FullStartIndex(rank, startIndex, dn.startIndexMap),
                                    Minus(Shape(operand), sliceSizes))
                batching == FullBatchingIndex(rank, indicesIndex, dn.operandBatchingDims,
                                              dn.startIndicesBatchingDims)
                offset == FullOffsetIndex(rank, extractElements(it, dn.offsetDims),
                                          dn.collapsedSliceDims \o dn.operandBatchingDims)
            IN  Get(operand, Plus(Plus(start, batching), offset)))
============================================================================
