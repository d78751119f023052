---------------------------- MODULE ShapedTypes ----------------------------
(***************************************************************************)
(* Tensor types with dynamic and bounded dimensions, and the relations on  *)
(* them that type inference is built from (stablehlo/dialect/Base.cpp).    *)
(*                                                                         *)
(* A dimension is a size and a bound; kDynamic stands for an unknown size  *)
(* and for a missing bound.  A type is an element type and its dimensions. *)
(* The encoding of a tensor type is its bounds.  The result of an          *)
(* inference is the sequence of the inferred types, or Failure.            *)
(***************************************************************************)
EXTENDS Integers, Sequences, SequencesExt, FiniteSetsExt

kDynamic == -1
Failure == << >>

Dim(n) == [size |-> n, bound |-> kDynamic]
BoundedDim(b) == [size |-> kDynamic, bound |-> b]
Tensor(et, sizes) == [et |-> et, dims |-> [i \in DOMAIN sizes |-> Dim(sizes[i])]]

I(w) == [k |-> "i", w |-> w]
U(w) == [k |-> "ui", w |-> w]
F(w) == [k |-> "f", w |-> w]
C(w) == [k |-> "c", w |-> w]
TokenType == [et |-> [k |-> "token", w |-> 0], dims |-> << >>]

\* A quantized element type.  Per-tensor: one scale and axis kDynamic.
Quant(storage, min, max, expressed, scales, zeroPoints, axis) ==
    [k |-> "q", w |-> storage.w, storage |-> storage, min |-> min, max |-> max,
     expressed |-> expressed, scales |-> scales, zeroPoints |-> zeroPoints,
     axis |-> axis]

isQuantized(et) == et.k = "q"
isPerAxis(et) == isQuantized(et) /\ et.axis # kDynamic
isPerTensor(et) == isQuantized(et) /\ et.axis = kDynamic

Rank(t) == Len(t.dims)
\* Dimension numbers count from 0, as in the code.
DimAt(t, d) == t.dims[d + 1]
SizeAt(t, d) == t.dims[d + 1].size
Sizes(t) == [i \in DOMAIN t.dims |-> t.dims[i].size]
Bounds(t) == [i \in DOMAIN t.dims |-> t.dims[i].bound]
WithElementType(t, et) == [t EXCEPT !.et = et]

isDynamicDimSize(n) == n = kDynamic
isStaticDimSize(n) == n # kDynamic
isStaticShape(t) == \A i \in DOMAIN t.dims : isStaticDimSize(t.dims[i].size)

-----------------------------------------------------------------------------
(* Compatibility.                                                          *)

\* mlir::verifyCompatibleShape on two ranked types.
verifyCompatibleShape(t1, t2) ==
    /\ Rank(t1) = Rank(t2)
    /\ \A i \in DOMAIN t1.dims :
          \/ isDynamicDimSize(t1.dims[i].size)
          \/ isDynamicDimSize(t2.dims[i].size)
          \/ t1.dims[i].size = t2.dims[i].size

verifyCompatibleShapeWithBounds(t1, t2) ==
    LET Fits(a, b) == \A i \in DOMAIN a.dims :
                         ~ (isStaticDimSize(b.dims[i].bound) /\ b.dims[i].bound < a.dims[i].size)
    IN  verifyCompatibleShape(t1, t2) /\ Fits(t1, t2) /\ Fits(t2, t1)

isCompatibleElementTypeForHloTypeInference(e1, e2) ==
    IF isQuantized(e1) /\ isQuantized(e2)
    THEN /\ <<e1.storage, e1.min, e1.max, e1.expressed>>
              = <<e2.storage, e2.min, e2.max, e2.expressed>>
         /\ isPerAxis(e1) <=> isPerAxis(e2)
    ELSE e1 = e2

isCompatibleForHloTypeInference(t1, t2) ==
    /\ verifyCompatibleShapeWithBounds(t1, t2)
    /\ isCompatibleElementTypeForHloTypeInference(t1.et, t2.et)

\* The overload on type ranges.
isCompatibleTypeRange(ts1, ts2) ==
    /\ Len(ts1) = Len(ts2)
    /\ \A i \in DOMAIN ts1 : isCompatibleForHloTypeInference(ts1[i], ts2[i])

\* The overload on a shape that is a known value.
isCompatibleShapeForHloTypeInference(shape, t) ==
    /\ \A i \in DOMAIN shape : shape[i] >= 0
    /\ isCompatibleForHloTypeInference(Tensor(t.et, shape), t)

\* The element type of a real type: complex<f32> gives f32.
createRealType(t) == IF t.et.k = "c" THEN WithElementType(t, F(t.et.w)) ELSE t

-----------------------------------------------------------------------------
(* Bounded dynamism.                                                       *)

verifyBounds(t) ==
    \A i \in DOMAIN t.dims :
        isDynamicDimSize(t.dims[i].bound) \/ isDynamicDimSize(t.dims[i].size)

hasBounds(t) == \E i \in DOMAIN t.dims : isStaticDimSize(t.dims[i].bound)

\* The dimensions as they are after boundsToEncoding, whose prototype is the
\* encoding of the first type: without one there are no bounds.
boundsToEncoding(prototype, dims) ==
    IF hasBounds(prototype)
    THEN dims
    ELSE [i \in DOMAIN dims |-> Dim(dims[i].size)]

\* Faulty variant: an unknown operand adds nothing to the bound.
inferConcatenatedDimAndBoundDropped(l, r) ==
    LET SizeOrBound(d) == IF isStaticDimSize(d.size) THEN d.size ELSE d.bound
    IN  IF isStaticDimSize(l.size) /\ isStaticDimSize(r.size) THEN Dim(l.size + r.size)
        ELSE BoundedDim(Max({SizeOrBound(l), 0}) + Max({SizeOrBound(r), 0}))
inferConcatenatedDimAndBound(l, r) ==
    LET SizeOrBound(d) == IF isStaticDimSize(d.size) THEN d.size ELSE d.bound
    IN  IF isStaticDimSize(l.size) /\ isStaticDimSize(r.size)
        THEN Dim(l.size + r.size)
        ELSE IF isStaticDimSize(SizeOrBound(l)) /\ isStaticDimSize(SizeOrBound(r))
        THEN BoundedDim(SizeOrBound(l) + SizeOrBound(r))
        ELSE Dim(kDynamic)

\* Faulty variant: a size meets a bound, and the bound wins.
inferMostSpecificDimAndBoundPreferred(l, r) ==
    LET size == Max({l.size, r.size})
        bound == Max({l.bound, r.bound})
    IN  IF isStaticDimSize(l.size) /\ isStaticDimSize(r.size) /\ l.size # r.size THEN Failure
        ELSE IF isStaticDimSize(size) THEN <<Dim(Max({size, bound}))>>
        ELSE <<BoundedDim(bound)>>
\* The inferred dimension, or Failure; a dimension is wrapped in a sequence.
inferMostSpecificDimAndBound(l, r) ==
    LET size == IF isStaticDimSize(l.size) THEN l.size ELSE r.size
        bound == IF isStaticDimSize(l.bound) THEN l.bound ELSE r.bound
    IN  IF isStaticDimSize(size)
        THEN IF \/ isStaticDimSize(r.size) /\ r.size # size
                \/ isStaticDimSize(bound) /\ size > bound
             THEN Failure
             ELSE <<Dim(size)>>
        ELSE IF isStaticDimSize(l.bound) /\ isStaticDimSize(r.bound)
        THEN <<BoundedDim(Min({l.bound, r.bound}))>>
        ELSE <<BoundedDim(bound)>>

inferLeastSpecificDimAndBound(l, r) ==
    LET SizeOrBound(d) == IF isStaticDimSize(d.size) THEN d.size ELSE d.bound
    IN  IF isStaticDimSize(l.size) /\ isStaticDimSize(r.size)
        THEN IF l.size = r.size THEN <<Dim(l.size)>> ELSE Failure
        ELSE IF isStaticDimSize(SizeOrBound(l)) /\ isStaticDimSize(SizeOrBound(r))
        THEN <<BoundedDim(Max({SizeOrBound(l), SizeOrBound(r)}))>>
        ELSE <<Dim(kDynamic)>>

\* Folds the dimensions of the types with inferDim, from the first type on.
inferTypeWithCustomFn(types, inferDim(_, _)) ==
    LET Merged(acc, ds) == IF \E i \in DOMAIN ds : ds[i] = Failure THEN Failure
                           ELSE <<[acc EXCEPT !.dims = [i \in DOMAIN ds |-> ds[i][1]]]>>
        Merge(acc, t) == IF acc = Failure THEN Failure
                         ELSE Merged(acc[1], [i \in DOMAIN t.dims |-> inferDim(acc[1].dims[i], t.dims[i])])
        Encoded(merged) == IF merged = Failure THEN Failure
                           ELSE <<[merged[1] EXCEPT !.dims = boundsToEncoding(types[1], @)]>>
    IN  IF \E i \in DOMAIN types : Rank(types[i]) # Rank(types[1]) THEN Failure
        ELSE Encoded(FoldLeft(Merge, <<types[1]>>, Tail(types)))

\* Types that are not tensors (tokens) pass as they are.
inferLeastSpecificShapedType(types) ==
    IF \E i \in DOMAIN types : types[i] = TokenType
    THEN <<TokenType>>
    ELSE inferTypeWithCustomFn(types, inferLeastSpecificDimAndBound)

inferMostSpecificShapedType(types) ==
    LET ranked == SelectSeq(types, LAMBDA t : t # TokenType)
    IN  IF ranked = << >> THEN <<types[1]>>
        ELSE inferTypeWithCustomFn(ranked, inferMostSpecificDimAndBound)

hasSingleBoundedDimension(t) ==
    /\ Quantify(DOMAIN t.dims, LAMBDA i : isStaticDimSize(t.dims[i].bound)) = 1
    /\ Quantify(DOMAIN t.dims, LAMBDA i : isDynamicDimSize(t.dims[i].size)) = 1

-----------------------------------------------------------------------------
(* Quantized types.                                                        *)

isValidStablehloQuantizedElementType(et) ==
    /\ isQuantized(et)
    /\ \A i \in DOMAIN et.zeroPoints : et.min <= et.zeroPoints[i] /\ et.zeroPoints[i] <= et.max

isValidQuantizedDimension(t) ==
    isPerAxis(t.et) =>
        /\ t.et.axis < Rank(t)
        /\ \/ isDynamicDimSize(SizeAt(t, t.et.axis))
           \/ Len(t.et.scales) = SizeAt(t, t.et.axis)

-----------------------------------------------------------------------------
(* Traits of ops, on the types of the operands and of the results.         *)

ElementTypes(ts) == [i \in DOMAIN ts |-> ts[i].et]

CompatibleOperandsAndResultElementType(operands, results) ==
    LET expected == (operands \o results)[1].et
    IN  \A i \in DOMAIN (operands \o results) :
            isCompatibleElementTypeForHloTypeInference((operands \o results)[i].et, expected)

CompatibleOperandsElementType(operands) ==
    /\ operands # << >>
    /\ \A i \in DOMAIN operands :
          isCompatibleElementTypeForHloTypeInference(operands[i].et, operands[1].et)

CompatibleOperandsAndResultType(operands, results) ==
    LET all == operands \o results
    IN  \A i \in DOMAIN all : isCompatibleForHloTypeInference(all[i], all[1])

PairwiseSameOperandAndResultType(operands, results) == operands = results

PairwiseSameOperandAndResultElementType(operands, results) ==
    ElementTypes(operands) = ElementTypes(results)

\* May the op be executed although its result is not needed?
SpeculatableIfStaticDimInOutputIsStaticInInput(operand, result) ==
    \A i \in DOMAIN result.dims :
        isStaticDimSize(result.dims[i].size) => isStaticDimSize(operand.dims[i].size)

SpeculatableIfAllInputsStatic(operands) == \A i \in DOMAIN operands : isStaticShape(operands[i])

-----------------------------------------------------------------------------
(* The meaning of a type, for the properties: the concrete shapes of the   *)
(* values it admits, and the order on types that it induces.               *)

Admits(dim, n) == \/ dim.size = n
                  \/ isDynamicDimSize(dim.size) /\ (isDynamicDimSize(dim.bound) \/ n <= dim.bound)

\* The shapes that a type admits.
AdmitsShape(t, shape) ==
    Len(shape) = Rank(t) /\ \A i \in DOMAIN t.dims : Admits(t.dims[i], shape[i])

\* d1 is at least as specific as d2.
DimRefines(d1, d2) ==
    \/ d1 = d2
    \/ isDynamicDimSize(d2.size) /\ isDynamicDimSize(d2.bound)
    \/ isStaticDimSize(d1.size) /\ Admits(d2, d1.size)
    \/ /\ isDynamicDimSize(d1.size) /\ isDynamicDimSize(d2.size)
       /\ isStaticDimSize(d1.bound) /\ d1.bound <= d2.bound

\* t1 is at least as specific as t2.
Refines(t1, t2) ==
    /\ Rank(t1) = Rank(t2)
    /\ \A i \in DOMAIN t1.dims : DimRefines(t1.dims[i], t2.dims[i])

============================================================================
