------------------------------ MODULE Tensors ------------------------------
(***************************************************************************)
(* Tensors of the reference interpreter (reference/Tensor.cpp, Index.cpp). *)
(*                                                                         *)
(* A tensor is its type and its buffer, the elements in row-major order.   *)
(* An element that was not written yet, like a read out of bounds, is      *)
(* Fatal; a write out of bounds makes the whole tensor Fatal.              *)
(***************************************************************************)
EXTENDS Elements

-----------------------------------------------------------------------------
(* Index arithmetic, element by element.                                   *)

Plus(x, y) == [i \in DOMAIN x |-> x[i] + y[i]]
Minus(x, y) == [i \in DOMAIN x |-> x[i] - y[i]]
Times(x, y) == [i \in DOMAIN x |-> x[i] * y[i]]
\* std::min(std::max(x, min), max)
clampIndex(lo, x, hi) == [i \in DOMAIN x |-> Min2(Max2(x[i], lo), hi[i])]
Repeat(n, rank) == [i \in 1..rank |-> n]

inBounds(index, shape) ==
    /\ Len(index) = Len(shape)
    /\ \A i \in DOMAIN index : index[i] >= 0 /\ index[i] < shape[i]

Stride(shape, i) == Product(SubSeq(shape, i + 1, Len(shape)))
flattenIndex(shape, index) ==
    FoldLeft(LAMBDA acc, i : acc + index[i] * Stride(shape, i), 0, [i \in DOMAIN shape |-> i])
\* IndexSpaceIterator: the indices of a shape in lexicographic order.
IndexSpace(shape) ==
    [k \in 1..Product(shape) |->
        [i \in DOMAIN shape |-> ((k - 1) \div Stride(shape, i)) % shape[i]]]

-----------------------------------------------------------------------------
Shape(x) == Sizes(x.type)
ElementType(x) == x.type.et
getAxes(x) == Iota(Rank(x.type))

Get(x, index) ==
    IF inBounds(index, Shape(x)) THEN x.data[flattenIndex(Shape(x), index) + 1] ELSE Fatal
Scalar(x) == Get(x, << >>)
Set(x, index, element) ==
    IF inBounds(index, Shape(x))
    THEN [x EXCEPT !.data[flattenIndex(Shape(x), index) + 1] = element]
    ELSE [x EXCEPT !.data = [k \in DOMAIN x.data |-> Fatal]]

\* The tensor whose element at every index is At(index).
MakeTensor(type, ElementAt(_)) ==
    [type |-> type,
     data |-> LET indices == IndexSpace(Sizes(type)) IN ListOf([k \in DOMAIN indices |-> ElementAt(indices[k])])]
makeSplat(type, element) == MakeTensor(type, LAMBDA index : element)
Uninitialized(type) == makeSplat(type, Fatal)
constant(et, element) == [type |-> Tensor(et, << >>), data |-> <<element>>]

\* makeTensor and makeDenseElementsAttr: an attribute lists the same elements.
makeTensor(attr) == [type |-> attr.type, data |-> attr.data]
makeSizes(x) == [k \in DOMAIN x.data |-> getSExtValue(ElementType(x), x.data[k])]

\* No element was read or written out of bounds, or left out.
Defined(x) == \A k \in DOMAIN x.data : x.data[k] # Fatal
============================================================================
