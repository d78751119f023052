------------------------- MODULE OpRefinementProofs -------------------------
(***************************************************************************)
(* Proofs about OpRefinement for run-time ops of any rank and any sizes,   *)
(* any choice of what the program does not know, and any order in which it *)
(* learns it.                                                              *)
(***************************************************************************)
EXTENDS OpRefinement, TypeInferenceProofs

USE DEF kDynamic, isStaticDimSize, isDynamicDimSize, Dim, BoundedDim

-----------------------------------------------------------------------------
(* Knowing more of a type and of an op.                                    *)

IsType(t) == t = [et |-> t.et, dims |-> t.dims] /\ WellFormedType(t)

\* t is at least as specific as u.
SharperType(t, u) == IsType(t) /\ IsType(u) /\ t.et = u.et /\ Refines(t, u)

SharperTypes(ts, us) ==
  /\ ts \in Seq(ToSet(ts)) /\ us \in Seq(ToSet(us))
  /\ Len(ts) = Len(us)
  /\ \A i \in 1..Len(us) : SharperType(ts[i], us[i])

\* The op o is v with more specific operands and results.
SharperOp(o, v) ==
  /\ o.name = v.name /\ o.attrs = v.attrs /\ o.regions = v.regions
  /\ SharperTypes(o.operands, v.operands) /\ SharperTypes(o.results, v.results)

LEMMA SizeKept ==
  ASSUME NEW d, WellFormed(d), NEW e, WellFormed(e), DimRefines(d, e)
  PROVE  isDynamicDimSize(e.size) \/ e.size = d.size
BY DEF WellFormed, DimType, Size, DimRefines, Admits

LEMMA IsSequence ==
  ASSUME NEW n \in Nat, NEW s, s = [i \in 1..n |-> s[i]]
  PROVE  s \in Seq(ToSet(s)) /\ Len(s) = n /\ DOMAIN s = 1..n
<1>1. \A i \in 1..n : s[i] \in ToSet(s)
  BY DEF ToSet
<1>2. s \in [1..n -> ToSet(s)]
  BY <1>1
<1> QED
  BY <1>2

\* A type is sharper when each of its dimensions is.
LEMMA SharperByDims ==
  ASSUME NEW et, NEW n \in Nat, NEW ds, NEW es,
         ds = [i \in 1..n |-> ds[i]], es = [i \in 1..n |-> es[i]],
         \A i \in 1..n : WellFormed(ds[i]) /\ WellFormed(es[i]) /\ DimRefines(ds[i], es[i])
  PROVE  SharperType([et |-> et, dims |-> ds], [et |-> et, dims |-> es])
<1>1. ds \in [1..n -> DimType] /\ es \in [1..n -> DimType]
  BY DEF WellFormed
<1>2. /\ ds \in Seq(DimType) /\ es \in Seq(DimType) /\ Len(ds) = n /\ Len(es) = n
      /\ DOMAIN ds = 1..n /\ DOMAIN es = 1..n
  BY <1>1
<1> QED
  BY <1>2 DEF SharperType, IsType, WellFormedType, verifyBounds, Refines, Rank, WellFormed

\* What is known of the dimensions of a sharper type.
LEMMA SharperDims ==
  ASSUME NEW t, NEW u, SharperType(t, u)
  PROVE  /\ t.et = u.et /\ Rank(t) = Rank(u) /\ Rank(u) \in Nat
         /\ DOMAIN t.dims = 1..Rank(u) /\ DOMAIN u.dims = 1..Rank(u)
         /\ t.dims = [i \in 1..Rank(u) |-> t.dims[i]] /\ u.dims = [i \in 1..Rank(u) |-> u.dims[i]]
         /\ \A i \in 1..Rank(u) : /\ WellFormed(t.dims[i]) /\ WellFormed(u.dims[i])
                                  /\ DimRefines(t.dims[i], u.dims[i])
<1>1. /\ t.dims \in Seq(DimType) /\ u.dims \in Seq(DimType) /\ Rank(t) = Rank(u)
      /\ \A i \in DOMAIN t.dims : DimRefines(t.dims[i], u.dims[i])
  BY DEF SharperType, IsType, WellFormedType, Refines
<1>2. DOMAIN t.dims = 1..Rank(u) /\ DOMAIN u.dims = 1..Rank(u) /\ Rank(u) \in Nat
  BY <1>1 DEF Rank
<1>3. \A i \in 1..Rank(u) : WellFormed(t.dims[i]) /\ WellFormed(u.dims[i])
  BY <1>2, DimsAreWellFormed DEF SharperType, IsType
<1> QED
  BY <1>1, <1>2, <1>3 DEF SharperType

LEMMA SharperElementType ==
  ASSUME NEW t, NEW u, SharperType(t, u), NEW et
  PROVE  SharperType(WithElementType(t, et), WithElementType(u, et))
<1>1. /\ WithElementType(t, et) = [et |-> et, dims |-> t.dims]
      /\ WithElementType(u, et) = [et |-> et, dims |-> u.dims]
  BY DEF SharperType, IsType, WithElementType
<1>2. SharperType([et |-> et, dims |-> t.dims], [et |-> et, dims |-> u.dims])
  BY SharperDims, SharperByDims
<1> QED
  BY <1>1, <1>2

\* Results that are made operand by operand.
LEMMA SharperEach ==
  ASSUME NEW n \in Nat, NEW ts, NEW us,
         ts = [i \in 1..n |-> ts[i]], us = [i \in 1..n |-> us[i]],
         \A i \in 1..n : SharperType(ts[i], us[i])
  PROVE  SharperTypes(ts, us)
BY IsSequence DEF SharperTypes

LEMMA SharperOne ==
  ASSUME NEW t, NEW u, SharperType(t, u)
  PROVE  SharperTypes(<<t>>, <<u>>)
<1>1. PICK ts : ts = <<t>>
  OBVIOUS
<1>2. PICK us : us = <<u>>
  OBVIOUS
<1>3. ts = [i \in 1..1 |-> ts[i]] /\ us = [i \in 1..1 |-> us[i]] /\ ts[1] = t /\ us[1] = u
  BY <1>1, <1>2
<1>4. \A i \in 1..1 : SharperType(ts[i], us[i])
  BY <1>3
<1>5. SharperTypes(ts, us)
  BY <1>3, <1>4, SharperEach
<1> QED
  BY <1>1, <1>2, <1>5

LEMMA SharperTypesFacts ==
  ASSUME NEW ts, NEW us, SharperTypes(ts, us)
  PROVE  /\ Len(us) \in Nat /\ Len(ts) = Len(us)
         /\ DOMAIN ts = 1..Len(us) /\ DOMAIN us = 1..Len(us)
         /\ ts = [i \in 1..Len(us) |-> ts[i]] /\ us = [i \in 1..Len(us) |-> us[i]]
         /\ \A i \in 1..Len(us) : SharperType(ts[i], us[i])
BY DEF SharperTypes

-----------------------------------------------------------------------------
(* What the program knows of the op.                                       *)

LEMMA ViewDim ==
  ASSUME NEW place, NEW dim \in [size : Nat, bound : {kDynamic}]
  PROVE  /\ WellFormed(dim) /\ WellFormed(ViewOfDim(place, dim))
         /\ DimRefines(dim, ViewOfDim(place, dim))
BY RuntimeAssumption DEF ViewOfDim, WellFormed, DimType, Size, DimRefines, Admits

LEMMA ViewDimStep ==
  ASSUME NEW place, NEW dim \in [size : Nat, bound : {kDynamic}],
         known \subseteq known', UNCHANGED <<instance, bounded>>
  PROVE  /\ WellFormed(ViewOfDim(place, dim)')
         /\ DimRefines(ViewOfDim(place, dim)', ViewOfDim(place, dim))
BY RuntimeAssumption DEF ViewOfDim, WellFormed, DimType, Size, DimRefines, Admits

\* A type at run time, dimension by dimension.
LEMMA RuntimeDims ==
  ASSUME NEW types, RuntimeTypes(types), NEW i \in DOMAIN types
  PROVE  /\ types[i] = [et |-> types[i].et, dims |-> types[i].dims]
         /\ Len(types[i].dims) \in Nat /\ DOMAIN types[i].dims = 1..Len(types[i].dims)
         /\ types[i].dims = [d \in DOMAIN types[i].dims |-> types[i].dims[d]]
         /\ \A d \in DOMAIN types[i].dims : types[i].dims[d] \in [size : Nat, bound : {kDynamic}]
<1>1. PICK R : R = [size : Nat, bound : {kDynamic}]
  OBVIOUS
<1>2. PICK s : s = types[i].dims
  OBVIOUS
<1>3. types[i] = [et |-> types[i].et, dims |-> types[i].dims] /\ s \in Seq(R)
  BY <1>1, <1>2, Zenon DEF RuntimeTypes
<1>4. /\ Len(s) \in Nat /\ DOMAIN s = 1..Len(s) /\ s = [d \in DOMAIN s |-> s[d]]
      /\ \A d \in DOMAIN s : s[d] \in R
  BY <1>3
<1> QED
  BY <1>1, <1>2, <1>3, <1>4

\* The same types with other dimensions.
LEMMA SharperViews ==
  ASSUME NEW types, RuntimeTypes(types), NEW V, NEW W, NEW ts, NEW us,
         ts = [i \in DOMAIN types |-> [types[i] EXCEPT !.dims = V[i]]],
         us = [i \in DOMAIN types |-> [types[i] EXCEPT !.dims = W[i]]],
         \A i \in DOMAIN types :
           /\ V[i] = [d \in DOMAIN types[i].dims |-> V[i][d]]
           /\ W[i] = [d \in DOMAIN types[i].dims |-> W[i][d]]
           /\ \A d \in DOMAIN types[i].dims :
                WellFormed(V[i][d]) /\ WellFormed(W[i][d]) /\ DimRefines(V[i][d], W[i][d])
  PROVE  SharperTypes(ts, us)
<1>1. DOMAIN types = 1..Len(types) /\ Len(types) \in Nat
  BY DEF RuntimeTypes
<1>2. ASSUME NEW i \in 1..Len(types) PROVE SharperType(ts[i], us[i])
  <2>0. i \in DOMAIN types
    BY <1>1
  <2>1. types[i] = [et |-> types[i].et, dims |-> types[i].dims]
    BY <2>0, RuntimeDims, Zenon
  <2>2. PICK n \in Nat : DOMAIN types[i].dims = 1..n
    <3>1. Len(types[i].dims) \in Nat /\ DOMAIN types[i].dims = 1..Len(types[i].dims)
      BY <2>0, RuntimeDims, Zenon
    <3> QED
      BY <3>1
  <2>3. \A v : [types[i] EXCEPT !.dims = v] = [et |-> types[i].et, dims |-> v]
    BY <2>1
  <2>4. ts[i] = [et |-> types[i].et, dims |-> V[i]] /\ us[i] = [et |-> types[i].et, dims |-> W[i]]
    BY <1>1, <2>3
  <2>5. SharperType([et |-> types[i].et, dims |-> V[i]], [et |-> types[i].et, dims |-> W[i]])
    BY <1>1, <2>2, SharperByDims
  <2> QED
    BY <2>4, <2>5
<1>3. ts = [i \in 1..Len(types) |-> ts[i]] /\ us = [i \in 1..Len(types) |-> us[i]]
  BY <1>1
<1> QED
  BY <1>1, <1>2, <1>3, SharperEach

\* The actual types are sharper than what is known of them.
LEMMA ActualTypes ==
  ASSUME NEW side, NEW types, RuntimeTypes(types)
  PROVE  SharperTypes(types, ViewOfTypes(side, types))
<1>1. PICK V : V = [i \in DOMAIN types |-> types[i].dims]
  OBVIOUS
<1>2. PICK W : W = [i \in DOMAIN types |-> [d \in DOMAIN types[i].dims |->
                      ViewOfDim(Place(side, i, d), types[i].dims[d])]]
  OBVIOUS
<1>3. types = [i \in DOMAIN types |-> [types[i] EXCEPT !.dims = V[i]]]
  BY <1>1 DEF RuntimeTypes
<1>4. ViewOfTypes(side, types) = [i \in DOMAIN types |-> [types[i] EXCEPT !.dims = W[i]]]
  BY <1>2 DEF ViewOfTypes
<1>5. ASSUME NEW i \in DOMAIN types
      PROVE  /\ V[i] = [d \in DOMAIN types[i].dims |-> V[i][d]]
             /\ W[i] = [d \in DOMAIN types[i].dims |-> W[i][d]]
             /\ \A d \in DOMAIN types[i].dims :
                  WellFormed(V[i][d]) /\ WellFormed(W[i][d]) /\ DimRefines(V[i][d], W[i][d])
  <2>1. /\ types[i].dims = [d \in DOMAIN types[i].dims |-> types[i].dims[d]]
        /\ \A d \in DOMAIN types[i].dims : types[i].dims[d] \in [size : Nat, bound : {kDynamic}]
    BY RuntimeDims
  <2>2. V[i] = types[i].dims /\ W[i] = [d \in DOMAIN types[i].dims |-> ViewOfDim(Place(side, i, d), types[i].dims[d])]
    BY <1>1, <1>2
  <2> QED
    BY <2>1, <2>2, ViewDim
<1> QED
  BY <1>3, <1>4, <1>5, SharperViews

\* They get sharper when the program learns.
LEMMA KnownTypes ==
  ASSUME NEW side, NEW types, RuntimeTypes(types),
         known \subseteq known', UNCHANGED <<instance, bounded>>
  PROVE  SharperTypes(ViewOfTypes(side, types)', ViewOfTypes(side, types))
<1>1. PICK V : V = [i \in DOMAIN types |-> [d \in DOMAIN types[i].dims |->
                      ViewOfDim(Place(side, i, d), types[i].dims[d])']]
  OBVIOUS
<1>2. PICK W : W = [i \in DOMAIN types |-> [d \in DOMAIN types[i].dims |->
                      ViewOfDim(Place(side, i, d), types[i].dims[d])]]
  OBVIOUS
<1>3. ViewOfTypes(side, types)' = [i \in DOMAIN types |-> [types[i] EXCEPT !.dims = V[i]]]
  BY <1>1 DEF ViewOfTypes
<1>4. ViewOfTypes(side, types) = [i \in DOMAIN types |-> [types[i] EXCEPT !.dims = W[i]]]
  BY <1>2 DEF ViewOfTypes
<1>5. ASSUME NEW i \in DOMAIN types
      PROVE  /\ V[i] = [d \in DOMAIN types[i].dims |-> V[i][d]]
             /\ W[i] = [d \in DOMAIN types[i].dims |-> W[i][d]]
             /\ \A d \in DOMAIN types[i].dims :
                  WellFormed(V[i][d]) /\ WellFormed(W[i][d]) /\ DimRefines(V[i][d], W[i][d])
  <2>1. \A d \in DOMAIN types[i].dims : types[i].dims[d] \in [size : Nat, bound : {kDynamic}]
    BY RuntimeDims
  <2>2. /\ V[i] = [d \in DOMAIN types[i].dims |-> ViewOfDim(Place(side, i, d), types[i].dims[d])']
        /\ W[i] = [d \in DOMAIN types[i].dims |-> ViewOfDim(Place(side, i, d), types[i].dims[d])]
    BY <1>1, <1>2
  <2> QED
    BY <2>1, <2>2, ViewDim, ViewDimStep
<1> QED
  BY <1>3, <1>4, <1>5, SharperViews

\* The fields of the op as the program has it.
LEMMA KnownOp ==
  ASSUME instance \in RuntimeOps
  PROVE  /\ op.name = actual.name /\ op.attrs = actual.attrs /\ op.regions = actual.regions
         /\ op.operands = ViewOfTypes("operand", actual.operands)
         /\ op.results = ViewOfTypes("result", actual.results)
<1>1. PICK o : o = actual
  OBVIOUS
<1>2. o = [name |-> o.name, operands |-> o.operands, values |-> o.values,
           attrs |-> o.attrs, regions |-> o.regions, results |-> o.results]
  BY <1>1, RuntimeAssumption DEF actual
<1>3. \A a, b, c : LET e == [o EXCEPT !.operands = a, !.values = b, !.results = c]
                   IN  /\ e.name = o.name /\ e.attrs = o.attrs /\ e.regions = o.regions
                       /\ e.operands = a /\ e.results = c
  BY <1>2
<1> QED
  BY <1>1, <1>3 DEF op

LEMMA ActualIsSharper ==
  ASSUME instance \in RuntimeOps
  PROVE  SharperOp(actual, op)
<1>1. RuntimeTypes(actual.operands) /\ RuntimeTypes(actual.results)
  BY RuntimeAssumption DEF actual
<1> QED
  BY <1>1, KnownOp, ActualTypes DEF SharperOp

-----------------------------------------------------------------------------
(* What is accepted of an op stays accepted when less of it is known.      *)

LEMMA SharperSizeAt ==
  ASSUME NEW t, NEW u, SharperType(t, u), NEW d \in Int, 0 <= d, d < Rank(u)
  PROVE  isDynamicDimSize(SizeAt(u, d)) \/ SizeAt(u, d) = SizeAt(t, d)
<1>1. Rank(u) \in Nat
  BY SharperDims
<1>2. PICK i \in 1..Rank(u) : i = d + 1
  BY <1>1
<1>3. WellFormed(t.dims[i]) /\ WellFormed(u.dims[i]) /\ DimRefines(t.dims[i], u.dims[i])
  BY SharperDims
<1> QED
  BY <1>2, <1>3, SizeKept DEF SizeAt

LEMMA SizesStayCompatible ==
  ASSUME NEW t, NEW u, SharperType(t, u), NEW t2, NEW u2, SharperType(t2, u2),
         NEW d \in Int, 0 <= d, d < Rank(u), NEW e \in Int, 0 <= e, e < Rank(u2),
         verifyCompatibleDims(SizeAt(t, d), SizeAt(t2, e))
  PROVE  verifyCompatibleDims(SizeAt(u, d), SizeAt(u2, e))
BY SharperSizeAt DEF verifyCompatibleDims

LEMMA ShapesStayCompatible ==
  ASSUME NEW t, NEW u, SharperType(t, u), NEW t2, NEW u2, SharperType(t2, u2),
         verifyCompatibleShape(t, t2)
  PROVE  verifyCompatibleShape(u, u2)
<1>1. /\ Rank(t) = Rank(u) /\ Rank(t2) = Rank(u2) /\ Rank(u) \in Nat /\ Rank(u) = Rank(u2)
      /\ DOMAIN t.dims = 1..Rank(u) /\ DOMAIN u.dims = 1..Rank(u)
  BY SharperDims DEF verifyCompatibleShape
<1>2. ASSUME NEW i \in 1..Rank(u)
      PROVE  \/ isDynamicDimSize(u.dims[i].size) \/ isDynamicDimSize(u2.dims[i].size)
             \/ u.dims[i].size = u2.dims[i].size
  <2>1. \/ isDynamicDimSize(t.dims[i].size) \/ isDynamicDimSize(t2.dims[i].size)
        \/ t.dims[i].size = t2.dims[i].size
    BY <1>1 DEF verifyCompatibleShape
  <2>2. isDynamicDimSize(u.dims[i].size) \/ u.dims[i].size = t.dims[i].size
    BY SharperDims, SizeKept
  <2>3. isDynamicDimSize(u2.dims[i].size) \/ u2.dims[i].size = t2.dims[i].size
    BY <1>1, SharperDims, SizeKept
  <2> QED
    BY <2>1, <2>2, <2>3
<1> QED
  BY <1>1, <1>2 DEF verifyCompatibleShape

LEMMA TypesStayCompatible ==
  ASSUME NEW t, NEW u, SharperType(t, u), NEW t2, NEW u2, SharperType(t2, u2),
         isCompatibleForHloTypeInference(t, t2)
  PROVE  isCompatibleForHloTypeInference(u, u2)
<1>1. verifyCompatibleShapeWithBounds(u, u2)
  BY CompatibilityIsMonotone DEF SharperType, IsType, isCompatibleForHloTypeInference
<1> QED
  BY <1>1 DEF SharperType, isCompatibleForHloTypeInference

LEMMA ElementTypesAgree ==
  ASSUME NEW ts, NEW us, SharperTypes(ts, us), NEW precision
  PROVE  tensorsHaveSameElType(ts, precision) <=> tensorsHaveSameElType(us, precision)
<1>1. DOMAIN ts = DOMAIN us /\ \A i \in DOMAIN us : ts[i].et = us[i].et
  BY SharperTypesFacts DEF SharperType
<1>2. DOMAIN us # {} => 1 \in DOMAIN us
  BY SharperTypesFacts
<1> QED
  BY <1>1, <1>2 DEF tensorsHaveSameElType

LEMMA SharperSubSeq ==
  ASSUME NEW ts, NEW us, SharperTypes(ts, us), NEW m \in Nat \ {0}, NEW n \in Nat,
         n <= Len(us), m <= n + 1
  PROVE  SharperTypes(SubSeq(ts, m, n), SubSeq(us, m, n))
<1>1. PICK k \in Nat : k = n - m + 1
  OBVIOUS
<1>2. PICK xs : xs = SubSeq(ts, m, n)
  OBVIOUS
<1>3. PICK ys : ys = SubSeq(us, m, n)
  OBVIOUS
<1>4. Len(us) \in Nat /\ \A i \in 1..Len(us) : SharperType(ts[i], us[i])
  BY SharperTypesFacts
<1>5. xs = [i \in 1..k |-> ts[i + m - 1]] /\ ys = [i \in 1..k |-> us[i + m - 1]]
  BY <1>1, <1>2, <1>3
<1>6. ASSUME NEW i \in 1..k PROVE SharperType(xs[i], ys[i])
  <2>1. PICK j \in 1..Len(us) : j = i + m - 1
    BY <1>1, <1>4
  <2> QED
    BY <1>4, <1>5, <2>1
<1>7. xs = [i \in 1..k |-> xs[i]] /\ ys = [i \in 1..k |-> ys[i]]
  BY <1>5
<1>8. SharperTypes(xs, ys)
  BY <1>6, <1>7, SharperEach
<1> QED
  BY <1>2, <1>3, <1>8

-----------------------------------------------------------------------------
(* The shape functions one by one: from types that are more specific they  *)
(* infer types that are.                                                   *)

LEMMA RealTypeSharpens ==
  ASSUME NEW t, NEW u, SharperType(t, u)
  PROVE  SharperTypes(<<createRealType(t)>>, <<createRealType(u)>>)
<1>1. t.et = u.et
  BY DEF SharperType
<1>2. SharperType(createRealType(t), createRealType(u))
  BY <1>1, SharperElementType DEF createRealType
<1> QED
  BY <1>2, SharperOne

LEMMA ElementTypeSharpens ==
  ASSUME NEW t, NEW u, SharperType(t, u), NEW et
  PROVE  SharperTypes(<<WithElementType(t, et)>>, <<WithElementType(u, et)>>)
BY SharperElementType, SharperOne

LEMMA ClampSharpens ==
  ASSUME NEW a, NEW aa, SharperType(a, aa), NEW t, NEW u, SharperType(t, u),
         NEW b, NEW bb, SharperType(b, bb), inferClampOp(a, t, b) # Failure
  PROVE  SharperTypes(inferClampOp(a, t, b), inferClampOp(aa, u, bb))
<1>1. Rank(a) = Rank(aa) /\ Rank(b) = Rank(bb)
  BY SharperDims
<1>2. /\ verifyCompatibleShape(a, t) \/ Rank(a) = 0
      /\ verifyCompatibleShape(b, t) \/ Rank(b) = 0
      /\ inferClampOp(a, t, b) = <<t>>
  BY DEF inferClampOp, If
<1>3. /\ verifyCompatibleShape(aa, u) \/ Rank(aa) = 0
      /\ verifyCompatibleShape(bb, u) \/ Rank(bb) = 0
  BY <1>1, <1>2, ShapesStayCompatible
<1>4. inferClampOp(aa, u, bb) = <<u>>
  BY <1>3 DEF inferClampOp, If
<1> QED
  BY <1>2, <1>4, SharperOne

LEMMA CholeskySharpens ==
  ASSUME NEW t, NEW u, SharperType(t, u), inferCholeskyOp(t) # Failure
  PROVE  SharperTypes(inferCholeskyOp(t), inferCholeskyOp(u))
<1>1. Rank(t) = Rank(u) /\ Rank(u) \in Nat
  BY SharperDims
<1>2. /\ Rank(t) >= 2 /\ verifyCompatibleDims(SizeAt(t, Rank(t) - 2), SizeAt(t, Rank(t) - 1))
      /\ inferCholeskyOp(t) = <<t>>
  BY DEF inferCholeskyOp, If
<1>3. verifyCompatibleDims(SizeAt(u, Rank(u) - 2), SizeAt(u, Rank(u) - 1))
  BY <1>1, <1>2, SizesStayCompatible
<1>4. inferCholeskyOp(u) = <<u>>
  BY <1>1, <1>2, <1>3 DEF inferCholeskyOp, If
<1> QED
  BY <1>2, <1>4, SharperOne

LEMMA TriangularSolveSharpens ==
  ASSUME NEW t, NEW u, SharperType(t, u), NEW b, NEW bb, SharperType(b, bb), NEW left,
         inferTriangularSolveOp(t, b, left, FALSE) # Failure
  PROVE  SharperTypes(inferTriangularSolveOp(t, b, left, FALSE),
                      inferTriangularSolveOp(u, bb, left, FALSE))
<1>1. Rank(t) = Rank(u) /\ Rank(u) \in Nat /\ Rank(b) = Rank(bb)
  BY SharperDims
<1>2. PICK r \in Nat : r = Rank(u)
  BY <1>1
<1>3. PICK m : m = IF left THEN 2 ELSE 1
  OBVIOUS
<1>4. /\ r >= 2 /\ verifyCompatibleDims(SizeAt(t, r - 2), SizeAt(t, r - 1))
      /\ r = Rank(b)
      /\ verifyCompatibleDims(SizeAt(t, r - 1), SizeAt(b, r - m))
      /\ \A d \in 0..(r - 3) : verifyCompatibleDims(SizeAt(t, d), SizeAt(b, d))
      /\ inferTriangularSolveOp(t, b, left, FALSE) = <<b>>
  BY <1>1, <1>2, <1>3 DEF inferTriangularSolveOp, If
<1>5. verifyCompatibleDims(SizeAt(u, r - 2), SizeAt(u, r - 1))
  <2>1. PICK d \in Int : d = r - 2
    BY <1>2
  <2>2. PICK e \in Int : e = r - 1
    BY <1>2
  <2>3. 0 <= d /\ d < Rank(u) /\ 0 <= e /\ e < Rank(u)
    BY <1>2, <1>4, <2>1, <2>2
  <2> QED
    BY <1>4, <2>1, <2>2, <2>3, SizesStayCompatible
<1>6. verifyCompatibleDims(SizeAt(u, r - 1), SizeAt(bb, r - m))
  <2>1. PICK d \in Int : d = r - 1
    BY <1>2
  <2>2. PICK e \in Int : e = r - m
    BY <1>3
  <2>3. 0 <= d /\ d < Rank(u) /\ 0 <= e /\ e < Rank(bb)
    BY <1>1, <1>2, <1>3, <1>4, <2>1, <2>2
  <2> QED
    BY <1>4, <2>1, <2>2, <2>3, SizesStayCompatible
<1>7. ASSUME NEW d \in 0..(r - 3) PROVE verifyCompatibleDims(SizeAt(u, d), SizeAt(bb, d))
  <2>1. d \in Int /\ 0 <= d /\ d < Rank(u) /\ d < Rank(bb)
    BY <1>1, <1>2, <1>4
  <2>2. verifyCompatibleDims(SizeAt(t, d), SizeAt(b, d))
    BY <1>4
  <2> QED
    BY <2>1, <2>2, SizesStayCompatible
<1>8. inferTriangularSolveOp(u, bb, left, FALSE) = <<bb>>
  BY <1>1, <1>2, <1>3, <1>4, <1>5, <1>6, <1>7 DEF inferTriangularSolveOp, If
<1> QED
  BY <1>4, <1>8, SharperOne

LEMMA DynamicUpdateSliceSharpens ==
  ASSUME NEW t, NEW u, SharperType(t, u), NEW a, NEW aa, SharperType(a, aa),
         NEW ts, NEW us, SharperTypes(ts, us), inferDynamicUpdateSliceOp(t, a, ts) # Failure
  PROVE  SharperTypes(inferDynamicUpdateSliceOp(t, a, ts), inferDynamicUpdateSliceOp(u, aa, us))
<1>1. /\ Rank(t) = Rank(u) /\ Rank(u) \in Nat /\ Rank(a) = Rank(aa) /\ Len(ts) = Len(us)
      /\ DOMAIN a.dims = 1..Rank(aa) /\ DOMAIN aa.dims = 1..Rank(aa)
  BY SharperDims, SharperTypesFacts
<1>2. /\ Rank(a) = Rank(t) /\ Len(ts) = Rank(t) /\ tensorsHaveSameElType(ts, TRUE)
      /\ \A i \in DOMAIN a.dims :
            \/ isDynamicDimSize(a.dims[i].size) \/ isDynamicDimSize(t.dims[i].size)
            \/ a.dims[i].size <= t.dims[i].size
      /\ inferDynamicUpdateSliceOp(t, a, ts) = <<t>>
  BY DEF inferDynamicUpdateSliceOp, If
<1>3. tensorsHaveSameElType(us, TRUE)
  BY <1>2, ElementTypesAgree
<1>4. ASSUME NEW i \in DOMAIN aa.dims
      PROVE  \/ isDynamicDimSize(aa.dims[i].size) \/ isDynamicDimSize(u.dims[i].size)
             \/ aa.dims[i].size <= u.dims[i].size
  <2>1. isDynamicDimSize(aa.dims[i].size) \/ aa.dims[i].size = a.dims[i].size
    BY <1>1, SharperDims, SizeKept
  <2>2. isDynamicDimSize(u.dims[i].size) \/ u.dims[i].size = t.dims[i].size
    <3>1. i \in 1..Rank(u)
      BY <1>1, <1>2
    <3> QED
      BY <3>1, SharperDims, SizeKept
  <2> QED
    BY <1>1, <1>2, <2>1, <2>2
<1>5. inferDynamicUpdateSliceOp(u, aa, us) = <<u>>
  BY <1>1, <1>2, <1>3, <1>4 DEF inferDynamicUpdateSliceOp, If
<1> QED
  BY <1>2, <1>5, SharperOne

LEMMA TransposeSharpens ==
  ASSUME NEW t, NEW u, SharperType(t, u), NEW perm \in Seq(Int), inferTransposeOp(t, perm) # Failure
  PROVE  SharperTypes(inferTransposeOp(t, perm), inferTransposeOp(u, perm))
<1>1. Rank(t) = Rank(u) /\ Rank(u) \in Nat
  BY SharperDims
<1>2. Len(perm) = Rank(u) /\ SeqToSet(perm) = 0..(Rank(u) - 1)
  BY <1>1 DEF inferTransposeOp, If
<1>3. DOMAIN perm = 1..Rank(u) /\ \A i \in 1..Rank(u) : perm[i] + 1 \in 1..Rank(u)
  BY <1>1, <1>2 DEF SeqToSet
<1>4. PICK ds : ds = [i \in 1..Rank(u) |-> DimAt(t, perm[i])]
  OBVIOUS
<1>5. PICK es : es = [i \in 1..Rank(u) |-> DimAt(u, perm[i])]
  OBVIOUS
<1>6. /\ inferTransposeOp(t, perm) = <<[t EXCEPT !.dims = ds]>>
      /\ inferTransposeOp(u, perm) = <<[u EXCEPT !.dims = es]>>
  BY <1>1, <1>2, <1>3, <1>4, <1>5 DEF inferTransposeOp, If
<1>7. [t EXCEPT !.dims = ds] = [et |-> t.et, dims |-> ds] /\ [u EXCEPT !.dims = es] = [et |-> t.et, dims |-> es]
  <2>1. /\ t = [et |-> t.et, dims |-> t.dims] /\ u = [et |-> t.et, dims |-> u.dims]
    BY DEF SharperType, IsType
  <2> QED
    BY <2>1
<1>8. ASSUME NEW i \in 1..Rank(u)
      PROVE  WellFormed(ds[i]) /\ WellFormed(es[i]) /\ DimRefines(ds[i], es[i])
  <2>1. PICK j \in 1..Rank(u) : j = perm[i] + 1
    BY <1>3
  <2>2. ds[i] = t.dims[j] /\ es[i] = u.dims[j]
    BY <1>4, <1>5, <2>1 DEF DimAt
  <2>3. WellFormed(t.dims[j]) /\ WellFormed(u.dims[j]) /\ DimRefines(t.dims[j], u.dims[j])
    BY SharperDims
  <2> QED
    BY <2>2, <2>3
<1>9. SharperType([et |-> t.et, dims |-> ds], [et |-> t.et, dims |-> es])
  BY <1>1, <1>4, <1>5, <1>8, SharperByDims
<1> QED
  BY <1>6, <1>7, <1>9, SharperOne

LEMMA DivNat ==
  ASSUME NEW n \in Nat, NEW k \in Nat \ {0}
  PROVE  n \div k \in Nat
OBVIOUS

LEMMA DivMonotone ==
  ASSUME NEW m \in Nat, NEW n \in Nat, m <= n, NEW k \in Nat \ {0}
  PROVE  m \div k <= n \div k
OBVIOUS

LEMMA TimesMonotone ==
  ASSUME NEW m \in Nat, NEW n \in Nat, m <= n, NEW k \in Nat
  PROVE  m * k \in Nat /\ n * k \in Nat /\ m * k <= n * k
OBVIOUS

\* A type of known sizes is as sharp as itself.
LEMMA SharperTensor ==
  ASSUME NEW et, NEW sizes \in Seq(Nat)
  PROVE  SharperType(Tensor(et, sizes), Tensor(et, sizes))
<1>1. PICK ds : ds = [i \in DOMAIN sizes |-> Dim(sizes[i])]
  OBVIOUS
<1>2. PICK n \in Nat : DOMAIN sizes = 1..n
  OBVIOUS
<1>3. \A i \in 1..n : WellFormed(ds[i]) /\ DimRefines(ds[i], ds[i])
  BY <1>1, <1>2 DEF WellFormed, DimType, Size, DimRefines
<1>4. ds = [i \in 1..n |-> ds[i]]
  BY <1>1, <1>2
<1>5. SharperType([et |-> et, dims |-> ds], [et |-> et, dims |-> ds])
  BY <1>3, <1>4, SharperByDims
<1> QED
  BY <1>1, <1>5 DEF Tensor

\* Sizes without bounds, after sizes that are attributes.
LEMMA SharperSizes ==
  ASSUME NEW t, NEW u, SharperType(t, u), NEW et, NEW first \in Seq(Int),
         \A i \in DOMAIN first : first[i] >= 0
  PROVE  SharperType(Tensor(et, first \o Sizes(t)), Tensor(et, first \o Sizes(u)))
<1>1. /\ Rank(u) \in Nat /\ DOMAIN t.dims = 1..Rank(u) /\ DOMAIN u.dims = 1..Rank(u)
  BY SharperDims
<1>2. PICK s : s = Sizes(t)
  OBVIOUS
<1>3. PICK r : r = Sizes(u)
  OBVIOUS
<1>4. PICK m \in Nat : m = Len(first)
  OBVIOUS
<1>5. ASSUME NEW i \in 1..Rank(u)
      PROVE  /\ s[i] \in Size /\ r[i] \in Size
             /\ isDynamicDimSize(r[i]) \/ r[i] = s[i]
  <2>1. WellFormed(t.dims[i]) /\ WellFormed(u.dims[i]) /\ DimRefines(t.dims[i], u.dims[i])
    BY SharperDims
  <2>2. s[i] = t.dims[i].size /\ r[i] = u.dims[i].size
    BY <1>1, <1>2, <1>3 DEF Sizes
  <2>3. t.dims[i].size \in Size /\ u.dims[i].size \in Size
    BY <2>1 DEF WellFormed, DimType
  <2> QED
    BY <2>1, <2>2, <2>3, SizeKept
<1>6. s \in [1..Rank(u) -> Size] /\ r \in [1..Rank(u) -> Size]
  <2>1. s = [i \in 1..Rank(u) |-> s[i]] /\ r = [i \in 1..Rank(u) |-> r[i]]
    BY <1>1, <1>2, <1>3 DEF Sizes
  <2> QED
    BY <1>5, <2>1
<1>7. s \in Seq(Size) /\ r \in Seq(Size) /\ first \in Seq(Size) /\ Len(s) = Rank(u) /\ Len(r) = Rank(u)
  <2>1. \A i \in DOMAIN first : first[i] \in Nat
    OBVIOUS
  <2>2. first \in [1..m -> Size]
    BY <1>4, <2>1 DEF Size
  <2>3. \A n \in Nat : \A f \in [1..n -> Size] : f \in Seq(Size) /\ Len(f) = n
    OBVIOUS
  <2> QED
    BY <1>1, <1>6, <2>2, <2>3
<1>8. PICK a : a = first \o s
  OBVIOUS
<1>9. PICK b : b = first \o r
  OBVIOUS
<1>10. PICK n \in Nat : n = m + Rank(u)
  BY <1>1
<1>11. /\ DOMAIN a = 1..n /\ DOMAIN b = 1..n
       /\ \A i \in 1..n : isDynamicDimSize(b[i]) \/ b[i] = a[i]
  BY <1>4, <1>5, <1>7, <1>8, <1>9, <1>10
<1>12. PICK ds : ds = [i \in 1..n |-> Dim(a[i])]
  OBVIOUS
<1>13. PICK es : es = [i \in 1..n |-> Dim(b[i])]
  OBVIOUS
<1>14. ASSUME NEW i \in 1..n
       PROVE  WellFormed(ds[i]) /\ WellFormed(es[i]) /\ DimRefines(ds[i], es[i])
  <2>1. a[i] \in Size /\ b[i] \in Size
    <3>1. a \in Seq(Size) /\ b \in Seq(Size)
      BY <1>7, <1>8, <1>9
    <3> QED
      BY <1>11, <3>1
  <2>2. ds[i] = Dim(a[i]) /\ es[i] = Dim(b[i])
    BY <1>12, <1>13
  <2>3. isDynamicDimSize(b[i]) \/ b[i] = a[i]
    BY <1>11
  <2> QED
    BY <2>1, <2>2, <2>3 DEF WellFormed, DimType, Size, DimRefines, Admits
<1>15. SharperType([et |-> et, dims |-> ds], [et |-> et, dims |-> es])
  BY <1>12, <1>13, <1>14, SharperByDims
<1> QED
  BY <1>2, <1>3, <1>8, <1>9, <1>11, <1>12, <1>13, <1>15 DEF Tensor

LEMMA BroadcastSharpens ==
  ASSUME NEW t, NEW u, SharperType(t, u), NEW sizes \in Seq(Int), inferBroadcastOp(t, sizes) # Failure
  PROVE  SharperTypes(inferBroadcastOp(t, sizes), inferBroadcastOp(u, sizes))
<1>1. /\ \A i \in DOMAIN sizes : sizes[i] >= 0
      /\ t.et = u.et
  BY DEF inferBroadcastOp, If, SharperType
<1>2. SharperType(Tensor(t.et, sizes \o Sizes(t)), Tensor(t.et, sizes \o Sizes(u)))
  BY <1>1, SharperSizes
<1>3. /\ inferBroadcastOp(t, sizes) = <<Tensor(t.et, sizes \o Sizes(t))>>
      /\ inferBroadcastOp(u, sizes) = <<Tensor(t.et, sizes \o Sizes(u))>>
  BY <1>1 DEF inferBroadcastOp, If
<1> QED
  BY <1>2, <1>3, SharperOne

\* The sizes of the operand without its bounds.
LEMMA SizesSharpen ==
  ASSUME NEW t, NEW u, SharperType(t, u), NEW et
  PROVE  SharperTypes(<<Tensor(et, Sizes(t))>>, <<Tensor(et, Sizes(u))>>)
<1>1. PICK none : none = << >>
  OBVIOUS
<1>2. none \in Seq(Int) /\ \A i \in DOMAIN none : none[i] >= 0
  BY <1>1
<1>3. SharperType(Tensor(et, none \o Sizes(t)), Tensor(et, none \o Sizes(u)))
  BY <1>2, SharperSizes
<1>4. \A n \in Nat : \A f : f = [i \in 1..n |-> f[i]] => none \o f = f
  BY <1>1
<1>5. none \o Sizes(t) = Sizes(t) /\ none \o Sizes(u) = Sizes(u)
  <2>1. Rank(u) \in Nat /\ DOMAIN t.dims = 1..Rank(u) /\ DOMAIN u.dims = 1..Rank(u)
    BY SharperDims
  <2>2. /\ Sizes(t) = [i \in 1..Rank(u) |-> Sizes(t)[i]]
        /\ Sizes(u) = [i \in 1..Rank(u) |-> Sizes(u)[i]]
    BY <2>1 DEF Sizes
  <2> QED
    BY <1>4, <2>1, <2>2
<1> QED
  BY <1>3, <1>5, SharperOne

LEMMA DynamicSliceSharpens ==
  ASSUME NEW t, NEW u, SharperType(t, u), NEW ts, NEW us, SharperTypes(ts, us),
         NEW sizes \in Seq(Int), inferDynamicSliceOp(t, ts, sizes) # Failure
  PROVE  SharperTypes(inferDynamicSliceOp(t, ts, sizes), inferDynamicSliceOp(u, us, sizes))
<1>1. /\ Rank(t) = Rank(u) /\ Rank(u) \in Nat /\ Len(ts) = Len(us) /\ t.et = u.et
  BY SharperDims, SharperTypesFacts
<1>2. /\ Len(ts) = Len(sizes) /\ Rank(t) = Len(ts) /\ tensorsHaveSameElType(ts, TRUE)
      /\ \A i \in DOMAIN sizes :
            /\ sizes[i] >= 0
            /\ isDynamicDimSize(t.dims[i].size) \/ sizes[i] <= t.dims[i].size
      /\ inferDynamicSliceOp(t, ts, sizes) = <<Tensor(t.et, sizes)>>
  BY DEF inferDynamicSliceOp, If
<1>3. tensorsHaveSameElType(us, TRUE)
  BY <1>2, ElementTypesAgree
<1>4. ASSUME NEW i \in DOMAIN sizes
      PROVE  isDynamicDimSize(u.dims[i].size) \/ sizes[i] <= u.dims[i].size
  <2>1. i \in 1..Rank(u)
    BY <1>1, <1>2
  <2>2. isDynamicDimSize(u.dims[i].size) \/ u.dims[i].size = t.dims[i].size
    BY <2>1, SharperDims, SizeKept
  <2>3. isDynamicDimSize(t.dims[i].size) \/ sizes[i] <= t.dims[i].size
    BY <1>2
  <2> QED
    BY <2>2, <2>3
<1>5. inferDynamicSliceOp(u, us, sizes) = <<Tensor(t.et, sizes)>>
  BY <1>1, <1>2, <1>3, <1>4 DEF inferDynamicSliceOp, If
<1>6. sizes \in Seq(Nat)
  <2>1. \A i \in DOMAIN sizes : sizes[i] \in Nat
    BY <1>2
  <2>2. PICK n \in Nat : DOMAIN sizes = 1..n
    OBVIOUS
  <2>3. sizes \in [1..n -> Nat]
    BY <2>1, <2>2
  <2> QED
    BY <2>3
<1> QED
  BY <1>2, <1>5, <1>6, SharperTensor, SharperOne

\* A size or, where it is unknown, its bound only grows when less is known.
Reach(d) == IF isStaticDimSize(d.size) THEN d.size ELSE d.bound

LEMMA ReachGrows ==
  ASSUME NEW d, WellFormed(d), NEW e, WellFormed(e), DimRefines(d, e)
  PROVE  \/ isDynamicDimSize(Reach(e))
         \/ Reach(d) \in Nat /\ Reach(e) \in Nat /\ Reach(d) <= Reach(e)
BY DEF Reach, WellFormed, DimType, Size, DimRefines, Admits

LEMMA SliceSharpens ==
  ASSUME NEW t, NEW u, SharperType(t, u), NEW start \in Seq(Int), NEW limit \in Seq(Int),
         NEW strides \in Seq(Int), Len(limit) = Len(start), Len(strides) = Len(start),
         inferSliceOp(t, start, limit, strides) # Failure
  PROVE  SharperTypes(inferSliceOp(t, start, limit, strides), inferSliceOp(u, start, limit, strides))
<1> DEFINE Count(i) == (limit[i] - start[i] + strides[i] - 1) \div strides[i]
<1>1. Rank(t) = Rank(u) /\ Rank(u) \in Nat /\ t.et = u.et
  BY SharperDims
<1>2. /\ Len(start) = Rank(t)
      /\ \A i \in DOMAIN start :
            /\ start[i] >= 0
            /\ isDynamicDimSize(Reach(t.dims[i])) \/ limit[i] <= Reach(t.dims[i])
            /\ start[i] <= limit[i] /\ strides[i] > 0
      /\ inferSliceOp(t, start, limit, strides) = <<Tensor(t.et, [i \in DOMAIN start |-> Count(i)])>>
  BY DEF inferSliceOp, If, Reach
<1>3. ASSUME NEW i \in DOMAIN start
      PROVE  isDynamicDimSize(Reach(u.dims[i])) \/ limit[i] <= Reach(u.dims[i])
  <2>1. i \in 1..Rank(u)
    BY <1>1, <1>2
  <2>2. WellFormed(t.dims[i]) /\ WellFormed(u.dims[i]) /\ DimRefines(t.dims[i], u.dims[i])
    BY <2>1, SharperDims
  <2>3. \/ isDynamicDimSize(Reach(u.dims[i]))
        \/ /\ Reach(t.dims[i]) \in Nat /\ Reach(u.dims[i]) \in Nat
           /\ Reach(t.dims[i]) <= Reach(u.dims[i])
    BY <2>2, ReachGrows
  <2>4. isDynamicDimSize(Reach(t.dims[i])) \/ limit[i] <= Reach(t.dims[i])
    BY <1>2
  <2>5. limit[i] \in Int
    BY <1>1, <1>2
  <2> QED
    BY <2>3, <2>4, <2>5
<1>4. inferSliceOp(u, start, limit, strides) = <<Tensor(t.et, [i \in DOMAIN start |-> Count(i)])>>
  BY <1>1, <1>2, <1>3 DEF inferSliceOp, If, Reach
<1>5. ASSUME NEW i \in DOMAIN start PROVE Count(i) \in Nat
  <2>1. PICK n \in Nat : n = limit[i] - start[i] + strides[i] - 1
    BY <1>1, <1>2
  <2>2. strides[i] \in Nat \ {0}
    BY <1>1, <1>2
  <2>3. n \div strides[i] \in Nat
    BY <2>2, DivNat
  <2> QED
    BY <2>1, <2>3
<1>6. [i \in DOMAIN start |-> Count(i)] \in Seq(Nat)
  <2>1. DOMAIN start = 1..Rank(u)
    BY <1>1, <1>2
  <2> HIDE DEF Count
  <2>2. [i \in DOMAIN start |-> Count(i)] \in [1..Rank(u) -> Nat]
    BY <1>5, <2>1
  <2> QED
    BY <1>1, <2>2
<1>7. SharperType(Tensor(t.et, [i \in DOMAIN start |-> Count(i)]), Tensor(t.et, [i \in DOMAIN start |-> Count(i)]))
  BY <1>6, SharperTensor
<1> QED
  BY <1>2, <1>4, <1>7, SharperOne

PaddedSize(n, low, high, interior) == n + low + high + Max({n - 1, 0}) * interior

LEMMA PaddedSizeGrows ==
  ASSUME NEW m \in Nat, NEW n \in Nat, m <= n, NEW low \in Int, NEW high \in Int,
         NEW interior \in Nat
  PROVE  /\ PaddedSize(m, low, high, interior) \in Int /\ PaddedSize(n, low, high, interior) \in Int
         /\ PaddedSize(m, low, high, interior) <= PaddedSize(n, low, high, interior)
<1>1. PICK a \in Nat : a = IF m - 1 >= 0 THEN m - 1 ELSE 0
  OBVIOUS
<1>2. PICK b \in Nat : b = IF n - 1 >= 0 THEN n - 1 ELSE 0
  OBVIOUS
<1>3. Max({m - 1, 0}) = a /\ Max({n - 1, 0}) = b
  BY <1>1, <1>2, MaxOfTwo
<1>4. a * interior \in Nat /\ b * interior \in Nat /\ a * interior <= b * interior
  BY <1>1, <1>2, TimesMonotone
<1>5. PICK x \in Nat : x = a * interior
  BY <1>4
<1>6. PICK y \in Nat : y = b * interior
  BY <1>4
<1>7. x <= y
  BY <1>4, <1>5, <1>6
<1>8. PaddedSize(m, low, high, interior) = m + low + high + x /\ PaddedSize(n, low, high, interior) = n + low + high + y
  BY <1>3, <1>5, <1>6 DEF PaddedSize
<1> QED
  BY <1>7, <1>8

PaddedDim(d, low, high, interior) ==
  CASE isStaticDimSize(d.size) -> Dim(PaddedSize(d.size, low, high, interior))
    [] isStaticDimSize(d.bound) -> BoundedDim(PaddedSize(d.bound, low, high, interior))
    [] OTHER -> Dim(kDynamic)
PaddingFits(d, low, high, interior) ==
  isDynamicDimSize(Reach(d)) \/ PaddedSize(Reach(d), low, high, interior) >= 0

LEMMA PaddedDimSharpens ==
  ASSUME NEW d, WellFormed(d), NEW e, WellFormed(e), DimRefines(d, e),
         NEW low \in Int, NEW high \in Int, NEW interior \in Nat, PaddingFits(d, low, high, interior)
  PROVE  /\ PaddingFits(e, low, high, interior)
         /\ WellFormed(PaddedDim(d, low, high, interior)) /\ WellFormed(PaddedDim(e, low, high, interior))
         /\ DimRefines(PaddedDim(d, low, high, interior), PaddedDim(e, low, high, interior))
<1> DEFINE P(n) == PaddedSize(n, low, high, interior)
<1>1. \A m, n \in Nat : m <= n => P(m) \in Int /\ P(n) \in Int /\ P(m) <= P(n)
  BY PaddedSizeGrows
<1>2. Reach(d) \in Size /\ Reach(e) \in Size
  BY DEF Reach, WellFormed, DimType
<1> HIDE DEF P
<1>3. PaddingFits(d, low, high, interior) <=> isDynamicDimSize(Reach(d)) \/ P(Reach(d)) >= 0
  BY DEF PaddingFits, P
<1>4. PaddingFits(e, low, high, interior) <=> isDynamicDimSize(Reach(e)) \/ P(Reach(e)) >= 0
  BY DEF PaddingFits, P
<1>5. PaddingFits(e, low, high, interior)
  BY <1>1, <1>3, <1>4, ReachGrows
<1>6. ASSUME NEW x, WellFormed(x)
      PROVE  PaddedDim(x, low, high, interior) =
               IF isStaticDimSize(x.size) THEN Dim(P(x.size))
               ELSE IF isStaticDimSize(x.bound) THEN BoundedDim(P(x.bound)) ELSE Dim(kDynamic)
  <2>1. isDynamicDimSize(x.size) \/ isDynamicDimSize(x.bound)
    BY <1>6 DEF WellFormed
  <2> QED
    BY <2>1 DEF PaddedDim, P
<1>7. ASSUME NEW x, WellFormed(x), isDynamicDimSize(Reach(x)) \/ P(Reach(x)) >= 0
      PROVE  WellFormed(PaddedDim(x, low, high, interior))
  BY <1>1, <1>6, <1>7 DEF WellFormed, DimType, Size, Reach
<1>8. DimRefines(PaddedDim(d, low, high, interior), PaddedDim(e, low, high, interior))
  <2>1. CASE d = e
    BY <2>1 DEF DimRefines
  <2>2. CASE isDynamicDimSize(e.size) /\ isDynamicDimSize(e.bound)
    BY <1>6, <2>2 DEF DimRefines
  <2>3. CASE isStaticDimSize(d.size) /\ Admits(e, d.size)
    <3>1. d.size \in Nat /\ e.bound \in Size /\ e.size \in Size /\ P(d.size) >= 0 /\ P(d.size) \in Int
      BY <1>1, <1>3, <2>3 DEF WellFormed, DimType, Size, Reach
    <3>2. CASE e.size = d.size
      BY <1>6, <2>3, <3>1, <3>2 DEF DimRefines, Admits
    <3>3. CASE isDynamicDimSize(e.size) /\ isStaticDimSize(e.bound) /\ d.size <= e.bound
      <4>1. e.bound \in Nat /\ P(d.size) <= P(e.bound)
        BY <1>1, <3>1, <3>3 DEF Size
      <4>2. /\ PaddedDim(d, low, high, interior) = Dim(P(d.size))
            /\ PaddedDim(e, low, high, interior) = BoundedDim(P(e.bound))
        BY <1>6, <2>3, <3>3
      <4> QED
        BY <3>1, <4>1, <4>2 DEF DimRefines, Admits
    <3> QED
      BY <2>2, <2>3, <3>2, <3>3 DEF Admits
  <2>4. CASE /\ isDynamicDimSize(d.size) /\ isDynamicDimSize(e.size)
             /\ isStaticDimSize(d.bound) /\ isStaticDimSize(e.bound) /\ d.bound <= e.bound
    <3>1. d.bound \in Nat /\ e.bound \in Nat
      BY <2>4 DEF WellFormed, DimType, Size
    <3>2. P(d.bound) <= P(e.bound) /\ P(d.bound) >= 0 /\ P(d.bound) \in Int
      BY <1>1, <1>3, <2>4, <3>1 DEF Reach
    <3>3. /\ PaddedDim(d, low, high, interior) = BoundedDim(P(d.bound))
          /\ PaddedDim(e, low, high, interior) = BoundedDim(P(e.bound))
      BY <1>6, <2>4
    <3> QED
      BY <3>2, <3>3 DEF DimRefines
  <2> QED
    BY <2>1, <2>2, <2>3, <2>4 DEF DimRefines
<1> QED
  BY <1>3, <1>4, <1>5, <1>7, <1>8

LEMMA PadSharpens ==
  ASSUME NEW t, NEW u, SharperType(t, u), NEW low \in Seq(Int), NEW high \in Seq(Int),
         NEW interior \in Seq(Int), Len(high) = Len(low), Len(interior) = Len(low),
         inferPadOp(t, low, high, interior) # Failure
  PROVE  SharperTypes(inferPadOp(t, low, high, interior), inferPadOp(u, low, high, interior))
<1>1. /\ Rank(t) = Rank(u) /\ Rank(u) \in Nat /\ t.et = u.et
      /\ DOMAIN t.dims = 1..Rank(u) /\ DOMAIN u.dims = 1..Rank(u)
  BY SharperDims
<1>2. PICK ds : ds = [i \in 1..Rank(u) |-> PaddedDim(t.dims[i], low[i], high[i], interior[i])]
  OBVIOUS
<1>3. PICK es : es = [i \in 1..Rank(u) |-> PaddedDim(u.dims[i], low[i], high[i], interior[i])]
  OBVIOUS
<1>4. /\ Len(low) = Rank(u)
      /\ \A i \in 1..Rank(u) : /\ interior[i] >= 0
                               /\ PaddingFits(t.dims[i], low[i], high[i], interior[i])
      /\ inferPadOp(t, low, high, interior) = <<[et |-> t.et, dims |-> ds]>>
  BY <1>1, <1>2 DEF inferPadOp, If, PaddedDim, PaddingFits, PaddedSize, Reach
<1>5. ASSUME NEW i \in 1..Rank(u)
      PROVE  /\ PaddingFits(u.dims[i], low[i], high[i], interior[i])
             /\ WellFormed(ds[i]) /\ WellFormed(es[i]) /\ DimRefines(ds[i], es[i])
  <2>1. WellFormed(t.dims[i]) /\ WellFormed(u.dims[i]) /\ DimRefines(t.dims[i], u.dims[i])
    BY SharperDims
  <2>2. low[i] \in Int /\ high[i] \in Int /\ interior[i] \in Nat
    BY <1>1, <1>4
  <2>3. PaddingFits(t.dims[i], low[i], high[i], interior[i])
    BY <1>4
  <2>4. /\ ds[i] = PaddedDim(t.dims[i], low[i], high[i], interior[i])
        /\ es[i] = PaddedDim(u.dims[i], low[i], high[i], interior[i])
    BY <1>2, <1>3
  <2> QED
    BY <2>1, <2>2, <2>3, <2>4, PaddedDimSharpens
<1>6. inferPadOp(u, low, high, interior) = <<[et |-> t.et, dims |-> es]>>
  BY <1>1, <1>3, <1>4, <1>5 DEF inferPadOp, If, PaddedDim, PaddingFits, PaddedSize, Reach
<1>7. SharperType([et |-> t.et, dims |-> ds], [et |-> t.et, dims |-> es])
  BY <1>1, <1>2, <1>3, <1>5, SharperByDims
<1> QED
  BY <1>4, <1>6, <1>7, SharperOne

\* The dimensions of two types, one at least as specific as the other.
SharperDimensions(n, ds, es) ==
  /\ ds = [i \in 1..n |-> ds[i]] /\ es = [i \in 1..n |-> es[i]]
  /\ \A i \in 1..n : WellFormed(ds[i]) /\ WellFormed(es[i]) /\ DimRefines(ds[i], es[i])

LEMMA OneDimSharpens ==
  ASSUME NEW n \in Nat, NEW ds, NEW es, SharperDimensions(n, ds, es), NEW j \in 1..n,
         NEW d, WellFormed(d), NEW e, WellFormed(e), DimRefines(d, e)
  PROVE  SharperDimensions(n, [ds EXCEPT ![j] = d], [es EXCEPT ![j] = e])
<1>1. PICK xs : xs = [ds EXCEPT ![j] = d]
  OBVIOUS
<1>2. PICK ys : ys = [es EXCEPT ![j] = e]
  OBVIOUS
<1>3. DOMAIN ds = 1..n /\ DOMAIN es = 1..n
  BY DEF SharperDimensions
<1>4. \A i \in 1..n : xs[i] = (IF i = j THEN d ELSE ds[i]) /\ ys[i] = (IF i = j THEN e ELSE es[i])
  BY <1>1, <1>2, <1>3
<1>5. xs = [i \in 1..n |-> xs[i]] /\ ys = [i \in 1..n |-> ys[i]]
  BY <1>1, <1>2, <1>3
<1>6. \A i \in 1..n : WellFormed(xs[i]) /\ WellFormed(ys[i]) /\ DimRefines(xs[i], ys[i])
  BY <1>4 DEF SharperDimensions
<1> QED
  BY <1>1, <1>2, <1>5, <1>6 DEF SharperDimensions

SplitSize(n, k) == IF isStaticDimSize(n) THEN n \div k ELSE n
JoinSize(n, k) == IF isStaticDimSize(n) THEN n * k ELSE n
SplitDim(d, k) == [size |-> SplitSize(d.size, k), bound |-> SplitSize(d.bound, k)]
JoinDim(d, k) == [size |-> JoinSize(d.size, k), bound |-> JoinSize(d.bound, k)]

\* A function on sizes that keeps them in order, applied to sizes and bounds.
LEMMA SplitDimSharpens ==
  ASSUME NEW d, WellFormed(d), NEW e, WellFormed(e), DimRefines(d, e), NEW k \in Nat \ {0}
  PROVE  WellFormed(SplitDim(d, k)) /\ WellFormed(SplitDim(e, k)) /\ DimRefines(SplitDim(d, k), SplitDim(e, k))
<1> DEFINE P(n) == SplitSize(n, k)
<1>1. P(kDynamic) = kDynamic
  BY DEF SplitSize
<1>2. ASSUME NEW n \in Nat PROVE P(n) \in Nat
  BY DivNat DEF SplitSize
<1>3. ASSUME NEW m \in Nat, NEW n \in Nat, m <= n PROVE P(m) <= P(n)
  <2>1. P(m) = m \div k /\ P(n) = n \div k
    BY DEF SplitSize
  <2> QED
    BY <1>3, <2>1, DivMonotone
<1>4. \A x : SplitDim(x, k) = [size |-> P(x.size), bound |-> P(x.bound)]
  BY DEF SplitDim
<1> HIDE DEF P
<1> QED
  BY <1>1, <1>2, <1>3, <1>4 DEF WellFormed, DimType, Size, DimRefines, Admits

LEMMA JoinDimSharpens ==
  ASSUME NEW d, WellFormed(d), NEW e, WellFormed(e), DimRefines(d, e), NEW k \in Nat \ {0}
  PROVE  WellFormed(JoinDim(d, k)) /\ WellFormed(JoinDim(e, k)) /\ DimRefines(JoinDim(d, k), JoinDim(e, k))
<1> DEFINE P(n) == JoinSize(n, k)
<1>1. P(kDynamic) = kDynamic
  BY DEF JoinSize
<1>2. ASSUME NEW n \in Nat PROVE P(n) \in Nat
  BY DEF JoinSize
<1>3. ASSUME NEW m \in Nat, NEW n \in Nat, m <= n PROVE P(m) <= P(n)
  <2>1. P(m) = m * k /\ P(n) = n * k
    BY DEF JoinSize
  <2> QED
    BY <1>3, <2>1, TimesMonotone
<1>4. \A x : JoinDim(x, k) = [size |-> P(x.size), bound |-> P(x.bound)]
  BY DEF JoinDim
<1> HIDE DEF P
<1> QED
  BY <1>1, <1>2, <1>3, <1>4 DEF WellFormed, DimType, Size, DimRefines, Admits

PartedDims(ds, split, k) == [ds EXCEPT ![split + 1] = SplitDim(ds[split + 1], k)]
JoinedDims(ds, concat, k) == [ds EXCEPT ![concat + 1] = JoinDim(ds[concat + 1], k)]
AllToAllDims(ds, split, concat, k) == JoinedDims(PartedDims(ds, split, k), concat, k)

LEMMA AllToAllDimsSharpen ==
  ASSUME NEW n \in Nat, NEW ds, NEW es, SharperDimensions(n, ds, es),
         NEW split \in Nat, split < n, NEW concat \in Nat, concat < n, NEW k \in Nat \ {0}
  PROVE  SharperDimensions(n, AllToAllDims(ds, split, concat, k), AllToAllDims(es, split, concat, k))
<1>1. PICK j \in 1..n : j = split + 1
  OBVIOUS
<1>2. PICK i \in 1..n : i = concat + 1
  OBVIOUS
<1>3. PICK xs : xs = [ds EXCEPT ![j] = SplitDim(ds[j], k)]
  OBVIOUS
<1>4. PICK ys : ys = [es EXCEPT ![j] = SplitDim(es[j], k)]
  OBVIOUS
<1>5. SharperDimensions(n, xs, ys)
  <2>1. WellFormed(ds[j]) /\ WellFormed(es[j]) /\ DimRefines(ds[j], es[j])
    BY DEF SharperDimensions
  <2>2. /\ WellFormed(SplitDim(ds[j], k)) /\ WellFormed(SplitDim(es[j], k))
        /\ DimRefines(SplitDim(ds[j], k), SplitDim(es[j], k))
    BY <2>1, SplitDimSharpens
  <2> QED
    BY <1>3, <1>4, <2>2, OneDimSharpens
<1>6. SharperDimensions(n, [xs EXCEPT ![i] = JoinDim(xs[i], k)], [ys EXCEPT ![i] = JoinDim(ys[i], k)])
  <2>1. WellFormed(xs[i]) /\ WellFormed(ys[i]) /\ DimRefines(xs[i], ys[i])
    BY <1>5 DEF SharperDimensions
  <2>2. /\ WellFormed(JoinDim(xs[i], k)) /\ WellFormed(JoinDim(ys[i], k))
        /\ DimRefines(JoinDim(xs[i], k), JoinDim(ys[i], k))
    BY <2>1, JoinDimSharpens
  <2> QED
    BY <1>5, <2>2, OneDimSharpens
<1>7. /\ AllToAllDims(ds, split, concat, k) = [xs EXCEPT ![i] = JoinDim(xs[i], k)]
      /\ AllToAllDims(es, split, concat, k) = [ys EXCEPT ![i] = JoinDim(ys[i], k)]
  BY <1>1, <1>2, <1>3, <1>4 DEF AllToAllDims, PartedDims, JoinedDims
<1> QED
  BY <1>6, <1>7

AllToAllType(t, split, concat, k) == [et |-> t.et, dims |-> AllToAllDims(t.dims, split, concat, k)]
AllToAllFits(t, split, concat, k) ==
  /\ split < Rank(t) /\ concat < Rank(t)
  /\ isDynamicDimSize(SizeAt(t, split)) \/ SizeAt(t, split) % k = 0

LEMMA AllToAllTypes ==
  ASSUME NEW ts, \A i \in DOMAIN ts : IsType(ts[i]), NEW split, NEW concat, NEW k, NEW groups
  PROVE  inferAllToAllOp(ts, split, concat, k, groups) =
           IF /\ verifyReplicaGroups(groups, TRUE, FALSE, k)
              /\ \A i \in DOMAIN ts : AllToAllFits(ts[i], split, concat, k)
           THEN [i \in DOMAIN ts |-> AllToAllType(ts[i], split, concat, k)]
           ELSE Failure
<1>1. ASSUME NEW i \in DOMAIN ts
      PROVE  [ts[i] EXCEPT !.dims = AllToAllDims(ts[i].dims, split, concat, k)] =
                AllToAllType(ts[i], split, concat, k)
  <2>1. ts[i] = [et |-> ts[i].et, dims |-> ts[i].dims]
    BY DEF IsType
  <2>2. \A v : [ts[i] EXCEPT !.dims = v] = [et |-> ts[i].et, dims |-> v]
    BY <2>1
  <2> QED
    BY <2>2 DEF AllToAllType
<1>2. [i \in DOMAIN ts |-> [ts[i] EXCEPT !.dims = AllToAllDims(ts[i].dims, split, concat, k)]] =
        [i \in DOMAIN ts |-> AllToAllType(ts[i], split, concat, k)]
  BY <1>1
<1>3. inferAllToAllOp(ts, split, concat, k, groups) =
           IF /\ verifyReplicaGroups(groups, TRUE, FALSE, k)
              /\ \A i \in DOMAIN ts : AllToAllFits(ts[i], split, concat, k)
           THEN [i \in DOMAIN ts |-> [ts[i] EXCEPT !.dims = AllToAllDims(ts[i].dims, split, concat, k)]]
           ELSE Failure
  BY DEF inferAllToAllOp, If, AllToAllFits, AllToAllDims, PartedDims, JoinedDims, SplitDim, JoinDim,
         SplitSize, JoinSize
<1> QED
  BY <1>2, <1>3

LEMMA AllToAllSharpens ==
  ASSUME NEW ts, NEW us, SharperTypes(ts, us), NEW split \in Nat, NEW concat \in Nat,
         NEW k \in Nat \ {0}, NEW groups, inferAllToAllOp(ts, split, concat, k, groups) # Failure
  PROVE  SharperTypes(inferAllToAllOp(ts, split, concat, k, groups),
                      inferAllToAllOp(us, split, concat, k, groups))
<1>1. /\ Len(us) \in Nat /\ DOMAIN ts = 1..Len(us) /\ DOMAIN us = 1..Len(us)
      /\ \A i \in 1..Len(us) : SharperType(ts[i], us[i])
  BY SharperTypesFacts
<1>2. (\A i \in DOMAIN ts : IsType(ts[i])) /\ \A i \in DOMAIN us : IsType(us[i])
  BY <1>1 DEF SharperType
<1>3. PICK xs : xs = [i \in 1..Len(us) |-> AllToAllType(ts[i], split, concat, k)]
  OBVIOUS
<1>4. PICK ys : ys = [i \in 1..Len(us) |-> AllToAllType(us[i], split, concat, k)]
  OBVIOUS
<1>5. /\ verifyReplicaGroups(groups, TRUE, FALSE, k)
      /\ \A i \in 1..Len(us) : AllToAllFits(ts[i], split, concat, k)
      /\ inferAllToAllOp(ts, split, concat, k, groups) = xs
  <2>1. inferAllToAllOp(ts, split, concat, k, groups) =
           IF /\ verifyReplicaGroups(groups, TRUE, FALSE, k)
              /\ \A i \in DOMAIN ts : AllToAllFits(ts[i], split, concat, k)
           THEN [i \in DOMAIN ts |-> AllToAllType(ts[i], split, concat, k)]
           ELSE Failure
    BY <1>2, AllToAllTypes
  <2> QED
    BY <1>1, <1>3, <2>1
<1>6. ASSUME NEW i \in 1..Len(us)
      PROVE  AllToAllFits(us[i], split, concat, k) /\ SharperType(xs[i], ys[i])
  <2>1. SharperType(ts[i], us[i]) /\ AllToAllFits(ts[i], split, concat, k)
    BY <1>1, <1>5
  <2>2. /\ Rank(ts[i]) = Rank(us[i]) /\ Rank(us[i]) \in Nat /\ ts[i].et = us[i].et
        /\ SharperDimensions(Rank(us[i]), ts[i].dims, us[i].dims)
    BY <2>1, SharperDims DEF SharperDimensions
  <2>3. split < Rank(us[i]) /\ concat < Rank(us[i])
    BY <2>1, <2>2 DEF AllToAllFits
  <2>4. isDynamicDimSize(SizeAt(us[i], split)) \/ SizeAt(us[i], split) = SizeAt(ts[i], split)
    BY <2>1, <2>3, SharperSizeAt
  <2>5. AllToAllFits(us[i], split, concat, k)
    BY <2>1, <2>3, <2>4 DEF AllToAllFits
  <2>6. PICK ds : ds = AllToAllDims(ts[i].dims, split, concat, k)
    OBVIOUS
  <2>7. PICK es : es = AllToAllDims(us[i].dims, split, concat, k)
    OBVIOUS
  <2>8. SharperDimensions(Rank(us[i]), ds, es)
    BY <2>2, <2>3, <2>6, <2>7, AllToAllDimsSharpen
  <2>9. SharperType([et |-> us[i].et, dims |-> ds], [et |-> us[i].et, dims |-> es])
    BY <2>2, <2>8, SharperByDims DEF SharperDimensions
  <2> QED
    BY <1>3, <1>4, <2>2, <2>5, <2>6, <2>7, <2>9 DEF AllToAllType
<1>7. inferAllToAllOp(us, split, concat, k, groups) = ys
  BY <1>1, <1>2, <1>4, <1>5, <1>6, AllToAllTypes
<1>8. xs = [i \in 1..Len(us) |-> xs[i]] /\ ys = [i \in 1..Len(us) |-> ys[i]]
  BY <1>3, <1>4
<1>9. SharperTypes(xs, ys)
  <2>1. PICK n \in Nat : n = Len(us)
    BY <1>1
  <2>2. \A i \in 1..n : SharperType(xs[i], ys[i])
    BY <1>6, <2>1
  <2> QED
    BY <1>8, <2>1, <2>2, SharperEach
<1> QED
  BY <1>5, <1>7, <1>9

LEMMA TwoAreSharper ==
  ASSUME NEW a, NEW b, WellFormed(a), WellFormed(b), DimRefines(a, b),
         NEW c, NEW d, WellFormed(c), WellFormed(d), DimRefines(c, d), NEW et
  PROVE  /\ SharperType([et |-> et, dims |-> << >>], [et |-> et, dims |-> << >>])
         /\ SharperType([et |-> et, dims |-> <<a>>], [et |-> et, dims |-> <<b>>])
         /\ SharperType([et |-> et, dims |-> <<a, c>>], [et |-> et, dims |-> <<b, d>>])
<1>1. SharperType([et |-> et, dims |-> << >>], [et |-> et, dims |-> << >>])
  <2>1. PICK ds : ds = << >>
    OBVIOUS
  <2>2. ds = [i \in 1..0 |-> ds[i]]
    BY <2>1
  <2>3. \A i \in 1..0 : WellFormed(ds[i]) /\ DimRefines(ds[i], ds[i])
    OBVIOUS
  <2> QED
    BY <2>1, <2>2, <2>3, SharperByDims
<1>2. SharperType([et |-> et, dims |-> <<a>>], [et |-> et, dims |-> <<b>>])
  <2>1. PICK ds : ds = <<a>>
    OBVIOUS
  <2>2. PICK es : es = <<b>>
    OBVIOUS
  <2>3. ds = [i \in 1..1 |-> ds[i]] /\ es = [i \in 1..1 |-> es[i]]
    BY <2>1, <2>2
  <2>4. \A i \in 1..1 : WellFormed(ds[i]) /\ WellFormed(es[i]) /\ DimRefines(ds[i], es[i])
    BY <2>1, <2>2
  <2> QED
    BY <2>1, <2>2, <2>3, <2>4, SharperByDims
<1>3. SharperType([et |-> et, dims |-> <<a, c>>], [et |-> et, dims |-> <<b, d>>])
  <2>1. PICK ds : ds = <<a, c>>
    OBVIOUS
  <2>2. PICK es : es = <<b, d>>
    OBVIOUS
  <2>3. ds = [i \in 1..2 |-> ds[i]] /\ es = [i \in 1..2 |-> es[i]]
    BY <2>1, <2>2
  <2>4. \A i \in 1..2 : WellFormed(ds[i]) /\ WellFormed(es[i]) /\ DimRefines(ds[i], es[i])
    BY <2>1, <2>2
  <2> QED
    BY <2>1, <2>2, <2>3, <2>4, SharperByDims
<1> QED
  BY <1>1, <1>2, <1>3

LEMMA SharperDimAt ==
  ASSUME NEW t, NEW u, SharperType(t, u), NEW d \in Int, 0 <= d, d < Rank(u)
  PROVE  WellFormed(DimAt(t, d)) /\ WellFormed(DimAt(u, d)) /\ DimRefines(DimAt(t, d), DimAt(u, d))
<1>1. Rank(u) \in Nat
  BY SharperDims
<1>2. PICK i \in 1..Rank(u) : i = d + 1
  BY <1>1
<1>3. WellFormed(t.dims[i]) /\ WellFormed(u.dims[i]) /\ DimRefines(t.dims[i], u.dims[i])
  BY SharperDims
<1> QED
  BY <1>2, <1>3 DEF DimAt

LEMMA DotSharpens ==
  ASSUME NEW t, NEW u, SharperType(t, u), NEW b, NEW bb, SharperType(b, bb),
         inferDotOp(t, b) # Failure
  PROVE  SharperTypes(inferDotOp(t, b), inferDotOp(u, bb))
<1>1. Rank(t) = Rank(u) /\ Rank(u) \in Nat /\ Rank(b) = Rank(bb) /\ Rank(bb) \in Nat
  BY SharperDims
<1>2. /\ Rank(u) \in 1..2 /\ Rank(bb) \in 1..2
      /\ verifyCompatibleDims(SizeAt(t, Rank(u) - 1), SizeAt(b, 0))
  BY <1>1 DEF inferDotOp, If
<1>3. verifyCompatibleDims(SizeAt(u, Rank(u) - 1), SizeAt(bb, 0))
  <2>1. PICK d \in Int : d = Rank(u) - 1
    BY <1>1
  <2> QED
    BY <1>2, <2>1, SizesStayCompatible
<1> DEFINE FreeDims(x, y) == (IF Rank(u) = 2 THEN <<DimAt(x, 0)>> ELSE << >>)
                            \o (IF Rank(bb) = 2 THEN <<DimAt(y, 1)>> ELSE << >>)
<1>4. /\ inferDotOp(t, b) = <<[et |-> NoElementType, dims |-> FreeDims(t, b)]>>
      /\ inferDotOp(u, bb) = <<[et |-> NoElementType, dims |-> FreeDims(u, bb)]>>
  BY <1>1, <1>2, <1>3 DEF inferDotOp, If
<1>5. WellFormed(DimAt(t, 0)) /\ WellFormed(DimAt(u, 0)) /\ DimRefines(DimAt(t, 0), DimAt(u, 0))
  BY <1>2, SharperDimAt
<1>6. SharperType([et |-> NoElementType, dims |-> FreeDims(t, b)], [et |-> NoElementType, dims |-> FreeDims(u, bb)])
  <2>1. PICK et : et = NoElementType
    OBVIOUS
  <2>2. CASE Rank(u) = 2 /\ Rank(bb) = 2
    <3>1. WellFormed(DimAt(b, 1)) /\ WellFormed(DimAt(bb, 1)) /\ DimRefines(DimAt(b, 1), DimAt(bb, 1))
      BY <2>2, SharperDimAt
    <3>2. FreeDims(t, b) = <<DimAt(t, 0), DimAt(b, 1)>> /\ FreeDims(u, bb) = <<DimAt(u, 0), DimAt(bb, 1)>>
      <4>1. ASSUME NEW x, NEW y PROVE <<x>> \o <<y>> = <<x, y>>
        <5>1. PICK s : s = <<x>> \o <<y>>
          OBVIOUS
        <5>2. <<x>> \in Seq({x, y}) /\ <<y>> \in Seq({x, y})
          OBVIOUS
        <5>3. s \in Seq({x, y}) /\ Len(s) = 2 /\ s[1] = x /\ s[2] = y
          BY <5>1, <5>2
        <5>4. s = <<s[1], s[2]>>
          BY <5>3
        <5> QED
          BY <5>1, <5>3, <5>4
      <4> QED
        BY <2>2, <4>1, Zenon
    <3> QED
      BY <1>5, <2>1, <3>1, <3>2, TwoAreSharper
  <2>3. CASE Rank(u) = 2 /\ Rank(bb) = 1
    <3>1. FreeDims(t, b) = <<DimAt(t, 0)>> /\ FreeDims(u, bb) = <<DimAt(u, 0)>>
      BY <2>3
    <3> QED
      BY <1>5, <2>1, <3>1, TwoAreSharper
  <2>4. CASE Rank(u) = 1 /\ Rank(bb) = 2
    <3>1. WellFormed(DimAt(b, 1)) /\ WellFormed(DimAt(bb, 1)) /\ DimRefines(DimAt(b, 1), DimAt(bb, 1))
      BY <2>4, SharperDimAt
    <3>2. FreeDims(t, b) = <<DimAt(b, 1)>> /\ FreeDims(u, bb) = <<DimAt(bb, 1)>>
      BY <2>4
    <3> QED
      BY <2>1, <3>1, <3>2, TwoAreSharper
  <2>5. CASE Rank(u) = 1 /\ Rank(bb) = 1
    <3>1. FreeDims(t, b) = << >> /\ FreeDims(u, bb) = << >>
      BY <2>5
    <3> QED
      BY <1>5, <2>1, <3>1, TwoAreSharper
  <2> QED
    BY <1>2, <2>2, <2>3, <2>4, <2>5
<1> HIDE DEF FreeDims
<1> QED
  BY <1>4, <1>6, SharperOne

LEMMA MapSharpens ==
  ASSUME NEW ts, NEW us, SharperTypes(ts, us), Len(us) # 0, NEW dimensions, NEW body,
         inferMapOp(ts, dimensions, body) # Failure
  PROVE  SharperTypes(inferMapOp(ts, dimensions, body), inferMapOp(us, dimensions, body))
<1>1. /\ Len(us) \in Nat /\ Len(ts) = Len(us) /\ DOMAIN ts = DOMAIN us
      /\ \A i \in DOMAIN us : ts[i].et = us[i].et /\ Rank(ts[i]) = Rank(us[i])
  <2>1. /\ Len(us) \in Nat /\ Len(ts) = Len(us) /\ DOMAIN ts = DOMAIN us
        /\ \A i \in DOMAIN us : SharperType(ts[i], us[i])
    BY SharperTypesFacts
  <2> QED
    BY <2>1 DEF SharperType, Refines
<1>2. inferMapOp(ts, dimensions, body) = <<Tensor(body.returns[1].et, Sizes(ts[Len(us)]))>>
  BY <1>1 DEF inferMapOp, If, Last
<1>3. inferMapOp(us, dimensions, body) = <<Tensor(body.returns[1].et, Sizes(us[Len(us)]))>>
  BY <1>1 DEF inferMapOp, If, Last
<1>4. SharperType(ts[Len(us)], us[Len(us)])
  BY SharperTypesFacts
<1> QED
  BY <1>2, <1>3, <1>4, SizesSharpen

LEMMA AccumulatorsAgree ==
  ASSUME NEW ts, NEW us, SharperTypes(ts, us), NEW body
  PROVE  \A i \in DOMAIN us : getAccumulatorTypesOrInputTypes(body, ts)[i].et =
                                getAccumulatorTypesOrInputTypes(body, us)[i].et
<1>1. \A i \in DOMAIN us : ts[i].et = us[i].et
  BY SharperTypesFacts DEF SharperType
<1> QED
  BY <1>1 DEF getAccumulatorTypesOrInputTypes

LEMMA AllReduceSharpens ==
  ASSUME NEW ts, NEW us, SharperTypes(ts, us), NEW body
  PROVE  SharperTypes(inferAllReduceOp(ts, body), inferAllReduceOp(us, body))
<1>1. PICK e1 : e1 = getAccumulatorTypesOrInputTypes(body, ts)[1].et
  OBVIOUS
<1>2. PICK e2 : e2 = getAccumulatorTypesOrInputTypes(body, us)[1].et
  OBVIOUS
<1>3. /\ Len(us) \in Nat /\ DOMAIN ts = 1..Len(us) /\ DOMAIN us = 1..Len(us)
      /\ \A i \in 1..Len(us) : SharperType(ts[i], us[i])
  BY SharperTypesFacts
<1>4. PICK xs : xs = [i \in 1..Len(us) |-> WithElementType(ts[i], e1)]
  OBVIOUS
<1>5. PICK ys : ys = [i \in 1..Len(us) |-> WithElementType(us[i], e2)]
  OBVIOUS
<1>6. inferAllReduceOp(ts, body) = xs /\ inferAllReduceOp(us, body) = ys
  BY <1>1, <1>2, <1>3, <1>4, <1>5 DEF inferAllReduceOp
<1>7. ASSUME NEW i \in 1..Len(us) PROVE SharperType(xs[i], ys[i])
  <2>1. 1 \in DOMAIN us
    BY <1>3
  <2>2. e1 = e2
    BY <1>1, <1>2, <2>1, AccumulatorsAgree
  <2> QED
    BY <1>3, <1>4, <1>5, <2>2, SharperElementType
<1>8. xs = [i \in 1..Len(us) |-> xs[i]] /\ ys = [i \in 1..Len(us) |-> ys[i]]
  BY <1>4, <1>5
<1>9. SharperTypes(xs, ys)
  BY <1>3, <1>7, <1>8, SharperEach
<1> QED
  BY <1>6, <1>9

LEMMA GetTupleElementSharpens ==
  ASSUME NEW ts, NEW us, SharperTypes(ts, us), NEW index \in Nat,
         inferGetTupleElementOp(ts, index) # Failure
  PROVE  SharperTypes(inferGetTupleElementOp(ts, index), inferGetTupleElementOp(us, index))
<1>1. /\ index < Len(us) /\ Len(us) \in Nat
      /\ inferGetTupleElementOp(ts, index) = <<ts[index + 1]>>
      /\ inferGetTupleElementOp(us, index) = <<us[index + 1]>>
  BY SharperTypesFacts DEF inferGetTupleElementOp, If
<1>2. PICK i \in 1..Len(us) : i = index + 1
  BY <1>1
<1>3. SharperType(ts[i], us[i])
  BY SharperTypesFacts
<1> QED
  BY <1>1, <1>2, <1>3, SharperOne

LEMMA ShapesStayPairwiseCompatible ==
  ASSUME NEW ts, NEW us, SharperTypes(ts, us), verifyPairwiseCompatibleShapes(ts)
  PROVE  verifyPairwiseCompatibleShapes(us)
<1>1. DOMAIN ts = DOMAIN us /\ \A i \in DOMAIN us : SharperType(ts[i], us[i])
  BY SharperTypesFacts
<1> QED
  BY <1>1, ShapesStayCompatible DEF verifyPairwiseCompatibleShapes

LEMMA BatchNormSharpens ==
  ASSUME NEW ts, NEW us, SharperTypes(ts, us), Len(us) # 0,
         NEW xs, NEW ys, SharperTypes(xs, ys), Len(ys) # 0, Rank(ys[1]) = 1,
         NEW feature \in Nat, NEW inference \in BOOLEAN,
         inferBatchNormOp(ts, xs, feature, inference) # Failure
  PROVE  SharperTypes(inferBatchNormOp(ts, xs, feature, inference),
                      inferBatchNormOp(us, ys, feature, inference))
<1>1. SharperType(ts[1], us[1]) /\ SharperType(xs[1], ys[1])
  BY SharperTypesFacts
<1>2. /\ Rank(ts[1]) = Rank(us[1]) /\ Rank(us[1]) \in Nat /\ ts[1].et = us[1].et
  BY <1>1, SharperDims
<1>3. verifyBatchNorm(ts, xs, feature)
  BY DEF inferBatchNormOp
<1>4. feature < Rank(us[1]) /\ verifyCompatibleDims(SizeAt(xs[1], 0), SizeAt(ts[1], feature))
  BY <1>2, <1>3 DEF verifyBatchNorm
<1>5. verifyCompatibleDims(SizeAt(ys[1], 0), SizeAt(us[1], feature))
  BY <1>1, <1>4, SizesStayCompatible
<1>6. verifyBatchNorm(us, ys, feature)
  BY <1>3, <1>4, <1>5, ShapesStayPairwiseCompatible DEF verifyBatchNorm
<1> DEFINE Feature(t) == [et |-> t.et, dims |-> <<DimAt(t, feature)>>]
<1>7. /\ inferBatchNormOp(ts, xs, feature, inference) =
           IF inference THEN <<ts[1]>> ELSE <<ts[1], Feature(ts[1]), Feature(ts[1])>>
      /\ inferBatchNormOp(us, ys, feature, inference) =
           IF inference THEN <<us[1]>> ELSE <<us[1], Feature(us[1]), Feature(us[1])>>
  BY <1>3, <1>6 DEF inferBatchNormOp
<1>8. SharperType(Feature(ts[1]), Feature(us[1]))
  <2>1. /\ WellFormed(DimAt(ts[1], feature)) /\ WellFormed(DimAt(us[1], feature))
        /\ DimRefines(DimAt(ts[1], feature), DimAt(us[1], feature))
    BY <1>1, <1>4, SharperDimAt
  <2> QED
    BY <1>2, <2>1, TwoAreSharper
<1> HIDE DEF Feature
<1>9. CASE inference
  BY <1>1, <1>7, <1>9, SharperOne
<1>10. CASE ~ inference
  <2>1. PICK ps : ps = <<ts[1], Feature(ts[1]), Feature(ts[1])>>
    OBVIOUS
  <2>2. PICK qs : qs = <<us[1], Feature(us[1]), Feature(us[1])>>
    OBVIOUS
  <2>3. ps = [i \in 1..3 |-> ps[i]] /\ qs = [i \in 1..3 |-> qs[i]]
    BY <2>1, <2>2
  <2>4. \A i \in 1..3 : SharperType(ps[i], qs[i])
    BY <1>1, <1>8, <2>1, <2>2
  <2>5. SharperTypes(ps, qs)
    BY <2>3, <2>4, SharperEach
  <2> QED
    BY <1>7, <1>10, <2>1, <2>2, <2>5
<1> QED
  BY <1>9, <1>10

LEMMA ScatterSharpens ==
  ASSUME NEW ts, NEW us, SharperTypes(ts, us), NEW body
  PROVE  SharperTypes(inferScatterOp(ts, body), inferScatterOp(us, body))
<1>1. PICK as : as = getAccumulatorTypesOrInputTypes(body, ts)
  OBVIOUS
<1>2. PICK bs : bs = getAccumulatorTypesOrInputTypes(body, us)
  OBVIOUS
<1>3. /\ Len(us) \in Nat /\ DOMAIN ts = 1..Len(us) /\ DOMAIN us = 1..Len(us)
      /\ \A i \in 1..Len(us) : SharperType(ts[i], us[i])
  BY SharperTypesFacts
<1>4. PICK xs : xs = [i \in 1..Len(us) |-> WithElementType(ts[i], as[i].et)]
  OBVIOUS
<1>5. PICK ys : ys = [i \in 1..Len(us) |-> WithElementType(us[i], bs[i].et)]
  OBVIOUS
<1>6. inferScatterOp(ts, body) = xs /\ inferScatterOp(us, body) = ys
  BY <1>1, <1>2, <1>3, <1>4, <1>5 DEF inferScatterOp
<1>7. ASSUME NEW i \in 1..Len(us) PROVE SharperType(xs[i], ys[i])
  <2>1. as[i].et = bs[i].et
    BY <1>1, <1>2, <1>3, AccumulatorsAgree
  <2> QED
    BY <1>3, <1>4, <1>5, <2>1, SharperElementType
<1>8. xs = [i \in 1..Len(us) |-> xs[i]] /\ ys = [i \in 1..Len(us) |-> ys[i]]
  BY <1>4, <1>5
<1>9. SharperTypes(xs, ys)
  BY <1>3, <1>7, <1>8, SharperEach
<1> QED
  BY <1>6, <1>9

-----------------------------------------------------------------------------
(* The ops whose inference is a formula over the types of the operands:    *)
(* not those that select dimensions or merge bounds with a fold.           *)

Elementary ==
  {"abs", "real", "imag", "is_finite", "convert", "compare", "complex",
   "uniform_dequantize", "reverse", "cholesky", "broadcast", "transpose", "pad", "slice",
   "dot", "triangular_solve", "clamp", "sort", "tuple", "while", "collective_permute",
   "optimization_barrier", "all_reduce", "get_tuple_element", "all_to_all", "map",
   "after_all", "create_token", "outfeed", "send", "replica_id", "partition_id",
   "get_dimension_size", "dynamic_slice", "dynamic_update_slice", "batch_norm_grad",
   "batch_norm_training", "batch_norm_inference", "select_and_scatter", "scatter"}

LEMMA TailByIndex ==
  ASSUME NEW S, NEW s \in Seq(S), NEW n \in Nat, Len(s) = n + 1
  PROVE  Tail(s) = [i \in 1..n |-> s[i + 1]]
<1>1. s # << >>
  OBVIOUS
<1>2. PICK t : t = Tail(s)
  OBVIOUS
<1>3. t \in Seq(S) /\ Len(t) = n /\ \A i \in 1..n : t[i] = s[i + 1]
  BY <1>1, <1>2
<1>4. DOMAIN t = 1..n /\ t = [i \in DOMAIN t |-> t[i]]
  <2>1. PICK m \in Nat : t \in [1..m -> S]
    BY <1>3
  <2> QED
    BY <1>3, <2>1
<1> QED
  BY <1>2, <1>3, <1>4

LEMMA SharperTail ==
  ASSUME NEW ts, NEW us, SharperTypes(ts, us), Len(us) >= 1
  PROVE  SharperTypes(Tail(ts), Tail(us))
<1>1. PICK n : n = Len(us) - 1
  OBVIOUS
<1>2. n \in Nat /\ Len(ts) = n + 1 /\ Len(us) = n + 1
  BY <1>1, SharperTypesFacts
<1>3. PICK ps : ps = [i \in 1..n |-> ts[i + 1]]
  OBVIOUS
<1>4. PICK qs : qs = [i \in 1..n |-> us[i + 1]]
  OBVIOUS
<1>5. Tail(ts) = ps /\ Tail(us) = qs
  BY <1>2, <1>3, <1>4, TailByIndex DEF SharperTypes
<1>6. \A i \in 1..n : SharperType(ps[i], qs[i])
  BY <1>2, <1>3, <1>4, SharperTypesFacts
<1>7. ps = [i \in 1..n |-> ps[i]] /\ qs = [i \in 1..n |-> qs[i]]
  BY <1>3, <1>4
<1>8. SharperTypes(ps, qs)
  BY <1>2, <1>6, <1>7, SharperEach
<1> QED
  BY <1>5, <1>8

\* Results that do not depend on the operands.
LEMMA ConstantsSharpen ==
  /\ SharperTypes(<<TokenType>>, <<TokenType>>)
  /\ \A et : SharperTypes(<<Tensor(et, << >>)>>, <<Tensor(et, << >>)>>)
<1>1. ASSUME NEW et PROVE SharperType([et |-> et, dims |-> << >>], [et |-> et, dims |-> << >>])
  <2>1. PICK ds : ds = << >>
    OBVIOUS
  <2>2. ds = [i \in 1..0 |-> ds[i]]
    BY <2>1
  <2>3. \A i \in 1..0 : WellFormed(ds[i]) /\ DimRefines(ds[i], ds[i])
    OBVIOUS
  <2> QED
    BY <2>1, <2>2, <2>3, SharperByDims
<1>2. SharperTypes(<<TokenType>>, <<TokenType>>)
  <2>1. SharperType(TokenType, TokenType)
    BY <1>1 DEF TokenType
  <2> QED
    BY <2>1, SharperOne
<1>3. ASSUME NEW et PROVE SharperTypes(<<Tensor(et, << >>)>>, <<Tensor(et, << >>)>>)
  <2>1. PICK sizes : sizes = << >> /\ sizes \in Seq(Nat)
    <3>1. << >> \in Seq(Nat)
      OBVIOUS
    <3> QED
      BY <3>1
  <2>2. SharperType(Tensor(et, sizes), Tensor(et, sizes))
    BY <2>1, SharperTensor
  <2> QED
    BY <2>1, <2>2, SharperOne
<1> QED
  BY <1>2, <1>3

\* What infer* gives for an op of which more is known is sharper, and it is
\* accepted whenever it is accepted with more known.
LEMMA InferenceSharpens ==
  ASSUME NEW o, NEW v, SharperOp(o, v), o.name \in Elementary, IntegerAttrs(o), EnoughOperands(o),
         inferReturnTypes(o) # Failure
  PROVE  SharperTypes(inferReturnTypes(o), inferReturnTypes(v))
<1>1. /\ v.name = o.name /\ v.attrs = o.attrs /\ v.regions = o.regions
      /\ SharperTypes(o.operands, v.operands)
  BY DEF SharperOp
<1>2. /\ Len(v.operands) \in Nat /\ Len(o.operands) = Len(v.operands)
      /\ \A i \in 1..Len(v.operands) : SharperType(o.operands[i], v.operands[i])
  BY <1>1, SharperTypesFacts
<1>3. EnoughOperands(o)
  OBVIOUS
<1>11. CASE o.name = "abs"
  <2>1. /\ inferReturnTypes(o) = inferAbsOp(o.operands[1])
        /\ inferReturnTypes(v) = inferAbsOp(v.operands[1])
    BY <1>11, <1>1 DEF inferReturnTypes, UnaryOps, BinaryOps, AbsOp_inferReturnTypes
  <2>2. SharperType(o.operands[1], v.operands[1])
    BY <1>11, <1>2, <1>3 DEF EnoughOperands, UnaryOps, BinaryOps
  <2>3. o.operands[1].et = v.operands[1].et
    BY <2>2 DEF SharperType
  <2> QED
    BY <2>1, <2>2, <2>3, RealTypeSharpens DEF inferAbsOp
<1>12. CASE o.name = "real"
  <2>1. /\ inferReturnTypes(o) = inferRealOp(o.operands[1])
        /\ inferReturnTypes(v) = inferRealOp(v.operands[1])
    BY <1>12, <1>1 DEF inferReturnTypes, UnaryOps, BinaryOps, RealOp_inferReturnTypes
  <2>2. SharperType(o.operands[1], v.operands[1])
    BY <1>12, <1>2, <1>3 DEF EnoughOperands, UnaryOps, BinaryOps
  <2>3. o.operands[1].et = v.operands[1].et
    BY <2>2 DEF SharperType
  <2> QED
    BY <2>1, <2>2, <2>3, RealTypeSharpens DEF inferRealOp
<1>13. CASE o.name = "imag"
  <2>1. /\ inferReturnTypes(o) = inferImagOp(o.operands[1])
        /\ inferReturnTypes(v) = inferImagOp(v.operands[1])
    BY <1>13, <1>1 DEF inferReturnTypes, UnaryOps, BinaryOps, ImagOp_inferReturnTypes
  <2>2. SharperType(o.operands[1], v.operands[1])
    BY <1>13, <1>2, <1>3 DEF EnoughOperands, UnaryOps, BinaryOps
  <2>3. o.operands[1].et = v.operands[1].et
    BY <2>2 DEF SharperType
  <2> QED
    BY <2>1, <2>2, <2>3, RealTypeSharpens DEF inferImagOp
<1>14. CASE o.name = "is_finite"
  <2>1. /\ inferReturnTypes(o) = inferIsFiniteOp(o.operands[1])
        /\ inferReturnTypes(v) = inferIsFiniteOp(v.operands[1])
    BY <1>14, <1>1 DEF inferReturnTypes, UnaryOps, BinaryOps, IsFiniteOp_inferReturnTypes
  <2>2. SharperType(o.operands[1], v.operands[1])
    BY <1>14, <1>2, <1>3 DEF EnoughOperands, UnaryOps, BinaryOps
  <2>3. o.operands[1].et = v.operands[1].et
    BY <2>2 DEF SharperType
  <2> QED
    BY <2>1, <2>2, <2>3, ElementTypeSharpens DEF inferIsFiniteOp
<1>15. CASE o.name = "convert"
  <2>1. /\ inferReturnTypes(o) = inferConvertOp(o.operands[1])
        /\ inferReturnTypes(v) = inferConvertOp(v.operands[1])
    BY <1>15, <1>1 DEF inferReturnTypes, UnaryOps, BinaryOps, ConvertOp_build
  <2>2. SharperType(o.operands[1], v.operands[1])
    BY <1>15, <1>2, <1>3 DEF EnoughOperands, UnaryOps, BinaryOps
  <2>3. o.operands[1].et = v.operands[1].et
    BY <2>2 DEF SharperType
  <2> QED
    BY <2>1, <2>2, <2>3, ElementTypeSharpens DEF inferConvertOp
<1>16. CASE o.name = "compare"
  <2>1. /\ inferReturnTypes(o) = inferCompareOp(o.operands[1])
        /\ inferReturnTypes(v) = inferCompareOp(v.operands[1])
    BY <1>16, <1>1 DEF inferReturnTypes, UnaryOps, BinaryOps, CompareOp_inferReturnTypeComponents
  <2>2. SharperType(o.operands[1], v.operands[1])
    BY <1>16, <1>2, <1>3 DEF EnoughOperands, UnaryOps, BinaryOps
  <2>3. o.operands[1].et = v.operands[1].et
    BY <2>2 DEF SharperType
  <2> QED
    BY <2>1, <2>2, <2>3, ElementTypeSharpens DEF inferCompareOp
<1>17. CASE o.name = "complex"
  <2>1. /\ inferReturnTypes(o) = inferComplexOp(o.operands[1])
        /\ inferReturnTypes(v) = inferComplexOp(v.operands[1])
    BY <1>17, <1>1 DEF inferReturnTypes, UnaryOps, BinaryOps, ComplexOp_inferReturnTypes
  <2>2. SharperType(o.operands[1], v.operands[1])
    BY <1>17, <1>2, <1>3 DEF EnoughOperands, UnaryOps, BinaryOps
  <2>3. o.operands[1].et = v.operands[1].et
    BY <2>2 DEF SharperType
  <2> QED
    BY <2>1, <2>2, <2>3, ElementTypeSharpens DEF inferComplexOp
<1>18. CASE o.name = "uniform_dequantize"
  <2>1. /\ inferReturnTypes(o) = inferUniformDequantizeOp(o.operands[1])
        /\ inferReturnTypes(v) = inferUniformDequantizeOp(v.operands[1])
    BY <1>18, <1>1 DEF inferReturnTypes, UnaryOps, BinaryOps, UniformDequantizeOp_inferReturnTypeComponents
  <2>2. SharperType(o.operands[1], v.operands[1])
    BY <1>18, <1>2, <1>3 DEF EnoughOperands, UnaryOps, BinaryOps
  <2>3. o.operands[1].et = v.operands[1].et
    BY <2>2 DEF SharperType
  <2> QED
    BY <2>1, <2>2, <2>3, SizesSharpen DEF inferUniformDequantizeOp
<1>19. CASE o.name = "reverse"
  <2>1. /\ inferReturnTypes(o) = inferReverseOp(o.operands[1])
        /\ inferReturnTypes(v) = inferReverseOp(v.operands[1])
    BY <1>19, <1>1 DEF inferReturnTypes, UnaryOps, BinaryOps, ReverseOp_inferReturnTypes
  <2>2. SharperType(o.operands[1], v.operands[1])
    BY <1>19, <1>2, <1>3 DEF EnoughOperands, UnaryOps, BinaryOps
  <2>3. o.operands[1].et = v.operands[1].et
    BY <2>2 DEF SharperType
  <2> QED
    BY <2>1, <2>2, <2>3, SharperOne DEF inferReverseOp
<1>20. CASE o.name = "cholesky"
  <2>1. /\ inferReturnTypes(o) = inferCholeskyOp(o.operands[1])
        /\ inferReturnTypes(v) = inferCholeskyOp(v.operands[1])
    BY <1>20, <1>1 DEF inferReturnTypes, UnaryOps, BinaryOps, CholeskyOp_inferReturnTypeComponents
  <2>2. SharperType(o.operands[1], v.operands[1])
    BY <1>20, <1>2, <1>3 DEF EnoughOperands, UnaryOps, BinaryOps
  <2> QED
    BY <2>1, <2>2, CholeskySharpens
<1>21. CASE o.name = "broadcast"
  <2>1. /\ inferReturnTypes(o) = inferBroadcastOp(o.operands[1], o.attrs.broadcastSizes)
        /\ inferReturnTypes(v) = inferBroadcastOp(v.operands[1], o.attrs.broadcastSizes)
    BY <1>21, <1>1 DEF inferReturnTypes, UnaryOps, BinaryOps, BroadcastOp_inferReturnTypeComponents
  <2>2. SharperType(o.operands[1], v.operands[1])
    BY <1>21, <1>2, <1>3 DEF EnoughOperands, UnaryOps, BinaryOps
  <2>3. o.attrs.broadcastSizes \in Seq(Int)
    BY <1>21 DEF IntegerAttrs
  <2> QED
    BY <2>1, <2>2, <2>3, BroadcastSharpens
<1>22. CASE o.name = "transpose"
  <2>1. /\ inferReturnTypes(o) = inferTransposeOp(o.operands[1], o.attrs.permutation)
        /\ inferReturnTypes(v) = inferTransposeOp(v.operands[1], o.attrs.permutation)
    BY <1>22, <1>1 DEF inferReturnTypes, UnaryOps, BinaryOps, TransposeOp_inferReturnTypes
  <2>2. SharperType(o.operands[1], v.operands[1])
    BY <1>22, <1>2, <1>3 DEF EnoughOperands, UnaryOps, BinaryOps
  <2>3. o.attrs.permutation \in Seq(Int)
    BY <1>22 DEF IntegerAttrs
  <2> QED
    BY <2>1, <2>2, <2>3, TransposeSharpens
<1>23. CASE o.name = "pad"
  <2>1. /\ inferReturnTypes(o) = inferPadOp(o.operands[1], o.attrs.low, o.attrs.high, o.attrs.interior)
        /\ inferReturnTypes(v) = inferPadOp(v.operands[1], o.attrs.low, o.attrs.high, o.attrs.interior)
    BY <1>23, <1>1 DEF inferReturnTypes, UnaryOps, BinaryOps, PadOp_inferReturnTypes
  <2>2. SharperType(o.operands[1], v.operands[1])
    BY <1>23, <1>2, <1>3 DEF EnoughOperands, UnaryOps, BinaryOps
  <2>3. /\ o.attrs.low \in Seq(Int) /\ o.attrs.high \in Seq(Int) /\ o.attrs.interior \in Seq(Int)
        /\ Len(o.attrs.high) = Len(o.attrs.low) /\ Len(o.attrs.interior) = Len(o.attrs.low)
    BY <1>23 DEF IntegerAttrs
  <2> QED
    BY <2>1, <2>2, <2>3, PadSharpens
<1>24. CASE o.name = "slice"
  <2>1. /\ inferReturnTypes(o) = inferSliceOp(o.operands[1], o.attrs.start, o.attrs.limit, o.attrs.strides)
        /\ inferReturnTypes(v) = inferSliceOp(v.operands[1], o.attrs.start, o.attrs.limit, o.attrs.strides)
    BY <1>24, <1>1 DEF inferReturnTypes, UnaryOps, BinaryOps, SliceOp_inferReturnTypes
  <2>2. SharperType(o.operands[1], v.operands[1])
    BY <1>24, <1>2, <1>3 DEF EnoughOperands, UnaryOps, BinaryOps
  <2>3. /\ o.attrs.start \in Seq(Int) /\ o.attrs.limit \in Seq(Int) /\ o.attrs.strides \in Seq(Int)
        /\ Len(o.attrs.limit) = Len(o.attrs.start) /\ Len(o.attrs.strides) = Len(o.attrs.start)
    BY <1>24 DEF IntegerAttrs
  <2> QED
    BY <2>1, <2>2, <2>3, SliceSharpens
<1>25. CASE o.name = "dot"
  <2>1. /\ inferReturnTypes(o) = inferDotOp(o.operands[1], o.operands[2])
        /\ inferReturnTypes(v) = inferDotOp(v.operands[1], v.operands[2])
    BY <1>25, <1>1 DEF inferReturnTypes, UnaryOps, BinaryOps, DotOp_inferReturnTypeComponents
  <2>2. SharperType(o.operands[1], v.operands[1]) /\ SharperType(o.operands[2], v.operands[2])
    BY <1>25, <1>2, <1>3 DEF EnoughOperands, UnaryOps, BinaryOps
  <2> QED
    BY <2>1, <2>2, DotSharpens
<1>26. CASE o.name = "triangular_solve"
  <2>1. /\ inferReturnTypes(o) = inferTriangularSolveOp(o.operands[1], o.operands[2], o.attrs.leftSide, FALSE)
        /\ inferReturnTypes(v) = inferTriangularSolveOp(v.operands[1], v.operands[2], o.attrs.leftSide, FALSE)
    BY <1>26, <1>1 DEF inferReturnTypes, UnaryOps, BinaryOps, TriangularSolveOp_inferReturnTypeComponents
  <2>2. SharperType(o.operands[1], v.operands[1]) /\ SharperType(o.operands[2], v.operands[2])
    BY <1>26, <1>2, <1>3 DEF EnoughOperands, UnaryOps, BinaryOps
  <2> QED
    BY <2>1, <2>2, TriangularSolveSharpens
<1>27. CASE o.name = "clamp"
  <2>1. /\ inferReturnTypes(o) = inferClampOp(o.operands[1], o.operands[2], o.operands[3])
        /\ inferReturnTypes(v) = inferClampOp(v.operands[1], v.operands[2], v.operands[3])
    BY <1>27, <1>1 DEF inferReturnTypes, UnaryOps, BinaryOps, ClampOp_inferReturnTypeComponents
  <2>2. SharperType(o.operands[1], v.operands[1]) /\ SharperType(o.operands[2], v.operands[2]) /\ SharperType(o.operands[3], v.operands[3])
    BY <1>27, <1>2, <1>3 DEF EnoughOperands, UnaryOps, BinaryOps
  <2> QED
    BY <2>1, <2>2, ClampSharpens
<1>28. CASE o.name = "sort"
  <2>1. /\ inferReturnTypes(o) = inferSortOp(o.operands)
        /\ inferReturnTypes(v) = inferSortOp(v.operands)
    BY <1>28, <1>1 DEF inferReturnTypes, UnaryOps, BinaryOps, SortOp_inferReturnTypeComponents
  <2> QED
    BY <2>1, <1>1 DEF inferSortOp
<1>29. CASE o.name = "tuple"
  <2>1. /\ inferReturnTypes(o) = inferTupleOp(o.operands)
        /\ inferReturnTypes(v) = inferTupleOp(v.operands)
    BY <1>29, <1>1 DEF inferReturnTypes, UnaryOps, BinaryOps, TupleOp_inferReturnTypes
  <2> QED
    BY <2>1, <1>1 DEF inferTupleOp
<1>30. CASE o.name = "while"
  <2>1. /\ inferReturnTypes(o) = inferWhileOp(o.operands)
        /\ inferReturnTypes(v) = inferWhileOp(v.operands)
    BY <1>30, <1>1 DEF inferReturnTypes, UnaryOps, BinaryOps, WhileOp_inferReturnTypes
  <2> QED
    BY <2>1, <1>1 DEF inferWhileOp
<1>31. CASE o.name = "collective_permute"
  <2>1. /\ inferReturnTypes(o) = inferCollectivePermuteOp(o.operands)
        /\ inferReturnTypes(v) = inferCollectivePermuteOp(v.operands)
    BY <1>31, <1>1 DEF inferReturnTypes, UnaryOps, BinaryOps, CollectivePermuteOp_inferReturnTypes
  <2> QED
    BY <2>1, <1>1 DEF inferCollectivePermuteOp
<1>32. CASE o.name = "optimization_barrier"
  <2>1. /\ inferReturnTypes(o) = inferOptimizationBarrierOp(o.operands)
        /\ inferReturnTypes(v) = inferOptimizationBarrierOp(v.operands)
    BY <1>32, <1>1 DEF inferReturnTypes, UnaryOps, BinaryOps, OptimizationBarrierOp_inferReturnTypes
  <2> QED
    BY <2>1, <1>1 DEF inferOptimizationBarrierOp
<1>33. CASE o.name = "all_reduce"
  <2>1. /\ inferReturnTypes(o) = inferAllReduceOp(o.operands, o.regions[1])
        /\ inferReturnTypes(v) = inferAllReduceOp(v.operands, o.regions[1])
    BY <1>33, <1>1 DEF inferReturnTypes, UnaryOps, BinaryOps, AllReduceOp_inferReturnTypeComponents
  <2> QED
    BY <2>1, <1>1, AllReduceSharpens
<1>34. CASE o.name = "get_tuple_element"
  <2>1. /\ inferReturnTypes(o) = inferGetTupleElementOp(o.operands, o.attrs.index)
        /\ inferReturnTypes(v) = inferGetTupleElementOp(v.operands, o.attrs.index)
    BY <1>34, <1>1 DEF inferReturnTypes, UnaryOps, BinaryOps, GetTupleElementOp_inferReturnTypes
  <2>2. o.attrs.index \in Nat
    BY <1>34 DEF IntegerAttrs
  <2> QED
    BY <2>1, <2>2, <1>1, GetTupleElementSharpens
<1>35. CASE o.name = "all_to_all"
  <2>1. /\ inferReturnTypes(o) = inferAllToAllOp(o.operands, o.attrs.splitDimension, o.attrs.concatDimension,
                              o.attrs.splitCount, o.attrs.replicaGroups)
        /\ inferReturnTypes(v) = inferAllToAllOp(v.operands, o.attrs.splitDimension, o.attrs.concatDimension,
                              o.attrs.splitCount, o.attrs.replicaGroups)
    BY <1>35, <1>1 DEF inferReturnTypes, UnaryOps, BinaryOps, AllToAllOp_inferReturnTypeComponents
  <2>2. /\ o.attrs.splitDimension \in Nat /\ o.attrs.concatDimension \in Nat
        /\ o.attrs.splitCount \in Nat \ {0}
    BY <1>35 DEF IntegerAttrs
  <2> QED
    BY <2>1, <2>2, <1>1, AllToAllSharpens
<1>36. CASE o.name = "map"
  <2>1. /\ inferReturnTypes(o) = inferMapOp(o.operands, o.attrs.dimensions, o.regions[1])
        /\ inferReturnTypes(v) = inferMapOp(v.operands, o.attrs.dimensions, o.regions[1])
    BY <1>36, <1>1 DEF inferReturnTypes, UnaryOps, BinaryOps, MapOp_inferReturnTypeComponents
  <2>2. Len(v.operands) # 0
    BY <1>36, <1>2, <1>3 DEF IntegerAttrs, EnoughOperands, UnaryOps, BinaryOps
  <2> QED
    BY <2>1, <2>2, <1>1, MapSharpens
<1>37. CASE o.name = "after_all"
  <2>1. /\ inferReturnTypes(o) = inferAfterAllOp
        /\ inferReturnTypes(v) = inferAfterAllOp
    BY <1>37, <1>1 DEF inferReturnTypes, UnaryOps, BinaryOps, AfterAllOp_inferReturnTypes
  <2> QED
    BY <2>1, <1>1, ConstantsSharpen DEF inferAfterAllOp
<1>38. CASE o.name = "create_token"
  <2>1. /\ inferReturnTypes(o) = inferCreateTokenOp
        /\ inferReturnTypes(v) = inferCreateTokenOp
    BY <1>38, <1>1 DEF inferReturnTypes, UnaryOps, BinaryOps, CreateTokenOp_inferReturnTypes
  <2> QED
    BY <2>1, <1>1, ConstantsSharpen DEF inferCreateTokenOp
<1>39. CASE o.name = "outfeed"
  <2>1. /\ inferReturnTypes(o) = inferOutfeedOp
        /\ inferReturnTypes(v) = inferOutfeedOp
    BY <1>39, <1>1 DEF inferReturnTypes, UnaryOps, BinaryOps, OutfeedOp_inferReturnTypes
  <2> QED
    BY <2>1, <1>1, ConstantsSharpen DEF inferOutfeedOp
<1>40. CASE o.name = "send"
  <2>1. /\ inferReturnTypes(o) = inferSendOp(o.attrs.channelType = 1, o.attrs.channelType = 2, o.attrs.isHostTransfer)
        /\ inferReturnTypes(v) = inferSendOp(o.attrs.channelType = 1, o.attrs.channelType = 2, o.attrs.isHostTransfer)
    BY <1>40, <1>1 DEF inferReturnTypes, UnaryOps, BinaryOps, SendOp_inferReturnTypes
  <2> QED
    BY <2>1, <1>1, ConstantsSharpen DEF inferSendOp, If
<1>41. CASE o.name = "replica_id"
  <2>1. /\ inferReturnTypes(o) = inferReplicaIdOp
        /\ inferReturnTypes(v) = inferReplicaIdOp
    BY <1>41, <1>1 DEF inferReturnTypes, UnaryOps, BinaryOps, ReplicaIdOp_inferReturnTypes
  <2> QED
    BY <2>1, <1>1, ConstantsSharpen DEF inferReplicaIdOp
<1>42. CASE o.name = "partition_id"
  <2>1. /\ inferReturnTypes(o) = inferPartitionIdOp
        /\ inferReturnTypes(v) = inferPartitionIdOp
    BY <1>42, <1>1 DEF inferReturnTypes, UnaryOps, BinaryOps, PartitionIdOp_inferReturnTypes
  <2> QED
    BY <2>1, <1>1, ConstantsSharpen DEF inferPartitionIdOp
<1>43. CASE o.name = "get_dimension_size"
  <2>1. /\ inferReturnTypes(o) = inferGetDimensionSizeOp(o.operands[1], o.attrs.dimension)
        /\ inferReturnTypes(v) = inferGetDimensionSizeOp(v.operands[1], o.attrs.dimension)
    BY <1>43, <1>1 DEF inferReturnTypes, UnaryOps, BinaryOps, GetDimensionSizeOp_inferReturnTypeComponents
  <2>2. SharperType(o.operands[1], v.operands[1])
    BY <1>43, <1>2, <1>3 DEF EnoughOperands
  <2>3. Rank(o.operands[1]) = Rank(v.operands[1])
    BY <2>2, SharperDims
  <2>4. verifyDimInBounds(o.operands[1], o.attrs.dimension) <=>
           verifyDimInBounds(v.operands[1], o.attrs.dimension)
    BY <2>3 DEF verifyDimInBounds
  <2> QED
    BY <2>1, <2>4, ConstantsSharpen DEF inferGetDimensionSizeOp, If
<1>44. CASE o.name = "dynamic_slice"
  <2>1. /\ inferReturnTypes(o) = inferDynamicSliceOp(o.operands[1], Tail(o.operands), o.attrs.sliceSizes)
        /\ inferReturnTypes(v) = inferDynamicSliceOp(v.operands[1], Tail(v.operands), o.attrs.sliceSizes)
    BY <1>44, <1>1 DEF inferReturnTypes, UnaryOps, BinaryOps, DynamicSliceOp_inferReturnTypeComponents
  <2>2. SharperType(o.operands[1], v.operands[1]) /\ Len(v.operands) >= 1
    BY <1>44, <1>2, <1>3 DEF EnoughOperands
  <2>3. SharperTypes(Tail(o.operands), Tail(v.operands))
    BY <1>1, <2>2, SharperTail
  <2>4. o.attrs.sliceSizes \in Seq(Int)
    BY <1>44 DEF IntegerAttrs
  <2> QED
    BY <2>1, <2>2, <2>3, <2>4, DynamicSliceSharpens
<1>45. CASE o.name = "dynamic_update_slice"
  <2>1. PICK ts : ts = SubSeq(o.operands, 3, Len(o.operands))
    OBVIOUS
  <2>2. PICK us : us = SubSeq(v.operands, 3, Len(v.operands))
    OBVIOUS
  <2>3. /\ inferReturnTypes(o) = inferDynamicUpdateSliceOp(o.operands[1], o.operands[2], ts)
        /\ inferReturnTypes(v) = inferDynamicUpdateSliceOp(v.operands[1], v.operands[2], us)
    BY <1>45, <1>1, <2>1, <2>2 DEF inferReturnTypes, UnaryOps, BinaryOps,
       DynamicUpdateSliceOp_inferReturnTypeComponents
  <2>4. /\ SharperType(o.operands[1], v.operands[1]) /\ SharperType(o.operands[2], v.operands[2])
        /\ Len(v.operands) >= 2
    BY <1>45, <1>2, <1>3 DEF EnoughOperands
  <2>5. SharperTypes(ts, us)
    <3>1. PICK n \in Nat : n = Len(v.operands)
      BY <1>2
    <3>2. ts = SubSeq(o.operands, 3, n) /\ us = SubSeq(v.operands, 3, n) /\ 3 <= n + 1
      BY <1>2, <2>1, <2>2, <2>4, <3>1
    <3> QED
      BY <1>1, <3>1, <3>2, SharperSubSeq
  <2> QED
    BY <2>3, <2>4, <2>5, DynamicUpdateSliceSharpens
<1>46. CASE o.name = "batch_norm_grad"
  <2>1. PICK ts : ts = <<o.operands[1], o.operands[5]>>
    OBVIOUS
  <2>2. PICK us : us = <<v.operands[1], v.operands[5]>>
    OBVIOUS
  <2>3. PICK xs : xs = <<o.operands[2], o.operands[3], o.operands[4]>>
    OBVIOUS
  <2>4. PICK ys : ys = <<v.operands[2], v.operands[3], v.operands[4]>>
    OBVIOUS
  <2>5. PICK k : k = o.attrs.featureIndex
    OBVIOUS
  <2>6. /\ inferReturnTypes(o) = inferBatchNormOp(ts, xs, k, FALSE)
        /\ inferReturnTypes(v) = inferBatchNormOp(us, ys, k, FALSE)
    BY <1>46, <1>1, <2>1, <2>2, <2>3, <2>4, <2>5 DEF inferReturnTypes, UnaryOps, BinaryOps,
       BatchNormGradOp_inferReturnTypeComponents, inferBatchNormGradOp
  <2>7. /\ Len(v.operands) >= 5
        /\ Rank(o.operands[2]) = 1 /\ k \in Nat
    BY <1>46, <1>2, <1>3, <2>5 DEF EnoughOperands, IntegerAttrs, UnaryOps, BinaryOps
  <2>8. \A i \in 1..5 : SharperType(o.operands[i], v.operands[i])
    BY <1>2, <2>7
  <2>9. /\ ts = [i \in 1..2 |-> ts[i]] /\ us = [i \in 1..2 |-> us[i]]
        /\ xs = [i \in 1..3 |-> xs[i]] /\ ys = [i \in 1..3 |-> ys[i]]
    BY <2>1, <2>2, <2>3, <2>4
  <2>10. SharperTypes(ts, us)
    <3>1. \A i \in 1..2 : SharperType(ts[i], us[i])
      BY <2>1, <2>2, <2>8
    <3> QED
      BY <2>9, <3>1, SharperEach
  <2>11. SharperTypes(xs, ys)
    <3>1. \A i \in 1..3 : SharperType(xs[i], ys[i])
      BY <2>3, <2>4, <2>8
    <3> QED
      BY <2>9, <3>1, SharperEach
  <2>12. Len(us) # 0 /\ Len(ys) # 0 /\ Rank(ys[1]) = 1
    <3>1. SharperType(o.operands[2], v.operands[2])
      BY <2>8
    <3>2. Rank(v.operands[2]) = 1
      BY <2>7, <3>1, SharperDims
    <3> QED
      BY <2>2, <2>4, <3>2
  <2> QED
    BY <2>6, <2>7, <2>10, <2>11, <2>12, BatchNormSharpens
<1>47. CASE o.name = "batch_norm_training"
  <2>1. PICK ts : ts = <<o.operands[1]>>
    OBVIOUS
  <2>2. PICK us : us = <<v.operands[1]>>
    OBVIOUS
  <2>3. PICK xs : xs = <<o.operands[2], o.operands[3]>>
    OBVIOUS
  <2>4. PICK ys : ys = <<v.operands[2], v.operands[3]>>
    OBVIOUS
  <2>5. PICK k : k = o.attrs.featureIndex
    OBVIOUS
  <2>6. /\ inferReturnTypes(o) = inferBatchNormOp(ts, xs, k, FALSE)
        /\ inferReturnTypes(v) = inferBatchNormOp(us, ys, k, FALSE)
    BY <1>47, <1>1, <2>1, <2>2, <2>3, <2>4, <2>5 DEF inferReturnTypes, UnaryOps, BinaryOps,
       BatchNormTrainingOp_inferReturnTypeComponents, inferBatchNormTrainingOp
  <2>7. /\ Len(v.operands) >= 3
        /\ Rank(o.operands[2]) = 1 /\ k \in Nat
    BY <1>47, <1>2, <1>3, <2>5 DEF EnoughOperands, IntegerAttrs, UnaryOps, BinaryOps
  <2>8. \A i \in 1..3 : SharperType(o.operands[i], v.operands[i])
    BY <1>2, <2>7
  <2>9. /\ ts = [i \in 1..1 |-> ts[i]] /\ us = [i \in 1..1 |-> us[i]]
        /\ xs = [i \in 1..2 |-> xs[i]] /\ ys = [i \in 1..2 |-> ys[i]]
    BY <2>1, <2>2, <2>3, <2>4
  <2>10. SharperTypes(ts, us)
    <3>1. \A i \in 1..1 : SharperType(ts[i], us[i])
      BY <2>1, <2>2, <2>8
    <3> QED
      BY <2>9, <3>1, SharperEach
  <2>11. SharperTypes(xs, ys)
    <3>1. \A i \in 1..2 : SharperType(xs[i], ys[i])
      BY <2>3, <2>4, <2>8
    <3> QED
      BY <2>9, <3>1, SharperEach
  <2>12. Len(us) # 0 /\ Len(ys) # 0 /\ Rank(ys[1]) = 1
    <3>1. SharperType(o.operands[2], v.operands[2])
      BY <2>8
    <3>2. Rank(v.operands[2]) = 1
      BY <2>7, <3>1, SharperDims
    <3> QED
      BY <2>2, <2>4, <3>2
  <2> QED
    BY <2>6, <2>7, <2>10, <2>11, <2>12, BatchNormSharpens
<1>48. CASE o.name = "batch_norm_inference"
  <2>1. PICK ts : ts = <<o.operands[1]>>
    OBVIOUS
  <2>2. PICK us : us = <<v.operands[1]>>
    OBVIOUS
  <2>3. PICK xs : xs = <<o.operands[2], o.operands[3], o.operands[4], o.operands[5]>>
    OBVIOUS
  <2>4. PICK ys : ys = <<v.operands[2], v.operands[3], v.operands[4], v.operands[5]>>
    OBVIOUS
  <2>5. PICK k : k = o.attrs.featureIndex
    OBVIOUS
  <2>6. /\ inferReturnTypes(o) = inferBatchNormOp(ts, xs, k, TRUE)
        /\ inferReturnTypes(v) = inferBatchNormOp(us, ys, k, TRUE)
    BY <1>48, <1>1, <2>1, <2>2, <2>3, <2>4, <2>5 DEF inferReturnTypes, UnaryOps, BinaryOps,
       BatchNormInferenceOp_inferReturnTypeComponents, inferBatchNormInferenceOp
  <2>7. /\ Len(v.operands) >= 5
        /\ Rank(o.operands[2]) = 1 /\ k \in Nat
    BY <1>48, <1>2, <1>3, <2>5 DEF EnoughOperands, IntegerAttrs, UnaryOps, BinaryOps
  <2>8. \A i \in 1..5 : SharperType(o.operands[i], v.operands[i])
    BY <1>2, <2>7
  <2>9. /\ ts = [i \in 1..1 |-> ts[i]] /\ us = [i \in 1..1 |-> us[i]]
        /\ xs = [i \in 1..4 |-> xs[i]] /\ ys = [i \in 1..4 |-> ys[i]]
    BY <2>1, <2>2, <2>3, <2>4
  <2>10. SharperTypes(ts, us)
    <3>1. \A i \in 1..1 : SharperType(ts[i], us[i])
      BY <2>1, <2>2, <2>8
    <3> QED
      BY <2>9, <3>1, SharperEach
  <2>11. SharperTypes(xs, ys)
    <3>1. \A i \in 1..4 : SharperType(xs[i], ys[i])
      BY <2>3, <2>4, <2>8
    <3> QED
      BY <2>9, <3>1, SharperEach
  <2>12. Len(us) # 0 /\ Len(ys) # 0 /\ Rank(ys[1]) = 1
    <3>1. SharperType(o.operands[2], v.operands[2])
      BY <2>8
    <3>2. Rank(v.operands[2]) = 1
      BY <2>7, <3>1, SharperDims
    <3> QED
      BY <2>2, <2>4, <3>2
  <2> QED
    BY <2>6, <2>7, <2>10, <2>11, <2>12, BatchNormSharpens
<1>49. CASE o.name = "select_and_scatter"
  <2>1. PICK ts : ts = <<o.operands[1]>>
    OBVIOUS
  <2>2. PICK us : us = <<v.operands[1]>>
    OBVIOUS
  <2>3. SharperType(o.operands[1], v.operands[1])
    BY <1>49, <1>2, <1>3 DEF EnoughOperands
  <2>4. SharperTypes(ts, us)
    BY <2>1, <2>2, <2>3, SharperOne
  <2>5. getAccumulatorTypesOrInputTypes(o.regions[2], ts)[1].et =
           getAccumulatorTypesOrInputTypes(o.regions[2], us)[1].et
    BY <2>2, <2>4, AccumulatorsAgree
  <2>6. /\ inferReturnTypes(o) = <<WithElementType(o.operands[1],
                 getAccumulatorTypesOrInputTypes(o.regions[2], ts)[1].et)>>
        /\ inferReturnTypes(v) = <<WithElementType(v.operands[1],
                 getAccumulatorTypesOrInputTypes(o.regions[2], us)[1].et)>>
    BY <1>49, <1>1, <2>1, <2>2 DEF inferReturnTypes, UnaryOps, BinaryOps,
       SelectAndScatterOp_inferReturnTypes, inferSelectAndScatterOp
  <2> QED
    BY <2>3, <2>5, <2>6, ElementTypeSharpens
<1>50. CASE o.name = "scatter"
  <2>1. PICK n : n = Len(v.operands) \div 2
    OBVIOUS
  <2>2. n \in Nat /\ n <= Len(v.operands)
    <3>1. PICK m \in Nat : m = Len(v.operands)
      BY <1>2
    <3>2. m \div 2 \in Nat /\ m \div 2 <= m
      OBVIOUS
    <3> QED
      BY <2>1, <3>1, <3>2
  <2>3. PICK ts : ts = SubSeq(o.operands, 1, n)
    OBVIOUS
  <2>4. PICK us : us = SubSeq(v.operands, 1, n)
    OBVIOUS
  <2>5. SharperTypes(ts, us)
    BY <1>1, <2>2, <2>3, <2>4, SharperSubSeq
  <2>6. /\ inferReturnTypes(o) = inferScatterOp(ts, o.regions[1])
        /\ inferReturnTypes(v) = inferScatterOp(us, o.regions[1])
    BY <1>50, <1>1, <1>2, <2>1, <2>3, <2>4 DEF inferReturnTypes, UnaryOps, BinaryOps,
       ScatterOp_inferReturnTypes, ScatterInputs
  <2> QED
    BY <2>5, <2>6, ScatterSharpens
<1> QED
  BY <1>11, <1>12, <1>13, <1>14, <1>15, <1>16, <1>17, <1>18, <1>19, <1>20, <1>21, <1>22, <1>23, <1>24, <1>25, <1>26, <1>27, <1>28, <1>29, <1>30, <1>31, <1>32, <1>33, <1>34, <1>35, <1>36, <1>37, <1>38, <1>39, <1>40, <1>41, <1>42, <1>43, <1>44, <1>45, <1>46, <1>47, <1>48, <1>49, <1>50 DEF Elementary

-----------------------------------------------------------------------------
(* The steps of the compiler.                                              *)

LEMMA StepLearns ==
  ASSUME [Next]_vars
  PROVE  known \subseteq known' /\ UNCHANGED <<instance, bounded>>
<1>1. CASE UNCHANGED vars
  BY <1>1 DEF vars
<1>2. CASE Next
  BY <1>2 DEF Next, RefineOperand, FoldShapeOperand, DeclareResult, RefineReturnTypes, Learn
<1> QED
  BY <1>1, <1>2

InstanceInv == instance \in RuntimeOps

LEMMA InstanceStays == Spec => []InstanceInv
<1>1. Init => InstanceInv
  BY DEF Init, InstanceInv
<1>2. InstanceInv /\ [Next]_vars => InstanceInv'
  BY StepLearns DEF InstanceInv
<1> HIDE DEF Init, Next, InstanceInv
<1> QED
  BY <1>1, <1>2, PTL DEF Spec

\* The op that a step leaves is the op before with more known of it.
LEMMA MoreIsKnown ==
  ASSUME InstanceInv, [Next]_vars
  PROVE  SharperOp(op', op)
<1>1. /\ known \subseteq known' /\ UNCHANGED <<instance, bounded>>
      /\ instance \in RuntimeOps /\ instance' \in RuntimeOps
  BY StepLearns DEF InstanceInv
<1>2. RuntimeTypes(actual.operands) /\ RuntimeTypes(actual.results)
  BY <1>1, RuntimeAssumption DEF actual
<1>3. /\ op.name = actual.name /\ op.attrs = actual.attrs /\ op.regions = actual.regions
      /\ op.operands = ViewOfTypes("operand", actual.operands)
      /\ op.results = ViewOfTypes("result", actual.results)
  BY <1>1, KnownOp
<1>4. /\ op'.name = actual.name /\ op'.attrs = actual.attrs /\ op'.regions = actual.regions
      /\ op'.operands = ViewOfTypes("operand", actual.operands)'
      /\ op'.results = ViewOfTypes("result", actual.results)'
  <2>1. PICK o : o = actual
    OBVIOUS
  <2>2. o = [name |-> o.name, operands |-> o.operands, values |-> o.values,
             attrs |-> o.attrs, regions |-> o.regions, results |-> o.results]
    BY <1>1, <2>1, RuntimeAssumption DEF actual
  <2>3. \A a, b, c : LET e == [o EXCEPT !.operands = a, !.values = b, !.results = c]
                     IN  /\ e.name = o.name /\ e.attrs = o.attrs /\ e.regions = o.regions
                         /\ e.operands = a /\ e.results = c
    BY <2>2
  <2>4. actual' = o
    BY <1>1, <2>1 DEF actual
  <2> QED
    BY <1>1, <2>1, <2>3, <2>4 DEF op
<1>5. ASSUME NEW side, NEW types, RuntimeTypes(types)
      PROVE  SharperTypes(ViewOfTypes(side, types)', ViewOfTypes(side, types))
  BY <1>1, <1>5, KnownTypes
<1>6. PICK ins : ins = actual.operands
  OBVIOUS
<1>7. PICK outs : outs = actual.results
  OBVIOUS
<1>8. /\ op'.operands = ViewOfTypes("operand", ins)' /\ op'.results = ViewOfTypes("result", outs)'
      /\ op.operands = ViewOfTypes("operand", ins) /\ op.results = ViewOfTypes("result", outs)
  <2>1. actual'.operands = ins /\ actual'.results = outs
    BY <1>1, <1>6, <1>7 DEF actual
  <2> QED
    BY <1>3, <1>4, <1>6, <1>7, <2>1
<1>9. /\ SharperTypes(ViewOfTypes("operand", ins)', ViewOfTypes("operand", ins))
      /\ SharperTypes(ViewOfTypes("result", outs)', ViewOfTypes("result", outs))
  BY <1>2, <1>5, <1>6, <1>7
<1> QED
  BY <1>3, <1>4, <1>8, <1>9 DEF SharperOp

LEMMA SharperIsAccepted ==
  ASSUME NEW ts, NEW us, SharperTypes(ts, us), ts # Failure
  PROVE  us # Failure
<1>1. Len(ts) # 0
  BY DEF SharperTypes, Failure
<1> QED
  BY <1>1 DEF SharperTypes, Failure

LEMMA FormIsKept ==
  ASSUME NEW o, NEW v, SharperOp(o, v), IntegerAttrs(o), EnoughOperands(o), o.name \in Elementary
  PROVE  IntegerAttrs(v) /\ EnoughOperands(v) /\ v.name \in Elementary
<1>1. /\ o.name = v.name /\ o.attrs = v.attrs /\ o.regions = v.regions
      /\ SharperTypes(o.operands, v.operands)
  BY DEF SharperOp
<1>2. /\ Len(v.operands) \in Nat /\ Len(o.operands) = Len(v.operands)
      /\ \A i \in 1..Len(v.operands) : SharperType(o.operands[i], v.operands[i])
  BY <1>1, SharperTypesFacts
<1>3. IntegerAttrs(v) /\ v.name \in Elementary
  BY <1>1 DEF IntegerAttrs
<1>4. \A i \in 1..Len(v.operands) : Rank(o.operands[i]) = Rank(v.operands[i])
  BY <1>2, SharperDims
<1>5. EnoughOperands(v)
  BY <1>1, <1>2, <1>4 DEF EnoughOperands
<1> QED
  BY <1>3, <1>5

\* For an op whose inference is a formula over the operand types, every step
\* of the compiler that makes operand types more specific makes the types that
\* inferReturnTypes gives more specific: the sizes and the bounds that a pass
\* has written down stay right.
THEOREM InferenceOnlySharpens ==
  Spec /\ [](actual.name \in Elementary) => InferenceIsMonotone
<1> DEFINE Named == actual.name \in Elementary
           ActualInv == SharperOp(actual, op)
           Sharpened == actual.name \in Inferring /\ Valid(actual) /\ ~ LosesItsBounds =>
                          Sharpens(inferReturnTypes(op)', inferReturnTypes(op))
<1>1. InstanceInv => ActualInv
  BY ActualIsSharper DEF InstanceInv
<1>2. ASSUME InstanceInv, Named, ActualInv', [Next]_vars
      PROVE  Sharpened
  <2>1. SUFFICES ASSUME actual.name \in Inferring, Valid(actual)
                 PROVE  Sharpens(inferReturnTypes(op)', inferReturnTypes(op))
    OBVIOUS
  <2>2. PICK a : a = actual
    OBVIOUS
  <2>3. PICK v : v = op
    OBVIOUS
  <2>4. PICK w : w = op'
    OBVIOUS
  <2>5. actual' = a
    BY <1>2, <2>2, StepLearns DEF actual
  <2>6. SharperOp(a, w) /\ SharperOp(w, v)
    BY <1>2, <2>3, <2>4, <2>5, MoreIsKnown
  <2>7. a.name \in Elementary /\ IntegerAttrs(a) /\ EnoughOperands(a)
    BY <1>2, <2>2, RuntimeAssumption DEF actual, InstanceInv
  <2>8. inferReturnTypes(a) # Failure
    BY <2>1, <2>2, <2>7 DEF Valid, ResultsAgree, Elementary, Inferring
  <2>9. SharperTypes(inferReturnTypes(a), inferReturnTypes(w))
    BY <2>6, <2>7, <2>8, InferenceSharpens
  <2>10. inferReturnTypes(w) # Failure
    BY <2>8, <2>9, SharperIsAccepted
  <2>11. SharperTypes(inferReturnTypes(w), inferReturnTypes(v))
    BY <2>6, <2>7, <2>10, FormIsKept, InferenceSharpens
  <2>12. Sharpens(inferReturnTypes(w), inferReturnTypes(v))
    BY <2>11, SharperTypesFacts DEF Sharpens, SharperType
  <2> QED
    BY <2>3, <2>4, <2>12
<1>3. Spec => [](InstanceInv /\ ActualInv)
  <2> HIDE DEF ActualInv, InstanceInv, Spec
  <2> QED
    BY <1>1, InstanceStays, PTL
<1>4. InstanceInv /\ Named /\ ActualInv' /\ [Next]_vars => [Sharpened]_vars
  BY <1>2
<1>5. Spec /\ []Named => [][Sharpened]_vars
  <2> HIDE DEF Named, ActualInv, InstanceInv, Init, Next, Sharpened
  <2> QED
    BY <1>3, <1>4, PTL DEF Spec
<1> QED
  BY <1>5 DEF InferenceIsMonotone

-----------------------------------------------------------------------------
(* Inference from the types at run time.                                   *)

Unbounded(t) == \A d \in DOMAIN t.dims : t.dims[d].bound = kDynamic

\* The dimensions of a type at run time.
StaticDims(t) ==
  /\ t.dims = [d \in DOMAIN t.dims |-> t.dims[d]]
  /\ \A d \in DOMAIN t.dims : t.dims[d] \in [size : Nat, bound : {kDynamic}]

LEMMA OneIsUnbounded ==
  ASSUME NEW t, Unbounded(t)
  PROVE  \A i \in DOMAIN <<t>> : Unbounded(<<t>>[i])
OBVIOUS

\* No inference invents a bound: from types of known sizes come types without
\* bounds.
LEMMA InferenceAddsNoBound ==
  ASSUME NEW o, o.name \in Elementary, IntegerAttrs(o), EnoughOperands(o),
         RuntimeTypes(o.operands), inferReturnTypes(o) # Failure
  PROVE  \A i \in DOMAIN inferReturnTypes(o) : Unbounded(inferReturnTypes(o)[i])
<1>0. inferReturnTypes(o) # Failure
  OBVIOUS
<1>1. /\ Len(o.operands) \in Nat /\ DOMAIN o.operands = 1..Len(o.operands)
      /\ EnoughOperands(o)
  BY DEF RuntimeTypes
<1>2. \A i \in DOMAIN o.operands :
        /\ IsType(o.operands[i]) /\ Unbounded(o.operands[i]) /\ StaticDims(o.operands[i])
        /\ DOMAIN o.operands[i].dims = 1..Rank(o.operands[i]) /\ Rank(o.operands[i]) \in Nat
  <2> SUFFICES ASSUME NEW i \in DOMAIN o.operands
               PROVE  /\ IsType(o.operands[i]) /\ Unbounded(o.operands[i]) /\ StaticDims(o.operands[i])
                      /\ DOMAIN o.operands[i].dims = 1..Rank(o.operands[i])
                      /\ Rank(o.operands[i]) \in Nat
    OBVIOUS
  <2>1. PICK t : t = o.operands[i]
    OBVIOUS
  <2>2. /\ t = [et |-> t.et, dims |-> t.dims]
        /\ Len(t.dims) \in Nat /\ DOMAIN t.dims = 1..Len(t.dims)
        /\ t.dims = [d \in DOMAIN t.dims |-> t.dims[d]]
        /\ \A d \in DOMAIN t.dims : t.dims[d] \in [size : Nat, bound : {kDynamic}]
    BY <2>1, RuntimeDims
  <2>3. \A d \in DOMAIN t.dims : WellFormed(t.dims[d]) /\ t.dims[d] \in DimType
    BY <2>2 DEF WellFormed, DimType, Size
  <2>4. WellFormedType(t)
    BY <2>2, <2>3 DEF WellFormedType, WellFormed, verifyBounds
  <2> QED
    BY <2>1, <2>2, <2>4 DEF IsType, Unbounded, StaticDims, Rank
<1>3. \A et, sizes : Unbounded(Tensor(et, sizes))
  BY DEF Unbounded, Tensor
<1>4. \A i \in DOMAIN o.operands : \A et : Unbounded(WithElementType(o.operands[i], et))
  <2> SUFFICES ASSUME NEW i \in DOMAIN o.operands, NEW et
               PROVE  Unbounded(WithElementType(o.operands[i], et))
    OBVIOUS
  <2>1. PICK t : t = o.operands[i]
    OBVIOUS
  <2>2. t = [et |-> t.et, dims |-> t.dims] /\ Unbounded(t)
    BY <1>2, <2>1 DEF IsType
  <2>3. WithElementType(t, et) = [et |-> et, dims |-> t.dims]
    BY <2>2 DEF WithElementType
  <2> QED
    BY <2>1, <2>2, <2>3 DEF Unbounded
<1>5. Unbounded(TokenType)
  BY DEF Unbounded, TokenType
<1>11. CASE o.name = "abs"
  <2>1. inferReturnTypes(o) = <<createRealType(o.operands[1])>>
    BY <1>11, <1>0 DEF inferReturnTypes, UnaryOps, BinaryOps, AbsOp_inferReturnTypes, inferAbsOp
  <2>2. Unbounded(createRealType(o.operands[1]))
    BY <1>11, <1>1, <1>2, <1>4 DEF createRealType, EnoughOperands, UnaryOps, BinaryOps
  <2> QED
    BY <2>1, <2>2, OneIsUnbounded
<1>12. CASE o.name = "real"
  <2>1. inferReturnTypes(o) = <<createRealType(o.operands[1])>>
    BY <1>12, <1>0 DEF inferReturnTypes, UnaryOps, BinaryOps, RealOp_inferReturnTypes, inferRealOp
  <2>2. Unbounded(createRealType(o.operands[1]))
    BY <1>12, <1>1, <1>2, <1>4 DEF createRealType, EnoughOperands, UnaryOps, BinaryOps
  <2> QED
    BY <2>1, <2>2, OneIsUnbounded
<1>13. CASE o.name = "imag"
  <2>1. inferReturnTypes(o) = <<createRealType(o.operands[1])>>
    BY <1>13, <1>0 DEF inferReturnTypes, UnaryOps, BinaryOps, ImagOp_inferReturnTypes, inferImagOp
  <2>2. Unbounded(createRealType(o.operands[1]))
    BY <1>13, <1>1, <1>2, <1>4 DEF createRealType, EnoughOperands, UnaryOps, BinaryOps
  <2> QED
    BY <2>1, <2>2, OneIsUnbounded
<1>14. CASE o.name = "is_finite"
  <2>1. inferReturnTypes(o) = <<WithElementType(o.operands[1], I(1))>>
    BY <1>14, <1>0 DEF inferReturnTypes, UnaryOps, BinaryOps, IsFiniteOp_inferReturnTypes, inferIsFiniteOp
  <2>2. Unbounded(WithElementType(o.operands[1], I(1)))
    BY <1>14, <1>1, <1>2, <1>4 DEF EnoughOperands, UnaryOps, BinaryOps
  <2> QED
    BY <2>1, <2>2, OneIsUnbounded
<1>15. CASE o.name = "convert"
  <2>1. inferReturnTypes(o) = <<WithElementType(o.operands[1], NoElementType)>>
    BY <1>15, <1>0 DEF inferReturnTypes, UnaryOps, BinaryOps, ConvertOp_build, inferConvertOp
  <2>2. Unbounded(WithElementType(o.operands[1], NoElementType))
    BY <1>15, <1>1, <1>2, <1>4 DEF EnoughOperands, UnaryOps, BinaryOps
  <2> QED
    BY <2>1, <2>2, OneIsUnbounded
<1>16. CASE o.name = "compare"
  <2>1. inferReturnTypes(o) = <<WithElementType(o.operands[1], I(1))>>
    BY <1>16, <1>0 DEF inferReturnTypes, UnaryOps, BinaryOps, CompareOp_inferReturnTypeComponents, inferCompareOp
  <2>2. Unbounded(WithElementType(o.operands[1], I(1)))
    BY <1>16, <1>1, <1>2, <1>4 DEF EnoughOperands, UnaryOps, BinaryOps
  <2> QED
    BY <2>1, <2>2, OneIsUnbounded
<1>17. CASE o.name = "complex"
  <2>1. inferReturnTypes(o) = <<WithElementType(o.operands[1], C(o.operands[1].et.w))>>
    BY <1>17, <1>0 DEF inferReturnTypes, UnaryOps, BinaryOps, ComplexOp_inferReturnTypes, inferComplexOp
  <2>2. Unbounded(WithElementType(o.operands[1], C(o.operands[1].et.w)))
    BY <1>17, <1>1, <1>2, <1>4 DEF EnoughOperands, UnaryOps, BinaryOps
  <2> QED
    BY <2>1, <2>2, OneIsUnbounded
<1>18. CASE o.name = "uniform_dequantize"
  <2>1. inferReturnTypes(o) = <<Tensor(o.operands[1].et.expressed, Sizes(o.operands[1]))>>
    BY <1>18, <1>0 DEF inferReturnTypes, UnaryOps, BinaryOps, UniformDequantizeOp_inferReturnTypeComponents, inferUniformDequantizeOp
  <2>2. Unbounded(Tensor(o.operands[1].et.expressed, Sizes(o.operands[1])))
    BY <1>18, <1>3
  <2> QED
    BY <2>1, <2>2, OneIsUnbounded
<1>19. CASE o.name = "broadcast"
  <2>1. inferReturnTypes(o) = <<Tensor(o.operands[1].et, o.attrs.broadcastSizes \o Sizes(o.operands[1]))>>
    BY <1>19, <1>0 DEF inferReturnTypes, UnaryOps, BinaryOps, BroadcastOp_inferReturnTypeComponents, inferBroadcastOp, If
  <2>2. Unbounded(Tensor(o.operands[1].et, o.attrs.broadcastSizes \o Sizes(o.operands[1])))
    BY <1>19, <1>3
  <2> QED
    BY <2>1, <2>2, OneIsUnbounded
<1>20. CASE o.name = "dynamic_slice"
  <2>1. inferReturnTypes(o) = <<Tensor(o.operands[1].et, o.attrs.sliceSizes)>>
    BY <1>20, <1>0 DEF inferReturnTypes, UnaryOps, BinaryOps, DynamicSliceOp_inferReturnTypeComponents, inferDynamicSliceOp, If
  <2>2. Unbounded(Tensor(o.operands[1].et, o.attrs.sliceSizes))
    BY <1>20, <1>3
  <2> QED
    BY <2>1, <2>2, OneIsUnbounded
<1>21. CASE o.name = "map"
  <2>1. inferReturnTypes(o) = <<Tensor(o.regions[1].returns[1].et, Sizes(Last(o.operands)))>>
    BY <1>21, <1>0 DEF inferReturnTypes, UnaryOps, BinaryOps, MapOp_inferReturnTypeComponents, inferMapOp, If
  <2>2. Unbounded(Tensor(o.regions[1].returns[1].et, Sizes(Last(o.operands))))
    BY <1>21, <1>3
  <2> QED
    BY <2>1, <2>2, OneIsUnbounded
<1>22. CASE o.name = "get_dimension_size"
  <2>1. inferReturnTypes(o) = <<Tensor(I(32), << >>)>>
    BY <1>22, <1>0 DEF inferReturnTypes, UnaryOps, BinaryOps, GetDimensionSizeOp_inferReturnTypeComponents, inferGetDimensionSizeOp, If
  <2>2. Unbounded(Tensor(I(32), << >>))
    BY <1>22, <1>3
  <2> QED
    BY <2>1, <2>2, OneIsUnbounded
<1>23. CASE o.name = "replica_id"
  <2>1. inferReturnTypes(o) = <<Tensor(U(32), << >>)>>
    BY <1>23, <1>0 DEF inferReturnTypes, UnaryOps, BinaryOps, ReplicaIdOp_inferReturnTypes, inferReplicaIdOp
  <2>2. Unbounded(Tensor(U(32), << >>))
    BY <1>23, <1>3
  <2> QED
    BY <2>1, <2>2, OneIsUnbounded
<1>24. CASE o.name = "partition_id"
  <2>1. inferReturnTypes(o) = <<Tensor(U(32), << >>)>>
    BY <1>24, <1>0 DEF inferReturnTypes, UnaryOps, BinaryOps, PartitionIdOp_inferReturnTypes, inferPartitionIdOp
  <2>2. Unbounded(Tensor(U(32), << >>))
    BY <1>24, <1>3
  <2> QED
    BY <2>1, <2>2, OneIsUnbounded
<1>25. CASE o.name = "slice"
  <2>1. inferReturnTypes(o) = <<Tensor(o.operands[1].et, [i \in DOMAIN o.attrs.start |-> (o.attrs.limit[i] - o.attrs.start[i] + o.attrs.strides[i] - 1)
                              \div o.attrs.strides[i]])>>
    BY <1>25, <1>0 DEF inferReturnTypes, UnaryOps, BinaryOps, SliceOp_inferReturnTypes, inferSliceOp, If
  <2>2. Unbounded(Tensor(o.operands[1].et, [i \in DOMAIN o.attrs.start |-> (o.attrs.limit[i] - o.attrs.start[i] + o.attrs.strides[i] - 1)
                              \div o.attrs.strides[i]]))
    BY <1>25, <1>3
  <2> QED
    BY <2>1, <2>2, OneIsUnbounded
<1>26. CASE o.name = "after_all"
  <2>1. inferReturnTypes(o) = <<TokenType>>
    BY <1>26, <1>0 DEF inferReturnTypes, UnaryOps, BinaryOps, AfterAllOp_inferReturnTypes, inferAfterAllOp
  <2>2. Unbounded(TokenType)
    BY <1>26, <1>5
  <2> QED
    BY <2>1, <2>2, OneIsUnbounded
<1>27. CASE o.name = "create_token"
  <2>1. inferReturnTypes(o) = <<TokenType>>
    BY <1>27, <1>0 DEF inferReturnTypes, UnaryOps, BinaryOps, CreateTokenOp_inferReturnTypes, inferCreateTokenOp
  <2>2. Unbounded(TokenType)
    BY <1>27, <1>5
  <2> QED
    BY <2>1, <2>2, OneIsUnbounded
<1>28. CASE o.name = "outfeed"
  <2>1. inferReturnTypes(o) = <<TokenType>>
    BY <1>28, <1>0 DEF inferReturnTypes, UnaryOps, BinaryOps, OutfeedOp_inferReturnTypes, inferOutfeedOp
  <2>2. Unbounded(TokenType)
    BY <1>28, <1>5
  <2> QED
    BY <2>1, <2>2, OneIsUnbounded
<1>29. CASE o.name = "send"
  <2>1. inferReturnTypes(o) = <<TokenType>>
    BY <1>29, <1>0 DEF inferReturnTypes, UnaryOps, BinaryOps, SendOp_inferReturnTypes, inferSendOp, If
  <2>2. Unbounded(TokenType)
    BY <1>29, <1>5
  <2> QED
    BY <2>1, <2>2, OneIsUnbounded
<1>30. CASE o.name = "reverse"
  <2>1. inferReturnTypes(o) = <<o.operands[1]>>
    BY <1>30, <1>0 DEF inferReturnTypes, UnaryOps, BinaryOps, ReverseOp_inferReturnTypes, inferReverseOp
  <2>2. Unbounded(o.operands[1])
    BY <1>30, <1>1, <1>2 DEF EnoughOperands, UnaryOps, BinaryOps
  <2> QED
    BY <2>1, <2>2, OneIsUnbounded
<1>31. CASE o.name = "cholesky"
  <2>1. inferReturnTypes(o) = <<o.operands[1]>>
    BY <1>31, <1>0 DEF inferReturnTypes, UnaryOps, BinaryOps, CholeskyOp_inferReturnTypeComponents, inferCholeskyOp, If
  <2>2. Unbounded(o.operands[1])
    BY <1>31, <1>1, <1>2 DEF EnoughOperands, UnaryOps, BinaryOps
  <2> QED
    BY <2>1, <2>2, OneIsUnbounded
<1>32. CASE o.name = "triangular_solve"
  <2>1. inferReturnTypes(o) = <<o.operands[2]>>
    BY <1>32, <1>0 DEF inferReturnTypes, UnaryOps, BinaryOps, TriangularSolveOp_inferReturnTypeComponents, inferTriangularSolveOp, If
  <2>2. Unbounded(o.operands[2])
    BY <1>32, <1>1, <1>2 DEF EnoughOperands, UnaryOps, BinaryOps
  <2> QED
    BY <2>1, <2>2, OneIsUnbounded
<1>33. CASE o.name = "clamp"
  <2>1. inferReturnTypes(o) = <<o.operands[2]>>
    BY <1>33, <1>0 DEF inferReturnTypes, UnaryOps, BinaryOps, ClampOp_inferReturnTypeComponents, inferClampOp, If
  <2>2. Unbounded(o.operands[2])
    BY <1>33, <1>1, <1>2 DEF EnoughOperands, UnaryOps, BinaryOps
  <2> QED
    BY <2>1, <2>2, OneIsUnbounded
<1>34. CASE o.name = "dynamic_update_slice"
  <2>1. inferReturnTypes(o) = <<o.operands[1]>>
    BY <1>34, <1>0 DEF inferReturnTypes, UnaryOps, BinaryOps, DynamicUpdateSliceOp_inferReturnTypeComponents, inferDynamicUpdateSliceOp, If
  <2>2. Unbounded(o.operands[1])
    BY <1>34, <1>1, <1>2 DEF EnoughOperands, UnaryOps, BinaryOps
  <2> QED
    BY <2>1, <2>2, OneIsUnbounded
<1>35. CASE o.name = "sort"
  BY <1>35, <1>2 DEF inferReturnTypes, UnaryOps, BinaryOps, SortOp_inferReturnTypeComponents, inferSortOp
<1>36. CASE o.name = "tuple"
  BY <1>36, <1>2 DEF inferReturnTypes, UnaryOps, BinaryOps, TupleOp_inferReturnTypes, inferTupleOp
<1>37. CASE o.name = "while"
  BY <1>37, <1>2 DEF inferReturnTypes, UnaryOps, BinaryOps, WhileOp_inferReturnTypes, inferWhileOp
<1>38. CASE o.name = "collective_permute"
  BY <1>38, <1>2 DEF inferReturnTypes, UnaryOps, BinaryOps, CollectivePermuteOp_inferReturnTypes, inferCollectivePermuteOp
<1>39. CASE o.name = "optimization_barrier"
  BY <1>39, <1>2 DEF inferReturnTypes, UnaryOps, BinaryOps, OptimizationBarrierOp_inferReturnTypes, inferOptimizationBarrierOp
<1>40. CASE o.name = "get_tuple_element"
  <2>1. inferReturnTypes(o) = inferGetTupleElementOp(o.operands, o.attrs.index)
    BY <1>40 DEF inferReturnTypes, UnaryOps, BinaryOps, GetTupleElementOp_inferReturnTypes
  <2>2. /\ o.attrs.index + 1 \in DOMAIN o.operands
        /\ inferReturnTypes(o) = <<o.operands[o.attrs.index + 1]>>
    BY <1>40, <1>0, <1>1, <2>1 DEF inferGetTupleElementOp, If, IntegerAttrs
  <2> QED
    BY <1>2, <2>2, OneIsUnbounded
<1>41. CASE o.name = "select_and_scatter"
  <2>1. PICK et : et = getAccumulatorTypesOrInputTypes(o.regions[2], <<o.operands[1]>>)[1].et
    OBVIOUS
  <2>2. inferReturnTypes(o) = <<WithElementType(o.operands[1], et)>>
    BY <2>1, <1>41 DEF inferReturnTypes, UnaryOps, BinaryOps, SelectAndScatterOp_inferReturnTypes, inferSelectAndScatterOp
  <2>3. Unbounded(WithElementType(o.operands[1], et))
    <3>1. 1 \in DOMAIN o.operands
      BY <1>41, <1>1 DEF EnoughOperands
    <3> QED
      BY <1>4, <3>1
  <2> QED
    BY <2>2, <2>3, OneIsUnbounded
<1>42. CASE o.name = "all_reduce"
  <2>1. PICK et : inferReturnTypes(o) = [i \in DOMAIN o.operands |-> WithElementType(o.operands[i], et)]
    BY <1>42 DEF inferReturnTypes, UnaryOps, BinaryOps, AllReduceOp_inferReturnTypeComponents, inferAllReduceOp
  <2> QED
    BY <1>4, <2>1
<1>43. CASE o.name = "scatter"
  <2>1. PICK n : n = Len(o.operands) \div 2
    OBVIOUS
  <2>2. n \in Nat /\ n <= Len(o.operands)
    <3>1. PICK m \in Nat : m = Len(o.operands)
      BY <1>1
    <3>2. m \div 2 \in Nat /\ m \div 2 <= m
      OBVIOUS
    <3> QED
      BY <2>1, <3>1, <3>2
  <2>3. PICK ts : ts = SubSeq(o.operands, 1, n)
    OBVIOUS
  <2>4. ts = [i \in 1..n |-> o.operands[i]]
    BY <1>1, <2>2, <2>3
  <2>5. PICK as : as = getAccumulatorTypesOrInputTypes(o.regions[1], ts)
    OBVIOUS
  <2>6. inferReturnTypes(o) = [i \in DOMAIN ts |-> WithElementType(ts[i], as[i].et)]
    BY <1>43, <2>1, <2>3, <2>5 DEF inferReturnTypes, UnaryOps, BinaryOps, ScatterOp_inferReturnTypes, ScatterInputs,
       inferScatterOp
  <2>7. ASSUME NEW i \in DOMAIN ts PROVE Unbounded(inferReturnTypes(o)[i])
    <3>1. i \in DOMAIN o.operands /\ ts[i] = o.operands[i]
      BY <1>1, <2>2, <2>4
    <3>2. Unbounded(WithElementType(ts[i], as[i].et))
      BY <1>4, <3>1
    <3> QED
      BY <2>6, <3>2
  <2> QED
    BY <2>6, <2>7
<1>44. CASE o.name = "transpose"
  <2>1. PICK t : t = o.operands[1]
    OBVIOUS
  <2>2. PICK perm : perm = o.attrs.permutation
    OBVIOUS
  <2>3. /\ IsType(t) /\ Unbounded(t) /\ DOMAIN t.dims = 1..Rank(t) /\ Rank(t) \in Nat
        /\ perm \in Seq(Int)
    BY <1>44, <1>1, <1>2, <2>1, <2>2 DEF EnoughOperands, IntegerAttrs, UnaryOps, BinaryOps
  <2>4. PICK ds : ds = [i \in DOMAIN perm |-> DimAt(t, perm[i])]
    OBVIOUS
  <2>5. /\ inferReturnTypes(o) = <<[t EXCEPT !.dims = ds]>>
        /\ SeqToSet(perm) = 0..(Rank(t) - 1)
    BY <1>44, <1>0, <2>1, <2>2, <2>4 DEF inferReturnTypes, UnaryOps, BinaryOps, TransposeOp_inferReturnTypes,
       inferTransposeOp, If
  <2>6. [t EXCEPT !.dims = ds] = [et |-> t.et, dims |-> ds]
    BY <2>3 DEF IsType
  <2>7. Unbounded([et |-> t.et, dims |-> ds])
    <3>1. ASSUME NEW i \in DOMAIN perm PROVE ds[i].bound = kDynamic
      <4>1. perm[i] \in 0..(Rank(t) - 1)
        BY <2>5 DEF SeqToSet
      <4>2. perm[i] + 1 \in DOMAIN t.dims
        BY <2>3, <4>1
      <4> QED
        BY <2>3, <2>4, <4>2 DEF DimAt, Unbounded
    <3> QED
      BY <2>4, <3>1 DEF Unbounded
  <2> QED
    BY <2>5, <2>6, <2>7, OneIsUnbounded
<1>45. CASE o.name = "pad"
  <2>1. PICK t : t = o.operands[1]
    OBVIOUS
  <2>2. PICK low : low = o.attrs.low
    OBVIOUS
  <2>3. PICK high : high = o.attrs.high
    OBVIOUS
  <2>4. PICK interior : interior = o.attrs.interior
    OBVIOUS
  <2>5. StaticDims(t)
    BY <1>45, <1>1, <1>2, <2>1 DEF EnoughOperands, UnaryOps, BinaryOps
  <2>6. PICK ds : ds = [i \in DOMAIN t.dims |-> PaddedDim(t.dims[i], low[i], high[i], interior[i])]
    OBVIOUS
  <2>7. inferReturnTypes(o) = inferPadOp(t, low, high, interior)
    BY <1>45, <2>1, <2>2, <2>3, <2>4 DEF inferReturnTypes, UnaryOps, BinaryOps, PadOp_inferReturnTypes
  <2>8. inferPadOp(t, low, high, interior) = <<[et |-> t.et, dims |-> ds]>>
    BY <1>0, <2>6, <2>7 DEF inferPadOp, If, PaddedDim, PaddingFits, PaddedSize, Reach
  <2>9. \A i \in DOMAIN t.dims : ds[i].bound = kDynamic
    BY <2>5, <2>6 DEF StaticDims, PaddedDim
  <2>10. Unbounded([et |-> t.et, dims |-> ds])
    BY <2>6, <2>9 DEF Unbounded
  <2> QED
    BY <2>7, <2>8, <2>10, OneIsUnbounded
<1>46. CASE o.name = "dot"
  <2>1. PICK t : t = o.operands[1]
    OBVIOUS
  <2>2. PICK b : b = o.operands[2]
    OBVIOUS
  <2>3. /\ Unbounded(t) /\ DOMAIN t.dims = 1..Rank(t) /\ Unbounded(b) /\ DOMAIN b.dims = 1..Rank(b)
    BY <1>46, <1>1, <1>2, <2>1, <2>2 DEF EnoughOperands, UnaryOps, BinaryOps
  <2>4. PICK x : x = (IF Rank(t) = 2 THEN <<DimAt(t, 0)>> ELSE << >>)
    OBVIOUS
  <2>5. PICK y : y = (IF Rank(b) = 2 THEN <<DimAt(b, 1)>> ELSE << >>)
    OBVIOUS
  <2>6. inferReturnTypes(o) = <<[et |-> NoElementType, dims |-> x \o y]>>
    BY <1>46, <1>0, <2>1, <2>2, <2>4, <2>5 DEF inferReturnTypes, UnaryOps, BinaryOps, DotOp_inferReturnTypeComponents,
       inferDotOp, If
  <2>7. Unbounded([et |-> NoElementType, dims |-> x \o y])
    <3>1. /\ Rank(t) = 2 => DimAt(t, 0).bound = kDynamic
          /\ Rank(b) = 2 => DimAt(b, 1).bound = kDynamic
      BY <2>3 DEF Unbounded, DimAt
    <3>2. PICK D : D = {e \in {DimAt(t, 0), DimAt(b, 1)} : e.bound = kDynamic}
      OBVIOUS
    <3>3. << >> \in Seq(D) /\ \A e \in D : <<e>> \in Seq(D)
      OBVIOUS
    <3>4. /\ Rank(t) = 2 => DimAt(t, 0) \in D
          /\ Rank(b) = 2 => DimAt(b, 1) \in D
      BY <3>1, <3>2
    <3>5. x \in Seq(D) /\ y \in Seq(D)
      BY <2>4, <2>5, <3>3, <3>4
    <3>6. x \o y \in Seq(D)
      BY <3>5
    <3>7. \A i \in DOMAIN (x \o y) : (x \o y)[i] \in D
      <4>1. PICK z \in Seq(D) : z = x \o y
        BY <3>6
      <4> QED
        BY <4>1
    <3> QED
      BY <3>2, <3>7 DEF Unbounded
  <2> QED
    BY <2>6, <2>7, OneIsUnbounded
<1>47. CASE o.name = "all_to_all"
  <2>1. PICK ts : ts = o.operands
    OBVIOUS
  <2>2. PICK p \in Nat : p = o.attrs.splitDimension
    BY <1>47 DEF IntegerAttrs
  <2>3. PICK q \in Nat : q = o.attrs.concatDimension
    BY <1>47 DEF IntegerAttrs
  <2>4. PICK k : k = o.attrs.splitCount
    OBVIOUS
  <2>5. inferReturnTypes(o) = inferAllToAllOp(ts, p, q, k, o.attrs.replicaGroups)
    BY <1>47, <2>1, <2>2, <2>3, <2>4 DEF inferReturnTypes, UnaryOps, BinaryOps, AllToAllOp_inferReturnTypeComponents
  <2>6. /\ inferReturnTypes(o) = [i \in DOMAIN ts |-> AllToAllType(ts[i], p, q, k)]
        /\ \A i \in DOMAIN ts : AllToAllFits(ts[i], p, q, k)
    <3>1. \A i \in DOMAIN ts : IsType(ts[i])
      BY <1>2, <2>1
    <3>2. inferAllToAllOp(ts, p, q, k, o.attrs.replicaGroups) =
            IF /\ verifyReplicaGroups(o.attrs.replicaGroups, TRUE, FALSE, k)
               /\ \A i \in DOMAIN ts : AllToAllFits(ts[i], p, q, k)
            THEN [i \in DOMAIN ts |-> AllToAllType(ts[i], p, q, k)]
            ELSE Failure
      BY <3>1, AllToAllTypes
    <3> QED
      BY <1>0, <2>5, <3>2
  <2>7. ASSUME NEW i \in DOMAIN ts PROVE Unbounded(AllToAllType(ts[i], p, q, k))
    <3>1. PICK ds : ds = ts[i].dims
      OBVIOUS
    <3>2. /\ ds = [j \in DOMAIN ds |-> ds[j]] /\ \A j \in DOMAIN ds : ds[j].bound = kDynamic
      BY <1>2, <2>1, <2>7, <3>1 DEF Unbounded, StaticDims
    <3>3. PICK es : es = PartedDims(ds, p, k)
      OBVIOUS
    <3>4. /\ es = [j \in DOMAIN ds |-> es[j]] /\ \A j \in DOMAIN ds : es[j].bound = kDynamic
      BY <3>2, <3>3 DEF PartedDims, SplitDim, SplitSize
    <3>5. PICK fs : fs = JoinedDims(es, q, k)
      OBVIOUS
    <3>6. DOMAIN fs = DOMAIN ds /\ \A j \in DOMAIN ds : fs[j].bound = kDynamic
      BY <3>4, <3>5 DEF JoinedDims, JoinDim, JoinSize
    <3> QED
      BY <3>1, <3>3, <3>5, <3>6 DEF AllToAllType, AllToAllDims, Unbounded
  <2> QED
    BY <2>6, <2>7
<1>48. CASE o.name = "batch_norm_grad"
  <2>1. PICK t : t = o.operands[1]
    OBVIOUS
  <2>2. PICK ts : ts = <<o.operands[1], o.operands[5]>>
    OBVIOUS
  <2>3. PICK xs : xs = <<o.operands[2], o.operands[3], o.operands[4]>>
    OBVIOUS
  <2>4. PICK k : k = o.attrs.featureIndex
    OBVIOUS
  <2>5. inferReturnTypes(o) = inferBatchNormOp(ts, xs, k, FALSE) /\ ts[1] = t
    BY <1>48, <2>1, <2>2, <2>3, <2>4 DEF inferReturnTypes, UnaryOps, BinaryOps, BatchNormGradOp_inferReturnTypeComponents,
       inferBatchNormGradOp
  <2>6. /\ Unbounded(t) /\ DOMAIN t.dims = 1..Rank(t) /\ Rank(t) \in Nat /\ k \in Nat
    BY <1>48, <1>1, <1>2, <2>1, <2>4 DEF EnoughOperands, IntegerAttrs, UnaryOps, BinaryOps
  <2>7. PICK f : f = [et |-> t.et, dims |-> <<DimAt(t, k)>>]
    OBVIOUS
  <2>8. inferReturnTypes(o) = <<t, f, f>> /\ k < Rank(t)
    BY <1>0, <2>5, <2>7 DEF inferBatchNormOp, verifyBatchNorm
  <2>9. Unbounded(f)
    <3>1. k + 1 \in DOMAIN t.dims
      BY <2>6, <2>8
    <3>2. DimAt(t, k).bound = kDynamic
      BY <2>6, <3>1 DEF Unbounded, DimAt
    <3> QED
      BY <2>7, <3>2 DEF Unbounded
  <2> QED
    BY <2>6, <2>8, <2>9
<1>49. CASE o.name = "batch_norm_training"
  <2>1. PICK t : t = o.operands[1]
    OBVIOUS
  <2>2. PICK ts : ts = <<o.operands[1]>>
    OBVIOUS
  <2>3. PICK xs : xs = <<o.operands[2], o.operands[3]>>
    OBVIOUS
  <2>4. PICK k : k = o.attrs.featureIndex
    OBVIOUS
  <2>5. inferReturnTypes(o) = inferBatchNormOp(ts, xs, k, FALSE) /\ ts[1] = t
    BY <1>49, <2>1, <2>2, <2>3, <2>4 DEF inferReturnTypes, UnaryOps, BinaryOps, BatchNormTrainingOp_inferReturnTypeComponents,
       inferBatchNormTrainingOp
  <2>6. /\ Unbounded(t) /\ DOMAIN t.dims = 1..Rank(t) /\ Rank(t) \in Nat /\ k \in Nat
    BY <1>49, <1>1, <1>2, <2>1, <2>4 DEF EnoughOperands, IntegerAttrs, UnaryOps, BinaryOps
  <2>7. PICK f : f = [et |-> t.et, dims |-> <<DimAt(t, k)>>]
    OBVIOUS
  <2>8. inferReturnTypes(o) = <<t, f, f>> /\ k < Rank(t)
    BY <1>0, <2>5, <2>7 DEF inferBatchNormOp, verifyBatchNorm
  <2>9. Unbounded(f)
    <3>1. k + 1 \in DOMAIN t.dims
      BY <2>6, <2>8
    <3>2. DimAt(t, k).bound = kDynamic
      BY <2>6, <3>1 DEF Unbounded, DimAt
    <3> QED
      BY <2>7, <3>2 DEF Unbounded
  <2> QED
    BY <2>6, <2>8, <2>9
<1>50. CASE o.name = "batch_norm_inference"
  <2>1. PICK t : t = o.operands[1]
    OBVIOUS
  <2>2. PICK ts : ts = <<o.operands[1]>>
    OBVIOUS
  <2>3. PICK xs : xs = <<o.operands[2], o.operands[3], o.operands[4], o.operands[5]>>
    OBVIOUS
  <2>4. PICK k : k = o.attrs.featureIndex
    OBVIOUS
  <2>5. inferReturnTypes(o) = inferBatchNormOp(ts, xs, k, TRUE) /\ ts[1] = t
    BY <1>50, <2>1, <2>2, <2>3, <2>4 DEF inferReturnTypes, UnaryOps, BinaryOps, BatchNormInferenceOp_inferReturnTypeComponents,
       inferBatchNormInferenceOp
  <2>6. /\ Unbounded(t) /\ DOMAIN t.dims = 1..Rank(t) /\ Rank(t) \in Nat /\ k \in Nat
    BY <1>50, <1>1, <1>2, <2>1, <2>4 DEF EnoughOperands, IntegerAttrs, UnaryOps, BinaryOps
  <2>7. inferReturnTypes(o) = <<t>>
    BY <1>0, <2>5 DEF inferBatchNormOp
  <2> QED
    BY <2>6, <2>7, OneIsUnbounded
<1> QED
  BY <1>11, <1>12, <1>13, <1>14, <1>15, <1>16, <1>17, <1>18, <1>19, <1>20, <1>21, <1>22, <1>23, <1>24, <1>25, <1>26, <1>27, <1>28, <1>29, <1>30, <1>31, <1>32, <1>33, <1>34, <1>35, <1>36, <1>37, <1>38, <1>39, <1>40, <1>41, <1>42, <1>43, <1>44, <1>45, <1>46, <1>47, <1>48, <1>49, <1>50 DEF Elementary

\* A declared result of known sizes that agrees with an inferred type without
\* bounds is one that the type admits.
LEMMA AgreeingIsSharper ==
  ASSUME NEW rs, RuntimeTypes(rs), NEW i \in DOMAIN rs, NEW x, NEW u, SharperType(x, u),
         Unbounded(x), verifyCompatibleShape(x, rs[i])
  PROVE  Refines(rs[i], u)
<1>1. PICK r : r = rs[i]
  OBVIOUS
<1>2. /\ DOMAIN r.dims = 1..Len(r.dims)
      /\ \A d \in DOMAIN r.dims : r.dims[d] \in [size : Nat, bound : {kDynamic}]
  BY <1>1, RuntimeDims
<1>3. /\ Rank(x) = Rank(u) /\ DOMAIN x.dims = 1..Rank(u)
      /\ \A d \in 1..Rank(u) : /\ WellFormed(x.dims[d]) /\ WellFormed(u.dims[d])
                               /\ DimRefines(x.dims[d], u.dims[d])
  BY SharperDims
<1>4. Rank(r) = Rank(u) /\ DOMAIN r.dims = 1..Rank(u)
  BY <1>1, <1>2, <1>3 DEF verifyCompatibleShape, Rank
<1>5. ASSUME NEW d \in 1..Rank(u) PROVE DimRefines(r.dims[d], u.dims[d])
  <2>1. r.dims[d] \in [size : Nat, bound : {kDynamic}] /\ x.dims[d].bound = kDynamic
    BY <1>2, <1>3, <1>4 DEF Unbounded
  <2>2. isDynamicDimSize(x.dims[d].size) \/ x.dims[d].size = r.dims[d].size
    BY <1>1, <1>3, <2>1 DEF verifyCompatibleShape
  <2>3. WellFormed(r.dims[d]) /\ DimRefines(r.dims[d], x.dims[d])
    BY <2>1, <2>2 DEF WellFormed, DimType, Size, DimRefines, Admits
  <2> QED
    BY <1>3, <2>3, RefinesTransitive
<1> QED
  BY <1>1, <1>4, <1>5 DEF Refines

\* For an op whose inference is a formula over the operand types, whatever is
\* unknown of the operands and whatever bounds they have, the execution meets
\* result shapes that the inferred types admit.
THEOREM InferenceAdmitsExecution == Spec => [](actual.name \in Elementary => InferenceIsSound)
<1> DEFINE Sound == actual.name \in Elementary => InferenceIsSound
<1>1. InstanceInv => Sound
  <2> SUFFICES ASSUME InstanceInv, actual.name \in Elementary, actual.name \in Inferring, Valid(actual)
               PROVE  /\ Sharpens(actual.results, inferReturnTypes(op))
                      /\ Sharpens(inferReturnTypes(actual), inferReturnTypes(op))
    BY DEF InferenceIsSound
  <2>1. PICK a : a = actual
    OBVIOUS
  <2>2. PICK v : v = op
    OBVIOUS
  <2>3. /\ a.name \in Elementary /\ IntegerAttrs(a) /\ EnoughOperands(a)
        /\ RuntimeTypes(a.operands) /\ RuntimeTypes(a.results)
    BY <2>1, RuntimeAssumption DEF actual, InstanceInv
  <2>4. SharperOp(a, v)
    BY <2>1, <2>2, ActualIsSharper DEF InstanceInv
  <2>5. PICK xs : xs = inferReturnTypes(a)
    OBVIOUS
  <2>6. PICK us : us = inferReturnTypes(v)
    OBVIOUS
  <2>7. ResultsAgree(xs, a.results)
    <3>1. a.name \in Inferring /\ Valid(a)
      BY <2>1
    <3> QED
      BY <2>5, <3>1 DEF Valid
  <2>8. xs # Failure
    BY <2>7 DEF ResultsAgree
  <2>9. SharperTypes(xs, us)
    BY <2>3, <2>4, <2>5, <2>6, <2>8, InferenceSharpens
  <2>10. /\ Len(us) \in Nat /\ Len(xs) = Len(us) /\ DOMAIN xs = 1..Len(us) /\ DOMAIN us = 1..Len(us)
         /\ \A i \in 1..Len(us) : SharperType(xs[i], us[i])
    BY <2>9, SharperTypesFacts
  <2>11. \A i \in DOMAIN xs : Unbounded(xs[i])
    BY <2>3, <2>5, <2>8, InferenceAddsNoBound
  <2>12. Sharpens(xs, us)
    BY <2>10 DEF Sharpens, SharperType
  <2>13. ASSUME NEW i \in DOMAIN us PROVE Refines(a.results[i], us[i])
    <3>1. i \in DOMAIN a.results /\ i \in DOMAIN xs
      <4>1. a.results \in Seq(ToSet(a.results))
        BY <2>3 DEF RuntimeTypes
      <4>2. DOMAIN a.results = 1..Len(a.results)
        BY <4>1
      <4>3. Len(a.results) = Len(us)
        BY <2>7, <2>10 DEF ResultsAgree
      <4> QED
        BY <2>10, <2>13, <4>2, <4>3
    <3>2. verifyCompatibleShape(xs[i], a.results[i])
      BY <2>7, <3>1 DEF ResultsAgree, isCompatibleForHloTypeInference, verifyCompatibleShapeWithBounds
    <3>3. SharperType(xs[i], us[i]) /\ Unbounded(xs[i])
      BY <2>10, <2>11, <3>1
    <3> QED
      BY <2>3, <3>1, <3>2, <3>3, AgreeingIsSharper
  <2>14. Sharpens(a.results, us)
    BY <2>13 DEF Sharpens
  <2> QED
    BY <2>1, <2>2, <2>5, <2>6, <2>12, <2>14
<1> HIDE DEF InstanceInv, Sound, Spec
<1>2. Spec => []Sound
  BY <1>1, InstanceStays, PTL
<1> QED
  BY <1>2 DEF Sound

-----------------------------------------------------------------------------
(* What is accepted stays accepted when less of it is known.               *)

\* Not optimization_barrier, whose operands and results have to be equal, and
\* not the two ops whose verifiers look into windows.
Judged == Elementary \ {"optimization_barrier", "select_and_scatter", "scatter"}

AxesAreNat(types) == \A i \in DOMAIN types : isPerAxis(types[i].et) => types[i].et.axis \in Nat

RuntimeRegions(o) ==
  \A i \in DOMAIN o.regions : RuntimeTypes(o.regions[i].args) /\ RuntimeTypes(o.regions[i].returns)

LEMMA TypeStaysValid ==
  ASSUME NEW t, NEW u, SharperType(t, u), isPerAxis(t.et) => t.et.axis \in Nat, typeIsValid(t)
  PROVE  typeIsValid(u)
<1>1. /\ t.et = u.et /\ Rank(t) = Rank(u) /\ Rank(u) \in Nat /\ verifyBounds(u)
  BY SharperDims DEF SharperType, IsType, WellFormedType
<1>2. isQuantized(t.et) => isValidStablehloQuantizedElementType(t.et) /\ isValidQuantizedDimension(t)
  BY DEF typeIsValid
<1>3. ASSUME isPerAxis(u.et), isQuantized(u.et)
      PROVE  /\ u.et.axis < Rank(u)
             /\ isDynamicDimSize(SizeAt(u, u.et.axis)) \/ Len(u.et.scales) = SizeAt(u, u.et.axis)
  <2>1. PICK d \in Nat : d = u.et.axis
    BY <1>1, <1>3
  <2>2. /\ d < Rank(t)
        /\ isDynamicDimSize(SizeAt(t, d)) \/ Len(u.et.scales) = SizeAt(t, d)
    BY <1>1, <1>2, <1>3, <2>1 DEF isValidQuantizedDimension
  <2>3. isDynamicDimSize(SizeAt(u, d)) \/ SizeAt(u, d) = SizeAt(t, d)
    BY <1>1, <2>2, SharperSizeAt
  <2> QED
    BY <1>1, <2>1, <2>2, <2>3
<1> QED
  BY <1>1, <1>2, <1>3 DEF typeIsValid, isValidQuantizedDimension

LEMMA ConcatByIndex ==
  ASSUME NEW S, NEW s \in Seq(S), NEW T, NEW t \in Seq(T), NEW n \in Nat, n = Len(s) + Len(t)
  PROVE  s \o t = [i \in 1..n |-> IF i <= Len(s) THEN s[i] ELSE t[i - Len(s)]]
<1>1. s \in Seq(S \cup T) /\ t \in Seq(S \cup T)
  OBVIOUS
<1>2. PICK r : r = s \o t
  OBVIOUS
<1>3. /\ r \in Seq(S \cup T) /\ Len(r) = n
      /\ \A i \in 1..n : r[i] = IF i <= Len(s) THEN s[i] ELSE t[i - Len(s)]
  BY <1>1, <1>2
<1>4. DOMAIN r = 1..n /\ r = [i \in DOMAIN r |-> r[i]]
  <2>1. PICK m \in Nat : r \in [1..m -> S \cup T]
    BY <1>3
  <2> QED
    BY <1>3, <2>1
<1> QED
  BY <1>2, <1>3, <1>4

LEMMA SharperConcat ==
  ASSUME NEW ts, NEW us, SharperTypes(ts, us), NEW ps, NEW qs, SharperTypes(ps, qs)
  PROVE  SharperTypes(ts \o ps, us \o qs)
<1>1. /\ Len(us) \in Nat /\ Len(ts) = Len(us) /\ Len(qs) \in Nat /\ Len(ps) = Len(qs)
      /\ \A i \in 1..Len(us) : SharperType(ts[i], us[i])
      /\ \A i \in 1..Len(qs) : SharperType(ps[i], qs[i])
  BY SharperTypesFacts
<1>2. PICK n \in Nat : n = Len(us) + Len(qs)
  BY <1>1
<1>3. PICK xs : xs = [i \in 1..n |-> IF i <= Len(us) THEN ts[i] ELSE ps[i - Len(us)]]
  OBVIOUS
<1>4. PICK ys : ys = [i \in 1..n |-> IF i <= Len(us) THEN us[i] ELSE qs[i - Len(us)]]
  OBVIOUS
<1>5. ts \o ps = xs /\ us \o qs = ys
  <2>1. /\ ts \in Seq(ToSet(ts)) /\ us \in Seq(ToSet(us)) /\ ps \in Seq(ToSet(ps)) /\ qs \in Seq(ToSet(qs))
    BY DEF SharperTypes
  <2>2. ts \o ps = xs
    <3>1. n = Len(ts) + Len(ps)
      BY <1>1, <1>2
    <3>2. ts \o ps = [i \in 1..n |-> IF i <= Len(ts) THEN ts[i] ELSE ps[i - Len(ts)]]
      BY <2>1, <3>1, ConcatByIndex
    <3> QED
      BY <1>1, <1>3, <3>2
  <2>3. us \o qs = ys
    BY <1>2, <1>4, <2>1, ConcatByIndex
  <2> QED
    BY <2>2, <2>3
<1>6. ASSUME NEW i \in 1..n PROVE SharperType(xs[i], ys[i])
  <2>1. CASE i <= Len(us)
    <3>1. xs[i] = ts[i] /\ ys[i] = us[i] /\ i \in 1..Len(us)
      BY <1>1, <1>2, <1>3, <1>4, <2>1
    <3> QED
      BY <1>1, <3>1
  <2>2. CASE ~ (i <= Len(us))
    <3> DEFINE j == i - Len(us)
    <3>1. j \in 1..Len(qs)
      BY <1>1, <1>2, <2>2
    <3>2. xs[i] = ps[j] /\ ys[i] = qs[j]
      BY <1>1, <1>3, <1>4, <2>2, <3>1
    <3> QED
      BY <1>1, <3>1, <3>2
  <2> QED
    BY <2>1, <2>2
<1>7. xs = [i \in 1..n |-> xs[i]] /\ ys = [i \in 1..n |-> ys[i]]
  BY <1>3, <1>4
<1>8. SharperTypes(xs, ys)
  BY <1>6, <1>7, SharperEach
<1> QED
  BY <1>5, <1>8

LEMMA ResultsStayInAgreement ==
  ASSUME NEW ts, NEW us, SharperTypes(ts, us), NEW ps, NEW qs, SharperTypes(ps, qs),
         ResultsAgree(ts, ps)
  PROVE  ResultsAgree(us, qs)
<1>1. /\ DOMAIN ts = 1..Len(us) /\ DOMAIN us = 1..Len(us) /\ Len(ts) = Len(us) /\ Len(ps) = Len(qs)
      /\ \A i \in 1..Len(us) : SharperType(ts[i], us[i])
      /\ \A i \in 1..Len(qs) : SharperType(ps[i], qs[i])
  BY SharperTypesFacts
<1>2. us # Failure /\ Len(us) = Len(qs)
  BY <1>1, SharperIsAccepted DEF ResultsAgree
<1>3. ASSUME NEW i \in DOMAIN us
      PROVE  IF us[i].et = NoElementType THEN verifyCompatibleShape(us[i], qs[i])
             ELSE isCompatibleForHloTypeInference(us[i], qs[i])
  <2>1. SharperType(ts[i], us[i]) /\ SharperType(ps[i], qs[i]) /\ i \in DOMAIN ts
    BY <1>1, <1>2
  <2>2. IF us[i].et = NoElementType THEN verifyCompatibleShape(ts[i], ps[i])
        ELSE isCompatibleForHloTypeInference(ts[i], ps[i])
    BY <2>1 DEF ResultsAgree, SharperType
  <2> QED
    BY <2>1, <2>2, ShapesStayCompatible, TypesStayCompatible
<1> QED
  BY <1>2, <1>3 DEF ResultsAgree

\* The traits compare element types, which are known, and shapes.
LEMMA TraitsStaySatisfied ==
  ASSUME NEW o, NEW v, SharperOp(o, v), o.name \in Judged, EnoughOperands(o), traits(o)
  PROVE  traits(v)
<1>1. /\ o.name = v.name /\ SharperTypes(o.operands, v.operands) /\ SharperTypes(o.results, v.results)
  BY DEF SharperOp
<1>2. PICK xs : xs = o.operands \o o.results
  OBVIOUS
<1>3. PICK ys : ys = v.operands \o v.results
  OBVIOUS
<1>4. SharperTypes(xs, ys)
  BY <1>1, <1>2, <1>3, SharperConcat
<1>5. ASSUME SameOperandsAndResultShape(o) PROVE SameOperandsAndResultShape(v)
  BY <1>2, <1>3, <1>4, <1>5, ShapesStayPairwiseCompatible DEF SameOperandsAndResultShape
<1>6. ASSUME NEW ts, NEW us, SharperTypes(ts, us)
      PROVE  /\ DOMAIN ts = DOMAIN us /\ \A i \in DOMAIN us : ts[i].et = us[i].et
             /\ DOMAIN us # {} => 1 \in DOMAIN us
             /\ ts = << >> <=> us = << >>
  BY <1>6, SharperTypesFacts DEF SharperType
<1>7. CompatibleOperandsElementType(o.operands) => CompatibleOperandsElementType(v.operands)
  BY <1>1, <1>6 DEF CompatibleOperandsElementType
<1>8. CompatibleOperandsAndResultElementType(o.operands, o.results) =>
        CompatibleOperandsAndResultElementType(v.operands, v.results)
  BY <1>2, <1>3, <1>4, <1>6 DEF CompatibleOperandsAndResultElementType
<1>9. PairwiseSameOperandAndResultElementType(o.operands, o.results) =>
        PairwiseSameOperandAndResultElementType(v.operands, v.results)
  <2>1. ElementTypes(o.operands) = ElementTypes(v.operands) /\ ElementTypes(o.results) = ElementTypes(v.results)
    BY <1>1, <1>6 DEF ElementTypes
  <2> QED
    BY <2>1 DEF PairwiseSameOperandAndResultElementType
<1> QED
  BY <1>1, <1>5, <1>7, <1>8, <1>9 DEF traits, Judged, Elementary

LEMMA RuntimeIsType ==
  ASSUME NEW types, RuntimeTypes(types), NEW i \in DOMAIN types
  PROVE  SharperType(types[i], types[i])
<1>1. PICK t : t = types[i]
  OBVIOUS
<1>2. /\ t = [et |-> t.et, dims |-> t.dims] /\ Len(t.dims) \in Nat /\ DOMAIN t.dims = 1..Len(t.dims)
      /\ t.dims = [d \in DOMAIN t.dims |-> t.dims[d]]
      /\ \A d \in DOMAIN t.dims : t.dims[d] \in [size : Nat, bound : {kDynamic}]
  BY <1>1, RuntimeDims
<1>3. ASSUME NEW d \in 1..Len(t.dims) PROVE WellFormed(t.dims[d]) /\ DimRefines(t.dims[d], t.dims[d])
  BY <1>2 DEF WellFormed, DimType, Size, DimRefines, Admits
<1>4. SharperType([et |-> t.et, dims |-> t.dims], [et |-> t.et, dims |-> t.dims])
  BY <1>2, <1>3, SharperByDims
<1> QED
  BY <1>1, <1>2, <1>4

\* The verifiers of what inference does not cover ask for ranks, for element
\* types and for types that are compatible.
LEMMA VerifyStaysTrue ==
  ASSUME NEW o, NEW v, SharperOp(o, v), o.name \in Judged, EnoughOperands(o), RuntimeRegions(o),
         o.name \in {"dot", "transpose"} => Len(v.results) = 1, verify(o)
  PROVE  verify(v)
<1>1. /\ o.name = v.name /\ o.attrs = v.attrs /\ o.regions = v.regions
      /\ SharperTypes(o.operands, v.operands) /\ SharperTypes(o.results, v.results)
  BY DEF SharperOp
<1>2. /\ Len(v.operands) \in Nat /\ Len(o.operands) = Len(v.operands)
      /\ DOMAIN o.operands = 1..Len(v.operands) /\ DOMAIN v.operands = 1..Len(v.operands)
      /\ \A i \in 1..Len(v.operands) : SharperType(o.operands[i], v.operands[i])
  BY <1>1, SharperTypesFacts
<1>3. \A i \in 1..Len(v.results) : SharperType(o.results[i], v.results[i])
  BY <1>1, SharperTypesFacts
<1>4. \A i \in 1..Len(v.operands) : /\ o.operands[i].et = v.operands[i].et
                                    /\ Rank(o.operands[i]) = Rank(v.operands[i])
  BY <1>2, SharperDims
<1>5. CASE o.name = "dot"
  <2>1. PICK xs : xs = inferDotOp(o.operands[1], o.operands[2])
    OBVIOUS
  <2>2. PICK ys : ys = inferDotOp(v.operands[1], v.operands[2])
    OBVIOUS
  <2>3. xs # Failure /\ verifyCompatibleShape(xs[1], o.results[1])
    BY <1>5, <2>1 DEF verify, DotOp_verify, verifyDotOp
  <2>4. SharperType(o.operands[1], v.operands[1]) /\ SharperType(o.operands[2], v.operands[2])
    BY <1>2, <1>5 DEF EnoughOperands
  <2>5. SharperTypes(xs, ys)
    BY <2>1, <2>2, <2>3, <2>4, DotSharpens
  <2>6. ys # Failure
    BY <2>3, <2>5, SharperIsAccepted
  <2>7. Len(ys) = 1
    BY <2>2, <2>6 DEF inferDotOp, If
  <2>8. SharperType(xs[1], ys[1]) /\ SharperType(o.results[1], v.results[1])
    BY <1>3, <1>5, <2>5, <2>7, SharperTypesFacts
  <2>9. verifyCompatibleShape(ys[1], v.results[1])
    BY <2>3, <2>8, ShapesStayCompatible
  <2> QED
    BY <1>1, <1>5, <2>2, <2>6, <2>9 DEF verify, DotOp_verify, verifyDotOp
<1>6. CASE o.name = "reverse"
  <2>1. Rank(o.operands[1]) = Rank(v.operands[1])
    BY <1>2, <1>4, <1>6 DEF EnoughOperands
  <2> QED
    BY <1>1, <1>6, <2>1 DEF verify, ReverseOp_verify, verifyReverseOp
<1>7. CASE o.name = "transpose"
  <2>1. o.operands[1].et = v.operands[1].et /\ o.results[1].et = v.results[1].et
    BY <1>2, <1>3, <1>4, <1>7 DEF EnoughOperands, SharperType
  <2>2. verifyTransposeOp(o.operands[1], o.attrs.permutation, o.results[1])
    BY <1>7 DEF verify, TransposeOp_verify
  <2>3. verifyTransposeOp(v.operands[1], v.attrs.permutation, v.results[1])
    BY <1>1, <2>1, <2>2 DEF verifyTransposeOp, verifyQPerTensorScaleAndZeroPointConstraints,
         verifyQPerAxisScaleAndZeroPointConstraints, allQuantized
  <2> QED
    BY <1>1, <1>7, <2>3 DEF verify, TransposeOp_verify
<1>8. CASE o.name = "sort"
  <2>1. verifySortOp(o.operands, o.attrs.dimension, o.regions[1])
    BY <1>8 DEF verify, SortOp_verify
  <2>2. o.operands = << >> <=> v.operands = << >>
    BY <1>1, SharperTypesFacts
  <2>3. v.operands # << >> => 1 \in 1..Len(v.operands)
    BY <1>1, SharperTypesFacts
  <2>4. verifySortOp(v.operands, v.attrs.dimension, v.regions[1])
    BY <1>1, <1>2, <1>4, <2>1, <2>2, <2>3 DEF verifySortOp
  <2> QED
    BY <1>1, <1>8, <2>4 DEF verify, SortOp_verify
<1>9. CASE o.name = "while"
  <2>1. ASSUME NEW ts, RuntimeTypes(ts), isCompatibleTypeRange(o.operands, ts)
        PROVE  isCompatibleTypeRange(v.operands, ts)
    <3>1. Len(o.operands) = Len(ts) /\ DOMAIN ts = 1..Len(ts)
      <4>1. ts \in Seq(ToSet(ts))
        BY <2>1 DEF RuntimeTypes
      <4> QED
        BY <2>1, <4>1 DEF isCompatibleTypeRange
    <3>2. ASSUME NEW i \in DOMAIN v.operands PROVE isCompatibleForHloTypeInference(v.operands[i], ts[i])
      <4>1. i \in DOMAIN ts
        BY <1>2, <3>1
      <4>2. SharperType(ts[i], ts[i])
        BY <2>1, <4>1, RuntimeIsType
      <4>3. isCompatibleForHloTypeInference(o.operands[i], ts[i])
        BY <1>2, <2>1 DEF isCompatibleTypeRange
      <4> QED
        BY <1>2, <4>2, <4>3, TypesStayCompatible
    <3> QED
      BY <1>2, <3>1, <3>2 DEF isCompatibleTypeRange
  <2>2. /\ RuntimeTypes(o.regions[1].args) /\ RuntimeTypes(o.regions[2].args)
        /\ RuntimeTypes(o.regions[2].returns)
    BY <1>9 DEF EnoughOperands, RuntimeRegions
  <2>3. verifyWhileOp(o.operands, o.regions[1], o.regions[2])
    BY <1>9 DEF verify, WhileOp_verify
  <2>4. verifyWhileOp(v.operands, o.regions[1], o.regions[2])
    BY <2>1, <2>2, <2>3 DEF verifyWhileOp
  <2> QED
    BY <1>1, <1>9, <2>4 DEF verify, WhileOp_verify
<1>10. CASE o.name = "all_reduce"
  <2>1. ASSUME NEW i \in DOMAIN v.operands, verifyScalarReducer(o.regions[1], o.operands[i])
        PROVE  verifyScalarReducer(o.regions[1], v.operands[i])
    <3>1. PICK t : t = o.operands[i]
      OBVIOUS
    <3>2. PICK u : u = v.operands[i]
      OBVIOUS
    <3>3. t.et = u.et
      BY <1>2, <1>4, <3>1, <3>2
    <3>4. PICK ts : ts = <<t>>
      OBVIOUS
    <3>5. PICK us : us = <<u>>
      OBVIOUS
    <3>6. Len(ts) = 1 /\ Len(us) = 1 /\ ts[1] = t /\ us[1] = u
      BY <3>4, <3>5
    <3>7. \A i1 \in 1..1 : i1 = 1
      OBVIOUS
    <3>8. isPromotableElementType(t, o.regions[1].args[1 + 1], TRUE) =>
            isPromotableElementType(u, o.regions[1].args[1 + 1], TRUE)
      BY <3>3 DEF isPromotableElementType
    <3>9. PICK inits : inits = <<ScalarType(t.et)>>
      OBVIOUS
    <3>10. verifyReducerShape(o.regions[1], ts, inits, << >>)
      BY <2>1, <3>1, <3>4, <3>9 DEF verifyScalarReducer
    <3>11. verifyReducerShape(o.regions[1], us, inits, << >>)
      <4>1. \A i1 \in 1..1 : isPromotableElementType(ts[i1], o.regions[1].args[1 + i1], TRUE) =>
                              isPromotableElementType(us[i1], o.regions[1].args[1 + i1], TRUE)
        BY <3>8, <3>6, <3>7
      <4> HIDE DEF isPromotableElementType, DimensionsAreAllowed
      <4> QED
        BY <3>10, <3>6, <4>1 DEF verifyReducerShape
    <3> QED
      BY <3>2, <3>3, <3>9, <3>11, <3>5 DEF verifyScalarReducer
  <2>2. verifyAllReduceOp(o.operands, o.attrs.replicaGroups, o.attrs.channelId,
                          o.attrs.useGlobalDeviceIds, o.regions[1])
    BY <1>10 DEF verify, AllReduceOp_verify
  <2>3. verifyAllReduceOp(v.operands, o.attrs.replicaGroups, o.attrs.channelId,
                          o.attrs.useGlobalDeviceIds, o.regions[1])
    BY <1>2, <2>1, <2>2 DEF verifyAllReduceOp
  <2> QED
    BY <1>1, <1>10, <2>3 DEF verify, AllReduceOp_verify
<1>11. CASE o.name = "collective_permute"
  BY <1>1, <1>11 DEF verify, CollectivePermuteOp_verify
<1>12. CASE o.name \notin {"dot", "reverse", "transpose", "sort", "while", "all_reduce", "collective_permute"}
  BY <1>1, <1>12 DEF verify, Judged, Elementary
<1> QED
  BY <1>5, <1>6, <1>7, <1>8, <1>9, <1>10, <1>11, <1>12

\* An op that is valid with more of it known is valid.
LEMMA ValidityIsKept ==
  ASSUME NEW o, NEW v, SharperOp(o, v), o.name \in Judged, IntegerAttrs(o), EnoughOperands(o),
         RuntimeRegions(o), AxesAreNat(o.operands), AxesAreNat(o.results), Valid(o)
  PROVE  Valid(v)
<1>1. /\ o.name = v.name /\ SharperTypes(o.operands, v.operands) /\ SharperTypes(o.results, v.results)
      /\ o.name \in Elementary /\ o.name \in Inferring /\ o.name \notin StaticResults
  BY DEF SharperOp, Judged, Elementary, Inferring, StaticResults, UnaryOps
<1>2. ASSUME NEW ts, NEW us, SharperTypes(ts, us), AxesAreNat(ts), \A i \in DOMAIN ts : typeIsValid(ts[i])
      PROVE  \A i \in DOMAIN us : typeIsValid(us[i])
  <2>1. DOMAIN ts = DOMAIN us /\ \A i \in DOMAIN us : SharperType(ts[i], us[i])
    BY <1>2, SharperTypesFacts
  <2>2. \A i \in DOMAIN us : isPerAxis(ts[i].et) => ts[i].et.axis \in Nat
    BY <1>2, <2>1 DEF AxesAreNat
  <2> QED
    BY <1>2, <2>1, <2>2, TypeStaysValid
<1>3. /\ \A i \in DOMAIN v.operands : typeIsValid(v.operands[i])
      /\ \A i \in DOMAIN v.results : typeIsValid(v.results[i])
  <2>1. /\ \A i \in DOMAIN o.operands : typeIsValid(o.operands[i])
        /\ \A i \in DOMAIN o.results : typeIsValid(o.results[i])
    BY DEF Valid
  <2> QED
    BY <1>1, <1>2, <2>1
<1>4. traits(v)
  BY TraitsStaySatisfied DEF Valid
<1>5. PICK xs : xs = inferReturnTypes(o)
  OBVIOUS
<1>6. PICK ys : ys = inferReturnTypes(v)
  OBVIOUS
<1>7. ResultsAgree(xs, o.results)
  BY <1>1, <1>5 DEF Valid
<1>8. xs # Failure
  BY <1>7 DEF ResultsAgree
<1>9. SharperTypes(xs, ys)
  BY <1>1, <1>5, <1>6, <1>8, InferenceSharpens
<1>10. ResultsAgree(ys, v.results)
  BY <1>1, <1>7, <1>9, ResultsStayInAgreement
<1>11. o.name \in {"dot", "transpose"} => Len(v.results) = 1
  <2>1. ys # Failure /\ Len(ys) = Len(v.results)
    BY <1>10 DEF ResultsAgree
  <2>2. CASE v.name = "dot"
    BY <1>6, <2>1, <2>2 DEF inferReturnTypes, DotOp_inferReturnTypeComponents, inferDotOp, If, UnaryOps, BinaryOps
  <2>3. CASE v.name = "transpose"
    BY <1>6, <2>1, <2>3 DEF inferReturnTypes, TransposeOp_inferReturnTypes, inferTransposeOp, If, UnaryOps, BinaryOps
  <2> QED
    BY <1>1, <2>2, <2>3
<1>12. verify(v)
  BY <1>11, VerifyStaysTrue DEF Valid
<1> QED
  BY <1>1, <1>3, <1>4, <1>6, <1>10, <1>12 DEF Valid

\* For the judged ops, learning more of an op never makes a rejected op an
\* accepted one, whatever its rank, its sizes and what is unknown of them: the
\* verifiers reject only what no run of the program can make right.
THEOREM RejectionStands ==
  Spec /\ [](actual.name \in Judged) => RejectionIsFinal
<1> DEFINE Named == actual.name \in Judged
           ActualInv == SharperOp(actual, op)
           Stands == Valid(op)' => Valid(op)
<1>1. InstanceInv => ActualInv
  BY ActualIsSharper DEF InstanceInv
<1>2. ASSUME InstanceInv, Named, ActualInv', [Next]_vars
      PROVE  Stands
  <2>1. SUFFICES ASSUME Valid(op)' PROVE Valid(op)
    OBVIOUS
  <2>2. PICK a : a = actual
    OBVIOUS
  <2>3. PICK v : v = op
    OBVIOUS
  <2>4. PICK w : w = op'
    OBVIOUS
  <2>5. actual' = a
    BY <1>2, <2>2, StepLearns DEF actual
  <2>6. SharperOp(a, w) /\ SharperOp(w, v)
    BY <1>2, <2>3, <2>4, <2>5, MoreIsKnown
  <2>7. /\ a.name \in Judged /\ IntegerAttrs(a) /\ EnoughOperands(a) /\ RuntimeRegions(a)
        /\ RuntimeTypes(a.operands) /\ RuntimeTypes(a.results)
    BY <1>2, <2>2, RuntimeAssumption DEF actual, InstanceInv, RuntimeRegions
  <2>8. /\ a.name \in Elementary /\ w.name = a.name /\ w.regions = a.regions /\ w.attrs = a.attrs
        /\ SharperTypes(a.operands, w.operands) /\ SharperTypes(a.results, w.results)
    BY <2>6, <2>7 DEF Judged, SharperOp
  <2>9. IntegerAttrs(w) /\ EnoughOperands(w)
    BY <2>6, <2>7, <2>8, FormIsKept
  <2>10. RuntimeRegions(w)
    BY <2>7, <2>8 DEF RuntimeRegions
  <2>11. ASSUME NEW ts, NEW us, SharperTypes(ts, us), RuntimeTypes(ts) PROVE AxesAreNat(us)
    <3>1. DOMAIN ts = DOMAIN us /\ \A i \in DOMAIN us : ts[i].et = us[i].et
      BY <2>11, SharperTypesFacts DEF SharperType
    <3>2. \A i \in DOMAIN ts : isPerAxis(ts[i].et) => ts[i].et.axis \in Nat
      BY <2>11 DEF RuntimeTypes
    <3> QED
      BY <3>1, <3>2 DEF AxesAreNat
  <2>12. AxesAreNat(w.operands) /\ AxesAreNat(w.results)
    BY <2>7, <2>8, <2>11
  <2>13. Valid(w)
    BY <2>1, <2>4
  <2>14. Valid(v)
    BY <2>6, <2>7, <2>8, <2>9, <2>10, <2>12, <2>13, ValidityIsKept
  <2> QED
    BY <2>3, <2>14
<1>3. Spec => [](InstanceInv /\ ActualInv)
  <2> HIDE DEF ActualInv, InstanceInv, Spec
  <2> QED
    BY <1>1, InstanceStays, PTL
<1>4. InstanceInv /\ Named /\ ActualInv' /\ [Next]_vars => [Stands]_vars
  BY <1>2
<1>5. Spec /\ []Named => [][Stands]_vars
  <2> HIDE DEF Named, ActualInv, InstanceInv, Init, Next, Stands
  <2> QED
    BY <1>3, <1>4, PTL DEF Spec
<1> QED
  BY <1>5 DEF RejectionIsFinal
=============================================================================
