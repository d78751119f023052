------------------------ MODULE TypeInferenceProofs ------------------------
(***************************************************************************)
(* What type inference is built from (Base.cpp, and the windows of         *)
(* TypeInference.cpp), for every size and every bound.  A dimension stands *)
(* for the sizes it admits; the inferences on two dimensions are then the  *)
(* intersection, the union and the sum of what they stand for, as far as a *)
(* dimension can say it, and compatibility of types is that the two have a *)
(* shape in common.                                                        *)
(*                                                                         *)
(* OpRefinement.tla checks what this means for ops: RejectionIsFinal rests *)
(* on CompatibilityIsMonotone, InferenceIsSound and InferenceIsMonotone on *)
(* the theorems about the inferences.                                      *)
(***************************************************************************)
EXTENDS TypeInferenceUtils, TLAPS

\* A dimension that verifyBounds accepts.
Size == Nat \cup {kDynamic}
DimType == [size : Size, bound : Size]
WellFormed(d) == /\ d \in DimType
                 /\ isDynamicDimSize(d.bound) \/ isDynamicDimSize(d.size)

USE DEF kDynamic, isStaticDimSize, isDynamicDimSize, Dim, BoundedDim

LEMMA MinOfTwo ==
  ASSUME NEW a \in Int, NEW b \in Int
  PROVE  Min({a, b}) = IF a <= b THEN a ELSE b
<1>1. \A x \in {a, b} : (\A y \in {a, b} : x =< y) <=> x = (IF a <= b THEN a ELSE b)
  OBVIOUS
<1>2. (IF a <= b THEN a ELSE b) \in {a, b}
  OBVIOUS
<1> QED
  BY <1>1, <1>2 DEF Min

LEMMA MaxOfTwo ==
  ASSUME NEW a \in Int, NEW b \in Int
  PROVE  Max({a, b}) = IF a >= b THEN a ELSE b
<1>1. \A x \in {a, b} : (\A y \in {a, b} : x >= y) <=> x = (IF a >= b THEN a ELSE b)
  OBVIOUS
<1>2. (IF a >= b THEN a ELSE b) \in {a, b}
  OBVIOUS
<1> QED
  BY <1>1, <1>2 DEF Max

-----------------------------------------------------------------------------
(* The order on dimensions.                                                *)

\* A dimension that is at least as specific admits no more sizes.
LEMMA RefinesNarrows ==
  ASSUME NEW d, WellFormed(d), NEW e, WellFormed(e), DimRefines(d, e),
         NEW n \in Nat, Admits(d, n)
  PROVE  Admits(e, n)
BY DEF WellFormed, DimType, DimRefines, Admits, Size

LEMMA RefinesTransitive ==
  ASSUME NEW d, WellFormed(d), NEW e, WellFormed(e), NEW f, WellFormed(f),
         DimRefines(d, e), DimRefines(e, f)
  PROVE  DimRefines(d, f)
BY DEF WellFormed, DimType, DimRefines, Admits, Size

-----------------------------------------------------------------------------
(* The most specific of two dimensions.                                    *)

\* inferMostSpecificDimAndBound gives exactly the sizes that both dimensions
\* admit, and fails exactly when there is none: a bound never survives next to
\* a size, and of two bounds the smaller one does.
THEOREM MostSpecificIsIntersection ==
  ASSUME NEW l, WellFormed(l), NEW r, WellFormed(r)
  PROVE  LET inferred == inferMostSpecificDimAndBound(l, r)
         IN  /\ inferred = Failure <=> \A n \in Nat : ~(Admits(l, n) /\ Admits(r, n))
             /\ inferred # Failure =>
                  /\ WellFormed(inferred[1])
                  /\ \A n \in Nat : Admits(inferred[1], n) <=> Admits(l, n) /\ Admits(r, n)
<1> DEFINE inferred == inferMostSpecificDimAndBound(l, r)
<1>1. \A a, b \in Nat : Min({a, b}) = IF a <= b THEN a ELSE b
  BY MinOfTwo
<1>2. CASE isStaticDimSize(l.size) \/ isStaticDimSize(r.size)
  BY <1>2 DEF WellFormed, DimType, Size, Admits, inferMostSpecificDimAndBound, Failure
<1>3. CASE isDynamicDimSize(l.size) /\ isDynamicDimSize(r.size)
  <2>1. inferred # Failure
    BY <1>3 DEF WellFormed, DimType, Size, inferMostSpecificDimAndBound, Failure
  <2>2. Admits(l, 0) /\ Admits(r, 0)
    BY <1>3 DEF WellFormed, DimType, Size, Admits
  <2>3. /\ WellFormed(inferred[1])
        /\ \A n \in Nat : Admits(inferred[1], n) <=> Admits(l, n) /\ Admits(r, n)
    BY <1>1, <1>3 DEF WellFormed, DimType, Size, Admits, inferMostSpecificDimAndBound, Failure
  <2> QED
    BY <2>1, <2>2, <2>3
<1> QED
  BY <1>2, <1>3


\* It does not matter in which order the two operands of an op are met.
THEOREM MostSpecificCommutes ==
  ASSUME NEW l, WellFormed(l), NEW r, WellFormed(r)
  PROVE  inferMostSpecificDimAndBound(l, r) = inferMostSpecificDimAndBound(r, l)
<1>1. Min({l.bound, r.bound}) = Min({r.bound, l.bound})
  <2>1. {l.bound, r.bound} = {r.bound, l.bound}
    OBVIOUS
  <2> QED
    BY <2>1
<1> QED
  BY <1>1 DEF WellFormed, DimType, Size, inferMostSpecificDimAndBound, Failure

\* Knowing more of the operands, inferMostSpecificDimAndBound infers no less:
\* if it succeeds on more specific dimensions it succeeded before, with a
\* dimension that the new one refines.
THEOREM MostSpecificIsMonotone ==
  ASSUME NEW l, WellFormed(l), NEW r, WellFormed(r),
         NEW ll, WellFormed(ll), DimRefines(ll, l),
         NEW rr, WellFormed(rr), DimRefines(rr, r),
         inferMostSpecificDimAndBound(ll, rr) # Failure
  PROVE  /\ inferMostSpecificDimAndBound(l, r) # Failure
         /\ DimRefines(inferMostSpecificDimAndBound(ll, rr)[1],
                       inferMostSpecificDimAndBound(l, r)[1])
<1>1. \A a, b \in Nat : Min({a, b}) = IF a <= b THEN a ELSE b
  BY MinOfTwo
<1>2. inferMostSpecificDimAndBound(l, r) # Failure
  BY MostSpecificIsIntersection, RefinesNarrows
<1>3. CASE isStaticDimSize(ll.size) \/ isStaticDimSize(rr.size)
  <2>1. PICK n \in Nat : inferMostSpecificDimAndBound(ll, rr)[1] = Dim(n)
    BY <1>3 DEF WellFormed, DimType, Size, inferMostSpecificDimAndBound, Failure
  <2>2. Admits(l, n) /\ Admits(r, n)
    <3>1. Admits(inferMostSpecificDimAndBound(ll, rr)[1], n)
      BY <2>1 DEF Admits
    <3>2. Admits(ll, n) /\ Admits(rr, n)
      BY <3>1, MostSpecificIsIntersection
    <3> QED
      BY <3>2, RefinesNarrows
  <2>3. Admits(inferMostSpecificDimAndBound(l, r)[1], n)
    BY <1>2, <2>2, MostSpecificIsIntersection
  <2> QED
    BY <1>2, <2>1, <2>3 DEF DimRefines
<1>4. CASE isDynamicDimSize(ll.size) /\ isDynamicDimSize(rr.size)
  <2>1. isDynamicDimSize(l.size) /\ isDynamicDimSize(r.size)
    BY <1>4 DEF WellFormed, DimType, Size, DimRefines, Admits
  <2> QED
    BY <1>1, <1>2, <1>4, <2>1
       DEF WellFormed, DimType, Size, DimRefines, Admits, inferMostSpecificDimAndBound, Failure
<1> QED
  BY <1>2, <1>3, <1>4

-----------------------------------------------------------------------------
(* The least specific of two dimensions: the branches of a conditional.    *)

\* inferLeastSpecificDimAndBound gives the narrowest dimension that admits
\* what either branch may yield; it fails only on two different static sizes.
THEOREM LeastSpecificIsUnion ==
  ASSUME NEW l, WellFormed(l), NEW r, WellFormed(r)
  PROVE  LET inferred == inferLeastSpecificDimAndBound(l, r)
         IN  /\ inferred = Failure <=> /\ isStaticDimSize(l.size) /\ isStaticDimSize(r.size)
                                       /\ l.size # r.size
             /\ inferred # Failure =>
                  /\ WellFormed(inferred[1])
                  /\ \A n \in Nat : Admits(l, n) \/ Admits(r, n) => Admits(inferred[1], n)
                  /\ \A d : /\ WellFormed(d)
                            /\ \A n \in Nat : Admits(l, n) \/ Admits(r, n) => Admits(d, n)
                            => \A n \in Nat : Admits(inferred[1], n) => Admits(d, n)
<1> DEFINE inferred == inferLeastSpecificDimAndBound(l, r)
<1>1. \A a, b \in Nat : Max({a, b}) = IF a >= b THEN a ELSE b
  BY MaxOfTwo
<1>2. inferred = Failure <=> isStaticDimSize(l.size) /\ isStaticDimSize(r.size) /\ l.size # r.size
  BY DEF WellFormed, DimType, Size, inferLeastSpecificDimAndBound, Failure
<1>3. ASSUME inferred # Failure
      PROVE  /\ WellFormed(inferred[1])
             /\ \A n \in Nat : Admits(l, n) \/ Admits(r, n) => Admits(inferred[1], n)
  BY <1>1, <1>3 DEF WellFormed, DimType, Size, Admits, inferLeastSpecificDimAndBound, Failure
<1>4. ASSUME inferred # Failure, NEW d, WellFormed(d),
             \A n \in Nat : Admits(l, n) \/ Admits(r, n) => Admits(d, n),
             NEW n \in Nat, Admits(inferred[1], n)
      PROVE  Admits(d, n)
  <2>1. CASE isStaticDimSize(l.size) /\ isStaticDimSize(r.size)
    BY <1>4, <2>1 DEF WellFormed, DimType, Size, Admits, inferLeastSpecificDimAndBound, Failure
  <2>2. CASE \/ isDynamicDimSize(l.size) /\ isDynamicDimSize(l.bound)
             \/ isDynamicDimSize(r.size) /\ isDynamicDimSize(r.bound)
    BY <1>4, <2>2 DEF WellFormed, DimType, Size, Admits
  <2>3. CASE /\ isDynamicDimSize(l.size) \/ isDynamicDimSize(r.size)
             /\ isStaticDimSize(l.size) \/ isStaticDimSize(l.bound)
             /\ isStaticDimSize(r.size) \/ isStaticDimSize(r.bound)
    <3>1. PICK b \in Nat : /\ inferred[1] = BoundedDim(b)
                           /\ Admits(l, b) \/ Admits(r, b)
      BY <1>1, <2>3 DEF WellFormed, DimType, Size, Admits, inferLeastSpecificDimAndBound
    <3>2. Admits(l, 0) \/ Admits(r, 0)
      BY <2>3 DEF WellFormed, DimType, Size, Admits
    <3>3. Admits(d, b) /\ Admits(d, 0) /\ n <= b
      BY <1>4, <3>1, <3>2 DEF Admits
    <3> QED
      BY <1>4, <3>3 DEF WellFormed, DimType, Size, Admits
  <2> QED
    BY <2>1, <2>2, <2>3 DEF WellFormed, DimType, Size
<1> QED
  BY <1>2, <1>3, <1>4

\* The order of the branches does not matter.
THEOREM LeastSpecificCommutes ==
  ASSUME NEW l, WellFormed(l), NEW r, WellFormed(r)
  PROVE  inferLeastSpecificDimAndBound(l, r) = inferLeastSpecificDimAndBound(r, l)
<1>1. \A a, b \in Nat : Max({a, b}) = IF a >= b THEN a ELSE b
  BY MaxOfTwo
<1> QED
  BY <1>1 DEF WellFormed, DimType, Size, inferLeastSpecificDimAndBound, Failure

\* Knowing more of the branches, inferLeastSpecificDimAndBound infers no less.
THEOREM LeastSpecificIsMonotone ==
  ASSUME NEW l, WellFormed(l), NEW r, WellFormed(r),
         NEW ll, WellFormed(ll), DimRefines(ll, l),
         NEW rr, WellFormed(rr), DimRefines(rr, r),
         inferLeastSpecificDimAndBound(ll, rr) # Failure
  PROVE  /\ inferLeastSpecificDimAndBound(l, r) # Failure
         /\ DimRefines(inferLeastSpecificDimAndBound(ll, rr)[1],
                       inferLeastSpecificDimAndBound(l, r)[1])
<1>1. \A a, b \in Nat : Max({a, b}) = IF a >= b THEN a ELSE b
  BY MaxOfTwo
<1> QED
  BY <1>1 DEF WellFormed, DimType, Size, DimRefines, Admits, inferLeastSpecificDimAndBound, Failure

-----------------------------------------------------------------------------
(* The sum of two dimensions: concatenate.                                 *)

\* The size of a concatenation is admitted by inferConcatenatedDimAndBound
\* whatever sizes its operands turn out to have.
THEOREM ConcatenatedIsSound ==
  ASSUME NEW l, WellFormed(l), NEW r, WellFormed(r)
  PROVE  LET inferred == inferConcatenatedDimAndBound(l, r)
         IN  /\ WellFormed(inferred)
             /\ \A m, n \in Nat : Admits(l, m) /\ Admits(r, n) => Admits(inferred, m + n)
BY DEF WellFormed, DimType, Size, Admits, inferConcatenatedDimAndBound

\* Knowing more of the operands, inferConcatenatedDimAndBound infers no less.
THEOREM ConcatenatedIsMonotone ==
  ASSUME NEW l, WellFormed(l), NEW r, WellFormed(r),
         NEW ll, WellFormed(ll), DimRefines(ll, l),
         NEW rr, WellFormed(rr), DimRefines(rr, r)
  PROVE  DimRefines(inferConcatenatedDimAndBound(ll, rr), inferConcatenatedDimAndBound(l, r))
BY DEF WellFormed, DimType, Size, DimRefines, Admits, inferConcatenatedDimAndBound

-----------------------------------------------------------------------------
(* Compatibility of types.                                                 *)

\* A type whose encoding verifyBounds accepts.
WellFormedType(t) == /\ t.dims \in Seq(DimType)
                     /\ verifyBounds(t)

LEMMA DimsAreWellFormed ==
  ASSUME NEW t, WellFormedType(t), NEW i \in DOMAIN t.dims
  PROVE  WellFormed(t.dims[i])
<1>1. t.dims[i] \in DimType
  BY DEF WellFormedType
<1> QED
  BY <1>1 DEF WellFormedType, WellFormed, verifyBounds

\* What verifyCompatibleShapeWithBounds asks of a pair of dimensions.
DimsCompatible(d, e) ==
  /\ isDynamicDimSize(d.size) \/ isDynamicDimSize(e.size) \/ d.size = e.size
  /\ ~ (isStaticDimSize(e.bound) /\ e.bound < d.size)
  /\ ~ (isStaticDimSize(d.bound) /\ d.bound < e.size)

LEMMA CompatibleByDims ==
  ASSUME NEW t, WellFormedType(t), NEW u, WellFormedType(u)
  PROVE  verifyCompatibleShapeWithBounds(t, u) <=>
            /\ Rank(t) = Rank(u)
            /\ \A i \in DOMAIN t.dims : DimsCompatible(t.dims[i], u.dims[i])
BY DEF verifyCompatibleShapeWithBounds, verifyCompatibleShape, Rank, DimsCompatible, WellFormedType

\* A size that both dimensions admit: the static one, or none at all.
LEMMA CommonSize ==
  ASSUME NEW d, WellFormed(d), NEW e, WellFormed(e)
  PROVE  DimsCompatible(d, e) <=> \E n \in Nat : Admits(d, n) /\ Admits(e, n)
<1>1. ASSUME DimsCompatible(d, e) PROVE \E n \in Nat : Admits(d, n) /\ Admits(e, n)
  <2>1. CASE isStaticDimSize(d.size)
    <3>1. d.size \in Nat /\ Admits(d, d.size) /\ Admits(e, d.size)
      BY <1>1, <2>1 DEF WellFormed, DimType, Size, Admits, DimsCompatible
    <3> QED
      BY <3>1
  <2>2. CASE isStaticDimSize(e.size)
    <3>1. e.size \in Nat /\ Admits(d, e.size) /\ Admits(e, e.size)
      BY <1>1, <2>2 DEF WellFormed, DimType, Size, Admits, DimsCompatible
    <3> QED
      BY <3>1
  <2>3. CASE isDynamicDimSize(d.size) /\ isDynamicDimSize(e.size)
    <3>1. 0 \in Nat /\ Admits(d, 0) /\ Admits(e, 0)
      BY <2>3 DEF WellFormed, DimType, Size, Admits
    <3> QED
      BY <3>1
  <2> QED
    BY <2>1, <2>2, <2>3
<1>2. ASSUME NEW n \in Nat, Admits(d, n), Admits(e, n) PROVE DimsCompatible(d, e)
  BY <1>2 DEF WellFormed, DimType, Size, Admits, DimsCompatible
<1> QED
  BY <1>1, <1>2

\* verifyCompatibleShapeWithBounds accepts two types exactly when there is a
\* shape, of any rank, that a value of either type may have at run time: it
\* rejects no program that could be right and accepts none that cannot.
THEOREM CompatibleMeansCommonShape ==
  ASSUME NEW t, WellFormedType(t), NEW u, WellFormedType(u)
  PROVE  verifyCompatibleShapeWithBounds(t, u) <=>
            \E shape \in Seq(Nat) : AdmitsShape(t, shape) /\ AdmitsShape(u, shape)
<1>1. ASSUME verifyCompatibleShapeWithBounds(t, u)
      PROVE  \E shape \in Seq(Nat) : AdmitsShape(t, shape) /\ AdmitsShape(u, shape)
  <2> DEFINE Both(i) == {n \in Nat : Admits(t.dims[i], n) /\ Admits(u.dims[i], n)}
             shape == [i \in 1..Rank(t) |-> CHOOSE n : n \in Both(i)]
  <2>1. /\ Rank(t) = Rank(u) /\ Rank(t) \in Nat
        /\ DOMAIN t.dims = 1..Rank(t) /\ DOMAIN u.dims = 1..Rank(t)
    BY <1>1, CompatibleByDims DEF WellFormedType, Rank
  <2>2. ASSUME NEW i \in 1..Rank(t) PROVE shape[i] \in Both(i)
    <3>1. \E n : n \in Both(i)
      BY <1>1, <2>1, CompatibleByDims, CommonSize, DimsAreWellFormed
    <3> HIDE DEF Both
    <3> QED
      BY <3>1
  <2>3. shape \in Seq(Nat) /\ Len(shape) = Rank(t)
    <3>1. shape \in [1..Rank(t) -> Nat]
      BY <2>2
    <3> HIDE DEF shape
    <3> QED
      BY <2>1, <3>1
  <2>4. \A i \in 1..Rank(t) : Admits(t.dims[i], shape[i]) /\ Admits(u.dims[i], shape[i])
    BY <2>2
  <2> HIDE DEF shape
  <2> QED
    BY <2>1, <2>3, <2>4 DEF AdmitsShape
<1>2. ASSUME NEW shape \in Seq(Nat), AdmitsShape(t, shape), AdmitsShape(u, shape)
      PROVE  verifyCompatibleShapeWithBounds(t, u)
  <2>1. Rank(t) = Rank(u)
    BY <1>2 DEF AdmitsShape
  <2>2. ASSUME NEW i \in DOMAIN t.dims PROVE DimsCompatible(t.dims[i], u.dims[i])
    <3>1. i \in DOMAIN u.dims /\ shape[i] \in Nat
      BY <1>2, <2>1 DEF AdmitsShape, Rank, WellFormedType
    <3>2. Admits(t.dims[i], shape[i]) /\ Admits(u.dims[i], shape[i])
      BY <1>2, <3>1 DEF AdmitsShape
    <3> QED
      BY <3>1, <3>2, CommonSize, DimsAreWellFormed
  <2> QED
    BY <2>1, <2>2, CompatibleByDims
<1> QED
  BY <1>1, <1>2

\* Rejection is final: types that are compatible when they are refined were
\* compatible before, so no refinement of an operand or of a result makes an
\* op legal that verifyCompatibleShapeWithBounds rejected.
THEOREM CompatibilityIsMonotone ==
  ASSUME NEW t, WellFormedType(t), NEW u, WellFormedType(u),
         NEW tt, WellFormedType(tt), Refines(tt, t),
         NEW uu, WellFormedType(uu), Refines(uu, u),
         verifyCompatibleShapeWithBounds(tt, uu)
  PROVE  verifyCompatibleShapeWithBounds(t, u)
<1>1. /\ Rank(t) = Rank(tt) /\ Rank(u) = Rank(uu) /\ Rank(tt) = Rank(uu)
      /\ DOMAIN t.dims = DOMAIN tt.dims
      /\ DOMAIN u.dims = DOMAIN tt.dims /\ DOMAIN uu.dims = DOMAIN tt.dims
  BY CompatibleByDims DEF Refines, Rank, WellFormedType
<1>2. ASSUME NEW i \in DOMAIN t.dims PROVE DimsCompatible(t.dims[i], u.dims[i])
  <2>1. PICK n \in Nat : Admits(tt.dims[i], n) /\ Admits(uu.dims[i], n)
    BY <1>1, CompatibleByDims, CommonSize, DimsAreWellFormed
  <2>2. Admits(t.dims[i], n) /\ Admits(u.dims[i], n)
    BY <1>1, <2>1, RefinesNarrows, DimsAreWellFormed DEF Refines
  <2> QED
    BY <1>1, <2>2, CommonSize, DimsAreWellFormed
<1> QED
  BY <1>1, <1>2, CompatibleByDims

\* The verifier and the inference agree: compatible types are those of which
\* inferMostSpecificDimAndBound fails in no dimension.
THEOREM CompatibleMeansInferable ==
  ASSUME NEW t, WellFormedType(t), NEW u, WellFormedType(u), Rank(t) = Rank(u)
  PROVE  verifyCompatibleShapeWithBounds(t, u) <=>
            \A i \in DOMAIN t.dims :
                inferMostSpecificDimAndBound(t.dims[i], u.dims[i]) # Failure
<1>1. DOMAIN t.dims = DOMAIN u.dims
  BY DEF Rank, WellFormedType
<1>2. ASSUME NEW i \in DOMAIN t.dims
      PROVE  DimsCompatible(t.dims[i], u.dims[i])
                <=> inferMostSpecificDimAndBound(t.dims[i], u.dims[i]) # Failure
  <2>1. WellFormed(t.dims[i]) /\ WellFormed(u.dims[i])
    BY <1>1, DimsAreWellFormed
  <2> QED
    BY <2>1, CommonSize, MostSpecificIsIntersection
<1> QED
  BY <1>2, CompatibleByDims

-----------------------------------------------------------------------------
(* Windows.                                                                *)

\* stridedBound counts the places of a window: the window fits at the p-th
\* multiple of the stride exactly when p is below the inferred size.
THEOREM StridedBoundCountsWindows ==
  ASSUME NEW bound \in Nat, NEW windowSize \in Nat \ {0}, NEW stride \in Nat \ {0}
  PROVE  /\ stridedBound(bound, windowSize, stride) \in Nat
         /\ \A p \in Nat : p < stridedBound(bound, windowSize, stride)
                             <=> p * stride + windowSize <= bound
<1>1. CASE bound = 0 \/ windowSize > bound
  <2>1. \A p \in Nat : p * stride \in Nat
    OBVIOUS
  <2> QED
    BY <1>1, <2>1 DEF stridedBound
<1>2. CASE bound # 0 /\ windowSize <= bound
  <2> DEFINE room == bound - windowSize
             q == room \div stride
  <2>1. room \in Nat /\ q \in Int /\ stridedBound(bound, windowSize, stride) = q + 1
    BY <1>2 DEF stridedBound
  <2>2. q * stride <= room /\ room < q * stride + stride
    BY <2>1
  <2> HIDE DEF q, room
  <2>3. q >= 0
    <3>1. ASSUME q <= -1 PROVE q * stride <= -stride
      BY <2>1, <3>1
    <3> QED
      BY <2>1, <2>2, <3>1
  <2>4. ASSUME NEW p \in Nat PROVE p <= q <=> p * stride <= room
    <3>1. p * stride \in Int /\ q * stride \in Int
      BY <2>1
    <3>2. ASSUME p <= q PROVE p * stride <= q * stride
      BY <3>2, <2>1
    <3>3. ASSUME p >= q + 1 PROVE p * stride >= q * stride + stride
      BY <3>3, <2>1
    <3> QED
      BY <2>1, <2>2, <3>1, <3>2, <3>3
  <2>5. \A p \in Nat : p * stride \in Nat
    OBVIOUS
  <2>6. room = bound - windowSize
    BY DEF room
  <2> QED
    BY <2>1, <2>3, <2>4, <2>5, <2>6
<1> QED
  BY <1>1, <1>2

============================================================================
