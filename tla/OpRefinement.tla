---------------------------- MODULE OpRefinement ----------------------------
(***************************************************************************)
(* What a program knows of an op grows while it is compiled: operand types *)
(* become static or lose a bound when their producers are refined, shape   *)
(* operands become constants, and the result types are refined from the    *)
(* inferred ones.  An instance of RuntimeOps is an op as it will execute:  *)
(* every type static, every shape operand a constant.  The program starts  *)
(* with none of the places in hide and learns them in any order.           *)
(*                                                                         *)
(* Each step of a compiler relies on the methods of the op being coherent  *)
(* between what is known now and what the execution will meet: that is     *)
(* what the properties below say.                                          *)
(***************************************************************************)
EXTENDS OpInterfaces

CONSTANTS RuntimeOps,   \* records [op, hide, bounds]
          Slack         \* how far a bound lies above the actual size

\* A type at run time: every size is known, and a quantized dimension is one.
RuntimeTypes(types) ==
    /\ types \in Seq(ToSet(types))
    /\ \A i \in DOMAIN types :
          /\ types[i] = [et |-> types[i].et, dims |-> types[i].dims]
          /\ types[i].dims \in Seq([size : Nat, bound : {kDynamic}])
          /\ isPerAxis(types[i].et) => types[i].et.axis \in Nat

\* Arrays of integers are attributes of one length, dimensions are not negative.
IntegerAttrs(o) ==
    LET a == o.attrs
        Arrays(first, rest) == first \in Seq(Int) /\ \A s \in rest : s \in Seq(Int) /\ Len(s) = Len(first)
    IN  /\ o.name = "slice" => Arrays(a.start, {a.limit, a.strides})
        /\ o.name = "pad" => Arrays(a.low, {a.high, a.interior})
        /\ o.name = "dynamic_slice" => a.sliceSizes \in Seq(Int)
        /\ o.name = "broadcast" => a.broadcastSizes \in Seq(Int)
        /\ o.name = "transpose" => a.permutation \in Seq(Int)
        /\ o.name = "get_tuple_element" => a.index \in Nat
        /\ o.name = "all_to_all" => /\ a.splitDimension \in Nat /\ a.concatDimension \in Nat
                                    /\ a.splitCount \in Nat \ {0}
        /\ o.name \in {"batch_norm_grad", "batch_norm_training", "batch_norm_inference"} =>
              a.featureIndex \in Nat

\* The operands and regions an op has by its definition, and the vectors of batch
\* normalization.
EnoughOperands(o) ==
    LET n == Len(o.operands)
        batchNorm == {"batch_norm_grad", "batch_norm_inference", "batch_norm_training"}
    IN  /\ o.name \in UnaryOps \cup {"real", "imag", "uniform_dequantize", "cholesky", "reverse",
                 "get_dimension_size", "broadcast", "transpose", "pad", "slice", "map",
                 "dynamic_slice", "select_and_scatter"} => n >= 1
        /\ o.name \in BinaryOps \cup {"complex", "compare", "dot", "dynamic_update_slice",
                 "triangular_solve"} => n >= 2
        /\ o.name \in {"clamp", "select", "batch_norm_training"} => n >= 3
        /\ o.name \in {"batch_norm_grad", "batch_norm_inference"} => n >= 5
        /\ o.name \in batchNorm => Rank(o.operands[2]) = 1
        /\ o.name = "while" => {1, 2} \subseteq DOMAIN o.regions

ASSUME RuntimeAssumption ==
    /\ Slack \in Nat
    /\ \A r \in RuntimeOps :
          /\ r.op = [name |-> r.op.name, operands |-> r.op.operands, values |-> r.op.values,
                     attrs |-> r.op.attrs, regions |-> r.op.regions, results |-> r.op.results]
          /\ RuntimeTypes(r.op.operands) /\ RuntimeTypes(r.op.results)
          /\ \A i \in DOMAIN r.op.regions : /\ RuntimeTypes(r.op.regions[i].args)
                                           /\ RuntimeTypes(r.op.regions[i].returns)
          /\ IntegerAttrs(r.op) /\ EnoughOperands(r.op)

VARIABLES instance,     \* the member of RuntimeOps under compilation
          known,        \* the places learned so far
          bounded       \* the places whose dimension has a bound while unknown
vars == <<instance, known, bounded>>

actual == instance.op

\* A place is a dimension of an operand or of a result, or the value of an
\* operand (which has no dimension).
Place(side, i, d) == [side |-> side, index |-> i, dim |-> d]
NoDim == 0

ViewOfDim(place, dim) ==
    IF place \in known \/ place \notin instance.hide THEN dim
    ELSE IF place \in bounded THEN BoundedDim(dim.size + Slack)
    ELSE Dim(kDynamic)
ViewOfTypes(side, types) ==
    [i \in DOMAIN types |-> [types[i] EXCEPT !.dims =
        [d \in DOMAIN types[i].dims |-> ViewOfDim(Place(side, i, d), types[i].dims[d])]]]
ViewOfValue(i) ==
    LET place == Place("value", i, NoDim)
    IN  IF place \in known \/ place \notin instance.hide THEN actual.values[i] ELSE Unknown

\* The op as the program has it now.
op == [actual EXCEPT !.operands = ViewOfTypes("operand", @),
                     !.values = [i \in DOMAIN @ |-> ViewOfValue(i)],
                     !.results = ViewOfTypes("result", @)]

Init == /\ instance \in RuntimeOps
        /\ known = {}
        /\ bounded \in instance.bounds

Learn(places) == known' = known \cup places /\ UNCHANGED <<instance, bounded>>

\* The producer of an operand gets a more specific type.
RefineOperand == \E p \in instance.hide \ known : p.side = "operand" /\ Learn({p})

\* A shape operand is folded to a constant.
FoldShapeOperand == \E p \in instance.hide \ known : p.side = "value" /\ Learn({p})

\* A result type is declared with a static dimension.
DeclareResult == \E p \in instance.hide \ known : p.side = "result" /\ Learn({p})

\* refineReturnTypes: the static dimensions of the inferred types.
RefineReturnTypes ==
    /\ actual.name \in Inferring
    /\ \E inferred \in {inferReturnTypes(op)} :
          /\ inferred # Failure
          /\ Learn({p \in instance.hide : /\ p.side = "result"
                                          /\ p.index \in DOMAIN inferred
                                          /\ p.dim \in DOMAIN inferred[p.index].dims
                                          /\ isStaticDimSize(inferred[p.index].dims[p.dim].size)})

Next == RefineOperand \/ FoldShapeOperand \/ DeclareResult \/ RefineReturnTypes

Spec == Init /\ [][Next]_vars

-----------------------------------------------------------------------------
\* Knowing more of an op never turns a rejected op into an accepted one: the
\* verifiers of TypeInference.cpp treat an unknown size as "may be right", so
\* no pass can make a legal program illegal to state by hiding a size, and an
\* op rejected today is rejected at run time.
RejectionIsFinal == [][Valid(op)' => Valid(op)]_vars

Sharpens(types, than) == \A i \in DOMAIN than : Refines(types[i], than[i])

\* inferTypeWithCustomFn keeps the merged bounds only if the first of the
\* merged types has one (anyInputHaveBounds is never updated in its loop).
DecidesBounds(o) == IF o.name = "select" THEN o.operands[2] ELSE o.operands[1]
LosesItsBounds ==
    /\ actual.name \in BinaryOps \cup {"select"}
    /\ hasBounds(DecidesBounds(op)) /\ ~ hasBounds(DecidesBounds(op)')

\* Inference only sharpens: when operands get more specific types, so do the
\* types infer* gives for the results (sizes and bounds).  The exception is the
\* step in which the operand that decides about bounds gets its last size.
InferenceIsMonotone ==
    [][actual.name \in Inferring /\ Valid(actual) /\ ~ LosesItsBounds =>
          Sharpens(inferReturnTypes(op)', inferReturnTypes(op))]_vars

\* The execution meets only shapes the inferred types admit: no size and no
\* bound inferred from partial knowledge is wrong.
InferenceIsSound ==
    actual.name \in Inferring /\ Valid(actual) =>
        \A inferred \in {inferReturnTypes(op)} :
            /\ Sharpens(actual.results, inferred)
            /\ Sharpens(inferReturnTypes(actual), inferred)

\* Ops with constraints on the sizes of their operands (a slice within the
\* operand, a padded size that is not negative, a window that fits, a size
\* that splits evenly) that their getSpeculatability does not ask about, where
\* Base.td says of the trait of slice "there cannot be a mismatch".
SizeConstrained == {"slice", "pad", "select_and_scatter", "all_to_all"}
OperandsAccepted(o) == inferReturnTypes(o) # Failure /\ verify(o)
\* set_dimension_size to a constant is speculatable whatever size the result is
\* declared with, and no verifier compares the two.
DeclaredSizeIsSet(o) ==
    \/ isDynamicDimSize(SizeAt(o.results[1], o.attrs.dimension))
    \/ <<SizeAt(o.results[1], o.attrs.dimension)>> = actual.values[2]

\* An op that its getSpeculatability lets passes hoist out of a branch meets
\* no mismatch when it executes: with the run-time types and values of its
\* operands it is valid against the result types the program declares.
\* For SizeConstrained ops this holds where their operands are acceptable, and
\* for set_dimension_size where the declared size is the one that is set.
SpeculatableIsSafe ==
    /\ Valid(op) /\ ConditionallySpeculatable(op)
    /\ actual.name \in SizeConstrained => OperandsAccepted(actual)
    /\ actual.name = "set_dimension_size" => DeclaredSizeIsSet(op)
    => Valid([actual EXCEPT !.results = op.results])

\* The shape that the code emitted by reifyReturnTypeShapes computes at run
\* time is the shape of the result, for the ops that have one.
ReifiedShapeIsActual ==
    actual.name \in Reifying /\ Valid(actual) /\ known = instance.hide =>
        reifyReturnTypeShapes(actual) \in {Sizes(actual.results[1]), Failure}

============================================================================
