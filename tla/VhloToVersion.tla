---------------------------- MODULE VhloToVersion ----------------------------
(* VhloToVersionPass: legality of types, attributes and ops at a target      *)
(* version, the upgrade and downgrade patterns, and the conversion of a      *)
(* module, which succeeds for all of its ops or not at all.                  *)
EXTENDS Vhlo

-----------------------------------------------------------------------------
(* Legality. *)

Min2(m, n) == IF m < n THEN m ELSE n

FloatMinVersion(n) ==
    CASE n \in {"f8E4M3FNUZ", "f8E5M2FNUZ"} -> <<0, 10, 0>>
      [] n = "f8E4M3B11FNUZ" -> <<0, 11, 0>>
      [] n = "tf32" -> <<1, 6, 0>>
      [] n \in {"f8E3M4", "f8E4M3"} -> <<1, 7, 0>>
      [] n \in {"f4E2M1FN", "f6E2M3FN", "f6E3M2FN", "f8E8M0FNU"} -> <<1, 8, 0>>
      [] OTHER -> <<0, 9, 0>>

TypeMinVersion(t) ==
    CASE t[1] = "FloatV1Type" -> FloatMinVersion(t[2])
      [] t[1] \in {"IntegerSIV1Type", "IntegerUIV1Type"} ->
            IF t[2] = 2 THEN <<1, 2, 0>> ELSE <<0, 9, 0>>
      [] t[1] = "UniformQuantizedPerAxisV1Type" -> <<0, 18, 0>>
      [] t[1] = "NoneV1Type" -> <<1, 6, 0>>
      [] t[1] = "RankedBufferV1Type" -> <<1, 13, 0>>
      [] t[1] = "FutureV1Type" -> <<1, 15, 0>>
      [] OTHER -> <<0, 9, 0>>

GenericMinVersion(kind) ==
    CASE kind \in {"ResultAccuracyModeV1Attr", "ResultAccuracyV1Attr"} -> <<1, 9, 0>>
      [] kind \in {"SubAxisInfoV1Attr", "AxisRefV1Attr", "ReplicaGroupMeshAxesV1Attr",
                   "MeshAxisV1Attr", "MeshV1Attr"} -> <<1, 16, 0>>
      [] OTHER -> <<0, 9, 0>>

RECURSIVE isLegalType(_, _)

\* isLegalAttribute: mesh axes and meshes are not visited any further.
RECURSIVE isLegalGeneric(_, _)
isLegalGeneric(a, target) ==
    /\ AtMost(GenericMinVersion(a[1]), target)
    /\ CASE a[1] = "ArrayV1Attr" -> \A i \in 1 .. Len(a[2]) : isLegalGeneric(a[2][i], target)
         [] a[1] = "DictionaryV1Attr" ->
               \A i \in 1 .. Len(a[2]) : /\ isLegalGeneric(a[2][i][1], target)
                                        /\ isLegalGeneric(a[2][i][2], target)
         [] a[1] \in {"FloatV1Attr", "IntegerV1Attr", "TensorV1Attr", "TypeV1Attr"} ->
               isLegalType(a[2], target)
         [] a[1] = "ResultAccuracyV1Attr" -> isLegalGeneric(a[5], target)
         [] a[1] = "AxisRefV1Attr" ->
               isLegalGeneric(a[2], target) /\ (a[3] # Null => isLegalGeneric(a[3], target))
         [] a[1] = "ReplicaGroupMeshAxesV1Attr" ->
               isLegalGeneric(a[2], target) /\ isLegalGeneric(a[3], target)
         [] OTHER -> TRUE

\* Faulty variant: only a type and, if it is a tensor, its element are checked.
isLegalTypeShallow(t, target) ==
    /\ AtMost(TypeMinVersion(t), target)
    /\ t[1] = "RankedTensorV1Type" => AtMost(TypeMinVersion(t[3]), target)

\* Types quantized per axis and futures are not visited any further.
isLegalType(t, target) ==
    /\ AtMost(TypeMinVersion(t), target)
    /\ CASE t[1] \in {"ComplexV1Type", "UnrankedTensorV1Type"} -> isLegalType(t[2], target)
         [] t[1] = "FunctionV1Type" ->
               \A i \in 1 .. Len(t[2] \o t[3]) : isLegalType((t[2] \o t[3])[i], target)
         [] t[1] = "RankedTensorV1Type" ->
               /\ t[4] # Null => isLegalGeneric(t[4], target)
               /\ isLegalType(t[3], target)
         [] t[1] = "TupleV1Type" -> \A i \in 1 .. Len(t[2]) : isLegalType(t[2][i], target)
         [] t[1] = "UniformQuantizedV1Type" ->
               isLegalType(t[3], target) /\ isLegalType(t[4], target)
         [] t[1] = "RankedBufferV1Type" -> isLegalType(t[3], target)
         [] OTHER -> TRUE

\* Replica groups given by mesh axes, and result accuracies, are the only
\* attributes of ops that are younger than VHLO.
AttrMinVersion(a, value) ==
    CASE a = "result_accuracy" -> <<1, 9, 0>>
      [] a = "replica_groups" /\ value = <<"mesh">> -> <<1, 16, 0>>
      [] OTHER -> <<0, 9, 0>>

isLegalAttribute(a, value, target) ==
    /\ AtMost(AttrMinVersion(a, value), target)
    /\ IsGeneric(a, value) => isLegalGeneric(value[2], target)

getVhloElementType(t) == IF t[1] = "RankedTensorV1Type" THEN t[3] ELSE t[2]

\* checkIfOperandAndResultElementTypesMatch: operands and results in pairs, as
\* far as both go.
ElementTypesMatch(op) ==
    \A i \in 1 .. Min2(Len(op.operands), Len(op.results)) :
        getVhloElementType(op.operands[i]) = getVhloElementType(op.results[i])

isVhloFp8Type(e) ==
    /\ e[1] = "FloatV1Type"
    /\ e[2] \in {"f8E3M4", "f8E4M3", "f8E4M3FN", "f8E5M2", "f8E4M3FNUZ", "f8E4M3B11FNUZ",
                 "f8E5M2FNUZ", "f8E8M0FNU"}

verifyConstraint_0_17_0(op, target) ==
    ElementTypesMatch(op) \/ ~LessThan(target, <<0, 17, 0>>)

verifyConstraint_1_3_0(op, target) ==
    \/ ~LessThan(target, <<1, 3, 0>>)
    \/ /\ op.attrs["backend_config"] \notin {<<"{}">>, <<"{k}">>}
       /\ op.attrs["api_version"] # <<"typed_ffi">>

verifyConstraint_1_17_0(op, target) ==
    \/ ~LessThan(target, <<1, 17, 0>>)
    \/ \A i \in 1 .. Len(op.operands) : op.operands[i][1] # "FutureV1Type"

verifyConstraint_1_20_0(op, target) ==
    \/ ~LessThan(target, <<1, 20, 0>>)
    \/ /\ Len(op.operands) >= 2
       /\ LET lhs == getVhloElementType(op.operands[1])
              rhs == getVhloElementType(op.operands[2])
          IN  lhs = rhs \/ ~isVhloFp8Type(lhs) \/ ~isVhloFp8Type(rhs)

\* The attribute stands for the seven fields of a dot algorithm.
verifyConstraint_1_21_0(op, target) ==
    ~LessThan(target, <<1, 21, 0>>) \/ op.attrs["algorithm"] # <<"f8E4M3FN">>

validateConstraint(op, target) ==
    CASE <<op.name, op.v>> \in {<<"all_reduce", 1>>, <<"reduce", 1>>, <<"reduce_scatter", 1>>,
                               <<"reduce_window", 1>>, <<"scatter", 1>>,
                               <<"select_and_scatter", 1>>} ->
            verifyConstraint_0_17_0(op, target)
      [] <<op.name, op.v>> \in {<<"convolution", 1>>, <<"dynamic_conv", 2>>} ->
            verifyConstraint_1_20_0(op, target)
      [] <<op.name, op.v>> = <<"dot_general", 2>> -> verifyConstraint_1_21_0(op, target)
      [] <<op.name, op.v>> = <<"custom_call", 1>> ->
            /\ verifyConstraint_1_17_0(op, target)
            /\ verifyConstraint_1_3_0(op, target)
      [] OTHER -> TRUE

isLegalVersion(op, target) ==
    /\ AtMost(getMinVersion(op.name, op.v), target)
    /\ AtMost(target, getMaxVersion(op.name, op.v))

isLegalOperation(op, target) ==
    /\ isLegalVersion(op, target)
    /\ validateConstraint(op, target)
    /\ \A a \in DOMAIN op.attrs : isLegalAttribute(a, op.attrs[a], target)
    /\ \A i \in 1 .. Len(op.operands) : isLegalType(op.operands[i], target)
    /\ \A i \in 1 .. Len(op.results) : isLegalType(op.results[i], target)

-----------------------------------------------------------------------------
(* Patterns. *)

\* V1 to V2: attributes that V2 added get their defaults, in any case.
Upgrade(op) ==
    [op EXCEPT !.v = 2,
               !.attrs = [a \in AttrNames(op.name) |->
                             IF a \in AddedAttrs(op.name) THEN Default ELSE op.attrs[a]]]

\* Ops that take one operand in V1 and any number in V2.
BecameVariadic(name) == name \in VariadicOps \cup {"collective_broadcast"}

\* Faulty variant: the values of the attributes that V1 lacks do not matter.
CanDowngradeAny(op) == BecameVariadic(op.name) => Len(op.operands) = 1

\* The guard of the patterns from V2 to V1.
CanDowngrade(op) ==
    /\ BecameVariadic(op.name) => Len(op.operands) = 1
    /\ \A a \in AddedAttrs(op.name) : op.attrs[a] = Default

\* Faulty variant: the _v1 is built without the attributes that were removed.
DowngradeBare(op) ==
    [op EXCEPT !.v = 1,
               !.attrs = [a \in AttrNames(op.name) \ AddedAttrs(op.name) |-> op.attrs[a]]]

Downgrade(op) ==
    [op EXCEPT !.v = 1,
               !.attrs = [a \in (AttrNames(op.name) \ AddedAttrs(op.name))
                                \cup RemovedAttrs(op.name) |->
                             IF a \in RemovedAttrs(op.name) THEN Default ELSE op.attrs[a]]]

\* What the patterns make of an op that is not legal.
Rewritten(op) == IF op.v = 1 THEN Upgrade(op) ELSE Downgrade(op)

HasPattern(op) == op.name \in RevisedOps /\ (op.v = 2 => CanDowngrade(op))

-----------------------------------------------------------------------------
(* applyPartialConversion. *)

CanConvert(op, target) ==
    \/ isLegalOperation(op, target)
    \/ HasPattern(op) /\ isLegalOperation(Rewritten(op), target)

Convert(op, target) == IF isLegalOperation(op, target) THEN op ELSE Rewritten(op)

CanConvertModule(ops, target) == \A i \in 1 .. Len(ops) : CanConvert(ops[i], target)

ConvertModule(ops, target) == [i \in 1 .. Len(ops) |-> Convert(ops[i], target)]

=============================================================================
