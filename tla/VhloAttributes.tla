--------------------------- MODULE VhloAttributes ---------------------------
(* Types and attributes of StableHLO and of the builtin dialect, their VHLO  *)
(* counterparts, and the conversions between them.                           *)
(*                                                                           *)
(* A type or an attribute is a tuple of its kind and its parameters, such as *)
(* <<"tensor", shape, element, encoding>> and <<"integer", type, value>>;    *)
(* VHLO kinds have the names of the source.  Numbers of a type with a width  *)
(* are bit patterns.  A memref has the identity layout and no memory space;  *)
(* dictionaries are sequences of pairs of a name and a value.                *)
EXTENDS Integers, Sequences

\* A null Type or Attribute: a failed conversion or an absent parameter.
Null == <<>>

AllConverted(terms) == \A i \in 1 .. Len(terms) : terms[i] # Null

\* made, if everything it is made of could be converted.
MadeOf(terms, made) == IF AllConverted(terms) THEN made ELSE Null

-----------------------------------------------------------------------------
(* Types. *)

Signless(w) == <<"integer", "signless", w>>

convertBuiltinIntegerType(t) ==
    CASE t = Signless(1) -> <<"BooleanV1Type">>
      [] t[2] = "signless" /\ t[3] \in {2, 4, 8, 16, 32, 64} -> <<"IntegerSIV1Type", t[3]>>
      [] t[2] = "unsigned" /\ t[3] \in {2, 4, 8, 16, 32, 64} -> <<"IntegerUIV1Type", t[3]>>
      [] OTHER -> Null

convertEncodingToVhlo(attr) ==
    IF attr[1] = "type_extensions" THEN <<"TypeExtensionsV1Attr", attr[2]>> ELSE Null

RECURSIVE convertTypeToVhlo(_)
convertTypeToVhlo(t) ==
    LET Types(ts) == [i \in 1 .. Len(ts) |-> convertTypeToVhlo(ts[i])]
    IN  CASE t[1] = "integer" -> convertBuiltinIntegerType(t)
          [] t[1] = "float" -> <<"FloatV1Type", t[2]>>
          [] t[1] = "index" -> <<"IndexV1Type">>
          [] t[1] = "none" -> <<"NoneV1Type">>
          [] t[1] = "witness" -> <<"WitnessV1Type">>
          [] t[1] = "token" -> <<"TokenV1Type">>
          [] t[1] = "complex" -> <<"ComplexV1Type", convertTypeToVhlo(t[2])>>
          [] t[1] = "future" -> MadeOf(Types(t[2]), <<"FutureV1Type", Types(t[2])>>)
          [] t[1] = "tuple" -> MadeOf(Types(t[2]), <<"TupleV1Type", Types(t[2])>>)
          [] t[1] = "function" -> MadeOf(Types(t[2]) \o Types(t[3]),
                                         <<"FunctionV1Type", Types(t[2]), Types(t[3])>>)
          [] t[1] = "tensor" ->
                LET element == convertTypeToVhlo(t[3])
                    encoding == IF t[4] = Null THEN Null ELSE convertEncodingToVhlo(t[4])
                IN  IF t[4] # Null /\ encoding = Null
                    THEN Null
                    ELSE MadeOf(<<element>>, <<"RankedTensorV1Type", t[2], element, encoding>>)
          [] t[1] = "unranked" -> LET element == convertTypeToVhlo(t[2])
                                  IN  MadeOf(<<element>>, <<"UnrankedTensorV1Type", element>>)
          [] t[1] = "memref" -> LET element == convertTypeToVhlo(t[3])
                                IN  MadeOf(<<element>>, <<"RankedBufferV1Type", t[2], element>>)
          [] t[1] \in {"quant", "quant_per_axis"} ->
                LET types == Types(<<t[3], t[4]>>)
                    kind == IF t[1] = "quant" THEN "UniformQuantizedV1Type"
                                              ELSE "UniformQuantizedPerAxisV1Type"
                IN  MadeOf(types, <<kind, t[2]>> \o types \o SubSeq(t, 5, Len(t)))
          [] OTHER -> Null

\* The converter from VHLO; a reader of bytecode has one that keeps encodings.
RECURSIVE convertTypeFromVhlo(_, _)
convertTypeFromVhlo(t, keepEncoding) ==
    LET Type(x) == convertTypeFromVhlo(x, keepEncoding)
        Types(ts) == [i \in 1 .. Len(ts) |-> Type(ts[i])]
    IN  CASE t[1] = "BooleanV1Type" -> Signless(1)
          [] t[1] = "IntegerSIV1Type" -> Signless(t[2])
          [] t[1] = "IntegerUIV1Type" -> <<"integer", "unsigned", t[2]>>
          [] t[1] = "FloatV1Type" -> <<"float", t[2]>>
          [] t[1] = "IndexV1Type" -> <<"index">>
          [] t[1] = "NoneV1Type" -> <<"none">>
          [] t[1] = "WitnessV1Type" -> <<"witness">>
          [] t[1] = "TokenV1Type" -> <<"token">>
          [] t[1] = "ComplexV1Type" -> <<"complex", Type(t[2])>>
          [] t[1] = "FutureV1Type" -> <<"future", Types(t[2])>>
          [] t[1] = "TupleV1Type" -> <<"tuple", Types(t[2])>>
          [] t[1] = "FunctionV1Type" -> <<"function", Types(t[2]), Types(t[3])>>
          [] t[1] = "RankedTensorV1Type" ->
                <<"tensor", t[2], Type(t[3]),
                  IF t[4] # Null /\ ~keepEncoding THEN <<"type_extensions", t[4][2]>> ELSE t[4]>>
          [] t[1] = "UnrankedTensorV1Type" -> <<"unranked", Type(t[2])>>
          [] t[1] = "RankedBufferV1Type" -> <<"memref", t[2], Type(t[3])>>
          [] t[1] = "UniformQuantizedV1Type" ->
                <<"quant", t[2], Type(t[3]), Type(t[4])>> \o SubSeq(t, 5, Len(t))
          [] t[1] = "UniformQuantizedPerAxisV1Type" ->
                <<"quant_per_axis", t[2], Type(t[3]), Type(t[4])>> \o SubSeq(t, 5, Len(t))

convertTypesToVhlo(ts) == [i \in 1 .. Len(ts) |-> convertTypeToVhlo(ts[i])]

convertTypesFromVhlo(ts) == [i \in 1 .. Len(ts) |-> convertTypeFromVhlo(ts[i], FALSE)]

-----------------------------------------------------------------------------
(* Attributes. *)

\* Enumerations have the same names in both dialects.
StablehloEnums ==
    {"comparison_direction", "comparison_type", "fft_type", "precision", "rng_algorithm",
     "rng_distribution", "transpose", "result_accuracy_mode"}

VhloEnum(kind) ==
    CASE kind = "comparison_direction" -> "ComparisonDirectionV1Attr"
      [] kind = "comparison_type" -> "ComparisonTypeV1Attr"
      [] kind = "fft_type" -> "FftTypeV1Attr"
      [] kind = "precision" -> "PrecisionV1Attr"
      [] kind = "rng_algorithm" -> "RngAlgorithmV1Attr"
      [] kind = "rng_distribution" -> "RngDistributionV1Attr"
      [] kind = "transpose" -> "TransposeV1Attr"
      [] kind = "result_accuracy_mode" -> "ResultAccuracyModeV1Attr"

StablehloEnum(kind) == CHOOSE k \in StablehloEnums : VhloEnum(k) = kind

VhloEnums == {VhloEnum(k) : k \in StablehloEnums}

\* DenseElementsAttr holds one element if all are the same, a splat.
DenseElements(type, data) ==
    <<"dense", type,
      IF data # <<>> /\ \A i \in 1 .. Len(data) : data[i] = data[1] THEN <<data[1]>> ELSE data>>

\* The tensor that stands for an array of numbers in VHLO.
DenseArray(width, data) ==
    DenseElements(<<"tensor", <<Len(data)>>, Signless(width), Null>>, data)

RECURSIVE convertGenericToVhlo(_)

\* Attributes of StableHLO.
convertStablehloAttr(a) ==
    LET Attrs(as) == [i \in 1 .. Len(as) |-> convertGenericToVhlo(as[i])]
    IN  CASE a[1] \in StablehloEnums -> <<VhloEnum(a[1]), a[2]>>
          [] a[1] = "output_operand_alias" ->
                <<"OutputOperandAliasV1Attr", a[2], a[3], a[4]>>
          [] a[1] = "result_accuracy" ->
                <<"ResultAccuracyV1Attr", a[2], a[3], a[4], convertGenericToVhlo(a[5])>>
          [] a[1] = "sub_axis_info" -> <<"SubAxisInfoV1Attr", a[2], a[3]>>
          [] a[1] = "axis_ref" ->
                <<"AxisRefV1Attr", <<"StringV1Attr", a[2]>>,
                  IF a[3] = Null THEN Null ELSE convertGenericToVhlo(a[3])>>
          [] a[1] = "mesh_axis" -> <<"MeshAxisV1Attr", <<"StringV1Attr", a[2]>>, a[3]>>
          [] a[1] = "mesh" ->
                <<"MeshV1Attr", <<"ArrayV1Attr", Attrs(a[2])>>,
                  IF a[3] = Null THEN Null ELSE convertGenericToVhlo(a[3])>>
          [] a[1] = "replica_group_mesh_axes" ->
                LET mesh == convertGenericToVhlo(a[2])
                IN  MadeOf(<<mesh>> \o Attrs(a[3]),
                           <<"ReplicaGroupMeshAxesV1Attr", mesh, <<"ArrayV1Attr", Attrs(a[3])>>>>)

\* Attributes of the builtin dialect.
convertBuiltinAttr(a) ==
    LET Attrs(as) == [i \in 1 .. Len(as) |-> convertGenericToVhlo(as[i])]
        WithType(kind, type, rest) ==
            LET t == convertTypeToVhlo(type) IN MadeOf(<<t>>, <<kind, t>> \o rest)
    IN  CASE a[1] = "array" -> MadeOf(Attrs(a[2]), <<"ArrayV1Attr", Attrs(a[2])>>)
          [] a[1] = "dense" -> WithType("TensorV1Attr", a[2], <<a>>)
          [] a[1] = "i64_array" -> convertGenericToVhlo(DenseArray(64, a[2]))
          [] a[1] = "bool_array" -> convertGenericToVhlo(DenseArray(1, a[2]))
          [] a[1] = "dictionary" ->
                LET pairs == [i \in 1 .. Len(a[2]) |-> Attrs(a[2][i])]
                IN  IF \A i \in 1 .. Len(pairs) : AllConverted(pairs[i])
                    THEN <<"DictionaryV1Attr", pairs>> ELSE Null
          [] a[1] = "float" -> WithType("FloatV1Attr", a[2], <<a[3]>>)
          [] a[1] = "integer" ->
                IF a[2] = Signless(1) THEN <<"BooleanV1Attr", a[3]>>
                                      ELSE WithType("IntegerV1Attr", a[2], <<a[3]>>)
          [] a[1] \in {"symbol", "string"} -> <<"StringV1Attr", a[2]>>
          [] a[1] = "type" -> WithType("TypeV1Attr", a[2], <<>>)
          [] OTHER -> Null

convertGenericToVhlo(a) ==
    IF a[1] \in StablehloEnums \cup {"output_operand_alias", "result_accuracy", "sub_axis_info",
                                     "axis_ref", "mesh_axis", "mesh", "replica_group_mesh_axes"}
    THEN convertStablehloAttr(a)
    ELSE convertBuiltinAttr(a)

RECURSIVE convertGenericFromVhlo(_)

\* Attributes that become attributes of StableHLO.
convertVhloToStablehloAttr(a) ==
    LET Attrs(as) == [i \in 1 .. Len(as) |-> convertGenericFromVhlo(as[i])]
    IN  CASE a[1] \in VhloEnums -> <<StablehloEnum(a[1]), a[2]>>
          [] a[1] = "OutputOperandAliasV1Attr" -> <<"output_operand_alias", a[2], a[3], a[4]>>
          [] a[1] = "ResultAccuracyV1Attr" ->
                <<"result_accuracy", a[2], a[3], a[4], convertGenericFromVhlo(a[5])>>
          [] a[1] = "SubAxisInfoV1Attr" -> <<"sub_axis_info", a[2], a[3]>>
          [] a[1] = "AxisRefV1Attr" ->
                <<"axis_ref", a[2][2], IF a[3] = Null THEN Null ELSE convertGenericFromVhlo(a[3])>>
          [] a[1] = "MeshAxisV1Attr" -> <<"mesh_axis", a[2][2], a[3]>>
          [] a[1] = "MeshV1Attr" ->
                <<"mesh", Attrs(a[2][2]), IF a[3] = Null THEN Null ELSE convertGenericFromVhlo(a[3])>>
          [] a[1] = "ReplicaGroupMeshAxesV1Attr" ->
                <<"replica_group_mesh_axes",
                  IF a[2][1] = "StringV1Attr" THEN <<"symbol", a[2][2]>>
                                              ELSE convertGenericFromVhlo(a[2]),
                  Attrs(a[3][2])>>

\* Attributes that become attributes of the builtin dialect.
convertGenericFromVhlo(a) ==
    LET Attrs(as) == [i \in 1 .. Len(as) |-> convertGenericFromVhlo(as[i])]
    IN  CASE a[1] = "ArrayV1Attr" -> <<"array", Attrs(a[2])>>
          [] a[1] = "BooleanV1Attr" -> <<"integer", Signless(1), a[2]>>
          [] a[1] = "DictionaryV1Attr" ->
                <<"dictionary", [i \in 1 .. Len(a[2]) |-> Attrs(a[2][i])]>>
          [] a[1] = "FloatV1Attr" -> <<"float", convertTypeFromVhlo(a[2], FALSE), a[3]>>
          [] a[1] = "IntegerV1Attr" -> <<"integer", convertTypeFromVhlo(a[2], FALSE), a[3]>>
          [] a[1] = "StringV1Attr" -> <<"string", a[2]>>
          [] a[1] = "TensorV1Attr" -> a[3]
          [] a[1] = "TypeV1Attr" -> <<"type", convertTypeFromVhlo(a[2], FALSE)>>
          [] OTHER -> convertVhloToStablehloAttr(a)

=============================================================================
