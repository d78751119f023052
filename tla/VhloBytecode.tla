---------------------------- MODULE VhloBytecode ----------------------------
(* VhloBytecodeInterface: how types and attributes of VHLO are written to    *)
(* bytecode and read back.  Whatever an attribute or a type of VHLO contains *)
(* is of VHLO too.                                                           *)
EXTENDS VhloAttributes, DialectBytecode, FiniteSetsExt, TLC

-----------------------------------------------------------------------------
(* Codes. *)

AttributeCode(kind) ==
    CASE kind = "ArrayV1Attr" -> 1                 [] kind = "BooleanV1Attr" -> 2
      [] kind = "ComparisonDirectionV1Attr" -> 3   [] kind = "ComparisonTypeV1Attr" -> 4
      [] kind = "CustomCallApiVersionV1Attr" -> 5  [] kind = "DictionaryV1Attr" -> 6
      [] kind = "FftTypeV1Attr" -> 7               [] kind = "FloatV1Attr" -> 8
      [] kind = "IntegerV1Attr" -> 9               [] kind = "OutputOperandAliasV1Attr" -> 10
      [] kind = "PrecisionV1Attr" -> 11            [] kind = "RngAlgorithmV1Attr" -> 12
      [] kind = "RngDistributionV1Attr" -> 13      [] kind = "StringV1Attr" -> 14
      [] kind = "TensorV1Attr" -> 15               [] kind = "TransposeV1Attr" -> 16
      [] kind = "TypeV1Attr" -> 17                 [] kind = "TypeExtensionsV1Attr" -> 18
      [] kind = "ResultAccuracyModeV1Attr" -> 19   [] kind = "ResultAccuracyV1Attr" -> 20
      [] kind = "SubAxisInfoV1Attr" -> 21          [] kind = "AxisRefV1Attr" -> 22
      [] kind = "ReplicaGroupMeshAxesV1Attr" -> 23 [] kind = "MeshAxisV1Attr" -> 24
      [] kind = "MeshV1Attr" -> 25

\* Types without parameters, in the order of the first codes.
FloatCodes ==
    [bf16 |-> 2, f16 |-> 3, f32 |-> 4, f64 |-> 5, f8E4M3FN |-> 6, f8E5M2 |-> 7,
     f8E4M3FNUZ |-> 27, f8E5M2FNUZ |-> 28, f8E4M3B11FNUZ |-> 29, tf32 |-> 34, f8E4M3 |-> 35,
     f8E3M4 |-> 36, f4E2M1FN |-> 37, f6E2M3FN |-> 38, f6E3M2FN |-> 39, f8E8M0FNU |-> 40]

SignedCodes == 2 :> 31 @@ 4 :> 10 @@ 8 :> 11 @@ 16 :> 12 @@ 32 :> 13 @@ 64 :> 14

UnsignedCodes == 2 :> 32 @@ 4 :> 15 @@ 8 :> 16 @@ 16 :> 17 @@ 32 :> 18 @@ 64 :> 19

\* Every code of a type without parameters.
SimpleTypes ==
    {<<<<"BooleanV1Type">>, 0>>, <<<<"IndexV1Type">>, 9>>, <<<<"TokenV1Type">>, 22>>,
     <<<<"WitnessV1Type">>, 26>>, <<<<"NoneV1Type">>, 33>>}
    \cup {<<<<"FloatV1Type", n>>, FloatCodes[n]>> : n \in DOMAIN FloatCodes}
    \cup {<<<<"IntegerSIV1Type", w>>, SignedCodes[w]>> : w \in DOMAIN SignedCodes}
    \cup {<<<<"IntegerUIV1Type", w>>, UnsignedCodes[w]>> : w \in DOMAIN UnsignedCodes}

TypeCode(kind) ==
    CASE kind = "ComplexV1Type" -> 1           [] kind = "FunctionV1Type" -> 8
      [] kind = "RankedTensorV1Type" -> 20     [] kind = "TupleV1Type" -> 23
      [] kind = "UniformQuantizedV1Type" -> 24 [] kind = "UnrankedTensorV1Type" -> 25
      [] kind = "UniformQuantizedPerAxisV1Type" -> 30
      [] kind = "RankedBufferV1Type" -> 41     [] kind = "FutureV1Type" -> 42

kRankedTensorV1TypeWithEncoding == 21

\* The numbers of an enumeration's cases; 0 is no random distribution.
EnumCases(kind) ==
    CASE kind = "ComparisonDirectionV1Attr" -> <<"EQ", "NE", "GE", "GT", "LE", "LT">>
      [] kind = "ComparisonTypeV1Attr" ->
            <<"NOTYPE", "FLOAT", "TOTALORDER", "SIGNED", "UNSIGNED">>
      [] kind = "CustomCallApiVersionV1Attr" ->
            <<"API_VERSION_UNSPECIFIED", "API_VERSION_ORIGINAL",
              "API_VERSION_STATUS_RETURNING", "API_VERSION_STATUS_RETURNING_UNIFIED",
              "API_VERSION_TYPED_FFI">>
      [] kind = "FftTypeV1Attr" -> <<"FFT", "IFFT", "RFFT", "IRFFT">>
      [] kind = "PrecisionV1Attr" -> <<"DEFAULT", "HIGH", "HIGHEST">>
      [] kind = "RngAlgorithmV1Attr" -> <<"DEFAULT", "THREE_FRY", "PHILOX">>
      [] kind = "RngDistributionV1Attr" -> <<"UNIFORM", "NORMAL">>
      [] kind = "TransposeV1Attr" ->
            <<"TRANSPOSE_INVALID", "NO_TRANSPOSE", "TRANSPOSE", "ADJOINT">>
      [] kind = "ResultAccuracyModeV1Attr" -> <<"DEFAULT", "HIGHEST", "TOLERANCE">>

FirstCase(kind) == IF kind = "RngDistributionV1Attr" THEN 1 ELSE 0

-----------------------------------------------------------------------------
(* Writing types. *)

RECURSIVE writeType(_)
RECURSIVE writeAttribute(_)

writeTypes(ts) == WriteList([i \in 1 .. Len(ts) |-> writeType(ts[i])])

writeAttributes(as) == WriteList([i \in 1 .. Len(as) |-> writeAttribute(as[i])])

writeElementType(t) == VarInt(TypeCode(t[1])) \o writeType(t[2])

writeFunctionV1Type(t) == VarInt(TypeCode(t[1])) \o writeTypes(t[2]) \o writeTypes(t[3])

writeRankedTensorV1Type(t) ==
    (IF t[4] # Null
     THEN VarInt(kRankedTensorV1TypeWithEncoding) \o writeAttribute(t[4])
     ELSE VarInt(TypeCode(t[1])))
    \o WriteSignedVarInts(t[2]) \o writeType(t[3])

writeTypeList(t) == VarInt(TypeCode(t[1])) \o writeTypes(t[2])

writeUniformQuantizedPerAxisV1Type(t) ==
    VarInt(TypeCode(t[1])) \o VarInt(t[2]) \o writeType(t[3]) \o writeType(t[4]) \o VarInt(t[5])
    \o SignedVarInt(t[8]) \o SignedVarInt(t[9])
    \o WriteList([i \in 1 .. Len(t[6]) |-> APInt(64, t[6][i])]) \o WriteSignedVarInts(t[7])

writeUniformQuantizedV1Type(t) ==
    VarInt(TypeCode(t[1])) \o VarInt(t[2]) \o writeType(t[3]) \o writeType(t[4])
    \o APInt(64, t[5]) \o SignedVarInt(t[6]) \o SignedVarInt(t[7]) \o SignedVarInt(t[8])

writeRankedBufferV1Type(t) ==
    VarInt(TypeCode(t[1])) \o WriteSignedVarInts(t[2]) \o writeType(t[3])

writeType(t) ==
    CASE t[1] \in {"ComplexV1Type", "UnrankedTensorV1Type"} -> writeElementType(t)
      [] t[1] = "FunctionV1Type" -> writeFunctionV1Type(t)
      [] t[1] = "RankedTensorV1Type" -> writeRankedTensorV1Type(t)
      [] t[1] \in {"FutureV1Type", "TupleV1Type"} -> writeTypeList(t)
      [] t[1] = "UniformQuantizedPerAxisV1Type" -> writeUniformQuantizedPerAxisV1Type(t)
      [] t[1] = "UniformQuantizedV1Type" -> writeUniformQuantizedV1Type(t)
      [] t[1] = "RankedBufferV1Type" -> writeRankedBufferV1Type(t)
      [] OTHER -> VarInt((CHOOSE s \in SimpleTypes : s[1] = t)[2])

-----------------------------------------------------------------------------
(* Writing attributes. *)

writeEnumAttribute(a) ==
    VarInt(FirstCase(a[1])
           + (CHOOSE i \in 1 .. Len(EnumCases(a[1])) : EnumCases(a[1])[i] = a[2]) - 1)

writeEnumV1Attr(a) == VarInt(AttributeCode(a[1])) \o writeEnumAttribute(a)

writeArrayV1Attr(a) == VarInt(AttributeCode(a[1])) \o writeAttributes(a[2])

writeBooleanV1Attr(a) == VarInt(AttributeCode(a[1])) \o VarInt(a[2])

writeDictionaryV1Attr(a) ==
    VarInt(AttributeCode(a[1]))
    \o WriteList([i \in 1 .. Len(a[2]) |->
                     writeAttribute(a[2][i][1]) \o writeAttribute(a[2][i][2])])

getFloatSemantics(t) ==
    CASE t[2] = "f64" -> 64
      [] t[2] = "f32" -> 32
      [] t[2] = "tf32" -> 19
      [] t[2] \in {"bf16", "f16"} -> 16
      [] t[2] \in {"f6E2M3FN", "f6E3M2FN"} -> 6
      [] t[2] = "f4E2M1FN" -> 4
      [] OTHER -> 8

writeFloatV1Attr(a) ==
    VarInt(AttributeCode(a[1])) \o writeType(a[2]) \o APInt(getFloatSemantics(a[2]), a[3])

\* An APInt knows its width, which for an index is that of its storage.
BitWidth(t) == IF t[1] = "IndexV1Type" THEN 64 ELSE t[2]

writeIntegerV1Attr(a) ==
    VarInt(AttributeCode(a[1])) \o writeType(a[2]) \o APInt(BitWidth(a[2]), a[3])

writeOutputOperandAliasV1Attr(a) ==
    VarInt(AttributeCode(a[1])) \o WriteSignedVarInts(a[2]) \o SignedVarInt(a[3])
    \o WriteSignedVarInts(a[4])

writeStringV1Attr(a) == VarInt(AttributeCode(a[1])) \o <<<<"string", a[2]>>>>

isBooleanType(t) == t[1] = "RankedTensorV1Type" /\ t[3] = <<"BooleanV1Type">>

\* Tensors of this model have at most one dimension.
NumElements(t) == IF t[2] = <<>> THEN 1 ELSE t[2][1]

DivideCeil8(n) == (n + 7) \div 8

\* Faulty variant: a true splat is written as the byte that it is in memory.
writeVhloTensorV1AttrPlainSplat(type, data) ==
    IF ~isBooleanType(type) \/ Len(data) = 1
    THEN data
    ELSE [byte \in 1 .. DivideCeil8(NumElements(type)) |->
             SumSet({2 ^ i : i \in {j \in 0 .. 7 :
                 /\ 8 * (byte - 1) + j < NumElements(type)
                 /\ data[8 * (byte - 1) + j + 1] # 0}})]

\* The blob of a tensor: booleans are packed, 8 in a byte; a splat of trues is
\* one byte with all bits set.
writeVhloTensorV1Attr(type, data) ==
    CASE ~isBooleanType(type) -> data
      [] isBooleanType(type) /\ Len(data) = 1 /\ NumElements(type) > 1 ->
            IF data[1] # 0 THEN <<255>> ELSE <<0>>
      [] OTHER ->
            [byte \in 1 .. DivideCeil8(NumElements(type)) |->
                SumSet({2 ^ i : i \in {j \in 0 .. 7 :
                    /\ 8 * (byte - 1) + j < NumElements(type)
                    /\ data[8 * (byte - 1) + j + 1] # 0}})]

writeTensorV1Attr(a) ==
    VarInt(AttributeCode(a[1])) \o writeType(a[2])
    \o <<<<"blob", writeVhloTensorV1Attr(a[2], a[3][3])>>>>

writeTypeV1Attr(a) == VarInt(AttributeCode(a[1])) \o writeType(a[2])

writeTypeExtensionsV1Attr(a) == VarInt(AttributeCode(a[1])) \o WriteSignedVarInts(a[2])

writeResultAccuracyV1Attr(a) ==
    VarInt(AttributeCode(a[1])) \o APInt(64, a[2]) \o APInt(64, a[3]) \o SignedVarInt(a[4])
    \o writeAttribute(a[5])

writeSubAxisInfoV1Attr(a) ==
    VarInt(AttributeCode(a[1])) \o SignedVarInt(a[2]) \o SignedVarInt(a[3])

\* writeOptionalAttribute, which AxisRefV1Attr spells out.
writeOptional(a) == IF a = Null THEN VarInt(0) ELSE VarInt(1) \o writeAttribute(a)

writeAxisRefV1Attr(a) ==
    VarInt(AttributeCode(a[1])) \o writeAttribute(a[2]) \o writeOptional(a[3])

writeReplicaGroupMeshAxesV1Attr(a) ==
    VarInt(AttributeCode(a[1])) \o writeAttribute(a[2]) \o writeAttribute(a[3])

writeMeshAxisV1Attr(a) ==
    VarInt(AttributeCode(a[1])) \o writeAttribute(a[2]) \o SignedVarInt(a[3])

writeMeshV1Attr(a) ==
    VarInt(AttributeCode(a[1])) \o writeAttribute(a[2]) \o writeOptional(a[3])

writeAttribute(a) ==
    CASE a[1] = "ArrayV1Attr" -> writeArrayV1Attr(a)
      [] a[1] = "BooleanV1Attr" -> writeBooleanV1Attr(a)
      [] a[1] = "DictionaryV1Attr" -> writeDictionaryV1Attr(a)
      [] a[1] = "FloatV1Attr" -> writeFloatV1Attr(a)
      [] a[1] = "IntegerV1Attr" -> writeIntegerV1Attr(a)
      [] a[1] = "OutputOperandAliasV1Attr" -> writeOutputOperandAliasV1Attr(a)
      [] a[1] = "StringV1Attr" -> writeStringV1Attr(a)
      [] a[1] = "TensorV1Attr" -> writeTensorV1Attr(a)
      [] a[1] = "TypeV1Attr" -> writeTypeV1Attr(a)
      [] a[1] = "TypeExtensionsV1Attr" -> writeTypeExtensionsV1Attr(a)
      [] a[1] = "ResultAccuracyV1Attr" -> writeResultAccuracyV1Attr(a)
      [] a[1] = "SubAxisInfoV1Attr" -> writeSubAxisInfoV1Attr(a)
      [] a[1] = "AxisRefV1Attr" -> writeAxisRefV1Attr(a)
      [] a[1] = "ReplicaGroupMeshAxesV1Attr" -> writeReplicaGroupMeshAxesV1Attr(a)
      [] a[1] = "MeshAxisV1Attr" -> writeMeshAxisV1Attr(a)
      [] a[1] = "MeshV1Attr" -> writeMeshV1Attr(a)
      [] OTHER -> writeEnumV1Attr(a)

-----------------------------------------------------------------------------
(* Reading. *)

RECURSIVE readType(_)
RECURSIVE readAttribute(_)

RECURSIVE readTypesOf(_, _)
readTypesOf(r, n) == IF n = 0 \/ ~r.ok THEN r ELSE readTypesOf(readType(r), n - 1)

readCountedTypes(r, count) ==
    IF count.ok
    THEN Resume(r, Collected(readTypesOf(InEmptyFrame(count), Value(count)))) ELSE Failed

readTypes(r) == readCountedTypes(r, Coded(r))

RECURSIVE readAttributesOf(_, _)
readAttributesOf(r, n) == IF n = 0 \/ ~r.ok THEN r ELSE readAttributesOf(readAttribute(r), n - 1)

readCountedAttributes(r, count) ==
    IF count.ok
    THEN Resume(r, Collected(readAttributesOf(InEmptyFrame(count), Value(count)))) ELSE Failed

readAttributes(r) == readCountedAttributes(r, Coded(r))

-----------------------------------------------------------------------------
(* Reading types. *)

readComplexV1Type(r) == Made("ComplexV1Type", readType(r))

readFunctionV1Type(r) == Made("FunctionV1Type", readTypes(readTypes(r)))

\* The encoding comes first.
RankedTensorOf(r) ==
    IF r.ok
    THEN Made("RankedTensorV1Type", [r EXCEPT !.values = <<@[2], @[3], @[1]>>])
    ELSE Failed

readRankedTensorV1Type(r, hasEncoding) ==
    RankedTensorOf(readType(ReadSignedVarInts(
        IF hasEncoding THEN readAttribute(r) ELSE [r EXCEPT !.values = <<Null>>])))

readFutureV1Type(r) == Made("FutureV1Type", readTypes(r))

readTupleV1Type(r) == Made("TupleV1Type", readTypes(r))

\* Faulty variant: the fields in the order in which the type has them.
readUniformQuantizedPerAxisV1TypeDeclared(r) ==
    LET head == Read(readType(readType(Read(r, "varint"))), "varint")
    IN  Made("UniformQuantizedPerAxisV1Type",
             Read(Read(ReadSignedVarInts(ReadItems(head, "svarint")), "svarint"), "svarint"))

\* The limits are stored before the scales and the zero points.
PerAxisOf(r) ==
    IF r.ok
    THEN Made("UniformQuantizedPerAxisV1Type",
              [r EXCEPT !.values = SubSeq(@, 1, 4) \o SubSeq(@, 7, 8) \o SubSeq(@, 5, 6)])
    ELSE Failed

readUniformQuantizedPerAxisV1Type(r) ==
    PerAxisOf(ReadSignedVarInts(ReadItems(
        Read(Read(Read(readType(readType(Read(r, "varint"))), "varint"), "svarint"), "svarint"),
        "svarint")))

readUniformQuantizedV1Type(r) ==
    LET scale == ReadAPInt(readType(readType(Read(r, "varint"))), 64)
    IN  Made("UniformQuantizedV1Type",
             Read(Read(Read(scale, "svarint"), "svarint"), "svarint"))

readUnrankedTensorV1Type(r) == Made("UnrankedTensorV1Type", readType(r))

readRankedBufferV1Type(r) == Made("RankedBufferV1Type", readType(ReadSignedVarInts(r)))

readTypeOf(code, body) ==
    CASE code = 1 -> readComplexV1Type(body)
      [] code = 8 -> readFunctionV1Type(body)
      [] code \in {20, 21} ->
            readRankedTensorV1Type(body, code = kRankedTensorV1TypeWithEncoding)
      [] code = 23 -> readTupleV1Type(body)
      [] code = 24 -> readUniformQuantizedV1Type(body)
      [] code = 25 -> readUnrankedTensorV1Type(body)
      [] code = 30 -> readUniformQuantizedPerAxisV1Type(body)
      [] code = 41 -> readRankedBufferV1Type(body)
      [] code = 42 -> readFutureV1Type(body)
      [] code \in {s[2] : s \in SimpleTypes} ->
            [body EXCEPT !.values = <<(CHOOSE s \in SimpleTypes : s[2] = code)[1]>>]
      [] OTHER -> Failed

readCodedType(r, c) ==
    IF c.ok THEN Resume(r, readTypeOf(Value(c), InEmptyFrame(c))) ELSE Failed

readType(r) == readCodedType(r, Coded(r))

-----------------------------------------------------------------------------
(* Reading attributes. *)

readArrayV1Attr(r) == Made("ArrayV1Attr", readAttributes(r))

BooleanOf(n) == IF n.ok /\ Value(n) \in {0, 1} THEN Made("BooleanV1Attr", n) ELSE Failed

readBooleanV1Attr(r) == BooleanOf(Read(r, "varint"))

readEnumAttribute(r, kind) ==
    LET n == Read(r, "varint")
        i == Value(n) - FirstCase(kind) + 1
    IN  IF n.ok /\ i \in 1 .. Len(EnumCases(kind))
        THEN [n EXCEPT !.values = <<EnumCases(kind)[i]>>]
        ELSE Failed

readEnumV1Attr(r, kind) == Made(kind, readEnumAttribute(r, kind))

RECURSIVE readNamedAttrs(_, _)
readNamedAttrs(r, n) ==
    IF n = 0 \/ ~r.ok
    THEN r
    ELSE readNamedAttrs(
             Resume(r, Collected(readAttribute(readAttribute([r EXCEPT !.values = <<>>])))), n - 1)

readCountedNamedAttrs(count) ==
    IF count.ok THEN Collected(readNamedAttrs(InEmptyFrame(count), Value(count))) ELSE Failed

readDictionaryV1Attr(r) == Made("DictionaryV1Attr", readCountedNamedAttrs(Read(r, "varint")))

FloatOf(t) ==
    IF t.ok /\ Value(t)[1] = "FloatV1Type"
    THEN Made("FloatV1Attr", ReadAPInt(t, getFloatSemantics(Value(t)))) ELSE Failed

readFloatV1Attr(r) == FloatOf(readType(r))

\* Without a case for i2 and ui2, on which the reader aborts.
getBitWidthForIntegerType(t) ==
    IF /\ t[1] \in {"IntegerSIV1Type", "IntegerUIV1Type"}
       /\ t[2] \in {4, 8, 16, 32, 64}
    THEN t[2] ELSE 0

IntegerOf(t) ==
    LET width == IF Value(t) = <<"IndexV1Type">> THEN 64 ELSE getBitWidthForIntegerType(Value(t))
    IN  IF t.ok /\ width # 0 THEN Made("IntegerV1Attr", ReadAPInt(t, width)) ELSE Failed

readIntegerV1Attr(r) == IntegerOf(readType(r))

readOutputOperandAliasV1Attr(r) ==
    Made("OutputOperandAliasV1Attr",
         ReadSignedVarInts(Read(ReadSignedVarInts(r), "svarint")))

readStringV1Attr(r) == Made("StringV1Attr", Read(r, "string"))

\* The raw data of a tensor.  A blob that is neither a splat of trues nor of
\* the packed size holds one byte per boolean, or one for all of them.
readVhloTensorV1Attr(type, blob) ==
    LET n == NumElements(type)
    IN  CASE isBooleanType(type) /\ blob = <<255>> -> <<1>>
          [] /\ isBooleanType(type) /\ blob # <<255>>
             /\ Len(blob) = DivideCeil8(n) /\ Len(blob) # n ->
                [i \in 1 .. n |-> (blob[(i - 1) \div 8 + 1] \div 2 ^ ((i - 1) % 8)) % 2]
          [] OTHER -> blob

TensorOf(t) ==
    IF t.ok
    THEN Made("TensorV1Attr",
              [t EXCEPT !.values = <<@[1], DenseElements(convertTypeFromVhlo(@[1], TRUE),
                                                         readVhloTensorV1Attr(@[1], @[2]))>>])
    ELSE Failed

readTensorV1Attr(r) == TensorOf(Read(readType(r), "blob"))

readTypeV1Attr(r) == Made("TypeV1Attr", readType(r))

readTypeExtensionsV1Attr(r) == Made("TypeExtensionsV1Attr", ReadSignedVarInts(r))

readResultAccuracyV1Attr(r) ==
    Made("ResultAccuracyV1Attr",
         readAttribute(Read(ReadAPInt(ReadAPInt(r, 64), 64), "svarint")))

readSubAxisInfoV1Attr(r) == Made("SubAxisInfoV1Attr", Read(Read(r, "svarint"), "svarint"))

\* readOptionalAttribute, which AxisRefV1Attr spells out.
readFlagged(r, flag) ==
    CASE ~flag.ok -> Failed
      [] flag.ok /\ Value(flag) = 0 -> Resume(r, [flag EXCEPT !.values = <<Null>>])
      [] OTHER -> Resume(r, readAttribute(InEmptyFrame(flag)))

readOptional(r) == readFlagged(r, Coded(r))

readAxisRefV1Attr(r) == Made("AxisRefV1Attr", readOptional(readAttribute(r)))

readReplicaGroupMeshAxesV1Attr(r) ==
    Made("ReplicaGroupMeshAxesV1Attr", readAttribute(readAttribute(r)))

readMeshAxisV1Attr(r) == Made("MeshAxisV1Attr", Read(readAttribute(r), "svarint"))

readMeshV1Attr(r) == Made("MeshV1Attr", readOptional(readAttribute(r)))

readAttributeOf(code, body) ==
    CASE code = 1 -> readArrayV1Attr(body)
      [] code = 2 -> readBooleanV1Attr(body)
      [] code = 5 -> readEnumV1Attr(body, "CustomCallApiVersionV1Attr")
      [] code = 6 -> readDictionaryV1Attr(body)
      [] code = 8 -> readFloatV1Attr(body)
      [] code = 9 -> readIntegerV1Attr(body)
      [] code = 10 -> readOutputOperandAliasV1Attr(body)
      [] code = 14 -> readStringV1Attr(body)
      [] code = 15 -> readTensorV1Attr(body)
      [] code = 17 -> readTypeV1Attr(body)
      [] code = 18 -> readTypeExtensionsV1Attr(body)
      [] code = 20 -> readResultAccuracyV1Attr(body)
      [] code = 21 -> readSubAxisInfoV1Attr(body)
      [] code = 22 -> readAxisRefV1Attr(body)
      [] code = 23 -> readReplicaGroupMeshAxesV1Attr(body)
      [] code = 24 -> readMeshAxisV1Attr(body)
      [] code = 25 -> readMeshV1Attr(body)
      [] \E kind \in VhloEnums : AttributeCode(kind) = code ->
            readEnumV1Attr(body, CHOOSE kind \in VhloEnums : AttributeCode(kind) = code)
      [] OTHER -> Failed

readCodedAttribute(r, c) ==
    IF c.ok THEN Resume(r, readAttributeOf(Value(c), InEmptyFrame(c))) ELSE Failed

readAttribute(r) == readCodedAttribute(r, Coded(r))

=============================================================================
