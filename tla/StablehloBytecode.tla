------------------------- MODULE StablehloBytecode --------------------------
(* StablehloBytecodeInterface: how types and attributes of StableHLO are     *)
(* written to bytecode and read back.                                        *)
(*                                                                           *)
(* They contain and are contained in types and attributes of the builtin     *)
(* dialect.  MLIR gives each of them to the interface of its dialect; the    *)
(* items "stablehlo" and "builtin" say to which.  A builtin one with nothing *)
(* of StableHLO inside is one item "whole"; so is one that the interface of  *)
(* StableHLO refuses to write, which MLIR prints as text.                    *)
EXTENDS VhloAttributes, DialectBytecode

-----------------------------------------------------------------------------
(* Codes. *)

AttributeCode(kind) ==
    CASE kind = "channel_handle" -> 1                [] kind = "comparison_direction" -> 2
      [] kind = "comparison_type" -> 3               [] kind = "conv_dimension_numbers" -> 4
      [] kind = "dot_dimension_numbers" -> 5         [] kind = "fft_type" -> 6
      [] kind = "gather_dimension_numbers" -> 7      [] kind = "precision" -> 8
      [] kind = "rng_algorithm" -> 9                 [] kind = "rng_distribution" -> 10
      [] kind = "scatter_dimension_numbers" -> 11    [] kind = "transpose" -> 12
      [] kind = "type_extensions" -> 13              [] kind = "output_operand_alias" -> 14
      [] kind = "dot_algorithm" -> 15                [] kind = "result_accuracy_mode" -> 16
      [] kind = "result_accuracy" -> 17              [] kind = "replica_group_mesh_axes" -> 18
      [] kind = "sub_axis_info" -> 19                [] kind = "axis_ref" -> 20
      [] kind = "mesh_axis" -> 21                    [] kind = "mesh" -> 22
      [] OTHER -> 0

TypeCode(kind) == IF kind = "token" THEN 0 ELSE 1

StablehloTypes == {"token", "future"}

\* The numbers of an enumeration's cases; 0 is no random distribution.
EnumCases(kind) ==
    CASE kind = "comparison_direction" -> <<"EQ", "NE", "GE", "GT", "LE", "LT">>
      [] kind = "comparison_type" -> <<"NOTYPE", "FLOAT", "TOTALORDER", "SIGNED", "UNSIGNED">>
      [] kind = "fft_type" -> <<"FFT", "IFFT", "RFFT", "IRFFT">>
      [] kind = "precision" -> <<"DEFAULT", "HIGH", "HIGHEST">>
      [] kind = "rng_algorithm" -> <<"DEFAULT", "THREE_FRY", "PHILOX">>
      [] kind = "rng_distribution" -> <<"UNIFORM", "NORMAL">>
      [] kind = "transpose" -> <<"TRANSPOSE_INVALID", "NO_TRANSPOSE", "TRANSPOSE", "ADJOINT">>
      [] kind = "result_accuracy_mode" -> <<"DEFAULT", "HIGHEST", "TOLERANCE">>

FirstCase(kind) == IF kind = "rng_distribution" THEN 1 ELSE 0

-----------------------------------------------------------------------------
(* Writing. *)

\* What the attributes and types of the builtin dialect consist of that can
\* have StableHLO inside: "term" is an attribute or a type.
BuiltinParts ==
    [array |-> <<"terms">>, dictionary |-> <<"pairs">>, type |-> <<"term">>,
     dense |-> <<"term", "data">>, tensor |-> <<"data", "term", "term">>,
     tuple |-> <<"terms">>, function |-> <<"terms", "terms">>]

\* writeAttribute, writeType and writeTypes of the DialectBytecodeWriter.
RECURSIVE WriteTerm(_)

WriteTerms(terms) == WriteList([i \in 1 .. Len(terms) |-> WriteTerm(terms[i])])

WritePart(part, x) ==
    CASE part = "term" -> WriteTerm(x)
      [] part = "terms" -> WriteTerms(x)
      [] part = "pairs" -> WriteList([i \in 1 .. Len(x) |-> WriteTerms(x[i])])
      [] part = "data" -> <<<<"data", x>>>>

WriteOwnedString(s) == <<<<"string", s>>>>

WriteOwnedBool(b) == <<<<"byte", b>>>>

writeEnumAttribute(a) ==
    VarInt(FirstCase(a[1])
           + (CHOOSE i \in 1 .. Len(EnumCases(a[1])) : EnumCases(a[1])[i] = a[2]) - 1)

writeChannelHandleAttr(a) == SignedVarInt(a[2]) \o SignedVarInt(a[3])

writeConvDimensionNumbersAttr(a) ==
    SignedVarInt(a[2]) \o SignedVarInt(a[3]) \o WriteSignedVarInts(a[4])
    \o SignedVarInt(a[5]) \o SignedVarInt(a[6]) \o WriteSignedVarInts(a[7])
    \o SignedVarInt(a[8]) \o SignedVarInt(a[9]) \o WriteSignedVarInts(a[10])

writeDotAlgorithmAttr(a) ==
    WriteTerm(a[2]) \o WriteTerm(a[3]) \o WriteTerm(a[4])
    \o SignedVarInt(a[5]) \o SignedVarInt(a[6]) \o SignedVarInt(a[7]) \o WriteOwnedBool(a[8])

writeDotDimensionNumbersAttr(a) ==
    WriteSignedVarInts(a[2]) \o WriteSignedVarInts(a[3])
    \o WriteSignedVarInts(a[4]) \o WriteSignedVarInts(a[5])

writeGatherDimensionNumbersAttr(a) ==
    WriteSignedVarInts(a[2]) \o WriteSignedVarInts(a[3]) \o WriteSignedVarInts(a[4])
    \o WriteSignedVarInts(a[5]) \o WriteSignedVarInts(a[6]) \o SignedVarInt(a[7])

writeScatterDimensionNumbersAttr(a) ==
    WriteSignedVarInts(a[2]) \o WriteSignedVarInts(a[3]) \o WriteSignedVarInts(a[4])
    \o WriteSignedVarInts(a[5]) \o WriteSignedVarInts(a[6]) \o SignedVarInt(a[7])

writeOutputOperandAliasAttr(a) ==
    WriteSignedVarInts(a[2]) \o SignedVarInt(a[3]) \o WriteSignedVarInts(a[4])

writeResultAccuracyAttr(a) ==
    APInt(64, a[2]) \o APInt(64, a[3]) \o SignedVarInt(a[4]) \o WriteTerm(a[5])

writeTypeExtensionsAttr(a) == WriteSignedVarInts(a[2])

writeSubAxisInfoAttr(a) == SignedVarInt(a[2]) \o SignedVarInt(a[3])

\* A flag, and the attribute if there is one.
writeFlagged(a) == IF a = Null THEN WriteOwnedBool(0) ELSE WriteOwnedBool(1) \o WriteTerm(a)

writeAxisRefAttr(a) == WriteOwnedString(a[2]) \o writeFlagged(a[3])

writeReplicaGroupMeshAxesAttr(a) == WriteTerm(a[2]) \o WriteTerms(a[3])

writeMeshAxisAttr(a) == WriteOwnedString(a[2]) \o SignedVarInt(a[3])

\* The axes are one array attribute.
writeMeshAttr(a) == WriteTerm(<<"array", a[2]>>) \o writeFlagged(a[3])

writeAttribute(a) ==
    VarInt(AttributeCode(a[1])) \o
    CASE a[1] = "channel_handle" -> writeChannelHandleAttr(a)
      [] a[1] = "conv_dimension_numbers" -> writeConvDimensionNumbersAttr(a)
      [] a[1] = "dot_algorithm" -> writeDotAlgorithmAttr(a)
      [] a[1] = "dot_dimension_numbers" -> writeDotDimensionNumbersAttr(a)
      [] a[1] = "gather_dimension_numbers" -> writeGatherDimensionNumbersAttr(a)
      [] a[1] = "output_operand_alias" -> writeOutputOperandAliasAttr(a)
      [] a[1] = "result_accuracy" -> writeResultAccuracyAttr(a)
      [] a[1] = "scatter_dimension_numbers" -> writeScatterDimensionNumbersAttr(a)
      [] a[1] = "type_extensions" -> writeTypeExtensionsAttr(a)
      [] a[1] = "replica_group_mesh_axes" -> writeReplicaGroupMeshAxesAttr(a)
      [] a[1] = "sub_axis_info" -> writeSubAxisInfoAttr(a)
      [] a[1] = "axis_ref" -> writeAxisRefAttr(a)
      [] a[1] = "mesh_axis" -> writeMeshAxisAttr(a)
      [] a[1] = "mesh" -> writeMeshAttr(a)
      [] a[1] \in StablehloEnums -> writeEnumAttribute(a)

writeType(t) == VarInt(TypeCode(t[1])) \o (IF t[1] = "future" THEN WriteTerms(t[2]) ELSE <<>>)

WriteTerm(x) ==
    IF x = Null
    THEN <<<<"whole", x>>>>
    ELSE CASE AttributeCode(x[1]) # 0 -> <<<<"stablehlo", "attribute">>>> \o writeAttribute(x)
           [] x[1] \in StablehloTypes -> <<<<"stablehlo", "type">>>> \o writeType(x)
           [] x[1] \in DOMAIN BuiltinParts ->
                 <<<<"builtin", x[1]>>>>
                 \o Concat([i \in 1 .. Len(x) - 1 |-> WritePart(BuiltinParts[x[1]][i], x[i + 1])])
           [] OTHER -> <<<<"whole", x>>>>

-----------------------------------------------------------------------------
(* Reading. *)

\* readAttribute, readType and readTypes of the DialectBytecodeReader.
RECURSIVE ReadTerm(_)
RECURSIVE ReadPart(_, _)

RECURSIVE ReadMany(_, _, _)
ReadMany(r, part, n) == IF n = 0 \/ ~r.ok THEN r ELSE ReadMany(ReadPart(r, part), part, n - 1)

ReadCountedParts(r, part, count) ==
    IF count.ok
    THEN Resume(r, Collected(ReadMany(InEmptyFrame(count), part, Value(count)))) ELSE Failed

ReadTerms(r) == ReadCountedParts(r, "term", Coded(r))

ReadPart(r, part) ==
    CASE part = "term" -> ReadTerm(r)
      [] part = "terms" -> ReadTerms(r)
      [] part = "pairs" -> ReadCountedParts(r, "terms", Coded(r))
      [] part = "data" -> Read(r, "data")

RECURSIVE ReadParts(_, _)
ReadParts(r, parts) ==
    IF parts = <<>> \/ ~r.ok THEN r ELSE ReadParts(ReadPart(r, Head(parts)), Tail(parts))

\* r, if the attribute that it has just read is of the kind.
Expect(r, kind) == IF r.ok /\ Value(r)[1] = kind THEN r ELSE Failed

readEnumAttribute(r, kind) ==
    LET n == Read(r, "varint")
        i == Value(n) - FirstCase(kind) + 1
    IN  IF n.ok /\ i \in 1 .. Len(EnumCases(kind))
        THEN [n EXCEPT !.values = <<EnumCases(kind)[i]>>]
        ELSE Failed

readEnumAttr(r, kind) == Made(kind, readEnumAttribute(r, kind))

readChannelHandleAttr(r) == Made("channel_handle", Read(Read(r, "svarint"), "svarint"))

\* Two dimensions and the spatial dimensions, of the input, kernel or output.
readConvDimensions(r) == ReadSignedVarInts(Read(Read(r, "svarint"), "svarint"))

readConvDimensionNumbersAttr(r) ==
    Made("conv_dimension_numbers", readConvDimensions(readConvDimensions(readConvDimensions(r))))

readDotAlgorithmAttr(r) ==
    LET counts == Read(Read(Read(ReadTerm(ReadTerm(ReadTerm(r))), "svarint"), "svarint"), "svarint")
    IN  Made("dot_algorithm", Read(counts, "byte"))

readDotDimensionNumbersAttr(r) ==
    Made("dot_dimension_numbers",
         ReadSignedVarInts(ReadSignedVarInts(ReadSignedVarInts(ReadSignedVarInts(r)))))

\* Faulty variant: without the batching dimensions that were added later.
readGatherDimensionNumbersAttrUnbatched(r) ==
    Made("gather_dimension_numbers",
         Read(ReadSignedVarInts(ReadSignedVarInts(ReadSignedVarInts(r))), "svarint"))

readGatherDimensionNumbersAttr(r) ==
    LET batched == ReadSignedVarInts(ReadSignedVarInts(ReadSignedVarInts(ReadSignedVarInts(r))))
    IN  Made("gather_dimension_numbers", Read(ReadSignedVarInts(batched), "svarint"))

readScatterDimensionNumbersAttr(r) ==
    LET batched == ReadSignedVarInts(ReadSignedVarInts(ReadSignedVarInts(ReadSignedVarInts(r))))
    IN  Made("scatter_dimension_numbers", Read(ReadSignedVarInts(batched), "svarint"))

readOutputOperandAliasAttr(r) ==
    Made("output_operand_alias", ReadSignedVarInts(Read(ReadSignedVarInts(r), "svarint")))

readResultAccuracyAttr(r) ==
    Made("result_accuracy",
         Expect(ReadTerm(Read(ReadAPInt(ReadAPInt(r, 64), 64), "svarint")), "result_accuracy_mode"))

readTypeExtensionsAttr(r) == Made("type_extensions", ReadSignedVarInts(r))

readSubAxisInfoAttr(r) == Made("sub_axis_info", Read(Read(r, "svarint"), "svarint"))

\* What follows a flag: an attribute of the kind, or nothing.
readAfterFlag(r, flag, kind) ==
    CASE ~flag.ok -> Failed
      [] flag.ok /\ Value(flag) = 0 -> Resume(r, [flag EXCEPT !.values = <<Null>>])
      [] OTHER -> Resume(r, Expect(ReadTerm(InEmptyFrame(flag)), kind))

readFlagged(r, kind) == readAfterFlag(r, Read(InEmptyFrame(r), "byte"), kind)

readAxisRefAttr(r) == Made("axis_ref", readFlagged(Read(r, "string"), "sub_axis_info"))

readReplicaGroupMeshAxesAttr(r) == Made("replica_group_mesh_axes", ReadTerms(ReadTerm(r)))

readMeshAxisAttr(r) == Made("mesh_axis", Read(Read(r, "string"), "svarint"))

\* The axes of a mesh, from the array attribute that has just been read.
MeshAxesOf(r) ==
    IF r.ok /\ \A i \in 1 .. Len(Value(r)[2]) : Value(r)[2][i][1] = "mesh_axis"
    THEN [r EXCEPT !.values = <<@[1][2]>>] ELSE Failed

readMeshAttr(r) == Made("mesh", readFlagged(MeshAxesOf(Expect(ReadTerm(r), "array")), "dense"))

readAttributeOf(code, body) ==
    CASE code = 1 -> readChannelHandleAttr(body)
      [] code = 4 -> readConvDimensionNumbersAttr(body)
      [] code = 5 -> readDotDimensionNumbersAttr(body)
      [] code = 7 -> readGatherDimensionNumbersAttr(body)
      [] code = 11 -> readScatterDimensionNumbersAttr(body)
      [] code = 13 -> readTypeExtensionsAttr(body)
      [] code = 14 -> readOutputOperandAliasAttr(body)
      [] code = 15 -> readDotAlgorithmAttr(body)
      [] code = 17 -> readResultAccuracyAttr(body)
      [] code = 18 -> readReplicaGroupMeshAxesAttr(body)
      [] code = 19 -> readSubAxisInfoAttr(body)
      [] code = 20 -> readAxisRefAttr(body)
      [] code = 21 -> readMeshAxisAttr(body)
      [] code = 22 -> readMeshAttr(body)
      [] \E kind \in StablehloEnums : AttributeCode(kind) = code ->
            readEnumAttr(body, CHOOSE kind \in StablehloEnums : AttributeCode(kind) = code)
      [] OTHER -> Failed

readCodedAttribute(c) == IF c.ok THEN readAttributeOf(Value(c), InEmptyFrame(c)) ELSE Failed

readAttribute(r) == readCodedAttribute(Coded(r))

readTypeOf(code, body) ==
    CASE code = 0 -> Made("token", body)
      [] code = 1 -> Made("future", ReadTerms(body))
      [] OTHER -> Failed

readCodedType(c) == IF c.ok THEN readTypeOf(Value(c), InEmptyFrame(c)) ELSE Failed

readType(r) == readCodedType(Coded(r))

\* The first item says who reads on.
ReadTermOf(r, item, body) ==
    CASE item[1] = "stablehlo" /\ item[2] = "attribute" -> Resume(r, readAttribute(body))
      [] item[1] = "stablehlo" /\ item[2] = "type" -> Resume(r, readType(body))
      [] item[1] = "builtin" -> Resume(r, Made(item[2], ReadParts(body, BuiltinParts[item[2]])))
      [] item[1] = "whole" -> Resume(r, [body EXCEPT !.values = <<item[2]>>])
      [] OTHER -> Failed

ReadTerm(r) ==
    IF r.ok /\ r.left # <<>>
    THEN ReadTermOf(r, Head(r.left), [r EXCEPT !.values = <<>>, !.left = Tail(@)])
    ELSE Failed

=============================================================================
