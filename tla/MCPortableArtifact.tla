------------------------- MODULE MCPortableArtifact -------------------------
(* Instances of PortableArtifact.  Programs are single ops, one for every    *)
(* attribute value, type and number of operands that a version of the opset  *)
(* has an opinion on, and some pairs of ops of different ages.               *)
EXTENDS PortableArtifact

Float(n) == <<"float", n>>

Tensor(e) == <<"tensor", <<2>>, e, Null>>

F32 == Tensor(Float("f32"))

Names ==
    RevisedOps \cup
    {"add", "func", "reduce", "reduce_scatter", "reduce_window", "select_and_scatter",
     "collective_permute", "collective_reduce", "convolution", "cholesky", "compare",
     "dot", "dynamic_broadcast_in_dim", "infeed", "outfeed", "sort",
     "async_start", "async_done"}

I64 == Tensor(Signless(64))

Token == <<"token">>

\* A well-typed use of each op.
OperandsOf(name) ==
    CASE name \in {"add", "compare", "dot", "dot_general", "convolution", "reduce",
                   "reduce_window"} -> <<F32, F32>>
      [] name \in {"gather", "dynamic_broadcast_in_dim"} -> <<F32, I64>>
      [] name = "dynamic_gather" -> <<F32, I64, I64>>
      [] name = "dynamic_conv" -> <<F32, F32, I64>>
      [] name = "scatter" -> <<F32, I64, F32>>
      [] name = "select_and_scatter" -> <<F32, F32, F32>>
      [] name \in {"send", "outfeed"} -> <<F32, Token>>
      [] name \in {"recv", "infeed"} -> <<Token>>
      [] name = "func" -> <<>>
      [] OTHER -> <<F32>>

ResultsOf(name) ==
    CASE name = "compare" -> <<Tensor(Signless(1))>>
      [] name \in {"send", "outfeed"} -> <<Token>>
      [] name \in {"recv", "infeed"} -> <<F32, Token>>
      [] name = "func" -> <<>>
      [] OTHER -> <<F32>>

\* Values that StableHLO allows besides an absent one.
Values(a) ==
    CASE a = "channel_handle" -> {<<0, 1>>, <<3, 1>>}
      [] a = "replica_groups" -> {<<"dense">>, <<"mesh">>}
      [] a = "use_global_device_ids" -> {<<"true">>}
      [] a = "precision_config" -> {Default, <<"empty">>, <<"highest">>}
      [] a = "algorithm" -> {<<"tf32">>, <<"f8E4M3FN">>}
      [] a = "api_version" -> {Default, <<"typed_ffi">>}
      [] a = "backend_config" -> {<<"">>, <<"string">>, <<"{}">>, <<"{k}">>}
      [] a \in {"has_dynamic_root", "operand_layouts", "result_layouts"} -> {}
      [] a = "composite_attributes" -> {Default}
      [] OTHER -> {Default, <<"other">>}

Plain(name) ==
    [a \in AttrNames(name) |->
        CASE a = "channel_handle" /\ a \in RequiredAttrs(name) -> <<3, 1>>
          [] a = "replica_groups" -> <<"dense">>
          [] a \in (RequiredAttrs(name) \ {"channel_handle", "replica_groups"})
                   \cup {"window_dimensions"} -> Default
          [] OTHER -> Absent]

Op(name, attrs, operands, results) ==
    [name |-> name, v |-> 0, attrs |-> attrs, operands |-> operands, results |-> results]

Simple(name) == Op(name, Plain(name), OperandsOf(name), ResultsOf(name))

\* Every attribute in turn set to every value.
AttrOps ==
    {Simple(n) : n \in Names}
    \cup {op \in UNION {UNION {{[Simple(n) EXCEPT !.attrs[a] = x] : x \in Values(a)} :
                                  a \in AttrNames(n)} : n \in Names} : Verify(op)}
    \cup {[Simple("select_and_scatter") EXCEPT !.attrs["window_dimensions"] = Absent]}

\* Attributes that depend on each other or on the operands: api_version and
\* backend_config; layouts, which are empty if there is nothing to lay out; a
\* dynamic root, which is a second operand.
DependentOps ==
    {op \in {[Simple("custom_call") EXCEPT !.attrs["api_version"] = <<"typed_ffi">>,
                                          !.attrs["backend_config"] = c] :
                 c \in Values("backend_config")} : Verify(op)}
    \cup {Op("custom_call",
             [Plain("custom_call") EXCEPT
                 !["operand_layouts"] = IF operands = <<>> THEN Default ELSE <<"other">>,
                 !["result_layouts"] = IF results = <<>> THEN Default ELSE <<"other">>],
             operands, results) : operands \in {<<>>, <<F32>>}, results \in {<<>>, <<F32>>}}
    \cup {[Simple(n) EXCEPT !.attrs["has_dynamic_root"] = <<"true">>,
                            !.operands = <<F32, Tensor(Signless(32))>>] :
             n \in {"collective_broadcast", "collective_reduce"}}

Twice(op) == [op EXCEPT !.operands = @ \o @, !.results = @ \o @]

ManyOperandOps ==
    {Twice(op) : op \in {o \in AttrOps : o.name \in VariadicOps \cup {"collective_broadcast"}}}

\* Quantized types: flags, storage and expressed type, scale and zero point (for
\* the axis, for each slice), minimum and maximum.
Quant(storage) == <<"quant", 1, storage, Float("f32"), 5, -3, -2, 1>>

QuantPerAxis(storage) == <<"quant_per_axis", 1, storage, Float("f32"), 0, <<5, 6>>, <<-3, 4>>, -2, 1>>

Types ==
    {Tensor(Float(n)) : n \in {"f8E5M2", "f8E4M3FNUZ", "f8E4M3B11FNUZ", "f8E3M4",
                               "f6E2M3FN", "f8E8M0FNU"}}
    \cup {Tensor(t) : t \in {Signless(2), Quant(Signless(2)), QuantPerAxis(Signless(8)),
                             <<"complex", Float("f32")>>}}
    \cup {<<"tensor", <<-1, 2>>, Float("f32"), <<"type_extensions", <<4, -1>>>>>>}

Future == <<"future", <<F32>>>>

TypeOps ==
    {[Simple("add") EXCEPT !.operands = <<t, t>>, !.results = <<t>>] : t \in Types}
    \cup {[Simple(n) EXCEPT !.results = <<Tensor(Float("f64"))>>] :
             n \in {"all_reduce", "reduce", "reduce_scatter", "reduce_window", "scatter",
                    "select_and_scatter"}}
    \cup {[Simple("convolution") EXCEPT !.operands = <<Tensor(Float("f8E5M2")), Tensor(Float(n))>>] :
             n \in {"f8E5M2", "f8E4M3FN", "f32"}}
    \cup {[Simple("async_start") EXCEPT !.results = <<Future>>],
          [Simple("async_done") EXCEPT !.operands = <<Future>>]}
    \cup {[Simple("custom_call") EXCEPT !.operands = <<t>>] :
             t \in {Future, <<"memref", <<2>>, Float("f32")>>,
                    <<"tuple", <<Tensor(Float("f8E4M3")), Token>>>>}}

-----------------------------------------------------------------------------
(* Attributes of a composite: one of every kind and every type, the numbers  *)
(* at the ends of their ranges, tensors of booleans around the 8 that fit in *)
(* a byte, and attributes without a counterpart in VHLO.  Not among them, as *)
(* what is written cannot be read back: integers of type i2 and ui2, tensors *)
(* whose type has bounds.                                                    *)

EnumAttrs ==
    {<<"comparison_direction", "EQ">>, <<"comparison_direction", "LT">>,
     <<"comparison_type", "TOTALORDER">>, <<"fft_type", "IRFFT">>, <<"precision", "HIGHEST">>,
     <<"rng_algorithm", "THREE_FRY">>, <<"rng_distribution", "UNIFORM">>,
     <<"rng_distribution", "NORMAL">>, <<"transpose", "ADJOINT">>,
     <<"result_accuracy_mode", "TOLERANCE">>}

Unsigned(w) == <<"integer", "unsigned", w>>

NumberAttrs ==
    {<<"integer", Signless(1), n>> : n \in {0, 1}}
    \cup {<<"integer", Signless(w), 1>> : w \in {4, 8, 16, 32, 64}}
    \cup {<<"integer", Unsigned(w), 15>> : w \in {4, 8, 16, 32, 64}}
    \cup {<<"integer", <<"index">>, 7>>}
    \cup {<<"float", Float(n), 9>> : n \in {"bf16", "f16", "f32", "f64", "tf32", "f8E4M3",
                                             "f6E2M3FN", "f4E2M1FN"}}

\* All trues, all falses, all but the last one true.
BooleanTensors ==
    {DenseElements(<<"tensor", <<n>>, Signless(1), Null>>, data) :
        <<n, data>> \in UNION {{<<n, [i \in 1 .. n |-> 1]>>, <<n, [i \in 1 .. n |-> 0]>>,
                                <<n, [i \in 1 .. n |-> IF i = n THEN 0 ELSE 1]>>} :
                                   n \in {0, 1, 2, 8, 9, 16}}}

TensorAttrs ==
    BooleanTensors
    \cup {<<"bool_array", <<1, 0, 1>>>>, <<"bool_array", <<1, 1>>>>, <<"i64_array", <<4, -1>>>>,
          <<"i64_array", <<>>>>, DenseElements(<<"tensor", <<>>, Signless(8), Null>>, <<255>>),
          DenseElements(F32, <<255, 255>>)}

Mesh == <<"mesh", <<<<"mesh_axis", "x", 2>>, <<"mesh_axis", "y", 4>>>>, Null>>

Axis == <<"axis_ref", "x", Null>>

MeshAttrs ==
    {Axis, <<"axis_ref", "y", <<"sub_axis_info", 1, 2>>>>, Mesh,
     <<"mesh", <<<<"mesh_axis", "x", 2>>>>,
       DenseElements(<<"tensor", <<2>>, Signless(64), Null>>, <<1, 0>>)>>,
     <<"replica_group_mesh_axes", <<"symbol", "mesh">>, <<Axis>>>>,
     <<"replica_group_mesh_axes", Mesh, <<Axis, <<"axis_ref", "y", <<"sub_axis_info", 1, 2>>>>>>>>}

TypeAttrs ==
    {<<"type", t>> : t \in
        {<<"index">>, <<"none">>, <<"witness">>, Token, Future, <<"tuple", <<>>>>,
         <<"function", <<F32, Token>>, <<Float("f8E3M4")>>>>, <<"unranked", Signless(2)>>,
         <<"complex", Float("f64")>>, <<"memref", <<2, -1>>, Signless(4)>>, Tensor(Quant(Unsigned(2))),
         Tensor(QuantPerAxis(Signless(8))), Unsigned(8), Signless(16)} \cup Types}
    \cup {<<"type", Float(n)>> : n \in DOMAIN FloatCodes}

\* Attributes of StableHLO ops, which VHLO has in another form.
OpAttrs ==
    {<<"channel_handle", 3, -1>>,
     <<"conv_dimension_numbers", 0, 3, <<1, 2>>, 2, 3, <<0, 1>>, 1, 0, <<2>>>>,
     <<"dot_dimension_numbers", <<0>>, <<1>>, <<2, 1>>, <<>>>>,
     <<"gather_dimension_numbers", <<1>>, <<0>>, <<2>>, <<3>>, <<4, 5>>, 6>>,
     <<"scatter_dimension_numbers", <<>>, <<0>>, <<2>>, <<3>>, <<4>>, 1>>,
     <<"dot_algorithm", Float("tf32"), Float("bf16"), Float("f32"), 1, 2, 3, 1>>,
     <<"array", <<<<"type_extensions", <<-1>>>>, <<"precision", "HIGH">>>>>>}

NoCounterpart ==
    {<<"unit">>, <<"custom_call_api_version", "API_VERSION_ORIGINAL">>,
     <<"integer", <<"integer", "signed", 8>>, 1>>, <<"type", Signless(7)>>,
     <<"type", <<"tensor", <<2>>, Float("f32"), <<"string", "layout">>>>>>}

OtherAttrs ==
    {<<"string", "s">>, <<"symbol", "s">>,
     <<"output_operand_alias", <<0, 1>>, 2, <<>>>>,
     <<"result_accuracy", 3, 4, 5, <<"result_accuracy_mode", "TOLERANCE">>>>}

Dictionary(values) ==
    <<"dictionary", [i \in 1 .. Len(values) |-> <<<<"string", <<"a", "b">>[i]>>, values[i]>>]>>

CompositeValues ==
    {Dictionary(<<a>>) : a \in EnumAttrs \cup NumberAttrs \cup TensorAttrs \cup MeshAttrs
                               \cup TypeAttrs \cup OpAttrs \cup NoCounterpart
                               \cup OtherAttrs}
    \cup {Dictionary(<<<<"array", <<<<"symbol", "s">>, <<"integer", <<"index">>, 7>>>>>>,
                       Dictionary(<<<<"type", Signless(2)>>>>)>>),
          Dictionary(<<<<"array", <<<<"unit">>>>>>>>)}

CompositeOps ==
    {[Simple("composite") EXCEPT !.attrs["composite_attributes"] = <<"attributes", x>>] :
        x \in CompositeValues}

AllOps == AttrOps \cup DependentOps \cup ManyOperandOps \cup TypeOps \cup CompositeOps

Pairs ==
    {<<Simple("tan"), [Simple("gather") EXCEPT !.attrs["operand_batching_dims"] = x]>> :
        x \in {Default, <<"other">>}}

MCPrograms == {<<op>> : op \in AllOps} \cup Pairs

\* Ops in their _v1 form, with values for attributes that were removed since.
OldOps ==
    {[Downgrade(op) EXCEPT !.attrs = [a \in DOMAIN @ |->
         IF a \in RemovedAttrs(op.name) THEN <<"other">> ELSE @[a]]] :
        op \in {o \in {StablehloToVhlo(x) : x \in {y \in AllOps : y.name \in RevisedOps /\ HasVhloForm(y)}} :
                   CanDowngrade(o)}}

MCOldArtifacts ==
    {old \in {[version |-> t, ops |-> <<op>>] :
                 op \in OldOps, t \in {<<0, 9, 0>>, <<0, 19, 0>>, <<1, 4, 2>>}} :
        isLegalOperation(old.ops[1], TruncatePatch(old.version))}

MCTargets ==
    {<<0, n, 0>> : n \in 8 .. 20} \cup {<<1, n, 0>> : n \in 0 .. 22}
    \cup {Malformed, <<0, 9, 1>>, <<1, 4, 2>>, <<1, 16, 3>>, <<1, 21, 1>>}

-----------------------------------------------------------------------------

\* Operands of two f8 types.
MixedConv ==
    {<<[Simple("dynamic_conv") EXCEPT
           !.operands = <<Tensor(Float("f8E5M2")), Tensor(Float("f8E4M3FN")), I64>>]>>}

NoOldArtifacts == {}

=============================================================================
