-------------------------------- MODULE Vhlo --------------------------------
(* VHLO, the versioned copy of the StableHLO opset, and the conversions that *)
(* a portable artifact goes through: StableHLO to VHLO, VHLO to VHLO of a    *)
(* target version, VHLO to StableHLO.                                        *)
(*                                                                           *)
(* An op is a record                                                         *)
(*   name      the mnemonic without its version suffix,                      *)
(*   v         1 or 2, the suffix (0 in StableHLO, whose ops have none),     *)
(*   attrs     attribute name -> value, a sequence; <<>> is an absent        *)
(*             optional attribute, which only StableHLO has,                 *)
(*   operands, results   sequences of types.                                 *)
(* The attributes of a composite, a dictionary of anything, are a pair       *)
(* <<"attributes", dictionary>>; other values are symbolic.  Regions convert *)
(* like their ops and are left out, as are attributes that no conversion     *)
(* looks at.                                                                 *)
EXTENDS VhloAttributes

-----------------------------------------------------------------------------
(* Versions. *)

LessThan(a, b) ==
    \/ a[1] < b[1]
    \/ a[1] = b[1] /\ a[2] < b[2]
    \/ a[1] = b[1] /\ a[2] = b[2] /\ a[3] < b[3]

AtMost(a, b) == a = b \/ LessThan(a, b)

getCurrentVersion == <<1, 21, 0>>

getMinimumVersion == <<0, 9, 0>>

\* A string that is not of the form #.#.#.
Malformed == <<>>

ValidTarget(t) ==
    /\ t # Malformed
    /\ AtMost(getMinimumVersion, t)
    /\ AtMost(t, getCurrentVersion)

\* Faulty variant: a target with a patch number is taken as it is.
KeepPatch(t) == t

\* What validateTargetVersion returns for a valid target.
TruncatePatch(t) == <<t[1], t[2], 0>>

getBytecodeVersion(t) ==
    CASE LessThan(t, <<0, 10, 0>>) -> 0
      [] LessThan(t, <<0, 12, 0>>) /\ ~LessThan(t, <<0, 10, 0>>) -> 1
      [] LessThan(t, <<0, 14, 0>>) /\ ~LessThan(t, <<0, 12, 0>>) -> 3
      [] LessThan(t, <<0, 15, 0>>) /\ ~LessThan(t, <<0, 14, 0>>) -> 4
      [] ~LessThan(t, <<0, 15, 0>>) -> 6

-----------------------------------------------------------------------------
(* The opset: which versions of an op exist when, and their attributes. *)

AccuracyOps == {"cbrt", "cosine", "exponential", "exponential_minus_one", "log",
                "log_plus_one", "logistic", "rsqrt", "sine", "sqrt", "tan", "tanh"}

VariadicOps == {"all_gather", "all_reduce", "all_to_all"}

\* Ops that have a _v2.
RevisedOps == AccuracyOps \cup VariadicOps \cup
    {"collective_broadcast", "composite", "custom_call", "dot_general",
     "dynamic_conv", "gather", "dynamic_gather", "scatter", "send", "recv"}

getMinVersion(name, v) ==
    IF v = 1
    THEN CASE name = "tan" -> <<1, 4, 0>>
           [] name = "collective_broadcast" -> <<0, 16, 0>>
           [] name = "collective_reduce" -> <<1, 19, 0>>
           [] name = "composite" -> <<0, 19, 0>>
           [] name \in {"async_start", "async_done"} -> <<1, 15, 0>>
           [] OTHER -> <<0, 9, 0>>
    ELSE CASE name \in VariadicOps -> <<1, 5, 0>>
           [] name = "exponential" -> <<1, 9, 0>>
           [] name \in AccuracyOps \ {"exponential"} -> <<1, 10, 0>>
           [] name = "collective_broadcast" -> <<1, 20, 0>>
           [] name = "composite" -> <<1, 14, 0>>
           [] name = "custom_call" -> <<1, 18, 0>>
           [] name = "dot_general" -> <<1, 6, 0>>
           [] name = "dynamic_conv" -> <<0, 20, 0>>
           [] name \in {"gather", "dynamic_gather", "scatter"} -> <<1, 1, 0>>
           [] name \in {"send", "recv"} -> <<1, 12, 0>>

\* The last version of a _v1 that has a _v2.
LastOfV1(name) ==
    CASE name \in VariadicOps -> <<1, 4, 0>>
      [] name = "exponential" -> <<1, 8, 0>>
      [] name \in AccuracyOps \ {"exponential"} -> <<1, 9, 0>>
      [] name = "collective_broadcast" -> <<1, 19, 0>>
      [] name = "composite" -> <<1, 13, 0>>
      [] name = "custom_call" -> <<1, 17, 0>>
      [] name = "dot_general" -> <<1, 5, 0>>
      [] name = "dynamic_conv" -> <<0, 19, 0>>
      [] name \in {"gather", "dynamic_gather", "scatter"} -> <<1, 0, 0>>
      [] name \in {"send", "recv"} -> <<1, 11, 0>>

getMaxVersion(name, v) ==
    IF v = 1 /\ name \in RevisedOps THEN LastOfV1(name) ELSE getCurrentVersion

\* Attributes that the _v2 of an op has and its _v1 has not.
AddedAttrs(name) ==
    CASE name \in AccuracyOps -> {"result_accuracy"}
      [] name \in {"gather", "dynamic_gather"} ->
            {"operand_batching_dims", "start_indices_batching_dims"}
      [] name = "scatter" -> {"input_batching_dims", "scatter_indices_batching_dims"}
      [] name = "dot_general" -> {"algorithm"}
      [] name = "custom_call" -> {"result_tilings"}
      [] name \in {"send", "recv"} -> {"source_target_pairs"}
      [] name = "collective_broadcast" -> {"has_dynamic_root"}
      [] name = "composite" -> {"composite_regions"}
      [] OTHER -> {}

\* Attributes that the _v1 of an op has and its _v2 has not.
RemovedAttrs(name) == IF name = "dynamic_conv" THEN {"padding"} ELSE {}

\* Attributes that StableHLO requires, so that they never have a default.
RequiredAttrs(name) ==
    CASE name \in VariadicOps \cup {"collective_broadcast", "collective_reduce",
                                    "reduce_scatter"} -> {"replica_groups"}
      [] name \in {"send", "recv"} -> {"channel_handle"}
      [] name \in {"gather", "dynamic_gather"} ->
            {"operand_batching_dims", "start_indices_batching_dims"}
      [] name = "scatter" -> {"input_batching_dims", "scatter_indices_batching_dims"}
      [] name = "composite" -> {"composite_regions"}
      [] OTHER -> {}

\* Attributes that addDefaults adds where they are absent.
DefaultedAttrs(name) ==
    CASE name = "func" -> {"sym_visibility", "arg_attrs", "res_attrs"}
      [] name \in {"all_gather", "all_reduce", "reduce_scatter"} ->
            {"channel_handle", "use_global_device_ids"}
      [] name \in {"all_to_all", "collective_permute"} -> {"channel_handle"}
      [] name = "collective_broadcast" -> {"channel_handle", "has_dynamic_root"}
      [] name = "collective_reduce" ->
            {"channel_handle", "use_global_device_ids", "has_dynamic_root"}
      [] name = "cholesky" -> {"lower"}
      [] name = "compare" -> {"compare_type"}
      [] name = "composite" -> {"version", "composite_attributes"}
      [] name = "convolution" -> {"window_strides", "padding", "lhs_dilation",
            "rhs_dilation", "window_reversal", "precision_config"}
      [] name = "dynamic_conv" -> {"window_strides", "lhs_dilation",
            "rhs_dilation", "window_reversal", "precision_config"}
      [] name = "custom_call" -> {"has_side_effect", "backend_config", "api_version",
            "called_computations", "operand_layouts", "result_layouts",
            "output_operand_aliases", "result_tilings"}
      [] name = "dot" -> {"precision_config"}
      [] name = "dot_general" -> {"precision_config", "algorithm"}
      [] name \in AccuracyOps -> {"result_accuracy"}
      [] name = "dynamic_broadcast_in_dim" ->
            {"known_expanding_dimensions", "known_nonexpanding_dimensions"}
      [] name \in {"gather", "dynamic_gather"} -> {"indices_are_sorted"}
      [] name = "infeed" -> {"infeed_config", "layout"}
      [] name = "outfeed" -> {"outfeed_config"}
      [] name \in {"send", "recv"} -> {"is_host_transfer", "source_target_pairs"}
      [] name = "reduce_window" -> {"window_strides", "base_dilations",
            "window_dilations", "padding"}
      [] name = "scatter" -> {"indices_are_sorted", "unique_indices"}
      [] name = "select_and_scatter" -> {"window_strides", "padding"}
      [] name = "sort" -> {"dimension", "is_stable"}
      [] OTHER -> {}

\* window_dimensions is optional in StableHLO and required in VHLO.
AttrNames(name) ==
    RequiredAttrs(name) \cup DefaultedAttrs(name)
    \cup (IF name = "select_and_scatter" THEN {"window_dimensions"} ELSE {})

-----------------------------------------------------------------------------
(* StableHLO to VHLO. *)

Absent == <<>>

Default == <<"default">>

\* send and recv keep the type of a channel handle, collectives only its id.
KeepsChannelType(name) == name \in {"send", "recv"}

DefaultOf(op, a) ==
    CASE a = "channel_handle" -> <<0>>
      [] a = "backend_config" ->
            IF op.attrs["api_version"] = <<"typed_ffi">> THEN <<"{}">> ELSE <<"">>
      [] OTHER -> Default

\* Whether the value is a dictionary that is converted by convertGeneric.
IsGeneric(a, value) == a = "composite_attributes" /\ value \notin {Absent, Default}

ConvertToVhlo(op, a) ==
    CASE op.attrs[a] = Absent -> DefaultOf(op, a)
      [] IsGeneric(a, op.attrs[a]) -> <<"attributes", convertGenericToVhlo(op.attrs[a][2])>>
      [] op.attrs[a] # Absent /\ a = "channel_handle" /\ ~KeepsChannelType(op.name) ->
            <<op.attrs[a][1]>>
      [] OTHER -> op.attrs[a]

\* addDefaults refuses a select_and_scatter without window_dimensions; types and
\* generic attributes may have no counterpart.
HasVhloForm(op) ==
    /\ op.name = "select_and_scatter" => op.attrs["window_dimensions"] # Absent
    /\ \A a \in DOMAIN op.attrs :
           IsGeneric(a, op.attrs[a]) => convertGenericToVhlo(op.attrs[a][2]) # Null
    /\ AllConverted(convertTypesToVhlo(op.operands \o op.results))

StablehloToVhlo(op) ==
    [op EXCEPT !.v = IF op.name \in RevisedOps THEN 2 ELSE 1,
               !.attrs = [a \in DOMAIN op.attrs |-> ConvertToVhlo(op, a)],
               !.operands = convertTypesToVhlo(@),
               !.results = convertTypesToVhlo(@)]

-----------------------------------------------------------------------------
(* VHLO of the current version to StableHLO. *)

\* Faulty variant: an empty layout is dropped on its own.
IsDefaultAlone(op, a) ==
    /\ a \notin RequiredAttrs(op.name) \cup {"window_dimensions"}
    /\ CASE a = "channel_handle" -> op.attrs[a] = <<0>>
         [] a = "backend_config" -> op.attrs[a] \in {<<"">>, <<"{}">>}
         [] a = "precision_config" -> op.attrs[a] \in {Default, <<"empty">>}
         [] OTHER -> op.attrs[a] = Default

\* Whether removeDefaults or implodeSpecial drops the attribute.
IsDefault(op, a) ==
    /\ a \notin RequiredAttrs(op.name) \cup {"window_dimensions"}
    /\ CASE a = "channel_handle" -> op.attrs[a] = <<0>>
         [] a = "backend_config" -> op.attrs[a] \in {<<"">>, <<"{}">>}
         [] a = "precision_config" -> op.attrs[a] \in {Default, <<"empty">>}
         [] a \in {"operand_layouts", "result_layouts"} ->
               /\ op.attrs["operand_layouts"] = Default
               /\ op.attrs["result_layouts"] = Default
         [] OTHER -> op.attrs[a] = Default

ConvertToStablehlo(op, a) ==
    CASE IsDefault(op, a) -> Absent
      [] IsGeneric(a, op.attrs[a]) -> <<"attributes", convertGenericFromVhlo(op.attrs[a][2])>>
      [] ~IsDefault(op, a) /\ a = "channel_handle" /\ ~KeepsChannelType(op.name) ->
            <<op.attrs[a][1], 0>>
      [] OTHER -> op.attrs[a]

VhloToStablehlo(op) ==
    [op EXCEPT !.v = 0,
               !.attrs = [a \in DOMAIN op.attrs |-> ConvertToStablehlo(op, a)],
               !.operands = convertTypesFromVhlo(@),
               !.results = convertTypesFromVhlo(@)]

\* The verifier of StableHLO, as far as attributes of this model go.
Verify(op) ==
    op.name = "custom_call" =>
        /\ op.attrs["operand_layouts"] = Absent <=> op.attrs["result_layouts"] = Absent
        /\ op.attrs["backend_config"] # Absent =>
               (op.attrs["backend_config"] \in {<<"{}">>, <<"{k}">>}
                <=> op.attrs["api_version"] = <<"typed_ffi">>)

=============================================================================
