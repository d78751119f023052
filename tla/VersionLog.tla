------------------------------ MODULE VersionLog ------------------------------
(* What a portable artifact promises, independently of how VHLO is built:    *)
(* the version log of the opset (VhloDialect.td) as the set of versions that *)
(* an op needs, and the meaning of an op, in which an optional attribute     *)
(* that is absent has its default.  Both are defined on an op of StableHLO   *)
(* and on either of its VHLO forms.                                          *)
EXTENDS VhloToVersion

\* A generic attribute as it is meant: VHLO has neither symbols nor arrays of
\* numbers, which come back as strings and as tensors.
RECURSIVE Canonical(_)
Canonical(a) ==
    CASE a[1] = "array" -> <<"array", [i \in 1 .. Len(a[2]) |-> Canonical(a[2][i])]>>
      [] a[1] = "dictionary" ->
            <<"dictionary", [i \in 1 .. Len(a[2]) |-> <<a[2][i][1], Canonical(a[2][i][2])>>]>>
      [] a[1] = "symbol" -> <<"string", a[2]>>
      [] a[1] = "i64_array" -> DenseArray(64, a[2])
      [] a[1] = "bool_array" -> DenseArray(1, a[2])
      [] OTHER -> a

\* Of VHLO, what it is converted to.
GenericMeaning(op, a) == Canonical(IF op.v = 0 THEN a ELSE convertGenericFromVhlo(a))

\* An attribute as it is meant.  A collective has a channel id, no channel
\* type; an empty precision_config is the default one.
MeaningOfAttr(op, a) ==
    IF a \notin DOMAIN op.attrs \/ op.attrs[a] = Absent
    THEN DefaultOf(op, a)
    ELSE CASE a = "channel_handle" /\ ~KeepsChannelType(op.name) -> <<op.attrs[a][1]>>
           [] a = "precision_config" /\ op.attrs[a] = <<"empty">> -> Default
           [] IsGeneric(a, op.attrs[a]) -> <<"attributes", GenericMeaning(op, op.attrs[a][2])>>
           [] OTHER -> op.attrs[a]

TypeMeaning(op, ts) == IF op.v = 0 THEN ts ELSE convertTypesFromVhlo(ts)

MeaningOf(op) ==
    [name |-> op.name,
     operands |-> TypeMeaning(op, op.operands), results |-> TypeMeaning(op, op.results),
     attrs |-> [a \in AttrNames(op.name) |-> MeaningOfAttr(op, a)]]

Meaning(ops) == [i \in 1 .. Len(ops) |-> MeaningOf(ops[i])]

-----------------------------------------------------------------------------

\* The names of the types that a type is made of.
RECURSIVE Constructors(_)
Constructors(t) ==
    LET All(ts) == UNION {Constructors(ts[i]) : i \in 1 .. Len(ts)}
    IN  CASE t[1] = "float" -> {t[2]}
          [] t[1] = "integer" -> IF t[3] = 2 THEN {"i2"} ELSE {}
          [] t[1] \in {"complex", "unranked"} -> Constructors(t[2])
          [] t[1] \in {"future", "tuple"} -> {t[1]} \cup All(t[2])
          [] t[1] = "function" -> All(t[2]) \cup All(t[3])
          [] t[1] \in {"tensor", "memref"} -> {t[1]} \cup Constructors(t[3])
          [] t[1] \in {"quant", "quant_per_axis"} ->
                {t[1]} \cup Constructors(t[3]) \cup Constructors(t[4])
          [] OTHER -> {t[1]}

\* The names of the types and of the attributes that an attribute is made of.
RECURSIVE Features(_)
Features(a) ==
    CASE a[1] = "array" -> UNION {Features(a[2][i]) : i \in 1 .. Len(a[2])}
      [] a[1] = "dictionary" -> UNION {Features(a[2][i][2]) : i \in 1 .. Len(a[2])}
      [] a[1] \in {"dense", "float", "integer", "type"} -> Constructors(a[2])
      [] OTHER -> {a[1]}

FeaturesOf(m) ==
    IF "composite_attributes" \in DOMAIN m.attrs /\ m.attrs["composite_attributes"] # Default
    THEN Features(m.attrs["composite_attributes"][2])
    ELSE {}

TypesOf(m) ==
    UNION {Constructors(m.operands[i]) : i \in 1 .. Len(m.operands)}
    \cup UNION {Constructors(m.results[i]) : i \in 1 .. Len(m.results)}
    \cup FeaturesOf(m)

\* Whether m, the meaning of an op, sets an attribute to more than its default.
Uses(m, a) == a \in DOMAIN m.attrs /\ m.attrs[a] # Default

IsFp8(t) == \E n \in Constructors(t) :
    n \in {"f8E3M4", "f8E4M3", "f8E4M3FN", "f8E5M2", "f8E4M3FNUZ",
           "f8E4M3B11FNUZ", "f8E5M2FNUZ", "f8E8M0FNU"}

\* Op m uses what the log says was introduced in 0.minor.0.
UsesPreview(m, minor) ==
    CASE minor = 10 -> TypesOf(m) \cap {"f8E4M3FNUZ", "f8E5M2FNUZ"} # {}
      [] minor = 11 -> "f8E4M3B11FNUZ" \in TypesOf(m)
      [] minor = 16 -> m.name = "collective_broadcast"
      [] minor = 17 ->
            /\ m.name \in {"all_reduce", "reduce", "reduce_scatter", "reduce_window",
                           "scatter", "select_and_scatter"}
            /\ \E i \in 1 .. Len(m.results) : m.operands[i][3] # m.results[i][3]
      [] minor = 18 -> "quant_per_axis" \in TypesOf(m)
      [] minor = 19 -> m.name = "composite"
      [] OTHER -> FALSE

\* The same for 1.minor.0.
UsesStable(m, minor) ==
    CASE minor = 1 -> \E a \in {"operand_batching_dims", "start_indices_batching_dims",
                                "input_batching_dims", "scatter_indices_batching_dims"} :
                          Uses(m, a)
      [] minor = 2 -> "i2" \in TypesOf(m)
      [] minor = 3 -> /\ m.name = "custom_call"
                      /\ m.attrs["backend_config"] \in {<<"{}">>, <<"{k}">>}
      [] minor = 4 -> m.name = "tan"
      [] minor = 5 -> m.name \in VariadicOps /\ Len(m.operands) # 1
      [] minor = 6 -> Uses(m, "algorithm") \/ TypesOf(m) \cap {"tf32", "none"} # {}
      [] minor = 7 -> TypesOf(m) \cap {"f8E3M4", "f8E4M3"} # {}
      [] minor = 8 ->
            TypesOf(m) \cap {"f4E2M1FN", "f6E2M3FN", "f6E3M2FN", "f8E8M0FNU"} # {}
      [] minor = 9 -> \/ m.name = "exponential" /\ Uses(m, "result_accuracy")
                      \/ FeaturesOf(m) \cap {"result_accuracy", "result_accuracy_mode"} # {}
      [] minor = 10 -> m.name # "exponential" /\ Uses(m, "result_accuracy")
      [] minor = 12 -> Uses(m, "source_target_pairs")
      [] minor = 13 -> "memref" \in TypesOf(m)
      [] minor = 14 -> Uses(m, "composite_regions")
      [] minor = 15 -> m.name \in {"async_start", "async_done"} \/ "future" \in TypesOf(m)
      [] minor = 16 ->
            \/ /\ "replica_groups" \in DOMAIN m.attrs
               /\ m.attrs["replica_groups"] = <<"mesh">>
            \/ FeaturesOf(m) \cap {"sub_axis_info", "axis_ref", "mesh_axis", "mesh",
                                   "replica_group_mesh_axes"} # {}
      [] minor = 17 -> m.name = "custom_call" /\ "future" \in TypesOf(m)
      [] minor = 18 -> Uses(m, "result_tilings")
      [] minor = 19 -> m.name = "collective_reduce"
      [] minor = 20 ->
            \/ /\ m.name = "collective_broadcast"
               /\ Uses(m, "has_dynamic_root") \/ Len(m.operands) # 1
            \/ /\ m.name \in {"convolution", "dynamic_conv"}
               /\ IsFp8(m.operands[1]) /\ IsFp8(m.operands[2])
               /\ m.operands[1] # m.operands[2]
      [] minor = 21 -> m.name = "dot_general" /\ m.attrs["algorithm"] = <<"f8E4M3FN">>
      [] OTHER -> FALSE

\* Version target has every feature that op m uses.
Expressible(m, target) ==
    /\ \A minor \in 10 .. 20 : LessThan(target, <<0, minor, 0>>) => ~UsesPreview(m, minor)
    /\ \A minor \in 1 .. 21 : LessThan(target, <<1, minor, 0>>) => ~UsesStable(m, minor)

=============================================================================
