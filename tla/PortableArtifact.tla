-------------------------- MODULE PortableArtifact --------------------------
(* The life of a portable artifact (Serialization.cpp): a module in memory   *)
(* is serialized for a target version, an artifact is deserialized, a module *)
(* is saved and loaded as it is, any number of times and in any order.       *)
(*                                                                           *)
(* serializePortableArtifact rewrites the caller's module in place.  After a *)
(* call the module is VHLO: of the target version if the call succeeded, of  *)
(* the current version if only the second pass failed.  A next call starts   *)
(* from there.  The ops of an artifact have their types and their generic    *)
(* attributes in bytecode.                                                   *)
EXTENDS VersionLog, VhloBytecode

CONSTANTS
    Programs,        \* modules of StableHLO to start from
    OldArtifacts,    \* modules of VHLO that earlier releases wrote for a version
    Targets          \* version strings that callers pass

VARIABLES
    module,          \* the module in memory and its dialect
    artifact,        \* the last artifact written, with its producer version
    origin           \* history: what the first module or artifact means

vars == <<module, artifact, origin>>

NoModule == [dialect |-> "none", ops |-> <<>>]

NoArtifact == [version |-> Malformed, bytecode |-> -1, ops |-> <<>>]

-----------------------------------------------------------------------------
(* writeBytecodeToFile and parseSourceString, one op at a time.  The types   *)
(* and the generic attributes of an op are in the bytecode of its dialect.   *)

Stablehlo == INSTANCE StablehloBytecode

\* An op with something else in the place of its generic attributes and types.
MapTerms(op, Attribute(_), Type(_)) ==
    [op EXCEPT !.attrs = [a \in DOMAIN @ |->
                             IF IsGeneric(a, @[a]) THEN <<"attributes", Attribute(@[a][2])>>
                                                   ELSE @[a]],
               !.operands = [i \in 1 .. Len(@) |-> Type(@[i])],
               !.results = [i \in 1 .. Len(@) |-> Type(@[i])]]

WriteModule(ops) == [i \in 1 .. Len(ops) |-> MapTerms(ops[i], writeAttribute, writeType)]

\* A type or an attribute is read by a reader of its own.
AttributeReader(bytes) == readAttribute(Reader(bytes))

TypeReader(bytes) == readType(Reader(bytes))

ModuleReader(ops) == [i \in 1 .. Len(ops) |-> MapTerms(ops[i], AttributeReader, TypeReader)]

\* A module of StableHLO, written and about to be read.
StablehloTermReader(x) == Stablehlo!ReadTerm(Reader(Stablehlo!WriteTerm(x)))

StablehloReader(ops) ==
    [i \in 1 .. Len(ops) |-> MapTerms(ops[i], StablehloTermReader, StablehloTermReader)]

\* What has been read: whether all of it could be read, and the ops.
IsReadOp(op) ==
    /\ \A a \in DOMAIN op.attrs : IsGeneric(a, op.attrs[a]) => op.attrs[a][2].ok
    /\ \A i \in 1 .. Len(op.operands) : op.operands[i].ok
    /\ \A i \in 1 .. Len(op.results) : op.results[i].ok

ReadOp(op) == MapTerms(op, Value, Value)

IsRead(read) == \A i \in 1 .. Len(read) : IsReadOp(read[i])

OpsOf(read) == [i \in 1 .. Len(read) |-> ReadOp(read[i])]

-----------------------------------------------------------------------------

Init ==
    \/ \E p \in Programs :
           /\ module = [dialect |-> "stablehlo", ops |-> p]
           /\ artifact = NoArtifact
           /\ origin = Meaning(p)
    \/ \E old \in OldArtifacts :
           /\ module = NoModule
           /\ artifact = [version |-> old.version, bytecode |-> getBytecodeVersion(old.version),
                          ops |-> WriteModule(old.ops)]
           /\ origin = Meaning(old.ops)

-----------------------------------------------------------------------------
(* serializePortableArtifact. *)

CanLegalize == \A i \in 1 .. Len(module.ops) :
    module.dialect = "stablehlo" => HasVhloForm(module.ops[i])

\* StablehloLegalizeToVhloPass; VHLO ops are legal and stay as they are.
Legalized ==
    IF module.dialect = "vhlo"
    THEN module.ops
    ELSE [i \in 1 .. Len(module.ops) |-> StablehloToVhlo(module.ops[i])]

\* legalized is what the first pass makes of the module.
CanSerialize(legalized, t) ==
    /\ ValidTarget(t)
    /\ CanConvertModule(legalized, TruncatePatch(t))

Serialize(legalized, t) ==
    /\ CanSerialize(legalized, t)
    /\ \E ops \in {ConvertModule(legalized, TruncatePatch(t))} :
           /\ module' = [dialect |-> "vhlo", ops |-> ops]
           /\ artifact' = [version |-> t, bytecode |-> getBytecodeVersion(t),
                           ops |-> WriteModule(ops)]
    /\ UNCHANGED origin

\* The first pass fails: nothing has changed.
FailToLegalize ==
    /\ module # NoModule
    /\ ~CanLegalize
    /\ UNCHANGED vars

\* The second pass fails and rolls its own changes back.
FailToConvert(legalized, t) ==
    /\ ~CanSerialize(legalized, t)
    /\ module' = [dialect |-> "vhlo", ops |-> legalized]
    /\ UNCHANGED <<artifact, origin>>

SerializePortableArtifact ==
    /\ module # NoModule
    /\ CanLegalize
    /\ \E legalized \in {Legalized}, t \in Targets :
           Serialize(legalized, t) \/ FailToConvert(legalized, t)

-----------------------------------------------------------------------------
(* deserializePortableArtifact. *)

Deserialized(ops) ==
    [i \in 1 .. Len(ops) |-> VhloToStablehlo(Convert(ops[i], getCurrentVersion))]

VerifyModule(ops) == \A i \in 1 .. Len(ops) : Verify(ops[i])

CanDeserialize(read) ==
    /\ IsRead(read)
    /\ CanConvertModule(OpsOf(read), getCurrentVersion)
    /\ VerifyModule(Deserialized(OpsOf(read)))

Deserialize ==
    /\ artifact # NoArtifact
    /\ \E read \in {ModuleReader(artifact.ops)} :
           IF CanDeserialize(read)
           THEN module' = [dialect |-> "stablehlo", ops |-> Deserialized(OpsOf(read))]
           ELSE UNCHANGED module
    /\ UNCHANGED <<artifact, origin>>

-----------------------------------------------------------------------------

\* A module of StableHLO is saved as bytecode without a conversion to VHLO, and
\* what is read takes its place.
SaveAndLoad ==
    /\ module.dialect = "stablehlo"
    /\ \E read \in {StablehloReader(module.ops)} :
           /\ IsRead(read)
           /\ VerifyModule(OpsOf(read))
           /\ module' = [module EXCEPT !.ops = OpsOf(read)]
    /\ UNCHANGED <<artifact, origin>>

Next ==
    \/ FailToLegalize \/ SerializePortableArtifact
    \/ Deserialize
    \/ SaveAndLoad

Spec == Init /\ [][Next]_vars

-----------------------------------------------------------------------------
(* Properties. *)

IsVhloOp(op) ==
    /\ op.v \in {1, 2}
    /\ op.v = 2 => op.name \in RevisedOps
    /\ DOMAIN op.attrs =
           IF op.v = 1 /\ op.name \in RevisedOps
           THEN (AttrNames(op.name) \ AddedAttrs(op.name)) \cup RemovedAttrs(op.name)
           ELSE AttrNames(op.name)
    /\ \A a \in DOMAIN op.attrs : op.attrs[a] # Absent

IsStablehloOp(op) ==
    /\ op.v = 0
    /\ DOMAIN op.attrs = AttrNames(op.name)
    /\ \A a \in RequiredAttrs(op.name) : op.attrs[a] # Absent
    /\ Verify(op)

\* Type correctness: a StableHLO module satisfies its verifier, and every op of
\* VHLO, in memory or in an artifact, has the attributes of its version, all
\* of them present.
TypeOK ==
    /\ module.dialect \in {"none", "stablehlo", "vhlo"}
    /\ \A i \in 1 .. Len(module.ops) :
           IF module.dialect = "stablehlo" THEN IsStablehloOp(module.ops[i])
                                           ELSE IsVhloOp(module.ops[i])
    /\ artifact.bytecode \in {-1, 0, 1, 3, 4, 6}
    /\ \A read \in {ModuleReader(artifact.ops)} : IsRead(read) =>
           \A i \in 1 .. Len(read) : IsVhloOp(ReadOp(read[i]))

\* Through any sequence of serializations for any versions and of
\* deserializations, the module in memory and the artifact mean what the first
\* one meant: no attribute is lost by a downgrade, none is made up by an
\* upgrade, by addDefaults or by removeDefaults, and every type and attribute
\* that is written to bytecode is read back as it was.
MeaningPreserved ==
    /\ module # NoModule => Meaning(module.ops) = origin
    /\ artifact # NoArtifact =>
           \A read \in {ModuleReader(artifact.ops)} :
               IsRead(read) => Meaning(OpsOf(read)) = origin

\* Forward compatibility (docs/vhlo.md): a downgrade fails if the module uses a
\* feature that the target version has not.  What is written for a version is
\* expressible in it.
ArtifactIsExpressible ==
    artifact # NoArtifact =>
        \A i \in 1 .. Len(origin) :
            Expressible(origin[i], TruncatePatch(artifact.version))

\* The converse: a module is refused only for a reason, whatever calls were
\* made before.  Version ranges of the forms of an op leave no gap, and a patch
\* number in the target does no harm.
RefusedOnlyWhenNew ==
    module # NoModule /\ (\A i \in 1 .. Len(module.ops) : HasVhloForm(module.ops[i])) =>
        /\ CanLegalize
        /\ \A legalized \in {Legalized}, t \in Targets :
               /\ ValidTarget(t)
               /\ \A i \in 1 .. Len(origin) : Expressible(origin[i], <<t[1], t[2], 0>>)
               => CanSerialize(legalized, t)

\* Backward compatibility: every artifact of a version in the window, also one
\* that an earlier release wrote, deserializes with this release.  The bytecode
\* of a StableHLO module is readable too, also if it has no form in VHLO.
AlwaysReadable ==
    /\ artifact # NoArtifact => CanDeserialize(ModuleReader(artifact.ops))
    /\ module.dialect = "stablehlo" => IsRead(StablehloReader(module.ops))

=============================================================================
