-------------------------- MODULE ReplicaGroupUtils --------------------------
(* flattenReplicaGroupMeshAxes: replica groups that are given by axes of a   *)
(* mesh of devices, as lists of device ids.                                  *)
(*                                                                           *)
(* A mesh has axes, each with a name and a size, and ids, the devices in the *)
(* order of their coordinates, or <<>>.  A reference to an axis has a name   *)
(* and sub, which is <<>> or the <<pre_size, size>> of a part of the axis.   *)
EXTENDS Integers, Sequences, FiniteSetsExt, SequencesExt

\* The first axis of a name; 0 if there is none.
AxisNamed(axes, name) == SelectInSeq(axes, LAMBDA axis : axis.name = name)

ProductOf(sizes) == FoldLeft(LAMBDA m, n : m * n, 1, sizes)

-----------------------------------------------------------------------------
(* computeReindexedAxes. *)

AxisExists(axes, ref) ==
  LET i == AxisNamed(axes, ref.name)
      next == ref.sub[1] * ref.sub[2]
  IN  /\ i # 0
      /\ ref.sub # <<>> =>
           /\ ref.sub[1] >= 1 /\ ref.sub[2] >= 1
           /\ next <= axes[i].size
           /\ axes[i].size % next = 0

\* Where an axis is cut, as products of the sizes up to the cut.
PreSizes(axis, refs) ==
  LET subs == {refs[k].sub : k \in {j \in DOMAIN refs : refs[j].name = axis.name
                                                        /\ refs[j].sub # <<>>}}
  IN  SetToSortSeq({1, axis.size} \cup {s[1] : s \in subs} \cup {s[1] * s[2] : s \in subs}, <)

Part(name, preSize, size) == [name |-> name, preSize |-> preSize, size |-> size]

\* The parts into which the references cut an axis, the major ones first.
SplitAxis(axis, refs) ==
  LET cuts == PreSizes(axis, refs)
  IN  IF axis.size = 1
      THEN <<Part(axis.name, 1, 1)>>
      ELSE [j \in 1..Len(cuts) - 1 |-> Part(axis.name, cuts[j], cuts[j + 1] \div cuts[j])]

splitDims(axes, refs) == FlattenSeq([i \in DOMAIN axes |-> SplitAxis(axes[i], refs)])

\* The part that a reference asks for.
Requested(axes, ref) ==
  IF ref.sub = <<>>
  THEN Part(ref.name, 1, axes[AxisNamed(axes, ref.name)].size)
  ELSE Part(ref.name, ref.sub[1], ref.sub[2])

\* The parts of the references, in their order; 0 for one that is cut again.
groupedAxisIndices(axes, refs) ==
  [k \in DOMAIN refs |->
    SelectInSeq(splitDims(axes, refs), LAMBDA d : d = Requested(axes, refs[k]))]

\* Every axis exists and no two references overlap.
CanReindex(axes, refs) ==
  /\ \A k \in DOMAIN refs : AxisExists(axes, refs[k])
  /\ LET indices == groupedAxisIndices(axes, refs)
     IN  \A k \in DOMAIN refs : /\ indices[k] # 0
                                /\ \A l \in DOMAIN refs : l # k => indices[l] # indices[k]

-----------------------------------------------------------------------------
(* flattenedReplicaGroupsFromTransposePermutation. *)

\* Dimensions that are not grouped come first.
TransposeAxes(rank, grouped) ==
  SelectSeq([i \in 1..rank |-> i], LAMBDA i : ~Contains(grouped, i)) \o grouped

Strides(sizes) == [i \in DOMAIN sizes |-> ProductOf(SubSeq(sizes, i + 1, Len(sizes)))]

\* The place in the mesh of the linear index of the transposed mesh.
OriginalIndex(linear, sizes, transposeAxes) ==
  LET transposedSizes == [i \in DOMAIN sizes |-> sizes[transposeAxes[i]]]
      coord(k) == (linear \div Strides(transposedSizes)[k]) % transposedSizes[k]
  IN  FoldLeftDomain(LAMBDA sum, k : sum + coord(k) * Strides(sizes)[transposeAxes[k]],
                     0, sizes)

\* Faulty variant: the grouped dimensions in the order of the mesh.
flattenedReplicaGroupsMeshOrder(sizes, grouped, deviceIds, totalDevices) ==
  LET members == ProductOf([k \in DOMAIN grouped |-> sizes[grouped[k]]])
      axes == TransposeAxes(Len(sizes), SortSeq(grouped, <))
  IN  [g \in 1..(totalDevices \div members) |->
        [j \in 1..members |-> deviceIds[OriginalIndex((g - 1) * members + j - 1, sizes, axes) + 1]]]

flattenedReplicaGroups(sizes, grouped, deviceIds, totalDevices) ==
  LET members == ProductOf([k \in DOMAIN grouped |-> sizes[grouped[k]]])
      axes == TransposeAxes(Len(sizes), grouped)
  IN  [g \in 1..(totalDevices \div members) |->
        [j \in 1..members |-> deviceIds[OriginalIndex((g - 1) * members + j - 1, sizes, axes) + 1]]]

-----------------------------------------------------------------------------

TotalDevices(mesh) == ProductOf([i \in DOMAIN mesh.axes |-> mesh.axes[i].size])

DeviceIds(mesh) ==
  IF mesh.ids = <<>> THEN [i \in 1..TotalDevices(mesh) |-> i - 1] ELSE mesh.ids

flattenReplicaGroupMeshAxes(mesh, refs) ==
  LET dims == splitDims(mesh.axes, refs)
  IN  flattenedReplicaGroups([i \in DOMAIN dims |-> dims[i].size],
                             groupedAxisIndices(mesh.axes, refs), DeviceIds(mesh), TotalDevices(mesh))
=============================================================================
