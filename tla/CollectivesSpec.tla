--------------------------- MODULE CollectivesSpec ---------------------------
(***************************************************************************)
(* The reference for CollectiveOps: what docs/spec.md says that the        *)
(* collective ops compute, as a function of what all processes hold.  A    *)
(* process group is given by what its members have in common and by the    *)
(* place of each member in it, not by the loops that enumerate groups.     *)
(***************************************************************************)
EXTENDS CollectiveOps

\* Coordinates of a device: along an axis of its mesh, and along the part of
\* an axis that a reference names.  The parts of an axis are the digits of its
\* coordinate, the major ones first.
Coordinate(mesh, i, id) ==
  LET place == IndexOf(DeviceIds(mesh), id) - 1
      minor == ProductOf([j \in 1..Len(mesh.axes) - i |-> mesh.axes[i + j].size])
  IN  (place \div minor) % mesh.axes[i].size

DigitWeight(axis, ref) ==
  IF ref.sub = <<>> THEN 1 ELSE axis.size \div (ref.sub[1] * ref.sub[2])

Digit(mesh, ref, id) ==
  LET i == AxisNamed(mesh.axes, ref.name)
      size == IF ref.sub = <<>> THEN mesh.axes[i].size ELSE ref.sub[2]
  IN  (Coordinate(mesh, i, id) \div DigitWeight(mesh.axes[i], ref)) % size

\* What is left of the coordinates of a device without the digits that the
\* references name.  Devices that agree in it are in one group.
Elsewhere(o, id) ==
  LET mesh == o.mesh[1]
      named(i) == {k \in DOMAIN o.axes : o.axes[k].name = mesh.axes[i].name}
  IN  [i \in DOMAIN mesh.axes |->
        Coordinate(mesh, i, id)
        - MapThenSumSet(LAMBDA k : Digit(mesh, o.axes[k], id)
                                   * DigitWeight(mesh.axes[i], o.axes[k]), named(i))]

Digits(o, id) == [k \in DOMAIN o.axes |-> Digit(o.mesh[1], o.axes[k], id)]

\* Lexicographic order of sequences of one length.
Precedes(s, t) ==
  \E k \in DOMAIN s : s[k] < t[k] /\ \A l \in 1..k - 1 : s[l] = t[l]

\* The group of a device, in the order of the references.
MeshGroup(o, id) ==
  SetToSortSeq({d \in ToSet(DeviceIds(o.mesh[1])) : Elsewhere(o, d) = Elsewhere(o, id)},
               LAMBDA d, e : Precedes(Digits(o, d), Digits(o, e)))

\* The row of replica_groups that lists id, or <<>>, and its place there.
Row(o, id) ==
  IF o.mesh # <<>>
  THEN IF Contains(DeviceIds(o.mesh[1]), id) THEN MeshGroup(o, id) ELSE <<>>
  ELSE LET i == SelectInSeq(o.groups, LAMBDA row : Contains(row, id))
       IN  IF i = 0 THEN <<>> ELSE o.groups[i]
Place(o, id) == IndexOf(Row(o, id), id)

Strategy(o) ==
  CASE o.channel <= 0 -> "cross_replica"
    [] o.channel > 0 /\ o.op \in PairwiseOps -> "cross_partition"
    [] o.channel > 0 /\ o.op \in DeviceOps /\ ~o.global -> "cross_replica_and_partition"
    [] o.channel > 0 /\ o.op \in DeviceOps /\ o.global -> "flattened_ids"

\* The id by which replica_groups refers to p.
IdInGroups(o, p) ==
  CASE Strategy(o) \in {"cross_replica", "cross_replica_and_partition"} -> p[1]
    [] Strategy(o) = "cross_partition" -> p[2]
    [] Strategy(o) = "flattened_ids" -> p[1] * NumPartitions + p[2]

InSomeGroup(o, p) == Row(o, IdInGroups(o, p)) # <<>>

\* p and q are in one process group.
Together(o, p, q) ==
  /\ InSomeGroup(o, p)
  /\ Row(o, IdInGroups(o, p)) = Row(o, IdInGroups(o, q))
  /\ Strategy(o) = "cross_replica" => p[2] = q[2]
  /\ Strategy(o) = "cross_partition" => p[1] = q[1]

\* The order of the members of a group.
Before(o, p, q) ==
  LET i == Place(o, IdInGroups(o, p))
      j == Place(o, IdInGroups(o, q))
  IN  IF Strategy(o) = "cross_replica_and_partition"
      THEN p[2] < q[2] \/ (p[2] = q[2] /\ i < j)
      ELSE i < j

Members(o, p) ==
  SetToSortSeq({q \in ProcessIds : Together(o, p, q)}, LAMBDA a, b : Before(o, a, b))

\* x maps every process to its operands.
SpecReduce(o, p, x, i) ==
  LET g == Members(o, p) IN
  [e \in DOMAIN x[p][i] |-> FlattenSeq([j \in DOMAIN g |-> x[g[j]][i][e]])]

\* The number of members of p's group that come before p.
ReceiverIndex(o, p) == Cardinality({q \in ProcessIds : Together(o, p, q) /\ Before(o, q, p)})

SpecPart(t, g, index) ==
  LET n == Len(t) \div Len(g) IN [e \in 1..n |-> t[index * n + e]]

SpecRoot(o, p, i) == Members(o, p)[IF o.root = <<>> THEN 1 ELSE o.root[i] + 1]

\* Pair number i of source_target_pairs has p as its target and q as its source.
Sends(o, q, p, i) ==
  /\ o.groups[i] = <<IdInGroups(o, q), IdInGroups(o, p)>>
  /\ IF Strategy(o) = "cross_replica" THEN p[2] = q[2] ELSE p[1] = q[1]

SpecPermute(o, p, x) ==
  LET sources == {q \in ProcessIds : \E i \in DOMAIN o.groups : Sends(o, q, p, i)}
  IN  IF sources = {} THEN Zeros(x[p]) ELSE x[CHOOSE q \in sources : TRUE]

SpecResult(o, p, x) ==
  LET g == Members(o, p) IN
  CASE o.op = "all_gather" ->
         [i \in DOMAIN x[p] |-> FlattenSeq([j \in DOMAIN g |-> x[g[j]][i]])]
    [] o.op = "all_reduce" -> [i \in DOMAIN x[p] |-> SpecReduce(o, p, x, i)]
    [] o.op = "all_to_all" ->
         [i \in DOMAIN x[p] |->
           FlattenSeq([j \in DOMAIN g |-> SpecPart(x[g[j]][i], g, ReceiverIndex(o, p))])]
    [] o.op = "reduce_scatter" ->
         <<SpecPart(SpecReduce(o, p, x, 1), g, ReceiverIndex(o, p))>>
    [] o.op = "collective_broadcast" ->
         IF g = <<>> THEN Zeros(x[p])
         ELSE [i \in DOMAIN x[p] |-> x[SpecRoot(o, p, i)][i]]
    [] o.op = "collective_reduce" ->
         IF g = <<>> THEN Zeros(x[p])
         ELSE [i \in DOMAIN x[p] |->
                IF p = SpecRoot(o, p, i) THEN SpecReduce(o, p, x, i) ELSE Zeros(x[p])[i]]
    [] o.op = "collective_permute" -> SpecPermute(o, p, x)

\* What every process holds after the ops of a program that all of them run.
SpecRun(program, input) ==
  FoldLeft(LAMBDA x, o : [p \in ProcessIds |->
             SpecResult(o, p, [q \in ProcessIds |-> OperandsOf(o, x[q])])],
           input, program)

\* Equality up to the order in which elements were reduced.
Occurrences(s, a) == Cardinality({i \in DOMAIN s : s[i] = a})
EqualUpToOrder(s, t) ==
  /\ DOMAIN s = DOMAIN t
  /\ \A i \in DOMAIN s :
       /\ DOMAIN s[i] = DOMAIN t[i]
       /\ \A e \in DOMAIN s[i] : \A a \in ToSet(s[i][e]) \cup ToSet(t[i][e]) :
            Occurrences(s[i][e], a) = Occurrences(t[i][e], a)
=============================================================================
