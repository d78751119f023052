---------------------------- MODULE CollectiveOps ----------------------------
(***************************************************************************)
(* The collective ops of the reference interpreter                         *)
(* (stablehlo/reference/Ops.cpp) as functions: the process groups of an    *)
(* op, the keys with which a process calls rendezvous, and the result it   *)
(* computes from what the calls return.  CollectivesSpec.tla has the       *)
(* reference definitions that these are compared with.                     *)
(*                                                                         *)
(* A process id is a pair <<replica, partition>>.  A tensor is a sequence  *)
(* of elements, and an element is the sequence of the input elements that  *)
(* it was reduced from: the reduction computation is concatenation, the    *)
(* free computation, which shows what was combined and in which order.     *)
(***************************************************************************)
EXTENDS ReplicaGroupUtils, FiniteSets

CONSTANTS NumReplicas, NumPartitions

ASSUME GridAssumption == NumReplicas \in Nat \ {0} /\ NumPartitions \in Nat \ {0}

ReplicaIds == 0..NumReplicas - 1
PartitionIds == 0..NumPartitions - 1
ProcessIds == ReplicaIds \X PartitionIds

\* ProcessId::operator<
Less(p, q) == p[1] < q[1] \/ (p[1] = q[1] /\ p[2] < q[2])

\* The element that constant(0.0) makes, an input of no process, and a result
\* without any member's data.
NoProcess == <<-1, -1>>
Zero == << <<NoProcess, 0, 0>> >>
Zeros(operands) == [i \in DOMAIN operands |-> [e \in DOMAIN operands[i] |-> Zero]]

-----------------------------------------------------------------------------
(* Process groups (ProcessGrid.cpp).                                        *)

\* getReplicaGroups: groups given by axes of a mesh are flattened, of groups
\* given as rows the padding is dropped.
GetReplicaGroups(o) ==
  IF o.mesh # <<>>
  THEN flattenReplicaGroupMeshAxes(o.mesh[1], o.axes)
  ELSE [g \in DOMAIN o.groups |-> SelectSeq(o.groups[g], LAMBDA id : id # -1)]

\* "Failed to flatten replica group mesh axes".
CannotFlatten(o) == o.mesh # <<>> /\ ~CanReindex(o.mesh[1].axes, o.axes)

CrossReplica(groups) ==
  FlattenSeq([g \in DOMAIN groups |->
    [j \in 1..NumPartitions |-> [i \in DOMAIN groups[g] |-> <<groups[g][i], j - 1>>]]])

CrossPartition(groups) ==
  FlattenSeq([g \in DOMAIN groups |->
    [r \in 1..NumReplicas |-> [i \in DOMAIN groups[g] |-> <<r - 1, groups[g][i]>>]]])

CrossReplicaAndPartition(groups) ==
  [g \in DOMAIN groups |->
    FlattenSeq([j \in 1..NumPartitions |->
      [i \in DOMAIN groups[g] |-> <<groups[g][i], j - 1>>]])]

FlattenedIds(groups) ==
  [g \in DOMAIN groups |-> [i \in DOMAIN groups[g] |->
    <<groups[g][i] \div NumPartitions, groups[g][i] % NumPartitions>>]]

\* ProcessGroups::findGroup: the first group with p in it, or <<>>.
FindGroup(groups, p) ==
  LET i == SelectInSeq(groups, LAMBDA g : Contains(g, p))
  IN  IF i = 0 THEN <<>> ELSE groups[i]

-----------------------------------------------------------------------------
(* An op is a record: op, its kind; groups, the rows of replica_groups or   *)
(* source_target_pairs; mesh, the <<mesh>> of groups that are given by axes, *)
(* or <<>>, and axes, the references to its axes; channel, 0 if it has no channel handle; global,     *)
(* use_global_device_ids; root, the dynamic roots, or <<>>.                 *)

DeviceOps == {"all_gather", "all_reduce", "reduce_scatter", "collective_reduce"}
PairwiseOps == {"all_to_all", "collective_broadcast", "collective_permute"}
MayBeOutside == {"collective_broadcast", "collective_reduce", "collective_permute"}

\* reduce_scatter and collective_permute have a single operand.
OperandsOf(o, x) ==
  IF o.op \in {"reduce_scatter", "collective_permute"} THEN <<x[1]>> ELSE x

\* The strategy by which an op splits the grid into process groups.
ProcessGroups(o, groups) ==
  CASE o.channel <= 0 /\ ~o.global -> CrossReplica(groups)
    [] o.channel > 0 /\ o.op \in PairwiseOps -> CrossPartition(groups)
    [] o.channel > 0 /\ o.op \in DeviceOps /\ ~o.global -> CrossReplicaAndPartition(groups)
    [] o.channel > 0 /\ o.op \in DeviceOps /\ o.global -> FlattenedIds(groups)
    [] OTHER -> <<>>

\* In what follows, gs are the process groups of the op.
\*
\* Faulty variant: a process serves the pair it sends in first.
PermutePairsSendFirst(gs, p) ==
  LET mine == SelectSeq(gs, LAMBDA g : Contains(g, p) /\ g[1] # g[2])
  IN  SelectSeq(mine, LAMBDA g : g[1] = p) \o SelectSeq(mine, LAMBDA g : g[2] = p)

\* collective_permute: the pairs for which p calls rendezvous, in the order of
\* the list; a self-loop does not synchronize.
PermutePairs(gs, p) ==
  LET F[n \in 0..Len(gs)] ==
        IF n = 0 THEN <<>>
        ELSE IF Contains(gs[n], p) /\ gs[n][1] # gs[n][2] THEN Append(F[n - 1], gs[n])
        ELSE F[n - 1]
  IN  F[Len(gs)]

\* The channel keys of the rendezvous calls that p makes for o.
ChannelKeys(o, p, gs) ==
  LET group == FindGroup(gs, p)
      groups == IF o.op = "collective_permute" THEN PermutePairs(gs, p)
                ELSE IF group = <<>> THEN <<>> ELSE <<group>>
  IN  [i \in DOMAIN groups |-> <<groups[i], o.channel>>]

\* Faulty variant: no op accepts a process that is in no group.
NotInAnyGroupStrict(o, p, gs) == FindGroup(gs, p) = <<>>

\* "Failed to find process group with process_id".
NotInAnyGroup(o, p, gs) == o.op \notin MayBeOutside /\ FindGroup(gs, p) = <<>>

\* Every member of groups occurs in one place only, as verifyReplicaGroups
\* asks of replica ids.
EachOnce(groups) ==
  \A g, h \in DOMAIN groups : \A i \in DOMAIN groups[g], j \in DOMAIN groups[h] :
      groups[g][i] = groups[h][j] => g = h /\ i = j

\* The process groups of an op that the verifiers accept: no pair is listed
\* twice, as the sources and the targets of collective_permute are unique.
GroupsVerified(o, gs) ==
  /\ gs \in Seq(Seq(ProcessIds))
  /\ IF o.op = "collective_permute"
     THEN \A i, j \in DOMAIN gs : gs[i] = gs[j] => i = j
     ELSE EachOnce(gs)

-----------------------------------------------------------------------------
(* What p computes for o from its operands and m, what rendezvous returned;  *)
(* g is the group of p.                                                     *)

\* RendezvousResult::getSortedTensors
GetSortedTensors(m, members) ==
  LET ids == SetToSortSeq(members, Less) IN [i \in DOMAIN ids |-> m[ids[i]]]

\* The fold of the computation over the i-th operands of a group.
Reduce(tensors, i) ==
  [e \in DOMAIN tensors[1][i] |-> FlattenSeq([j \in DOMAIN tensors |-> tensors[j][i][e]])]

\* split, of which only the part-th result is used.
Split(x, numResults, part) ==
  LET n == Len(x) \div numResults IN SubSeq(x, (part - 1) * n + 1, part * n)

IndexOf(g, p) == SelectInSeq(g, LAMBDA q : q = p)

AllGather(g, operands, m) ==
  [i \in DOMAIN operands |-> FlattenSeq([j \in DOMAIN g |-> m[g[j]][i]])]

AllReduce(g, operands, m) ==
  [i \in DOMAIN operands |-> Reduce(GetSortedTensors(m, ToSet(g)), i)]

AllToAll(p, g, operands, m) ==
  [i \in DOMAIN operands |->
    FlattenSeq([j \in DOMAIN g |-> Split(m[g[j]][i], Len(g), IndexOf(g, p))])]

ReduceScatter(p, g, gs, operands, m) ==
  <<Split(AllReduce(g, operands, m)[1], Len(gs[1]), IndexOf(g, p))>>

\* The root of the i-th operand: the first member, or the one whose index the
\* last operand gives.
RootIndex(o, i) == IF o.root = <<>> THEN 0 ELSE o.root[i]
RootId(o, g, i) == g[RootIndex(o, i) + 1]
RootsInBounds(o, g) == \A i \in DOMAIN o.root : o.root[i] \in 0..Len(g) - 1

CollectiveBroadcast(o, g, operands, m) ==
  IF g = <<>> THEN Zeros(operands)
  ELSE [i \in DOMAIN operands |-> m[RootId(o, g, i)][i]]

CollectiveReduce(o, p, g, operands, m) ==
  IF g = <<>> THEN Zeros(operands)
  ELSE [i \in DOMAIN operands |->
         IF p = RootId(o, g, i)
         THEN Reduce(GetSortedTensors(m, ToSet(g)), i)
         ELSE Zeros(operands)[i]]

\* Faulty variant: a process that receives nothing keeps its operand.
CollectivePermuteKeeps(p, gs, operands, got) ==
  LET pairs == PermutePairs(gs, p)
      in == SelectInSeq(pairs, LAMBDA g : g[2] = p)
  IN  IF in = 0 THEN operands ELSE got[in][pairs[in][1]]

\* got is the sequence of what the calls of PermutePairs returned.  The last
\* pair that has p as its target decides.
CollectivePermute(p, gs, operands, got) ==
  LET incoming == {i \in DOMAIN gs : gs[i][2] = p}
      last == Max(incoming)
      from == gs[last][1]
  IN  CASE incoming = {} -> Zeros(operands)
        [] incoming # {} /\ from = p -> operands
        [] incoming # {} /\ from # p -> got[Len(PermutePairs(SubSeq(gs, 1, last), p))][from]

\* The result of op o on process p.
Result(o, p, gs, operands, got) ==
  LET m == IF got = <<>> THEN <<>> ELSE got[1]
      g == FindGroup(gs, p)
  IN
  CASE o.op = "all_gather" -> AllGather(g, operands, m)
    [] o.op = "all_reduce" -> AllReduce(g, operands, m)
    [] o.op = "all_to_all" -> AllToAll(p, g, operands, m)
    [] o.op = "reduce_scatter" -> ReduceScatter(p, g, gs, operands, m)
    [] o.op = "collective_broadcast" -> CollectiveBroadcast(o, g, operands, m)
    [] o.op = "collective_reduce" -> CollectiveReduce(o, p, g, operands, m)
    [] o.op = "collective_permute" -> CollectivePermute(p, gs, operands, got)

\* The errors found after the rendezvous: a dynamic root that is no index of
\* the group (reported by collective_broadcast, an access out of bounds in
\* collective_reduce), an operand that cannot be split evenly, by all_to_all for
\* the group and by reduce_scatter for the first group of all.
CannotCompute(o, g, gs, operands) ==
  \/ /\ o.op \in {"collective_broadcast", "collective_reduce"}
     /\ g # <<>>
     /\ ~RootsInBounds(o, g)
  \/ /\ o.op = "all_to_all"
     /\ \E i \in DOMAIN operands : Len(operands[i]) % Len(g) # 0
  \/ /\ o.op = "reduce_scatter"
     /\ \E i \in DOMAIN operands : Len(operands[i]) % Len(gs[1]) # 0
=============================================================================
