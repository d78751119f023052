---------------------------- MODULE MCRunParallel ----------------------------
(* Programs for RunParallel on grids of 2 x 2, 3 x 1 and 2 x 1 processes.   *)
EXTENDS RunParallel

Make(op, groups, channel) ==
  [op |-> op, groups |-> groups, mesh |-> <<>>, axes |-> <<>>, channel |-> channel,
   global |-> FALSE, root |-> <<>>]
Global(op, groups, channel) == [Make(op, groups, channel) EXCEPT !.global = TRUE]
Rooted(op, groups, channel, root) == [Make(op, groups, channel) EXCEPT !.root = root]
Feed(op) == Make(op, <<>>, 0)

\* Groups given by axes of a mesh.
OnMesh(op, mesh, axes) == [Global(op, <<>>, 1) EXCEPT !.mesh = <<mesh>>, !.axes = axes]
MeshOf(axes, ids) == [axes |-> axes, ids |-> ids]
Axis(name, size) == [name |-> name, size |-> size]
Whole(name) == [name |-> name, sub |-> <<>>]
SubAxis(name, preSize, size) == [name |-> name, sub |-> <<preSize, size>>]
Square(ids) == MeshOf(<<Axis("x", 2), Axis("y", 2)>>, ids)
Ring == MeshOf(<<Axis("x", 4)>>, <<>>)

\* Every process runs the same ops.
Same(seqs) == {[p \in ProcessIds |-> s] : s \in seqs}

Both == << <<0, 1>> >>
Swapped == << <<1, 0>> >>

\* On a 2 x 2 grid: every op with each of its strategies, alone and in pairs
\* that use different channels.
GridPrograms == Same({
  << Make("all_gather", Both, 0), Make("all_reduce", Swapped, 1) >>,
  << Make("all_gather", Swapped, 1) >>,
  << Global("all_gather", << <<3, 0>>, <<1, 2>> >>, 1) >>,
  << Global("all_reduce", << <<0, 1, 2>>, <<3, -1, -1>> >>, 1) >>,
  << Make("all_to_all", Swapped, 0), Make("all_to_all", Both, 1) >>,
  << Make("reduce_scatter", Swapped, 0) >>,
  << Make("reduce_scatter", Both, 1) >>,
  << Global("reduce_scatter", << <<2, 1>>, <<0, 3>> >>, 1) >>,
  << Make("collective_broadcast", Swapped, 0) >>,
  << Make("collective_broadcast", << <<1>> >>, 0) >>,
  << Rooted("collective_broadcast", Both, 1, <<1, 0>>) >>,
  << Make("collective_reduce", Both, 0), Make("collective_permute", Both, 1) >>,
  << Rooted("collective_reduce", Swapped, 1, <<2, 3>>) >>,
  << Global("collective_reduce", << <<0, 3>> >>, 1) >>,
  << OnMesh("all_gather", Square(<<>>), <<Whole("y"), Whole("x")>>) >>,
  << OnMesh("all_gather", Square(<<2, 0, 3, 1>>), <<Whole("x")>>) >>,
  << OnMesh("all_gather", Ring, <<SubAxis("x", 2, 2), SubAxis("x", 1, 2)>>) >>,
  << OnMesh("reduce_scatter", Ring, <<SubAxis("x", 1, 2)>>) >>,
  << OnMesh("all_reduce", MeshOf(<<Axis("u", 1), Axis("x", 4)>>, <<3, 1, 2, 0>>),
            <<SubAxis("x", 2, 2), Whole("u")>>) >>})

\* On a 3 x 1 grid: collective_permute with every list of source-target pairs
\* whose sources and whose targets are unique.
PairLists ==
  LET ids == SetToAllKPermutations(ReplicaIds) IN
  UNION {{[i \in DOMAIN from |-> <<from[i], to[i]>>] : to \in {t \in ids : Len(t) = Len(from)}} :
           from \in ids}
PermutePrograms == Same({ << Make("collective_permute", s, 0) >> : s \in PairLists })

\* On a 3 x 1 grid: infeed and outfeed.
All == << <<0, 1, 2>> >>
FeedPrograms == Same({
  << Feed("infeed"), Feed("outfeed"), Feed("infeed") >> })

\* Programs with errors: ops in different orders, a participant that does not
\* come, no group for a process, a root that does not exist, an uneven split,
\* too few infeed entries, pairs in different orders, parts of a mesh axis that
\* overlap.
Differ(s, t) == [p \in ProcessIds |-> IF p[1] = 0 THEN s ELSE t]
FaultyPrograms == {
  Differ(<< Make("all_gather", All, 1), Make("all_reduce", All, 2) >>,
         << Make("all_reduce", All, 2), Make("all_gather", All, 1) >>),
  Differ(<< >>, << Make("all_reduce", All, 1) >>),
  Differ(<< Make("all_gather", << <<0>> >>, 0) >>, << Make("all_gather", << <<1>> >>, 0) >>),
  Differ(<< Rooted("collective_broadcast", All, 0, <<0, 3>>) >>,
         << Rooted("collective_broadcast", All, 0, <<0, 1>>) >>),
  Differ(<< Make("all_to_all", All, 0) >>, << Make("all_to_all", << <<0, 1, 2>> >>, 0), Feed("outfeed") >>),
  Differ(<< Feed("infeed"), Feed("infeed"), Feed("infeed") >>,
         << Feed("infeed"), Feed("infeed") >>),
  Differ(<< Make("collective_permute", << <<0, 1>>, <<1, 0>> >>, 0) >>,
         << Make("collective_permute", << <<1, 0>>, <<0, 1>> >>, 0) >>),
  Differ(<< OnMesh("all_gather", Ring, <<SubAxis("x", 1, 2), Whole("x")>>) >>,
         << OnMesh("all_gather", Ring, <<Whole("x"), SubAxis("x", 1, 2)>>) >>)}

LinePrograms == PermutePrograms \cup FeedPrograms \cup FaultyPrograms

\* One collective of two processes.
OnePrograms == Same({ << Make("all_gather", Both, 0) >> })

\* What an infeed function returns.
Item(n) == << << << <<NoProcess, n, 1>> >> >> >>
SixItems == [n \in 1..6 |-> Item(n)]
NoItems == << >>

\* TLC keeps the value of a definition, but evaluates what a constant is
\* replaced with each time it is used: hence the two levels.
KeysOf(program, p) ==
  UNION {ToSet(ChannelKeys(program[p][i], p, ProcessGroups(program[p][i], GetReplicaGroups(program[p][i])))) :
           i \in {j \in DOMAIN program[p] : /\ IsCollective(program[p][j])
                                          /\ ~CannotFlatten(program[p][j])}}
AllKeys == UNION {KeysOf(program, p) : program \in Programs, p \in ProcessIds}
AllGroups == [k \in AllKeys |-> ToSet(k[1])]
AllProcesses == ReplicaIds \X PartitionIds
\* An element is the sequence of the elements of arguments it was reduced from.
Element == Seq((AllProcesses \cup {NoProcess}) \X (0..6) \X (0..4))
AllOperands == Seq(Seq(Element))
MCProcess == AllProcesses
MCKey == AllKeys
MCGroup == AllGroups
MCOperands == AllOperands
=============================================================================
