------------------------ MODULE CollectiveOpsProofs ------------------------
(***************************************************************************)
(* The process groups of a collective op, for every grid: the members of a *)
(* group have to call rendezvous with the same key, or they wait for each  *)
(* other in different places, and to visit the keys of an op in one order, *)
(* or they wait for each other in turn.  That runs of SPMD programs do not *)
(* time out (SpmdProofs.tla) rests on this.                                *)
(***************************************************************************)
EXTENDS CollectiveOps, WellFoundedInduction, TLAPS

\* An id of a process, in a grid that is numbered by rows.
DeviceIdSet == 0..NumReplicas * NumPartitions - 1

\* Whoever looks for its group finds the one it is in: findGroup gives all
\* members of a group the same group, hence the same rendezvous key.
THEOREM MembersFindTheirGroup ==
  ASSUME NEW S, NEW gs \in Seq(Seq(S)), EachOnce(gs),
         NEW g \in DOMAIN gs, NEW i \in DOMAIN gs[g]
  PROVE  FindGroup(gs, gs[g][i]) = gs[g]
<1> DEFINE p == gs[g][i]
           I == {k \in 1..Len(gs) : Contains(gs[k], p)}
<1>1. DOMAIN gs = 1..Len(gs) /\ Len(gs) \in Nat
  OBVIOUS
<1>2. \A k \in DOMAIN gs : gs[k] \in Seq(S) /\ DOMAIN gs[k] = 1..Len(gs[k])
  OBVIOUS
<1>3. \A k \in DOMAIN gs : Contains(gs[k], p) <=> k = g
  BY <1>2 DEF Contains, EachOnce
<1>4. I = {g}
  BY <1>1, <1>3
<1>5. Min({g}) = g
  BY <1>1 DEF Min
<1>6. SelectInSeq(gs, LAMBDA h : Contains(h, p)) = g
  BY <1>4, <1>5 DEF SelectInSeq
<1> QED
  BY <1>1, <1>6 DEF FindGroup

\* The members of a group call rendezvous with the same key: of every
\* collective but collective_permute, whose keys are the pairs of its list, no
\* member waits in a barrier that another one does not come to.
THEOREM MembersCallTheSameBarrier ==
  ASSUME NEW S, NEW gs \in Seq(Seq(S)), EachOnce(gs), NEW g \in DOMAIN gs,
         NEW i \in DOMAIN gs[g], NEW j \in DOMAIN gs[g],
         NEW o, o.op # "collective_permute"
  PROVE  ChannelKeys(o, gs[g][i], gs) = ChannelKeys(o, gs[g][j], gs)
<1>1. FindGroup(gs, gs[g][i]) = FindGroup(gs, gs[g][j])
  BY MembersFindTheirGroup
<1> QED
  BY <1>1 DEF ChannelKeys

\* A process that is in no group finds none, which is the error that
\* collectives other than those of MayBeOutside report.
THEOREM OutsidersFindNoGroup ==
  ASSUME NEW S, NEW gs \in Seq(Seq(S)), NEW p,
         \A g \in DOMAIN gs : \A i \in DOMAIN gs[g] : gs[g][i] # p
  PROVE  FindGroup(gs, p) = <<>>
<1> DEFINE I == {k \in 1..Len(gs) : Contains(gs[k], p)}
<1>1. DOMAIN gs = 1..Len(gs) /\ \A k \in DOMAIN gs : DOMAIN gs[k] = 1..Len(gs[k])
  OBVIOUS
<1>2. I = {}
  BY <1>1 DEF Contains
<1>3. SelectInSeq(gs, LAMBDA h : Contains(h, p)) = 0
  BY <1>2 DEF SelectInSeq
<1> QED
  BY <1>3 DEF FindGroup

LEMMA DivMod ==
  ASSUME NEW a \in Nat, NEW P \in Nat \ {0}, NEW b \in 0..P - 1
  PROVE  (a * P + b) \div P = a /\ (a * P + b) % P = b
<1> DEFINE n == a * P + b
           q == n \div P
           r == n % P
<1>1. a * P \in Nat /\ n \in Nat
  OBVIOUS
<1>2. q \in Int /\ r \in 0..P - 1 /\ n = P * q + r
  <2> HIDE DEF n
  <2> QED
    BY <1>1
<1>3. P * q = q * P /\ q * P \in Int
  BY <1>2
<1> HIDE DEF q, r
<1>4. ASSUME q >= a + 1 PROVE FALSE
  <2>1. q * P >= a * P + P
    BY <1>2, <1>4
  <2> QED
    BY <1>1, <1>2, <1>3, <2>1
<1>5. ASSUME q <= a - 1 PROVE FALSE
  <2>1. q * P <= a * P - P
    BY <1>2, <1>5
  <2> QED
    BY <1>1, <1>2, <1>3, <2>1
<1>6. q = a
  BY <1>2, <1>4, <1>5
<1>7. r = b
  BY <1>1, <1>2, <1>3, <1>6
<1> QED
  BY <1>6, <1>7 DEF q, r

\* Device ids and processes correspond one to one.
LEMMA DeviceIdsAreProcesses ==
  /\ \A n \in DeviceIdSet : <<n \div NumPartitions, n % NumPartitions>> \in ProcessIds
  /\ \A m, n \in DeviceIdSet :
        /\ m \div NumPartitions = n \div NumPartitions
        /\ m % NumPartitions = n % NumPartitions
        => m = n
  /\ \A p \in ProcessIds : \E n \in DeviceIdSet :
        p = <<n \div NumPartitions, n % NumPartitions>>
<1>1. NumReplicas \in Nat \ {0} /\ NumPartitions \in Nat \ {0}
  BY GridAssumption
<1>2. NumReplicas * NumPartitions \in Nat
  BY <1>1
<1>3. ASSUME NEW n \in DeviceIdSet
      PROVE  /\ n \div NumPartitions \in 0..NumReplicas - 1
             /\ n % NumPartitions \in 0..NumPartitions - 1
  BY <1>1, <1>2, SMTT(30) DEF DeviceIdSet
<1>4. ASSUME NEW m \in DeviceIdSet, NEW n \in DeviceIdSet,
             m \div NumPartitions = n \div NumPartitions,
             m % NumPartitions = n % NumPartitions
      PROVE  m = n
  BY <1>1, <1>2, <1>4, SMTT(30) DEF DeviceIdSet
<1>5. ASSUME NEW p \in ProcessIds
      PROVE  \E n \in DeviceIdSet : p = <<n \div NumPartitions, n % NumPartitions>>
  <2> DEFINE n == p[1] * NumPartitions + p[2]
  <2>1. p = <<p[1], p[2]>> /\ p[1] \in 0..NumReplicas - 1 /\ p[2] \in 0..NumPartitions - 1
    BY DEF ProcessIds, ReplicaIds, PartitionIds
  <2>2. p[1] * NumPartitions <= NumReplicas * NumPartitions - NumPartitions
    <3>1. p[1] * NumPartitions <= (NumReplicas - 1) * NumPartitions
      BY <1>1, <2>1
    <3>2. (NumReplicas - 1) * NumPartitions = NumReplicas * NumPartitions - NumPartitions
      BY <1>1
    <3> QED
      BY <3>1, <3>2
  <2>3. n \in DeviceIdSet
    <3>1. p[1] * NumPartitions \in Nat
      BY <1>1, <2>1
    <3> QED
      BY <1>1, <1>2, <2>1, <2>2, <3>1 DEF DeviceIdSet
  <2>4. n \div NumPartitions = p[1] /\ n % NumPartitions = p[2]
    BY <1>1, <2>1, DivMod
  <2> QED
    BY <2>1, <2>3, <2>4
<1> QED
  BY <1>3, <1>4, <1>5 DEF ProcessIds, ReplicaIds, PartitionIds

\* With use_global_device_ids, replica groups that list every device once make
\* process groups in which every process of the grid has exactly one place, and
\* every process finds its group.
THEOREM FlattenedIdsPartitionTheGrid ==
  ASSUME NEW groups \in Seq(Seq(DeviceIdSet)), EachOnce(groups),
         \A n \in DeviceIdSet : \E g \in DOMAIN groups : \E i \in DOMAIN groups[g] : groups[g][i] = n
  PROVE  /\ FlattenedIds(groups) \in Seq(Seq(ProcessIds))
         /\ EachOnce(FlattenedIds(groups))
         /\ \A p \in ProcessIds : \E g \in DOMAIN groups :
               /\ FindGroup(FlattenedIds(groups), p) = FlattenedIds(groups)[g]
               /\ \E i \in DOMAIN groups[g] : FlattenedIds(groups)[g][i] = p
<1> DEFINE Of(n) == <<n \div NumPartitions, n % NumPartitions>>
           gs == FlattenedIds(groups)
<1>1. /\ DOMAIN gs = DOMAIN groups
      /\ \A g \in DOMAIN groups :
            /\ DOMAIN gs[g] = DOMAIN groups[g]
            /\ \A i \in DOMAIN groups[g] : groups[g][i] \in DeviceIdSet /\ gs[g][i] = Of(groups[g][i])
  <2>1. ASSUME NEW g \in DOMAIN groups, NEW i \in DOMAIN groups[g]
        PROVE  groups[g][i] \in DeviceIdSet
    <3>1. groups[g] \in Seq(DeviceIdSet)
      OBVIOUS
    <3> QED
      BY <3>1
  <2> QED
    BY <2>1 DEF FlattenedIds
<1>2. gs \in Seq(Seq(ProcessIds))
  <2>1. ASSUME NEW g \in DOMAIN groups PROVE gs[g] \in Seq(ProcessIds)
    <3>1. groups[g] \in Seq(DeviceIdSet)
      OBVIOUS
    <3>2. DOMAIN groups[g] = 1..Len(groups[g]) /\ Len(groups[g]) \in Nat
      BY <3>1
    <3>3. gs[g] = [i \in 1..Len(groups[g]) |-> Of(groups[g][i])]
      BY <3>2 DEF FlattenedIds
    <3>4. \A i \in 1..Len(groups[g]) : Of(groups[g][i]) \in ProcessIds
      BY <1>1, <3>2, DeviceIdsAreProcesses
    <3> HIDE DEF Of, gs
    <3> QED
      BY <3>2, <3>3, <3>4
  <2>2. DOMAIN groups = 1..Len(groups) /\ Len(groups) \in Nat
    OBVIOUS
  <2>3. gs = [g \in 1..Len(groups) |-> gs[g]]
    BY <2>2 DEF FlattenedIds
  <2> HIDE DEF gs
  <2> QED
    BY <2>1, <2>2, <2>3
<1>3. EachOnce(gs)
  <2> SUFFICES ASSUME NEW g \in DOMAIN groups, NEW h \in DOMAIN groups,
                      NEW i \in DOMAIN groups[g], NEW j \in DOMAIN groups[h],
                      Of(groups[g][i]) = Of(groups[h][j])
               PROVE  g = h /\ i = j
    BY <1>1 DEF EachOnce
  <2>1. groups[g][i] = groups[h][j]
    BY <1>1, DeviceIdsAreProcesses
  <2> QED
    BY <2>1 DEF EachOnce
<1>4. ASSUME NEW p \in ProcessIds
      PROVE  \E g \in DOMAIN groups : /\ FindGroup(gs, p) = gs[g]
                                      /\ \E i \in DOMAIN groups[g] : gs[g][i] = p
  <2>1. PICK n \in DeviceIdSet : p = Of(n)
    BY DeviceIdsAreProcesses
  <2>2. PICK g \in DOMAIN groups : \E i \in DOMAIN groups[g] : groups[g][i] = n
    OBVIOUS
  <2>3. PICK i \in DOMAIN groups[g] : gs[g][i] = p
    BY <1>1, <2>1, <2>2
  <2>4. FindGroup(gs, gs[g][i]) = gs[g]
    BY <1>1, <1>2, <1>3, MembersFindTheirGroup
  <2> QED
    BY <2>3, <2>4
<1> QED
  BY <1>2, <1>3, <1>4

-----------------------------------------------------------------------------
(* The order in which the processes visit the keys of an op.                *)

\* The least number principle, in the form in which the proofs by induction on
\* the length of a list use it: a set of counterexamples has a least one.
LEMMA LeastNumber ==
  ASSUME NEW T \in SUBSET Nat, T # {}
  PROVE  \E x \in T : \A y \in T : x <= y
<1> DEFINE R == OpToRel(<, Nat)
<1>1. IsWellFoundedOn(R, Nat)
  BY NatLessThanWellFounded
<1>2. \A x, y \in Nat : <<y, x>> \in R <=> y < x
  BY DEF OpToRel
<1> HIDE DEF R
<1>3. PICK x \in T : \A y \in T : ~(<<y, x>> \in R)
  BY <1>1, WFMin, Zenon
<1>4. ASSUME NEW y \in T PROVE x <= y
  <2>1. x \in Nat /\ y \in Nat /\ ~(<<y, x>> \in R)
    BY <1>3
  <2>2. ~(y < x)
    BY <1>2, <2>1
  <2> QED
    BY <2>1, <2>2
<1> QED
  BY <1>4

\* What the loop over the pairs has collected after n of them, when the pairs of
\* p are those at the places mine.
Collected(F, gs, mine, N) ==
  F = [n \in 0..N |-> IF n = 0 THEN <<>>
                      ELSE IF n \in mine THEN Append(F[n - 1], gs[n]) ELSE F[n - 1]]

LEMMA CollectedExists ==
  ASSUME NEW gs, NEW mine, NEW N \in Nat
  PROVE  \E F : Collected(F, gs, mine, N)
<1> DEFINE T == {n \in Nat : ~ \E F : Collected(F, gs, mine, n)}
<1> SUFFICES ASSUME T # {} PROVE FALSE
  OBVIOUS
<1>1. PICK m \in T : \A y \in T : m <= y
  BY LeastNumber
<1>2. m # 0
  <2>1. Collected([n \in 0..0 |-> <<>>], gs, mine, 0)
    BY DEF Collected
  <2> QED
    BY <2>1
<1>3. m - 1 \in Nat /\ m - 1 \notin T
  BY <1>1, <1>2
<1>4. PICK F : Collected(F, gs, mine, m - 1)
  BY <1>3
<1> DEFINE last == IF m \in mine THEN Append(F[m - 1], gs[m]) ELSE F[m - 1]
           G == [n \in 0..m |-> IF n = m THEN last ELSE F[n]]
<1>5. ASSUME NEW n \in 0..m
      PROVE  G[n] = IF n = 0 THEN <<>>
                    ELSE IF n \in mine THEN Append(G[n - 1], gs[n]) ELSE G[n - 1]
  <2>1. CASE n = m
    BY <1>2, <1>3, <2>1
  <2>2. CASE n # m
    <3>1. n \in 0..m - 1 /\ G[n] = F[n]
      BY <1>3, <2>2
    <3>2. n # 0 => n - 1 \in 0..m - 1 /\ n - 1 \in 0..m /\ n - 1 # m
      BY <1>3, <3>1
    <3>3. n # 0 => G[n - 1] = F[n - 1]
      BY <3>2
    <3> HIDE DEF G
    <3> QED
      BY <1>4, <3>1, <3>3 DEF Collected
  <2> QED
    BY <2>1, <2>2
<1>6. G = [n \in 0..m |-> G[n]]
  OBVIOUS
<1> HIDE DEF G
<1>7. Collected(G, gs, mine, m)
  BY <1>5, <1>6 DEF Collected
<1> QED
  BY <1>7

\* f gives the places in gs of the pairs that c collects: its values are the
\* places of mine up to n, in their order.
Places(f, c, gs, mine, n) ==
  /\ f \in [1..Len(c) -> 1..n]
  /\ \A i, j \in 1..Len(c) : i < j => f[i] < f[j]
  /\ \A i \in 1..Len(c) : c[i] = gs[f[i]] /\ f[i] \in mine
  /\ \A k \in 1..n : k \in mine => \E i \in 1..Len(c) : f[i] = k

LEMMA CollectedInOrder ==
  ASSUME NEW S, NEW gs \in Seq(S), NEW mine \in SUBSET DOMAIN gs,
         NEW F, Collected(F, gs, mine, Len(gs)), NEW N \in 0..Len(gs)
  PROVE  F[N] \in Seq(S) /\ \E f : Places(f, F[N], gs, mine, N)
<1> DEFINE P(n) == F[n] \in Seq(S) /\ \E f : Places(f, F[n], gs, mine, n)
           T == {n \in 0..Len(gs) : ~P(n)}
<1> SUFFICES ASSUME T # {} PROVE FALSE
  OBVIOUS
<1>1. PICK m \in T : \A y \in T : m <= y
  <2> HIDE DEF P
  <2>1. T \in SUBSET Nat
    OBVIOUS
  <2> HIDE DEF T
  <2> QED
    BY <2>1, LeastNumber
<1>2. m \in 0..Len(gs) /\ ~P(m) /\ \A n \in 0..Len(gs) : n < m => P(n)
  BY <1>1
<1> HIDE DEF P, T
<1>3. m # 0
  <2>1. F[0] = <<>>
    BY DEF Collected
  <2>2. Places(<<>>, <<>>, gs, mine, 0) /\ <<>> \in Seq(S)
    BY DEF Places
  <2> QED
    BY <1>2, <2>1, <2>2 DEF P
<1>4. m - 1 \in 0..Len(gs) /\ m \in DOMAIN gs /\ gs[m] \in S
  BY <1>2, <1>3
<1> DEFINE c == F[m - 1]
<1>5. c \in Seq(S) /\ \E f : Places(f, c, gs, mine, m - 1)
  BY <1>2, <1>4 DEF P
<1>6. PICK f : Places(f, c, gs, mine, m - 1)
  BY <1>5
<1>7. F[m] = IF m \in mine THEN Append(c, gs[m]) ELSE c
  BY <1>2, <1>3 DEF Collected
<1> HIDE DEF c
<1>8. CASE m \notin mine
  <2>1. \A k \in 1..m : k \in mine => k \in 1..m - 1
    BY <1>4, <1>8
  <2>2. 1..m - 1 \subseteq 1..m
    BY <1>4
  <2>3. Places(f, c, gs, mine, m)
    BY <1>6, <2>1, <2>2 DEF Places
  <2> QED
    BY <1>2, <1>5, <1>7, <1>8, <2>3 DEF P
<1>9. CASE m \in mine
  <2> DEFINE d == Append(c, gs[m])
             l == Len(c) + 1
             g == [i \in 1..l |-> IF i = l THEN m ELSE f[i]]
  <2>1. /\ Len(c) \in Nat /\ Len(d) = l /\ d \in Seq(S) /\ d[l] = gs[m]
        /\ \A i \in 1..Len(c) : d[i] = c[i]
    BY <1>4, <1>5
  <2>2. \A i \in 1..l : i = l \/ i \in 1..Len(c)
    BY <2>1
  <2>3. /\ \A i \in 1..Len(c) : f[i] \in 1..m - 1 /\ c[i] = gs[f[i]] /\ f[i] \in mine
        /\ \A i, j \in 1..Len(c) : i < j => f[i] < f[j]
        /\ \A k \in 1..m - 1 : k \in mine => \E i \in 1..Len(c) : f[i] = k
    BY <1>6 DEF Places
  <2>4. g[l] = m /\ \A i \in 1..Len(c) : g[i] = f[i] /\ i # l /\ i \in 1..l
    BY <2>1
  <2>5. g \in [1..l -> 1..m]
    BY <1>4, <2>2, <2>3
  <2> HIDE DEF g, d
  <2>6. \A i, j \in 1..l : i < j => g[i] < g[j]
    <3> SUFFICES ASSUME NEW i \in 1..l, NEW j \in 1..l, i < j PROVE g[i] < g[j]
      OBVIOUS
    <3>1. i \in 1..Len(c)
      BY <2>1, <2>2
    <3>2. CASE j = l
      <4>1. g[i] = f[i] /\ f[i] \in 1..m - 1 /\ g[j] = m
        BY <2>3, <2>4, <3>1, <3>2
      <4> HIDE DEF l
      <4> QED
        BY <1>4, <4>1
    <3>3. CASE j \in 1..Len(c)
      BY <2>3, <2>4, <3>1, <3>3
    <3> QED
      BY <2>2, <3>2, <3>3
  <2>7. \A i \in 1..l : d[i] = gs[g[i]] /\ g[i] \in mine
    BY <1>9, <2>1, <2>2, <2>3, <2>4
  <2>8. \A k \in 1..m : k \in mine => \E i \in 1..l : g[i] = k
    <3> SUFFICES ASSUME NEW k \in 1..m, k \in mine PROVE \E i \in 1..l : g[i] = k
      OBVIOUS
    <3>1. CASE k = m
      BY <2>1, <2>4, <3>1
    <3>2. CASE k # m
      <4>1. k \in 1..m - 1
        BY <1>4, <3>2
      <4> QED
        BY <2>3, <2>4, <4>1
    <3> QED
      BY <3>1, <3>2
  <2>9. Places(g, d, gs, mine, m)
    BY <2>1, <2>5, <2>6, <2>7, <2>8 DEF Places
  <2> QED
    BY <1>2, <1>7, <1>9, <2>1, <2>9 DEF P, d
<1> QED
  BY <1>8, <1>9

\* The places of the pairs for which p meets another process.
MyPlaces(gs, p) == {i \in DOMAIN gs : Contains(gs[i], p) /\ gs[i][1] # gs[i][2]}

LEMMA PairsInOrder ==
  ASSUME NEW S, NEW gs \in Seq(S), NEW p
  PROVE  /\ PermutePairs(gs, p) \in Seq(S)
         /\ \E f : Places(f, PermutePairs(gs, p), gs, MyPlaces(gs, p), Len(gs))
<1> DEFINE mine == MyPlaces(gs, p)
           IsLoop(G) == G = [n \in 0..Len(gs) |->
             IF n = 0 THEN <<>>
             ELSE IF Contains(gs[n], p) /\ gs[n][1] # gs[n][2] THEN Append(G[n - 1], gs[n])
             ELSE G[n - 1]]
           H == CHOOSE G : IsLoop(G)
<1>1. Len(gs) \in Nat /\ DOMAIN gs = 1..Len(gs) /\ mine \in SUBSET DOMAIN gs
  BY DEF MyPlaces
<1>2. PermutePairs(gs, p) = H[Len(gs)]
  BY DEF PermutePairs
<1>3. ASSUME NEW G PROVE Collected(G, gs, mine, Len(gs)) <=> IsLoop(G)
  <2>1. \A n \in 0..Len(gs) : n # 0 =>
          (n \in mine <=> Contains(gs[n], p) /\ gs[n][1] # gs[n][2])
    BY <1>1 DEF MyPlaces
  <2> HIDE DEF mine
  <2> QED
    BY <1>1, <2>1 DEF Collected
<1> HIDE DEF IsLoop, mine
<1>4. \E G : IsLoop(G)
  BY <1>1, <1>3, CollectedExists
<1>5. Collected(H, gs, mine, Len(gs))
  BY <1>3, <1>4
<1> HIDE DEF H
<1>6. H[Len(gs)] \in Seq(S) /\ \E f : Places(f, H[Len(gs)], gs, mine, Len(gs))
  <2>1. Len(gs) \in 0..Len(gs)
    BY <1>1
  <2> QED
    BY <1>1, <1>5, <2>1, CollectedInOrder
<1> QED
  BY <1>2, <1>6 DEF mine

\* A number for each key such that every process visits the keys of o in the
\* order of their numbers.
SameOrder(o, gs, rank) ==
  \A p \in ProcessIds :
    LET keys == ChannelKeys(o, p, gs) IN
    /\ \A i \in DOMAIN keys : rank[keys[i]] \in Nat
    /\ \A i, j \in DOMAIN keys : i < j => rank[keys[i]] < rank[keys[j]]

\* Whoever is a member of the group of a key visits it, if anybody does.
MembersCome(o, gs) ==
  \A p, q \in ProcessIds : \A i \in DOMAIN ChannelKeys(o, p, gs) :
    q \in ToSet(ChannelKeys(o, p, gs)[i][1]) =>
      \E j \in DOMAIN ChannelKeys(o, q, gs) :
        ChannelKeys(o, q, gs)[j] = ChannelKeys(o, p, gs)[i]

\* The place in gs of the group of a key.
KeyRank(o, gs) ==
  [k \in {<<gs[i], o.channel>> : i \in DOMAIN gs} |-> CHOOSE i \in DOMAIN gs : gs[i] = k[1]]

LEMMA PermuteInOneOrder ==
  ASSUME NEW o, o.op = "collective_permute", NEW gs, GroupsVerified(o, gs)
  PROVE  SameOrder(o, gs, KeyRank(o, gs)) /\ MembersCome(o, gs)
<1> DEFINE rank == KeyRank(o, gs)
           keys(p) == ChannelKeys(o, p, gs)
           pairs(p) == PermutePairs(gs, p)
<1>1. /\ gs \in Seq(Seq(ProcessIds)) /\ DOMAIN gs = 1..Len(gs)
      /\ \A i, j \in DOMAIN gs : gs[i] = gs[j] => i = j
  BY DEF GroupsVerified
<1>2. ASSUME NEW i \in DOMAIN gs PROVE rank[<<gs[i], o.channel>>] = i
  BY <1>1 DEF KeyRank
<1>3. ASSUME NEW p
      PROVE  /\ DOMAIN keys(p) = 1..Len(pairs(p))
             /\ \A i \in 1..Len(pairs(p)) : keys(p)[i] = <<pairs(p)[i], o.channel>>
             /\ \E f : Places(f, pairs(p), gs, MyPlaces(gs, p), Len(gs))
  <2>1. pairs(p) \in Seq(Seq(ProcessIds))
    BY <1>1, PairsInOrder
  <2>2. keys(p) = [i \in DOMAIN pairs(p) |-> <<pairs(p)[i], o.channel>>]
    BY DEF ChannelKeys
  <2> QED
    BY <1>1, <2>1, <2>2, PairsInOrder
<1> HIDE DEF rank, keys, pairs
<1>4. ASSUME NEW p, NEW f, Places(f, pairs(p), gs, MyPlaces(gs, p), Len(gs)),
             NEW i \in 1..Len(pairs(p))
      PROVE  /\ keys(p)[i] = <<gs[f[i]], o.channel>> /\ f[i] \in DOMAIN gs
             /\ f[i] \in MyPlaces(gs, p) /\ rank[keys(p)[i]] = f[i]
  <2>1. pairs(p)[i] = gs[f[i]] /\ f[i] \in DOMAIN gs /\ f[i] \in MyPlaces(gs, p)
    BY <1>1, <1>4 DEF Places
  <2>2. keys(p)[i] = <<gs[f[i]], o.channel>>
    BY <1>3, <2>1
  <2> QED
    BY <1>2, <2>1, <2>2
<1>5. ASSUME NEW p \in ProcessIds
      PROVE  /\ \A i \in DOMAIN keys(p) : rank[keys(p)[i]] \in Nat
             /\ \A i, j \in DOMAIN keys(p) : i < j => rank[keys(p)[i]] < rank[keys(p)[j]]
  <2>1. PICK f : Places(f, pairs(p), gs, MyPlaces(gs, p), Len(gs))
    BY <1>3
  <2>2. \A i \in DOMAIN keys(p) : rank[keys(p)[i]] = f[i] /\ f[i] \in Nat
    BY <1>1, <1>3, <1>4, <2>1
  <2>3. \A i, j \in DOMAIN keys(p) : i < j => f[i] < f[j]
    BY <1>3, <2>1 DEF Places
  <2> QED
    BY <2>2, <2>3
<1>6. ASSUME NEW p \in ProcessIds, NEW q \in ProcessIds, NEW i \in DOMAIN keys(p),
             q \in ToSet(keys(p)[i][1])
      PROVE  \E j \in DOMAIN keys(q) : keys(q)[j] = keys(p)[i]
  <2>1. PICK f : Places(f, pairs(p), gs, MyPlaces(gs, p), Len(gs))
    BY <1>3
  <2>2. PICK g : Places(g, pairs(q), gs, MyPlaces(gs, q), Len(gs))
    BY <1>3
  <2>3. /\ keys(p)[i] = <<gs[f[i]], o.channel>> /\ f[i] \in DOMAIN gs
        /\ f[i] \in MyPlaces(gs, p)
    <3>1. i \in 1..Len(pairs(p))
      BY <1>3, Zenon
    <3>2. pairs(p)[i] = gs[f[i]] /\ f[i] \in DOMAIN gs /\ f[i] \in MyPlaces(gs, p)
      BY <1>1, <2>1, <3>1 DEF Places
    <3>3. keys(p)[i] = <<pairs(p)[i], o.channel>>
      BY <1>3, <3>1
    <3> QED
      BY <3>2, <3>3
  <2>4. gs[f[i]] \in Seq(ProcessIds) /\ q \in ToSet(gs[f[i]])
    BY <1>1, <1>6, <2>3
  <2>5. f[i] \in MyPlaces(gs, q)
    BY <2>3, <2>4 DEF MyPlaces, Contains, ToSet
  <2>6. PICK j \in 1..Len(pairs(q)) : g[j] = f[i]
    BY <1>1, <2>2, <2>3, <2>5 DEF Places
  <2>7. keys(q)[j] = <<gs[g[j]], o.channel>>
    BY <1>4, <2>2
  <2>8. j \in DOMAIN keys(q)
    BY <1>3, Zenon
  <2> QED
    BY <2>3, <2>6, <2>7, <2>8
<1> QED
  BY <1>5, <1>6 DEF SameOrder, MembersCome, keys, rank

LEMMA GroupedInOneOrder ==
  ASSUME NEW o, o.op # "collective_permute", NEW gs, GroupsVerified(o, gs)
  PROVE  SameOrder(o, gs, KeyRank(o, gs)) /\ MembersCome(o, gs)
<1> DEFINE rank == KeyRank(o, gs)
           keys(p) == ChannelKeys(o, p, gs)
<1>1. gs \in Seq(Seq(ProcessIds)) /\ DOMAIN gs = 1..Len(gs) /\ EachOnce(gs)
  BY DEF GroupsVerified
<1>2. ASSUME NEW p
      PROVE  IF FindGroup(gs, p) = <<>> THEN DOMAIN keys(p) = {}
             ELSE /\ DOMAIN keys(p) = {1} /\ keys(p)[1] = <<FindGroup(gs, p), o.channel>>
                  /\ \E g \in DOMAIN gs : FindGroup(gs, p) = gs[g]
                                          /\ \E i \in DOMAIN gs[g] : gs[g][i] = p
  <2>1. CASE FindGroup(gs, p) = <<>>
    BY <2>1 DEF ChannelKeys
  <2>2. CASE FindGroup(gs, p) # <<>>
    <3>1. PICK g \in DOMAIN gs : \E i \in DOMAIN gs[g] : gs[g][i] = p
      BY <1>1, <2>2, OutsidersFindNoGroup
    <3>2. FindGroup(gs, p) = gs[g]
      BY <1>1, <3>1, MembersFindTheirGroup
    <3>3. DOMAIN keys(p) = {1} /\ keys(p)[1] = <<FindGroup(gs, p), o.channel>>
      BY <2>2 DEF ChannelKeys
    <3> QED
      BY <2>2, <3>1, <3>2, <3>3
  <2> QED
    BY <2>1, <2>2
<1>3. ASSUME NEW p \in ProcessIds, NEW i \in DOMAIN keys(p)
      PROVE  /\ i = 1 /\ DOMAIN keys(p) = {1} 
             /\ \E g \in DOMAIN gs : /\ keys(p)[1] = <<gs[g], o.channel>>
                                     /\ \E j \in DOMAIN gs[g] : gs[g][j] = p
  <2> HIDE DEF keys
  <2> QED
    BY <1>2, <1>3
<1>4. ASSUME NEW p \in ProcessIds, NEW i \in DOMAIN keys(p)
      PROVE  rank[keys(p)[i]] \in Nat
  <2>1. PICK g \in DOMAIN gs : keys(p)[i] = <<gs[g], o.channel>>
    BY <1>3
  <2>2. rank[keys(p)[i]] = CHOOSE h \in DOMAIN gs : gs[h] = gs[g]
    <3> HIDE DEF keys
    <3> QED
      BY <2>1 DEF KeyRank
  <2>3. rank[keys(p)[i]] \in DOMAIN gs
    <3> HIDE DEF keys, rank
    <3> QED
      BY <2>2
  <2> QED
    BY <1>1, <2>3
<1>5. ASSUME NEW p \in ProcessIds, NEW q \in ProcessIds, NEW i \in DOMAIN keys(p),
             q \in ToSet(keys(p)[i][1])
      PROVE  \E j \in DOMAIN keys(q) : keys(q)[j] = keys(p)[i]
  <2>1. PICK g \in DOMAIN gs : /\ keys(p)[i] = <<gs[g], o.channel>>
                               /\ \E j \in DOMAIN gs[g] : gs[g][j] = p
    BY <1>3
  <2>2. PICK j \in DOMAIN gs[g] : gs[g][j] = p
    BY <2>1
  <2>3. PICK l \in DOMAIN gs[g] : gs[g][l] = q
    <3>1. q \in ToSet(gs[g])
      BY <1>5, <2>1
    <3> QED
      BY <3>1 DEF ToSet
  <2>4. keys(p) = keys(q)
    BY <1>1, <2>2, <2>3, MembersCallTheSameBarrier
  <2> QED
    BY <2>4
<1> HIDE DEF keys, rank
<1>6. ASSUME NEW p \in ProcessIds
      PROVE  \A i, j \in DOMAIN keys(p) : i < j => rank[keys(p)[i]] < rank[keys(p)[j]]
  BY <1>3
<1> QED
  BY <1>4, <1>5, <1>6 DEF SameOrder, MembersCome, keys, rank

\* For every grid and every op with process groups that the verifiers accept,
\* collective_permute with cycles included: the processes visit the keys of the
\* op in one order, and every member of the group of a key visits it.  No two
\* processes can each wait for the other to come to an earlier key.
THEOREM KeysInOneOrder ==
  ASSUME NEW o, NEW gs, GroupsVerified(o, gs)
  PROVE  SameOrder(o, gs, KeyRank(o, gs)) /\ MembersCome(o, gs)
  BY PermuteInOneOrder, GroupedInOneOrder
============================================================================
