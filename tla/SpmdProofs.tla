------------------------------ MODULE SpmdProofs ------------------------------
(***************************************************************************)
(* Whole runs of run_parallel: the barrier that every collective meets in, *)
(* and why the threads of a program that all processes run never wait for  *)
(* each other in a circle.                                                 *)
(***************************************************************************)
EXTENDS RunParallelProofs, BarrierRefinement, CollectiveOpsProofs

-----------------------------------------------------------------------------
(* Rendezvous in whole runs, however often a key is used.                   *)

LEMMA RunMonitor ==
  ASSUME RunInv, OperandsAreTensors, MonitorInv, EntryPerCaller, [NextRun]_runVars
  PROVE  MonitorInv' /\ EntryPerCaller'
<1>1. CASE Next
  BY <1>1, MonitorStep, EntryStep
<1>2. CASE UNCHANGED rendezvousVars /\ (fatal' = "none" => fatal = "none")
  <2>1. UNCHANGED <<values, result, useCount, at, asleep, contributed, returned>>
    BY <1>2 DEF rendezvousVars
  <2>2. MonitorInv'
    BY <1>2, <2>1, MonitorFrame DEF MonitorInv, StateTypeOK, NoLostWakeup
  <2>3. EntryPerCaller'
    BY <2>1 DEF EntryPerCaller, Calls
  <2> QED
    BY <2>2, <2>3
<1> QED
  BY <1>1, <1>2, RunIsRendezvous

-----------------------------------------------------------------------------
(* Where the tasks are.                                                     *)

LEMMA TasksCoverTheGrid == \A p \in Process : \E i \in 1..Len(Tasks) : Tasks[i] = p
<1> SUFFICES ASSUME NEW p \in Process PROVE \E i \in 1..Len(Tasks) : Tasks[i] = p
  OBVIOUS
<1> DEFINE N == NumReplicas * NumPartitions
<1>1. N \in Nat /\ Len(Tasks) = N
  BY TasksFacts, GridAssumption
<1>2. PICK n \in 0..N - 1 : p = <<n \div NumPartitions, n % NumPartitions>>
  BY DeviceIdsAreProcesses, RunParallelAssumption DEF DeviceIdSet
<1>3. n + 1 \in 1..N /\ (n + 1) - 1 = n
  BY <1>1
<1>4. Tasks[n + 1] = p
  BY <1>2, <1>3 DEF Tasks
<1> QED
  BY <1>1, <1>3, <1>4

LEMMA ProgramFacts ==
  ASSUME RunInv, NEW p \in Process
  PROVE  /\ Len(programs[p]) \in Nat /\ DOMAIN programs[p] = 1..Len(programs[p])
         /\ pc[p] \in Nat \ {0} /\ calls[p] \in Seq(Key)
         /\ \A i \in 1..Len(programs[p]) :
              Meets(programs[p][i]) => KeysFor(programs[p][i], p) \in Seq(Key)
  BY ProgramsAssumption DEF RunInv, TaskTypeOK

LEMMA PlacedFrame ==
  ASSUME RunInv, PlacedInv, UNCHANGED <<submitted, queue, running, programs>>,
         \A p \in Process : pc'[p] = pc[p] \/ pc'[p] = pc[p] + 1
  PROVE  PlacedInv'
<1>1. \A p \in Process : ~HasOp(p) => ~HasOp(p)'
  BY ProgramFacts DEF HasOp
<1>2. \A i \in 1..submitted : Tasks[i] \in Process /\ Tasks[i]' = Tasks[i]
  BY TasksFacts, TasksConstant DEF RunInv, TaskTypeOK
<1> QED
  BY <1>1, <1>2 DEF PlacedInv

LEMMA PlacedAsync == ASSUME RunInv, PlacedInv, Async PROVE PlacedInv'
<1>1. /\ submitted < Len(Tasks) /\ submitted' = submitted + 1
      /\ queue' = Append(queue, Tasks[submitted + 1])
      /\ UNCHANGED <<programs, pc, running>>
  BY DEF Async, taskVars
<1>2. submitted \in Nat /\ queue \in Seq(Process) /\ Len(Tasks) \in Nat
  BY TasksFacts DEF RunInv, TaskTypeOK
<1>3. Tasks[submitted + 1] \in Process
  BY <1>1, <1>2, TasksFacts
<1>4. /\ Len(queue') = Len(queue) + 1 /\ queue'[Len(queue) + 1] = Tasks[submitted + 1]
      /\ \A j \in 1..Len(queue) : queue'[j] = queue[j]
  BY <1>1, <1>2, <1>3
<1>5. ASSUME NEW i \in 1..submitted + 1
      PROVE  \/ Tasks[i] \in running \/ ~HasOp(Tasks[i])
             \/ \E j \in 1..Len(queue) + 1 : queue'[j] = Tasks[i]
  <2>1. CASE i = submitted + 1
    BY <1>2, <1>4, <2>1
  <2>2. CASE i # submitted + 1
    <3>1. i \in 1..submitted
      BY <1>2, <2>2
    <3> QED
      BY <1>2, <1>4, <3>1 DEF PlacedInv
  <2> QED
    BY <2>1, <2>2
<1>6. \A i \in 1..submitted + 1 : HasOp(Tasks[i])' = HasOp(Tasks[i])
  BY <1>1, TasksConstant DEF HasOp
<1> QED
  BY <1>1, <1>4, <1>5, <1>6, TasksConstant DEF PlacedInv

LEMMA PlacedStartTask == ASSUME RunInv, PlacedInv, StartTask PROVE PlacedInv'
<1>1. /\ queue # <<>> /\ running' = running \cup {Head(queue)} /\ queue' = Tail(queue)
      /\ UNCHANGED <<programs, pc, submitted>>
  BY DEF StartTask, taskVars
<1>2. queue \in Seq(Process) /\ Len(queue) \in Nat \ {0}
  BY <1>1 DEF RunInv, TaskTypeOK
<1>3. /\ Len(queue') = Len(queue) - 1 /\ Head(queue) = queue[1]
      /\ \A j \in 1..Len(queue) - 1 : queue'[j] = queue[j + 1]
  BY <1>1, <1>2
<1>4. ASSUME NEW i \in 1..submitted
      PROVE  \/ Tasks[i] \in running' \/ ~HasOp(Tasks[i])
             \/ \E j \in 1..Len(queue') : queue'[j] = Tasks[i]
  <2>1. CASE Tasks[i] \in running \/ ~HasOp(Tasks[i])
    BY <1>1, <2>1
  <2>2. ASSUME NEW j \in 1..Len(queue), queue[j] = Tasks[i]
        PROVE  Tasks[i] \in running' \/ \E l \in 1..Len(queue') : queue'[l] = Tasks[i]
    <3>1. CASE j = 1
      BY <1>1, <1>3, <2>2, <3>1
    <3>2. CASE j # 1
      <4>1. j - 1 \in 1..Len(queue) - 1 /\ (j - 1) + 1 = j
        BY <1>2, <3>2
      <4>2. queue'[j - 1] = queue[j]
        BY <1>3, <4>1
      <4> QED
        BY <1>3, <2>2, <4>1, <4>2
    <3> QED
      BY <3>1, <3>2
  <2> QED
    BY <2>1, <2>2 DEF PlacedInv
<1>5. \A i \in 1..submitted : HasOp(Tasks[i])' = HasOp(Tasks[i])
  BY <1>1, TasksConstant DEF HasOp
<1> QED
  BY <1>1, <1>4, <1>5, TasksConstant DEF PlacedInv

LEMMA PlacedFinishTask ==
  ASSUME RunInv, PlacedInv, NEW p \in Process, FinishTask(p) PROVE PlacedInv'
<1>1. /\ ~HasOp(p) /\ running' = running \ {p}
      /\ UNCHANGED <<programs, pc, submitted, queue>>
  BY DEF FinishTask, taskVars
<1>2. \A i \in 1..submitted : HasOp(Tasks[i])' = HasOp(Tasks[i])
  BY <1>1, TasksConstant DEF HasOp
<1> QED
  BY <1>1, <1>2, TasksConstant DEF PlacedInv

\* What a step does to the program of a process.
LEMMA OpStep ==
  ASSUME RunInv, [NextRun]_runVars
  PROVE  /\ programs' = programs
         /\ \A p \in Process : pc'[p] = pc[p] \/ pc'[p] = pc[p] + 1
<1> DEFINE Kept == UNCHANGED <<programs, pc>>
           On(p) == programs' = programs /\ pc' = [pc EXCEPT ![p] = @ + 1]
<1>1. ASSUME NEW m, Fail(m) PROVE Kept
  BY <1>1 DEF Fail, taskVars
<1>2. ASSUME UNCHANGED runVars PROVE Kept
  BY <1>2 DEF runVars, taskVars
<1>3. ASSUME Async \/ StartTask \/ ReturnResults \/ Stay PROVE Kept
  BY <1>2, <1>3 DEF Async, StartTask, ReturnResults, Stay, taskVars
<1>4. ASSUME NEW p \in Process, Evaluate(p) PROVE Kept \/ On(p)
  <2>1. CASE FinishTask(p) \/ InfeedOp(p) \/ OutfeedOp(p)
    BY <2>1 DEF FinishTask, InfeedOp, OutfeedOp, NextOp, taskVars
  <2>2. CASE InfeedEmpty(p) \/ NoReplicaGroups(p)
    BY <1>1, <2>2 DEF InfeedEmpty, NoReplicaGroups
  <2>3. CASE EvalCollective(p)
    <3>1. PICK gs : NoGroup(p, gs) \/ CallRendezvous(p, gs) \/ Compute(p, gs)
      BY <2>3 DEF EvalCollective
    <3>2. CASE NoGroup(p, gs)
      BY <1>1, <3>2 DEF NoGroup
    <3>3. CASE CallRendezvous(p, gs)
      BY <3>3 DEF CallRendezvous
    <3>4. CASE Compute(p, gs)
      BY <1>1, <3>4 DEF Compute, NextOp
    <3> QED
      BY <3>1, <3>2, <3>3, <3>4
  <2> QED
    BY <1>4, <2>1, <2>2, <2>3 DEF Evaluate
<1>5. ASSUME NEW p \in Process, WaitRendezvous(p) \/ TimeOutRendezvous(p) PROVE Kept
  BY <1>5 DEF WaitRendezvous, TimeOutRendezvous, taskVars
<1>6. pc \in [Process -> Nat \ {0}]
  BY DEF RunInv, TaskTypeOK
<1>7. ASSUME NEW p \in Process, On(p)
      PROVE  \A q \in Process : pc'[q] = pc[q] \/ pc'[q] = pc[q] + 1
  BY <1>6, <1>7
<1>8. Kept \/ \E p \in Process : On(p)
  <2> HIDE DEF Kept, On
  <2>1. CASE UNCHANGED runVars \/ Async \/ StartTask \/ ReturnResults \/ Stay
    BY <1>2, <1>3, <2>1
  <2>2. CASE \E p \in Process : Evaluate(p) \/ WaitRendezvous(p) \/ TimeOutRendezvous(p)
    BY <1>4, <1>5, <2>2
  <2> QED
    BY <2>1, <2>2 DEF NextRun
<1> QED
  BY <1>7, <1>8

LEMMA PlacedStep == ASSUME RunInv, PlacedInv, [NextRun]_runVars PROVE PlacedInv'
<1> DEFINE Kept == UNCHANGED <<submitted, queue, running>>
<1>1. CASE Async
  BY <1>1, PlacedAsync
<1>2. CASE StartTask
  BY <1>2, PlacedStartTask
<1>3. CASE \E p \in Process : FinishTask(p)
  BY <1>3, PlacedFinishTask
<1>4. CASE Kept
  BY <1>4, OpStep, PlacedFrame
<1>5. ASSUME NEW m, Fail(m) PROVE Kept
  BY <1>5 DEF Fail, poolVars
<1>6. CASE UNCHANGED runVars
  BY <1>4, <1>6 DEF runVars, poolVars
<1>7. CASE ReturnResults \/ Stay
  BY <1>4, <1>6, <1>7 DEF ReturnResults, Stay
<1>8. ASSUME NEW p \in Process, Evaluate(p) PROVE FinishTask(p) \/ Kept
  <2>1. CASE InfeedOp(p) \/ OutfeedOp(p)
    BY <2>1 DEF InfeedOp, OutfeedOp, poolVars
  <2>2. CASE InfeedEmpty(p) \/ NoReplicaGroups(p)
    BY <1>5, <2>2 DEF InfeedEmpty, NoReplicaGroups
  <2>3. CASE EvalCollective(p)
    <3>1. PICK gs : NoGroup(p, gs) \/ CallRendezvous(p, gs) \/ Compute(p, gs)
      BY <2>3 DEF EvalCollective
    <3>2. CASE NoGroup(p, gs)
      BY <1>5, <3>2 DEF NoGroup
    <3>3. CASE CallRendezvous(p, gs)
      BY <3>3 DEF CallRendezvous, poolVars
    <3>4. CASE Compute(p, gs)
      BY <1>5, <3>4 DEF Compute, poolVars
    <3> QED
      BY <3>1, <3>2, <3>3, <3>4
  <2> QED
    BY <1>8, <2>1, <2>2, <2>3 DEF Evaluate
<1>9. ASSUME NEW p \in Process, WaitRendezvous(p) \/ TimeOutRendezvous(p) PROVE Kept
  BY <1>9 DEF WaitRendezvous, TimeOutRendezvous, poolVars
<1> HIDE DEF Kept
<1> QED
  BY <1>1, <1>2, <1>3, <1>4, <1>6, <1>7, <1>8, <1>9 DEF NextRun

-----------------------------------------------------------------------------
(* How far the processes are.                                               *)

\* A process whose place in its program stays the same.
LEMMA VisitFrame ==
  ASSUME NEW q \in Process, Visits(q), programs' = programs,
         pc'[q] = pc[q], calls'[q] = calls[q], at'[q] = at[q] \/ at'[q] = NoKey,
         contributed'[q] = contributed[q]
  PROVE  Visits(q)'
<1>1. \A k : Calls(q, k)' = Calls(q, k)
  BY DEF Calls
<1>2. \A i : VisitedAll(q, programs[q][i]) => VisitedAll(q, programs[q][i])'
  BY <1>1 DEF VisitedAll, KeysFor
<1> QED
  BY <1>1, <1>2 DEF Visits, VisitedSome, HasOp, Op, VisitedAll

\* A process that goes on to its next op has called every key of the last one.
LEMMA VisitNextOp ==
  ASSUME RunInv, VisitInv, NEW p \in Process, NEW v, HasOp(p), at[p] = NoKey,
         Meets(Op(p)) => VisitedAll(p, Op(p)),
         NextOp(p, v), UNCHANGED <<vars, programs>>
  PROVE  VisitInv'
<1>1. /\ pc' = [pc EXCEPT ![p] = @ + 1] /\ calls' = [calls EXCEPT ![p] = <<>>]
      /\ UNCHANGED <<at, contributed, programs>>
      /\ pc \in [Process -> Nat \ {0}] /\ calls \in [Process -> Seq(Key)]
  BY DEF NextOp, vars, RunInv, TaskTypeOK
<1>2. ASSUME NEW q \in Process, q # p PROVE Visits(q)'
  BY <1>1, <1>2, VisitFrame DEF VisitInv
<1>3. Visits(p)'
  <2>1. /\ Len(programs[p]) \in Nat /\ pc[p] \in Nat \ {0}
        /\ pc'[p] = pc[p] + 1 /\ calls'[p] = <<>> /\ at'[p] = NoKey
    BY <1>1, ProgramFacts
  <2>2. pc'[p] <= Len(programs'[p]) + 1
    BY <1>1, <2>1 DEF HasOp
  <2>3. ASSUME NEW i \in 1..pc'[p] - 1, Meets(programs[p][i])
        PROVE  VisitedAll(p, programs[p][i])'
    <3>1. VisitedAll(p, programs[p][i])
      <4>1. CASE i = pc[p]
        BY <2>3, <4>1 DEF Op
      <4>2. CASE i # pc[p]
        <5>1. i \in 1..pc[p] - 1
          BY <2>1, <4>2
        <5> QED
          BY <2>3, <5>1 DEF VisitInv, Visits
      <4> QED
        BY <4>1, <4>2
    <3> QED
      BY <1>1, <3>1 DEF VisitedAll, Calls
  <2>4. (HasOp(p) /\ Meets(Op(p)))' => VisitedSome(p, Op(p))'
    <3> SUFFICES ASSUME HasOp(p)', Meets(Op(p))' PROVE VisitedSome(p, Op(p))'
      OBVIOUS
    <3> DEFINE o == programs[p][pc[p] + 1]
    <3>1. Op(p)' = o /\ pc[p] + 1 \in 1..Len(programs[p])
      BY <1>1, <2>1 DEF Op, HasOp
    <3>2. Meets(o)
      BY <3>1
    <3>3. KeysFor(o, p) \in Seq(Key)
      BY <3>1, <3>2, ProgramFacts
    <3> QED
      BY <2>1, <3>1, <3>3 DEF VisitedSome
  <2> QED
    BY <1>1, <2>1, <2>2, <2>3, <2>4 DEF Visits
<1> QED
  BY <1>2, <1>3 DEF VisitInv

\* What a call of rendezvous does to the caller and to others.
LEMMA CallEffect ==
  ASSUME MonitorInv, NEW p \in Process, NEW k \in Key, NEW v \in Operands, Call(p, k, v)
  PROVE  /\ at[p] = NoKey
         /\ at'[p] = NoKey \/ at'[p] = k
         /\ \A q \in Process : q # p => at'[q] = at[q] /\ contributed'[q] = contributed[q]
         /\ Calls(p, k)' # 0
         /\ \A j \in Key : Calls(p, j) # 0 => Calls(p, j)' # 0
<1>1. at \in [Process -> Key \cup {NoKey}] /\ contributed \in [Process -> [Key -> Seq(Operands)]]
  BY DEF MonitorInv, StateTypeOK
<1>2. Enter(p, k, v) /\ at[p] = NoKey /\ contributed' = [contributed EXCEPT ![p][k] = Append(@, v)]
  BY DEF Call, RendezvousAlone, Contribute, Complete, Enter
<1>3. at' = at \/ at' = [at EXCEPT ![p] = NoKey] \/ at' = [at EXCEPT ![p] = k]
  BY DEF Call, RendezvousAlone, Contribute, Complete, Leave
<1>4. Calls(p, k)' # 0
  <2>1. Len(contributed'[p][k]) = Len(contributed[p][k]) + 1
    BY <1>1, <1>2, AppendEntry
  <2>2. Len(contributed[p][k]) \in Nat
    BY <1>1
  <2> QED
    BY <2>1, <2>2 DEF Calls
<1>5. \A j \in Key : j # k => contributed'[p][j] = contributed[p][j]
  BY <1>1, <1>2
<1>6. \A q \in Process : q # p => contributed'[q] = contributed[q]
  BY <1>1, <1>2
<1>7. at'[p] \in {NoKey, k} /\ \A q \in Process : q # p => at'[q] = at[q]
  BY <1>1, <1>2, <1>3
<1> QED
  BY <1>2, <1>4, <1>5, <1>6, <1>7 DEF Calls

\* The next key of an op.
LEMMA VisitCall ==
  ASSUME RunInv, MonitorInv, OperandsAreTensors, VisitInv, NEW p \in Process,
         Collective(p), ~CannotFlatten(Op(p)), CallRendezvous(p, GroupsOf(Op(p)))
  PROVE  VisitInv'
<1>0. PICK n, ck, k, v : /\ n = Len(calls[p]) /\ ck = KeysFor(Op(p), p)
                         /\ k = ck[n + 1] /\ v = Operand(p)
  OBVIOUS
<1>1. /\ n < Len(ck) /\ Call(p, k, v)
      /\ calls' = [calls EXCEPT ![p] = Append(@, k)] /\ UNCHANGED <<programs, pc>>
  BY <1>0 DEF CallRendezvous, KeysFor
<1>2. HasOp(p) /\ Meets(Op(p)) /\ v \in Operands
  BY <1>0 DEF Collective, Meets, OperandsAreTensors
<1>3. /\ calls \in [Process -> Seq(Key)] /\ pc[p] \in Nat \ {0}
      /\ Len(programs[p]) \in Nat /\ pc[p] \in 1..Len(programs[p])
  BY <1>2, ProgramFacts DEF RunInv, TaskTypeOK, HasOp
<1>4. ck \in Seq(Key)
  BY <1>0, <1>2, <1>3, ProgramFacts DEF Op
<1>5. n \in Nat /\ n + 1 \in 1..Len(ck) /\ k \in Key
  BY <1>0, <1>1, <1>3, <1>4
<1>6. /\ at[p] = NoKey
      /\ at'[p] = NoKey \/ at'[p] = k
      /\ \A q \in Process : q # p => at'[q] = at[q] /\ contributed'[q] = contributed[q]
      /\ Len(contributed'[p][k]) # 0
      /\ \A j \in Key : Calls(p, j) # 0 => Len(contributed'[p][j]) # 0
  BY <1>1, <1>2, <1>5, CallEffect DEF Calls
<1>7. ASSUME NEW q \in Process, q # p PROVE Visits(q)'
  <2>1. pc'[q] = pc[q] /\ calls'[q] = calls[q]
    BY <1>1, <1>3, <1>7
  <2> QED
    BY <1>1, <1>6, <1>7, <2>1, VisitFrame DEF VisitInv
<1>8. Visits(p)'
  <2>1. /\ Visits(p) /\ VisitedSome(p, Op(p))
        /\ n <= Len(ck) /\ \A i \in 1..n : calls[p][i] = ck[i] /\ Calls(p, calls[p][i]) # 0
    BY <1>0, <1>2 DEF VisitInv, Visits, VisitedSome
  <2>2. Op(p)' = Op(p) /\ HasOp(p)' = HasOp(p)
    BY <1>1 DEF Op, HasOp
  <2>3. ASSUME NEW i \in 1..pc[p] - 1, Meets(programs[p][i])
        PROVE  VisitedAll(p, programs[p][i])'
    <3>0. PICK o : o = programs[p][i]
      OBVIOUS
    <3>1. KeysFor(o, p) \in Seq(Key)
      <4>1. i \in 1..Len(programs[p])
        BY <1>3
      <4> QED
        BY <2>3, <3>0, <4>1, ProgramFacts
    <3>2. VisitedAll(p, o)
      BY <2>1, <2>3, <3>0 DEF Visits
    <3>3. \A j \in DOMAIN KeysFor(o, p) : KeysFor(o, p)[j] \in Key
      BY <3>1
    <3>4. \A j \in DOMAIN KeysFor(o, p) : Len(contributed'[p][KeysFor(o, p)[j]]) # 0
      BY <1>6, <3>2, <3>3 DEF VisitedAll
    <3>5. programs'[p][i] = o
      BY <1>1, <3>0
    <3> QED
      BY <3>4, <3>5 DEF VisitedAll, Calls
  <2>4. /\ calls'[p] = Append(calls[p], k) /\ Len(calls'[p]) = n + 1
        /\ calls'[p][n + 1] = k /\ \A i \in 1..n : calls'[p][i] = calls[p][i]
    BY <1>0, <1>1, <1>3, <1>5
  <2>5. ASSUME NEW i \in 1..n + 1
        PROVE  calls'[p][i] = ck[i] /\ Len(contributed'[p][ck[i]]) # 0
    <3>1. CASE i = n + 1
      BY <1>0, <1>6, <2>4, <3>1
    <3>2. CASE i # n + 1
      <4>1. i \in 1..n
        BY <1>5, <3>2
      <4>2. calls[p][i] \in Key
        BY <1>0, <1>3, <4>1
      <4>3. calls'[p][i] = calls[p][i] /\ calls[p][i] = ck[i] /\ Calls(p, calls[p][i]) # 0
        BY <2>1, <2>4, <4>1
      <4> QED
        BY <1>6, <4>2, <4>3
    <3> QED
      BY <3>1, <3>2
  <2>6. VisitedSome(p, Op(p))'
    <3>1. KeysFor(Op(p), p)' = ck
      BY <1>0, <2>2
    <3>2. Len(calls'[p]) <= Len(ck)
      BY <1>1, <1>4, <1>5, <2>4
    <3>3. \A i \in 1..Len(calls'[p]) :
            calls'[p][i] = ck[i] /\ Len(contributed'[p][calls'[p][i]]) # 0
      BY <2>4, <2>5
    <3> QED
      BY <3>1, <3>2, <3>3 DEF VisitedSome, Calls
  <2>7. at'[p] # NoKey => at'[p] = calls'[p][Len(calls'[p])] /\ calls'[p] # <<>>
    BY <1>5, <1>6, <2>4
  <2>8. pc'[p] <= Len(programs'[p]) + 1
    BY <1>1, <2>1 DEF Visits
  <2> QED
    BY <1>1, <1>2, <2>2, <2>3, <2>6, <2>7, <2>8 DEF Visits
<1> QED
  BY <1>7, <1>8 DEF VisitInv

LEMMA VisitCompute ==
  ASSUME RunInv, VisitInv, NEW p \in Process, Collective(p), ~CannotFlatten(Op(p)),
         NEW v, NextOp(p, v), UNCHANGED <<vars, programs>>,
         Len(calls[p]) = Len(KeysFor(Op(p), p))
  PROVE  VisitInv'
<1>1. HasOp(p) /\ at[p] = NoKey /\ Meets(Op(p)) /\ pc[p] \in 1..Len(programs[p])
  BY ProgramFacts DEF Collective, Running, Meets, HasOp
<1>2. KeysFor(Op(p), p) \in Seq(Key)
  BY <1>1, ProgramFacts DEF Op
<1>3. VisitedSome(p, Op(p))
  BY <1>1 DEF VisitInv, Visits
<1>4. VisitedAll(p, Op(p))
  BY <1>2, <1>3 DEF VisitedSome, VisitedAll
<1> QED
  BY <1>1, <1>4, VisitNextOp

LEMMA VisitInit == InitRun => VisitInv /\ PlacedInv
<1> SUFFICES ASSUME InitRun PROVE VisitInv /\ PlacedInv
  OBVIOUS
<1>1. PlacedInv
  BY DEF InitRun, PlacedInv
<1>2. ASSUME NEW p \in Process PROVE Visits(p)
  <2>1. pc[p] = 1 /\ calls[p] = <<>> /\ at[p] = NoKey /\ programs \in Programs
    BY DEF InitRun, Init
  <2>2. Len(programs[p]) \in Nat
    BY <2>1, ProgramsAssumption
  <2>3. HasOp(p) /\ Meets(Op(p)) => KeysFor(Op(p), p) \in Seq(Key)
    BY <2>1, <2>2, ProgramsAssumption DEF HasOp, Op
  <2>4. HasOp(p) /\ Meets(Op(p)) => VisitedSome(p, Op(p))
    BY <2>1, <2>3 DEF VisitedSome
  <2> QED
    BY <2>1, <2>2, <2>4 DEF Visits
<1> QED
  BY <1>1, <1>2 DEF VisitInv

\* A process that waits stays with its key or leaves it.
LEMMA VisitWaiting ==
  ASSUME MonitorInv, VisitInv, NEW p \in Process,
         WaitRendezvous(p) \/ TimeOutRendezvous(p)
  PROVE  VisitInv'
<1>1. /\ Resume(p) \/ SpuriousWakeup(p) \/ BlockAgain(p) \/ TimeOut(p)
      /\ UNCHANGED <<programs, pc, calls>>
  BY DEF WaitRendezvous, TimeOutRendezvous, taskVars
<1>2. contributed' = contributed
  BY <1>1 DEF Resume, SpuriousWakeup, BlockAgain, TimeOut
<1>3. at \in [Process -> Key \cup {NoKey}]
  BY DEF MonitorInv, StateTypeOK
<1>4. \A q \in Process : at'[q] = at[q] \/ at'[q] = NoKey
  <2>1. CASE Resume(p)
    <3>1. PICK k \in Key : at[p] = k /\ Leave(p, k, useCount[k] - 1, result[k])
      BY <2>1 DEF Resume
    <3>2. at' = [at EXCEPT ![p] = NoKey] \/ at' = [at EXCEPT ![p] = k]
      BY <3>1 DEF Leave
    <3> QED
      BY <1>3, <3>1, <3>2
  <2>2. CASE SpuriousWakeup(p) \/ BlockAgain(p) \/ TimeOut(p)
    BY <2>2 DEF SpuriousWakeup, BlockAgain, TimeOut
  <2> QED
    BY <1>1, <2>1, <2>2
<1> QED
  BY <1>1, <1>2, <1>4, VisitFrame DEF VisitInv

LEMMA VisitStep ==
  ASSUME RunInv, OperandsAreTensors, MonitorInv, VisitInv, [NextRun]_runVars
  PROVE  VisitInv'
<1> DEFINE Kept == UNCHANGED <<programs, pc, calls, at, contributed>>
<1>1. CASE Kept
  BY <1>1, VisitFrame DEF VisitInv
<1>2. ASSUME NEW m, Fail(m) PROVE Kept
  BY <1>2 DEF Fail, rendezvousVars, taskVars
<1>3. CASE UNCHANGED runVars
  BY <1>1, <1>3 DEF runVars, vars, taskVars
<1>4. CASE Async \/ StartTask \/ ReturnResults \/ Stay
  BY <1>1, <1>3, <1>4 DEF Async, StartTask, ReturnResults, Stay, vars, taskVars
<1>5. ASSUME NEW p \in Process, Evaluate(p) PROVE VisitInv'
  <2>1. CASE FinishTask(p)
    BY <1>1, <2>1 DEF FinishTask, vars, taskVars
  <2>2. CASE InfeedEmpty(p) \/ NoReplicaGroups(p)
    BY <1>1, <1>2, <2>2 DEF InfeedEmpty, NoReplicaGroups
  <2>3. CASE InfeedOp(p) \/ OutfeedOp(p)
    <3>1. PICK v : NextOp(p, v)
      BY <2>3 DEF InfeedOp, OutfeedOp
    <3>2. Running(p) /\ HasOp(p) /\ Op(p).op \in {"infeed", "outfeed"} /\ UNCHANGED <<vars, programs>>
      BY <2>3 DEF InfeedOp, OutfeedOp
    <3>3. ~Meets(Op(p))
      BY <3>2 DEF Meets, IsCollective, DeviceOps, PairwiseOps
    <3> QED
      BY <3>1, <3>2, <3>3, VisitNextOp DEF Running
  <2>4. CASE EvalCollective(p)
    <3>0. PICK gs : gs = GroupsOf(Op(p))
      OBVIOUS
    <3>1. /\ Collective(p) /\ ~CannotFlatten(Op(p))
          /\ NoGroup(p, gs) \/ CallRendezvous(p, gs) \/ Compute(p, gs)
      BY <2>4, <3>0 DEF EvalCollective
    <3>2. CASE NoGroup(p, gs)
      BY <1>1, <1>2, <3>2 DEF NoGroup
    <3>3. CASE CallRendezvous(p, gs)
      BY <3>0, <3>1, <3>3, VisitCall
    <3>4. CASE Compute(p, gs)
      <4>1. CASE CannotCompute(Op(p), FindGroup(gs, p), gs, Operand(p))
        BY <1>1, <1>2, <3>4, <4>1 DEF Compute
      <4>2. CASE ~CannotCompute(Op(p), FindGroup(gs, p), gs, Operand(p))
        <5>1. PICK v : NextOp(p, v) /\ UNCHANGED <<vars, programs>>
          BY <3>4, <4>2 DEF Compute
        <5>2. Len(calls[p]) = Len(KeysFor(Op(p), p))
          BY <3>0, <3>4 DEF Compute, KeysFor
        <5> QED
          BY <3>1, <5>1, <5>2, VisitCompute
      <4> QED
        BY <4>1, <4>2
    <3> QED
      BY <3>1, <3>2, <3>3, <3>4
  <2> QED
    BY <1>5, <2>1, <2>2, <2>3, <2>4 DEF Evaluate
<1>6. ASSUME NEW p \in Process, WaitRendezvous(p) \/ TimeOutRendezvous(p) PROVE VisitInv'
  BY <1>6, VisitWaiting
<1> QED
  BY <1>3, <1>4, <1>5, <1>6 DEF NextRun

-----------------------------------------------------------------------------
(* Nobody waits in a circle.                                                *)

\* With a worker for each process, when no thread can go on every process is
\* running or has finished its program.
LEMMA NobodyQueued ==
  ASSUME RunInv, PlacedInv, Cardinality(Process) <= Workers, Stuck
  PROVE  \A q \in Process : q \in running \/ ~HasOp(q)
<1>1. submitted = Len(Tasks) /\ (queue = <<>> \/ Cardinality(running) = Workers)
  BY DEF Stuck
<1>2. CASE queue = <<>>
  <2> SUFFICES ASSUME NEW q \in Process PROVE q \in running \/ ~HasOp(q)
    OBVIOUS
  <2>1. PICK i \in 1..Len(Tasks) : Tasks[i] = q
    BY TasksCoverTheGrid
  <2>2. Len(queue) = 0
    BY <1>2
  <2> QED
    BY <1>1, <2>1, <2>2 DEF PlacedInv
<1>3. CASE Cardinality(running) = Workers
  <2>1. running \in SUBSET Process /\ IsFiniteSet(Process) /\ Workers \in Nat
    BY RendezvousAssumption, RunParallelAssumption DEF RunInv, TaskTypeOK
  <2>2. Cardinality(Process) \in Nat /\ Cardinality(running) <= Cardinality(Process)
    BY <2>1, FS_CardinalityType, FS_Subset
  <2>3. running = Process
    BY <1>3, <2>1, <2>2, FS_Subset
  <2> QED
    BY <2>3
<1> QED
  BY <1>1, <1>2, <1>3

\* A barrier that is not complete misses the call of a member.
LEMMA SomebodyMissing ==
  ASSUME MonitorInv, EntryPerCaller, NEW p \in Process, NEW k \in Key, at[p] = k,
         ~Full(values[k], k)
  PROVE  \E q \in Group[k] : Calls(q, k) = 0
<1>1. /\ values[k] \in Map /\ Keys(values[k]) \subseteq Group[k]
      /\ Group[k] \subseteq Process
  BY RendezvousAssumption DEF MonitorInv, StateTypeOK
<1>2. Keys(values[k]) # Group[k]
  BY <1>1, FullMap
<1>3. Cardinality(Group[k]) # 1
  BY DEF MonitorInv, Inside
<1>4. PICK q \in Group[k] : q \notin Keys(values[k])
  BY <1>1, <1>2
<1> QED
  BY <1>1, <1>3, <1>4 DEF EntryPerCaller

\* The waiting process that is least far, by the op it is at and then by the
\* order of the keys of that op, waits for a member that is further: one that has
\* called its key already.
LEMMA NotStuck ==
  ASSUME RunInv, MonitorInv, EntryPerCaller, PlacedInv, VisitInv
  PROVE  NeverStuck
<1> SUFFICES ASSUME SPMD, ProgramsVerified, Cardinality(Process) <= Workers, Stuck
             PROVE  FALSE
  BY DEF NeverStuck
<1>1. /\ running # {} /\ running \in SUBSET Process
      /\ \A p \in running : at[p] # NoKey /\ ~Full(values[at[p]], at[p])
  BY DEF Stuck, RunInv, TaskTypeOK
<1>2. \A q \in Process : q \in running \/ ~HasOp(q)
  BY NobodyQueued
\* m is the least op that a process is at.
<1>3. PICK m \in Nat : (\E p \in running : pc[p] = m) /\ \A q \in running : m <= pc[q]
  <2> DEFINE T == {pc[q] : q \in running}
  <2>1. T \in SUBSET Nat /\ T # {}
    BY <1>1, ProgramFacts
  <2>2. PICK x \in T : \A y \in T : x <= y
    <3> HIDE DEF T
    <3> QED
      BY <2>1, LeastNumber
  <2> QED
    BY <2>1, <2>2
<1>4. PICK p0 \in running : pc[p0] = m
  BY <1>3
<1>5. PICK o : o = programs[p0][m]
  OBVIOUS
<1>6. m \in 1..Len(programs[p0]) /\ Meets(o)
  <2>1. HasOp(p0) /\ Meets(Op(p0))
    BY <1>1 DEF VisitInv, Visits
  <2> QED
    BY <1>1, <1>4, <1>5, <2>1, ProgramFacts DEF HasOp, Op
<1>7. \A q \in Process : /\ programs[q][m] = o /\ m \in 1..Len(programs[q])
                         /\ KeysFor(o, q) \in Seq(Key)
  BY <1>1, <1>5, <1>6, ProgramFacts DEF SPMD
<1> DEFINE gs == GroupsOf(o)
           rank == KeyRank(o, gs)
<1>8. SameOrder(o, gs, rank) /\ MembersCome(o, gs)
  <2>1. m \in DOMAIN programs[p0]
    BY <1>1, <1>6, ProgramFacts
  <2>2. GroupsVerified(o, gs)
    BY <1>1, <1>5, <1>6, <2>1 DEF ProgramsVerified
  <2> QED
    BY <2>2, KeysInOneOrder
<1>9. \A q \in Process : /\ \A i \in DOMAIN KeysFor(o, q) : rank[KeysFor(o, q)[i]] \in Nat
                         /\ \A i, j \in DOMAIN KeysFor(o, q) :
                              i < j => rank[KeysFor(o, q)[i]] < rank[KeysFor(o, q)[j]]
  BY <1>8, RunParallelAssumption DEF SameOrder, KeysFor
<1>10. ASSUME NEW p \in Process, NEW i \in DOMAIN KeysFor(o, p), NEW q \in Process,
              q \in ToSet(KeysFor(o, p)[i][1])
       PROVE  \E j \in DOMAIN KeysFor(o, q) : KeysFor(o, q)[j] = KeysFor(o, p)[i]
  BY <1>8, <1>10, RunParallelAssumption DEF MembersCome, KeysFor
<1> HIDE DEF gs, rank
\* Those at m wait with the last key that they have called.
<1> DEFINE Here == {q \in running : pc[q] = m}
<1>11. ASSUME NEW q \in Here
       PROVE  /\ q \in Process /\ Len(calls[q]) \in DOMAIN KeysFor(o, q)
              /\ at[q] = KeysFor(o, q)[Len(calls[q])] /\ at[q] \in Key
              /\ \A i \in 1..Len(calls[q]) : Calls(q, KeysFor(o, q)[i]) # 0
  <2>1. q \in Process /\ Op(q) = o /\ Visits(q) /\ at[q] # NoKey
    BY <1>1, <1>7 DEF VisitInv, Op
  <2>2. VisitedSome(q, o) /\ calls[q] # <<>> /\ at[q] = calls[q][Len(calls[q])]
    BY <2>1 DEF Visits
  <2>3. Len(calls[q]) \in Nat \ {0} /\ KeysFor(o, q) \in Seq(Key)
    BY <1>7, <2>1, <2>2, ProgramFacts
  <2>4. /\ Len(calls[q]) <= Len(KeysFor(o, q)) /\ Len(KeysFor(o, q)) \in Nat
        /\ \A i \in 1..Len(calls[q]) : /\ calls[q][i] = KeysFor(o, q)[i]
                                       /\ Calls(q, calls[q][i]) # 0
    BY <2>2, <2>3 DEF VisitedSome
  <2>5. Len(calls[q]) \in 1..Len(calls[q]) /\ Len(calls[q]) \in DOMAIN KeysFor(o, q)
    BY <2>3, <2>4
  <2> QED
    BY <2>1, <2>2, <2>3, <2>4, <2>5
\* p waits with the least key of all.
<1>12. PICK p \in Here : \A q \in Here : rank[at[p]] <= rank[at[q]]
  <2> DEFINE T == {rank[at[q]] : q \in Here}
  <2>1. T \in SUBSET Nat /\ T # {}
    BY <1>4, <1>9, <1>11
  <2>2. PICK x \in T : \A y \in T : x <= y
    <3> HIDE DEF T
    <3> QED
      BY <2>1, LeastNumber
  <2> QED
    BY <2>2
<1>13. PICK k \in Key : k = at[p]
  BY <1>11
<1>14. PICK q \in Group[k] : Calls(q, k) = 0
  BY <1>1, <1>11, <1>13, SomebodyMissing
<1>15. q \in Process /\ q \in ToSet(k[1])
  BY KeyAssumption, RendezvousAssumption
<1>16. PICK j \in DOMAIN KeysFor(o, q) : KeysFor(o, q)[j] = k
  BY <1>10, <1>11, <1>13, <1>15
\* That member is beyond the op, or has called the key on its way.
<1>17. CASE q \in Here
  <2>1. rank[k] <= rank[KeysFor(o, q)[Len(calls[q])]]
    BY <1>11, <1>12, <1>13, <1>17
  <2>2. Len(calls[q]) \in DOMAIN KeysFor(o, q) /\ KeysFor(o, q) \in Seq(Key)
    BY <1>7, <1>11, <1>15, <1>17
  <2>3. ~(Len(calls[q]) < j)
    BY <1>9, <1>15, <1>16, <2>1, <2>2
  <2>4. j \in 1..Len(calls[q])
    BY <2>2, <2>3
  <2> QED
    BY <1>11, <1>14, <1>16, <1>17, <2>4
<1>18. CASE q \notin Here
  <2>1. m \in 1..pc[q] - 1
    <3>1. pc[q] \in Nat /\ m \in 1..Len(programs[q])
      BY <1>7, <1>15, ProgramFacts
    <3>2. CASE q \in running
      BY <1>3, <1>18, <3>1, <3>2
    <3>3. CASE ~HasOp(q)
      BY <1>15, <3>1, <3>3, ProgramFacts DEF HasOp
    <3> QED
      BY <1>2, <1>15, <3>2, <3>3
  <2>2. VisitedAll(q, o)
    BY <1>6, <1>7, <1>15, <2>1 DEF VisitInv, Visits
  <2> QED
    BY <1>14, <1>16, <2>2 DEF VisitedAll
<1> QED
  BY <1>17, <1>18

\* What holds in whole runs.
WholeRunInv == RunInv /\ MonitorInv /\ EntryPerCaller /\ PlacedInv /\ VisitInv

LEMMA WholeRunInit == InitRun => WholeRunInv
  BY RunInit, MonitorInit, EntryInit, VisitInit DEF InitRun, WholeRunInv

LEMMA WholeRunStep ==
  WholeRunInv /\ OperandsAreTensors /\ [NextRun]_runVars => WholeRunInv'
  BY RunStep, RunMonitor, PlacedStep, VisitStep DEF WholeRunInv

LEMMA WholeRunCorrect == SpecRunParallel /\ []OperandsAreTensors => []WholeRunInv
<1> HIDE DEF WholeRunInv
<1> QED
  BY WholeRunInit, WholeRunStep, PTL DEF SpecRunParallel

\* For any grid, any SPMD program whose process groups the verifiers accept, and
\* at least as many workers as processes: no interleaving gets to where every
\* thread waits in rendezvous, collective_permute with cycles of pairs included.
THEOREM SpmdNeverStuck == SpecRunParallel /\ []OperandsAreTensors => []NeverStuck
<1>1. WholeRunInv => NeverStuck
  BY NotStuck DEF WholeRunInv
<1> QED
  BY <1>1, WholeRunCorrect, PTL

-----------------------------------------------------------------------------
(* Failures.                                                                *)

\* Only a wait that times out reports a timeout.
LEMMA TimeOutStep ==
  ASSUME [NextRun]_runVars, fatal' = "rendezvous timed out", fatal' # fatal
  PROVE  \E p \in Process : TimeOutRendezvous(p)
<1>1. ASSUME NEW m, Fail(m) PROVE fatal' = m
  BY <1>1 DEF Fail
<1>2. ASSUME UNCHANGED vars PROVE FALSE
  BY <1>2 DEF vars
<1>3. ASSUME NEW p, NEW k, NEW n, NEW r, Leave(p, k, n, r) PROVE FALSE
  BY <1>3 DEF Leave
<1>4. ~(UNCHANGED runVars \/ Async \/ StartTask \/ ReturnResults \/ Stay)
  BY <1>2 DEF runVars, Async, StartTask, ReturnResults, Stay
<1>5. ASSUME NEW p \in Process, Evaluate(p) PROVE FALSE
  <2>1. CASE FinishTask(p) \/ InfeedOp(p) \/ OutfeedOp(p)
    BY <1>2, <2>1 DEF FinishTask, InfeedOp, OutfeedOp
  <2>2. CASE InfeedEmpty(p) \/ NoReplicaGroups(p)
    BY <1>1, <2>2 DEF InfeedEmpty, NoReplicaGroups
  <2>3. CASE EvalCollective(p)
    <3>1. PICK gs : NoGroup(p, gs) \/ CallRendezvous(p, gs) \/ Compute(p, gs)
      BY <2>3 DEF EvalCollective
    <3>2. CASE NoGroup(p, gs)
      BY <1>1, <3>2 DEF NoGroup
    <3>3. CASE CallRendezvous(p, gs)
      <4>1. PICK k, v : Call(p, k, v)
        BY <3>3 DEF CallRendezvous
      <4> QED
        BY <1>3, <4>1 DEF Call, RendezvousAlone, Contribute, Complete
    <3>4. CASE Compute(p, gs)
      BY <1>1, <1>2, <3>4 DEF Compute
    <3> QED
      BY <3>1, <3>2, <3>3, <3>4
  <2> QED
    BY <1>5, <2>1, <2>2, <2>3 DEF Evaluate
<1>6. ASSUME NEW p \in Process, WaitRendezvous(p) PROVE FALSE
  BY <1>3, <1>6 DEF WaitRendezvous, Resume, SpuriousWakeup, BlockAgain
<1> QED
  BY <1>4, <1>5, <1>6 DEF NextRun

\* A step of ops that succeed fails only if a wait times out.
LEMMA SucceedStep ==
  ASSUME RunInv, OperandsAreTensors, MonitorInv, OpsSucceed, OpsSucceed',
         [NextRun]_runVars, fatal = "none", \A p \in Process : ~TimeOutRendezvous(p)
  PROVE  fatal' = "none"
<1>1. ASSUME UNCHANGED vars PROVE fatal' = "none"
  BY <1>1 DEF vars
<1>2. ASSUME UNCHANGED runVars \/ Async \/ StartTask \/ ReturnResults \/ Stay
      PROVE  fatal' = "none"
  BY <1>1, <1>2 DEF runVars, Async, StartTask, ReturnResults, Stay
<1>3. ASSUME NEW p, NEW k, NEW n, NEW r, Leave(p, k, n, r), HasMatchingOperandsCount(r)
      PROVE  fatal' = "none"
  BY <1>3 DEF Leave
<1>4. ASSUME NEW p \in Process, Evaluate(p) PROVE fatal' = "none"
  <2>1. CASE FinishTask(p) \/ InfeedOp(p) \/ OutfeedOp(p)
    BY <1>1, <2>1 DEF FinishTask, InfeedOp, OutfeedOp
  <2>2. ~InfeedEmpty(p) /\ ~NoReplicaGroups(p)
    BY DEF InfeedEmpty, NoReplicaGroups, Collective, OpsSucceed
  <2>3. CASE EvalCollective(p)
    <3>0. PICK gs : gs = GroupsOf(Op(p))
      OBVIOUS
    <3>1. /\ Collective(p) /\ ~CannotFlatten(Op(p))
          /\ NoGroup(p, gs) \/ CallRendezvous(p, gs) \/ Compute(p, gs)
      BY <2>3, <3>0 DEF EvalCollective
    <3>2. /\ ~NotInAnyGroup(Op(p), p, gs)
          /\ ~CannotCompute(Op(p), FindGroup(gs, p), gs, Operand(p))
      BY <3>0, <3>1 DEF Collective, OpsSucceed
    <3>3. CASE CallRendezvous(p, gs)
      <4>1. PICK k \in Key, v \in Operands : Call(p, k, v)
        <5>1. /\ pc[p] \in 1..Len(programs[p]) /\ Meets(Op(p)) /\ calls[p] \in Seq(Key)
          BY <3>1, ProgramFacts DEF Collective, Meets, HasOp
        <5>2. KeysFor(Op(p), p) \in Seq(Key)
          BY <5>1, ProgramFacts DEF Op
        <5>3. /\ Len(calls[p]) < Len(KeysFor(Op(p), p))
              /\ Call(p, KeysFor(Op(p), p)[Len(calls[p]) + 1], Operand(p))
          BY <3>0, <3>3 DEF CallRendezvous, KeysFor
        <5>4. KeysFor(Op(p), p)[Len(calls[p]) + 1] \in Key /\ Operand(p) \in Operands
          BY <3>1, <5>1, <5>2, <5>3 DEF OperandsAreTensors
        <5> QED
          BY <5>3, <5>4
      <4>2. CASE RendezvousAlone(p, k, v) \/ Contribute(p, k, v)
        BY <4>2 DEF RendezvousAlone, Contribute
      <4>3. CASE Complete(p, k, v)
        <5> DEFINE m == [values[k] EXCEPT ![p] = v]
        <5>1. values' = [values EXCEPT ![k] = m] /\ Leave(p, k, useCount[k], m)
          BY <4>3 DEF Complete
        <5>2. values \in [Key -> Map]
          BY DEF MonitorInv, StateTypeOK
        <5>3. values'[k] = m
          BY <5>1, <5>2
        <5>4. HasMatchingOperandsCount(values'[k])
          BY DEF OpsSucceed, HasMatchingOperandsCount, Keys
        <5> HIDE DEF m
        <5> QED
          BY <1>3, <5>1, <5>3, <5>4
      <4> QED
        BY <4>1, <4>2, <4>3 DEF Call
    <3>4. CASE Compute(p, gs)
      BY <1>1, <3>2, <3>4 DEF Compute
    <3> QED
      BY <3>1, <3>2, <3>3, <3>4 DEF NoGroup
  <2> QED
    BY <1>4, <2>1, <2>2, <2>3 DEF Evaluate
<1>5. ASSUME NEW p \in Process, WaitRendezvous(p) PROVE fatal' = "none"
  <2>1. CASE Resume(p)
    <3>1. PICK k \in Key : Leave(p, k, useCount[k] - 1, result[k])
      BY <2>1 DEF Resume
    <3>2. HasMatchingOperandsCount(result[k])
      BY DEF OpsSucceed
    <3> QED
      BY <1>3, <3>1, <3>2
  <2>2. CASE SpuriousWakeup(p) \/ BlockAgain(p)
    BY <2>2 DEF SpuriousWakeup, BlockAgain
  <2> QED
    BY <1>5, <2>1, <2>2 DEF WaitRendezvous
<1> QED
  BY <1>2, <1>4, <1>5 DEF NextRun

\* For any grid and any program that all processes run, with at least as many
\* workers as processes: a run none of whose ops fails by itself does not fail.
\* The interleaving of the threads never makes a wait time out.
THEOREM SpmdNeverFails ==
  Cardinality(Process) <= Workers =>
    (SpecRunParallel /\ []OperandsAreTensors /\ []OpsSucceed => []NoFailure)
<1> SUFFICES ASSUME Cardinality(Process) <= Workers
             PROVE  SpecRunParallel /\ []OperandsAreTensors /\ []OpsSucceed => []NoFailure
  OBVIOUS
<1>1. InitRun => NoFailure
  BY DEF InitRun, Init, NoFailure
<1>2. /\ WholeRunInv /\ OperandsAreTensors /\ OpsSucceed /\ OpsSucceed' /\ NoFailure
      /\ [NextRun]_runVars
      => NoFailure'
  <2> SUFFICES ASSUME WholeRunInv, OperandsAreTensors, OpsSucceed, OpsSucceed',
                      NoFailure, [NextRun]_runVars, SPMD'
               PROVE  fatal' = "none"
    BY DEF NoFailure
  <2>1. RunInv /\ MonitorInv /\ NeverStuck
    BY NotStuck DEF WholeRunInv
  <2>2. SPMD
    BY <2>1, OpStep DEF SPMD
  <2>3. ~Stuck /\ fatal = "none"
    BY <2>1, <2>2 DEF NeverStuck, OpsSucceed, NoFailure
  <2> QED
    BY <2>1, <2>3, SucceedStep DEF TimeOutRendezvous
<1> HIDE DEF WholeRunInv, OpsSucceed, NoFailure, OperandsAreTensors
<1> QED
  BY <1>1, <1>2, WholeRunCorrect, PTL DEF SpecRunParallel

\* After a fatal error nothing happens any more.
LEMMA FatalIsFinal ==
  ASSUME [NextRun]_runVars, fatal # "none" PROVE UNCHANGED runVars
<1>1. ~(Async \/ StartTask \/ ReturnResults)
  BY DEF Async, StartTask, ReturnResults
<1>2. ASSUME NEW p \in Process PROVE ~Evaluate(p)
  BY DEF Evaluate, FinishTask, InfeedOp, InfeedEmpty, OutfeedOp, NoReplicaGroups,
         EvalCollective, Collective, Running
<1>3. ASSUME NEW p \in Process PROVE ~WaitRendezvous(p) /\ ~TimeOutRendezvous(p)
  BY DEF WaitRendezvous, TimeOutRendezvous, Resume, SpuriousWakeup, BlockAgain, TimeOut
<1> QED
  BY <1>1, <1>2, <1>3 DEF NextRun, Stay

\* Whatever the programs of the processes do, a run that times out had a barrier
\* that some member of its group never came to.
THEOREM RunTimesOutOnlyWhenIncomplete ==
  SpecRunParallel /\ []OperandsAreTensors => []TimeOutOnlyWhenIncomplete
<1>1. InitRun => TimeOutOnlyWhenIncomplete
  BY DEF InitRun, Init, TimeOutOnlyWhenIncomplete
<1>2. WholeRunInv /\ TimeOutOnlyWhenIncomplete /\ [NextRun]_runVars
      => TimeOutOnlyWhenIncomplete'
  <2> SUFFICES ASSUME WholeRunInv, TimeOutOnlyWhenIncomplete, [NextRun]_runVars,
                      fatal' = "rendezvous timed out"
               PROVE  (\E k \in Key : Inside(k) # {} /\ \E q \in Group[k] : Calls(q, k) = 0)'
    BY DEF TimeOutOnlyWhenIncomplete
  <2>1. \E k \in Key : Inside(k) # {} /\ \E q \in Group[k] : Calls(q, k) = 0
    <3>1. CASE fatal' = fatal
      BY <3>1 DEF TimeOutOnlyWhenIncomplete
    <3>2. CASE fatal' # fatal
      <4>1. PICK p \in Process : TimeOut(p)
        BY <3>2, TimeOutStep DEF TimeOutRendezvous
      <4>2. PICK k \in Key : at[p] = k /\ ~Full(values[k], k)
        BY <4>1 DEF TimeOut
      <4>3. p \in Inside(k) /\ \E q \in Group[k] : Calls(q, k) = 0
        BY <4>2, SomebodyMissing DEF WholeRunInv, Inside
      <4> QED
        BY <4>3
    <3> QED
      BY <3>1, <3>2
  <2>2. UNCHANGED <<at, contributed>>
    <3>1. CASE fatal' = fatal
      BY <3>1, FatalIsFinal DEF runVars, vars
    <3>2. CASE fatal' # fatal
      BY <3>2, TimeOutStep DEF TimeOutRendezvous, TimeOut
    <3> QED
      BY <3>1, <3>2
  <2> QED
    BY <2>1, <2>2 DEF Inside, Calls
<1> HIDE DEF WholeRunInv, TimeOutOnlyWhenIncomplete
<1> QED
  BY <1>1, <1>2, WholeRunCorrect, PTL DEF SpecRunParallel

-----------------------------------------------------------------------------
(* Whole runs implement the barrier.                                        *)

\* For any grid, programs whose collectives use each key once, number of workers
\* and interleaving, and whatever fails on the way: what the collectives of a run
\* contribute and get is a behaviour of the barrier that ProcessGrid.h documents.
THEOREM RunsImplementBarrier ==
  MaxCalls = 1 => (SpecRunParallel /\ []OperandsAreTensors => ImplementsBarrier)
<1> SUFFICES ASSUME MaxCalls = 1
             PROVE  SpecRunParallel /\ []OperandsAreTensors => ImplementsBarrier
  OBVIOUS
<1>1. InitRun => Abstract!Init
  BY RefineInit DEF InitRun
<1>2. RunInv /\ BarrierInRun /\ [NextRun]_runVars => [Abstract!Next]_Abstract!vars
  <2> SUFFICES ASSUME RunInv, OperandsAreTensors, SingleUseInv, [NextRun]_runVars
               PROVE  [Abstract!Next]_Abstract!vars
    BY DEF BarrierInRun
  <2>1. CASE Next
    BY <2>1, RefineStep
  <2>2. CASE UNCHANGED rendezvousVars /\ (fatal' = "none" => fatal = "none")
    <3>1. UNCHANGED <<contributed, returned>>
      BY <2>2 DEF rendezvousVars
    <3>2. CASE fatal = "none" /\ fatal' # "none"
      BY <3>1, <3>2 DEF Abstract!Next, Abstract!Abort
    <3>3. CASE fatal # "none" \/ fatal' = "none"
      BY <2>2, <3>1, <3>3 DEF Abstract!vars
    <3> QED
      BY <3>2, <3>3
  <2> QED
    BY <2>1, <2>2, RunIsRendezvous
<1> HIDE DEF RunInv, BarrierInRun, OperandsAreTensors
<1> QED
  BY <1>1, <1>2, BarrierHoldsInRuns, TaskInOnePlace, PTL
     DEF SpecRunParallel, ImplementsBarrier, Abstract!Spec
=============================================================================
