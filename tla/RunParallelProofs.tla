--------------------------- MODULE RunParallelProofs ---------------------------
(***************************************************************************)
(* Proofs about RunParallel for any grid, any programs, any number of      *)
(* worker threads and any interleaving: when run_parallel returns, nothing *)
(* of the run is left behind.                                              *)
(***************************************************************************)
EXTENDS RunParallel, RendezvousProofs

\* The tasks enumerate the processes of the grid without repetition.
LEMMA TasksFacts ==
  /\ Tasks \in Seq(Process)
  /\ Len(Tasks) = NumReplicas * NumPartitions /\ Len(Tasks) \in Nat
  /\ \A i, j \in 1..Len(Tasks) : Tasks[i] = Tasks[j] => i = j
<1> DEFINE N == NumReplicas * NumPartitions
<1>1. NumReplicas \in Nat \ {0} /\ NumPartitions \in Nat \ {0} /\ N \in Nat
  BY GridAssumption
<1>2. ASSUME NEW n \in 1..N
      PROVE  /\ (n - 1) \div NumPartitions \in 0..NumReplicas - 1
             /\ (n - 1) % NumPartitions \in 0..NumPartitions - 1
  BY <1>1, <1>2, SMTT(30)
<1>3. Tasks \in Seq(Process) /\ Len(Tasks) = N
  <2>1. Tasks \in [1..N -> Process]
    BY <1>2, RunParallelAssumption DEF Tasks, ProcessIds, ReplicaIds, PartitionIds
  <2> HIDE DEF N
  <2> QED
    BY <1>1, <2>1
<1>4. ASSUME NEW i \in 1..N, NEW j \in 1..N, Tasks[i] = Tasks[j] PROVE i = j
  <2>1. /\ (i - 1) \div NumPartitions = (j - 1) \div NumPartitions
        /\ (i - 1) % NumPartitions = (j - 1) % NumPartitions
    BY <1>4 DEF Tasks
  <2>2. i - 1 = j - 1
    <3>1. i - 1 \in Nat /\ j - 1 \in Nat
      BY <1>1
    <3> QED
      BY <1>1, <2>1, <3>1, SMTT(30)
  <2> QED
    BY <1>1, <2>2
<1> QED
  BY <1>1, <1>3, <1>4

\* They do not change.
LEMMA TasksConstant == Tasks' = Tasks
  BY DEF Tasks

-----------------------------------------------------------------------------
(* The processes inside rendezvous.                                         *)

\* A step that moves nobody in or out.
LEMMA InsideFrame ==
  ASSUME InsideInv, UNCHANGED <<at, useCount>>, fatal' = "none" => fatal = "none",
         \A p \in asleep' : p \in Process /\ at[p] # NoKey,
         \A p \in Process : p \in running => p \in running' \/ at[p] = NoKey
  PROVE  InsideInv'
<1>1. \A k \in Key : Inside(k)' = Inside(k)
  BY DEF Inside
<1>2. UseCountIsInside'
  BY <1>1 DEF InsideInv, UseCountIsInside
<1> QED
  BY <1>2 DEF InsideInv

\* The end of a call: p is no longer inside, and n processes are.
LEMMA InsideLeave ==
  ASSUME InsideInv, NEW p \in Process, NEW k \in Key, NEW n \in Nat, NEW r,
         Leave(p, k, n, r), p \in running, running' = running,
         n = Cardinality(Inside(k) \ {p}), at[p] \in {k, NoKey},
         \A q \in asleep' : q \in asleep /\ q # p
  PROVE  InsideInv'
<1>1. /\ at \in [Process -> Key \cup {NoKey}] /\ useCount \in [Key -> Nat]
      /\ at' \in [Process -> Key \cup {NoKey}] /\ useCount' \in [Key -> Nat]
      /\ \A q \in Process : q # p => at'[q] = at[q]
      /\ useCount'[k] = n /\ \A j \in Key : j # k => useCount'[j] = useCount[j]
      /\ fatal' = "none" => fatal = "none" /\ at'[p] = NoKey
      /\ at'[p] \in {k, NoKey}
  BY DEF InsideInv, Leave
<1>2. \A j \in Key : j # k => Inside(j)' = Inside(j)
  BY <1>1, RendezvousAssumption DEF Inside
<1>3. fatal' = "none" => Inside(k)' = Inside(k) \ {p}
  BY <1>1, RendezvousAssumption DEF Inside
<1>4. UseCountIsInside'
  BY <1>1, <1>2, <1>3 DEF InsideInv, UseCountIsInside
<1> QED
  BY <1>1, <1>4 DEF InsideInv

LEMMA InsideCall ==
  ASSUME InsideInv, NEW p \in Process, NEW k \in Key, NEW v, Call(p, k, v),
         p \in running, running' = running
  PROVE  InsideInv'
<1>1. fatal = "none" /\ at[p] = NoKey
  BY DEF Call, RendezvousAlone, Contribute, Complete, Enter
<1>2. /\ p \notin Inside(k) /\ p \notin asleep /\ Inside(k) \in SUBSET Process
      /\ useCount[k] = Cardinality(Inside(k)) /\ useCount[k] \in Nat
  BY <1>1, RendezvousAssumption DEF Inside, InsideInv, UseCountIsInside
<1>3. CASE RendezvousAlone(p, k, v)
  BY <1>3, InsideFrame DEF RendezvousAlone, state, InsideInv
<1>4. CASE Contribute(p, k, v)
  <2>1. /\ useCount' = [useCount EXCEPT ![k] = @ + 1] /\ at' = [at EXCEPT ![p] = k]
        /\ asleep' = asleep \cup {p} /\ fatal' = fatal
        /\ at \in [Process -> Key \cup {NoKey}] /\ useCount \in [Key -> Nat]
    BY <1>4 DEF Contribute, InsideInv
  <2>2. Inside(k)' = Inside(k) \cup {p} /\ \A j \in Key : j # k => Inside(j)' = Inside(j)
    BY <1>1, <2>1, RendezvousAssumption DEF Inside
  <2>3. Cardinality(Inside(k)') = Cardinality(Inside(k)) + 1
    BY <1>2, <2>2, CountProcesses
  <2>4. UseCountIsInside'
    BY <1>1, <1>2, <2>1, <2>2, <2>3 DEF InsideInv, UseCountIsInside
  <2> QED
    BY <2>1, <2>4, RendezvousAssumption DEF InsideInv
<1>5. CASE Complete(p, k, v)
  <2>1. PICK m : Leave(p, k, useCount[k], m) /\ asleep' = asleep \ Inside(k)
    BY <1>5 DEF Complete
  <2>2. Inside(k) \ {p} = Inside(k)
    BY <1>2
  <2> QED
    BY <1>1, <1>2, <2>1, <2>2, InsideLeave
<1> QED
  BY <1>3, <1>4, <1>5 DEF Call

LEMMA InsideWait ==
  ASSUME InsideInv, NEW p \in Process,
         Resume(p) \/ SpuriousWakeup(p) \/ BlockAgain(p) \/ TimeOut(p),
         running' = running
  PROVE  InsideInv'
<1>1. CASE Resume(p)
  <2>1. PICK k \in Key : /\ fatal = "none" /\ at[p] = k /\ p \notin asleep
                         /\ Leave(p, k, useCount[k] - 1, result[k])
                         /\ asleep' = asleep
    BY <1>1 DEF Resume
  <2>2. p \in Inside(k) /\ Inside(k) \in SUBSET Process /\ p \in running
    BY <2>1, RendezvousAssumption DEF Inside, InsideInv
  <2>3. useCount[k] - 1 = Cardinality(Inside(k) \ {p})
    BY <2>1, <2>2, CountProcesses DEF InsideInv, UseCountIsInside
  <2>4. Cardinality(Inside(k) \ {p}) \in Nat
    <3>1. Inside(k) \ {p} \in SUBSET Process
      BY <2>2
    <3> QED
      BY <3>1, CountProcesses
  <2> QED
    BY <2>1, <2>2, <2>3, <2>4, InsideLeave
<1>2. CASE SpuriousWakeup(p)
  BY <1>2, InsideFrame DEF SpuriousWakeup, state, InsideInv
<1>3. CASE BlockAgain(p)
  <2>1. at[p] # NoKey /\ asleep' = asleep \cup {p} /\ UNCHANGED <<at, useCount, fatal>>
    BY <1>3, RendezvousAssumption DEF BlockAgain, state
  <2> QED
    BY <2>1, InsideFrame DEF InsideInv
<1>4. CASE TimeOut(p)
  BY <1>4, InsideFrame DEF TimeOut, state, InsideInv
<1> QED
  BY <1>1, <1>2, <1>3, <1>4

-----------------------------------------------------------------------------
(* The pool.                                                                *)

LEMMA RunInit == InitRun => RunInv
<1> SUFFICES ASSUME InitRun PROVE RunInv
  OBVIOUS
<1>1. TaskTypeOK
  BY TasksFacts DEF InitRun, TaskTypeOK
<1>2. PoolInv
  <2>1. \A i \in 1..Len(Tasks) : Tasks[i] \in Process
    BY TasksFacts
  <2> QED
    BY <2>1, TasksFacts DEF InitRun, Init, PoolInv, Pending
<1>3. InsideInv
  <2>1. \A k \in Key : Inside(k) = {}
    BY RendezvousAssumption DEF InitRun, Init, Inside
  <2>2. UseCountIsInside
    BY <2>1, CountProcesses DEF InitRun, Init, UseCountIsInside
  <2> QED
    BY <2>2 DEF InitRun, Init, InsideInv
<1> QED
  BY <1>1, <1>2, <1>3 DEF RunInv

\* While a worker evaluates a process there are no results.
LEMMA NoResultsYet ==
  ASSUME RunInv, NEW p \in running
  PROVE  p \in Process /\ taskOutputs[p] = NoValue /\ results = <<>>
  BY DEF RunInv, TaskTypeOK, PoolInv

\* A step of a process that leaves the pool alone.
LEMMA PoolFrame ==
  ASSUME RunInv, UNCHANGED poolVars, results = <<>> \/ fatal' = fatal
  PROVE  PoolInv'
<1>1. UNCHANGED <<submitted, queue, running, taskOutputs, results>>
  BY DEF poolVars
<1> QED
  BY <1>1 DEF RunInv, PoolInv, Pending

LEMMA RunAsync == ASSUME RunInv, Async PROVE RunInv'
<1>1. /\ fatal = "none" /\ submitted < Len(Tasks) /\ submitted' = submitted + 1
      /\ queue' = Append(queue, Tasks[submitted + 1])
      /\ UNCHANGED <<values, result, useCount, at, asleep, contributed, returned, fatal>>
      /\ UNCHANGED <<programs, pc, value, calls, running, taskOutputs, results>>
  BY DEF Async, vars, taskVars
<1>2. submitted \in 0..Len(Tasks) /\ queue \in Seq(Process)
  BY DEF RunInv, TaskTypeOK
<1> DEFINE t == Tasks[submitted + 1]
<1>3. t \in Process /\ submitted + 1 \in 1..Len(Tasks)
  BY <1>1, <1>2, TasksFacts
<1>4. Pending(t) /\ \A j \in 1..Len(queue) : queue[j] # t
  <2>1. submitted + 1 \in submitted + 1..Len(Tasks)
    BY <1>1, <1>2, TasksFacts
  <2> QED
    BY <2>1 DEF RunInv, PoolInv
<1>5. \A i \in submitted + 2..Len(Tasks) : i \in submitted + 1..Len(Tasks) /\ Tasks[i] # t
  BY <1>2, <1>3, TasksFacts
<1> HIDE DEF t
<1>6. queue' = Append(queue, t) /\ queue' \in Seq(Process) /\ Len(queue') = Len(queue) + 1
  BY <1>1, <1>2, <1>3 DEF t
<1>7. /\ \A i \in 1..Len(queue) : queue'[i] = queue[i]
      /\ queue'[Len(queue) + 1] = t
  BY <1>2, <1>3, <1>6
<1>8. TaskTypeOK'
  BY <1>1, <1>2, <1>3, <1>6, TasksFacts DEF RunInv, TaskTypeOK
<1>9. PoolInv'
  <2>1. ASSUME NEW i \in submitted' + 1..Len(Tasks)
        PROVE  Pending(Tasks[i])' /\ \A j \in 1..Len(queue') : queue'[j] # Tasks[i]
    <3>1. i \in submitted + 1..Len(Tasks) /\ Tasks[i] # t
      BY <1>1, <1>2, <1>5, TasksFacts
    <3>2. Pending(Tasks[i]) /\ \A j \in 1..Len(queue) : queue[j] # Tasks[i]
      BY <3>1 DEF RunInv, PoolInv
    <3>3. Pending(Tasks[i])'
      BY TasksConstant, <1>1, <3>2 DEF Pending
    <3> QED
      BY <1>2, <1>6, <1>7, <3>1, <3>2, <3>3
  <2>2. ASSUME NEW i \in 1..Len(queue')
        PROVE  /\ Pending(queue[i])'
               /\ \A j \in 1..Len(queue') : queue'[i] = queue'[j] => i = j
    <3>1. Pending(queue'[i])
      BY <1>2, <1>4, <1>6, <1>7 DEF RunInv, PoolInv
    <3>2. Pending(queue[i])'
      BY <1>1, <3>1 DEF Pending
    <3>3. \A j, l \in 1..Len(queue) : queue[j] = queue[l] => j = l
      BY DEF RunInv, PoolInv
    <3>4. \A j \in 1..Len(queue') : j \in 1..Len(queue) \/ j = Len(queue) + 1
      BY <1>2, <1>6
    <3>5. ASSUME NEW j \in 1..Len(queue'), queue'[i] = queue'[j] PROVE i = j
      <4>1. CASE i \in 1..Len(queue) /\ j \in 1..Len(queue)
        BY <1>7, <3>3, <3>5, <4>1
      <4>2. CASE i = Len(queue) + 1 /\ j = Len(queue) + 1
        BY <4>2
      <4>3. CASE i \in 1..Len(queue) /\ j = Len(queue) + 1
        BY <1>4, <1>7, <3>5, <4>3
      <4>4. CASE i = Len(queue) + 1 /\ j \in 1..Len(queue)
        BY <1>4, <1>7, <3>5, <4>4
      <4> QED
        BY <3>4, <4>1, <4>2, <4>3, <4>4
    <3> QED
      BY <3>2, <3>5
  <2>3. Len(Tasks)' = Len(Tasks)
    BY TasksConstant
  <2>4. results = <<>>
    BY <1>1, <1>2, TasksFacts DEF RunInv, PoolInv
  <2> QED
    BY TasksConstant, <1>1, <2>1, <2>2, <2>3, <2>4 DEF RunInv, PoolInv
<1>10. InsideInv'
  BY <1>1, InsideFrame DEF RunInv, InsideInv
<1> QED
  BY <1>8, <1>9, <1>10 DEF RunInv

LEMMA RunStartTask == ASSUME RunInv, StartTask PROVE RunInv'
<1>1. /\ fatal = "none" /\ queue # <<>> /\ queue \in Seq(Process)
      /\ running' = running \cup {Head(queue)} /\ queue' = Tail(queue)
      /\ UNCHANGED <<values, result, useCount, at, asleep, contributed, returned, fatal>>
      /\ UNCHANGED <<programs, pc, value, calls, submitted, taskOutputs, results>>
  BY DEF StartTask, vars, taskVars, RunInv, TaskTypeOK
<1> DEFINE t == Head(queue)
<1>2. /\ 1 \in 1..Len(queue) /\ queue[1] = t /\ t \in Process
      /\ queue' \in Seq(Process) /\ Len(queue') = Len(queue) - 1 /\ Len(queue) \in Nat
      /\ \A i \in 1..Len(queue') : i + 1 \in 1..Len(queue) /\ queue'[i] = queue[i + 1]
  BY <1>1
<1>3. Pending(t) /\ \A i \in 1..Len(queue') : queue'[i] # t
  <2>1. \A i \in 1..Len(queue') : i + 1 # 1
    BY <1>2
  <2> QED
    BY <1>2, <2>1 DEF RunInv, PoolInv
<1> HIDE DEF t
<1>4. TaskTypeOK'
  BY TasksConstant, <1>1, <1>2 DEF RunInv, TaskTypeOK, t
<1>5. PoolInv'
  <2>1. ASSUME NEW i \in submitted + 1..Len(Tasks)
        PROVE  Pending(Tasks[i])' /\ \A j \in 1..Len(queue') : queue'[j] # Tasks[i]
    <3>1. Pending(Tasks[i]) /\ \A j \in 1..Len(queue) : queue[j] # Tasks[i]
      BY DEF RunInv, PoolInv
    <3>2. Tasks[i] # t /\ \A j \in 1..Len(queue') : queue'[j] # Tasks[i]
      BY <1>2, <3>1
    <3> QED
      BY TasksConstant, <1>1, <3>1, <3>2 DEF Pending, t
  <2>2. ASSUME NEW i \in 1..Len(queue')
        PROVE  /\ Pending(queue[i])'
               /\ \A j \in 1..Len(queue') : queue'[i] = queue'[j] => i = j
    <3>1. Pending(queue'[i])
      BY <1>2 DEF RunInv, PoolInv
    <3>2. Pending(queue[i])'
      BY <1>1, <1>3, <3>1 DEF Pending, t
    <3>3. \A j \in 1..Len(queue') : queue'[i] = queue'[j] => i + 1 = j + 1
      BY <1>2 DEF RunInv, PoolInv
    <3> QED
      BY <3>2, <3>3
  <2>3. \A p \in running' : taskOutputs'[p] = NoValue
    BY <1>1, <1>3 DEF Pending, RunInv, PoolInv, t
  <2>4. results = <<>>
    BY <1>2, <1>3 DEF Pending, RunInv, PoolInv
  <2> QED
    BY TasksConstant, <1>1, <2>1, <2>2, <2>3, <2>4 DEF PoolInv
<1>6. InsideInv'
  BY <1>1, InsideFrame DEF RunInv, InsideInv
<1> QED
  BY <1>4, <1>5, <1>6 DEF RunInv

LEMMA RunFinishTask ==
  ASSUME RunInv, NEW p \in Process, FinishTask(p) PROVE RunInv'
<1>1. /\ p \in running /\ at[p] = NoKey /\ running' = running \ {p}
      /\ taskOutputs' = [taskOutputs EXCEPT ![p] = value[p]]
      /\ UNCHANGED <<values, result, useCount, at, asleep, contributed, returned, fatal>>
      /\ UNCHANGED <<programs, pc, value, calls, submitted, queue, results>>
  BY DEF FinishTask, Running, vars, taskVars
<1>2. results = <<>>
  BY <1>1, NoResultsYet
<1>3. \A q \in Process : q # p => taskOutputs'[q] = taskOutputs[q]
  BY <1>1 DEF RunInv, TaskTypeOK
<1>4. TaskTypeOK'
  <2>1. taskOutputs' = [q \in Process |-> taskOutputs'[q]]
    BY <1>1 DEF RunInv, TaskTypeOK
  <2> QED
    BY TasksConstant, <1>1, <2>1 DEF RunInv, TaskTypeOK
<1>5. \A q \in Process : Pending(q) => q # p /\ Pending(q)'
  BY <1>1, <1>3 DEF Pending
<1>6. PoolInv'
  <2>1. \A i \in submitted + 1..Len(Tasks) : Tasks[i] \in Process /\ Tasks[i]' = Tasks[i]
    BY TasksConstant, TasksFacts DEF RunInv, TaskTypeOK
  <2>2. \A i \in 1..Len(queue) : queue[i] \in Process
    BY DEF RunInv, TaskTypeOK
  <2>3. ASSUME NEW i \in submitted + 1..Len(Tasks)
        PROVE  Pending(Tasks[i])' /\ \A j \in 1..Len(queue) : queue[j] # Tasks[i]
    <3>1. Pending(Tasks[i]) /\ \A j \in 1..Len(queue) : queue[j] # Tasks[i]
      BY DEF RunInv, PoolInv
    <3> QED
      BY <1>1, <1>3, <2>1, <3>1 DEF Pending
  <2>4. ASSUME NEW i \in 1..Len(queue)
        PROVE  /\ Pending(queue[i])'
               /\ \A j \in 1..Len(queue) : queue[i] = queue[j] => i = j
    <3>1. Pending(queue[i]) /\ \A j \in 1..Len(queue) : queue[i] = queue[j] => i = j
      BY DEF RunInv, PoolInv
    <3> QED
      BY <1>1, <1>3, <2>2, <3>1 DEF Pending
  <2>5. \A q \in running' : taskOutputs'[q] = NoValue
    BY <1>1, <1>3 DEF RunInv, PoolInv, TaskTypeOK
  <2> QED
    BY TasksConstant, <1>1, <1>2, <2>3, <2>4, <2>5 DEF PoolInv
<1>7. InsideInv'
  BY <1>1, InsideFrame DEF RunInv, InsideInv
<1> QED
  BY <1>4, <1>6, <1>7 DEF RunInv

LEMMA RunReturnResults == ASSUME RunInv, ReturnResults PROVE RunInv'
<1>1. /\ fatal = "none" /\ submitted = Len(Tasks)
      /\ \A p \in Process : taskOutputs[p] # NoValue
      /\ UNCHANGED <<values, result, useCount, at, asleep, contributed, returned, fatal>>
      /\ UNCHANGED <<programs, pc, value, calls, submitted, queue, running, taskOutputs>>
  BY DEF ReturnResults, vars, taskVars
<1>2. TaskTypeOK'
  BY TasksConstant, <1>1 DEF RunInv, TaskTypeOK
<1>3. PoolInv'
  BY TasksConstant, <1>1 DEF RunInv, PoolInv, Pending
<1>4. InsideInv'
  BY <1>1, InsideFrame DEF RunInv, InsideInv
<1> QED
  BY <1>2, <1>3, <1>4 DEF RunInv

\* Going on to the next op, and failing.
LEMMA RunNextOp ==
  ASSUME RunInv, NEW p \in Process, NEW v, NextOp(p, v),
         UNCHANGED <<vars, programs, poolVars>>
  PROVE  RunInv'
<1>1. /\ pc' = [pc EXCEPT ![p] = @ + 1] /\ calls' = [calls EXCEPT ![p] = <<>>]
      /\ UNCHANGED <<programs, submitted, queue, running, taskOutputs, results>>
      /\ UNCHANGED <<useCount, at, asleep, fatal>>
  BY DEF NextOp, vars, poolVars
<1>2. TaskTypeOK'
  BY TasksConstant, <1>1 DEF RunInv, TaskTypeOK
<1>3. InsideInv'
  BY <1>1, InsideFrame DEF RunInv, InsideInv
<1> QED
  BY <1>1, <1>2, <1>3, PoolFrame DEF RunInv

LEMMA RunFail ==
  ASSUME RunInv, NEW p \in running, NEW message, message # "none", Fail(message)
  PROVE  RunInv'
<1>1. /\ UNCHANGED <<programs, pc, calls, submitted, queue, running, taskOutputs, results>>
      /\ UNCHANGED <<useCount, at, asleep>> /\ fatal' = message
  BY DEF Fail, rendezvousVars, taskVars, poolVars
<1>2. TaskTypeOK'
  BY TasksConstant, <1>1 DEF RunInv, TaskTypeOK
<1>3. InsideInv'
  BY <1>1, InsideFrame DEF RunInv, InsideInv
<1>4. PoolInv'
  BY <1>1, NoResultsYet, PoolFrame DEF poolVars
<1> QED
  BY <1>2, <1>3, <1>4 DEF RunInv

\* The next call of a collective is made with one of the run's keys.
LEMMA RunCallRendezvous ==
  ASSUME RunInv, NEW p \in Process, Collective(p), ~CannotFlatten(Op(p)),
         CallRendezvous(p, GroupsOf(Op(p)))
  PROVE  RunInv'
<1> DEFINE ck == KeysFor(Op(p), p)
           k == ck[Len(calls[p]) + 1]
<1>1. /\ p \in running /\ Len(calls[p]) < Len(ck) /\ Call(p, k, Operand(p))
      /\ calls' = [calls EXCEPT ![p] = Append(@, k)]
      /\ UNCHANGED <<programs, pc, value, poolVars>>
  BY DEF CallRendezvous, Collective, Running, KeysFor
<1>2. /\ programs \in Programs /\ pc[p] \in Nat \ {0} /\ calls[p] \in Seq(Key)
      /\ calls \in [Process -> Seq(Key)]
      /\ pc[p] <= Len(programs[p]) /\ IsCollective(Op(p))
  BY DEF RunInv, TaskTypeOK, Collective, HasOp
<1>3. ck \in Seq(Key)
  <2>1. pc[p] \in DOMAIN programs[p]
    BY <1>2, ProgramsAssumption
  <2> QED
    BY <1>2, <2>1, ProgramsAssumption DEF Op, Meets
<1> HIDE DEF ck
<1>4. k \in Key
  BY <1>1, <1>2, <1>3
<1> HIDE DEF k
<1>5. UNCHANGED <<submitted, queue, running, taskOutputs, results>>
  BY <1>1 DEF poolVars
<1>6. TaskTypeOK'
  <2>1. calls' \in [Process -> Seq(Key)]
    BY <1>1, <1>2, <1>4
  <2> QED
    BY TasksConstant, <1>1, <1>5, <2>1 DEF RunInv, TaskTypeOK
<1>7. InsideInv'
  BY <1>1, <1>4, <1>5, InsideCall DEF RunInv
<1>8. PoolInv'
  BY <1>1, NoResultsYet, PoolFrame
<1> QED
  BY <1>6, <1>7, <1>8 DEF RunInv

LEMMA RunWaiting ==
  ASSUME RunInv, NEW p \in Process, WaitRendezvous(p) \/ TimeOutRendezvous(p)
  PROVE  RunInv'
<1>1. /\ Resume(p) \/ SpuriousWakeup(p) \/ BlockAgain(p) \/ TimeOut(p)
      /\ UNCHANGED <<programs, taskVars, feedVars, poolVars>>
  BY DEF WaitRendezvous, TimeOutRendezvous
<1>2. p \in running
  <2>1. CASE WaitRendezvous(p)
    BY <2>1 DEF WaitRendezvous
  <2>2. CASE TimeOutRendezvous(p)
    BY <2>2, RendezvousAssumption DEF TimeOutRendezvous, TimeOut, RunInv, InsideInv
  <2> QED
    BY <2>1, <2>2
<1>3. UNCHANGED <<programs, pc, calls, submitted, queue, running, taskOutputs, results>>
  BY <1>1 DEF taskVars, poolVars
<1>4. TaskTypeOK'
  BY TasksConstant, <1>3 DEF RunInv, TaskTypeOK
<1>5. InsideInv'
  BY <1>1, <1>3, InsideWait DEF RunInv
<1>6. PoolInv'
  BY <1>1, <1>2, NoResultsYet, PoolFrame
<1> QED
  BY <1>4, <1>5, <1>6 DEF RunInv

LEMMA RunCollective ==
  ASSUME RunInv, NEW p \in Process, NoReplicaGroups(p) \/ EvalCollective(p)
  PROVE  RunInv'
<1>1. p \in running
  BY DEF NoReplicaGroups, EvalCollective, Collective, Running
<1>2. CASE NoReplicaGroups(p)
  BY <1>1, <1>2, RunFail DEF NoReplicaGroups
<1>3. CASE EvalCollective(p)
  <2> DEFINE gs == GroupsOf(Op(p))
  <2>1. /\ Collective(p) /\ ~CannotFlatten(Op(p))
        /\ NoGroup(p, gs) \/ CallRendezvous(p, gs) \/ Compute(p, gs)
    BY <1>3 DEF EvalCollective
  <2> HIDE DEF gs
  <2>2. CASE NoGroup(p, gs)
    BY <1>1, <2>2, RunFail DEF NoGroup
  <2>3. CASE CallRendezvous(p, gs)
    BY <2>1, <2>3, RunCallRendezvous DEF gs
  <2>4. CASE Compute(p, gs)
    BY <1>1, <2>4, RunFail, RunNextOp DEF Compute
  <2> QED
    BY <2>1, <2>2, <2>3, <2>4
<1> QED
  BY <1>2, <1>3

LEMMA RunFeed ==
  ASSUME RunInv, NEW p \in Process, InfeedOp(p) \/ InfeedEmpty(p) \/ OutfeedOp(p)
  PROVE  RunInv'
<1>1. p \in running
  BY DEF InfeedOp, InfeedEmpty, OutfeedOp, Running
<1>2. CASE InfeedOp(p)
  BY <1>2, RunNextOp DEF InfeedOp
<1>3. CASE InfeedEmpty(p)
  BY <1>1, <1>3, RunFail DEF InfeedEmpty
<1>4. CASE OutfeedOp(p)
  BY <1>4, RunNextOp DEF OutfeedOp
<1> QED
  BY <1>2, <1>3, <1>4

LEMMA RunStep == RunInv /\ [NextRun]_runVars => RunInv'
<1> SUFFICES ASSUME RunInv, [NextRun]_runVars PROVE RunInv'
  OBVIOUS
<1>1. CASE UNCHANGED runVars
  <2>1. /\ UNCHANGED <<programs, pc, calls, submitted, queue, running, taskOutputs, results>>
        /\ UNCHANGED <<useCount, at, asleep, fatal>>
    BY <1>1 DEF runVars, vars, taskVars, poolVars
  <2>2. TaskTypeOK'
    BY TasksConstant, <2>1 DEF RunInv, TaskTypeOK
  <2>3. InsideInv'
    BY <2>1, InsideFrame DEF RunInv, InsideInv
  <2> QED
    BY <2>1, <2>2, <2>3, PoolFrame DEF RunInv, poolVars
<1>2. CASE NextRun
  BY <1>1, <1>2, RunAsync, RunStartTask, RunFinishTask, RunReturnResults, RunCollective,
     RunFeed, RunWaiting DEF NextRun, Evaluate, Stay
<1> QED
  BY <1>1, <1>2

\* For any grid, programs and number of workers: from submission to output each
\* task is in one place (not submitted, queued, running or finished), only
\* running tasks are inside rendezvous, and until a fatal error the counter of
\* each key is the number of processes inside it.
THEOREM TaskInOnePlace == SpecRunParallel => []RunInv
  BY RunInit, RunStep, PTL DEF SpecRunParallel

\* For any grid, programs, number of workers and interleaving: when
\* run_parallel returns, no task is queued or running, no process is inside
\* rendezvous or asleep, and every key's counter is 0.
THEOREM NothingLeftBehind == SpecRunParallel => []QuietAtReturn
<1>1. RunInv => QuietAtReturn
  <2> SUFFICES ASSUME RunInv, results # <<>>
               PROVE  /\ running = {} /\ queue = <<>> /\ asleep = {}
                      /\ \A p \in Process : at[p] = NoKey
                      /\ \A k \in Key : useCount[k] = 0
    BY DEF QuietAtReturn
  <2>1. running = {}
    BY NoResultsYet
  <2>2. queue = <<>>
    <3>1. queue \in Seq(Process) /\ \A p \in Process : taskOutputs[p] # NoValue
      BY DEF RunInv, TaskTypeOK, PoolInv
    <3>2. \A i \in 1..Len(queue) : queue[i] \in Process /\ taskOutputs[queue[i]] = NoValue
      BY <3>1 DEF RunInv, PoolInv, Pending
    <3>3. Len(queue) = 0
      BY <3>1, <3>2
    <3> QED
      BY <3>1, <3>3
  <2>3. \A p \in Process : at[p] = NoKey
    BY <2>1 DEF RunInv, InsideInv
  <2>4. asleep = {}
    BY <2>3 DEF RunInv, InsideInv
  <2>5. \A k \in Key : Inside(k) = {}
    BY <2>3, RendezvousAssumption DEF Inside
  <2>6. \A k \in Key : useCount[k] = 0
    BY <2>5, CountProcesses DEF RunInv, InsideInv, UseCountIsInside, PoolInv
  <2> QED
    BY <2>1, <2>2, <2>3, <2>4, <2>6
<1> QED
  BY <1>1, TaskInOnePlace, PTL

-----------------------------------------------------------------------------
(* The barrier in whole runs.                                               *)

\* A step that leaves rendezvous alone, or ends the program.
LEMMA BarrierFrame ==
  ASSUME SingleUseInv, UNCHANGED rendezvousVars, fatal' = "none" => fatal = "none"
  PROVE  SingleUseInv'
<1>1. UNCHANGED <<values, result, useCount, at, asleep, contributed, returned>>
  BY DEF rendezvousVars
<1>2. MonitorInv'
  BY <1>1, MonitorFrame DEF SingleUseInv, MonitorInv, StateTypeOK, NoLostWakeup
<1> QED
  BY <1>1, <1>2, KeyFrame DEF SingleUseInv

\* The key of the next call of a collective.
LEMMA CallIsRendezvous ==
  ASSUME RunInv, OperandsAreTensors, NEW p \in Process, Collective(p),
         ~CannotFlatten(Op(p)),
         CallRendezvous(p, GroupsOf(Op(p)))
  PROVE  Next
<1> DEFINE ck == KeysFor(Op(p), p)
           k == ck[Len(calls[p]) + 1]
<1>1. Len(calls[p]) < Len(ck) /\ Call(p, k, Operand(p))
  BY DEF CallRendezvous, KeysFor
<1>2. /\ programs \in Programs /\ pc[p] \in Nat \ {0} /\ calls[p] \in Seq(Key)
      /\ pc[p] <= Len(programs[p]) /\ IsCollective(Op(p))
  BY DEF RunInv, TaskTypeOK, Collective, HasOp
<1>3. ck \in Seq(Key)
  <2>1. pc[p] \in DOMAIN programs[p]
    BY <1>2, ProgramsAssumption
  <2> QED
    BY <1>2, <2>1, ProgramsAssumption DEF Op, Meets
<1> HIDE DEF ck
<1>4. k \in Key
  BY <1>1, <1>2, <1>3
<1> HIDE DEF k
<1> QED
  BY <1>1, <1>4 DEF OperandsAreTensors, Next

\* Every step of a run is a step of Rendezvous or leaves it alone.
LEMMA RunIsRendezvous ==
  ASSUME RunInv, OperandsAreTensors, [NextRun]_runVars
  PROVE  \/ Next
         \/ UNCHANGED rendezvousVars /\ (fatal' = "none" => fatal = "none")
<1> DEFINE Quiet == UNCHANGED rendezvousVars /\ (fatal' = "none" => fatal = "none")
<1>1. UNCHANGED vars => Quiet
  BY DEF vars, rendezvousVars
<1>2. ASSUME NEW message, message # "none", Fail(message) PROVE Quiet
  BY <1>2 DEF Fail
<1> SUFFICES Next \/ Quiet
  OBVIOUS
<1> HIDE DEF Quiet
<1>3. CASE UNCHANGED runVars
  BY <1>1, <1>3 DEF runVars
<1>4. CASE Async \/ StartTask \/ ReturnResults \/ Stay
  BY <1>1, <1>3, <1>4 DEF Async, StartTask, ReturnResults, Stay
<1>5. ASSUME NEW p \in Process, Evaluate(p) PROVE Next \/ Quiet
  <2>1. CASE FinishTask(p) \/ InfeedOp(p) \/ OutfeedOp(p)
    BY <1>1, <2>1 DEF FinishTask, InfeedOp, OutfeedOp
  <2>2. CASE InfeedEmpty(p) \/ NoReplicaGroups(p)
    BY <1>2, <2>2 DEF InfeedEmpty, NoReplicaGroups
  <2>3. CASE EvalCollective(p)
    <3> DEFINE gs == GroupsOf(Op(p))
    <3>1. /\ Collective(p) /\ ~CannotFlatten(Op(p))
          /\ NoGroup(p, gs) \/ CallRendezvous(p, gs) \/ Compute(p, gs)
      BY <2>3 DEF EvalCollective
    <3>2. CASE CallRendezvous(p, gs)
      BY <3>1, <3>2, CallIsRendezvous
    <3> HIDE DEF gs
    <3>3. CASE NoGroup(p, gs)
      BY <1>2, <3>3 DEF NoGroup
    <3>4. CASE Compute(p, gs)
      BY <1>1, <1>2, <3>4 DEF Compute
    <3> QED
      BY <3>1, <3>2, <3>3, <3>4
  <2> QED
    BY <1>5, <2>1, <2>2, <2>3 DEF Evaluate
<1>6. ASSUME NEW p \in Process, WaitRendezvous(p) \/ TimeOutRendezvous(p) PROVE Next
  BY <1>6 DEF WaitRendezvous, TimeOutRendezvous, Wait, Next
<1> QED
  BY <1>3, <1>4, <1>5, <1>6 DEF NextRun

\* For any grid, programs whose collectives use each key once, number of workers
\* and interleaving, and whatever fails on the way: the rendezvous of a run keeps
\* the invariant of the barrier, as long as what collectives contribute are
\* vectors of tensors.
THEOREM BarrierHoldsInRuns ==
  MaxCalls = 1 => (SpecRunParallel /\ []OperandsAreTensors => []BarrierInRun)
<1> SUFFICES ASSUME MaxCalls = 1
             PROVE  SpecRunParallel /\ []OperandsAreTensors => []BarrierInRun
  OBVIOUS
<1>1. InitRun => SingleUseInv
  BY SingleUseInit DEF InitRun
<1>2. RunInv /\ OperandsAreTensors /\ SingleUseInv /\ [NextRun]_runVars => SingleUseInv'
  BY RunIsRendezvous, BarrierFrame, SingleUseStep
<1>3. OperandsAreTensors /\ SingleUseInv => BarrierInRun
  BY DEF BarrierInRun
<1> QED
  BY <1>1, <1>2, <1>3, TaskInOnePlace, PTL DEF SpecRunParallel

\* Hence in whole runs no process goes on from a collective before every member
\* of its group has contributed, and all members have got the same operands.
THEOREM CollectivesMeetInRuns ==
  MaxCalls = 1 =>
    (SpecRunParallel /\ []OperandsAreTensors => []Barrier /\ []SameRound)
<1> SUFFICES ASSUME MaxCalls = 1
             PROVE  SpecRunParallel /\ []OperandsAreTensors => []Barrier /\ []SameRound
  OBVIOUS
<1>1. BarrierInRun => Barrier /\ SameRound
  BY SingleUseIsSameRound, SameRoundIsBarrier
     DEF BarrierInRun, SingleUseInv, MonitorInv
<1> QED
  BY <1>1, BarrierHoldsInRuns, PTL

-----------------------------------------------------------------------------
(* The infeed and outfeed queues.                                           *)

LEMMA SeqOfItsElements ==
  ASSUME NEW S, NEW s \in Seq(S)
  PROVE  s \in Seq(ToSet(s)) /\ DOMAIN s = 1..Len(s) /\ Len(s) \in Nat
<1>1. Len(s) \in Nat /\ DOMAIN s = 1..Len(s) /\ s = [i \in 1..Len(s) |-> s[i]]
  OBVIOUS
<1>2. \A i \in 1..Len(s) : s[i] \in ToSet(s)
  BY <1>1 DEF ToSet
<1> QED
  BY <1>1, <1>2

\* Neither the programs nor the infeed attribute change.
LEMMA ProgramsConstant ==
  ASSUME [NextRun]_runVars
  PROVE  programs' = programs /\ (DirectFeeds <=> DirectFeeds')
<1>1. programs' = programs
  BY DEF runVars, NextRun, Async, StartTask, ReturnResults, Stay, Evaluate, FinishTask, InfeedOp,
         InfeedEmpty, OutfeedOp, NoReplicaGroups, EvalCollective, NoGroup, CallRendezvous,
         Compute, Fail, WaitRendezvous, TimeOutRendezvous
<1> QED
  BY <1>1 DEF DirectFeeds

\* A step that feeds nothing and finishes no op.
LEMMA FeedFrame ==
  ASSUME FeedInv, UNCHANGED <<programs, pc, value, infeed, outfeed>>
  PROVE  FeedInv'
<1>1. \A p \in Process : HoldsEntry(p)' = HoldsEntry(p)
  BY DEF HoldsEntry, HasOp, Op
<1> QED
  BY <1>1 DEF FeedInv, HeldOnce, FedOnce

\* Who holds an entry after an op of p is done: p, if that op was an infeed and
\* an outfeed comes next, and the others that did before.
LEMMA HoldersAfter ==
  ASSUME DirectFeeds, TaskTypeOK, FeedInv, NEW p \in Process, HasOp(p), NEW v,
         NextOp(p, v), programs' = programs
  PROVE  /\ HoldsEntry(p)' => Op(p).op = "infeed"
         /\ value' = [q \in Process |-> value'[q]] /\ value'[p] = v
         /\ \A q \in Process : q # p => value'[q] = value[q] /\ (HoldsEntry(q)' <=> HoldsEntry(q))
<1>1. /\ pc \in [Process -> Nat \ {0}] /\ pc' = [pc EXCEPT ![p] = @ + 1]
      /\ value = [q \in Process |-> value[q]] /\ value' = [value EXCEPT ![p] = v]
  BY DEF TaskTypeOK, FeedInv, NextOp
<1>2. value' = [q \in Process |-> value'[q]] /\ value'[p] = v
  BY <1>1, Zenon
<1>3. \A q \in Process : q # p => value'[q] = value[q] /\ pc'[q] = pc[q]
  BY <1>1, Zenon
<1>4. \A q \in Process : q # p => (HoldsEntry(q)' <=> HoldsEntry(q))
  BY <1>3 DEF HoldsEntry, HasOp, Op
<1>5. ASSUME HoldsEntry(p)' PROVE Op(p).op = "infeed"
  <2>1. pc[p] \in Nat \ {0} /\ pc'[p] = pc[p] + 1
    BY <1>1
  <2>2. DOMAIN programs[p] = 1..Len(programs[p]) /\ Len(programs[p]) \in Nat
    BY ProgramsAssumption DEF TaskTypeOK
  <2>3. pc[p] + 1 <= Len(programs[p]) /\ programs[p][pc[p] + 1].op = "outfeed"
    BY <1>5, <2>1 DEF HoldsEntry, HasOp, Op
  <2>4. pc[p] + 1 \in DOMAIN programs[p] /\ (pc[p] + 1) - 1 = pc[p]
    BY <2>1, <2>2, <2>3
  <2>5. programs[p][(pc[p] + 1) - 1].op = "infeed"
    BY <2>3, <2>4 DEF DirectFeeds
  <2> QED
    BY <2>4, <2>5 DEF Op
<1> QED
  BY <1>2, <1>3, <1>4, <1>5

LEMMA FeedCompute ==
  ASSUME DirectFeeds, TaskTypeOK, FeedInv, NEW p \in Process, HasOp(p), Op(p).op # "infeed",
         NEW v, NextOp(p, v), UNCHANGED <<programs, infeed, outfeed>>
  PROVE  FeedInv'
<1>1. \A q \in Process : HoldsEntry(q)' => HoldsEntry(q) /\ value'[q] = value[q]
  BY HoldersAfter
<1>2. HeldOnce'
  BY <1>1 DEF FeedInv, HeldOnce
<1>3. FedOnce'
  BY DEF FeedInv, FedOnce
<1> QED
  BY <1>2, <1>3, HoldersAfter DEF FeedInv

\* infeed hands out the first entry, which differs from all others.
LEMMA FeedInfeed ==
  ASSUME DirectFeeds, TaskTypeOK, FeedInv, NEW p \in Process, InfeedOp(p)
  PROVE  FeedInv'
<1>1. /\ HasOp(p) /\ infeed # <<>> /\ NextOp(p, <<Head(infeed)>>) /\ infeed' = Tail(infeed)
      /\ programs' = programs /\ outfeed' = outfeed
  BY DEF InfeedOp
<1>2. PICK n \in Nat : n = Len(infeed) - 1
  BY <1>1 DEF FeedInv
<1>3. /\ DOMAIN infeed = 1..n + 1 /\ DOMAIN infeed' = 1..n /\ Head(infeed) = infeed[1]
      /\ \A i \in 1..n : infeed'[i] = infeed[i + 1]
      /\ infeed' \in Seq(ToSet(infeed))
  BY <1>1, <1>2 DEF FeedInv
<1>4. infeed' \in Seq(ToSet(infeed'))
  BY <1>3, SeqOfItsElements
<1>5. \A i, j \in DOMAIN infeed' : infeed'[i] = infeed'[j] => i = j
  <2> SUFFICES ASSUME NEW i \in 1..n, NEW j \in 1..n, infeed'[i] = infeed'[j] PROVE i = j
    BY <1>3
  <2>1. i + 1 \in DOMAIN infeed /\ j + 1 \in DOMAIN infeed /\ infeed[i + 1] = infeed[j + 1]
    BY <1>3
  <2>2. i + 1 = j + 1
    BY <2>1 DEF FeedInv
  <2> QED
    BY <2>2
<1>6. \A i \in DOMAIN infeed' : infeed'[i] # infeed[1] /\ \E j \in DOMAIN infeed : infeed'[i] = infeed[j]
  <2> SUFFICES ASSUME NEW i \in 1..n
               PROVE  infeed'[i] # infeed[1] /\ \E j \in DOMAIN infeed : infeed'[i] = infeed[j]
    BY <1>3
  <2>1. i + 1 \in DOMAIN infeed /\ 1 \in DOMAIN infeed /\ i + 1 # 1
    BY <1>3
  <2> QED
    BY <1>3, <2>1 DEF FeedInv
<1>7. /\ value'[p] = <<infeed[1]>> /\ value' = [q \in Process |-> value'[q]]
      /\ \A q \in Process : q # p => value'[q] = value[q] /\ (HoldsEntry(q)' <=> HoldsEntry(q))
  BY <1>1, <1>3, HoldersAfter
<1>8. HeldOnce'
  <2>1. \A i \in DOMAIN infeed' : value'[p] # <<infeed'[i]>>
    BY <1>6, <1>7
  <2>2. \A i \in DOMAIN outfeed' : value'[p] # outfeed'[i]
    BY <1>1, <1>3, <1>7 DEF FeedInv, FedOnce
  <2>3. ASSUME NEW q \in Process, q # p, HoldsEntry(q)'
        PROVE  /\ \A i \in DOMAIN infeed' : value'[q] # <<infeed'[i]>>
               /\ \A i \in DOMAIN outfeed' : value'[q] # outfeed'[i]
               /\ value'[q] # value'[p]
               /\ \A r \in Process : r # p /\ HoldsEntry(r)' /\ value'[q] = value'[r] => q = r
    <3>1. HoldsEntry(q) /\ value'[q] = value[q]
      BY <1>7, <2>3
    <3>2. \A i \in DOMAIN infeed : value[q] # <<infeed[i]>>
      BY <3>1 DEF FeedInv, HeldOnce
    <3>3. \A i \in DOMAIN infeed' : value'[q] # <<infeed'[i]>>
      BY <1>6, <3>1, <3>2
    <3>4. value'[q] # value'[p]
      BY <1>3, <1>7, <3>1, <3>2
    <3>5. \A i \in DOMAIN outfeed' : value'[q] # outfeed'[i]
      BY <1>1, <3>1 DEF FeedInv, HeldOnce
    <3>6. \A r \in Process : r # p /\ HoldsEntry(r)' /\ value'[q] = value'[r] => q = r
      BY <1>7, <3>1 DEF FeedInv, HeldOnce
    <3> QED
      BY <3>3, <3>4, <3>5, <3>6
  <2> QED
    BY <2>1, <2>2, <2>3 DEF HeldOnce
<1>9. FedOnce'
  <2>1. \A i \in DOMAIN outfeed : \A j \in DOMAIN infeed' : outfeed[i] # <<infeed'[j]>>
    BY <1>6 DEF FeedInv, FedOnce
  <2> QED
    BY <1>1, <2>1 DEF FeedInv, FedOnce
<1> QED
  BY <1>1, <1>4, <1>5, <1>7, <1>8, <1>9 DEF FeedInv

\* outfeed passes on what p holds, which p then holds no more.
LEMMA FeedOutfeed ==
  ASSUME DirectFeeds, TaskTypeOK, FeedInv, NEW p \in Process, OutfeedOp(p)
  PROVE  FeedInv'
<1>1. /\ HasOp(p) /\ Op(p).op = "outfeed" /\ NextOp(p, value[p]) /\ programs' = programs
      /\ outfeed' = Append(outfeed, value[p]) /\ infeed' = infeed
  BY DEF OutfeedOp
<1>2. HoldsEntry(p) /\ Op(p).op # "infeed"
  BY <1>1 DEF HoldsEntry
<1>3. \A q \in Process : HoldsEntry(q)' => q # p /\ HoldsEntry(q) /\ value'[q] = value[q]
  BY <1>1, <1>2, HoldersAfter
<1>4. PICK n \in Nat : n = Len(outfeed)
  BY DEF FeedInv
<1>5. /\ DOMAIN outfeed = 1..n /\ DOMAIN outfeed' = 1..n + 1
      /\ outfeed'[n + 1] = value[p] /\ \A i \in 1..n : outfeed'[i] = outfeed[i]
      /\ outfeed' \in Seq(ToSet(outfeed) \cup {value[p]})
  BY <1>1, <1>4 DEF FeedInv
<1>6. outfeed' \in Seq(ToSet(outfeed'))
  BY <1>5, SeqOfItsElements
<1>7. \A i \in DOMAIN outfeed' :
        \/ i = n + 1 /\ outfeed'[i] = value[p]
        \/ i \in DOMAIN outfeed /\ outfeed'[i] = outfeed[i]
  BY <1>5
<1>8. HeldOnce'
  <2> SUFFICES ASSUME NEW q \in Process, HoldsEntry(q)'
               PROVE  /\ \A i \in DOMAIN infeed' : value'[q] # <<infeed'[i]>>
                      /\ \A i \in DOMAIN outfeed' : value'[q] # outfeed'[i]
                      /\ \A r \in Process : HoldsEntry(r)' /\ value'[q] = value'[r] => q = r
    BY DEF HeldOnce
  <2>1. q # p /\ HoldsEntry(q) /\ value'[q] = value[q]
    BY <1>3
  <2>2. \A i \in DOMAIN infeed' : value'[q] # <<infeed'[i]>>
    BY <1>1, <2>1 DEF FeedInv, HeldOnce
  <2>3. value[q] # value[p] /\ \A i \in DOMAIN outfeed : value[q] # outfeed[i]
    BY <1>2, <2>1 DEF FeedInv, HeldOnce
  <2>4. \A r \in Process : HoldsEntry(r)' /\ value'[q] = value'[r] => q = r
    BY <1>3, <2>1 DEF FeedInv, HeldOnce
  <2> QED
    BY <1>7, <2>1, <2>2, <2>3, <2>4
<1>9. FedOnce'
  <2>1. /\ \A j \in DOMAIN infeed : value[p] # <<infeed[j]>>
        /\ \A j \in DOMAIN outfeed : value[p] # outfeed[j]
    BY <1>2 DEF FeedInv, HeldOnce
  <2>2. \A i, j \in DOMAIN outfeed' : i # j => outfeed'[i] # outfeed'[j]
    BY <1>7, <2>1 DEF FeedInv, FedOnce
  <2>3. \A i \in DOMAIN outfeed' : \A j \in DOMAIN infeed' : outfeed'[i] # <<infeed'[j]>>
    <3>1. \A i \in DOMAIN outfeed : \A j \in DOMAIN infeed : outfeed[i] # <<infeed[j]>>
      BY DEF FeedInv, FedOnce
    <3> QED
      BY <1>1, <1>7, <2>1, <3>1
  <2> QED
    BY <2>2, <2>3 DEF FedOnce
<1> QED
  BY <1>1, <1>2, <1>6, <1>8, <1>9, HoldersAfter DEF FeedInv

LEMMA FeedCollective ==
  ASSUME DirectFeeds, TaskTypeOK, FeedInv, NEW p \in Process, EvalCollective(p)
  PROVE  FeedInv'
<1>1. HasOp(p) /\ Op(p).op # "infeed"
  BY DEF EvalCollective, Collective, IsCollective, DeviceOps, PairwiseOps
<1> DEFINE gs == GroupsOf(Op(p))
<1>2. NoGroup(p, gs) \/ CallRendezvous(p, gs) \/ Compute(p, gs)
  BY DEF EvalCollective
<1> HIDE DEF gs
<1>3. CASE NoGroup(p, gs)
  BY <1>3, FeedFrame DEF NoGroup, Fail, taskVars, feedVars
<1>4. CASE CallRendezvous(p, gs)
  BY <1>4, FeedFrame DEF CallRendezvous, feedVars
<1>5. CASE Compute(p, gs)
  <2>1. CASE CannotCompute(Op(p), FindGroup(gs, p), gs, Operand(p))
    BY <1>5, <2>1, FeedFrame DEF Compute, Fail, taskVars, feedVars
  <2>2. CASE ~CannotCompute(Op(p), FindGroup(gs, p), gs, Operand(p))
    BY <1>1, <1>5, <2>2, FeedCompute DEF Compute, feedVars
  <2> QED
    BY <2>1, <2>2
<1> QED
  BY <1>2, <1>3, <1>4, <1>5

LEMMA FeedInit == InitRun /\ DirectFeeds => FeedInv
<1> SUFFICES ASSUME InitRun, DirectFeeds PROVE FeedInv
  OBVIOUS
<1>1. infeed = Infeed /\ outfeed = <<>> /\ pc = [p \in Process |-> 1] /\ programs \in Programs
  BY DEF InitRun
<1>2. \A p \in Process : ~HoldsEntry(p)
  <2> SUFFICES ASSUME NEW p \in Process, HoldsEntry(p) PROVE FALSE
    OBVIOUS
  <2>1. DOMAIN programs[p] = 1..Len(programs[p]) /\ Len(programs[p]) \in Nat
    BY <1>1, ProgramsAssumption
  <2>2. 1 \in DOMAIN programs[p] /\ programs[p][1].op = "outfeed"
    BY <1>1, <2>1 DEF HoldsEntry, HasOp, Op
  <2> QED
    BY <2>2 DEF DirectFeeds
<1>3. value = [p \in Process |-> value[p]]
  BY DEF InitRun
<1>4. outfeed \in Seq(ToSet(outfeed)) /\ DOMAIN outfeed = {}
  BY <1>1
<1> QED
  BY <1>1, <1>2, <1>3, <1>4 DEF FeedInv, HeldOnce, FedOnce, DirectFeeds

LEMMA FeedStep ==
  ASSUME RunInv, DirectFeeds, FeedInv, [NextRun]_runVars
  PROVE  FeedInv'
<1>1. TaskTypeOK
  BY DEF RunInv
<1>2. CASE \E p \in Process : InfeedOp(p) \/ OutfeedOp(p) \/ EvalCollective(p)
  BY <1>1, <1>2, FeedInfeed, FeedOutfeed, FeedCollective
<1>3. CASE ~\E p \in Process : InfeedOp(p) \/ OutfeedOp(p) \/ EvalCollective(p)
  <2>1. UNCHANGED <<programs, pc, value, infeed, outfeed>>
    BY <1>3 DEF runVars, taskVars, feedVars, NextRun, Async, StartTask, ReturnResults, Stay,
       Evaluate, FinishTask, InfeedEmpty, NoReplicaGroups, Fail, WaitRendezvous, TimeOutRendezvous
  <2> QED
    BY <2>1, FeedFrame
<1> QED
  BY <1>2, <1>3

\* For any grid, programs, infeed, number of workers and interleaving of the
\* threads at the two queues: if each outfeed op passes on what the op before it
\* took from an infeed of different entries, no entry reaches two ops; it is in
\* the infeed, with one process or in the outfeed.
THEOREM EntriesAreFedOnce == SpecRunParallel => [](DirectFeeds => FedOnce)
<1> DEFINE Inv == RunInv /\ (DirectFeeds => FeedInv)
<1>1. InitRun => Inv
  BY RunInit, FeedInit
<1>2. Inv /\ [NextRun]_runVars => Inv'
  BY RunStep, FeedStep, ProgramsConstant
<1>3. Inv => (DirectFeeds => FedOnce)
  BY DEF FeedInv
<1> HIDE DEF Inv
<1> QED
  BY <1>1, <1>2, <1>3, PTL DEF SpecRunParallel
=============================================================================
