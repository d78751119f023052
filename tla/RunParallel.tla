----------------------------- MODULE RunParallel -----------------------------
(***************************************************************************)
(* interpreter.run_parallel (stablehlo/reference/InterpreterOps.cpp): one  *)
(* task per StableHLO process, run by the workers of an LLVM thread pool,  *)
(* each of which evaluates its program op by op.  The collective ops of    *)
(* CollectiveOps meet in the rendezvous of Rendezvous; infeed and outfeed  *)
(* go through the two queues of the process grid.                          *)
(*                                                                         *)
(* A program is a sequence of ops, each of which takes the values that its *)
(* predecessor left.  The 3 seconds of wait_for are longer than any        *)
(* computation: a wait times out only when no thread can go on.            *)
(***************************************************************************)
EXTENDS Rendezvous, CollectivesSpec

CONSTANTS
  Programs,     \* the possible values of `programs`: a program per process
  Infeed,       \* the infeed attribute: what its functions return, in order
  Workers       \* the threads of the pool: hardware_concurrency()

ASSUME RunParallelAssumption ==
  /\ Process = ProcessIds
  /\ Workers \in Nat \ {0}

VARIABLES
  programs,    \* the programs of this run
  submitted,   \* how many tasks the main thread has given to the pool
  queue,       \* the tasks that no worker has taken yet
  running,     \* the tasks that a worker evaluates
  pc,          \* the index of the op a process evaluates
  value,       \* what its last op left: a vector of tensors
  calls,       \* the keys of the rendezvous calls made for the current op
  infeed,      \* the queue that infeed pops
  outfeed,     \* the queue that outfeed pushes to
  taskOutputs, \* what the finished tasks returned
  results      \* what run_parallel returned, or <<>>

rendezvousVars == <<values, result, useCount, at, asleep, contributed, returned>>
taskVars == <<pc, value, calls>>
feedVars == <<infeed, outfeed>>
poolVars == <<submitted, queue, running, taskOutputs, results>>
runVars == <<vars, programs, taskVars, feedVars, poolVars>>

-----------------------------------------------------------------------------
\* The process of each task: flatIndex is i * numPartitions + j.
Tasks == [n \in 1..NumReplicas * NumPartitions |->
            <<(n - 1) \div NumPartitions, (n - 1) % NumPartitions>>]

\* The inputs of p: two tensors of four elements, all different.
Argument(p) == [i \in 1..2 |-> [e \in 1..4 |-> << <<p, i, e>> >>]]

InitRun ==
  /\ Init
  /\ programs \in Programs
  /\ submitted = 0
  /\ queue = <<>>
  /\ running = {}
  /\ pc = [p \in Process |-> 1]
  /\ value = [p \in Process |-> Argument(p)]
  /\ calls = [p \in Process |-> <<>>]
  /\ infeed = Infeed
  /\ outfeed = <<>>
  /\ taskOutputs = [p \in Process |-> NoValue]
  /\ results = <<>>

Running(p) == fatal = "none" /\ p \in running /\ at[p] = NoKey
HasOp(p) == pc[p] <= Len(programs[p])
Op(p) == programs[p][pc[p]]
IsCollective(o) == o.op \in DeviceOps \cup PairwiseOps
Operand(p) == OperandsOf(Op(p), value[p])

\* A collective op that gets to its rendezvous calls, and the keys of those
\* that p makes for it.
Meets(o) == IsCollective(o) /\ ~CannotFlatten(o)
GroupsOf(o) == ProcessGroups(o, GetReplicaGroups(o))
KeysFor(o, p) == ChannelKeys(o, p, GroupsOf(o))

\* Programs are sequences of ops, and Key has the keys of their collectives.
ASSUME ProgramsAssumption ==
  \A program \in Programs, p \in Process :
    /\ DOMAIN program[p] = 1..Len(program[p]) /\ Len(program[p]) \in Nat
    /\ \A i \in DOMAIN program[p] : Meets(program[p][i]) => KeysFor(program[p][i], p) \in Seq(Key)

\* A key is a pair of a process group and a channel id.
ASSUME KeyAssumption == \A k \in Key : Group[k] = ToSet(k[1])

-----------------------------------------------------------------------------
\* The main thread makes the tasks in the order of replicas, then partitions.
Async ==
  /\ fatal = "none"
  /\ submitted < Len(Tasks)
  /\ submitted' = submitted + 1
  /\ queue' = Append(queue, Tasks[submitted + 1])
  /\ UNCHANGED <<vars, programs, taskVars, feedVars, running, taskOutputs, results>>

\* A free worker takes the oldest task.
StartTask ==
  /\ fatal = "none"
  /\ queue # <<>>
  /\ Cardinality(running) < Workers
  /\ running' = running \cup {Head(queue)}
  /\ queue' = Tail(queue)
  /\ UNCHANGED <<vars, programs, taskVars, feedVars, submitted, taskOutputs, results>>

\* The function returns: its values become the output of the task.
FinishTask(p) ==
  /\ Running(p)
  /\ ~HasOp(p)
  /\ running' = running \ {p}
  /\ taskOutputs' = [taskOutputs EXCEPT ![p] = value[p]]
  /\ UNCHANGED <<vars, programs, taskVars, feedVars, submitted, queue, results>>

\* taskGroup.wait() returns when every task is done; the outputs are returned
\* in the order of the tasks.
ReturnResults ==
  /\ fatal = "none"
  /\ results = <<>>
  /\ submitted = Len(Tasks)
  /\ \A p \in Process : taskOutputs[p] # NoValue
  /\ results' = FlattenSeq([i \in DOMAIN Tasks |-> taskOutputs[Tasks[i]]])
  /\ UNCHANGED <<vars, programs, taskVars, feedVars, submitted, queue, running, taskOutputs>>

-----------------------------------------------------------------------------
Fail(message) ==
  /\ fatal' = message
  /\ UNCHANGED <<rendezvousVars, programs, taskVars, feedVars, poolVars>>

\* The op of p is done and left v.
NextOp(p, v) ==
  /\ pc' = [pc EXCEPT ![p] = @ + 1]
  /\ value' = [value EXCEPT ![p] = v]
  /\ calls' = [calls EXCEPT ![p] = <<>>]

\* Faulty variant: the entry is read and not removed.
InfeedNoPop(p) ==
  /\ Running(p) /\ HasOp(p) /\ Op(p).op = "infeed"
  /\ infeed # <<>>
  /\ NextOp(p, <<Head(infeed)>>)
  /\ UNCHANGED <<vars, programs, feedVars, poolVars>>

\* infeed pops the queue; popping an empty std::queue is undefined.
InfeedOp(p) ==
  /\ Running(p) /\ HasOp(p) /\ Op(p).op = "infeed"
  /\ infeed # <<>>
  /\ NextOp(p, <<Head(infeed)>>)
  /\ infeed' = Tail(infeed)
  /\ UNCHANGED <<vars, programs, outfeed, poolVars>>

InfeedEmpty(p) ==
  /\ Running(p) /\ HasOp(p) /\ Op(p).op = "infeed"
  /\ infeed = <<>>
  /\ Fail("pop of an empty queue")

OutfeedOp(p) ==
  /\ Running(p) /\ HasOp(p) /\ Op(p).op = "outfeed"
  /\ NextOp(p, value[p])
  /\ outfeed' = Append(outfeed, value[p])
  /\ UNCHANGED <<vars, programs, infeed, poolVars>>

Collective(p) == Running(p) /\ HasOp(p) /\ IsCollective(Op(p))

NoReplicaGroups(p) ==
  /\ Collective(p)
  /\ CannotFlatten(Op(p))
  /\ Fail("Failed to flatten replica group mesh axes")

\* gs are the process groups of the op.
NoGroup(p, gs) ==
  /\ NotInAnyGroup(Op(p), p, gs)
  /\ Fail("Failed to find process group")

\* The next rendezvous call of the op.
CallRendezvous(p, gs) ==
  /\ ~NotInAnyGroup(Op(p), p, gs)
  /\ Len(calls[p]) < Len(ChannelKeys(Op(p), p, gs))
  /\ LET k == ChannelKeys(Op(p), p, gs)[Len(calls[p]) + 1] IN
     /\ Call(p, k, Operand(p))
     /\ calls' = [calls EXCEPT ![p] = Append(@, k)]
  /\ UNCHANGED <<programs, pc, value, feedVars, poolVars>>

\* Progress of a call that waits.
WaitRendezvous(p) ==
  /\ p \in running
  /\ Resume(p) \/ SpuriousWakeup(p) \/ BlockAgain(p)
  /\ UNCHANGED <<programs, taskVars, feedVars, poolVars>>

\* What the calls of the current op returned.
Got(p) == [i \in DOMAIN calls[p] |-> Last(returned[p][calls[p][i]])]

\* All calls have returned: compute the result of the op.
Compute(p, gs) ==
  /\ ~NotInAnyGroup(Op(p), p, gs)
  /\ Len(calls[p]) = Len(ChannelKeys(Op(p), p, gs))
  /\ IF CannotCompute(Op(p), FindGroup(gs, p), gs, Operand(p))
     THEN Fail("invalid operands")
     ELSE /\ NextOp(p, Result(Op(p), p, gs, Operand(p), Got(p)))
          /\ UNCHANGED <<vars, programs, feedVars, poolVars>>

\* A collective op starts by computing its process groups.
EvalCollective(p) ==
  /\ Collective(p)
  /\ ~CannotFlatten(Op(p))
  /\ \E gs \in {GroupsOf(Op(p))} :
       NoGroup(p, gs) \/ CallRendezvous(p, gs) \/ Compute(p, gs)

\* No thread can take a step other than waking up and blocking again.
Stuck ==
  /\ submitted = Len(Tasks)
  /\ queue = <<>> \/ Cardinality(running) = Workers
  /\ running # {}
  /\ \A p \in running : at[p] # NoKey /\ ~Full(values[at[p]], at[p])

\* Faulty variant: wait instead of wait_for.
TimeOutNever(p) == FALSE

TimeOutRendezvous(p) ==
  /\ Stuck
  /\ TimeOut(p)
  /\ UNCHANGED <<programs, taskVars, feedVars, poolVars>>

\* The run is over.
Over == results # <<>> \/ fatal # "none"
Stay == Over /\ UNCHANGED runVars

Evaluate(p) ==
  \/ FinishTask(p) \/ InfeedOp(p) \/ InfeedEmpty(p) \/ OutfeedOp(p)
  \/ NoReplicaGroups(p) \/ EvalCollective(p)

NextRun ==
  \/ Async \/ StartTask \/ ReturnResults \/ Stay
  \/ \E p \in Process : Evaluate(p) \/ WaitRendezvous(p) \/ TimeOutRendezvous(p)

\* The main thread and the workers are scheduled when they can go on, and the
\* clock advances.
Progress(p) == Evaluate(p) \/ (Resume(p) /\ WaitRendezvous(p)) \/ TimeOutRendezvous(p)
FairnessRun ==
  /\ WF_runVars(Async \/ ReturnResults)
  /\ WF_runVars(StartTask)
  /\ \A p \in Process : WF_runVars(Progress(p))

SpecRunParallel == InitRun /\ [][NextRun]_runVars /\ FairnessRun

-----------------------------------------------------------------------------
\* Programs in which every process runs the same ops, and in which these are
\* collectives.
SPMD == \A p, q \in Process : programs[p] = programs[q]
OnlyCollectives == \A p \in Process : \A i \in DOMAIN programs[p] : IsCollective(programs[p][i])

Expected == SpecRun(programs[CHOOSE p \in Process : TRUE],
                    [p \in Process |-> Argument(p)])

\* Whatever the interleaving of the threads, what run_parallel returns is what
\* docs/spec.md prescribes for the collective ops, up to the order of
\* reductions, process by process in the order of the tasks.
ResultsAreSpecified ==
  [][results' # results /\ SPMD /\ OnlyCollectives =>
       EqualUpToOrder(results', FlattenSeq([i \in DOMAIN Tasks |-> Expected[Tasks[i]]]))]_runVars

\* A program that all processes run never fails: no wait times out, because
\* the processes visit the keys of an op in the same order.
NoFailure == SPMD => fatal = "none"

\* The process groups of the collectives of this run are ones that the
\* verifiers accept.
ProgramsVerified ==
  \A p \in Process : \A i \in DOMAIN programs[p] :
    Meets(programs[p][i]) => GroupsVerified(programs[p][i], GroupsOf(programs[p][i]))

\* A program that all processes run, with a worker for each process, never gets
\* to where every thread waits in rendezvous for another one, whatever cycles
\* the pairs of its collective_permute ops form.
NeverStuck ==
  SPMD /\ ProgramsVerified /\ Cardinality(Process) <= Workers => ~Stuck

\* No op of this run fails by itself: an infeed finds an entry, the process
\* groups of a collective are accepted and have the process in them, its operands
\* can be split and its roots exist, and the members contribute as many operands.
OpsSucceed ==
  /\ ProgramsVerified
  /\ \A p \in Process : Running(p) /\ HasOp(p) =>
       /\ Op(p).op = "infeed" => infeed # <<>>
       /\ IsCollective(Op(p)) =>
            /\ ~CannotFlatten(Op(p))
            /\ ~NotInAnyGroup(Op(p), p, GroupsOf(Op(p)))
            /\ LET gs == GroupsOf(Op(p)) IN ~CannotCompute(Op(p), FindGroup(gs, p), gs, Operand(p))
  /\ \A k \in Key : HasMatchingOperandsCount(values[k]) /\ HasMatchingOperandsCount(result[k])

\* The run ends, with results or with a fatal error: "errors in underlying
\* StableHLO programs ... don't deadlock the interpreter" (ProcessGrid.h:256).
RunEnds == <>Over

\* No entry of the infeed reaches two ops: what the processes have passed on
\* to the outfeed is different and no longer in the infeed queue.
FedOnce ==
  \A i \in DOMAIN outfeed :
    /\ \A j \in DOMAIN outfeed : i # j => outfeed[i] # outfeed[j]
    /\ \A j \in DOMAIN infeed : outfeed[i] # <<infeed[j]>>

\* When run_parallel returns, nothing is left behind: no task is queued or
\* running, no process is inside rendezvous and every key's counter is 0.
QuietAtReturn ==
  results # <<>> =>
    /\ running = {} /\ queue = <<>> /\ asleep = {}
    /\ \A p \in Process : at[p] = NoKey
    /\ \A k \in Key : useCount[k] = 0

-----------------------------------------------------------------------------
(* The inductive strengthening used by RunParallelProofs.                   *)

TaskTypeOK ==
  /\ programs \in Programs
  /\ submitted \in 0..Len(Tasks)
  /\ queue \in Seq(Process)
  /\ running \in SUBSET Process
  /\ pc \in [Process -> Nat \ {0}]
  /\ calls \in [Process -> Seq(Key)]
  /\ taskOutputs = [p \in Process |-> taskOutputs[p]]

\* p has not been taken by a worker yet.
Pending(p) == p \notin running /\ taskOutputs[p] = NoValue

\* A task is submitted once, taken once, and finished before its output is
\* there; the results are there when all outputs are.
PoolInv ==
  /\ \A i \in submitted + 1..Len(Tasks) :
       Pending(Tasks[i]) /\ \A j \in 1..Len(queue) : queue[j] # Tasks[i]
  /\ \A i \in 1..Len(queue) :
       Pending(queue[i]) /\ \A j \in 1..Len(queue) : queue[i] = queue[j] => i = j
  /\ \A p \in running : taskOutputs[p] = NoValue
  /\ results # <<>> =>
       /\ fatal = "none" /\ submitted = Len(Tasks)
       /\ \A p \in Process : taskOutputs[p] # NoValue

\* Only processes that a worker evaluates are inside rendezvous, and each key
\* counts its own.
InsideInv ==
  /\ at \in [Process -> Key \cup {NoKey}]
  /\ useCount \in [Key -> Nat]
  /\ UseCountIsInside
  /\ \A p \in asleep : p \in Process /\ at[p] # NoKey
  /\ \A p \in Process : at[p] # NoKey => p \in running

\* From its submission by evalRunParallelOp to its output a task is in one place
\* of the thread pool, and only a running task is inside ProcessGrid::rendezvous.
RunInv == TaskTypeOK /\ PoolInv /\ InsideInv

\* A task that was submitted is queued or running, or has no op left.
PlacedInv ==
  \A i \in 1..submitted :
    \/ Tasks[i] \in running \/ ~HasOp(Tasks[i])
    \/ \E j \in 1..Len(queue) : queue[j] = Tasks[i]

\* How far p is, from what it has called: it has called every key of the ops
\* before its current one, and of that one the first keys, as many as calls
\* has; if p is inside rendezvous, it is with the last of them.
VisitedAll(p, o) == \A i \in DOMAIN KeysFor(o, p) : Calls(p, KeysFor(o, p)[i]) # 0
VisitedSome(p, o) ==
  /\ Len(calls[p]) <= Len(KeysFor(o, p))
  /\ \A i \in 1..Len(calls[p]) :
       calls[p][i] = KeysFor(o, p)[i] /\ Calls(p, calls[p][i]) # 0
Visits(p) ==
  /\ pc[p] <= Len(programs[p]) + 1
  /\ \A i \in 1..pc[p] - 1 : Meets(programs[p][i]) => VisitedAll(p, programs[p][i])
  /\ HasOp(p) /\ Meets(Op(p)) => VisitedSome(p, Op(p))
  /\ at[p] # NoKey => /\ HasOp(p) /\ Meets(Op(p)) /\ calls[p] # <<>>
                      /\ at[p] = calls[p][Len(calls[p])]
VisitInv == \A p \in Process : Visits(p)

\* Every outfeed op passes on what the op before it took from the infeed, whose
\* entries are all different.
DirectFeeds ==
  /\ Infeed \in Seq(ToSet(Infeed))
  /\ \A i, j \in DOMAIN Infeed : Infeed[i] = Infeed[j] => i = j
  /\ \A p \in Process : \A i \in DOMAIN programs[p] :
       programs[p][i].op = "outfeed" => i # 1 /\ programs[p][i - 1].op = "infeed"

\* An entry is in one place: in the infeed queue, in the hands of one process
\* that is about to pass it on, or in the outfeed queue.
HoldsEntry(p) == HasOp(p) /\ Op(p).op = "outfeed"
HeldOnce ==
  \A p \in Process : HoldsEntry(p) =>
    /\ \A i \in DOMAIN infeed : value[p] # <<infeed[i]>>
    /\ \A i \in DOMAIN outfeed : value[p] # outfeed[i]
    /\ \A q \in Process : HoldsEntry(q) /\ value[p] = value[q] => p = q
FeedInv ==
  /\ infeed \in Seq(ToSet(infeed)) /\ outfeed \in Seq(ToSet(outfeed))
  /\ value = [p \in Process |-> value[p]]
  /\ \A i, j \in DOMAIN infeed : infeed[i] = infeed[j] => i = j
  /\ HeldOnce /\ FedOnce

\* What a process contributes to a rendezvous is a vector of tensors.
OperandsAreTensors ==
  \A p \in Process : Collective(p) /\ ~CannotFlatten(Op(p)) => Operand(p) \in Operands

\* In a whole run, whatever the programs of the processes and however it ends,
\* the rendezvous of each key is in a state of the barrier: nobody has left
\* ProcessGrid::rendezvous before all members of its group have contributed, and
\* what a call returned is what every member contributed.
BarrierInRun == OperandsAreTensors /\ SingleUseInv
=============================================================================
