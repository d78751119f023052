------------------------------ MODULE Rendezvous ------------------------------
(***************************************************************************)
(* ProcessGrid::rendezvous of the StableHLO reference interpreter          *)
(* (stablehlo/reference/ProcessGrid.cpp): the barrier on which every       *)
(* collective op is built.  Each StableHLO process is an OS thread.  All   *)
(* the state of a channel key (a process group and a channel id) is read   *)
(* and written under the mutex of that key, so one critical section is     *)
(* one action; a thread gives the mutex up only inside `wait_for`.         *)
(*                                                                         *)
(* A process calls rendezvous with any key whose group it belongs to, in   *)
(* any order, and at most MaxCalls times with each key: MaxCalls = 1 are   *)
(* the programs in which every collective has a key of its own.            *)
(***************************************************************************)
EXTENDS Naturals, Sequences, FiniteSets

CONSTANTS
  Process,    \* the StableHLO processes, one OS thread each
  Key,        \* channel keys: (process group, channel id) pairs
  Group,      \* the members of the process group of each key
  Operands,   \* what a process may contribute: vectors of tensors
  NoValue,    \* no entry in a std::map<ProcessId, ...>
  NoKey,      \* the process is not inside rendezvous
  MaxCalls    \* bound on the calls of one process with one key

ASSUME RendezvousAssumption ==
  /\ IsFiniteSet(Process)
  /\ Group \in [Key -> SUBSET Process]
  /\ NoValue \notin Operands
  /\ NoKey \notin Key
  /\ MaxCalls \in Nat

VARIABLES
  values,       \* RendezvousState::values of each key, a map from processes
  result,       \* RendezvousState::result of each key
  useCount,     \* RendezvousState::useCount of each key
  at,           \* the key a process waits on inside rendezvous, or NoKey
  asleep,       \* the processes blocked in the condition variable of their key
  contributed,  \* history: the operands of each call, per process and key
  returned,     \* history: the maps that finished calls returned
  fatal         \* the message of llvm::report_fatal_error, or "none"

state == <<values, result, useCount>>
vars == <<values, result, useCount, at, asleep, contributed, returned, fatal>>

-----------------------------------------------------------------------------
Map == [Process -> Operands \cup {NoValue}]
EmptyMap == [p \in Process |-> NoValue]
Keys(m) == {p \in Process : m[p] # NoValue}

\* The processes inside rendezvous with key k.
Inside(k) == {p \in Process : at[p] = k}

\* Faulty variant: wait_for without a predicate, any wakeup will do.
FullUnchecked(m, k) == TRUE

\* The predicate every waiter tests: values.size() == processGroup.size().
Full(m, k) == Cardinality(Keys(m)) = Cardinality(Group[k])

\* RendezvousResult::hasMatchingOperandsCount.
HasMatchingOperandsCount(m) ==
  \A p, q \in Keys(m) : Len(m[p]) = Len(m[q])

Calls(p, k) == Len(contributed[p][k])

Init ==
  /\ values = [k \in Key |-> EmptyMap]
  /\ result = [k \in Key |-> EmptyMap]
  /\ useCount = [k \in Key |-> 0]
  /\ at = [p \in Process |-> NoKey]
  /\ asleep = {}
  /\ contributed = [p \in Process |-> [k \in Key |-> <<>>]]
  /\ returned = [p \in Process |-> [k \in Key |-> <<>>]]
  /\ fatal = "none"

-----------------------------------------------------------------------------
\* Process p starts a call with key k and operands v.
Enter(p, k, v) ==
  /\ fatal = "none"
  /\ at[p] = NoKey
  /\ p \in Group[k]
  /\ Calls(p, k) < MaxCalls
  /\ contributed' = [contributed EXCEPT ![p][k] = Append(@, v)]

Return(p, k, m) ==
  returned' = [returned EXCEPT ![p][k] = Append(@, m)]

\* A group of one process does not synchronize: the caller gets its own
\* operands back and the state of the key is not touched.
RendezvousAlone(p, k, v) ==
  /\ Enter(p, k, v)
  /\ Cardinality(Group[k]) = 1
  /\ Return(p, k, [EmptyMap EXCEPT ![p] = v])
  /\ UNCHANGED <<state, at, asleep, fatal>>

\* Faulty variants of Leave: every process moves the result out of the
\* state; a waiter forgets to decrement useCount.
LeaveAlwaysMoves(p, k, n, r) ==
  /\ useCount' = [useCount EXCEPT ![k] = n]
  /\ Return(p, k, r)
  /\ result' = [result EXCEPT ![k] = EmptyMap]
  /\ at' = [at EXCEPT ![p] = NoKey]
  /\ UNCHANGED fatal

LeaveNoDecrement(p, k, n, r) ==
  /\ Return(p, k, r)
  /\ result' = [result EXCEPT ![k] = r]
  /\ at' = [at EXCEPT ![p] = NoKey]
  /\ UNCHANGED <<useCount, fatal>>

\* The end of a call, from `useCount--` on, when the counter is n after the
\* decrement and r is the result: fail if the operand counts differ, else
\* return r, which the last process inside moves out of the state.
Leave(p, k, n, r) ==
  /\ useCount' = [useCount EXCEPT ![k] = n]
  /\ IF HasMatchingOperandsCount(r)
     THEN /\ Return(p, k, r)
          /\ result' = [result EXCEPT ![k] = IF n > 0 THEN r ELSE EmptyMap]
          /\ at' = [at EXCEPT ![p] = NoKey]
          /\ UNCHANGED fatal
     ELSE /\ fatal' = "Mismatched number of operands per process"
          /\ result' = [result EXCEPT ![k] = r]
          /\ at' = [at EXCEPT ![p] = k]
          /\ UNCHANGED returned

\* Not all processes of the group have contributed: wait for the last one.
Contribute(p, k, v) ==
  LET m == [values[k] EXCEPT ![p] = v] IN
  /\ Enter(p, k, v)
  /\ Cardinality(Group[k]) # 1
  /\ Cardinality(Keys(m)) < Cardinality(Group[k])
  /\ values' = [values EXCEPT ![k] = m]
  /\ useCount' = [useCount EXCEPT ![k] = @ + 1]
  /\ at' = [at EXCEPT ![p] = k]
  /\ asleep' = asleep \cup {p}
  /\ UNCHANGED <<result, returned, fatal>>

\* Faulty variants of Complete: no notify_all; useCount decremented by a
\* process that never incremented it.
CompleteNoNotify(p, k, v) ==
  LET m == [values[k] EXCEPT ![p] = v] IN
  /\ Enter(p, k, v)
  /\ Cardinality(Group[k]) # 1
  /\ Cardinality(Keys(m)) >= Cardinality(Group[k])
  /\ values' = [values EXCEPT ![k] = m]
  /\ Leave(p, k, useCount[k], m)
  /\ UNCHANGED asleep

CompleteNoIncrement(p, k, v) ==
  LET m == [values[k] EXCEPT ![p] = v] IN
  /\ Enter(p, k, v)
  /\ Cardinality(Group[k]) # 1
  /\ Cardinality(Keys(m)) >= Cardinality(Group[k])
  /\ values' = [values EXCEPT ![k] = m]
  /\ asleep' = asleep \ Inside(k)
  /\ Leave(p, k, useCount[k] - 1, m)

\* The map is complete: publish a copy of it as the result (RendezvousResult
\* takes the map by const reference, so `std::move(state.values)` leaves
\* values as it was), wake every waiter, and leave without waiting.
Complete(p, k, v) ==
  LET m == [values[k] EXCEPT ![p] = v] IN
  /\ Enter(p, k, v)
  /\ Cardinality(Group[k]) # 1
  /\ Cardinality(Keys(m)) >= Cardinality(Group[k])
  /\ values' = [values EXCEPT ![k] = m]
  /\ asleep' = asleep \ Inside(k)
  /\ Leave(p, k, useCount[k], m)

\* A waiter that has the mutex again and finds the predicate true.
Resume(p) ==
  \E k \in Key :
    /\ fatal = "none"
    /\ at[p] = k
    /\ p \notin asleep
    /\ Full(values[k], k)
    /\ Leave(p, k, useCount[k] - 1, result[k])
    /\ UNCHANGED <<values, asleep, contributed>>

\* A condition variable may wake a waiter that nobody notified.
SpuriousWakeup(p) ==
  /\ fatal = "none"
  /\ p \in asleep
  /\ asleep' = asleep \ {p}
  /\ UNCHANGED <<state, at, contributed, returned, fatal>>

\* A waiter that was woken and finds the predicate false blocks again.
BlockAgain(p) ==
  \E k \in Key :
    /\ fatal = "none"
    /\ at[p] = k
    /\ p \notin asleep
    /\ ~Full(values[k], k)
    /\ asleep' = asleep \cup {p}
    /\ UNCHANGED <<state, at, contributed, returned, fatal>>

\* Faulty variant: the predicate is not tested once more after the timeout.
TimeOutUnchecked(p) ==
  \E k \in Key :
    /\ fatal = "none"
    /\ at[p] = k
    /\ fatal' = "rendezvous timed out"
    /\ UNCHANGED <<state, at, asleep, contributed, returned>>

\* Three seconds have passed and the predicate is still false.
TimeOut(p) ==
  \E k \in Key :
    /\ fatal = "none"
    /\ at[p] = k
    /\ ~Full(values[k], k)
    /\ fatal' = "rendezvous timed out"
    /\ UNCHANGED <<state, at, asleep, contributed, returned>>

Call(p, k, v) ==
  RendezvousAlone(p, k, v) \/ Contribute(p, k, v) \/ Complete(p, k, v)

Wait(p) == Resume(p) \/ SpuriousWakeup(p) \/ BlockAgain(p) \/ TimeOut(p)

Next ==
  \E p \in Process :
    \/ \E k \in Key, v \in Operands : Call(p, k, v)
    \/ Wait(p)

\* A runnable thread is eventually scheduled.  Nothing obliges a process to
\* call rendezvous, and a timeout may come at any moment.
Fairness == \A p \in Process : WF_vars(Resume(p))

Spec == Init /\ [][Next]_vars
FairSpec == Spec /\ Fairness

-----------------------------------------------------------------------------
\* What is shared between the processes, and what each of them sees of it.
StateTypeOK ==
  /\ values \in [Key -> Map]
  /\ result \in [Key -> Map]
  /\ useCount \in [Key -> Nat]
  /\ at \in [Process -> Key \cup {NoKey}]
  /\ asleep \in SUBSET Process
  /\ contributed \in [Process -> [Key -> Seq(Operands)]]
  /\ returned \in [Process -> [Key -> Seq(Map)]]

TypeOK ==
  /\ StateTypeOK
  /\ fatal \in {"none", "rendezvous timed out",
                "Mismatched number of operands per process"}

\* "A call to this method represents a barrier, i.e. it blocks the calling
\* OS thread until all StableHLO processes from the processGroup call this
\* method" (ProcessGrid.h:248): nobody has returned from its i-th call with a
\* key before every member of the group has made its i-th call.
Barrier ==
  \A k \in Key : \A p, q \in Group[k] :
    Len(returned[p][k]) <= Calls(q, k)

\* What the i-th call with a key returns is what every member of the group
\* contributed to its own i-th call: nothing missing, nothing from another
\* round, and hence the same map for all members.
SameRound ==
  \A k \in Key : \A p, q \in Group[k] : \A i \in 1..Len(returned[p][k]) :
    /\ i <= Calls(q, k)
    /\ returned[p][k][i][q] = contributed[q][k][i]

\* No waiter sleeps on a barrier that is complete: notify_all is called in
\* the critical section that makes the predicate true, and the predicate
\* never becomes true elsewhere.
NoLostWakeup ==
  \A k \in Key : Full(values[k], k) => asleep \cap Inside(k) = {}

\* useCount counts the processes inside the call, so that exactly the last
\* one to leave moves the result out of the shared state.
UseCountIsInside ==
  fatal = "none" => \A k \in Key : useCount[k] = Cardinality(Inside(k))

\* A waiter whose barrier is complete finds a result from every member: the
\* map that hasMatchingOperandsCount dereferences has not been moved out.
ResultAvailable ==
  \A k \in Key :
    Full(values[k], k) /\ Inside(k) # {} => Keys(result[k]) = Group[k]

\* A timeout is never reported for a barrier that everybody has reached.
TimeOutOnlyWhenIncomplete ==
  fatal = "rendezvous timed out" =>
    \E k \in Key : Inside(k) # {} /\ \E q \in Group[k] : Calls(q, k) = 0

\* The documented barrier, with the local state of the implementation hidden.
Abstract == INSTANCE BarrierSpec WITH aborted <- fatal # "none"

\* rendezvous implements the documented barrier: every step is an arrival, a
\* departure, both at once, an abort, or invisible.
ImplementsBarrier == Abstract!Spec

-----------------------------------------------------------------------------
(* The inductive strengthenings used by RendezvousProofs.                   *)

\* What holds however often a key is used.
MonitorInv ==
  /\ StateTypeOK
  /\ UseCountIsInside
  /\ ResultAvailable
  /\ NoLostWakeup
  /\ \A k \in Key : Keys(values[k]) \subseteq Group[k]
  /\ \A p \in asleep : at[p] # NoKey
  /\ \A k \in Key : \A p \in Inside(k) :
       Cardinality(Group[k]) # 1 /\ p \in Keys(values[k])

\* Entries are never removed from the map of a key: a member of a group of
\* several processes has one if and only if it has ever called.
EntryPerCaller ==
  \A k \in Key : Cardinality(Group[k]) # 1 =>
    \A p \in Process : p \in Keys(values[k]) <=> Calls(p, k) # 0

\* The history of a key whose group has several members, used at most once.
SharedKeyInv(k) ==
  /\ \A p \in Process :
       /\ contributed[p][k] = <<>> =>
            /\ values[k][p] = NoValue
            /\ returned[p][k] = <<>>
       /\ contributed[p][k] # <<>> =>
            /\ Len(contributed[p][k]) = 1
            /\ values[k][p] = contributed[p][k][1]
       /\ returned[p][k] # <<>> =>
            /\ Len(returned[p][k]) = 1
            /\ returned[p][k][1] = values[k]
            /\ Keys(values[k]) = Group[k]
       /\ at[p] = k => returned[p][k] = <<>>
  /\ Full(values[k], k) /\ Inside(k) # {} => result[k] = values[k]

\* The history of a key whose group is one process.
AloneKeyInv(k) ==
  \A p \in Group[k] :
    /\ Len(returned[p][k]) = Len(contributed[p][k])
    /\ \A i \in 1..Len(returned[p][k]) :
         returned[p][k][i][p] = contributed[p][k][i]

SingleUseInv ==
  /\ MonitorInv
  /\ \A k \in Key : IF Cardinality(Group[k]) = 1 THEN AloneKeyInv(k)
                                               ELSE SharedKeyInv(k)

-----------------------------------------------------------------------------
\* Once every member has called, every member returns (or the program dies).
EveryoneReturns ==
  \A k \in Key :
    (\A q \in Group[k] : Calls(q, k) >= 1)
      ~> (fatal # "none" \/ \A q \in Group[k] : Len(returned[q][k]) >= 1)
=============================================================================
