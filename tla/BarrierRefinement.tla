--------------------------- MODULE BarrierRefinement ---------------------------
(***************************************************************************)
(* Rendezvous implements BarrierSpec when every key is used at most once:  *)
(* the initial states map to initial states, and every step of a process   *)
(* is an arrival, a departure, both at once, an abort, or invisible.       *)
(***************************************************************************)
EXTENDS RendezvousProofs

\* A full map of a shared key is what the members of its group contributed to
\* the first round.
LEMMA FullMapIsRound ==
  ASSUME NEW k \in Key, NEW m \in Map, Keys(m) = Group[k], NEW c,
         \A q \in Group[k] : m[q] = c[q][k][1]
  PROVE  m = Abstract!Round(c, k, 1)
<1>1. \A q \in Process : m[q] = IF q \in Group[k] THEN c[q][k][1] ELSE NoValue
  BY DEF Keys
<1>2. m = [q \in Process |-> m[q]]
  BY DEF Map
<1> QED
  BY <1>1, <1>2 DEF Abstract!Round

LEMMA RefineInit == Init => Abstract!Init
  BY DEF Init, Abstract!Init

\* A group of one: the process arrives and departs at once.
LEMMA RefineAlone ==
  ASSUME SingleUseInv, NEW p \in Process, NEW k \in Key, NEW v \in Operands,
         RendezvousAlone(p, k, v)
  PROVE  Abstract!ArriveAndDepart(p, k, v)
<1> DEFINE i == Len(returned[p][k]) + 1
           m == [EmptyMap EXCEPT ![p] = v]
<1>1. /\ p \in Group[k] /\ Cardinality(Group[k]) = 1
      /\ contributed \in [Process -> [Key -> Seq(Operands)]]
      /\ contributed' = [contributed EXCEPT ![p][k] = Append(@, v)]
      /\ returned' = [returned EXCEPT ![p][k] = Append(@, m)]
  BY DEF RendezvousAlone, Enter, Return, SingleUseInv, MonitorInv, StateTypeOK
<1>2. Group[k] = {p}
  <2>1. Group[k] \in SUBSET Process
    BY RendezvousAssumption
  <2>2. IsFiniteSet(Group[k])
    BY <2>1, CountProcesses
  <2> QED
    BY <1>1, <2>2, FS_Singleton
<1>3. Len(contributed[p][k]) = Len(returned[p][k])
  BY <1>1 DEF SingleUseInv, AloneKeyInv
<1>4. Len(contributed'[p][k]) = i /\ contributed'[p][k][i] = v /\ i \in Nat
  BY <1>1, <1>3, AppendEntry
<1>5. m = Abstract!Round(contributed', k, i)
  BY <1>2, <1>4 DEF EmptyMap, Abstract!Round
<1> HIDE DEF i, m
<1>6. Abstract!LeaveRound(p, k, i, contributed')
  BY <1>1, <1>2, <1>4, <1>5 DEF Abstract!LeaveRound
<1> QED
  BY <1>1, <1>3, <1>6 DEF Abstract!ArriveAndDepart, Abstract!MayArrive, i

\* The first call with a shared key may arrive.
LEMMA RefineEnter ==
  ASSUME MaxCalls = 1, SingleUseInv,
         NEW p \in Process, NEW k \in Key, NEW v \in Operands,
         Enter(p, k, v), Cardinality(Group[k]) # 1
  PROVE  /\ Abstract!MayArrive(p, k)
         /\ contributed' = [contributed EXCEPT ![p][k] = Append(@, v)]
         /\ Len(returned[p][k]) = 0
<1>1. contributed[p][k] = <<>> /\ returned[p][k] = <<>>
  BY FirstCall
<1> QED
  BY <1>1 DEF Enter, Abstract!MayArrive

\* The process that completes the barrier arrives and departs at once, or
\* aborts the run if the operand counts differ.
LEMMA RefineComplete ==
  ASSUME MaxCalls = 1, SingleUseInv,
         NEW p \in Process, NEW k \in Key, NEW v \in Operands,
         Complete(p, k, v)
  PROVE  \/ Abstract!ArriveAndDepart(p, k, v) /\ fatal' = fatal
         \/ Abstract!Arrive(p, k, v) /\ fatal' # "none"
<1> DEFINE m == [values[k] EXCEPT ![p] = v]
<1>1. /\ Enter(p, k, v) /\ Cardinality(Group[k]) # 1
      /\ Cardinality(Keys(m)) >= Cardinality(Group[k])
      /\ values' = [values EXCEPT ![k] = m] /\ values \in [Key -> Map]
      /\ Leave(p, k, useCount[k], m) /\ p \in Group[k]
  BY DEF Complete, Enter, SingleUseInv, MonitorInv, StateTypeOK
<1>2. /\ Abstract!MayArrive(p, k) /\ Len(returned[p][k]) = 0
      /\ contributed' = [contributed EXCEPT ![p][k] = Append(@, v)]
  BY <1>1, RefineEnter
<1>3. m \in Map /\ Keys(m) = Group[k]
  BY <1>1, NewMap DEF SingleUseInv
<1>4. \A q \in Group[k] : Len(contributed'[q][k]) = 1 /\ m[q] = contributed'[q][k][1]
  <2>1. SharedKeyInv(k)' /\ values'[k] = m
    BY <1>1, SingleUseComplete DEF SingleUseInv
  <2>2. Group[k] \subseteq Process
    BY RendezvousAssumption
  <2>3. \A q \in Group[k] : values'[k][q] # NoValue
    BY <1>3, <2>1, <2>2 DEF Keys
  <2> QED
    BY <2>1, <2>2, <2>3 DEF SharedKeyInv
<1>5. m = Abstract!Round(contributed', k, 1)
  <2> HIDE DEF m
  <2>1. \A q \in Group[k] : m[q] = contributed'[q][k][1]
    BY <1>4
  <2> QED
    BY <1>3, <2>1, FullMapIsRound, Zenon
<1>6. CASE HasMatchingOperandsCount(m)
  <2>1. returned' = [returned EXCEPT ![p][k] = Append(@, m)] /\ fatal' = fatal
    BY <1>1, <1>6 DEF Leave, Return
  <2> HIDE DEF m
  <2>2. Abstract!LeaveRound(p, k, 1, contributed')
    BY <1>4, <1>5, <2>1 DEF Abstract!LeaveRound
  <2>3. Len(returned[p][k]) + 1 = 1
    BY <1>2
  <2> QED
    BY <1>2, <2>1, <2>2, <2>3 DEF Abstract!ArriveAndDepart
<1>7. CASE ~HasMatchingOperandsCount(m)
  BY <1>1, <1>2, <1>7 DEF Leave, Abstract!Arrive
<1> QED
  BY <1>6, <1>7

\* A waiter that resumes departs, or aborts the run.
LEMMA RefineResume ==
  ASSUME SingleUseInv, NEW p \in Process, Resume(p)
  PROVE  \/ \E k \in Key : Abstract!Depart(p, k) /\ fatal' = fatal
         \/ UNCHANGED <<contributed, returned>> /\ fatal' # "none"
<1>1. PICK k \in Key :
        /\ at[p] = k /\ Full(values[k], k)
        /\ Leave(p, k, useCount[k] - 1, result[k])
        /\ UNCHANGED contributed
  BY DEF Resume
<1>2. p \in Inside(k) /\ values[k] \in Map /\ Keys(values[k]) = Group[k]
  <2>1. Keys(values[k]) \subseteq Group[k] /\ values[k] \in Map
    BY DEF SingleUseInv, MonitorInv, StateTypeOK
  <2> QED
    BY <1>1, <2>1, FullMap DEF Inside
<1>3. Cardinality(Group[k]) # 1 /\ SharedKeyInv(k)
  BY <1>2 DEF SingleUseInv, MonitorInv
<1>4. result[k] = values[k] /\ returned[p][k] = <<>> /\ p \in Group[k]
  BY <1>1, <1>2, <1>3 DEF SharedKeyInv, SingleUseInv, MonitorInv
<1>5. \A q \in Group[k] : Len(contributed[q][k]) = 1 /\ values[k][q] = contributed[q][k][1]
  BY <1>2, <1>3, RendezvousAssumption DEF SharedKeyInv, Keys
<1>6. values[k] = Abstract!Round(contributed, k, 1)
  BY <1>2, <1>5, FullMapIsRound
<1>7. CASE HasMatchingOperandsCount(result[k])
  <2>1. returned' = [returned EXCEPT ![p][k] = Append(@, values[k])] /\ fatal' = fatal
    BY <1>1, <1>4, <1>7 DEF Leave, Return
  <2>2. Len(contributed[p][k]) = 1 /\ Len(returned[p][k]) = 0
    BY <1>4, <1>5
  <2>3. Abstract!LeaveRound(p, k, Len(contributed[p][k]), contributed)
    BY <1>5, <1>6, <2>1, <2>2 DEF Abstract!LeaveRound
  <2>4. Abstract!Depart(p, k)
    BY <1>1, <2>2, <2>3 DEF Abstract!Depart
  <2> QED
    BY <2>1, <2>4
<1>8. CASE ~HasMatchingOperandsCount(result[k])
  BY <1>1, <1>8 DEF Leave
<1> QED
  BY <1>7, <1>8

\* Every step maps to a step of the barrier or to a stuttering step.
LEMMA RefineStep ==
  ASSUME MaxCalls = 1, SingleUseInv, [Next]_vars
  PROVE  [Abstract!Next]_Abstract!vars
<1>1. CASE UNCHANGED vars
  BY <1>1 DEF vars, Abstract!vars
<1>2. ASSUME NEW p \in Process, NEW k \in Key, NEW v \in Operands, RendezvousAlone(p, k, v)
      PROVE  Abstract!Next
  <2>1. fatal = "none" /\ fatal' = fatal
    BY <1>2 DEF RendezvousAlone, Enter
  <2> QED
    BY <1>2, <2>1, RefineAlone DEF Abstract!Next
<1>3. ASSUME NEW p \in Process, NEW k \in Key, NEW v \in Operands, Contribute(p, k, v)
      PROVE  Abstract!Next
  <2>1. /\ fatal = "none" /\ fatal' = fatal /\ returned' = returned
        /\ Enter(p, k, v) /\ Cardinality(Group[k]) # 1
    BY <1>3 DEF Contribute, Enter
  <2>2. Abstract!Arrive(p, k, v)
    BY <2>1, RefineEnter DEF Abstract!Arrive
  <2> QED
    BY <2>1, <2>2 DEF Abstract!Next
<1>4. ASSUME NEW p \in Process, NEW k \in Key, NEW v \in Operands, Complete(p, k, v)
      PROVE  Abstract!Next
  <2>1. fatal = "none"
    BY <1>4 DEF Complete, Enter
  <2> QED
    BY <1>4, <2>1, RefineComplete DEF Abstract!Next, Abstract!Abort
<1>5. ASSUME NEW p \in Process, Resume(p) PROVE Abstract!Next
  <2>1. fatal = "none"
    BY <1>5 DEF Resume
  <2> QED
    BY <1>5, <2>1, RefineResume DEF Abstract!Next, Abstract!Abort
<1>6. ASSUME NEW p \in Process, SpuriousWakeup(p) \/ BlockAgain(p)
      PROVE  UNCHANGED Abstract!vars
  BY <1>6 DEF SpuriousWakeup, BlockAgain, Abstract!vars
<1>7. ASSUME NEW p \in Process, TimeOut(p) PROVE Abstract!Next
  BY <1>7 DEF TimeOut, Abstract!Next, Abstract!Abort
<1> QED
  BY <1>1, <1>2, <1>3, <1>4, <1>5, <1>6, <1>7 DEF Next, Call, Wait

\* For any processes, groups and operands: if every key is used at most once,
\* rendezvous is the barrier that ProcessGrid.h documents.
THEOREM RendezvousIsBarrier == MaxCalls = 1 => (Spec => ImplementsBarrier)
<1> SUFFICES ASSUME MaxCalls = 1 PROVE Spec => ImplementsBarrier
  OBVIOUS
<1>1. SingleUseInv /\ [Next]_vars => [Abstract!Next]_Abstract!vars
  BY RefineStep
<1> QED
  BY <1>1, RefineInit, SingleUseInit, SingleUseStep, PTL
     DEF Spec, ImplementsBarrier, Abstract!Spec
=============================================================================
