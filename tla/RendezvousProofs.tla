--------------------------- MODULE RendezvousProofs ---------------------------
(***************************************************************************)
(* Proofs about Rendezvous for any processes, keys, groups and operands.   *)
(* MonitorInv holds for any number of calls with a key; SingleUseInv, and  *)
(* with it the barrier itself, when every key is used at most once.        *)
(***************************************************************************)
EXTENDS Rendezvous, FiniteSetTheorems, TLAPS

\* Sets of processes are finite, and joining or leaving one counts by one.
LEMMA CountProcesses ==
  ASSUME NEW S \in SUBSET Process
  PROVE  /\ IsFiniteSet(S)
         /\ Cardinality(S) \in Nat
         /\ Cardinality(S) = 0 <=> S = {}
         /\ \A p \in Process \ S : Cardinality(S \cup {p}) = Cardinality(S) + 1
         /\ \A p \in S : Cardinality(S \ {p}) = Cardinality(S) - 1
<1>1. IsFiniteSet(S)
  BY FS_Subset, RendezvousAssumption
<1>2. Cardinality(S) \in Nat
  BY <1>1, FS_CardinalityType
<1>3. Cardinality(S) = 0 <=> S = {}
  BY <1>1, FS_EmptySet
<1>4. \A p \in Process \ S : Cardinality(S \cup {p}) = Cardinality(S) + 1
  BY <1>1, FS_AddElement
<1>5. \A p \in S : Cardinality(S \ {p}) = Cardinality(S) - 1
  BY <1>1, FS_RemoveElement
<1> QED
  BY <1>1, <1>2, <1>3, <1>4, <1>5

\* A map of members of the group that is not smaller than the group has an
\* entry for every member.
LEMMA FullMap ==
  ASSUME NEW k \in Key, NEW m \in Map, Keys(m) \subseteq Group[k]
  PROVE  /\ Cardinality(Keys(m)) \in Nat
         /\ Cardinality(Group[k]) \in Nat
         /\ Cardinality(Keys(m)) >= Cardinality(Group[k]) => Keys(m) = Group[k]
         /\ Full(m, k) <=> Keys(m) = Group[k]
<1>1. Group[k] \in SUBSET Process /\ Keys(m) \in SUBSET Process
  BY RendezvousAssumption DEF Keys
<1>2. IsFiniteSet(Group[k]) /\ Cardinality(Group[k]) \in Nat
  BY <1>1, CountProcesses
<1>3. Cardinality(Keys(m)) \in Nat
  BY <1>1, CountProcesses
<1>4. /\ Cardinality(Keys(m)) <= Cardinality(Group[k])
      /\ Cardinality(Keys(m)) = Cardinality(Group[k]) => Keys(m) = Group[k]
  BY <1>2, FS_Subset
<1> QED
  BY <1>2, <1>3, <1>4 DEF Full

\* Writing the entry of one member.
LEMMA PutEntry ==
  ASSUME NEW k \in Key, NEW m \in Map, NEW p \in Process, NEW v \in Operands
  PROVE  /\ [m EXCEPT ![p] = v] \in Map
         /\ Keys([m EXCEPT ![p] = v]) = Keys(m) \cup {p}
  BY RendezvousAssumption DEF Map, Keys

LEMMA EmptyMapType == EmptyMap \in Map /\ Keys(EmptyMap) = {}
  BY DEF EmptyMap, Map, Keys

-----------------------------------------------------------------------------
LEMMA MonitorInit == Init => MonitorInv
<1> SUFFICES ASSUME Init PROVE MonitorInv
  OBVIOUS
<1>1. StateTypeOK
  BY EmptyMapType, RendezvousAssumption DEF Init, StateTypeOK
<1>2. \A k \in Key : Inside(k) = {}
  BY RendezvousAssumption DEF Init, Inside
<1>3. UseCountIsInside
  BY <1>2, CountProcesses, RendezvousAssumption DEF Init, UseCountIsInside
<1>4. ResultAvailable /\ NoLostWakeup
  BY <1>2 DEF ResultAvailable, NoLostWakeup
<1>5. \A k \in Key : Keys(values[k]) \subseteq Group[k]
  BY EmptyMapType DEF Init
<1> QED
  BY <1>1, <1>2, <1>3, <1>4, <1>5 DEF MonitorInv, Init

\* Appending to one entry of a table of histories.
LEMMA AppendEntry ==
  ASSUME NEW S, NEW f \in [Process -> [Key -> Seq(S)]],
         NEW p \in Process, NEW k \in Key, NEW v \in S,
         NEW g, g = [f EXCEPT ![p][k] = Append(@, v)]
  PROVE  /\ g \in [Process -> [Key -> Seq(S)]]
         /\ g[p][k] = Append(f[p][k], v)
         /\ Len(g[p][k]) = Len(f[p][k]) + 1
         /\ \A i \in 1..Len(f[p][k]) : g[p][k][i] = f[p][k][i]
         /\ g[p][k][Len(f[p][k]) + 1] = v
         /\ \A q \in Process, j \in Key : q # p \/ j # k => g[q][j] = f[q][j]
<1>1. f[p] \in [Key -> Seq(S)] /\ f[p][k] \in Seq(S)
  OBVIOUS
<1>2. Append(f[p][k], v) \in Seq(S)
  BY <1>1
<1>3. g = [f EXCEPT ![p] = [f[p] EXCEPT ![k] = Append(f[p][k], v)]]
  BY <1>1
<1>4. [f[p] EXCEPT ![k] = Append(f[p][k], v)] \in [Key -> Seq(S)]
  BY <1>1, <1>2
<1>5. g \in [Process -> [Key -> Seq(S)]]
  BY <1>3, <1>4
<1>6. g[p][k] = Append(f[p][k], v)
  BY <1>1, <1>3
<1>7. \A q \in Process, j \in Key : q # p \/ j # k => g[q][j] = f[q][j]
  BY <1>1, <1>3
<1> QED
  BY <1>1, <1>5, <1>6, <1>7

\* Leaving keeps the types when the counter does not fall below zero.
LEMMA LeaveType ==
  ASSUME StateTypeOK, NEW p \in Process, NEW k \in Key, NEW n \in Nat, NEW m \in Map,
         Leave(p, k, n, m)
  PROVE  /\ useCount' \in [Key -> Nat]
         /\ result' \in [Key -> Map]
         /\ at' \in [Process -> Key \cup {NoKey}]
         /\ returned' \in [Process -> [Key -> Seq(Map)]]
<1>1. CASE HasMatchingOperandsCount(m)
  <2>1. /\ returned \in [Process -> [Key -> Seq(Map)]]
        /\ returned' = [returned EXCEPT ![p][k] = Append(@, m)]
    BY <1>1 DEF Leave, Return, StateTypeOK
  <2>2. returned' \in [Process -> [Key -> Seq(Map)]]
    BY <2>1, AppendEntry
  <2> QED
    BY <1>1, <2>2, EmptyMapType DEF Leave, StateTypeOK
<1>2. CASE ~HasMatchingOperandsCount(m)
  BY <1>2 DEF Leave, StateTypeOK
<1> QED
  BY <1>1, <1>2

-----------------------------------------------------------------------------
\* The entry that a call writes, and the map that results.
LEMMA NewMap ==
  ASSUME MonitorInv, NEW p \in Process, NEW k \in Key, NEW v \in Operands,
         p \in Group[k],
         NEW m, m = [values[k] EXCEPT ![p] = v]
  PROVE  /\ m \in Map
         /\ Keys(m) = Keys(values[k]) \cup {p}
         /\ Keys(m) \subseteq Group[k]
         /\ Cardinality(Keys(m)) >= Cardinality(Group[k]) => Keys(m) = Group[k]
         /\ Full(m, k) <=> Keys(m) = Group[k]
         /\ Cardinality(Keys(m)) < Cardinality(Group[k]) => ~Full(m, k)
<1>1. values[k] \in Map /\ Keys(values[k]) \subseteq Group[k]
  BY DEF MonitorInv, StateTypeOK
<1>2. m \in Map /\ Keys(m) = Keys(values[k]) \cup {p}
  BY <1>1, PutEntry
<1>3. Keys(m) \subseteq Group[k]
  BY <1>1, <1>2
<1> QED
  BY <1>2, <1>3, FullMap DEF Full

LEMMA MonitorAlone ==
  ASSUME MonitorInv, NEW p \in Process, NEW k \in Key, NEW v \in Operands,
         RendezvousAlone(p, k, v)
  PROVE  MonitorInv'
<1>1. contributed' \in [Process -> [Key -> Seq(Operands)]]
  BY AppendEntry DEF MonitorInv, StateTypeOK, RendezvousAlone, Enter
<1>2. [EmptyMap EXCEPT ![p] = v] \in Map
  BY EmptyMapType, PutEntry
<1>3. returned' \in [Process -> [Key -> Seq(Map)]]
  <2>1. /\ returned \in [Process -> [Key -> Seq(Map)]]
        /\ returned' =
             [returned EXCEPT ![p][k] = Append(@, [EmptyMap EXCEPT ![p] = v])]
    BY DEF MonitorInv, StateTypeOK, RendezvousAlone, Return
  <2> QED
    BY <1>2, <2>1, AppendEntry
<1>4. StateTypeOK'
  BY <1>1, <1>3 DEF MonitorInv, StateTypeOK, RendezvousAlone, state
<1> QED
  BY <1>4 DEF MonitorInv, RendezvousAlone, state, UseCountIsInside, Inside,
              ResultAvailable, NoLostWakeup

LEMMA MonitorContribute ==
  ASSUME MonitorInv, NEW p \in Process, NEW k \in Key, NEW v \in Operands,
         Contribute(p, k, v)
  PROVE  MonitorInv'
<1> DEFINE m == [values[k] EXCEPT ![p] = v]
<1> USE DEF MonitorInv
<1>1. /\ fatal = "none" /\ at[p] = NoKey /\ p \in Group[k]
      /\ Cardinality(Group[k]) # 1
      /\ Cardinality(Keys(m)) < Cardinality(Group[k])
      /\ values' = [values EXCEPT ![k] = m]
      /\ useCount' = [useCount EXCEPT ![k] = useCount[k] + 1]
      /\ at' = [at EXCEPT ![p] = k]
      /\ asleep' = asleep \cup {p}
      /\ UNCHANGED <<result, returned, fatal>>
  BY DEF Contribute, Enter
<1>2. /\ m \in Map
      /\ Keys(m) = Keys(values[k]) \cup {p}
      /\ Keys(m) \subseteq Group[k]
      /\ ~Full(m, k)
  BY <1>1, NewMap
<1>3. contributed' \in [Process -> [Key -> Seq(Operands)]]
  BY AppendEntry DEF StateTypeOK, Contribute, Enter
<1> HIDE DEF m
<1>4. StateTypeOK'
  <2>1. values' \in [Key -> Map] /\ useCount' \in [Key -> Nat]
    BY <1>1, <1>2 DEF StateTypeOK
  <2>2. at' \in [Process -> Key \cup {NoKey}] /\ asleep' \in SUBSET Process
    BY <1>1 DEF StateTypeOK
  <2> QED
    BY <1>1, <1>3, <2>1, <2>2 DEF StateTypeOK
<1>5. /\ values'[k] = m
      /\ \A j \in Key : j # k => values'[j] = values[j]
  BY <1>1 DEF StateTypeOK
<1>6. /\ Inside(k)' = Inside(k) \cup {p} /\ p \notin Inside(k)
      /\ \A j \in Key : j # k => Inside(j)' = Inside(j)
  BY <1>1, RendezvousAssumption DEF StateTypeOK, Inside
<1>7. UseCountIsInside'
  <2>1. Inside(k) \in SUBSET Process
    BY DEF Inside
  <2>2. Cardinality(Inside(k)') = Cardinality(Inside(k)) + 1
    BY <1>6, <2>1, CountProcesses
  <2> QED
    BY <1>1, <1>6, <2>2 DEF UseCountIsInside, StateTypeOK
<1>8. ResultAvailable'
  BY <1>1, <1>2, <1>5, <1>6 DEF ResultAvailable, Full
<1>9. NoLostWakeup'
  <2> SUFFICES ASSUME NEW j \in Key, Full(values'[j], j)
               PROVE  asleep' \cap Inside(j)' = {}
    BY DEF NoLostWakeup, Full
  <2>1. j # k
    BY <1>2, <1>5
  <2>2. asleep \cap Inside(j) = {} /\ p \notin Inside(j)
    BY <1>1, <1>5, <2>1, RendezvousAssumption DEF NoLostWakeup, Inside
  <2> QED
    BY <1>1, <1>6, <2>1, <2>2
<1>10. (\A j \in Key : Keys(values[j]) \subseteq Group[j])'
  BY <1>2, <1>5 DEF Keys
<1>11. (\A q \in asleep : at[q] # NoKey)'
  BY <1>1, RendezvousAssumption DEF StateTypeOK
<1>12. (\A j \in Key : \A q \in Inside(j) :
          Cardinality(Group[j]) # 1 /\ q \in Keys(values[j]))'
  BY <1>1, <1>2, <1>5, <1>6 DEF Keys
<1> QED
  BY <1>4, <1>7, <1>8, <1>9, <1>10, <1>11, <1>12

LEMMA MonitorComplete ==
  ASSUME MonitorInv, NEW p \in Process, NEW k \in Key, NEW v \in Operands,
         Complete(p, k, v)
  PROVE  MonitorInv'
<1> DEFINE m == [values[k] EXCEPT ![p] = v]
<1> USE DEF MonitorInv
<1>1. /\ fatal = "none" /\ at[p] = NoKey /\ p \in Group[k]
      /\ Cardinality(Group[k]) # 1
      /\ Cardinality(Keys(m)) >= Cardinality(Group[k])
      /\ values' = [values EXCEPT ![k] = m]
      /\ asleep' = asleep \ Inside(k)
      /\ Leave(p, k, useCount[k], m)
  BY DEF Complete, Enter
<1>2. /\ m \in Map
      /\ Keys(m) = Keys(values[k]) \cup {p}
      /\ Keys(m) = Group[k]
  BY <1>1, NewMap
<1>3. contributed' \in [Process -> [Key -> Seq(Operands)]]
  BY AppendEntry DEF StateTypeOK, Complete, Enter
<1> HIDE DEF m
<1>4. StateTypeOK'
  <2>1. values' \in [Key -> Map] /\ asleep' \in SUBSET Process
    BY <1>1, <1>2 DEF StateTypeOK
  <2>2. useCount[k] \in Nat
    BY DEF StateTypeOK
  <2> QED
    BY <1>1, <1>2, <1>3, <2>1, <2>2, LeaveType DEF StateTypeOK
<1>5. /\ values'[k] = m
      /\ \A j \in Key : j # k => values'[j] = values[j] /\ result'[j] = result[j]
  BY <1>1 DEF StateTypeOK, Leave
<1>6. /\ Inside(k)' \subseteq Inside(k) \cup {p}
      /\ \A j \in Key : j # k => Inside(j)' = Inside(j)
      /\ fatal' = "none" => Inside(k)' = Inside(k)
  BY <1>1, RendezvousAssumption DEF StateTypeOK, Inside, Leave
<1>7. UseCountIsInside'
  BY <1>1, <1>6 DEF UseCountIsInside, Leave, StateTypeOK
<1>8. ResultAvailable'
  <2> SUFFICES ASSUME NEW j \in Key, Full(values'[j], j), Inside(j)' # {}
               PROVE  Keys(result'[j]) = Group[j]
    BY DEF ResultAvailable, Full, Keys
  <2>1. CASE j # k
    BY <2>1, <1>5, <1>6 DEF ResultAvailable
  <2>2. CASE j = k /\ fatal' = "none"
    <3>1. Inside(k) \in SUBSET Process /\ Inside(k) # {}
      BY <2>2, <1>6 DEF Inside
    <3>2. useCount[k] > 0
      BY <1>1, <3>1, CountProcesses DEF UseCountIsInside
    <3>3. result'[k] = m
      BY <1>1, <2>2, <3>2 DEF Leave, StateTypeOK
    <3> QED
      BY <2>2, <3>3, <1>2
  <2>3. CASE j = k /\ fatal' # "none"
    BY <2>3, <1>1, <1>2 DEF Leave, StateTypeOK
  <2> QED
    BY <2>1, <2>2, <2>3
<1>9. NoLostWakeup'
  <2>1. p \notin asleep
    BY <1>1
  <2> QED
    BY <1>1, <1>5, <1>6, <2>1 DEF NoLostWakeup, Full
<1>10. (\A j \in Key : Keys(values[j]) \subseteq Group[j])'
  BY <1>2, <1>5 DEF Keys
<1>11. (\A q \in asleep : at[q] # NoKey)'
  BY <1>1, RendezvousAssumption DEF StateTypeOK, Leave
<1>12. (\A j \in Key : \A q \in Inside(j) :
          Cardinality(Group[j]) # 1 /\ q \in Keys(values[j]))'
  BY <1>1, <1>2, <1>5, <1>6 DEF Keys
<1> QED
  BY <1>4, <1>7, <1>8, <1>9, <1>10, <1>11, <1>12

LEMMA MonitorResume ==
  ASSUME MonitorInv, NEW p \in Process, Resume(p)
  PROVE  MonitorInv'
<1> USE DEF MonitorInv
<1>1. PICK k \in Key :
        /\ fatal = "none" /\ at[p] = k /\ p \notin asleep
        /\ Full(values[k], k)
        /\ Leave(p, k, useCount[k] - 1, result[k])
        /\ UNCHANGED <<values, asleep, contributed>>
  BY DEF Resume
<1>2. /\ Inside(k) \in SUBSET Process /\ p \in Inside(k)
      /\ useCount[k] = Cardinality(Inside(k))
      /\ useCount[k] - 1 = Cardinality(Inside(k) \ {p})
      /\ useCount[k] - 1 \in Nat
      /\ useCount[k] - 1 = 0 <=> Inside(k) \ {p} = {}
  <2>1. Inside(k) \in SUBSET Process /\ p \in Inside(k)
    BY <1>1 DEF Inside
  <2>2. useCount[k] = Cardinality(Inside(k))
    BY <1>1 DEF UseCountIsInside
  <2>3. Cardinality(Inside(k) \ {p}) = Cardinality(Inside(k)) - 1
    BY <2>1, CountProcesses
  <2>4. /\ Cardinality(Inside(k) \ {p}) \in Nat
        /\ Cardinality(Inside(k) \ {p}) = 0 <=> Inside(k) \ {p} = {}
    <3>1. Inside(k) \ {p} \in SUBSET Process
      BY <2>1
    <3> QED
      BY <3>1, CountProcesses
  <2> QED
    BY <2>1, <2>2, <2>3, <2>4
<1>3. StateTypeOK'
  <2>1. result[k] \in Map
    BY DEF StateTypeOK
  <2> QED
    BY <1>1, <1>2, <2>1, LeaveType DEF StateTypeOK
<1>4. /\ fatal' = "none" => Inside(k)' = Inside(k) \ {p}
      /\ Inside(k)' \subseteq Inside(k)
      /\ \A j \in Key : j # k => Inside(j)' = Inside(j)
  BY <1>1, RendezvousAssumption DEF StateTypeOK, Inside, Leave
<1>5. UseCountIsInside'
  BY <1>1, <1>2, <1>4 DEF UseCountIsInside, Leave, StateTypeOK
<1>6. ResultAvailable'
  <2> SUFFICES ASSUME NEW j \in Key, Full(values[j], j), Inside(j)' # {}
               PROVE  Keys(result'[j]) = Group[j]
    BY <1>1 DEF ResultAvailable, Full, Keys
  <2>1. Keys(result[j]) = Group[j]
    BY <1>4 DEF ResultAvailable
  <2>2. result'[j] = result[j]
    <3>1. CASE j # k
      BY <3>1, <1>1 DEF Leave, StateTypeOK
    <3>2. CASE j = k /\ fatal' = "none"
      <4>1. useCount[k] - 1 > 0
        <5>1. Inside(k) \ {p} # {}
          BY <3>2, <1>4 DEF Inside
        <5>2. useCount[k] \in Nat
          BY DEF StateTypeOK
        <5> QED
          BY <5>1, <5>2, <1>2
      <4> QED
        BY <3>2, <4>1, <1>1 DEF Leave, StateTypeOK
    <3>3. CASE j = k /\ fatal' # "none"
      BY <3>3, <1>1 DEF Leave, StateTypeOK
    <3> QED
      BY <3>1, <3>2, <3>3
  <2> QED
    BY <2>1, <2>2
<1>7. NoLostWakeup'
  BY <1>1, <1>4 DEF NoLostWakeup, Full
<1>8. (\A q \in asleep : at[q] # NoKey)'
  BY <1>1, RendezvousAssumption DEF StateTypeOK, Leave
<1>9. (\A j \in Key : \A q \in Inside(j) :
          Cardinality(Group[j]) # 1 /\ q \in Keys(values[j]))'
  BY <1>1, <1>4 DEF Keys
<1> QED
  BY <1>1, <1>3, <1>5, <1>6, <1>7, <1>8, <1>9 DEF Keys

\* Steps that change only who sleeps, or end the program.
LEMMA MonitorFrame ==
  ASSUME MonitorInv,
         UNCHANGED <<values, result, useCount, at, contributed, returned>>,
         fatal' = "none" => fatal = "none",
         asleep' \in SUBSET Process,
         \A q \in asleep' : at[q] # NoKey,
         \A k \in Key : Full(values[k], k) => asleep' \cap Inside(k) = {}
  PROVE  MonitorInv'
<1> USE DEF MonitorInv
<1>1. StateTypeOK'
  BY DEF StateTypeOK
<1>2. \A k \in Key : Inside(k)' = Inside(k)
  BY DEF Inside
<1>3. \A k \in Key : /\ (Full(values[k], k))' <=> Full(values[k], k)
                     /\ Keys(values[k])' = Keys(values[k])
                     /\ Keys(result[k])' = Keys(result[k])
  BY DEF Full, Keys
<1>4. UseCountIsInside'
  BY <1>2 DEF UseCountIsInside
<1>5. ResultAvailable'
  BY <1>2, <1>3 DEF ResultAvailable
<1>6. NoLostWakeup'
  BY <1>2, <1>3 DEF NoLostWakeup
<1> QED
  BY <1>1, <1>2, <1>3, <1>4, <1>5, <1>6

LEMMA MonitorWaiting ==
  ASSUME MonitorInv, NEW p \in Process,
         SpuriousWakeup(p) \/ BlockAgain(p) \/ TimeOut(p)
  PROVE  MonitorInv'
<1>1. CASE SpuriousWakeup(p)
  BY <1>1, MonitorFrame DEF SpuriousWakeup, state, MonitorInv, NoLostWakeup, StateTypeOK
<1>2. CASE BlockAgain(p)
  <2>1. PICK k \in Key : /\ at[p] = k /\ ~Full(values[k], k)
                         /\ asleep' = asleep \cup {p}
                         /\ UNCHANGED <<state, at, contributed, returned, fatal>>
    BY <1>2 DEF BlockAgain
  <2>2. \A j \in Key : Full(values[j], j) => asleep' \cap Inside(j) = {}
    BY <2>1 DEF NoLostWakeup, Inside, MonitorInv
  <2> QED
    BY <2>1, <2>2, MonitorFrame, RendezvousAssumption
       DEF state, MonitorInv, StateTypeOK
<1>3. CASE TimeOut(p)
  BY <1>3, MonitorFrame DEF TimeOut, state, MonitorInv, NoLostWakeup, StateTypeOK
<1> QED
  BY <1>1, <1>2, <1>3

LEMMA MonitorStep == MonitorInv /\ [Next]_vars => MonitorInv'
<1> SUFFICES ASSUME MonitorInv, [Next]_vars PROVE MonitorInv'
  OBVIOUS
<1>1. CASE UNCHANGED vars
  BY <1>1, MonitorFrame DEF vars, MonitorInv, NoLostWakeup, StateTypeOK
<1>2. CASE Next
  BY <1>2, MonitorAlone, MonitorContribute, MonitorComplete, MonitorResume,
     MonitorWaiting DEF Next, Call, Wait
<1> QED
  BY <1>1, <1>2

\* Whatever the program does, and however often it uses a key, the state of
\* rendezvous is well typed: in particular the unsigned useCount never
\* wraps below zero.
THEOREM TypeCorrect == Spec => []TypeOK
<1> DEFINE Messages == {"none", "rendezvous timed out",
                        "Mismatched number of operands per process"}
           Known == fatal \in Messages
<1>1. Init => Known
  BY DEF Init
<1>2. Known /\ [Next]_vars => Known'
  <2> SUFFICES ASSUME Known, [Next]_vars PROVE fatal' \in Messages
    OBVIOUS
  <2>1. ASSUME NEW p, NEW k, NEW n, NEW r, Leave(p, k, n, r) PROVE fatal' \in Messages
    BY <2>1 DEF Leave
  <2>2. ASSUME NEW p, NEW k, NEW v, Call(p, k, v) PROVE fatal' \in Messages
    BY <2>1, <2>2 DEF Call, RendezvousAlone, Contribute, Complete
  <2>3. ASSUME NEW p, Wait(p) PROVE fatal' \in Messages
    BY <2>1, <2>3 DEF Wait, Resume, SpuriousWakeup, BlockAgain, TimeOut
  <2> QED
    BY <2>2, <2>3 DEF Next, vars
<1>3. MonitorInv /\ Known => TypeOK
  BY DEF MonitorInv, TypeOK
<1> HIDE DEF Known
<1> QED
  BY <1>1, <1>2, <1>3, MonitorInit, MonitorStep, PTL DEF Spec

\* Whatever the program does, the counter equals the number of processes
\* inside, so that exactly the last one to leave moves the result out of the
\* shared state, and a complete barrier has a result for each of its waiters.
THEOREM MonitorCorrect == Spec => []MonitorInv
  BY MonitorInit, MonitorStep, PTL DEF Spec

\* Whatever the program does, nobody sleeps on a barrier that is complete.
THEOREM WaitersAreWoken == Spec => []NoLostWakeup
<1>1. MonitorInv => NoLostWakeup
  BY DEF MonitorInv
<1> QED
  BY <1>1, MonitorCorrect, PTL

-----------------------------------------------------------------------------
(* Timeouts.                                                                *)

LEMMA EntryInit == Init => EntryPerCaller
  BY EmptyMapType DEF Init, EntryPerCaller, Calls

\* A call by p with a shared key k puts the entry of p.
LEMMA EntryCall ==
  ASSUME MonitorInv, EntryPerCaller,
         NEW p \in Process, NEW k \in Key, NEW v \in Operands,
         Contribute(p, k, v) \/ Complete(p, k, v)
  PROVE  EntryPerCaller'
<1> DEFINE m == [values[k] EXCEPT ![p] = v]
<1>1. /\ values' = [values EXCEPT ![k] = m]
      /\ contributed' = [contributed EXCEPT ![p][k] = Append(@, v)]
      /\ values \in [Key -> Map]
      /\ contributed \in [Process -> [Key -> Seq(Operands)]]
  BY DEF Contribute, Complete, Enter, MonitorInv, StateTypeOK
<1>2. Keys(m) = Keys(values[k]) \cup {p}
  BY <1>1, PutEntry
<1>3. /\ Len(contributed'[p][k]) = Len(contributed[p][k]) + 1
      /\ Len(contributed[p][k]) \in Nat
      /\ \A q \in Process, j \in Key :
           q # p \/ j # k => contributed'[q][j] = contributed[q][j]
  BY <1>1, AppendEntry
<1> HIDE DEF m
<1>4. values'[k] = m /\ \A j \in Key : j # k => values'[j] = values[j]
  BY <1>1
<1> SUFFICES ASSUME NEW j \in Key, Cardinality(Group[j]) # 1, NEW q \in Process
             PROVE  q \in Keys(values'[j]) <=> Len(contributed'[q][j]) # 0
  BY DEF EntryPerCaller, Calls, Keys
<1>5. q \in Keys(values[j]) <=> Len(contributed[q][j]) # 0
  BY DEF EntryPerCaller, Calls
<1>6. CASE j # k
  BY <1>3, <1>4, <1>5, <1>6
<1>7. CASE j = k /\ q # p
  BY <1>2, <1>3, <1>4, <1>5, <1>7
<1>8. CASE j = k /\ q = p
  BY <1>2, <1>3, <1>4, <1>8
<1> QED
  BY <1>6, <1>7, <1>8

LEMMA EntryAlone ==
  ASSUME MonitorInv, EntryPerCaller,
         NEW p \in Process, NEW k \in Key, NEW v \in Operands,
         RendezvousAlone(p, k, v)
  PROVE  EntryPerCaller'
<1>1. /\ values' = values /\ Cardinality(Group[k]) = 1
      /\ contributed \in [Process -> [Key -> Seq(Operands)]]
      /\ contributed' = [contributed EXCEPT ![p][k] = Append(@, v)]
  BY DEF RendezvousAlone, Enter, state, MonitorInv, StateTypeOK
<1>2. \A q \in Process, j \in Key : j # k => contributed'[q][j] = contributed[q][j]
  BY <1>1, AppendEntry
<1> QED
  BY <1>1, <1>2 DEF EntryPerCaller, Calls

LEMMA EntryStep == MonitorInv /\ EntryPerCaller /\ [Next]_vars => EntryPerCaller'
<1> SUFFICES ASSUME MonitorInv, EntryPerCaller, [Next]_vars PROVE EntryPerCaller'
  OBVIOUS
<1>1. ASSUME UNCHANGED <<values, contributed>> PROVE EntryPerCaller'
  BY <1>1 DEF EntryPerCaller, Calls
<1>2. CASE UNCHANGED vars
  BY <1>1, <1>2 DEF vars
<1>3. ASSUME NEW p \in Process, Wait(p) PROVE EntryPerCaller'
  BY <1>1, <1>3 DEF Wait, Resume, SpuriousWakeup, BlockAgain, TimeOut, state
<1>4. CASE Next
  BY <1>3, <1>4, EntryCall, EntryAlone DEF Next, Call
<1> QED
  BY <1>2, <1>4

\* However often keys are reused, "rendezvous timed out" is reported only when
\* some process waits with a key that a member of the group has never used.
THEOREM TimeOutMeansIncomplete == Spec => []TimeOutOnlyWhenIncomplete
<1> DEFINE Inv == MonitorInv /\ EntryPerCaller /\ TimeOutOnlyWhenIncomplete
<1>1. Init => Inv
  BY MonitorInit, EntryInit DEF Init, TimeOutOnlyWhenIncomplete
<1>2. Inv /\ [Next]_vars => Inv'
  <2> SUFFICES ASSUME Inv, [Next]_vars PROVE TimeOutOnlyWhenIncomplete'
    BY MonitorStep, EntryStep
  <2>1. CASE UNCHANGED vars
    BY <2>1 DEF vars, TimeOutOnlyWhenIncomplete, Inside, Calls
  <2>2. CASE fatal' # "rendezvous timed out"
    BY <2>2 DEF TimeOutOnlyWhenIncomplete
  <2>3. ASSUME NEW p \in Process, TimeOut(p) PROVE TimeOutOnlyWhenIncomplete'
    <3>1. PICK k \in Key : at[p] = k /\ ~Full(values[k], k)
      BY <2>3 DEF TimeOut
    <3>2. UNCHANGED <<at, contributed>>
      BY <2>3 DEF TimeOut
    <3>3. p \in Inside(k) /\ Cardinality(Group[k]) # 1
      BY <3>1 DEF Inside, MonitorInv
    <3>4. values[k] \in Map /\ Keys(values[k]) \subseteq Group[k]
      BY DEF MonitorInv, StateTypeOK
    <3>5. PICK q \in Group[k] : q \notin Keys(values[k])
      BY <3>1, <3>4, FullMap
    <3>6. q \in Process
      BY RendezvousAssumption
    <3>7. Calls(q, k) = 0
      BY <3>3, <3>5, <3>6 DEF EntryPerCaller
    <3> QED
      BY <3>2, <3>3, <3>7 DEF TimeOutOnlyWhenIncomplete, Inside, Calls
  <2>4. ASSUME Next, fatal' = "rendezvous timed out" PROVE \E p \in Process : TimeOut(p)
    <3>1. ASSUME NEW p \in Process, NEW k \in Key, NEW n, NEW r, Leave(p, k, n, r), fatal = "none"
          PROVE  fatal' # "rendezvous timed out"
      BY <3>1 DEF Leave
    <3>2. ASSUME NEW p \in Process, NEW k \in Key, NEW v \in Operands, Call(p, k, v)
          PROVE  fatal' # "rendezvous timed out"
      BY <3>1, <3>2 DEF Call, RendezvousAlone, Contribute, Complete, Enter
    <3>3. ASSUME NEW p \in Process, Resume(p) \/ SpuriousWakeup(p) \/ BlockAgain(p)
          PROVE  fatal' # "rendezvous timed out"
      BY <3>1, <3>3 DEF Resume, SpuriousWakeup, BlockAgain
    <3> QED
      BY <2>4, <3>2, <3>3 DEF Next, Wait
  <2> QED
    BY <2>1, <2>2, <2>3, <2>4
<1> QED
  BY <1>1, <1>2, PTL DEF Spec

-----------------------------------------------------------------------------
(* Keys that are used once.                                                 *)

\* A step that does not concern key j keeps what holds of j.
LEMMA KeyFrame ==
  ASSUME NEW j \in Key,
         values'[j] = values[j], result'[j] = result[j],
         \A q \in Process : /\ contributed'[q][j] = contributed[q][j]
                            /\ returned'[q][j] = returned[q][j]
                            /\ at'[q] = j <=> at[q] = j
  PROVE  /\ AloneKeyInv(j) => AloneKeyInv(j)'
         /\ SharedKeyInv(j) => SharedKeyInv(j)'
<1>1. Group[j] \subseteq Process
  BY RendezvousAssumption
<1>2. AloneKeyInv(j) => AloneKeyInv(j)'
  BY <1>1 DEF AloneKeyInv
<1>3. Inside(j)' = Inside(j)
  BY DEF Inside
<1>4. Keys(values[j])' = Keys(values[j]) /\ (Full(values[j], j)' <=> Full(values[j], j))
  BY DEF Keys, Full
<1>5. SharedKeyInv(j) => SharedKeyInv(j)'
  BY <1>3, <1>4 DEF SharedKeyInv
<1> QED
  BY <1>2, <1>5

LEMMA SingleUseInit == Init => SingleUseInv
<1> SUFFICES ASSUME Init PROVE SingleUseInv
  OBVIOUS
<1>1. \A k \in Key : AloneKeyInv(k)
  BY RendezvousAssumption DEF Init, AloneKeyInv
<1>2. \A k \in Key : Inside(k) = {}
  BY RendezvousAssumption DEF Init, Inside
<1>3. \A k \in Key : SharedKeyInv(k)
  BY <1>2, RendezvousAssumption DEF Init, SharedKeyInv, EmptyMap
<1> QED
  BY <1>1, <1>3, MonitorInit DEF SingleUseInv

LEMMA SingleUseAlone ==
  ASSUME SingleUseInv, NEW p \in Process, NEW k \in Key, NEW v \in Operands,
         RendezvousAlone(p, k, v)
  PROVE  SingleUseInv'
<1> DEFINE m == [EmptyMap EXCEPT ![p] = v]
<1>1. /\ contributed \in [Process -> [Key -> Seq(Operands)]]
      /\ returned \in [Process -> [Key -> Seq(Map)]]
      /\ contributed' = [contributed EXCEPT ![p][k] = Append(@, v)]
      /\ returned' = [returned EXCEPT ![p][k] = Append(@, m)]
      /\ p \in Group[k] /\ Cardinality(Group[k]) = 1
      /\ UNCHANGED <<values, result, useCount, at, asleep, fatal>>
  BY DEF RendezvousAlone, Enter, Return, state, SingleUseInv, MonitorInv, StateTypeOK
<1>2. m \in Map /\ m[p] = v
  BY EmptyMapType, PutEntry DEF EmptyMap
<1> HIDE DEF m
<1>3. /\ Len(contributed'[p][k]) = Len(contributed[p][k]) + 1
      /\ \A i \in 1..Len(contributed[p][k]) :
           contributed'[p][k][i] = contributed[p][k][i]
      /\ contributed'[p][k][Len(contributed[p][k]) + 1] = v
      /\ \A q \in Process, j \in Key :
           q # p \/ j # k => contributed'[q][j] = contributed[q][j]
  BY <1>1, AppendEntry
<1>4. /\ Len(returned'[p][k]) = Len(returned[p][k]) + 1
      /\ \A i \in 1..Len(returned[p][k]) : returned'[p][k][i] = returned[p][k][i]
      /\ returned'[p][k][Len(returned[p][k]) + 1] = m
      /\ \A q \in Process, j \in Key :
           q # p \/ j # k => returned'[q][j] = returned[q][j]
  BY <1>1, <1>2, AppendEntry
<1>5. \A q \in Group[k] : q = p
  <2>1. Group[k] \in SUBSET Process
    BY RendezvousAssumption
  <2>2. IsFiniteSet(Group[k])
    BY <2>1, CountProcesses
  <2> QED
    BY <1>1, <2>2, FS_Singleton
<1>6. AloneKeyInv(k)'
  <2>1. /\ Len(returned[p][k]) = Len(contributed[p][k])
        /\ Len(returned[p][k]) \in Nat
        /\ \A i \in 1..Len(returned[p][k]) :
             returned[p][k][i][p] = contributed[p][k][i]
    BY <1>1 DEF SingleUseInv, AloneKeyInv
  <2>2. \A i \in 1..Len(returned'[p][k]) :
          returned'[p][k][i][p] = contributed'[p][k][i]
    <3> SUFFICES ASSUME NEW i \in 1..(Len(returned[p][k]) + 1)
                 PROVE  returned'[p][k][i][p] = contributed'[p][k][i]
      BY <1>4
    <3>1. CASE i = Len(returned[p][k]) + 1
      BY <3>1, <1>2, <1>3, <1>4, <2>1
    <3>2. CASE i \in 1..Len(returned[p][k])
      BY <3>2, <1>3, <1>4, <2>1
    <3> QED
      BY <3>1, <3>2, <2>1
  <2>3. Len(returned'[p][k]) = Len(contributed'[p][k])
    BY <1>3, <1>4, <2>1
  <2> SUFFICES ASSUME NEW q \in Group[k]
               PROVE  /\ Len(returned'[q][k]) = Len(contributed'[q][k])
                      /\ \A i \in 1..Len(returned'[q][k]) :
                           returned'[q][k][i][q] = contributed'[q][k][i]
    BY DEF AloneKeyInv
  <2>4. q = p
    BY <1>5
  <2> QED
    BY <2>2, <2>3, <2>4
<1>7. \A j \in Key : j # k =>
        /\ AloneKeyInv(j) => AloneKeyInv(j)'
        /\ SharedKeyInv(j) => SharedKeyInv(j)'
  BY <1>1, <1>3, <1>4, KeyFrame
<1>8. MonitorInv'
  BY MonitorAlone DEF SingleUseInv
<1> QED
  BY <1>1, <1>6, <1>7, <1>8 DEF SingleUseInv

\* The first call of a process with a shared key: its entry was missing, so
\* nobody can have returned yet.
LEMMA FirstCall ==
  ASSUME MaxCalls = 1, SingleUseInv,
         NEW p \in Process, NEW k \in Key, NEW v \in Operands,
         Cardinality(Group[k]) # 1, Enter(p, k, v)
  PROVE  /\ SharedKeyInv(k)
         /\ at[p] = NoKey /\ p \in Group[k]
         /\ contributed[p][k] = <<>> /\ values[k][p] = NoValue
         /\ \A q \in Process : returned[q][k] = <<>>
         /\ contributed'[p][k] = <<v>>
         /\ \A q \in Process, j \in Key :
              q # p \/ j # k => contributed'[q][j] = contributed[q][j]
<1>1. SharedKeyInv(k)
  BY DEF SingleUseInv
<1>2. /\ contributed \in [Process -> [Key -> Seq(Operands)]]
      /\ contributed' = [contributed EXCEPT ![p][k] = Append(@, v)]
      /\ Len(contributed[p][k]) < 1
      /\ at[p] = NoKey /\ p \in Group[k]
  BY DEF Enter, Calls, SingleUseInv, MonitorInv, StateTypeOK
<1>3. contributed[p][k] = <<>>
  <2>1. contributed[p][k] \in Seq(Operands)
    BY <1>2
  <2> QED
    BY <1>2, <2>1
<1>4. values[k][p] = NoValue
  BY <1>1, <1>3 DEF SharedKeyInv
<1>5. \A q \in Process : returned[q][k] = <<>>
  BY <1>1, <1>2, <1>4 DEF SharedKeyInv, Keys
<1>6. /\ contributed'[p][k] = Append(contributed[p][k], v)
      /\ \A q \in Process, j \in Key :
           q # p \/ j # k => contributed'[q][j] = contributed[q][j]
  BY <1>2, AppendEntry
<1>7. contributed'[p][k] = <<v>>
  BY <1>3, <1>6
<1> QED
  BY <1>1, <1>2, <1>3, <1>4, <1>5, <1>6, <1>7

LEMMA SingleUseContribute ==
  ASSUME MaxCalls = 1, SingleUseInv,
         NEW p \in Process, NEW k \in Key, NEW v \in Operands,
         Contribute(p, k, v)
  PROVE  SingleUseInv'
<1> DEFINE m == [values[k] EXCEPT ![p] = v]
<1>1. /\ Enter(p, k, v) /\ Cardinality(Group[k]) # 1
      /\ Cardinality(Keys(m)) < Cardinality(Group[k])
      /\ values' = [values EXCEPT ![k] = m]
      /\ at' = [at EXCEPT ![p] = k]
      /\ UNCHANGED <<result, returned>>
      /\ values \in [Key -> Map] /\ at \in [Process -> Key \cup {NoKey}]
  BY DEF Contribute, SingleUseInv, MonitorInv, StateTypeOK
<1>2. /\ SharedKeyInv(k)
      /\ at[p] = NoKey /\ p \in Group[k]
      /\ \A q \in Process : returned[q][k] = <<>>
      /\ contributed'[p][k] = <<v>>
      /\ \A q \in Process, j \in Key :
           q # p \/ j # k => contributed'[q][j] = contributed[q][j]
  BY <1>1, FirstCall
<1>3. ~Full(m, k)
  BY <1>1, <1>2, NewMap DEF SingleUseInv
<1>4. values[k] \in Map /\ m[p] = v /\ \A q \in Process : q # p => m[q] = values[k][q]
  BY <1>1 DEF Map
<1> HIDE DEF m
<1>5. values'[k] = m /\ \A j \in Key : j # k => values'[j] = values[j]
  BY <1>1
<1>6. SharedKeyInv(k)'
  <2>1. \A q \in Process : returned'[q][k] = <<>>
    BY <1>1, <1>2
  <2>2. ASSUME NEW q \in Process
        PROVE  /\ contributed'[q][k] = <<>> => values'[k][q] = NoValue
               /\ contributed'[q][k] # <<>> =>
                    /\ Len(contributed'[q][k]) = 1
                    /\ values'[k][q] = contributed'[q][k][1]
    <3>1. CASE q = p
      BY <3>1, <1>2, <1>4, <1>5
    <3>2. CASE q # p
      BY <3>2, <1>2, <1>4, <1>5 DEF SharedKeyInv
    <3> QED
      BY <3>1, <3>2
  <2>3. ~Full(values'[k], k)
    BY <1>3, <1>5
  <2> QED
    BY <2>1, <2>2, <2>3 DEF SharedKeyInv, Full
<1>7. \A j \in Key : j # k =>
        /\ AloneKeyInv(j) => AloneKeyInv(j)'
        /\ SharedKeyInv(j) => SharedKeyInv(j)'
  <2> SUFFICES ASSUME NEW j \in Key, j # k
               PROVE  /\ AloneKeyInv(j) => AloneKeyInv(j)'
                      /\ SharedKeyInv(j) => SharedKeyInv(j)'
    OBVIOUS
  <2>1. \A q \in Process : at'[q] = j <=> at[q] = j
    BY <1>1, <1>2, RendezvousAssumption
  <2> QED
    BY <1>1, <1>2, <1>5, <2>1, KeyFrame
<1>8. MonitorInv'
  BY MonitorContribute DEF SingleUseInv
<1> QED
  BY <1>1, <1>6, <1>7, <1>8 DEF SingleUseInv

LEMMA OneCall ==
  ASSUME NEW m
  PROVE  /\ Append(<<>>, m) = <<m>>
         /\ Len(<<m>>) = 1 /\ <<m>>[1] = m /\ <<m>> # <<>>
  OBVIOUS

LEMMA SingleUseComplete ==
  ASSUME MaxCalls = 1, SingleUseInv,
         NEW p \in Process, NEW k \in Key, NEW v \in Operands,
         Complete(p, k, v)
  PROVE  SingleUseInv'
<1> DEFINE m == [values[k] EXCEPT ![p] = v]
<1>1. /\ Enter(p, k, v) /\ Cardinality(Group[k]) # 1 /\ fatal = "none"
      /\ Cardinality(Keys(m)) >= Cardinality(Group[k])
      /\ values' = [values EXCEPT ![k] = m]
      /\ Leave(p, k, useCount[k], m)
      /\ values \in [Key -> Map] /\ at \in [Process -> Key \cup {NoKey}]
      /\ result \in [Key -> Map] /\ useCount[k] \in Nat
      /\ returned \in [Process -> [Key -> Seq(Map)]]
  BY DEF Complete, Enter, SingleUseInv, MonitorInv, StateTypeOK
<1>2. /\ SharedKeyInv(k)
      /\ at[p] = NoKey /\ p \in Group[k]
      /\ \A q \in Process : returned[q][k] = <<>>
      /\ contributed'[p][k] = <<v>>
      /\ \A q \in Process, j \in Key :
           q # p \/ j # k => contributed'[q][j] = contributed[q][j]
  BY <1>1, FirstCall
<1>3. m \in Map /\ Keys(m) = Group[k]
  BY <1>1, <1>2, NewMap DEF SingleUseInv
<1>4. values[k] \in Map /\ m[p] = v /\ \A q \in Process : q # p => m[q] = values[k][q]
  BY <1>1 DEF Map
<1> HIDE DEF m
<1>5. values'[k] = m /\ \A j \in Key : j # k => values'[j] = values[j]
  BY <1>1
<1>6. /\ \A j \in Key : j # k => result'[j] = result[j]
      /\ \A q \in Process, j \in Key : j # k => (at'[q] = j <=> at[q] = j)
  BY <1>1, <1>2, RendezvousAssumption DEF Leave
<1>7. \A q \in Process, j \in Key :
        /\ q # p \/ j # k => returned'[q][j] = returned[q][j]
        /\ q = p /\ j = k =>
             \/ returned'[q][j] = <<m>> /\ at'[p] = NoKey
             \/ returned'[q][j] = <<>>
  <2>1. CASE HasMatchingOperandsCount(m)
    <3>1. /\ returned' = [returned EXCEPT ![p][k] = Append(@, m)]
          /\ at'[p] = NoKey
      BY <1>1, <2>1 DEF Leave, Return
    <3>2. /\ returned'[p][k] = Append(returned[p][k], m)
          /\ \A q \in Process, j \in Key :
               q # p \/ j # k => returned'[q][j] = returned[q][j]
      BY <1>1, <1>3, <3>1, AppendEntry
    <3>3. returned'[p][k] = <<m>>
      BY <1>2, <3>2, OneCall
    <3> QED
      BY <3>1, <3>2, <3>3
  <2>2. CASE ~HasMatchingOperandsCount(m)
    BY <1>1, <1>2, <2>2 DEF Leave
  <2> QED
    BY <2>1, <2>2
<1>8. Inside(k)' # {} => result'[k] = m
  <2>1. CASE HasMatchingOperandsCount(m)
    <3> SUFFICES ASSUME Inside(k)' # {} PROVE result'[k] = m
      OBVIOUS
    <3>1. Inside(k)' = Inside(k) /\ Inside(k) \in SUBSET Process
      BY <1>1, <1>2, <2>1, RendezvousAssumption DEF Leave, Inside
    <3>2. useCount[k] > 0
      <4>1. useCount[k] = Cardinality(Inside(k))
        BY <1>1 DEF SingleUseInv, MonitorInv, UseCountIsInside
      <4> QED
        BY <3>1, <4>1, CountProcesses
    <3> QED
      BY <1>1, <2>1, <3>2 DEF Leave
  <2>2. CASE ~HasMatchingOperandsCount(m)
    BY <1>1, <2>2 DEF Leave
  <2> QED
    BY <2>1, <2>2
<1>9. SharedKeyInv(k)'
  <2>1. Keys(values'[k]) = Group[k]
    BY <1>3, <1>5
  <2>2. ASSUME NEW q \in Process
        PROVE  /\ contributed'[q][k] = <<>> =>
                    values'[k][q] = NoValue /\ returned'[q][k] = <<>>
               /\ contributed'[q][k] # <<>> =>
                    /\ Len(contributed'[q][k]) = 1
                    /\ values'[k][q] = contributed'[q][k][1]
    <3>1. CASE q = p
      BY <3>1, <1>2, <1>4, <1>5
    <3>2. CASE q # p
      BY <3>2, <1>2, <1>4, <1>5, <1>7 DEF SharedKeyInv
    <3> QED
      BY <3>1, <3>2
  <2>3. ASSUME NEW q \in Process
        PROVE  /\ returned'[q][k] # <<>> =>
                    Len(returned'[q][k]) = 1 /\ returned'[q][k][1] = values'[k]
               /\ at'[q] = k => returned'[q][k] = <<>>
    <3>1. CASE q = p
      <4>1. \/ returned'[p][k] = <<m>> /\ at'[p] = NoKey
            \/ returned'[p][k] = <<>>
        BY <1>7
      <4> QED
        BY <3>1, <4>1, <1>5, OneCall, RendezvousAssumption
    <3>2. CASE q # p
      BY <3>2, <1>2, <1>7
    <3> QED
      BY <3>1, <3>2
  <2> QED
    BY <1>5, <1>8, <2>1, <2>2, <2>3 DEF SharedKeyInv, Keys, Full
<1>10. \A j \in Key : j # k =>
        /\ AloneKeyInv(j) => AloneKeyInv(j)'
        /\ SharedKeyInv(j) => SharedKeyInv(j)'
  BY <1>2, <1>5, <1>6, <1>7, KeyFrame
<1>11. MonitorInv'
  BY MonitorComplete DEF SingleUseInv
<1> QED
  BY <1>1, <1>9, <1>10, <1>11 DEF SingleUseInv

LEMMA SingleUseResume ==
  ASSUME SingleUseInv, NEW p \in Process, Resume(p)
  PROVE  SingleUseInv'
<1>1. PICK k \in Key :
        /\ fatal = "none" /\ at[p] = k
        /\ Full(values[k], k)
        /\ Leave(p, k, useCount[k] - 1, result[k])
        /\ UNCHANGED <<values, contributed>>
  BY DEF Resume
<1>2. /\ values \in [Key -> Map] /\ at \in [Process -> Key \cup {NoKey}]
      /\ result \in [Key -> Map] /\ useCount[k] \in Nat
      /\ returned \in [Process -> [Key -> Seq(Map)]]
      /\ Cardinality(Group[k]) # 1 /\ p \in Inside(k) /\ p \in Keys(values[k])
      /\ Keys(values[k]) = Group[k]
  <2>1. p \in Inside(k)
    BY <1>1 DEF Inside
  <2>2. Keys(values[k]) \subseteq Group[k] /\ values[k] \in Map
    BY DEF SingleUseInv, MonitorInv, StateTypeOK
  <2>3. Keys(values[k]) = Group[k]
    BY <1>1, <2>2, FullMap
  <2> QED
    BY <2>1, <2>3 DEF SingleUseInv, MonitorInv, StateTypeOK
<1>3. SharedKeyInv(k)
  BY <1>2 DEF SingleUseInv
<1>4. result[k] = values[k] /\ returned[p][k] = <<>> /\ contributed[p][k] # <<>>
  BY <1>1, <1>2, <1>3 DEF SharedKeyInv, Keys
<1>5. /\ \A j \in Key : j # k => result'[j] = result[j]
      /\ \A q \in Process, j \in Key : j # k => (at'[q] = j <=> at[q] = j)
      /\ \A q \in Process : q # p => at'[q] = at[q]
  BY <1>1, <1>2, RendezvousAssumption DEF Leave
<1>6. \A q \in Process, j \in Key :
        /\ q # p \/ j # k => returned'[q][j] = returned[q][j]
        /\ q = p /\ j = k =>
             \/ returned'[q][j] = <<values[k]>> /\ at'[p] = NoKey
             \/ returned'[q][j] = <<>>
  <2>1. CASE HasMatchingOperandsCount(result[k])
    <3>1. /\ returned' = [returned EXCEPT ![p][k] = Append(@, result[k])]
          /\ at'[p] = NoKey
      BY <1>1, <1>2, <2>1 DEF Leave, Return
    <3>2. /\ returned'[p][k] = Append(returned[p][k], result[k])
          /\ \A q \in Process, j \in Key :
               q # p \/ j # k => returned'[q][j] = returned[q][j]
      <4>1. result[k] \in Map
        BY <1>2
      <4> QED
        BY <1>2, <3>1, <4>1, AppendEntry
    <3>3. returned'[p][k] = <<values[k]>>
      BY <1>4, <3>2, OneCall
    <3> QED
      BY <3>1, <3>2, <3>3
  <2>2. CASE ~HasMatchingOperandsCount(result[k])
    BY <1>1, <1>4, <2>2 DEF Leave
  <2> QED
    BY <2>1, <2>2
<1>7. Inside(k)' # {} => result'[k] = values[k]
  <2>1. CASE HasMatchingOperandsCount(result[k])
    <3> SUFFICES ASSUME Inside(k)' # {} PROVE result'[k] = values[k]
      OBVIOUS
    <3>1. Inside(k)' = Inside(k) \ {p} /\ Inside(k) \ {p} \in SUBSET Process
      BY <1>1, <1>2, <2>1, RendezvousAssumption DEF Leave, Inside
    <3>2. Inside(k) \in SUBSET Process /\ useCount[k] = Cardinality(Inside(k))
      BY <1>1 DEF SingleUseInv, MonitorInv, UseCountIsInside, Inside
    <3>3. useCount[k] - 1 = Cardinality(Inside(k) \ {p})
      BY <1>2, <3>2, CountProcesses
    <3>4. Cardinality(Inside(k) \ {p}) \in Nat /\ Cardinality(Inside(k) \ {p}) # 0
      BY <3>1, CountProcesses
    <3>5. useCount[k] - 1 > 0
      BY <3>3, <3>4
    <3> QED
      BY <1>1, <1>2, <1>4, <2>1, <3>5 DEF Leave
  <2>2. CASE ~HasMatchingOperandsCount(result[k])
    BY <1>1, <1>2, <1>4, <2>2 DEF Leave
  <2> QED
    BY <2>1, <2>2
<1>8. SharedKeyInv(k)'
  <2>1. ASSUME NEW q \in Process
        PROVE  /\ contributed[q][k] = <<>> => returned'[q][k] = <<>>
               /\ returned'[q][k] # <<>> =>
                    Len(returned'[q][k]) = 1 /\ returned'[q][k][1] = values[k]
               /\ at'[q] = k => returned'[q][k] = <<>>
    <3>1. CASE q = p
      <4>1. \/ returned'[p][k] = <<values[k]>> /\ at'[p] = NoKey
            \/ returned'[p][k] = <<>>
        BY <1>6
      <4> QED
        BY <3>1, <4>1, <1>4, OneCall, RendezvousAssumption
    <3>2. CASE q # p
      BY <3>2, <1>3, <1>5, <1>6 DEF SharedKeyInv
    <3> QED
      BY <3>1, <3>2
  <2> QED
    BY <1>1, <1>2, <1>3, <1>7, <2>1 DEF SharedKeyInv, Keys, Full
<1>9. \A j \in Key : j # k =>
        /\ AloneKeyInv(j) => AloneKeyInv(j)'
        /\ SharedKeyInv(j) => SharedKeyInv(j)'
  BY <1>1, <1>5, <1>6, KeyFrame
<1>10. MonitorInv'
  BY MonitorResume DEF SingleUseInv
<1> QED
  BY <1>2, <1>8, <1>9, <1>10 DEF SingleUseInv

LEMMA SingleUseStep ==
  ASSUME MaxCalls = 1
  PROVE  SingleUseInv /\ [Next]_vars => SingleUseInv'
<1> SUFFICES ASSUME SingleUseInv, [Next]_vars PROVE SingleUseInv'
  OBVIOUS
<1>1. MonitorInv'
  BY MonitorStep DEF SingleUseInv
<1>2. ASSUME UNCHANGED <<values, result, at, contributed, returned>>
      PROVE  SingleUseInv'
  BY <1>1, <1>2, KeyFrame DEF SingleUseInv
<1>3. CASE UNCHANGED vars
  BY <1>2, <1>3 DEF vars
<1>4. ASSUME NEW p \in Process, SpuriousWakeup(p) \/ BlockAgain(p) \/ TimeOut(p)
      PROVE  SingleUseInv'
  BY <1>2, <1>4 DEF SpuriousWakeup, BlockAgain, TimeOut, state
<1>5. CASE Next
  BY <1>4, <1>5, SingleUseAlone, SingleUseContribute, SingleUseComplete,
     SingleUseResume DEF Next, Call, Wait
<1> QED
  BY <1>3, <1>5

\* What SingleUseInv says of the histories.
LEMMA SingleUseIsSameRound == SingleUseInv => SameRound
<1> SUFFICES ASSUME SingleUseInv, NEW k \in Key, NEW p \in Group[k],
                    NEW q \in Group[k], NEW i \in 1..Len(returned[p][k])
             PROVE  /\ i <= Calls(q, k)
                    /\ returned[p][k][i][q] = contributed[q][k][i]
  BY DEF SameRound
<1>0. Group[k] \in SUBSET Process
  BY RendezvousAssumption
<1>1. /\ p \in Process /\ q \in Process /\ Group[k] \in SUBSET Process
      /\ returned[p][k] \in Seq(Map)
  BY <1>0 DEF SingleUseInv, MonitorInv, StateTypeOK
<1>2. CASE Cardinality(Group[k]) = 1
  <2>1. p = q
    <3>1. IsFiniteSet(Group[k])
      BY <1>1, CountProcesses
    <3> QED
      BY <1>2, <3>1, FS_Singleton
  <2> QED
    BY <1>1, <1>2, <2>1 DEF SingleUseInv, AloneKeyInv, Calls
<1>3. CASE Cardinality(Group[k]) # 1
  <2>1. SharedKeyInv(k)
    BY <1>3 DEF SingleUseInv
  <2>2. returned[p][k] # <<>>
    BY <1>1
  <2>3. i = 1 /\ returned[p][k][1] = values[k] /\ q \in Keys(values[k])
    <3>1. /\ Len(returned[p][k]) = 1
          /\ returned[p][k][1] = values[k] /\ Keys(values[k]) = Group[k]
      BY <1>1, <2>1, <2>2 DEF SharedKeyInv
    <3> QED
      BY <3>1
  <2>4. contributed[q][k] # <<>>
    BY <1>1, <2>1, <2>3 DEF SharedKeyInv, Keys
  <2> QED
    BY <1>1, <2>1, <2>3, <2>4 DEF SharedKeyInv, Calls
<1> QED
  BY <1>2, <1>3

LEMMA SameRoundIsBarrier == StateTypeOK /\ SameRound => Barrier
<1> SUFFICES ASSUME StateTypeOK, SameRound, NEW k \in Key, NEW p \in Group[k],
                    NEW q \in Group[k]
             PROVE  Len(returned[p][k]) <= Calls(q, k)
  BY DEF Barrier
<1>0. p \in Process /\ q \in Process
  BY RendezvousAssumption
<1>1. Len(returned[p][k]) \in Nat /\ Calls(q, k) \in Nat
  <2>1. returned[p][k] \in Seq(Map) /\ contributed[q][k] \in Seq(Operands)
    BY <1>0 DEF StateTypeOK
  <2> QED
    BY <2>1 DEF Calls
<1> QED
  BY <1>1 DEF SameRound

\* If every key is used at most once, what every call returns is what each
\* member of the group contributed, for any groups.
THEOREM SingleUseSameRound == MaxCalls = 1 => (Spec => []SameRound)
<1> SUFFICES ASSUME MaxCalls = 1 PROVE Spec => []SameRound
  OBVIOUS
<1> QED
  BY SingleUseIsSameRound, SingleUseInit, SingleUseStep, PTL DEF Spec

\* If every key is used at most once, nobody returns from a call before every
\* member of the group has made it.
THEOREM SingleUseBarrier == MaxCalls = 1 => (Spec => []Barrier)
<1> SUFFICES ASSUME MaxCalls = 1 PROVE Spec => []Barrier
  OBVIOUS
<1>1. TypeOK => StateTypeOK
  BY DEF TypeOK
<1> QED
  BY <1>1, SameRoundIsBarrier, TypeCorrect, SingleUseSameRound, PTL
=============================================================================
