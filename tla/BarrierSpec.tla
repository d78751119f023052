------------------------------ MODULE BarrierSpec ------------------------------
(***************************************************************************)
(* What ProcessGrid.h promises of rendezvous: a barrier that a group of    *)
(* processes may pass any number of times.  A process may leave its i-th   *)
(* call with a key when every member of the group has made its i-th call,  *)
(* and then holds what the members contributed to that call.               *)
(***************************************************************************)
EXTENDS Naturals, Sequences

CONSTANTS Process, Key, Group, Operands, NoValue

VARIABLES contributed, returned, aborted

vars == <<contributed, returned, aborted>>

Init ==
  /\ contributed = [p \in Process |-> [k \in Key |-> <<>>]]
  /\ returned = [p \in Process |-> [k \in Key |-> <<>>]]
  /\ aborted = FALSE

\* What the members of k's group contributed to round i.
Round(c, k, i) ==
  [q \in Process |-> IF q \in Group[k] THEN c[q][k][i] ELSE NoValue]

MayArrive(p, k) ==
  /\ p \in Group[k]
  /\ Len(contributed[p][k]) = Len(returned[p][k])

Arrive(p, k, v) ==
  /\ MayArrive(p, k)
  /\ contributed' = [contributed EXCEPT ![p][k] = Append(@, v)]
  /\ UNCHANGED returned

\* Leaving round i of key k, given the contributions c.
LeaveRound(p, k, i, c) ==
  /\ \A q \in Group[k] : i <= Len(c[q][k])
  /\ returned' = [returned EXCEPT ![p][k] = Append(@, Round(c, k, i))]

Depart(p, k) ==
  /\ Len(contributed[p][k]) = Len(returned[p][k]) + 1
  /\ LeaveRound(p, k, Len(contributed[p][k]), contributed)
  /\ UNCHANGED contributed

\* The last process to arrive need not wait.
ArriveAndDepart(p, k, v) ==
  /\ MayArrive(p, k)
  /\ contributed' = [contributed EXCEPT ![p][k] = Append(@, v)]
  /\ LeaveRound(p, k, Len(returned[p][k]) + 1, contributed')

\* "errors in underlying StableHLO programs ... don't deadlock the
\* interpreter": the run may be aborted, by an arriving process too.
Abort ==
  /\ aborted' = TRUE
  /\ \/ UNCHANGED <<contributed, returned>>
     \/ \E p \in Process, k \in Key, v \in Operands : Arrive(p, k, v)

Next ==
  /\ ~aborted
  /\ \/ /\ UNCHANGED aborted
        /\ \E p \in Process, k \in Key :
             \/ Depart(p, k)
             \/ \E v \in Operands : Arrive(p, k, v) \/ ArriveAndDepart(p, k, v)
     \/ Abort

Spec == Init /\ [][Next]_vars
=============================================================================
