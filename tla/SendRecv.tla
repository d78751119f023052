------------------------------- MODULE SendRecv -------------------------------
(***************************************************************************)
(* ProcessGrid::send and ProcessGrid::recv of the reference interpreter    *)
(* (stablehlo/reference/ProcessGrid.cpp): point-to-point channels.  A      *)
(* channel has a mutex, a slot for one vector of tensors and a place in    *)
(* the set of channels whose receiver is ready; sender and receiver share  *)
(* one condition variable per channel.  A critical section is one action,  *)
(* except that the lookup in the plain std::map of condition variables is  *)
(* given a duration: that map belongs to no channel and has no lock.       *)
(*                                                                         *)
(* Every channel has one sending and one receiving process ("If there are  *)
(* multiple processes sending data to a duplicate channelId, the behavior  *)
(* is undefined"); processes choose freely which of their channels to use  *)
(* next, MaxMessages times each.                                           *)
(***************************************************************************)
EXTENDS Naturals, Sequences, FiniteSets

CONSTANTS
  Process,      \* StableHLO processes, one OS thread each
  Channel,      \* channel ids
  Sender,       \* the process that sends to each channel
  Receiver,     \* the process that receives from each channel
  Payload,      \* what may be sent: vectors of tensors
  NoOp,         \* the process is in neither send nor recv
  MaxMessages   \* bound on the sends and on the receives of one channel

ASSUME SendRecvAssumption ==
  /\ Sender \in [Channel -> Process]
  /\ Receiver \in [Channel -> Process]
  /\ \A c \in Channel : Sender[c] # Receiver[c]
  /\ \A d \in Payload : DOMAIN d = 1..Len(d)
  /\ MaxMessages \in Nat

VARIABLES
  slot,      \* SendRecvState::result of each channel; <<>> when empty
  ready,     \* sendRecvReady_
  conds,     \* the channels that have a node in sendRecvConditions_
  op,        \* the send or recv each process is in, or NoOp
  pc,        \* "out"; "lookup": holds the mutex, reads sendRecvConditions_;
             \* "wait": inside wait_for; "put": a sender that may write
  asleep,    \* the processes blocked in the condition variable
  sent,      \* history: what each channel's finished sends wrote
  received,  \* history: what each channel's finished receives returned
  fatal      \* why the program ended, or "none"

vars == <<slot, ready, conds, op, pc, asleep, sent, received, fatal>>
history == <<sent, received>>

-----------------------------------------------------------------------------
SendOp(c, d) == [kind |-> "send", channel |-> c, data |-> d]
RecvOp(c) == [kind |-> "recv", channel |-> c, data |-> <<>>]
Op == {SendOp(c, d) : c \in Channel, d \in Payload} \cup {RecvOp(c) : c \in Channel}

ASSUME NoOpAssumption == NoOp \notin Op

\* The processes inside send or recv with channel c.
On(c) == {p \in Process : op[p] # NoOp /\ op[p].channel = c}

\* The processes that hold a channel's mutex are those that look up its
\* condition variable; a waiter does not hold it.
LookingUp == {p \in Process : pc[p] \in {"lookup", "put"}}
Unlocked(c) == On(c) \cap LookingUp = {}

Init ==
  /\ slot = [c \in Channel |-> <<>>]
  /\ ready = {}
  /\ conds = {}
  /\ op = [p \in Process |-> NoOp]
  /\ pc = [p \in Process |-> "out"]
  /\ asleep = {}
  /\ sent = [c \in Channel |-> <<>>]
  /\ received = [c \in Channel |-> <<>>]
  /\ fatal = "none"

-----------------------------------------------------------------------------
\* Lock the channel's mutex and look up its condition variable.
Lock(p, o) ==
  /\ fatal = "none"
  /\ pc[p] = "out"
  /\ Unlocked(o.channel)
  /\ op' = [op EXCEPT ![p] = o]
  /\ pc' = [pc EXCEPT ![p] = "lookup"]
  /\ UNCHANGED <<slot, ready, conds, asleep, history, fatal>>

StartSend(p, c, d) ==
  /\ p = Sender[c]
  /\ Len(sent[c]) < MaxMessages
  /\ Lock(p, SendOp(c, d))

StartRecv(p, c) ==
  /\ p = Receiver[c]
  /\ Len(received[c]) < MaxMessages
  /\ Lock(p, RecvOp(c))

\* notify_one on the condition variable of channel c, and then the set of
\* sleepers that remains.
NotifyOne(c, remaining) ==
  IF asleep \cap On(c) = {}
  THEN remaining = asleep
  ELSE \E q \in asleep \cap On(c) : remaining = asleep \ {q}

Finish(p) ==
  /\ op' = [op EXCEPT ![p] = NoOp]
  /\ pc' = [pc EXCEPT ![p] = "out"]

Block(p, sleepers) ==
  /\ pc' = [pc EXCEPT ![p] = "wait"]
  /\ asleep' = sleepers \cup {p}
  /\ UNCHANGED op

\* Faulty variants of Put: the channel stays ready; nobody is notified.
PutStaysReady(p, c) ==
  /\ slot' = [slot EXCEPT ![c] = op[p].data]
  /\ NotifyOne(c, asleep')
  /\ sent' = [sent EXCEPT ![c] = Append(@, op[p].data)]
  /\ Finish(p)
  /\ UNCHANGED <<ready, received, fatal>>

PutNoNotify(p, c) ==
  /\ slot' = [slot EXCEPT ![c] = op[p].data]
  /\ ready' = ready \ {c}
  /\ sent' = [sent EXCEPT ![c] = Append(@, op[p].data)]
  /\ Finish(p)
  /\ UNCHANGED <<asleep, received, fatal>>

\* The end of send, once the receiver is ready.
Put(p, c) ==
  /\ slot' = [slot EXCEPT ![c] = op[p].data]
  /\ ready' = ready \ {c}
  /\ NotifyOne(c, asleep')
  /\ sent' = [sent EXCEPT ![c] = Append(@, op[p].data)]
  /\ Finish(p)
  /\ UNCHANGED <<received, fatal>>

\* The end of recv, once there is data in the channel.
Take(p, c) ==
  /\ received' = [received EXCEPT ![c] = Append(@, slot[c])]
  /\ slot' = [slot EXCEPT ![c] = <<>>]
  /\ Finish(p)
  /\ UNCHANGED <<sent, fatal>>

Current(p, kind, at) ==
  /\ fatal = "none"
  /\ pc[p] = at
  /\ op[p].kind = kind

\* send: go on if the receiver is ready, else wait for it.
Send(p) ==
  /\ Current(p, "send", "lookup")
  /\ LET c == op[p].channel IN
     /\ conds' = conds \cup {c}
     /\ \/ c \in ready /\ Put(p, c)
        \/ c \notin ready /\ Block(p, asleep) /\ UNCHANGED <<slot, ready, history, fatal>>

\* recv: announce the receiver, wake the sender, take the data if it is there,
\* else wait for it.
Recv(p) ==
  /\ Current(p, "recv", "lookup")
  /\ LET c == op[p].channel IN
     /\ conds' = conds \cup {c}
     /\ ready' = ready \cup {c}
     /\ \/ slot[c] # <<>> /\ Take(p, c) /\ NotifyOne(c, asleep')
        \/ /\ slot[c] = <<>>
           /\ \E sleepers \in SUBSET asleep : NotifyOne(c, sleepers) /\ Block(p, sleepers)
           /\ UNCHANGED <<slot, history, fatal>>

\* Faulty variant: a receiver that takes any wakeup for the data's arrival.
PredicateUnchecked(p) ==
  IF op[p].kind = "send" THEN op[p].channel \in ready ELSE TRUE

\* What a waiter waits for.
Predicate(p) ==
  IF op[p].kind = "send" THEN op[p].channel \in ready ELSE slot[op[p].channel] # <<>>

\* A woken waiter that can lock the mutex again.
Awake(p) ==
  /\ fatal = "none"
  /\ pc[p] = "wait"
  /\ p \notin asleep
  /\ Unlocked(op[p].channel)

\* A sender that was waiting: the predicate is true, and the notify_one of
\* Put looks its condition variable up once more.
ResumeSend(p) ==
  /\ Awake(p) /\ op[p].kind = "send" /\ Predicate(p)
  /\ pc' = [pc EXCEPT ![p] = "put"]
  /\ UNCHANGED <<slot, ready, conds, op, asleep, history, fatal>>

FinishSend(p) ==
  /\ Current(p, "send", "put")
  /\ Put(p, op[p].channel)
  /\ UNCHANGED conds

ResumeRecv(p) ==
  /\ Awake(p) /\ op[p].kind = "recv" /\ Predicate(p)
  /\ Take(p, op[p].channel)
  /\ UNCHANGED <<ready, conds, asleep>>

\* A woken waiter that finds its predicate false.
BlockAgain(p) ==
  /\ Awake(p) /\ ~Predicate(p)
  /\ asleep' = asleep \cup {p}
  /\ UNCHANGED <<slot, ready, conds, op, pc, history, fatal>>

SpuriousWakeup(p) ==
  /\ fatal = "none"
  /\ p \in asleep
  /\ asleep' = asleep \ {p}
  /\ UNCHANGED <<slot, ready, conds, op, pc, history, fatal>>

\* Three seconds have passed and the predicate is still false.
TimeOut(p) ==
  /\ fatal = "none"
  /\ pc[p] = "wait"
  /\ Unlocked(op[p].channel)
  /\ ~Predicate(p)
  /\ fatal' = IF op[p].kind = "send" THEN "send timed out" ELSE "recv timed out"
  /\ UNCHANGED <<slot, ready, conds, op, pc, asleep, history>>

\* Two threads are in sendRecvConditions_[...] at once and one of them
\* inserts: undefined behaviour, which may go well (the other actions) or
\* end the program.
MapRace ==
  /\ fatal = "none"
  /\ \E p, q \in LookingUp : p # q /\ op[p].channel \notin conds
  /\ fatal' = "data race in sendRecvConditions_"
  /\ UNCHANGED <<slot, ready, conds, op, pc, asleep, history>>

Step(p) == Send(p) \/ Recv(p) \/ ResumeSend(p) \/ FinishSend(p) \/ ResumeRecv(p)

Next ==
  \/ \E p \in Process :
       \/ \E c \in Channel, d \in Payload : StartSend(p, c, d)
       \/ \E c \in Channel : StartRecv(p, c)
       \/ Step(p)
       \/ BlockAgain(p) \/ SpuriousWakeup(p) \/ TimeOut(p)
  \/ MapRace

\* A runnable thread is eventually scheduled.  Nothing obliges a process to
\* communicate.
Fairness == \A p \in Process : WF_vars(Step(p))

Spec == Init /\ [][Next]_vars
FairSpec == Spec /\ Fairness

-----------------------------------------------------------------------------
TypeOK ==
  /\ slot \in [Channel -> Payload \cup {<<>>}]
  /\ ready \in SUBSET Channel
  /\ conds \in SUBSET Channel
  /\ op \in [Process -> Op \cup {NoOp}]
  /\ pc \in [Process -> {"out", "lookup", "wait", "put"}]
  /\ asleep \in SUBSET Process
  /\ sent \in [Channel -> Seq(Payload)]
  /\ received \in [Channel -> Seq(Payload)]
  /\ fatal \in {"none", "send timed out", "recv timed out",
                "data race in sendRecvConditions_"}

\* What is received from a channel is what was sent to it, in order, without
\* loss or duplication, and at most one message is in flight.
InOrder ==
  \A c \in Channel :
    /\ Len(received[c]) <= Len(sent[c])
    /\ Len(sent[c]) <= Len(received[c]) + 1
    /\ \A i \in 1..Len(received[c]) : received[c][i] = sent[c][i]

\* The message in flight is in the slot, where the waiting receiver finds it:
\* "The process then waits until there is data in the channel"
\* (ProcessGrid.h:240).
SentDataIsVisible ==
  \A c \in Channel :
    Len(sent[c]) > Len(received[c]) =>
      slot[c] # <<>> /\ slot[c] = sent[c][Len(sent[c])]

\* A send finishes only while the receiver is inside the matching recv: the
\* channel is a rendezvous, and the data of an earlier send has been taken.
SendNeedsReceiver ==
  [][\A c \in Channel : sent'[c] # sent[c] =>
        /\ slot[c] = <<>>
        /\ op[Receiver[c]] = RecvOp(c) /\ pc[Receiver[c]] = "wait"]_vars

\* Nobody sleeps although what it waits for is there: with one condition
\* variable for both ends, notify_one always wakes the right one.
NoLostWakeup == \A p \in asleep : ~Predicate(p)

\* No std::map is written by one thread while another one reads it.
NoDataRace == fatal # "data race in sendRecvConditions_"

-----------------------------------------------------------------------------
(* The inductive strengthening used by SendRecvProofs.                      *)

\* A process inside send or recv is an end of its channel, only waiters sleep,
\* and a sender that may write still has a ready receiver.
ProcessInv(p) ==
  /\ pc[p] = "out" <=> op[p] = NoOp
  /\ p \in asleep => pc[p] = "wait"
  /\ op[p] # NoOp =>
       p = IF op[p].kind = "send" THEN Sender[op[p].channel] ELSE Receiver[op[p].channel]
  /\ pc[p] = "put" => op[p].kind = "send" /\ op[p].channel \in ready

ReceiverWaits(c) == op[Receiver[c]] = RecvOp(c) /\ pc[Receiver[c]] = "wait"

\* A channel goes through three phases: no receiver, a receiver that is ready,
\* and a receiver whose message has been sent and is in the slot.
ChannelInv(c) ==
  IF ReceiverWaits(c)
  THEN \/ c \in ready /\ slot[c] = <<>> /\ sent[c] = received[c]
       \/ c \notin ready /\ sent[c] = Append(received[c], slot[c])
  ELSE c \notin ready /\ slot[c] = <<>> /\ sent[c] = received[c]

\* Every process and every channel is in one of the phases of send and recv, and
\* a wakeup is never lost: what holds between any two critical sections of
\* ProcessGrid::send and ProcessGrid::recv, and is preserved by each of them.
DeliveryInv ==
  /\ TypeOK
  /\ \A p \in Process : ProcessInv(p)
  /\ \A c \in Channel : ChannelInv(c)
  /\ NoLostWakeup

-----------------------------------------------------------------------------
\* When both ends of a channel have met, the message is delivered (or the
\* program dies).
Delivered ==
  \A c \in Channel : \A n \in 1..MaxMessages :
    (/\ Len(received[c]) = n - 1
     /\ Sender[c] \in On(c) /\ Receiver[c] \in On(c))
      ~> (fatal # "none" \/ Len(received[c]) >= n)
=============================================================================
