---------------------------- MODULE SendRecvProofs ----------------------------
(***************************************************************************)
(* Proofs about SendRecv for any processes, channels and payloads, and any *)
(* number of messages: channels deliver in order, a send meets its         *)
(* receiver, and nobody misses a notification, although both ends of a     *)
(* channel share one condition variable and are woken by notify_one.       *)
(***************************************************************************)
EXTENDS SendRecv, TLAPS

\* What a send and a recv are made of.
LEMMA OpFacts ==
  /\ \A c \in Channel, d \in Payload :
       /\ SendOp(c, d) \in Op /\ SendOp(c, d) # NoOp
       /\ SendOp(c, d).kind = "send" /\ SendOp(c, d).channel = c
  /\ \A c \in Channel :
       /\ RecvOp(c) \in Op /\ RecvOp(c) # NoOp
       /\ RecvOp(c).kind = "recv" /\ RecvOp(c).channel = c
  /\ \A o \in Op :
       /\ o # NoOp /\ o.channel \in Channel /\ o.kind \in {"send", "recv"}
       /\ o.kind = "send" => o.data \in Payload
       /\ o.kind = "recv" => o = RecvOp(o.channel)
<1>1. ASSUME NEW c \in Channel, NEW d \in Payload
      PROVE  /\ SendOp(c, d) \in Op /\ SendOp(c, d) # NoOp
             /\ SendOp(c, d).kind = "send" /\ SendOp(c, d).channel = c
  <2>1. SendOp(c, d) \in Op
    BY DEF Op
  <2> QED
    BY <2>1, NoOpAssumption DEF SendOp
<1>2. ASSUME NEW c \in Channel
      PROVE  /\ RecvOp(c) \in Op /\ RecvOp(c) # NoOp
             /\ RecvOp(c).kind = "recv" /\ RecvOp(c).channel = c
  <2>1. RecvOp(c) \in Op
    BY DEF Op
  <2> QED
    BY <2>1, NoOpAssumption DEF RecvOp
<1>3. ASSUME NEW o \in Op
      PROVE  /\ o # NoOp /\ o.channel \in Channel /\ o.kind \in {"send", "recv"}
             /\ o.kind = "send" => o.data \in Payload
             /\ o.kind = "recv" => o = RecvOp(o.channel)
  <2>1. CASE \E c \in Channel, d \in Payload : o = SendOp(c, d)
    BY <2>1, NoOpAssumption DEF SendOp
  <2>2. CASE \E c \in Channel : o = RecvOp(c)
    BY <2>2, NoOpAssumption DEF RecvOp
  <2> QED
    BY <2>1, <2>2 DEF Op
<1> QED
  BY <1>1, <1>2, <1>3

\* A process that is not outside is in a send or a recv of its own channel.
LEMMA Busy ==
  ASSUME DeliveryInv, NEW p \in Process, pc[p] # "out"
  PROVE  /\ op[p] \in Op /\ op[p] # NoOp /\ op[p].channel \in Channel
         /\ op[p].kind \in {"send", "recv"}
         /\ op[p].kind = "send" => op[p].data \in Payload /\ p = Sender[op[p].channel]
         /\ op[p].kind = "recv" =>
              op[p] = RecvOp(op[p].channel) /\ p = Receiver[op[p].channel]
<1>1. op[p] \in Op /\ op[p] # NoOp
  BY DEF DeliveryInv, TypeOK, ProcessInv
<1> QED
  BY <1>1, OpFacts DEF DeliveryInv, ProcessInv

\* The processes on a channel are its two ends.
LEMMA TwoEnds ==
  ASSUME DeliveryInv, NEW c \in Channel
  PROVE  /\ On(c) \subseteq {Sender[c], Receiver[c]}
         /\ Sender[c] \in Process /\ Receiver[c] \in Process
         /\ Sender[c] # Receiver[c]
<1>1. ASSUME NEW p \in On(c) PROVE p \in {Sender[c], Receiver[c]}
  <2>1. p \in Process /\ op[p] # NoOp /\ op[p].channel = c
    BY <1>1 DEF On
  <2> QED
    BY <2>1 DEF DeliveryInv, ProcessInv
<1> QED
  BY <1>1, SendRecvAssumption

\* notify_one by an end of the channel that is awake wakes everybody else who
\* sleeps on it: there is at most one such process.
LEMMA NotifyOneIsEnough ==
  ASSUME DeliveryInv, NEW p \in Process, pc[p] # "out", p \notin asleep,
         NEW remaining, NotifyOne(op[p].channel, remaining)
  PROVE  remaining = asleep \ On(op[p].channel)
<1> DEFINE c == op[p].channel
<1>1. c \in Channel /\ op[p] # NoOp
  BY Busy
<1>2. p \in On(c)
  BY <1>1 DEF On
<1>3. On(c) \subseteq {Sender[c], Receiver[c]}
  BY <1>1, TwoEnds
<1>4. \A q, r \in asleep \cap On(c) : q = r
  BY <1>2, <1>3
<1> QED
  BY <1>4 DEF NotifyOne

\* Appending to the history of one channel.
LEMMA AppendAt ==
  ASSUME NEW S, NEW f \in [Channel -> Seq(S)], NEW c \in Channel, NEW d \in S
  PROVE  [f EXCEPT ![c] = Append(@, d)] \in [Channel -> Seq(S)]
  OBVIOUS

-----------------------------------------------------------------------------
LEMMA DeliveryInit == Init => DeliveryInv
<1> SUFFICES ASSUME Init PROVE DeliveryInv
  OBVIOUS
<1>1. TypeOK
  BY DEF Init, TypeOK
<1>2. \A p \in Process : ProcessInv(p)
  BY DEF Init, ProcessInv
<1>3. \A c \in Channel : ChannelInv(c)
  BY SendRecvAssumption, OpFacts DEF Init, ChannelInv, ReceiverWaits
<1>4. NoLostWakeup
  BY DEF Init, NoLostWakeup
<1> QED
  BY <1>1, <1>2, <1>3, <1>4 DEF DeliveryInv

\* A step that leaves the ends, the slot and the histories of channel c alone.
LEMMA ChannelFrame ==
  ASSUME NEW c \in Channel, ChannelInv(c),
         slot'[c] = slot[c], sent'[c] = sent[c], received'[c] = received[c],
         c \in ready' <=> c \in ready, ReceiverWaits(c)' <=> ReceiverWaits(c)
  PROVE  ChannelInv(c)'
  BY DEF ChannelInv

\* A step of p leaves the channels that p does not receive from waiting or not.
LEMMA OthersWait ==
  ASSUME NEW p \in Process, NEW c \in Channel, p # Receiver[c],
         op' = op \/ \E o : op' = [op EXCEPT ![p] = o],
         pc' = pc \/ \E l : pc' = [pc EXCEPT ![p] = l],
         TypeOK
  PROVE  ReceiverWaits(c)' <=> ReceiverWaits(c)
<1>1. Receiver[c] \in Process /\ Receiver[c]' = Receiver[c]
  BY SendRecvAssumption
<1>2. op'[Receiver[c]] = op[Receiver[c]] /\ pc'[Receiver[c]] = pc[Receiver[c]]
  BY <1>1 DEF TypeOK
<1> QED
  BY <1>2 DEF ReceiverWaits, RecvOp

LEMMA DeliveryLock ==
  ASSUME DeliveryInv, NEW p \in Process, NEW o \in Op, Lock(p, o),
         p = IF o.kind = "send" THEN Sender[o.channel] ELSE Receiver[o.channel]
  PROVE  DeliveryInv'
<1>1. /\ pc[p] = "out" /\ op[p] = NoOp /\ o # NoOp
      /\ op' = [op EXCEPT ![p] = o] /\ pc' = [pc EXCEPT ![p] = "lookup"]
      /\ UNCHANGED <<slot, ready, conds, asleep, sent, received, fatal>>
  BY OpFacts DEF Lock, DeliveryInv, ProcessInv, history
<1>2. TypeOK'
  BY <1>1 DEF DeliveryInv, TypeOK
<1>3. ASSUME NEW q \in Process PROVE ProcessInv(q)'
  <2>1. CASE q = p
    BY <1>1, <2>1 DEF DeliveryInv, TypeOK, ProcessInv
  <2>2. CASE q # p
    <3>1. op'[q] = op[q] /\ pc'[q] = pc[q]
      BY <1>1, <2>2 DEF DeliveryInv, TypeOK
    <3> QED
      BY <1>1, <3>1 DEF DeliveryInv, ProcessInv
  <2> QED
    BY <2>1, <2>2
<1>4. ASSUME NEW c \in Channel PROVE ChannelInv(c)'
  <2>1. ReceiverWaits(c)' <=> ReceiverWaits(c)
    <3>1. Receiver[c] \in Process
      BY SendRecvAssumption
    <3>2. CASE Receiver[c] = p
      BY <1>1, <3>1, <3>2, OpFacts DEF DeliveryInv, TypeOK, ReceiverWaits
    <3>3. CASE Receiver[c] # p
      BY <1>1, <3>3, OthersWait DEF DeliveryInv
    <3> QED
      BY <3>2, <3>3
  <2> QED
    BY <1>1, <2>1, ChannelFrame DEF DeliveryInv
<1>5. NoLostWakeup'
  <2> SUFFICES ASSUME NEW q \in asleep PROVE ~Predicate(q)'
    BY <1>1 DEF NoLostWakeup
  <2>1. q \in Process /\ q # p /\ op'[q] = op[q]
    BY <1>1 DEF DeliveryInv, TypeOK, ProcessInv
  <2>2. ~Predicate(q)
    BY DEF DeliveryInv, NoLostWakeup
  <2> QED
    BY <1>1, <2>1, <2>2 DEF Predicate
<1> QED
  BY <1>2, <1>3, <1>4, <1>5 DEF DeliveryInv

\* The write that ends a send: its receiver is waiting with an empty slot.
LEMMA DeliveryPut ==
  ASSUME DeliveryInv, NEW p \in Process, pc[p] \in {"lookup", "put"},
         op[p].kind = "send", op[p].channel \in ready, Put(p, op[p].channel),
         conds' \in SUBSET Channel
  PROVE  DeliveryInv'
<1> DEFINE c == op[p].channel
           r == Receiver[c]
<1>1. /\ op[p] # NoOp /\ c \in Channel /\ op[p].data \in Payload /\ p = Sender[c]
      /\ p # r /\ r \in Process /\ p \notin asleep
  BY Busy, TwoEnds DEF DeliveryInv, ProcessInv
<1>2. /\ slot' = [slot EXCEPT ![c] = op[p].data] /\ ready' = ready \ {c}
      /\ sent' = [sent EXCEPT ![c] = Append(@, op[p].data)]
      /\ op' = [op EXCEPT ![p] = NoOp] /\ pc' = [pc EXCEPT ![p] = "out"]
      /\ UNCHANGED <<received, fatal>>
      /\ asleep' = asleep \ On(c)
  BY <1>1, NotifyOneIsEnough DEF Put, Finish
<1>3. ReceiverWaits(c) /\ sent[c] = received[c]
  BY <1>1 DEF DeliveryInv, ChannelInv
<1> HIDE DEF c, r
<1>4. TypeOK'
  <2>1. sent' \in [Channel -> Seq(Payload)]
    <3>1. sent \in [Channel -> Seq(Payload)]
      BY DEF DeliveryInv, TypeOK
    <3> QED
      BY <1>1, <1>2, <3>1, AppendAt
  <2> QED
    BY <1>1, <1>2, <2>1 DEF DeliveryInv, TypeOK
<1>5. \A q \in Process : q # p => op'[q] = op[q] /\ pc'[q] = pc[q]
  BY <1>2 DEF DeliveryInv, TypeOK
<1>6. op'[p] = NoOp /\ pc'[p] = "out"
  BY <1>2 DEF DeliveryInv, TypeOK
<1>7. ASSUME NEW q \in Process PROVE ProcessInv(q)'
  <2>1. CASE q = p
    BY <1>1, <1>2, <1>6, <2>1 DEF ProcessInv
  <2>2. CASE q # p
    <3>1. pc[q] = "put" => op[q].channel # c
      BY <1>1, <2>2, Busy DEF DeliveryInv, ProcessInv
    <3> QED
      BY <1>2, <1>5, <2>2, <3>1 DEF DeliveryInv, ProcessInv
  <2> QED
    BY <2>1, <2>2
<1>8. ASSUME NEW b \in Channel PROVE ChannelInv(b)'
  <2>1. CASE b = c
    <3>1. ReceiverWaits(b)' <=> ReceiverWaits(b)
      BY <1>1, <1>2, <2>1, OthersWait DEF DeliveryInv, r
    <3>2. slot'[c] = op[p].data /\ sent'[c] = Append(sent[c], op[p].data)
      BY <1>1, <1>2 DEF DeliveryInv, TypeOK
    <3> QED
      BY <1>2, <1>3, <2>1, <3>1, <3>2 DEF ChannelInv
  <2>2. CASE b # c
    <3>1. ReceiverWaits(b)' <=> ReceiverWaits(b)
      <4>1. CASE p # Receiver[b]
        BY <1>2, <4>1, OthersWait DEF DeliveryInv
      <4>2. CASE p = Receiver[b]
        BY <1>1, <1>6, <4>2, OpFacts DEF ReceiverWaits
      <4> QED
        BY <4>1, <4>2
    <3>2. slot'[b] = slot[b] /\ sent'[b] = sent[b]
      BY <1>2, <2>2 DEF DeliveryInv, TypeOK
    <3> QED
      BY <1>2, <2>2, <3>1, <3>2, ChannelFrame DEF DeliveryInv
  <2> QED
    BY <2>1, <2>2
<1>9. NoLostWakeup'
  <2> SUFFICES ASSUME NEW q \in asleep' PROVE ~Predicate(q)'
    BY DEF NoLostWakeup
  <2>1. q \in Process /\ q \in asleep /\ q # p /\ q \notin On(c) /\ op'[q] = op[q]
    BY <1>1, <1>2, <1>5 DEF DeliveryInv, TypeOK
  <2>2. ~Predicate(q)
    BY <2>1 DEF DeliveryInv, NoLostWakeup
  <2>3. op[q].channel # c /\ op[q].channel \in Channel
    BY <2>1, Busy DEF On, DeliveryInv, ProcessInv
  <2>4. slot'[op[q].channel] = slot[op[q].channel]
    BY <1>2, <2>3 DEF DeliveryInv, TypeOK
  <2> QED
    BY <1>2, <2>1, <2>2, <2>3, <2>4 DEF Predicate
<1> QED
  BY <1>4, <1>7, <1>8, <1>9 DEF DeliveryInv

\* A send whose receiver is not ready goes to sleep.
LEMMA DeliveryBlockSend ==
  ASSUME DeliveryInv, NEW p \in Process, pc[p] = "lookup", op[p].kind = "send",
         op[p].channel \notin ready, Block(p, asleep), conds' \in SUBSET Channel,
         UNCHANGED <<slot, ready, history, fatal>>
  PROVE  DeliveryInv'
<1>1. /\ op[p] # NoOp /\ op[p].channel \in Channel /\ p = Sender[op[p].channel]
      /\ pc' = [pc EXCEPT ![p] = "wait"] /\ asleep' = asleep \cup {p}
      /\ UNCHANGED <<op, slot, ready, sent, received, fatal>>
  BY Busy DEF Block, history
<1>2. TypeOK'
  BY <1>1 DEF DeliveryInv, TypeOK
<1>3. pc'[p] = "wait" /\ \A q \in Process : q # p => pc'[q] = pc[q]
  BY <1>1 DEF DeliveryInv, TypeOK
<1>4. \A q \in Process : ProcessInv(q)'
  BY <1>1, <1>3 DEF DeliveryInv, ProcessInv
<1>5. ASSUME NEW b \in Channel PROVE ChannelInv(b)'
  <2>1. ReceiverWaits(b)' <=> ReceiverWaits(b)
    <3>1. CASE p # Receiver[b]
      BY <1>1, <3>1, OthersWait DEF DeliveryInv
    <3>2. CASE p = Receiver[b]
      BY <1>1, <3>2, OpFacts DEF ReceiverWaits
    <3> QED
      BY <3>1, <3>2
  <2> QED
    BY <1>1, <2>1, ChannelFrame DEF DeliveryInv
<1>6. NoLostWakeup'
  BY <1>1 DEF DeliveryInv, NoLostWakeup, Predicate
<1> QED
  BY <1>2, <1>4, <1>5, <1>6 DEF DeliveryInv

\* A recv finds the slot empty, announces itself, wakes its sender and sleeps.
LEMMA DeliveryRecv ==
  ASSUME DeliveryInv, NEW p \in Process, Recv(p)
  PROVE  DeliveryInv'
<1> DEFINE c == op[p].channel
<1>1. pc[p] = "lookup" /\ op[p].kind = "recv" /\ p \notin asleep
  BY DEF Recv, Current, DeliveryInv, ProcessInv
<1>2. /\ op[p] # NoOp /\ c \in Channel /\ op[p] = RecvOp(c) /\ p = Receiver[c]
  BY <1>1, Busy
<1>3. c \notin ready /\ slot[c] = <<>> /\ sent[c] = received[c] /\ ~ReceiverWaits(c)
  BY <1>1, <1>2 DEF DeliveryInv, ChannelInv, ReceiverWaits
<1>4. /\ pc' = [pc EXCEPT ![p] = "wait"] /\ asleep' = (asleep \ On(c)) \cup {p}
      /\ conds' = conds \cup {c} /\ ready' = ready \cup {c}
      /\ UNCHANGED <<op, slot, sent, received, fatal>>
  <2>1. PICK sleepers \in SUBSET asleep : NotifyOne(c, sleepers) /\ Block(p, sleepers)
    BY <1>3 DEF Recv
  <2>2. sleepers = asleep \ On(c)
    BY <1>1, <2>1, NotifyOneIsEnough
  <2>3. conds' = conds \cup {c} /\ ready' = ready \cup {c} /\ UNCHANGED <<slot, history, fatal>>
    BY <1>3 DEF Recv
  <2> QED
    BY <2>1, <2>2, <2>3 DEF Block, history
<1> HIDE DEF c
<1>5. TypeOK'
  BY <1>2, <1>4 DEF DeliveryInv, TypeOK
<1>6. pc'[p] = "wait" /\ \A q \in Process : q # p => pc'[q] = pc[q]
  BY <1>4 DEF DeliveryInv, TypeOK
<1>7. \A q \in Process : ProcessInv(q)'
  BY <1>2, <1>4, <1>6 DEF DeliveryInv, ProcessInv
<1>8. ASSUME NEW b \in Channel PROVE ChannelInv(b)'
  <2>1. CASE b = c
    <3>1. ReceiverWaits(b)'
      BY <1>2, <1>4, <1>6, <2>1 DEF ReceiverWaits, RecvOp
    <3> QED
      BY <1>3, <1>4, <2>1, <3>1 DEF ChannelInv
  <2>2. CASE b # c
    <3>1. ReceiverWaits(b)' <=> ReceiverWaits(b)
      <4>1. CASE p # Receiver[b]
        BY <1>4, <4>1, OthersWait DEF DeliveryInv
      <4>2. CASE p = Receiver[b]
        BY <1>2, <1>4, <2>2, <4>2, OpFacts DEF ReceiverWaits
      <4> QED
        BY <4>1, <4>2
    <3> QED
      BY <1>4, <2>2, <3>1, ChannelFrame DEF DeliveryInv
  <2> QED
    BY <2>1, <2>2
<1>9. NoLostWakeup'
  <2> SUFFICES ASSUME NEW q \in asleep' PROVE ~Predicate(q)'
    BY DEF NoLostWakeup
  <2>1. CASE q = p
    BY <1>1, <1>3, <1>4, <2>1 DEF Predicate, c
  <2>2. CASE q # p
    <3>1. q \in asleep /\ q \in Process /\ q \notin On(c)
      BY <1>4, <2>2 DEF DeliveryInv, TypeOK
    <3>2. op[q].channel # c
      BY <3>1, Busy DEF On, DeliveryInv, ProcessInv
    <3>3. ~Predicate(q)
      BY <3>1 DEF DeliveryInv, NoLostWakeup
    <3> QED
      BY <1>4, <3>2, <3>3 DEF Predicate
  <2> QED
    BY <2>1, <2>2
<1> QED
  BY <1>5, <1>7, <1>8, <1>9 DEF DeliveryInv

\* A woken receiver takes the message in flight.
LEMMA DeliveryTake ==
  ASSUME DeliveryInv, NEW p \in Process, ResumeRecv(p)
  PROVE  DeliveryInv'
<1> DEFINE c == op[p].channel
<1>1. /\ pc[p] = "wait" /\ p \notin asleep /\ op[p].kind = "recv"
      /\ slot[c] # <<>>
  BY DEF ResumeRecv, Awake, Predicate
<1>2. /\ op[p] # NoOp /\ c \in Channel /\ op[p] = RecvOp(c) /\ p = Receiver[c]
  BY <1>1, Busy
<1>3. /\ c \notin ready /\ sent[c] = Append(received[c], slot[c])
      /\ slot[c] \in Payload
  <2>1. ReceiverWaits(c)
    BY <1>1, <1>2 DEF ReceiverWaits
  <2>2. slot[c] \in Payload
    BY <1>1, <1>2 DEF DeliveryInv, TypeOK
  <2> QED
    BY <1>1, <1>2, <2>1, <2>2 DEF DeliveryInv, ChannelInv
<1>4. /\ received' = [received EXCEPT ![c] = Append(@, slot[c])]
      /\ slot' = [slot EXCEPT ![c] = <<>>]
      /\ op' = [op EXCEPT ![p] = NoOp] /\ pc' = [pc EXCEPT ![p] = "out"]
      /\ UNCHANGED <<ready, conds, asleep, sent, fatal>>
  BY DEF ResumeRecv, Take, Finish
<1> HIDE DEF c
<1>5. TypeOK'
  <2>1. received' \in [Channel -> Seq(Payload)]
    <3>1. received \in [Channel -> Seq(Payload)]
      BY DEF DeliveryInv, TypeOK
    <3> QED
      BY <1>2, <1>3, <1>4, <3>1, AppendAt
  <2> QED
    BY <1>4, <2>1 DEF DeliveryInv, TypeOK
<1>6. /\ op'[p] = NoOp /\ pc'[p] = "out"
      /\ \A q \in Process : q # p => op'[q] = op[q] /\ pc'[q] = pc[q]
  BY <1>4 DEF DeliveryInv, TypeOK
<1>7. \A q \in Process : ProcessInv(q)'
  BY <1>1, <1>4, <1>6 DEF DeliveryInv, ProcessInv
<1>8. ASSUME NEW b \in Channel PROVE ChannelInv(b)'
  <2>1. CASE b = c
    <3>1. ~ReceiverWaits(b)'
      BY <1>2, <1>6, <2>1, OpFacts DEF ReceiverWaits
    <3>2. slot'[c] = <<>> /\ received'[c] = sent[c]
      BY <1>2, <1>3, <1>4 DEF DeliveryInv, TypeOK
    <3> QED
      BY <1>3, <1>4, <2>1, <3>1, <3>2 DEF ChannelInv
  <2>2. CASE b # c
    <3>1. ReceiverWaits(b)' <=> ReceiverWaits(b)
      <4>1. CASE p # Receiver[b]
        BY <1>4, <4>1, OthersWait DEF DeliveryInv
      <4>2. CASE p = Receiver[b]
        BY <1>2, <1>6, <2>2, <4>2, OpFacts DEF ReceiverWaits
      <4> QED
        BY <4>1, <4>2
    <3>2. slot'[b] = slot[b] /\ received'[b] = received[b]
      BY <1>4, <2>2 DEF DeliveryInv, TypeOK
    <3> QED
      BY <1>4, <2>2, <3>1, <3>2, ChannelFrame DEF DeliveryInv
  <2> QED
    BY <2>1, <2>2
<1>9. NoLostWakeup'
  <2> SUFFICES ASSUME NEW q \in asleep' PROVE ~Predicate(q)'
    BY DEF NoLostWakeup
  <2>1. q \in asleep /\ q \in Process /\ q # p /\ op'[q] = op[q] /\ pc[q] = "wait"
    BY <1>1, <1>4, <1>6 DEF DeliveryInv, TypeOK, ProcessInv
  <2>2. ~Predicate(q)
    BY <2>1 DEF DeliveryInv, NoLostWakeup
  <2>3. op[q].kind = "recv" => op[q].channel # c
    BY <1>2, <2>1, Busy
  <2>4. op[q].channel \in Channel /\ op[q].kind \in {"send", "recv"}
    BY <2>1, Busy
  <2>5. op[q].kind = "recv" => slot'[op[q].channel] = slot[op[q].channel]
    BY <1>4, <2>3, <2>4 DEF DeliveryInv, TypeOK
  <2> QED
    BY <1>4, <2>1, <2>2, <2>4, <2>5 DEF Predicate
<1> QED
  BY <1>5, <1>7, <1>8, <1>9 DEF DeliveryInv

LEMMA DeliveryResumeSend ==
  ASSUME DeliveryInv, NEW p \in Process, ResumeSend(p)
  PROVE  DeliveryInv'
<1>1. /\ pc[p] = "wait" /\ p \notin asleep /\ op[p].kind = "send"
      /\ op[p].channel \in ready
      /\ pc' = [pc EXCEPT ![p] = "put"]
      /\ UNCHANGED <<slot, ready, conds, op, asleep, sent, received, fatal>>
  BY DEF ResumeSend, Awake, Predicate, history
<1>2. TypeOK'
  BY <1>1 DEF DeliveryInv, TypeOK
<1>3. pc'[p] = "put" /\ \A q \in Process : q # p => pc'[q] = pc[q]
  BY <1>1 DEF DeliveryInv, TypeOK
<1>4. \A q \in Process : ProcessInv(q)'
  BY <1>1, <1>3 DEF DeliveryInv, ProcessInv
<1>5. ASSUME NEW b \in Channel PROVE ChannelInv(b)'
  <2>1. ReceiverWaits(b)' <=> ReceiverWaits(b)
    <3>1. CASE p # Receiver[b]
      BY <1>1, <3>1, OthersWait DEF DeliveryInv
    <3>2. CASE p = Receiver[b]
      BY <1>1, <3>2, OpFacts DEF ReceiverWaits
    <3> QED
      BY <3>1, <3>2
  <2> QED
    BY <1>1, <2>1, ChannelFrame DEF DeliveryInv
<1>6. NoLostWakeup'
  BY <1>1 DEF DeliveryInv, NoLostWakeup, Predicate
<1> QED
  BY <1>2, <1>4, <1>5, <1>6 DEF DeliveryInv

\* Steps that change only who sleeps, or end the program.
LEMMA DeliveryFrame ==
  ASSUME DeliveryInv,
         UNCHANGED <<slot, ready, conds, op, pc, sent, received>>,
         fatal' \in {"none", "send timed out", "recv timed out",
                     "data race in sendRecvConditions_"},
         \A q \in asleep' : q \in Process /\ pc[q] = "wait" /\ ~Predicate(q)
  PROVE  DeliveryInv'
<1>1. TypeOK'
  BY DEF DeliveryInv, TypeOK
<1>2. \A p \in Process : ProcessInv(p)'
  BY DEF DeliveryInv, ProcessInv
<1>3. \A c \in Channel : ChannelInv(c)'
  BY DEF DeliveryInv, ChannelInv, ReceiverWaits
<1>4. NoLostWakeup'
  BY DEF NoLostWakeup, Predicate
<1> QED
  BY <1>1, <1>2, <1>3, <1>4 DEF DeliveryInv

LEMMA DeliveryWaiting ==
  ASSUME DeliveryInv, NEW p \in Process,
         BlockAgain(p) \/ SpuriousWakeup(p) \/ TimeOut(p)
  PROVE  DeliveryInv'
<1>1. fatal \in {"none", "send timed out", "recv timed out",
                 "data race in sendRecvConditions_"}
  BY DEF DeliveryInv, TypeOK
<1>2. \A q \in asleep : q \in Process /\ pc[q] = "wait" /\ ~Predicate(q)
  BY DEF DeliveryInv, TypeOK, ProcessInv, NoLostWakeup
<1>3. CASE BlockAgain(p)
  BY <1>1, <1>2, <1>3, DeliveryFrame DEF BlockAgain, Awake, history
<1>4. CASE SpuriousWakeup(p)
  BY <1>1, <1>2, <1>4, DeliveryFrame DEF SpuriousWakeup, history
<1>5. CASE TimeOut(p)
  BY <1>1, <1>2, <1>5, DeliveryFrame DEF TimeOut, history
<1> QED
  BY <1>3, <1>4, <1>5

LEMMA DeliveryStep == DeliveryInv /\ [Next]_vars => DeliveryInv'
<1> SUFFICES ASSUME DeliveryInv, [Next]_vars PROVE DeliveryInv'
  OBVIOUS
<1>1. \A q \in asleep : q \in Process /\ pc[q] = "wait" /\ ~Predicate(q)
  BY DEF DeliveryInv, TypeOK, ProcessInv, NoLostWakeup
<1>2. CASE UNCHANGED vars
  BY <1>1, <1>2, DeliveryFrame DEF vars, DeliveryInv, TypeOK
<1>3. CASE MapRace
  BY <1>1, <1>3, DeliveryFrame DEF MapRace, history
<1>4. ASSUME NEW p \in Process, NEW c \in Channel, NEW d \in Payload, StartSend(p, c, d)
      PROVE  DeliveryInv'
  BY <1>4, DeliveryLock, OpFacts DEF StartSend
<1>5. ASSUME NEW p \in Process, NEW c \in Channel, StartRecv(p, c)
      PROVE  DeliveryInv'
  BY <1>5, DeliveryLock, OpFacts DEF StartRecv
<1>6. ASSUME NEW p \in Process, Send(p) PROVE DeliveryInv'
  <2>1. pc[p] = "lookup" /\ op[p].kind = "send" /\ op[p].channel \in Channel
    BY <1>6, Busy DEF Send, Current
  <2>2. conds' \in SUBSET Channel
    BY <1>6, <2>1 DEF Send, DeliveryInv, TypeOK
  <2> QED
    BY <1>6, <2>1, <2>2, DeliveryPut, DeliveryBlockSend DEF Send
<1>7. ASSUME NEW p \in Process, FinishSend(p) PROVE DeliveryInv'
  <2>1. pc[p] = "put" /\ op[p].kind = "send" /\ op[p].channel \in ready
    BY <1>7 DEF FinishSend, Current, DeliveryInv, ProcessInv
  <2>2. conds' \in SUBSET Channel
    BY <1>7 DEF FinishSend, DeliveryInv, TypeOK
  <2> QED
    BY <1>7, <2>1, <2>2, DeliveryPut DEF FinishSend
<1> QED
  BY <1>2, <1>3, <1>4, <1>5, <1>6, <1>7, DeliveryRecv, DeliveryTake,
     DeliveryResumeSend, DeliveryWaiting DEF Next, Step

-----------------------------------------------------------------------------
\* For any processes, channels and messages, between any two critical sections
\* every process is in one of the phases of send and recv, every channel holds
\* at most the one message its receiver waits for, and no wakeup is lost.
THEOREM DeliveryCorrect == Spec => []DeliveryInv
  BY DeliveryInit, DeliveryStep, PTL DEF Spec

\* Every variable of the channels keeps its type: what recv returns is always
\* something that was sent, never the empty slot.
THEOREM TypeCorrect == Spec => []TypeOK
<1>1. DeliveryInv => TypeOK
  BY DEF DeliveryInv
<1> QED
  BY <1>1, DeliveryInit, DeliveryStep, PTL DEF Spec

\* In every channel, with any number of messages, what is received is what was
\* sent, in order, and at most one message is in flight.
THEOREM DeliveredInOrder == Spec => []InOrder
<1>1. DeliveryInv => InOrder
  <2> SUFFICES ASSUME DeliveryInv, NEW c \in Channel
               PROVE  /\ Len(received[c]) <= Len(sent[c])
                      /\ Len(sent[c]) <= Len(received[c]) + 1
                      /\ \A i \in 1..Len(received[c]) : received[c][i] = sent[c][i]
    BY DEF InOrder
  <2>1. received[c] \in Seq(Payload)
    BY DEF DeliveryInv, TypeOK
  <2>2. CASE sent[c] = received[c]
    BY <2>1, <2>2
  <2>3. CASE sent[c] = Append(received[c], slot[c])
    BY <2>1, <2>3
  <2> QED
    BY <2>2, <2>3 DEF DeliveryInv, ChannelInv
<1> QED
  BY <1>1, DeliveryInit, DeliveryStep, PTL DEF Spec

\* Nobody sleeps although what it waits for is there: notify_one on the shared
\* condition variable always reaches the other end.
THEOREM WakeupsReachTheOtherEnd == Spec => []NoLostWakeup
<1>1. DeliveryInv => NoLostWakeup
  BY DEF DeliveryInv
<1> QED
  BY <1>1, DeliveryInit, DeliveryStep, PTL DEF Spec

\* Unless somebody sends a vector of no tensors, which recv cannot tell from an
\* empty slot, the message in flight can be seen by the waiting receiver.
THEOREM NonEmptyDataIsVisible ==
  <<>> \notin Payload => (Spec => []SentDataIsVisible)
<1> SUFFICES ASSUME <<>> \notin Payload PROVE Spec => []SentDataIsVisible
  OBVIOUS
<1>1. DeliveryInv => SentDataIsVisible
  <2> SUFFICES ASSUME DeliveryInv, NEW c \in Channel, Len(sent[c]) > Len(received[c])
               PROVE  slot[c] # <<>> /\ slot[c] = sent[c][Len(sent[c])]
    BY DEF SentDataIsVisible
  <2>1. received[c] \in Seq(Payload) /\ sent[c] \in Seq(Payload)
    BY DEF DeliveryInv, TypeOK
  <2>2. sent[c] # received[c]
    BY <2>1
  <2>3. sent[c] = Append(received[c], slot[c])
    BY <2>2 DEF DeliveryInv, ChannelInv
  <2>4. /\ Len(sent[c]) = Len(received[c]) + 1
        /\ slot[c] = sent[c][Len(sent[c])]
    BY <2>1, <2>3
  <2>5. sent[c][Len(sent[c])] \in Payload
    BY <2>1, <2>4
  <2> QED
    BY <2>4, <2>5
<1> QED
  BY <1>1, DeliveryInit, DeliveryStep, PTL DEF Spec

\* A channel is a rendezvous: every send that finishes finds its receiver
\* waiting in the matching recv, and the data of the previous send taken.
THEOREM SendMeetsReceiver == Spec => SendNeedsReceiver
<1>1. ASSUME DeliveryInv, [Next]_vars, NEW c \in Channel, sent'[c] # sent[c]
      PROVE  /\ slot[c] = <<>>
             /\ op[Receiver[c]] = RecvOp(c) /\ pc[Receiver[c]] = "wait"
  <2>1. ~UNCHANGED sent
    BY <1>1
  <2>2. PICK p \in Process :
          /\ pc[p] \in {"lookup", "put"} /\ op[p].kind = "send"
          /\ op[p].channel \in ready /\ Put(p, op[p].channel)
    <3>1. PICK p \in Process : Send(p) \/ FinishSend(p)
      BY <1>1, <2>1 DEF Next, Step, vars, history, StartSend, StartRecv, Lock, Recv, Take,
                        ResumeSend, ResumeRecv, BlockAgain, SpuriousWakeup, TimeOut, MapRace
    <3>2. CASE Send(p)
      BY <2>1, <3>2 DEF Send, Current, history
    <3>3. CASE FinishSend(p)
      BY <1>1, <3>3 DEF FinishSend, Current, DeliveryInv, ProcessInv
    <3> QED
      BY <3>1, <3>2, <3>3
  <2>3. c = op[p].channel
    <3>1. /\ sent \in [Channel -> Seq(Payload)]
          /\ sent' = [sent EXCEPT ![op[p].channel] = Append(@, op[p].data)]
      BY <1>1, <2>2 DEF Put, DeliveryInv, TypeOK
    <3> QED
      BY <1>1, <3>1
  <2> QED
    BY <1>1, <2>2, <2>3 DEF DeliveryInv, ChannelInv, ReceiverWaits
<1>2. DeliveryInv /\ [Next]_vars =>
        [\A c \in Channel : sent'[c] # sent[c] =>
           /\ slot[c] = <<>>
           /\ op[Receiver[c]] = RecvOp(c) /\ pc[Receiver[c]] = "wait"]_vars
  BY <1>1
<1> QED
  BY <1>2, DeliveryInit, DeliveryStep, PTL DEF Spec, SendNeedsReceiver
=============================================================================
