-------------------------- MODULE SharedChannelProof ---------------------------
(***************************************************************************)
(* Proofs about SharedChannel, for any number of senders and receivers, any *)
(* capacity and any quota.                                                 *)
(***************************************************************************)
EXTENDS SharedChannel, FiniteSetTheorems, SequenceTheorems, TLAPS

\* A message in the channel or taken from it is one of its sender's completed
\* sends, or the current one after its deposit.
Sent(m) ==
  /\ m[2] <= next[m[1]]
  /\ m[2] = next[m[1]] => phase[m[1]] = "Deposited"

OnlySent ==
  /\ \A i \in DOMAIN queue : Sent(queue[i])
  /\ \A m \in taken : Sent(m)

\* A deposited message is in the handoff slot or was taken.
DepositKept ==
  \A s \in Senders :
    phase[s] = "Deposited" => Capacity = 0 /\ Current(s) \in taken \cup Queued

\* A worker about to push pushes a message that is not in the channel yet.
PushFresh ==
  \A s \in Senders : pc[s] = "push" => phase[s] = "Fresh" /\ next[s] <= Quota

\* The parent's bookkeeping: who holds the channel open.
HoldsTracked ==
  /\ producers = Cardinality(holds)
  /\ parent = "spawning" => starting \in Senders \ holds /\ pc[starting] # "unborn"
  /\ parent # "spawning" => starting = NoSender
  /\ parent = "closing" => holds = {}
  /\ \A s \in Senders :
       pc[s] \notin {"unborn", "harvested"} /\ s # starting => s \in holds
  /\ parent # "aborted" => \A s \in holds : pc[s] \notin {"unborn", "harvested"}
  /\ parent = "spawning" => pc[starting] # "harvested"

ChannelInv ==
  /\ QueueBounded
  /\ OnlySent
  /\ DepositKept
  /\ PushFresh
  /\ CompletedDelivered
  /\ InOrder
  /\ NoneIsFinal

IInv == TypeOK /\ ChannelInv /\ HoldsTracked
--------------------------------------------------------------------------------
(* What the policy's answers imply.                                        *)

\* `poll_send` completes only a deposited rendezvous send whose handoff slot is
\* empty, and pushes only a fresh send (or a buffered one) into free room.
LEMMA SendPolicy ==
  ASSUME NEW capacity \in Nat, NEW len \in Nat, NEW shut \in BOOLEAN,
         NEW ph \in SendPhase
  PROVE  /\ PollSend(capacity, len, shut, ph) = "Complete"
              => capacity = 0 /\ ph = "Deposited" /\ len = 0
         /\ PollSend(capacity, len, shut, ph) \in {"DeliverBuffered", "Deposit"}
              => ph = "Fresh" \/ capacity > 0
  BY DEF PollSend, PollRendezvous, SendPhase

\* `poll_recv` delivers from a non-empty queue only and answers `none` on a
\* closed and empty one only.
LEMMA RecvPolicy ==
  ASSUME NEW len \in Nat, NEW shut \in BOOLEAN
  PROVE  /\ PollRecv(len, shut) = "Deliver" => len > 0
         /\ PollRecv(len, shut) = "ClosedEmpty" => len = 0 /\ shut
  BY DEF PollRecv
--------------------------------------------------------------------------------
(* The two things that happen to the queue.                                *)

\* `push_back` under the lock: one message at the end, the others stay.
LEMMA PushBack ==
  ASSUME NEW q \in Seq(Message), NEW m \in Message
  PROVE  /\ Append(q, m) \in Seq(Message)
         /\ Len(Append(q, m)) = Len(q) + 1
         /\ DOMAIN Append(q, m) = 1..(Len(q) + 1)
         /\ DOMAIN q = 1..Len(q)
         /\ \A i \in 1..Len(q) : Append(q, m)[i] = q[i]
         /\ Append(q, m)[Len(q) + 1] = m
  BY AppendProperties, LenProperties

\* `pop_front`: the oldest message leaves, the others move up.
LEMMA PopFront ==
  ASSUME NEW q \in Seq(Message), Len(q) > 0
  PROVE  /\ Head(q) = q[1]
         /\ Head(q) \in Message
         /\ Tail(q) \in Seq(Message)
         /\ Len(Tail(q)) = Len(q) - 1
         /\ DOMAIN Tail(q) = 1..(Len(q) - 1)
         /\ DOMAIN q = 1..Len(q)
         /\ 1 \in DOMAIN q
         /\ \A i \in 1..(Len(q) - 1) : Tail(q)[i] = q[i + 1]
  <1>1. q # <<>>
    BY EmptySeq
  <1>2. QED
    BY <1>1, HeadTailProperties, LenProperties

\* The queue's elements are messages.
LEMMA QueueElements ==
  ASSUME NEW q \in Seq(Message)
  PROVE  /\ Len(q) \in Nat
         /\ DOMAIN q = 1..Len(q)
         /\ \A i \in DOMAIN q : q[i] \in Message
         /\ Len(q) = 0 => q = <<>>
  BY LenProperties, ElementOfSeq, EmptySeq
--------------------------------------------------------------------------------
\* A fresh channel (`ChannelCore::new`), nothing spawned, satisfies everything.
THEOREM InitEstablishes == Init => IInv
  <1> SUFFICES ASSUME Init PROVE IInv
    OBVIOUS
  <1> USE CapacityAssumption, QuotaAssumption, SendersAssumption
  <1>1. TypeOK
    <2>1. queue \in Seq(Message)
      BY EmptySeq DEF Init
    <2>2. /\ next \in [Senders -> 1..(Quota + 1)]
          /\ producers \in Nat
      BY DEF Init
    <2>3. QED
      BY <2>1, <2>2 DEF Init, TypeOK, PC, SendPhase
  <1>2. ChannelInv
    <2>1. DOMAIN queue = {} /\ Len(queue) = 0
      BY DEF Init
    <2>2. QED
      BY <2>1, CapacityAssumption
      DEF Init, ChannelInv, QueueBounded, OnlySent, DepositKept, PushFresh,
          CompletedDelivered, InOrder, NoneIsFinal
  <1>3. HoldsTracked
    BY FS_EmptySet DEF Init, HoldsTracked
  <1>4. QED
    BY <1>1, <1>2, <1>3 DEF IInv
--------------------------------------------------------------------------------
\* Every step keeps the state well-typed: a message pushed is one of its
\* sender's quota, and the producer count is not taken below zero.
THEOREM TypeStep == IInv /\ [Next]_vars => TypeOK'
  <1> SUFFICES ASSUME IInv, [Next]_vars PROVE TypeOK'
    OBVIOUS
  <1> USE CapacityAssumption, QuotaAssumption, SendersAssumption
  <1>t. TypeOK
    BY DEF IInv
  <1>q. Len(queue) \in Nat
    BY <1>t, QueueElements DEF TypeOK
  <1>1. ASSUME NEW s \in Senders, CheckSend(s) PROVE TypeOK'
    <2>1. CASE UNCHANGED <<next, phase>>
      BY <1>1, <1>t, <2>1
      DEF CheckSend, TypeOK, PC, core, owner
    <2>2. CASE Completed(s)
      BY <1>1, <1>t, <2>2
      DEF CheckSend, Completed, TypeOK, SendPhase, core, owner
    <2>3. QED
      BY <1>1, <2>1, <2>2 DEF CheckSend
  <1>2. ASSUME NEW s \in Senders, TryPush(s) PROVE TypeOK'
    <2>1. next[s] <= Quota /\ Current(s) \in Message
      BY <1>2, <1>t DEF TryPush, IInv, ChannelInv, PushFresh, Current, Message, TypeOK
    <2>2. queue' \in Seq(Message)
      <3>1. queue \in Seq(Message)
        BY <1>t DEF TypeOK
      <3>2. Append(queue, Current(s)) \in Seq(Message)
        BY <3>1, <2>1, PushBack
      <3>3. QED
        BY <1>2, <3>1, <3>2 DEF TryPush
    <2>3. next' \in [Senders -> 1..(Quota + 1)]
      BY SMTT(30), <1>2, <1>t, <2>1 DEF TryPush, Completed, TypeOK
    <2>4. phase' \in [Senders -> SendPhase]
      BY <1>2, <1>t DEF TryPush, Completed, TypeOK, SendPhase
    <2>5. QED
      BY <1>2, <1>t, <2>2, <2>3, <2>4 DEF TryPush, TypeOK, PC, owner
  <1>3. ASSUME NEW s \in Senders, Finish(s) PROVE TypeOK'
    BY <1>3, <1>t DEF Finish, TypeOK, PC, core, owner
  <1>4. ASSUME NEW s \in Senders, WorkerClose(s) PROVE TypeOK'
    BY <1>4, <1>t DEF WorkerClose, TypeOK, sender, owner
  <1>5. ASSUME NEW r \in Receivers, Take(r) PROVE TypeOK'
    <2>1. Len(queue) > 0
      BY <1>5, <1>t, <1>q, RecvPolicy DEF Take, TypeOK
    <2>2. queue' \in Seq(Message) /\ taken' \in SUBSET Message
      BY <1>5, <1>t, <2>1, PopFront DEF Take, TypeOK
    <2>3. QED
      BY <1>5, <1>t, <2>2 DEF Take, TypeOK, sender, owner
  <1>6. ASSUME NEW r \in Receivers, ReadNone(r) \/ Leave(r) PROVE TypeOK'
    BY <1>6, <1>t DEF ReadNone, Leave, TypeOK, core, sender, owner
  <1>7. ASSUME NEW s \in Senders, Spawn(s) PROVE TypeOK'
    BY <1>7, <1>t DEF Spawn, TypeOK, PC, core
  <1>8. ASSUME NEW s \in Senders, Harvest(s) PROVE TypeOK'
    <2>1. s \in holds
      BY <1>8 DEF Harvest, IInv, HoldsTracked
    <2>2. IsFiniteSet(holds)
      BY <1>t, FS_Subset DEF TypeOK
    <2>3. producers # 0
      BY <2>1, <2>2, FS_EmptySet DEF IInv, HoldsTracked
    <2>4. QED
      BY <1>8, <1>t, <2>3 DEF Harvest, DropProducer, TypeOK, PC, core
  <1>9. ASSUME NEW s \in Senders, HarvestFailed(s) PROVE TypeOK'
    BY <1>9, <1>t DEF HarvestFailed, TypeOK, PC, core
  <1>10. CASE AddProducer
    BY <1>10, <1>t DEF AddProducer, TypeOK, core, sender, IInv, HoldsTracked
  <1>11. CASE AutoClose \/ ParentClose
    BY <1>11, <1>t DEF AutoClose, ParentClose, TypeOK, sender, owner
  <1>12. CASE UNCHANGED vars
    BY <1>12, <1>t DEF vars, core, sender, owner, TypeOK
  <1>13. QED
    BY <1>1, <1>2, <1>3, <1>4, <1>5, <1>6, <1>7, <1>8, <1>9, <1>10, <1>11, <1>12
    DEF Next, SenderStep, ReceiverStep, ParentStep
--------------------------------------------------------------------------------
\* A step that leaves the channel, the sends and the receivers' answers alone
\* (the parent's bookkeeping, a worker's end) keeps the channel's invariant.
LEMMA ChannelFrame ==
  ASSUME ChannelInv, UNCHANGED <<queue, closed, next, phase, rpc, taken>>,
         \A s \in Senders : pc'[s] = "push" => pc[s] = "push"
  PROVE  ChannelInv'
  <1>1. NoneIsFinal'
    BY DEF ChannelInv, NoneIsFinal
  <1>2. PushFresh'
    BY DEF ChannelInv, PushFresh
  <1>3. QED
    BY <1>1, <1>2 DEF ChannelInv, QueueBounded, OnlySent, Sent, DepositKept,
                      Queued, Current, CompletedDelivered, InOrder

\* Likewise for a step that closes the channel.
LEMMA ChannelClosed ==
  ASSUME ChannelInv, UNCHANGED <<queue, pc, next, phase, rpc, taken>>, closed' = TRUE
  PROVE  ChannelInv'
  <1>1. NoneIsFinal'
    BY DEF ChannelInv, NoneIsFinal
  <1>2. QED
    BY <1>1 DEF ChannelInv, QueueBounded, OnlySent, Sent, DepositKept, Queued,
                Current, PushFresh, CompletedDelivered, InOrder

\* `send_action`: a rendezvous send completes only after its message was taken,
\* and only a send that is not in the channel yet goes on to push.
LEMMA CheckSendStep ==
  ASSUME IInv, NEW s \in Senders, CheckSend(s)
  PROVE  ChannelInv'
  <1> USE CapacityAssumption, QuotaAssumption
  <1> DEFINE answer == PollSend(Capacity, Len(queue), closed, phase[s])
  <1>t. TypeOK /\ ChannelInv
    BY DEF IInv
  <1>q. /\ Len(queue) \in Nat
        /\ DOMAIN queue = 1..Len(queue)
        /\ \A i \in DOMAIN queue : queue[i] \in Message
        /\ Len(queue) = 0 => queue = <<>>
    BY <1>t, QueueElements DEF TypeOK
  <1>p. /\ answer = "Complete"
              => Capacity = 0 /\ phase[s] = "Deposited" /\ Len(queue) = 0
        /\ answer \in {"DeliverBuffered", "Deposit"} => phase[s] = "Fresh" \/ Capacity > 0
    <2>1. closed \in BOOLEAN /\ phase[s] \in SendPhase
      BY <1>t DEF TypeOK
    <2>2. QED
      BY <1>q, <2>1, SendPolicy
  <1>1. CASE answer \notin {"Complete", "DeliverBuffered", "Deposit"}
    BY <1>1, <1>t, ChannelFrame DEF CheckSend, core, TypeOK
  <1>2. CASE answer = "Complete"
    <2>1. /\ Completed(s)
          /\ UNCHANGED <<queue, closed, pc, rpc, taken>>
      BY <1>2 DEF CheckSend, core
    <2>2. /\ Capacity = 0 /\ phase[s] = "Deposited"
          /\ DOMAIN queue = {}
          /\ Current(s) \in taken
      BY <1>2, <1>p, <1>q, <1>t DEF ChannelInv, DepositKept, Queued
    <2>3. /\ next' = [next EXCEPT ![s] = next[s] + 1]
          /\ next[s] \in Nat
          /\ \A u \in Senders : next[u] \in Nat
          /\ phase' = [phase EXCEPT ![s] = "Fresh"]
      BY <2>1, <1>t DEF Completed, TypeOK
    <2>4. OnlySent'
      BY <2>1, <2>2, <2>3, <1>t DEF OnlySent, Sent, ChannelInv, TypeOK, Message
    <2>5. DepositKept'
      BY <2>1, <2>2, <2>3, <1>t DEF DepositKept, Queued, Current, ChannelInv, TypeOK
    <2>6. CompletedDelivered'
      <3>1. SUFFICES ASSUME NEW u \in Senders, NEW i \in 1..(next'[u] - 1)
                     PROVE  <<u, i>> \in taken
        BY <2>1, <2>2 DEF CompletedDelivered
      <3>2. CASE u = s /\ i = next[s]
        BY <3>2, <2>2 DEF Current
      <3>3. CASE ~(u = s /\ i = next[s])
        <4>1. i \in 1..(next[u] - 1)
          BY <3>3, <2>3, <1>t DEF TypeOK
        <4>2. QED
          BY <4>1, <2>2, <1>t DEF ChannelInv, CompletedDelivered
      <3>4. QED
        BY <3>2, <3>3
    <2>7. PushFresh'
      <3>1. pc[s] # "push"
        BY DEF CheckSend
      <3>2. QED
        BY <2>1, <2>3, <3>1, <1>t DEF PushFresh, ChannelInv, TypeOK
    <2>8. QED
      BY <2>1, <2>4, <2>5, <2>6, <2>7, <1>t
      DEF ChannelInv, QueueBounded, InOrder, NoneIsFinal
  <1>3. CASE answer \in {"DeliverBuffered", "Deposit"}
    <2>1. /\ pc' = [pc EXCEPT ![s] = "push"]
          /\ UNCHANGED <<queue, closed, next, phase, rpc, taken>>
          /\ next[s] <= Quota
      BY <1>3 DEF CheckSend, core
    <2>2. phase[s] = "Fresh"
      BY <1>3, <1>p, <1>t DEF ChannelInv, DepositKept, TypeOK, SendPhase
    <2>3. PushFresh'
      BY <2>1, <2>2, <1>t DEF PushFresh, ChannelInv, TypeOK
    <2>4. QED
      BY <2>1, <2>3, <1>t
      DEF ChannelInv, QueueBounded, OnlySent, Sent, DepositKept, Queued, Current,
          CompletedDelivered, InOrder, NoneIsFinal
  <1>4. QED
    BY <1>1, <1>2, <1>3

\* `try_push`: the test under the lock keeps the bound and the finality of
\* `none`; the message is new to the channel, so order and uniqueness stay.
LEMMA TryPushStep ==
  ASSUME IInv, NEW s \in Senders, TryPush(s)
  PROVE  ChannelInv'
  <1> USE CapacityAssumption, QuotaAssumption
  <1>t. TypeOK /\ ChannelInv
    BY DEF IInv
  <1>q. /\ Len(queue) \in Nat
        /\ DOMAIN queue = 1..Len(queue)
        /\ \A i \in DOMAIN queue : queue[i] \in Message
    BY <1>t, QueueElements DEF TypeOK
  <1>1. CASE ~Accepts
    BY <1>1, <1>t, ChannelFrame DEF TryPush, TypeOK
  <1>2. CASE Accepts
    <2> DEFINE m == Current(s)
    <2>1. /\ queue' = Append(queue, m)
          /\ pc' = [pc EXCEPT ![s] = "poll"]
          /\ UNCHANGED <<closed, rpc, taken>>
          /\ IF Capacity = 0
             THEN phase' = [phase EXCEPT ![s] = "Deposited"] /\ UNCHANGED next
             ELSE Completed(s)
      BY <1>2 DEF TryPush
    <2>2. /\ phase[s] = "Fresh" /\ next[s] <= Quota
          /\ m \in Message
          /\ m[1] = s /\ m[2] = next[s]
          /\ \A u \in Senders : next[u] \in Nat
      BY <1>t DEF TryPush, ChannelInv, PushFresh, TypeOK, Current, Message
    <2>3. /\ Len(queue') = Len(queue) + 1
          /\ DOMAIN queue' = 1..(Len(queue) + 1)
          /\ \A i \in 1..Len(queue) : queue'[i] = queue[i]
          /\ queue'[Len(queue) + 1] = m
      BY <2>1, <2>2, <1>t, PushBack DEF TypeOK
    <2>4. /\ Queued' = Queued \cup {m}
      <3>1. DOMAIN queue' = DOMAIN queue \cup {Len(queue) + 1}
        BY <2>3, <1>q
      <3>2. QED
        BY <3>1, <2>3, <1>q DEF Queued
    <2>5. \A u \in Senders : next'[u] >= next[u] /\ (u # s => next'[u] = next[u])
      BY <2>1, <2>2, <1>t DEF Completed, TypeOK
    <2>6. /\ Capacity = 0 => next' = next /\ phase'[s] = "Deposited"
          /\ Capacity # 0 => next'[s] = next[s] + 1
          /\ \A u \in Senders \ {s} : phase'[u] = phase[u]
      BY <2>1, <1>t DEF Completed, TypeOK
    <2>7. QueueBounded'
      BY <1>2, <2>3, <1>q DEF QueueBounded, Accepts, HasRoom
    <2>8. OnlySent'
      <3>1. ASSUME NEW n \in Message, Sent(n) \/ n = m
            PROVE  Sent(n)'
        BY <3>1, <2>2, <2>5, <2>6 DEF Sent, Message
      <3>2. \A i \in DOMAIN queue : Sent(queue[i])
        BY <1>t DEF ChannelInv, OnlySent
      <3>3. \A n \in taken : n \in Message /\ Sent(n)
        BY <1>t DEF ChannelInv, OnlySent, TypeOK
      <3>4. \A i \in DOMAIN queue' : queue'[i] \in Message /\ (Sent(queue'[i]) \/ queue'[i] = m)
        BY <3>2, <2>2, <2>3, <1>q
      <3>5. QED
        BY <3>1, <3>3, <3>4, <2>1 DEF OnlySent
    <2>9. DepositKept'
      BY <2>1, <2>2, <2>4, <2>5, <2>6, <1>t DEF DepositKept, Current, ChannelInv, Completed, TypeOK
    <2>10. PushFresh'
      BY <2>1, <2>5, <2>6, <1>t DEF PushFresh, ChannelInv, TypeOK
    <2>11. CompletedDelivered'
      <3>1. SUFFICES ASSUME NEW u \in Senders, NEW i \in 1..(next'[u] - 1)
                     PROVE  <<u, i>> \in taken \cup (IF Capacity = 0 THEN {} ELSE Queued')
        BY <2>1 DEF CompletedDelivered
      <3>2. CASE u = s /\ i = next[s] /\ Capacity # 0
        BY <3>2, <2>4 DEF Current
      <3>3. CASE i \in 1..(next[u] - 1)
        BY <3>3, <2>4, <1>t DEF ChannelInv, CompletedDelivered
      <3>4. QED
        BY <3>2, <3>3, <2>2, <2>5, <2>6
    <2>12. InOrder'
      <3>1. \A n \in Message : Sent(n) /\ n[1] = s => n[2] < next[s]
        BY <2>2 DEF Sent, Message
      <3>2. \A i \in DOMAIN queue : queue[i][1] = s => queue[i][2] < m[2]
        BY <3>1, <2>2, <1>q, <1>t DEF ChannelInv, OnlySent
      <3>3. \A n \in taken : n[1] = s => n[2] < m[2]
        BY <3>1, <2>2, <1>t DEF ChannelInv, OnlySent, TypeOK
      <3>4. \A i, j \in DOMAIN queue' :
              i < j /\ queue'[i][1] = queue'[j][1] => queue'[i][2] < queue'[j][2]
        BY <3>2, <2>2, <2>3, <1>q, <1>t DEF ChannelInv, InOrder
      <3>5. \A n \in taken : \A i \in DOMAIN queue' :
              n[1] = queue'[i][1] => n[2] < queue'[i][2]
        BY <3>3, <2>2, <2>3, <1>q, <1>t DEF ChannelInv, InOrder
      <3>6. QED
        BY <3>4, <3>5, <2>1 DEF InOrder
    <2>13. NoneIsFinal'
      BY <1>2, <2>1, <1>t DEF NoneIsFinal, Accepts, ChannelInv
    <2>14. QED
      BY <2>7, <2>8, <2>9, <2>10, <2>11, <2>12, <2>13 DEF ChannelInv
  <1>3. QED
    BY <1>1, <1>2

\* `try_recv` delivering: the oldest message goes from the queue to a receiver.
LEMMA TakeStep ==
  ASSUME IInv, NEW r \in Receivers, Take(r)
  PROVE  ChannelInv'
  <1> USE CapacityAssumption, QuotaAssumption
  <1>t. TypeOK /\ ChannelInv
    BY DEF IInv
  <1>1. /\ UNCHANGED <<closed, pc, next, phase, rpc>>
        /\ queue' = Tail(queue)
        /\ taken' = taken \cup {Head(queue)}
    BY DEF Take, sender
  <1>2. Len(queue) \in Nat /\ Len(queue) > 0
    <2>1. Len(queue) \in Nat /\ closed \in BOOLEAN
      BY <1>t, QueueElements DEF TypeOK
    <2>2. QED
      BY <2>1, RecvPolicy DEF Take
  <1>3. /\ Head(queue) = queue[1]
        /\ Head(queue) \in Message
        /\ DOMAIN queue = 1..Len(queue)
        /\ Len(queue') = Len(queue) - 1
        /\ DOMAIN queue' = 1..(Len(queue) - 1)
        /\ \A i \in DOMAIN queue' : queue'[i] = queue[i + 1] /\ i + 1 \in DOMAIN queue
    BY <1>1, <1>2, <1>t, PopFront DEF TypeOK
  <1>4. taken \cup Queued = taken' \cup Queued'
    <2>1. Queued' \subseteq Queued /\ Head(queue) \in Queued
      BY <1>2, <1>3 DEF Queued
    <2>2. ASSUME NEW i \in DOMAIN queue PROVE queue[i] \in taken' \cup Queued'
      <3>1. CASE i = 1
        BY <3>1, <1>1, <1>3
      <3>2. CASE i # 1
        <4>1. i - 1 \in DOMAIN queue' /\ queue'[i - 1] = queue[i]
          BY <3>2, <1>2, <1>3
        <4>2. QED
          BY <4>1 DEF Queued
      <3>3. QED
        BY <3>1, <3>2
    <2>3. QED
      BY <2>1, <2>2, <1>1 DEF Queued
  <1>5. QueueBounded'
    BY <1>2, <1>3, <1>t DEF ChannelInv, QueueBounded
  <1>6. OnlySent'
    BY <1>1, <1>2, <1>3, <1>t DEF ChannelInv, OnlySent, Sent
  <1>7. DepositKept'
    BY <1>1, <1>4, <1>t DEF ChannelInv, DepositKept, Current
  <1>8. PushFresh'
    BY <1>1, <1>t DEF ChannelInv, PushFresh
  <1>9. CompletedDelivered'
    BY <1>1, <1>4, <1>t DEF ChannelInv, CompletedDelivered
  <1>10. InOrder'
    <2>i. InOrder
      BY <1>t DEF ChannelInv
    <2>1. ASSUME NEW i \in DOMAIN queue', NEW j \in DOMAIN queue', i < j,
                 queue'[i][1] = queue'[j][1]
          PROVE  queue'[i][2] < queue'[j][2]
      <3>1. /\ queue'[i] = queue[i + 1] /\ i + 1 \in DOMAIN queue
            /\ queue'[j] = queue[j + 1] /\ j + 1 \in DOMAIN queue
            /\ i + 1 < j + 1
        BY <2>1, <1>2, <1>3
      <3>2. QED
        BY <3>1, <2>1, <2>i DEF InOrder
    <2>2. ASSUME NEW m \in taken', NEW i \in DOMAIN queue', m[1] = queue'[i][1]
          PROVE  m[2] < queue'[i][2]
      <3>1. /\ queue'[i] = queue[i + 1] /\ i + 1 \in DOMAIN queue
            /\ 1 \in DOMAIN queue /\ 1 < i + 1
        BY <2>2, <1>2, <1>3
      <3>2. CASE m \in taken
        BY <3>1, <3>2, <2>2, <2>i DEF InOrder
      <3>3. CASE m = queue[1]
        BY <3>1, <3>3, <2>2, <2>i DEF InOrder
      <3>4. QED
        BY <3>2, <3>3, <2>2, <1>1, <1>3
    <2>3. QED
      BY <2>1, <2>2 DEF InOrder
  <1>11. NoneIsFinal'
    <2>1. queue # <<>>
      BY <1>2, <1>t, EmptySeq DEF TypeOK
    <2>2. QED
      BY <2>1, <1>1, <1>t DEF ChannelInv, NoneIsFinal
  <1>12. QED
    BY <1>5, <1>6, <1>7, <1>8, <1>9, <1>10, <1>11 DEF ChannelInv

\* Every step keeps the channel's invariant.
THEOREM ChannelStep == IInv /\ [Next]_vars => ChannelInv'
  <1> SUFFICES ASSUME IInv, [Next]_vars PROVE ChannelInv'
    OBVIOUS
  <1>t. TypeOK /\ ChannelInv
    BY DEF IInv
  <1>1. ASSUME NEW s \in Senders, CheckSend(s) \/ TryPush(s) PROVE ChannelInv'
    BY <1>1, CheckSendStep, TryPushStep
  <1>2. ASSUME NEW s \in Senders, Finish(s) PROVE ChannelInv'
    BY <1>2, <1>t, ChannelFrame DEF Finish, core, TypeOK
  <1>3. ASSUME NEW s \in Senders, WorkerClose(s) PROVE ChannelInv'
    BY <1>3, <1>t, ChannelClosed DEF WorkerClose, sender
  <1>4. ASSUME NEW r \in Receivers, Take(r) PROVE ChannelInv'
    BY <1>4, TakeStep
  <1>5. ASSUME NEW r \in Receivers, ReadNone(r) PROVE ChannelInv'
    <2>1. /\ Len(queue) \in Nat /\ closed \in BOOLEAN
          /\ Len(queue) = 0 => queue = <<>>
      BY <1>t, QueueElements DEF TypeOK
    <2>2. closed /\ queue = <<>>
      BY <1>5, <2>1, RecvPolicy DEF ReadNone
    <2>3. NoneIsFinal'
      BY <1>5, <2>2 DEF ReadNone, core, NoneIsFinal
    <2>4. QED
      BY <1>5, <1>t, <2>3
      DEF ReadNone, core, sender, ChannelInv, QueueBounded, OnlySent, Sent,
          DepositKept, Queued, Current, PushFresh, CompletedDelivered, InOrder
  <1>6. ASSUME NEW r \in Receivers, Leave(r) PROVE ChannelInv'
    <2>1. NoneIsFinal'
      BY <1>6, <1>t DEF Leave, core, NoneIsFinal, ChannelInv, TypeOK
    <2>2. QED
      BY <1>6, <1>t, <2>1
      DEF Leave, core, sender, ChannelInv, QueueBounded, OnlySent, Sent,
          DepositKept, Queued, Current, PushFresh, CompletedDelivered, InOrder
  <1>7. ASSUME NEW s \in Senders, Spawn(s) \/ Harvest(s) \/ HarvestFailed(s)
        PROVE  ChannelInv'
    BY <1>7, <1>t, ChannelFrame DEF Spawn, Harvest, HarvestFailed, core, TypeOK
  <1>8. CASE AddProducer
    BY <1>8, <1>t, ChannelFrame DEF AddProducer, core, sender
  <1>9. CASE AutoClose \/ ParentClose
    BY <1>9, <1>t, ChannelClosed DEF AutoClose, ParentClose, sender
  <1>10. CASE UNCHANGED vars
    BY <1>10, <1>t, ChannelFrame DEF vars, core, sender
  <1>11. QED
    BY <1>1, <1>2, <1>3, <1>4, <1>5, <1>6, <1>7, <1>8, <1>9, <1>10
    DEF Next, SenderStep, ReceiverStep, ParentStep
--------------------------------------------------------------------------------
\* The parent's bookkeeping of producer holds, through spawn and harvest.
THEOREM HoldsStep == IInv /\ [Next]_vars => HoldsTracked'
  <1> SUFFICES ASSUME IInv, [Next]_vars PROVE HoldsTracked'
    OBVIOUS
  <1> USE SendersAssumption
  <1>t. TypeOK /\ HoldsTracked
    BY DEF IInv
  <1>f. IsFiniteSet(holds) /\ Cardinality(holds) \in Nat
    BY <1>t, FS_Subset, FS_CardinalityType DEF TypeOK
  <1>1. ASSUME NEW s \in Senders, CheckSend(s) \/ TryPush(s) \/ Finish(s)
        PROVE  HoldsTracked'
    <2>1. /\ UNCHANGED <<producers, parent, starting, holds>>
          /\ pc[s] \notin {"unborn", "harvested"}
          /\ pc'[s] \notin {"unborn", "harvested"}
          /\ \A u \in Senders \ {s} : pc'[u] = pc[u]
      BY <1>1, <1>t DEF CheckSend, TryPush, Finish, owner, TypeOK
    <2>2. QED
      BY <2>1, <1>t DEF HoldsTracked, TypeOK
  <1>2. ASSUME UNCHANGED <<pc, owner>> PROVE HoldsTracked'
    BY <1>2, <1>t DEF owner, HoldsTracked
  <1>3. ASSUME NEW s \in Senders, WorkerClose(s) PROVE HoldsTracked'
    BY <1>3, <1>2 DEF WorkerClose, sender
  <1>4. ASSUME NEW r \in Receivers, Take(r) \/ ReadNone(r) \/ Leave(r)
        PROVE  HoldsTracked'
    BY <1>4, <1>2 DEF Take, ReadNone, Leave, sender
  <1>5. ASSUME NEW s \in Senders, Spawn(s) PROVE HoldsTracked'
    BY <1>5, <1>t DEF Spawn, HoldsTracked, TypeOK
  <1>6. CASE AddProducer
    <2>1. starting \in Senders \ holds /\ pc[starting] \notin {"unborn", "harvested"}
      BY <1>6, <1>t DEF AddProducer, HoldsTracked
    <2>2. producers' = Cardinality(holds')
      BY <1>6, <1>t, <1>f, <2>1, FS_AddElement DEF AddProducer, HoldsTracked
    <2>3. QED
      BY <1>6, <1>t, <2>1, <2>2 DEF AddProducer, HoldsTracked, sender, TypeOK
  <1>7. ASSUME NEW s \in Senders, Harvest(s) PROVE HoldsTracked'
    <2>1. s \in holds
      BY <1>7, <1>t DEF Harvest, HoldsTracked
    <2>2. producers' = Cardinality(holds')
      BY <1>7, <1>t, <1>f, <2>1, FS_RemoveElement DEF Harvest, DropProducer, HoldsTracked
    <2>3. parent' = "closing" => holds' = {}
      <3>1. ASSUME parent' = "closing" PROVE Cardinality(holds') = 0
        BY <3>1, <1>7, <1>t, <2>2 DEF Harvest, DropProducer, LastProducer, TypeOK
      <3>2. IsFiniteSet(holds')
        BY <1>7, <1>f, FS_RemoveElement DEF Harvest, DropProducer
      <3>3. QED
        BY <3>1, <3>2, FS_EmptySet
    <2>4. QED
      BY <1>7, <1>t, <2>1, <2>2, <2>3 DEF Harvest, DropProducer, HoldsTracked, TypeOK
  <1>8. ASSUME NEW s \in Senders, HarvestFailed(s) PROVE HoldsTracked'
    BY <1>8, <1>t DEF HarvestFailed, HoldsTracked, TypeOK
  <1>9. CASE AutoClose
    BY <1>9, <1>t DEF AutoClose, HoldsTracked, sender
  <1>10. CASE ParentClose \/ UNCHANGED vars
    BY <1>10, <1>2 DEF ParentClose, vars, sender
  <1>11. QED
    BY <1>1, <1>3, <1>4, <1>5, <1>6, <1>7, <1>8, <1>9, <1>10
    DEF Next, SenderStep, ReceiverStep, ParentStep
--------------------------------------------------------------------------------
(* The theorems.                                                           *)

\* The inductive invariant holds in every behaviour.
THEOREM Invariance == Spec => []IInv
  <1>1. IInv /\ [Next]_vars => IInv'
    BY TypeStep, ChannelStep, HoldsStep DEF IInv
  <1>2. QED
    BY <1>1, InitEstablishes, PTL DEF Spec

\* Types: in particular the producer counter never wraps below zero.
THEOREM TypeCorrect == Spec => []TypeOK
  <1>1. IInv => TypeOK
    BY DEF IInv
  <1>2. QED
    BY <1>1, Invariance, PTL

\* The buffer never exceeds the channel's capacity, although `send_action` and
\* `try_push` are separate critical sections.
THEOREM Bounded == Spec => []QueueBounded
  <1>1. IInv => QueueBounded
    BY DEF IInv, ChannelInv
  <1>2. QED
    BY <1>1, Invariance, PTL

\* No completed send is lost, a rendezvous sender never runs ahead.
THEOREM NothingLost == Spec => []CompletedDelivered
  <1>1. IInv => CompletedDelivered
    BY DEF IInv, ChannelInv
  <1>2. QED
    BY <1>1, Invariance, PTL

\* Each sender's messages arrive in order, none twice.
THEOREM OrderKept == Spec => []InOrder
  <1>1. IInv => InOrder
    BY DEF IInv, ChannelInv
  <1>2. QED
    BY <1>1, Invariance, PTL

\* A receiver that was told `none` missed nothing.
THEOREM NoneFinal == Spec => []NoneIsFinal
  <1>1. IInv => NoneIsFinal
    BY DEF IInv, ChannelInv
  <1>2. QED
    BY <1>1, Invariance, PTL

\* The producer counter equals the number of recorded holds.
THEOREM HoldsExact == Spec => []HoldsCounted
  <1>1. IInv => HoldsCounted
    BY DEF IInv, HoldsTracked, HoldsCounted
  <1>2. QED
    BY <1>1, Invariance, PTL

\* The automatic close comes after the harvest of every worker spawned so far.
THEOREM ClosesAfterLast == Spec => AutoCloseAfterLast
  <1> DEFINE Act == ~closed /\ closed' /\ ~explicit'
                      => \A s \in Senders : pc[s] \in {"unborn", "harvested"}
  <1>1. IInv /\ [Next]_vars => [Act]_vars
    <2> SUFFICES ASSUME IInv, Next, ~closed, closed', ~explicit'
                 PROVE  \A s \in Senders : pc[s] \in {"unborn", "harvested"}
      OBVIOUS
    <2> USE SendersAssumption
    <2>1. AutoClose
      BY DEF Next, SenderStep, ReceiverStep, ParentStep, CheckSend, TryPush, Finish,
             WorkerClose, Take, ReadNone, Leave, Spawn, AddProducer, Harvest,
             HarvestFailed, ParentClose, core
    <2>2. holds = {} /\ starting \notin Senders
      BY <2>1 DEF AutoClose, IInv, HoldsTracked
    <2>3. QED
      BY <2>2 DEF IInv, HoldsTracked
  <1>2. QED
    BY <1>1, Invariance, PTL DEF Spec, AutoCloseAfterLast
--------------------------------------------------------------------------------
(* The channel keeps its promise.                                          *)

DoneCount == [s \in Senders |-> next[s] - 1]

\* The abstract state does not change when queue, flag, sends and history do not.
LEMMA PromiseStutters ==
  ASSUME UNCHANGED <<queue, closed, next, taken>>
  PROVE  UNCHANGED Promise!vars
  BY DEF Promise!vars

\* A completed send is counted as done.
LEMMA DoneAdvances ==
  ASSUME TypeOK, NEW s \in Senders, Completed(s)
  PROVE  DoneCount' = [DoneCount EXCEPT ![s] = @ + 1]
  <1> USE QuotaAssumption
  <1>1. \A u \in Senders : next[u] \in Nat
    BY DEF TypeOK
  <1>2. \A u \in Senders : next'[u] = IF u = s THEN next[s] + 1 ELSE next[u]
    BY DEF TypeOK, Completed
  <1>3. \A u \in Senders : DoneCount'[u] = [DoneCount EXCEPT ![s] = @ + 1][u]
    BY <1>1, <1>2 DEF DoneCount
  <1>4. QED
    BY <1>3 DEF DoneCount

\* A successful `try_push` is an Offer, a lost race a stutter.
LEMMA TryPushOffers ==
  ASSUME IInv, NEW s \in Senders, TryPush(s)
  PROVE  [Promise!Next]_(Promise!vars)
  <1> USE CapacityAssumption, QuotaAssumption
  <1>t. TypeOK /\ ChannelInv
    BY DEF IInv
  <1>1. CASE ~Accepts
    BY <1>1, PromiseStutters DEF TryPush
  <1>2. CASE Accepts
    <2>1. next[s] \in Nat /\ phase[s] = "Fresh"
      BY <1>t DEF TryPush, ChannelInv, PushFresh, TypeOK
    <2>2. Promise!Upcoming(s) = Current(s)
      BY <2>1 DEF Promise!Upcoming, Current
    <2>3. Current(s) \notin Queued \cup taken
      BY <2>1, <1>t DEF ChannelInv, OnlySent, Sent, Queued, Current
    <2>4. DoneCount' = IF Capacity = 0 THEN DoneCount
                       ELSE [DoneCount EXCEPT ![s] = @ + 1]
      <3>1. CASE Capacity = 0
        BY <3>1, <1>2 DEF TryPush, DoneCount
      <3>2. CASE Capacity # 0
        BY <3>2, <1>2, <1>t, DoneAdvances DEF TryPush
      <3>3. QED
        BY <3>1, <3>2
    <2>5. ~closed /\ Promise!Room
      BY <1>2 DEF Accepts, HasRoom, Promise!Room
    <2>6. /\ queue' = Append(queue, Current(s))
          /\ UNCHANGED <<closed, taken>>
      BY <1>2 DEF TryPush
    <2>7. Promise!Offer(s)
      BY <2>2, <2>3, <2>4, <2>5, <2>6
      DEF Promise!Offer, Promise!Buffered, Queued, DoneCount
    <2>8. QED
      BY <2>7 DEF Promise!Next
  <1>3. QED
    BY <1>1, <1>2

\* A `send_action` that answers Complete is a Complete of the promise: the
\* message really was taken.  Every other answer is a stutter.
LEMMA CheckSendCompletes ==
  ASSUME IInv, NEW s \in Senders, CheckSend(s)
  PROVE  [Promise!Next]_(Promise!vars)
  <1> USE CapacityAssumption, QuotaAssumption
  <1>t. TypeOK /\ ChannelInv
    BY DEF IInv
  <1>1. CASE UNCHANGED next
    BY <1>1, PromiseStutters DEF CheckSend, core
  <1>2. CASE PollSend(Capacity, Len(queue), closed, phase[s]) = "Complete"
    <2>1. Len(queue) \in Nat /\ closed \in BOOLEAN /\ phase[s] \in SendPhase
      BY <1>t, QueueElements DEF TypeOK
    <2>2. Capacity = 0 /\ phase[s] = "Deposited" /\ Len(queue) = 0
      BY <1>2, <2>1, SendPolicy
    <2>3. Current(s) \in taken
      <3>1. DOMAIN queue = {}
        BY <2>2, <1>t, QueueElements DEF TypeOK
      <3>2. QED
        BY <3>1, <2>2, <1>t DEF ChannelInv, DepositKept, Queued
    <2>4. Completed(s) /\ UNCHANGED <<queue, closed, taken>>
      BY <1>2 DEF CheckSend, core
    <2>5. next[s] \in Nat
      BY <1>t DEF TypeOK
    <2>6. Promise!Upcoming(s) = Current(s)
      BY <2>5 DEF Promise!Upcoming, Current
    <2>7. DoneCount' = [DoneCount EXCEPT ![s] = @ + 1]
      BY <2>4, <1>t, DoneAdvances
    <2>8. Promise!Complete(s)
      BY <2>2, <2>3, <2>4, <2>6, <2>7 DEF Promise!Complete, DoneCount
    <2>9. QED
      BY <2>8 DEF Promise!Next
  <1>3. QED
    BY <1>1, <1>2 DEF CheckSend

\* A `try_recv` that delivers is a Hand.
LEMMA TakeHands ==
  ASSUME IInv, NEW r \in Receivers, Take(r)
  PROVE  [Promise!Next]_(Promise!vars)
  <1>1. TypeOK
    BY DEF IInv
  <1>2. Len(queue) \in Nat /\ closed \in BOOLEAN
    BY <1>1, QueueElements DEF TypeOK
  <1>3. queue # <<>>
    BY <1>1, <1>2, RecvPolicy, EmptySeq DEF Take, TypeOK
  <1>4. Promise!Hand
    BY <1>3 DEF Take, sender, Promise!Hand
  <1>5. QED
    BY <1>4 DEF Promise!Next

\* SharedChannel implements ChannelPromise: whatever the interleaving of
\* `send_action`, `try_push`, `try_recv`, closes, spawns and harvests, users see
\* a channel that delivers in order, once, within its bound, and completes a
\* rendezvous send only after its message was taken.
THEOREM KeepsPromise == Spec => Implements
  <1>1. Init => Promise!Init
    BY DEF Init, Promise!Init
  <1>2. IInv /\ [Next]_vars => [Promise!Next]_(Promise!vars)
    <2> SUFFICES ASSUME IInv, [Next]_vars PROVE [Promise!Next]_(Promise!vars)
      OBVIOUS
    <2>1. ASSUME NEW s \in Senders, CheckSend(s) \/ TryPush(s)
          PROVE  [Promise!Next]_(Promise!vars)
      BY <2>1, CheckSendCompletes, TryPushOffers
    <2>2. ASSUME NEW r \in Receivers, Take(r) PROVE [Promise!Next]_(Promise!vars)
      BY <2>2, TakeHands
    <2>3. ASSUME closed' = TRUE, UNCHANGED <<queue, next, taken>>
          PROVE  [Promise!Next]_(Promise!vars)
      BY <2>3 DEF Promise!Next, Promise!Shut
    <2>4. ASSUME NEW s \in Senders, WorkerClose(s) PROVE [Promise!Next]_(Promise!vars)
      BY <2>3, <2>4 DEF WorkerClose, sender
    <2>5. CASE AutoClose \/ ParentClose
      BY <2>3, <2>5 DEF AutoClose, ParentClose, sender
    <2>6. ASSUME NEW s \in Senders,
                 Finish(s) \/ Spawn(s) \/ Harvest(s) \/ HarvestFailed(s)
          PROVE  [Promise!Next]_(Promise!vars)
      BY <2>6, PromiseStutters DEF Finish, Spawn, Harvest, HarvestFailed, core
    <2>7. ASSUME NEW r \in Receivers, ReadNone(r) \/ Leave(r)
          PROVE  [Promise!Next]_(Promise!vars)
      BY <2>7, PromiseStutters DEF ReadNone, Leave, core, sender
    <2>8. CASE AddProducer \/ UNCHANGED vars
      BY <2>8, PromiseStutters DEF AddProducer, vars, core, sender
    <2>9. QED
      BY <2>1, <2>2, <2>4, <2>5, <2>6, <2>7, <2>8
      DEF Next, SenderStep, ReceiverStep, ParentStep
  <1>3. QED
    BY <1>1, <1>2, Invariance, PTL DEF Spec, Implements, Promise!Spec
================================================================================
