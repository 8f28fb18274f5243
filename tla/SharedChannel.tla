----------------------------- MODULE SharedChannel -----------------------------
(***************************************************************************)
(* One cross-thread channel: a `ChannelCore` (crates/noeta-vm/src/         *)
(* isolate.rs) polled by isolate workers that send, by receivers, and by    *)
(* the parent VM that spawned the workers and counts their producer holds.  *)
(*                                                                         *)
(* A step is one critical section of the channel's mutex.  A send poll is   *)
(* two of them (`send_action`, then `try_push` after marshalling), so       *)
(* other threads run in between.  Sender s sends the messages <<s, 1>>,     *)
(* <<s, 2>>, ... one `await` after the other; messages carry no more data   *)
(* than their identity.                                                    *)
(***************************************************************************)
EXTENDS ChannelPolicy, Sequences, FiniteSets

CONSTANTS
  Senders,      \* isolate workers holding a `Sender`
  Receivers,    \* parties that loop on `recv`
  Capacity,     \* the channel's capacity; 0 is a rendezvous
  Quota,        \* how many messages each sender sends
  NoSender      \* "no worker is being spawned"

ASSUME CapacityAssumption == Capacity \in Nat
ASSUME QuotaAssumption == Quota \in Nat
ASSUME SendersAssumption == IsFiniteSet(Senders) /\ NoSender \notin Senders

VARIABLES
  queue,        \* ChannelInner.queue
  closed,       \* ChannelInner.closed
  producers,    \* ChannelCore.producers
  pc,           \* where each worker is: see PC
  next,         \* index of the message of the worker's current send future
  phase,        \* that future's SendPhase
  leaked,       \* a poll of the worker kept the message reference it retained
  rpc,          \* each receiver: "poll", "none" (read `none`) or "left"
  taken,        \* messages handed to receivers (history)
  parent,       \* the parent VM: "run", "spawning", "closing" or "aborted"
  starting,     \* the worker whose thread started, its hold not counted yet
  holds,        \* workers whose task records a producer hold (Task.holds)
  explicit      \* some party called `tx.close()` (history)

core   == <<queue, closed>>
sender == <<pc, next, phase, leaked>>
owner  == <<producers, parent, starting, holds>>
vars   == <<core, sender, rpc, taken, owner, explicit>>

PC == {"unborn", "poll", "push", "finished", "failed", "harvested"}
Message == Senders \X (1..Quota)
Current(s) == <<s, next[s]>>

Init ==
  /\ queue = <<>>
  /\ closed = FALSE
  /\ producers = 0
  /\ pc = [s \in Senders |-> "unborn"]
  /\ next = [s \in Senders |-> 1]
  /\ phase = [s \in Senders |-> "Fresh"]
  /\ leaked = [s \in Senders |-> FALSE]
  /\ rpc = [r \in Receivers |-> "poll"]
  /\ taken = {}
  /\ parent = "run"
  /\ starting = NoSender
  /\ holds = {}
  /\ explicit = FALSE
--------------------------------------------------------------------------------
(* Sending: the `Channel::Shared` arm of the channel-send future's poll.    *)

\* Mutant: a completed send future is polled again.
CompletedUnadvanced(s) ==
  phase' = [phase EXCEPT ![s] = "Fresh"] /\ UNCHANGED next

\* The send future completed: the worker goes on to its next message.
Completed(s) ==
  /\ next' = [next EXCEPT ![s] = @ + 1]
  /\ phase' = [phase EXCEPT ![s] = "Fresh"]

\* `send_action` at the future's phase.  The poll holds a fresh reference to
\* the message; the Park arm returns without releasing it.
CheckSend(s) ==
  /\ pc[s] = "poll"
  /\ next[s] <= Quota
  /\ \/ /\ PollSend(Capacity, Len(queue), closed, phase[s]) = "Closed"
        /\ pc' = [pc EXCEPT ![s] = "failed"]
        /\ UNCHANGED <<next, phase, leaked>>
     \/ /\ PollSend(Capacity, Len(queue), closed, phase[s]) = "Complete"
        /\ Completed(s)
        /\ UNCHANGED <<pc, leaked>>
     \/ /\ PollSend(Capacity, Len(queue), closed, phase[s]) = "Park"
        /\ leaked' = [leaked EXCEPT ![s] = TRUE]
        /\ UNCHANGED <<pc, next, phase>>
     \/ /\ PollSend(Capacity, Len(queue), closed, phase[s])
             \in {"DeliverBuffered", "Deposit"}
        /\ pc' = [pc EXCEPT ![s] = "push"]
        /\ UNCHANGED <<next, phase, leaked>>
  /\ UNCHANGED <<core, rpc, taken, owner, explicit>>

\* Mutants: the push trusts the earlier `send_action` for room, or openness.
AcceptsWhenFull == ~closed
AcceptsWhenClosed == HasRoom(Capacity, Len(queue))

\* What `try_push` tests again, under the lock it pushes under.
Accepts == ~closed /\ HasRoom(Capacity, Len(queue))

\* `try_push`.  A poll that lost the race stays pending, and keeps its
\* reference too.
TryPush(s) ==
  /\ pc[s] = "push"
  /\ pc' = [pc EXCEPT ![s] = "poll"]
  /\ \/ /\ Accepts
        /\ queue' = Append(queue, Current(s))
        /\ IF Capacity = 0
           THEN phase' = [phase EXCEPT ![s] = "Deposited"] /\ UNCHANGED next
           ELSE Completed(s)
        /\ UNCHANGED leaked
     \/ /\ ~Accepts
        /\ leaked' = [leaked EXCEPT ![s] = TRUE]
        /\ UNCHANGED <<queue, next, phase>>
  /\ UNCHANGED <<closed, rpc, taken, owner, explicit>>

\* The worker's body returned, or it honoured a cancellation at a safepoint
\* between two polls (then possibly with messages left to send).
Finish(s) ==
  /\ pc[s] = "poll"
  /\ pc' = [pc EXCEPT ![s] = "finished"]
  /\ UNCHANGED <<core, next, phase, leaked, rpc, taken, owner, explicit>>

\* `tx.close()` on a worker, between two sends.
WorkerClose(s) ==
  /\ pc[s] = "poll"
  /\ phase[s] = "Fresh"
  /\ closed' = TRUE
  /\ explicit' = TRUE
  /\ UNCHANGED <<queue, sender, rpc, taken, owner>>
--------------------------------------------------------------------------------
(* Receiving: `try_recv`.  A poll that finds nothing changes nothing.       *)

Take(r) ==
  /\ rpc[r] = "poll"
  /\ PollRecv(Len(queue), closed) = "Deliver"
  /\ taken' = taken \cup {Head(queue)}
  /\ queue' = Tail(queue)
  /\ UNCHANGED <<closed, sender, rpc, owner, explicit>>

ReadNone(r) ==
  /\ rpc[r] = "poll"
  /\ PollRecv(Len(queue), closed) = "ClosedEmpty"
  /\ rpc' = [rpc EXCEPT ![r] = "none"]
  /\ UNCHANGED <<core, sender, taken, owner, explicit>>

\* A receiver's body may stop asking for messages.
Leave(r) ==
  /\ rpc[r] = "poll"
  /\ rpc' = [rpc EXCEPT ![r] = "left"]
  /\ UNCHANGED <<core, sender, taken, owner, explicit>>
--------------------------------------------------------------------------------
(* The parent VM, one thread.                                              *)

\* `try_spawn_isolate_real` starts the worker's thread ...
Spawn(s) ==
  /\ parent = "run"
  /\ pc[s] = "unborn"
  /\ pc' = [pc EXCEPT ![s] = "poll"]
  /\ parent' = "spawning"
  /\ starting' = s
  /\ UNCHANGED <<core, next, phase, leaked, rpc, taken, producers, holds, explicit>>

\* ... and counts its producer hold afterwards, in `register_task`.
AddProducer ==
  /\ parent = "spawning"
  /\ producers' = producers + 1
  /\ holds' = holds \cup {starting}
  /\ parent' = "run"
  /\ starting' = NoSender
  /\ UNCHANGED <<core, sender, rpc, taken, explicit>>

\* Mutants: the channel closes one producer early, or never; a hold is
\* counted down twice.
LastButOne == producers = 2
NeverLast == FALSE
DropProducerTwice(s) == producers' = producers - 2 /\ holds' = holds \ {s}

\* `drop_producer`: the count goes down; whoever takes it to zero closes.
LastProducer == producers = 1
DropProducer(s) == producers' = producers - 1 /\ holds' = holds \ {s}

\* The parent's round meets a worker's outcome.  A completed or cancelled
\* worker releases its hold (`drop_producer`); the last one closes next.
Harvest(s) ==
  /\ parent = "run"
  /\ pc[s] = "finished"
  /\ pc' = [pc EXCEPT ![s] = "harvested"]
  /\ DropProducer(s)
  /\ parent' = IF LastProducer THEN "closing" ELSE "run"
  /\ UNCHANGED <<core, next, phase, leaked, rpc, taken, starting, explicit>>

\* The close inside `drop_producer`, a critical section of its own.
AutoClose ==
  /\ parent = "closing"
  /\ closed' = TRUE
  /\ parent' = "run"
  /\ UNCHANGED <<queue, sender, rpc, taken, producers, starting, holds, explicit>>

\* A failed worker's outcome raises in the parent, which keeps every hold.
HarvestFailed(s) ==
  /\ parent = "run"
  /\ pc[s] = "failed"
  /\ pc' = [pc EXCEPT ![s] = "harvested"]
  /\ parent' = "aborted"
  /\ UNCHANGED <<core, next, phase, leaked, rpc, taken, producers, starting, holds, explicit>>

\* `tx.close()` on the parent's own endpoint.
ParentClose ==
  /\ parent = "run"
  /\ closed' = TRUE
  /\ explicit' = TRUE
  /\ UNCHANGED <<queue, sender, rpc, taken, owner>>
--------------------------------------------------------------------------------
SenderStep(s) == CheckSend(s) \/ TryPush(s) \/ Finish(s) \/ WorkerClose(s)
ReceiverStep(r) == Take(r) \/ ReadNone(r) \/ Leave(r)
ParentStep ==
  \/ \E s \in Senders : Spawn(s) \/ Harvest(s) \/ HarvestFailed(s)
  \/ AddProducer
  \/ AutoClose
  \/ ParentClose

Next ==
  \/ \E s \in Senders : SenderStep(s)
  \/ \E r \in Receivers : ReceiverStep(r)
  \/ ParentStep

Spec == Init /\ [][Next]_vars

\* Every party's scheduler keeps polling it: a worker's next critical section,
\* a receiver's next poll and the parent's harvest all happen eventually, and
\* a worker whose messages are all sent returns.  Spawning, closing early,
\* cancelling and leaving are the program's choices and are not forced.
Fairness ==
  /\ \A s \in Senders : /\ WF_vars(CheckSend(s) \/ TryPush(s))
                        /\ WF_vars(next[s] > Quota /\ Finish(s))
  /\ \A r \in Receivers : WF_vars(Take(r) \/ ReadNone(r))
  /\ WF_vars(AddProducer \/ AutoClose
             \/ \E s \in Senders : Harvest(s) \/ HarvestFailed(s))

FairSpec == Spec /\ Fairness
--------------------------------------------------------------------------------
(* Properties.                                                             *)

Queued == {queue[i] : i \in DOMAIN queue}

\* The shape of the state: the queue holds messages, the producer count never
\* goes below zero (`fetch_sub` would wrap), pcs and phases are legal.
TypeOK ==
  /\ queue \in Seq(Message)
  /\ closed \in BOOLEAN
  /\ producers \in Nat
  /\ pc \in [Senders -> PC]
  /\ next \in [Senders -> 1..(Quota + 1)]
  /\ phase \in [Senders -> SendPhase]
  /\ leaked \in [Senders -> BOOLEAN]
  /\ rpc \in [Receivers -> {"poll", "none", "left"}]
  /\ taken \in SUBSET Message
  /\ parent \in {"run", "spawning", "closing", "aborted"}
  /\ starting \in Senders \cup {NoSender}
  /\ holds \in SUBSET Senders
  /\ explicit \in BOOLEAN

\* However many workers decided to push from the same `send_action` answer,
\* the buffer never exceeds its capacity (the handoff slot: one message).
QueueBounded == Len(queue) <= (IF Capacity = 0 THEN 1 ELSE Capacity)

\* A completed send was not lost: on a rendezvous channel a receiver took the
\* message ("the sender never runs ahead"), on a buffered one it is taken or
\* still waiting -- also when the channel was closed in the meantime.
CompletedDelivered ==
  \A s \in Senders : \A i \in 1..(next[s] - 1) :
    <<s, i>> \in taken \cup (IF Capacity = 0 THEN {} ELSE Queued)

\* Per-sender FIFO, exactly once: a retried poll never puts a message in the
\* channel twice, and no message overtakes an earlier one of its sender.
InOrder ==
  /\ \A i, j \in DOMAIN queue :
       i < j /\ queue[i][1] = queue[j][1] => queue[i][2] < queue[j][2]
  /\ \A m \in taken : \A i \in DOMAIN queue :
       m[1] = queue[i][1] => m[2] < queue[i][2]

\* A receiver that read `none` missed nothing: the channel is closed and stays
\* drained, although a push decided before the close may run after it.
NoneIsFinal ==
  (\E r \in Receivers : rpc[r] = "none") => closed /\ queue = <<>>

\* The counter agrees with the holds recorded on the tasks, so the close at
\* zero can only be the last producer's (`producer_left`, `drop_producer`).
HoldsCounted == producers = Cardinality(holds)

\* Auto-close never shuts the channel on a worker that may still send: when it
\* closes, every worker spawned so far has been harvested.
AutoCloseAfterLast ==
  [][~closed /\ closed' /\ ~explicit'
       => \A s \in Senders : pc[s] \in {"unborn", "harvested"}]_vars

\* The channel as its users see it.
Promise == INSTANCE ChannelPromise WITH
  buf <- queue, shut <- closed, out <- taken,
  done <- [s \in Senders |-> next[s] - 1]
Implements == Promise!Spec

\* Receivers do not block forever: once every worker returned or was
\* cancelled, each receiver still asking drains the channel and reads `none`.
DrainsToNone ==
  (\A s \in Senders : pc[s] \in {"finished", "harvested"})
    ~> (\A r \in Receivers : rpc[r] # "poll") \/ parent = "aborted"

\* channel.rs: "Completion is purely 'was it taken?'" -- a rendezvous send
\* whose message a receiver took completes (unless its worker was stopped).
TakenCompletes ==
  \A s \in Senders :
    phase[s] = "Deposited" /\ Current(s) \in taken
      ~> phase[s] = "Fresh" \/ pc[s] \in {"finished", "failed", "harvested"}

\* scheduler.rs, on the message a send poll retains: "transferred to the
\* buffer on a deposit/deliver, released otherwise".
PollsBalanced == \A s \in Senders : ~leaked[s]
================================================================================
