----------------------------- MODULE IsolateSched ------------------------------
(***************************************************************************)
(* Real-thread isolates (crates/noeta-vm/src/scheduler.rs, isolate.rs,     *)
(* lifecycle.rs): the root VM and its workers, each an OS thread driving    *)
(* its own body with `drive_future_outcome`, meeting in shared channels,    *)
(* the process-wide wake eventcount WAKE and the stall registry STALL.      *)
(*                                                                         *)
(* A body is an `async fn`, abstracted to the sequence prog[t] of its       *)
(* channel, spawn, cancel, join and scope-end operations.  One step is one  *)
(* critical section or one atomic access; threads interleave freely.        *)
(* Bodies have no timers and no async IO: `Executor::advance` answers       *)
(* "nothing pending", so an unproductive round always reaches the stall     *)
(* check.  Every scheduler is registered (`stall_active`), as in a CLI run. *)
(***************************************************************************)
EXTENDS ChannelPolicy, Sequences, FiniteSets

CONSTANTS
  Root,          \* the root VM's thread
  Workers,       \* isolate worker threads
  Channels,      \* shared channels
  Cap,           \* Cap[c]: capacity
  Programs,      \* the programs to consider: a body for every thread
  Untimed        \* the programs considered without the safety timeout of a park

Scheds == Workers \cup {Root}

ASSUME ThreadsAssumption == IsFiniteSet(Workers) /\ Root \notin Workers
ASSUME CapAssumption == Cap \in [Channels -> Nat]

\* Operations of a body.  The first three are awaited, the others are not.
Recv(c)   == [op |-> "recv", arg |-> c]
Send(c)   == [op |-> "send", arg |-> c]
Join(w)   == [op |-> "join", arg |-> w]
ScopeEnd  == [op |-> "scope_end", arg |-> Root]
Close(c)  == [op |-> "close", arg |-> c]
Spawn(w)  == [op |-> "spawn", arg |-> w]
Cancel(w) == [op |-> "cancel", arg |-> w]
Ops ==
  {Recv(c) : c \in Channels} \cup {Send(c) : c \in Channels} \cup {Close(c) : c \in Channels}
    \cup {Join(w) : w \in Workers} \cup {Spawn(w) : w \in Workers}
    \cup {Cancel(w) : w \in Workers} \cup {ScopeEnd}

\* A program gives every thread a body.  An `isolate` expression starts a new
\* worker each time it is evaluated, so a worker is spawned in one place only.
ASSUME ProgramsAssumption ==
  \A p \in Programs :
    /\ p \in [Scheds -> Seq(Ops)]
    /\ \A t, u \in Scheds : \A i \in DOMAIN p[t], j \in DOMAIN p[u] :
         p[t][i].op = "spawn" /\ p[t][i] = p[u][j] => t = u /\ i = j

\* A task handle does not leave its VM (`marshal` has no form for a future), so
\* a body joins and cancels workers that it spawned itself.
ASSUME HandlesAssumption ==
  \A p \in Programs : \A t \in Scheds : \A i \in DOMAIN p[t] :
    p[t][i].op \in {"join", "cancel"} => \E j \in 1..(i - 1) : p[t][j] = Spawn(p[t][i].arg)

\* `isolate` stands in a `concurrent` block, whose end a body that returns passes.
ASSUME BlocksAssumption ==
  \A p \in Programs : \A t \in Scheds : \A i \in DOMAIN p[t] :
    p[t][i].op = "spawn" => \E j \in DOMAIN p[t] : j > i /\ p[t][j] = ScopeEnd

VARIABLES
  prog,          \* the program that runs; prog[t] is t's body
  \* per thread
  pc, ip,        \* position in the scheduler loop, and in the body
  phase,         \* SendPhase of the body's current send future
  woken,         \* WAKE.generation moved since the snapshot before the round
  progressed,    \* `progressed`: a completion or a channel operation this round
  after,         \* where to go once an owed WAKE.notify is done
  todo,          \* tasks not polled yet in this round of all scopes
  count,         \* what `park` got from its fetch_add
  full,          \* park's answer: every registered scheduler was parked
  quiet,         \* no wake arrived during the wait
  fate,          \* why the body is unwinding
  cancel,        \* the cancellation flag of the thread's CancelSignal
  kids,          \* workers this VM spawned (its IsolateSlots)
  inflight,      \* inflight_isolates
  slots,         \* registered_workers
  \* per worker
  task,          \* its Task in the parent: "live", "result" or "cancelled"
  report,        \* the IsolateOutcome it sent home, or "none"
  \* shared
  queue, closed, producers,          \* ChannelCore, per channel
  active, parked, deadlocked         \* STALL

chans    == <<queue, closed, producers>>
stall    == <<active, parked, deadlocked>>
family   == <<kids, inflight, slots, task, report>>
body     == <<ip, phase, fate, cancel>>
waiting  == <<count, full, quiet>>
round    == <<progressed, after, todo>>
vars     == <<prog, pc, body, waiting, round, family, chans, woken, stall>>

Live(t) == pc[t] \notin {"unborn", "ended"}
Op(t) == prog[t][ip[t]]
At(t, op) == pc[t] = "poll" /\ ip[t] <= Len(prog[t]) /\ Op(t).op = op
Goto(t, l) == pc' = [pc EXCEPT ![t] = l]
Set(f, t, v) == [f EXCEPT ![t] = v]

\* The endpoints a thread was given are the ones its body uses, or ships to
\* the workers it spawns; the root creates all of them.  (Programs spawn at
\* most two levels deep.)
Family(t) ==
  IF t = Root THEN Scheds
  ELSE {t} \cup {w \in Workers : \E i \in DOMAIN prog[t] : prog[t][i] = Spawn(w)}
Uses(t) == UNION {{prog[u][i] : i \in DOMAIN prog[u]} : u \in Family(t)}

\* Channels in t's channel table, and channels whose `Sender` is among worker
\* w's arguments: its producer holds.
Known(t) == {c \in Channels : {Recv(c), Send(c), Close(c)} \cap Uses(t) # {}}
Senders(w) == {c \in Channels : {Send(c), Close(c)} \cap Uses(w) # {}}

Init ==
  /\ prog \in Programs
  /\ pc = [t \in Scheds |-> IF t = Root THEN "top" ELSE "unborn"]
  /\ ip = [t \in Scheds |-> 1]
  /\ phase = [t \in Scheds |-> "Fresh"]
  /\ woken = [t \in Scheds |-> TRUE]
  /\ progressed = [t \in Scheds |-> FALSE]
  /\ after = [t \in Scheds |-> "poll"]
  /\ todo = [t \in Scheds |-> {}]
  /\ count = [t \in Scheds |-> 0]
  /\ full = [t \in Scheds |-> FALSE]
  /\ quiet = [t \in Scheds |-> FALSE]
  /\ fate = [t \in Scheds |-> "none"]
  /\ cancel = [t \in Scheds |-> FALSE]
  /\ kids = [t \in Scheds |-> {}]
  /\ inflight = [t \in Scheds |-> 0]
  /\ slots = [t \in Scheds |-> 0]
  /\ task = [w \in Workers |-> "live"]
  /\ report = [w \in Workers |-> "none"]
  /\ queue = [c \in Channels |-> <<>>]
  /\ closed = [c \in Channels |-> FALSE]
  /\ producers = [c \in Channels |-> 0]
  /\ active = 1                 \* the root registered around its driving loop
  /\ parked = 0
  /\ deadlocked = FALSE
--------------------------------------------------------------------------------
(* The driving loop, up to the body.                                       *)

\* The body stops here, for the reason `why`.
Unwind(t, why) ==
  /\ Goto(t, "unwind")
  /\ fate' = Set(fate, t, why)

\* `check_cancel`, the first thing an iteration does ...
Top(t) ==
  /\ pc[t] = "top"
  /\ ~cancel[t]
  /\ Goto(t, "snap")
  /\ UNCHANGED <<body, waiting, round, family, chans, woken, stall>>

\* ... and the snapshot of the generation, before anything is polled.
Snapshot(t) ==
  /\ pc[t] = "snap"
  /\ woken' = Set(woken, t, FALSE)
  /\ progressed' = Set(progressed, t, FALSE)
  /\ Goto(t, "enter")
  /\ UNCHANGED <<body, waiting, after, todo, family, chans, stall>>

\* `h.join()` and the end of a block run the loop from inside the body: their
\* polls look at tasks and enter no frame.
Nested(t) == ip[t] <= Len(prog[t]) /\ Op(t).op \in {"join", "scope_end"}

\* The poll calls the body's step: a frame transfer, itself a safepoint.
Enter(t) ==
  /\ pc[t] = "enter"
  /\ ~cancel[t] \/ Nested(t)
  /\ Goto(t, "poll")
  /\ UNCHANGED <<body, waiting, round, family, chans, woken, stall>>

\* Where a cancellation request is looked for.
Safepoint(t) == pc[t] \in {"top", "poll"} \/ (pc[t] = "enter" /\ ~Nested(t))

\* Mutant: the request is not passed on to the workers below.
ObserveCancelAlone(t) ==
  /\ Safepoint(t)
  /\ cancel[t]
  /\ cancel' = Set(cancel, t, FALSE)
  /\ Unwind(t, "cancelled")
  /\ UNCHANGED <<ip, phase, waiting, round, family, chans, woken, stall>>

\* `observe_cancel`: clear the request, pass it on to every spawned worker
\* and unwind.  The loop top and the frame transfer must look; the body may
\* meet other safepoints between two operations.  The workers' flags are set
\* one after the other, each with a wake; here at once, with one.
ObserveCancel(t) ==
  /\ Safepoint(t)
  /\ cancel[t]
  /\ cancel' = [u \in Scheds |-> (u # t /\ cancel[u]) \/ u \in kids[t]]
  /\ fate' = Set(fate, t, "cancelled")
  /\ IF kids[t] = {}
     THEN Goto(t, "unwind") /\ UNCHANGED after
     ELSE Goto(t, "notify") /\ after' = Set(after, t, "unwind")
  /\ UNCHANGED <<ip, phase, waiting, progressed, todo, family, chans, woken, stall>>

\* WAKE.notify, once the lock or the flag store it follows is behind.
Notify(t) ==
  /\ pc[t] = "notify"
  /\ woken' = [u \in Scheds |-> TRUE]
  /\ Goto(t, after[t])
  /\ after' = Set(after, t, "poll")
  /\ UNCHANGED <<body, waiting, progressed, todo, family, chans, stall>>
--------------------------------------------------------------------------------
(* The body.                                                               *)

Step(t) == ip' = Set(ip, t, ip[t] + 1)

\* The body cannot continue: the poll returns Pending, all tasks come next.
Suspend(t) ==
  /\ Goto(t, "round")
  /\ todo' = Set(todo, t, {w \in kids[t] : task[w] = "live"})

\* Mutant: the other threads are not woken.
NotifyThenSilent(t, l) ==
  /\ Goto(t, l)
  /\ progressed' = Set(progressed, t, TRUE)
  /\ UNCHANGED after

\* A channel operation went through; `channel_progress` moved.
NotifyThen(t, l) ==
  /\ Goto(t, "notify")
  /\ after' = Set(after, t, l)
  /\ progressed' = Set(progressed, t, TRUE)

\* `rx.recv()`: `try_recv` under the channel's lock.
RecvGot(t) ==
  /\ At(t, "recv")
  /\ PollRecv(Len(queue[Op(t).arg]), closed[Op(t).arg]) = "Deliver"
  /\ queue' = Set(queue, Op(t).arg, Tail(queue[Op(t).arg]))
  /\ Step(t)
  /\ NotifyThen(t, "poll")
  /\ UNCHANGED <<phase, fate, cancel, waiting, todo, family, closed, producers, woken, stall>>

RecvNone(t) ==
  /\ At(t, "recv")
  /\ PollRecv(Len(queue[Op(t).arg]), closed[Op(t).arg]) = "ClosedEmpty"
  /\ Step(t)
  /\ UNCHANGED <<pc, phase, fate, cancel, waiting, round, family, chans, woken, stall>>

RecvPark(t) ==
  /\ At(t, "recv")
  /\ PollRecv(Len(queue[Op(t).arg]), closed[Op(t).arg]) = "Park"
  /\ Suspend(t)
  /\ UNCHANGED <<body, waiting, progressed, after, family, chans, woken, stall>>

\* `tx.send(v)`: the policy's answer, from one look at the channel.
SendAnswer(t) ==
  PollSend(Cap[Op(t).arg], Len(queue[Op(t).arg]), closed[Op(t).arg], phase[t])

SendCheck(t) ==
  /\ At(t, "send")
  /\ \/ /\ SendAnswer(t) = "Closed"
        /\ Unwind(t, "failed")
        /\ UNCHANGED <<ip, phase, progressed, todo>>
     \/ /\ SendAnswer(t) = "Complete"
        /\ Step(t)
        /\ phase' = Set(phase, t, "Fresh")
        /\ progressed' = Set(progressed, t, TRUE)
        /\ UNCHANGED <<pc, fate, todo>>
     \/ /\ SendAnswer(t) = "Park"
        /\ Suspend(t)
        /\ UNCHANGED <<ip, phase, fate, progressed>>
     \/ /\ SendAnswer(t) \in {"DeliverBuffered", "Deposit"}
        /\ Goto(t, "push")
        /\ UNCHANGED <<ip, phase, fate, progressed, todo>>
  /\ UNCHANGED <<cancel, waiting, after, family, chans, woken, stall>>

\* `try_push`, after marshalling; a lost race leaves the send pending.
SendPush(t) ==
  /\ pc[t] = "push"
  /\ LET c == Op(t).arg IN
     \/ /\ ~closed[c] /\ HasRoom(Cap[c], Len(queue[c]))
        /\ queue' = Set(queue, c, Append(queue[c], t))
        /\ IF Cap[c] = 0
           THEN /\ phase' = Set(phase, t, "Deposited")
                /\ todo' = Set(todo, t, {w \in kids[t] : task[w] = "live"})
                /\ NotifyThen(t, "round")
                /\ UNCHANGED ip
           ELSE /\ Step(t)
                /\ NotifyThen(t, "poll")
                /\ UNCHANGED <<phase, todo>>
     \/ /\ closed[c] \/ ~HasRoom(Cap[c], Len(queue[c]))
        /\ Suspend(t)
        /\ UNCHANGED <<queue, ip, phase, progressed, after>>
  /\ UNCHANGED <<fate, cancel, waiting, family, closed, producers, woken, stall>>

\* `h.join()` on a worker's task, and the join of the `concurrent` block.  The
\* loop around the body took its snapshot before the nested one: wakes of the
\* meantime are news to it.  (Also counted as woken is a join that found its
\* tasks done at once, whose thread then looks around once more than it has to.)
Awaited(t) ==
  IF Op(t).op = "join" THEN {Op(t).arg} ELSE kids[t]

JoinPoll(t) ==
  /\ At(t, "join") \/ At(t, "scope_end")
  /\ \/ /\ \A w \in Awaited(t) : task[w] # "live"
        /\ Step(t)
        /\ woken' = Set(woken, t, TRUE)
        /\ UNCHANGED <<pc, todo>>
     \/ /\ \E w \in Awaited(t) : task[w] = "live"
        /\ Suspend(t)
        /\ UNCHANGED <<ip, woken>>
  /\ UNCHANGED <<phase, fate, cancel, waiting, progressed, after, family, chans, stall>>

\* `tx.close()`.
DoClose(t) ==
  /\ At(t, "close")
  /\ closed' = Set(closed, Op(t).arg, TRUE)
  /\ Step(t)
  /\ NotifyThen(t, "poll")
  /\ UNCHANGED <<phase, fate, cancel, waiting, todo, family, queue, producers, woken, stall>>

\* `h.cancel()`: a no-op on a completed task, a request to a running worker.
DoCancel(t) ==
  /\ At(t, "cancel")
  /\ Step(t)
  /\ \/ /\ task[Op(t).arg] = "result"
        /\ UNCHANGED <<pc, cancel, after>>
     \/ /\ task[Op(t).arg] # "result"
        /\ cancel' = Set(cancel, Op(t).arg, TRUE)
        /\ Goto(t, "notify")
        /\ after' = Set(after, t, "poll")
  /\ UNCHANGED <<phase, fate, waiting, progressed, todo, family, chans, woken, stall>>

\* Mutant: the thread starts without a stall slot.
TakeSlotMissing(t) ==
  /\ At(t, "spawn")
  /\ Goto(t, "start")
  /\ UNCHANGED <<body, waiting, round, family, chans, woken, stall>>

\* `isolate f(..)`, step 1: take the worker's stall slot, before its thread.
TakeSlot(t) ==
  /\ At(t, "spawn")
  /\ active' = active + 1
  /\ Goto(t, "start")
  /\ UNCHANGED <<body, waiting, round, family, chans, woken, parked, deadlocked>>

\* Step 2: the thread starts; the slot is now the worker's.
StartThread(t) ==
  /\ pc[t] = "start"
  /\ pc' = [pc EXCEPT ![t] = "book", ![Op(t).arg] = "top"]
  /\ slots' = Set(slots, t, slots[t] + 1)
  /\ UNCHANGED <<body, waiting, round, kids, inflight, task, report, chans, woken, stall>>

\* Step 3: the bookkeeping the parent still owes -- the in-flight count, an
\* inherited cancellation, the task and its producer holds.
Book(t) ==
  /\ pc[t] = "book"
  /\ LET w == Op(t).arg IN
     /\ kids' = Set(kids, t, kids[t] \cup {w})
     /\ inflight' = Set(inflight, t, inflight[t] + 1)
     /\ producers' = [c \in Channels |->
                        IF c \in Senders(w) THEN producers[c] + 1 ELSE producers[c]]
     /\ cancel' = IF cancel[t] THEN Set(cancel, w, TRUE) ELSE cancel
  /\ Step(t)
  /\ IF cancel[t]
     THEN Goto(t, "notify") /\ after' = Set(after, t, "poll")
     ELSE Goto(t, "poll") /\ UNCHANGED after
  /\ UNCHANGED <<phase, fate, waiting, progressed, todo, slots, task, report,
                 queue, closed, woken, stall>>

\* The body returned.
Finish(t) ==
  /\ pc[t] = "poll"
  /\ ip[t] > Len(prog[t])
  /\ Unwind(t, "done")
  /\ UNCHANGED <<ip, phase, cancel, waiting, round, family, chans, woken, stall>>
--------------------------------------------------------------------------------
(* The round over every open scope: poll each worker's task once.          *)

PollPending(t, w) ==
  /\ pc[t] = "round"
  /\ w \in todo[t]
  /\ report[w] = "none"
  /\ todo' = Set(todo, t, todo[t] \ {w})
  /\ UNCHANGED <<pc, body, waiting, progressed, after, family, chans, woken, stall>>

\* Mutant: the latch is never cleared.
DeregisterKeepsLatch(n) == active' = active - n /\ UNCHANGED deadlocked

\* `deregister`: the last slot out clears the latch.
Deregister(n) ==
  /\ active' = active - n
  /\ deadlocked' = (deadlocked /\ active # n)

\* Mutant: the thread is not joined.
FinishIsolateUnjoined(t, w) ==
  /\ todo' = Set(todo, t, todo[t] \ {w})
  /\ inflight' = Set(inflight, t, inflight[t] - 1)
  /\ slots' = Set(slots, t, slots[t] - 1)
  /\ Deregister(1)

\* `finish_isolate`: join the thread, drop it from the in-flight count and
\* give its stall slot back.
FinishIsolate(t, w) ==
  /\ pc[w] = "ended"
  /\ todo' = Set(todo, t, todo[t] \ {w})
  /\ inflight' = Set(inflight, t, inflight[t] - 1)
  /\ slots' = Set(slots, t, slots[t] - 1)
  /\ Deregister(1)

\* Mutant: a cancelled worker's task looks completed.
TerminalAlwaysResult(r) == "result"

\* The task state a worker's report leads to.
Terminal(r) == IF r = "done" THEN "result" ELSE "cancelled"

\* A completed or cancelled worker: its task is terminal and its producer
\* holds end, which closes a channel that lost its last producer.
Harvest(t, w) ==
  /\ pc[t] = "round"
  /\ w \in todo[t]
  /\ report[w] \in {"done", "cancelled"}
  /\ FinishIsolate(t, w)
  /\ task' = Set(task, w, Terminal(report[w]))
  /\ progressed' = Set(progressed, t, TRUE)
  /\ producers' = [c \in Channels |->
                     IF c \in Senders(w) THEN producers[c] - 1 ELSE producers[c]]
  /\ LET last == {c \in Senders(w) : producers[c] = 1} IN
     /\ closed' = [c \in Channels |-> closed[c] \/ c \in last]
     /\ IF last = {}
        THEN UNCHANGED <<pc, after>>
        ELSE Goto(t, "notify") /\ after' = Set(after, t, "round")
  /\ UNCHANGED <<body, waiting, kids, report, queue, woken, parked>>

\* A failed worker's error is raised again in the parent.
HarvestFailed(t, w) ==
  /\ pc[t] = "round"
  /\ w \in todo[t]
  /\ report[w] = "failed"
  /\ FinishIsolate(t, w)
  /\ Unwind(t, "failed")
  /\ UNCHANGED <<ip, phase, cancel, waiting, progressed, after, kids, task,
                 report, chans, woken, parked>>

\* Progress: another round.  None: on to the stall check.
RoundDone(t) ==
  /\ pc[t] = "round"
  /\ todo[t] = {}
  /\ Goto(t, IF progressed[t] THEN "top" ELSE "stall")
  /\ UNCHANGED <<body, waiting, round, family, chans, woken, stall>>
--------------------------------------------------------------------------------
(* The stall check, `isolate_in_flight_wait`.                              *)

\* Mutant: a closed channel counts as drained.
IsPendingOpen(c) == ~closed[c]

\* `is_pending`.  Closed-and-drained is stable, so a scan of the channel table
\* that finds every channel so is as good as one look at all of them.
IsPending(c) == ~closed[c] \/ queue[c] # <<>>
CrossThreadPending(t) == inflight[t] > 0 \/ \E c \in Known(t) : IsPending(c)

\* Nothing outstanding on another thread, or the deadlock is latched: E0010.
StallCheck(t) ==
  /\ pc[t] = "stall"
  /\ IF CrossThreadPending(t) /\ ~deadlocked
     THEN Goto(t, "park") /\ UNCHANGED fate
     ELSE Unwind(t, IF deadlocked THEN "deadlock" ELSE "alone")
  /\ UNCHANGED <<ip, phase, cancel, waiting, round, family, chans, woken, stall>>

\* `park`: count this scheduler as parked ...
Park(t) ==
  /\ pc[t] = "park"
  /\ parked' = parked + 1
  /\ count' = Set(count, t, parked + 1)
  /\ Goto(t, "count")
  /\ UNCHANGED <<body, full, quiet, round, family, chans, woken, active, deadlocked>>

\* ... and compare what it got with the registered ones.
CountParked(t) ==
  /\ pc[t] = "count"
  /\ full' = Set(full, t, count[t] >= active)
  /\ Goto(t, "wait")
  /\ UNCHANGED <<body, count, quiet, round, family, chans, woken, stall>>

InPark(t) == pc[t] \in {"count", "wait", "confirm", "judge", "unpark"}

\* `wait_past`: returns once the generation moved, or after 5 ms.  Nothing is
\* assumed of how those compare with the time another thread is kept off the CPU.
WaitPast(t) ==
  /\ pc[t] = "wait"
  /\ woken[t] \/ prog \notin Untimed
  /\ Goto(t, "confirm")
  /\ UNCHANGED <<body, waiting, round, family, chans, woken, stall>>

\* Did a wake arrive during the wait?
Confirm(t) ==
  /\ pc[t] = "confirm"
  /\ quiet' = Set(quiet, t, ~woken[t])
  /\ Goto(t, "judge")
  /\ UNCHANGED <<body, count, full, round, family, chans, woken, stall>>

\* Deadlocked if latched already, or if everybody was parked before and after
\* a quiet wait.  The verdict is kept in `full`.
Judge(t) ==
  /\ pc[t] = "judge"
  /\ full' = Set(full, t, \/ deadlocked
                          \/ full[t] /\ quiet[t] /\ active > 0 /\ parked >= active)
  /\ Goto(t, "unpark")
  /\ UNCHANGED <<body, count, quiet, round, family, chans, woken, stall>>

\* Mutant: a woken scheduler stays counted.
UnparkUncounted(t) ==
  /\ pc[t] = "unpark"
  /\ Goto(t, IF full[t] THEN "latch" ELSE "top")
  /\ count' = Set(count, t, 0)
  /\ full' = Set(full, t, FALSE)
  /\ quiet' = Set(quiet, t, FALSE)
  /\ UNCHANGED <<body, round, family, chans, woken, stall>>

\* `unpark`, on every way out of the wait; the locals of the check are gone.
Unpark(t) ==
  /\ pc[t] = "unpark"
  /\ parked' = parked - 1
  /\ Goto(t, IF full[t] THEN "latch" ELSE "top")
  /\ count' = Set(count, t, 0)
  /\ full' = Set(full, t, FALSE)
  /\ quiet' = Set(quiet, t, FALSE)
  /\ UNCHANGED <<body, round, family, chans, woken, active, deadlocked>>

\* Mutant: the detector unwinds and tells nobody why.
LatchUnset(t) ==
  /\ pc[t] = "latch"
  /\ woken' = [u \in Scheds |-> TRUE]
  /\ Unwind(t, "deadlock")
  /\ UNCHANGED <<ip, phase, cancel, waiting, round, family, chans, stall>>

\* `set_deadlocked` wakes every parked party; this one raises E0010.
Latch(t) ==
  /\ pc[t] = "latch"
  /\ deadlocked' = TRUE
  /\ woken' = [u \in Scheds |-> TRUE]
  /\ Unwind(t, "deadlock")
  /\ UNCHANGED <<ip, phase, cancel, waiting, round, family, chans, active, parked>>
--------------------------------------------------------------------------------
(* The end of a body.                                                      *)

\* A worker sends its outcome home, then notifies; its thread ends.  A worker
\* does not join the workers it spawned: a body that returns has joined its
\* scopes, one that aborts leaves them running.
Report(w) ==
  /\ pc[w] = "unwind"
  /\ report' = [report EXCEPT ![w] =
                  IF fate[w] \in {"done", "cancelled"} THEN fate[w] ELSE "failed"]
  /\ Goto(w, "notify")
  /\ after' = Set(after, w, "ended")
  /\ UNCHANGED <<body, waiting, progressed, todo, kids, inflight, slots, task,
                 chans, woken, stall>>

\* `teardown` of the root: join every worker not harvested, release their
\* slots and the root's own registration.
Teardown ==
  /\ pc[Root] = "unwind"
  /\ \A w \in kids[Root] : pc[w] = "ended"
  /\ Deregister(slots[Root] + 1)
  /\ slots' = Set(slots, Root, 0)
  /\ Goto(Root, "ended")
  /\ UNCHANGED <<body, waiting, round, kids, inflight, task, report, chans, woken, parked>>
--------------------------------------------------------------------------------
BodyStep(t) ==
  \/ RecvGot(t) \/ RecvNone(t) \/ RecvPark(t)
  \/ SendCheck(t) \/ SendPush(t)
  \/ JoinPoll(t) \/ DoClose(t) \/ DoCancel(t)
  \/ TakeSlot(t) \/ StartThread(t) \/ Book(t)
  \/ Finish(t)
RoundStep(t) ==
  \/ \E w \in Workers : PollPending(t, w) \/ Harvest(t, w) \/ HarvestFailed(t, w)
  \/ RoundDone(t)
StallStep(t) ==
  \/ StallCheck(t) \/ Park(t) \/ CountParked(t) \/ WaitPast(t)
  \/ Confirm(t) \/ Judge(t) \/ Unpark(t) \/ Latch(t)
ThreadStep(t) ==
  /\ \/ Top(t) \/ Snapshot(t) \/ Enter(t) \/ ObserveCancel(t) \/ Notify(t)
     \/ BodyStep(t) \/ RoundStep(t) \/ StallStep(t)
     \/ t \in Workers /\ Report(t)
     \/ t = Root /\ Teardown
  /\ UNCHANGED prog

Next == \E t \in Scheds : ThreadStep(t)

Spec == Init /\ [][Next]_vars

\* Every runnable thread is eventually scheduled by the OS.
FairSpec == Spec /\ \A t \in Scheds : WF_vars(ThreadStep(t))
--------------------------------------------------------------------------------
(* Properties.                                                             *)

PCs == {"unborn", "top", "snap", "enter", "poll", "push", "notify", "start", "book",
        "round", "stall", "park", "count", "wait", "confirm", "judge", "unpark",
        "latch", "unwind", "ended"}

\* Counters stay natural numbers (atomics would wrap below zero), program
\* counters, fates and task states are legal.
TypeOK ==
  /\ pc \in [Scheds -> PCs]
  /\ ip \in [Scheds -> Nat]
  /\ phase \in [Scheds -> SendPhase]
  /\ woken \in [Scheds -> BOOLEAN]
  /\ progressed \in [Scheds -> BOOLEAN]
  /\ after \in [Scheds -> {"poll", "round", "unwind", "ended"}]
  /\ todo \in [Scheds -> SUBSET Workers]
  /\ count \in [Scheds -> Nat]
  /\ full \in [Scheds -> BOOLEAN]
  /\ quiet \in [Scheds -> BOOLEAN]
  /\ fate \in [Scheds -> {"none", "done", "failed", "cancelled", "alone", "deadlock"}]
  /\ cancel \in [Scheds -> BOOLEAN]
  /\ kids \in [Scheds -> SUBSET Workers]
  /\ inflight \in [Scheds -> Nat]
  /\ slots \in [Scheds -> Nat]
  /\ task \in [Workers -> {"live", "result", "cancelled"}]
  /\ report \in [Workers -> {"none", "done", "cancelled", "failed"}]
  /\ queue \in [Channels -> Seq(Scheds)]
  /\ closed \in [Channels -> BOOLEAN]
  /\ producers \in [Channels -> Nat]
  /\ active \in Nat /\ parked \in Nat
  /\ deadlocked \in BOOLEAN

\* The body's next poll would return something else than Pending.
CouldContinue(t) ==
  CASE Op(t).op = "recv" -> queue[Op(t).arg] # <<>> \/ closed[Op(t).arg]
    [] Op(t).op = "send" -> SendAnswer(t) # "Park"
    [] OTHER             -> \A w \in Awaited(t) : task[w] # "live"

\* Thread t waits for others, and nothing has happened that it could act on.
Stuck(t) ==
  /\ \/ pc[t] \in {"top", "snap", "enter", "poll", "round", "stall", "park", "latch"}
     \/ InPark(t)
  /\ ip[t] <= Len(prog[t])
  /\ Op(t).op \in {"recv", "send", "join", "scope_end"}
  /\ ~CouldContinue(t)
  /\ ~cancel[t]
  /\ \A w \in kids[t] : task[w] = "live" => report[w] = "none"

\* The registry never misses a running scheduler: a slot is taken before its
\* thread starts and returned after it ended, so `active` can only over-count.
RegistryCovers == Cardinality({t \in Scheds : Live(t)}) <= active

\* `parked` counts exactly the schedulers between park and unpark, asleep or
\* already woken.
ParkedExact == parked = Cardinality({t \in Scheds : InPark(t)})

\* Both counts the detector compares are right at every moment: `active` misses
\* no live scheduler and `parked` counts those between park and unpark, so that
\* `parked == active` holds only while every live scheduler is there.  It does not
\* say that they sleep: one that was woken is counted until it unparks.
RegistryExact == TypeOK /\ RegistryCovers /\ ParkedExact

\* When a scheduler is the first to conclude "deadlocked", every live scheduler
\* is between park and unpark, and each either cannot go on or has a wake or a
\* cancellation it has not acted on yet.  The latter are the false positives that
\* remain: the next property fails.
FirstVerdict ==
  [][\A t \in Scheds :
       Judge(t) /\ full'[t] /\ ~deadlocked =>
         \A u \in Scheds : Live(u) => InPark(u) /\ (Stuck(u) \/ woken[u] \/ cancel[u])]_vars

\* scheduler.rs: `parked == active` through the confirm window is "a genuine
\* deadlock".  When the latch is set, no live scheduler could make a step
\* towards completing its operation.
LatchIsGenuine ==
  [][~deadlocked /\ deadlocked' => \A t \in Scheds : Live(t) => Stuck(t)]_vars

\* `is_pending` looks at the queue for this reason: a receiver that raises
\* E0010 because nothing is outstanding leaves no message of its own behind.
MessageNotAbandoned ==
  [][\A t \in Scheds :
       pc[t] = "stall" /\ fate'[t] = "alone" /\ Op(t).op = "recv"
         => queue[Op(t).arg] = <<>>]_vars

\* The whole claim behind that check: a scheduler that finds nothing
\* outstanding on another thread, and raises E0010, really cannot continue.
VerdictIsGenuine ==
  [][\A t \in Scheds : pc[t] = "stall" /\ fate'[t] = "alone" => Stuck(t)]_vars

\* The parent frees the shared argument region when its in-flight count is
\* back to zero: no worker of its may then still be running on it.
RegionOutlivesBorrowers ==
  \A t \in Scheds : inflight[t] = 0 => \A w \in kids[t] : pc[w] = "ended"

\* docs/Concurrency.md: "no thread outlives its scope" -- a worker's thread has
\* ended when the thread that spawned it ends.  It fails for a worker that is
\* cancelled or fails while it has workers of its own.
NoOrphans ==
  \A t \in Scheds : pc[t] = "ended" => \A w \in kids[t] : pc[w] = "ended"

\* A worker that aborted, and so did not join the workers it had.
Aborted(w) == pc[w] = "ended" /\ fate[w] # "done" /\ kids[w] # {}

\* What a program leaves behind: the root, however it ended, and a worker that
\* returned leave none of their workers running; and when all threads have ended
\* nobody is counted as parked, no slot is out that an aborted worker did not
\* keep, and the latch is not set without such a slot.
CleanExit ==
  /\ \A t \in Scheds : pc[t] = "ended" /\ (t = Root \/ fate[t] = "done")
                         => \A w \in kids[t] : pc[w] = "ended"
  /\ (\A t \in Scheds : ~Live(t)) =>
       /\ parked = 0
       /\ active # 0 => \E w \in Workers : Aborted(w)
       /\ deadlocked => active # 0

\* Every thread comes to its end: nobody waits for ever without the program
\* being told E0010.
AllEnd == <>(\A t \in Scheds : ~Live(t))

\* In the untimed programs every body runs to completion or honours its
\* cancellation: nobody hangs, is told E0010 or fails.  No wake is missed there:
\* the safety timeout is "never for correctness".
AllDone ==
  prog \in Untimed =>
  <>(/\ fate[Root] = "done"
     /\ \A t \in Scheds : ~Live(t) /\ fate[t] \in {"none", "done", "cancelled"})

\* Once one party raises the global deadlock "every party observes it and
\* unwinds", not only the detector, and the root's teardown gets through.
LatchUnwinds ==
  (\E t \in Scheds : fate[t] = "deadlock") ~> \A t \in Scheds : ~Live(t)

\* A program ends, or comes to a point where its remaining threads wait for
\* each other for good; and if one of them is told so, all are and all end.
\* (That they are told within bounded time needs them to be parked at the same
\* moment, a matter of real time.)
Settles == LatchUnwinds /\ <>[](\A t \in Scheds : Live(t) => Stuck(t))

\* A cancellation request reaches the worker whatever it is waiting for, and
\* the workers it spawned, also one whose spawn it overtook.
CancelStops ==
  \A w \in Workers : cancel[w] ~> \A u \in kids[w] \cup {w} : ~Live(u)

\* The parent learns "cancelled" only of a worker that produced no value, and
\* a value of a worker that did return one -- the report is what happened.
ReportIsHonest ==
  \A w \in Workers :
    /\ task[w] = "result" => fate[w] = "done" /\ ip[w] = Len(prog[w]) + 1
    /\ task[w] = "cancelled" => fate[w] = "cancelled"
================================================================================
