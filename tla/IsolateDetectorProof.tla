-------------------------- MODULE IsolateDetectorProof -------------------------
(***************************************************************************)
(* The deadlock detector of IsolateSched: no wake is lost, what is true     *)
(* when "deadlocked" is first concluded, and what a program leaves behind.  *)
(* For every set of programs, any number of workers and channels and every  *)
(* capacity.                                                               *)
(***************************************************************************)
EXTENDS IsolateSchedProof

\* A wake has reached t since its snapshot of the generation, or is owed by a
\* thread that has done what it will announce.
Owed == \E v \in Scheds : pc[v] = "notify"
Heard(t) == woken[t] \/ Owed

\* Past the poll of the body, which answered Pending.
Past == {"round", "stall", "park", "count", "wait", "confirm", "judge", "unpark", "latch"}
Awaits(t) ==
  /\ ip[t] <= Len(prog[t]) /\ Op(t).op \in {"recv", "send", "join", "scope_end"}
  /\ ~CouldContinue(t)
Unseen(t) == {w \in kids[t] : task[w] = "live" /\ report[w] # "none"}

\* What a thread that has heard of nothing may rely on: it is not cancelled --
\* unless it runs the loop of a join or of a block's end, whose request may have
\* come between the loop's check and its snapshot and waits for the next check --
\* the room it found is still there, the operation that was pending still is,
\* and every report of a worker of its is still to be polled.
Attentive(t) ==
  /\ pc[t] \notin {"unborn", "top", "snap", "enter", "unwind", "ended"} /\ cancel[t] => Nested(t)
  /\ pc[t] = "push" => ~closed[Op(t).arg] /\ HasRoom(Cap[Op(t).arg], Len(queue[Op(t).arg]))
  /\ pc[t] \in Past /\ ~progressed[t] => Awaits(t)
  /\ pc[t] \in Past => Unseen(t) \subseteq (IF pc[t] = "round" THEN todo[t] ELSE {})
Alert(t) ==
  /\ pc[t] \in Past \ {"round"} => ~progressed[t]
  /\ ~Heard(t) => Attentive(t)
NoLostWake == \A t \in Scheds : Alert(t)

--------------------------------------------------------------------------------
(* What one step does to the other threads.                                *)

\* The locals of the other threads.
Locals(u) == <<phase[u], progressed[u], quiet[u], full[u]>>

LEMMA LocalsKept ==
  ASSUME IInv, NEW t \in Scheds, ThreadStep(t)
  PROVE  \A u \in Scheds \ {t} : UNCHANGED Locals(u)
<1>. USE DEF Locals
<1>a. /\ phase \in [Scheds -> SendPhase] /\ progressed \in [Scheds -> BOOLEAN]
      /\ quiet \in [Scheds -> BOOLEAN] /\ full \in [Scheds -> BOOLEAN]
  BY DEF IInv, BaseType
<1>1. CASE Top(t)
  BY <1>1, <1>a DEF Top, Goto, Set, body, waiting, round, family, chans, stall
<1>31. CASE Snapshot(t)
  BY <1>31, <1>a DEF Snapshot, Goto, Set, body, waiting, round, family, chans, stall
<1>2. CASE Enter(t)
  BY <1>2, <1>a DEF Enter, Goto, Set, body, waiting, round, family, chans, stall
<1>3. CASE ObserveCancel(t)
  BY <1>3, <1>a DEF ObserveCancel, Safepoint, Goto, Set, body, waiting, round, family, chans, stall
<1>4. CASE Notify(t)
  BY <1>4, <1>a DEF Notify, Goto, Set, body, waiting, round, family, chans, stall
<1>5. CASE RecvGot(t)
  BY <1>5, <1>a DEF RecvGot, NotifyThen, Step, At, Goto, Set, body, waiting, round, family,
     chans, stall
<1>6. CASE RecvNone(t)
  BY <1>6, <1>a DEF RecvNone, Step, At, Goto, Set, body, waiting, round, family, chans,
     stall
<1>7. CASE RecvPark(t)
  BY <1>7, <1>a DEF RecvPark, Suspend, At, Goto, Set, body, waiting, round, family, chans,
     stall
<1>8. CASE SendCheck(t)
  BY <1>8, <1>a DEF SendCheck, Unwind, Step, Suspend, At, Goto, Set, body, waiting, round,
     family, chans, stall
<1>9. CASE SendPush(t)
  BY <1>9, <1>a DEF SendPush, NotifyThen, Step, Suspend, Goto, Set, body, waiting, round,
     family, chans, stall
<1>10. CASE JoinPoll(t)
  BY <1>10, <1>a DEF JoinPoll, Step, Suspend, At, Goto, Set, body, waiting, round, family,
     chans, stall
<1>11. CASE DoClose(t)
  BY <1>11, <1>a DEF DoClose, Step, NotifyThen, At, Goto, Set, body, waiting, round, family,
     chans, stall
<1>12. CASE DoCancel(t)
  BY <1>12, <1>a DEF DoCancel, Step, At, Goto, Set, body, waiting, round, family, chans,
     stall
<1>13. CASE TakeSlot(t)
  BY <1>13, <1>a DEF TakeSlot, At, Goto, Set, body, waiting, round, family, chans, stall
<1>14. CASE StartThread(t)
  BY <1>14, <1>a DEF StartThread, Goto, Set, body, waiting, round, family, chans, stall
<1>15. CASE Book(t)
  BY <1>15, <1>a DEF Book, Step, Goto, Set, body, waiting, round, family, chans, stall
<1>16. CASE Finish(t)
  BY <1>16, <1>a DEF Finish, Unwind, Goto, Set, body, waiting, round, family, chans, stall
<1>17. ASSUME NEW w \in Workers, PollPending(t, w)
      PROVE  \A u \in Scheds \ {t} : UNCHANGED Locals(u)
  BY <1>17, <1>a DEF PollPending, Goto, Set, body, waiting, round, family, chans, stall
<1>18. ASSUME NEW w \in Workers, Harvest(t, w)
      PROVE  \A u \in Scheds \ {t} : UNCHANGED Locals(u)
  BY <1>18, <1>a DEF Harvest, FinishIsolate, Deregister, Goto, Set, body, waiting, round,
     family, chans, stall
<1>19. ASSUME NEW w \in Workers, HarvestFailed(t, w)
      PROVE  \A u \in Scheds \ {t} : UNCHANGED Locals(u)
  BY <1>19, <1>a DEF HarvestFailed, FinishIsolate, Deregister, Unwind, Goto, Set, body,
     waiting, round, family, chans, stall
<1>20. CASE RoundDone(t)
  BY <1>20, <1>a DEF RoundDone, Goto, Set, body, waiting, round, family, chans, stall
<1>21. CASE StallCheck(t)
  BY <1>21, <1>a DEF StallCheck, Unwind, Goto, Set, body, waiting, round, family, chans,
     stall
<1>22. CASE Park(t)
  BY <1>22, <1>a DEF Park, Goto, Set, body, waiting, round, family, chans, stall
<1>23. CASE CountParked(t)
  BY <1>23, <1>a DEF CountParked, Goto, Set, body, waiting, round, family, chans, stall
<1>24. CASE WaitPast(t)
  BY <1>24, <1>a DEF WaitPast, Goto, Set, body, waiting, round, family, chans, stall
<1>25. CASE Confirm(t)
  BY <1>25, <1>a DEF Confirm, Goto, Set, body, waiting, round, family, chans, stall
<1>26. CASE Judge(t)
  BY <1>26, <1>a DEF Judge, Goto, Set, body, waiting, round, family, chans, stall
<1>27. CASE Unpark(t)
  BY <1>27, <1>a DEF Unpark, Goto, Set, body, waiting, round, family, chans, stall
<1>28. CASE Latch(t)
  BY <1>28, <1>a DEF Latch, Unwind, Goto, Set, body, waiting, round, family, chans, stall
<1>29. CASE t \in Workers /\ Report(t)
  BY <1>29, <1>a DEF Report, Goto, Set, body, waiting, round, family, chans, stall
<1>30. CASE t = Root /\ Teardown
  BY <1>30, <1>a DEF Teardown, Deregister, Goto, Set, body, waiting, round, family, chans,
     stall
<1>. QED
  BY <1>1, <1>2, <1>3, <1>4, <1>5, <1>6, <1>7, <1>8, <1>9, <1>10, <1>11, <1>12, <1>13,
     <1>14, <1>15, <1>16, <1>17, <1>18, <1>19, <1>20, <1>21, <1>22, <1>23, <1>24, <1>25,
     <1>26, <1>27, <1>28, <1>29, <1>30, <1>31
     DEF ThreadStep, BodyStep, RoundStep, StallStep

\* A step that changes what another thread waits for owes a wake, or is one.
Announces(t) ==
  /\ \A u \in Scheds \ {t} : woken[u] => woken'[u]
  /\ \/ pc'[t] = "notify"
     \/ \A u \in Scheds : woken'[u]
     \/ /\ pc[t] # "notify" /\ UNCHANGED <<queue, closed, report>>
        /\ \A u \in Scheds \ {t} : cancel'[u] => cancel[u]
        /\ pc[t] = "snap" \/ (woken[t] => woken'[t])
        /\ \A w \in Workers : task'[w] = task[w] \/ w \in kids[t]

LEMMA AnnouncesStep ==
  ASSUME IInv, NEW t \in Scheds, ThreadStep(t)
  PROVE  Announces(t)
<1>. USE DEF Announces
<1>a. /\ pc \in [Scheds -> PCs] /\ woken \in [Scheds -> BOOLEAN]
      /\ cancel \in [Scheds -> BOOLEAN] /\ closed \in [Channels -> BOOLEAN]
      /\ task \in [Workers -> {"live", "result", "cancelled"}]
      /\ todo[t] \subseteq kids[t]
  BY DEF IInv, BaseType, Parentage
<1>1. CASE Top(t)
  BY <1>1, <1>a DEF Top, Goto, Set, body, waiting, round, family, chans, stall
<1>31. CASE Snapshot(t)
  BY <1>31, <1>a DEF Snapshot, Goto, Set, body, waiting, round, family, chans, stall
<1>2. CASE Enter(t)
  BY <1>2, <1>a DEF Enter, Goto, Set, body, waiting, round, family, chans, stall
<1>3. CASE ObserveCancel(t)
  BY <1>3, <1>a DEF ObserveCancel, Safepoint, Goto, Set, body, waiting, round, family, chans, stall
<1>4. CASE Notify(t)
  BY <1>4, <1>a DEF Notify, Goto, Set, body, waiting, round, family, chans, stall
<1>5. CASE RecvGot(t)
  BY <1>5, <1>a DEF RecvGot, NotifyThen, Step, At, Goto, Set, body, waiting, round, family,
     chans, stall
<1>6. CASE RecvNone(t)
  BY <1>6, <1>a DEF RecvNone, Step, At, Goto, Set, body, waiting, round, family, chans,
     stall
<1>7. CASE RecvPark(t)
  BY <1>7, <1>a DEF RecvPark, Suspend, At, Goto, Set, body, waiting, round, family, chans,
     stall
<1>8. CASE SendCheck(t)
  BY <1>8, <1>a DEF SendCheck, Unwind, Step, Suspend, At, Goto, Set, body, waiting, round,
     family, chans, stall
<1>9. CASE SendPush(t)
  BY <1>9, <1>a DEF SendPush, NotifyThen, Step, Suspend, Goto, Set, body, waiting, round,
     family, chans, stall
<1>10. CASE JoinPoll(t)
  BY <1>10, <1>a DEF JoinPoll, Step, Suspend, At, Goto, Set, body, waiting, round, family,
     chans, stall
<1>11. CASE DoClose(t)
  BY <1>11, <1>a DEF DoClose, Step, NotifyThen, At, Goto, Set, body, waiting, round, family,
     chans, stall
<1>12. CASE DoCancel(t)
  BY <1>12, <1>a DEF DoCancel, Step, At, Goto, Set, body, waiting, round, family, chans,
     stall
<1>13. CASE TakeSlot(t)
  BY <1>13, <1>a DEF TakeSlot, At, Goto, Set, body, waiting, round, family, chans, stall
<1>14. CASE StartThread(t)
  BY <1>14, <1>a DEF StartThread, Goto, Set, body, waiting, round, family, chans, stall
<1>15. CASE Book(t)
  BY <1>15, <1>a DEF Book, Step, Goto, Set, body, waiting, round, family, chans, stall
<1>16. CASE Finish(t)
  BY <1>16, <1>a DEF Finish, Unwind, Goto, Set, body, waiting, round, family, chans, stall
<1>17. ASSUME NEW w \in Workers, PollPending(t, w)
      PROVE  Announces(t)
  BY <1>17, <1>a DEF PollPending, Goto, Set, body, waiting, round, family, chans, stall
<1>18. ASSUME NEW w \in Workers, Harvest(t, w)
      PROVE  Announces(t)
  BY <1>18, <1>a DEF Harvest, FinishIsolate, Deregister, Goto, Set, body, waiting, round,
     family, chans, stall
<1>19. ASSUME NEW w \in Workers, HarvestFailed(t, w)
      PROVE  Announces(t)
  BY <1>19, <1>a DEF HarvestFailed, FinishIsolate, Deregister, Unwind, Goto, Set, body,
     waiting, round, family, chans, stall
<1>20. CASE RoundDone(t)
  BY <1>20, <1>a DEF RoundDone, Goto, Set, body, waiting, round, family, chans, stall
<1>21. CASE StallCheck(t)
  BY <1>21, <1>a DEF StallCheck, Unwind, Goto, Set, body, waiting, round, family, chans,
     stall
<1>22. CASE Park(t)
  BY <1>22, <1>a DEF Park, Goto, Set, body, waiting, round, family, chans, stall
<1>23. CASE CountParked(t)
  BY <1>23, <1>a DEF CountParked, Goto, Set, body, waiting, round, family, chans, stall
<1>24. CASE WaitPast(t)
  BY <1>24, <1>a DEF WaitPast, Goto, Set, body, waiting, round, family, chans, stall
<1>25. CASE Confirm(t)
  BY <1>25, <1>a DEF Confirm, Goto, Set, body, waiting, round, family, chans, stall
<1>26. CASE Judge(t)
  BY <1>26, <1>a DEF Judge, Goto, Set, body, waiting, round, family, chans, stall
<1>27. CASE Unpark(t)
  BY <1>27, <1>a DEF Unpark, Goto, Set, body, waiting, round, family, chans, stall
<1>28. CASE Latch(t)
  BY <1>28, <1>a DEF Latch, Unwind, Goto, Set, body, waiting, round, family, chans, stall
<1>29. CASE t \in Workers /\ Report(t)
  BY <1>29, <1>a DEF Report, Goto, Set, body, waiting, round, family, chans, stall
<1>30. CASE t = Root /\ Teardown
  BY <1>30, <1>a DEF Teardown, Deregister, Goto, Set, body, waiting, round, family, chans,
     stall
<1>. QED
  BY <1>1, <1>2, <1>3, <1>4, <1>5, <1>6, <1>7, <1>8, <1>9, <1>10, <1>11, <1>12, <1>13,
     <1>14, <1>15, <1>16, <1>17, <1>18, <1>19, <1>20, <1>21, <1>22, <1>23, <1>24, <1>25,
     <1>26, <1>27, <1>28, <1>29, <1>30, <1>31
     DEF ThreadStep, BodyStep, RoundStep, StallStep

\* A thread that has heard of nothing had heard of nothing before the step.
LEMMA HeardBefore ==
  ASSUME IInv, NEW t \in Scheds, ThreadStep(t), NEW u \in Scheds, ~Heard(u)',
         u = t => pc[t] # "snap"
  PROVE  /\ ~Heard(u) /\ pc[t] # "notify" /\ UNCHANGED <<queue, closed, report>>
         /\ u # t => (cancel'[u] => cancel[u])
         /\ \A w \in Workers : task'[w] = task[w] \/ w \in kids[t]
<1>1. pc'[t] # "notify" /\ ~woken'[u]
  BY DEF Heard, Owed
<1>2. /\ pc[t] # "notify" /\ UNCHANGED <<queue, closed, report>>
      /\ \A v \in Scheds \ {t} : (woken[v] => woken'[v]) /\ (cancel'[v] => cancel[v])
      /\ pc[t] = "snap" \/ (woken[t] => woken'[t])
      /\ \A w \in Workers : task'[w] = task[w] \/ w \in kids[t]
  BY <1>1, AnnouncesStep DEF Announces
<1>3. ~woken[u]
  BY <1>1, <1>2
<1>4. ASSUME NEW v \in Scheds, pc[v] = "notify"
      PROVE  FALSE
  <2>1. v # t
    BY <1>2, <1>4
  <2>2. pc'[v] = "notify"
    BY <1>4, <2>1, OnlyOwnPc, FreshWorker DEF MovesItself
  <2>. QED  BY <2>2 DEF Heard, Owed
<1>. QED  BY <1>2, <1>3, <1>4 DEF Heard, Owed

\* The tasks that a suspended body awaits are of workers it spawned.
LEMMA AwaitsOwn ==
  ASSUME IInv, NEW t \in Scheds, NEW u \in Scheds \ {t}, ip[u] <= Len(prog[u]),
         Op(u).op \in {"join", "scope_end"}, NEW w \in Awaited(u)
  PROVE  w \in Workers /\ w \notin kids[t]
<1>1. CASE Op(u).op = "join"
  <2>1. ip[u] \in DOMAIN prog[u] /\ Op(u).arg \in Workers /\ w = Op(u).arg
    BY <1>1, OpLegal DEF IInv, Awaited
  <2>2. prog \in Programs /\ prog[u] \in Seq(Ops) /\ ip[u] \in Nat
    BY ProgramsAssumption DEF IInv, InBody, BaseType
  <2>3. \E j \in 1..(ip[u] - 1) : prog[u][j] = Spawn(w)
    BY <1>1, <2>1, <2>2, HandlesAssumption DEF Op
  <2>4. PICK j \in DOMAIN prog[u] : prog[u][j] = Spawn(w)
    BY <2>1, <2>2, <2>3
  <2>5. ASSUME w \in kids[t]
        PROVE  FALSE
    <3>1. PICK i \in DOMAIN prog[t] : prog[t][i] = Spawn(w)
      BY <2>5 DEF IInv, Parentage
    <3>. QED  BY <2>1, <2>4, <3>1, OneSpawn
  <2>. QED  BY <2>1, <2>5
<1>2. CASE Op(u).op = "scope_end"
  <2>1. w \in kids[u] /\ w \in Workers
    BY <1>2 DEF Awaited, IInv, BaseType
  <2>. QED  BY <2>1, OneParent DEF Started
<1>. QED  BY <1>1, <1>2

LEMMA AlertOthers ==
  ASSUME IInv, NEW t \in Scheds, ThreadStep(t), NEW u \in Scheds \ {t}, Alert(u)
  PROVE  Alert(u)'
<1>1. /\ prog' = prog /\ UNCHANGED Own(u) /\ UNCHANGED Locals(u)
  BY OthersKept, LocalsKept DEF ThreadStep
<1>2. pc'[u] = pc[u] \/ pc'[u] = "top"
  BY OnlyOwnPc DEF MovesItself
<1>3. CASE pc'[u] = "top"
  BY <1>3 DEF Alert, Attentive, Past
<1>4. CASE pc'[u] = pc[u] /\ ~Heard(u)'
  <2>1. /\ ~Heard(u) /\ UNCHANGED <<queue, closed, report>> /\ (cancel'[u] => cancel[u])
        /\ \A w \in Workers : task'[w] = task[w] \/ w \in kids[t]
    BY <1>4, HeardBefore
  <2>2. Attentive(u)
    BY <2>1 DEF Alert
  <2>3. Op(u)' = Op(u) /\ kids'[u] = kids[u] /\ todo'[u] = todo[u] /\ progressed'[u] = progressed[u]
        /\ ip'[u] = ip[u] /\ phase'[u] = phase[u]
    BY <1>1 DEF Own, Locals, Op
  <2>4. ASSUME NEW w \in kids[u]
        PROVE  task'[w] = task[w]
    <3>1. w \in Workers /\ w \notin kids[t]
      BY <2>4, OneParent DEF Started, IInv, BaseType
    <3>. QED  BY <2>1, <3>1
  <2>5. Unseen(u)' = Unseen(u)
    BY <2>1, <2>3, <2>4 DEF Unseen
  <2>6. ASSUME Awaits(u)
        PROVE  Awaits(u)'
    <3>1. ip[u] <= Len(prog[u]) /\ Op(u).op \in {"recv", "send", "join", "scope_end"}
          /\ ~CouldContinue(u)
      BY <2>6 DEF Awaits
    <3>2. CASE Op(u).op \in {"recv", "send"}
      BY <1>1, <2>1, <2>3, <3>1, <3>2 DEF Awaits, CouldContinue, SendAnswer
    <3>3. CASE Op(u).op \in {"join", "scope_end"}
      <4>1. Awaited(u)' = Awaited(u)
        BY <2>3 DEF Awaited
      <4>2. \A w \in Awaited(u) : task'[w] = task[w]
        BY <2>1, <3>1, <3>3, AwaitsOwn
      <4>3. ~CouldContinue(u)'
        BY <2>3, <3>1, <3>3, <4>1, <4>2 DEF CouldContinue
      <4>. QED  BY <1>1, <2>3, <3>1, <4>3 DEF Awaits
    <3>. QED  BY <3>1, <3>2, <3>3
  <2>7. Attentive(u)'
    BY <1>1, <1>4, <2>1, <2>2, <2>3, <2>5, <2>6 DEF Attentive, Nested
  <2>. QED  BY <1>4, <2>3, <2>7 DEF Alert
<1>5. CASE pc'[u] = pc[u] /\ Heard(u)'
  BY <1>1, <1>5 DEF Alert, Locals
<1>. QED  BY <1>2, <1>3, <1>4, <1>5

--------------------------------------------------------------------------------
(* No wake is lost: the steps of the thread itself.                        *)

\* A poll that answers Pending leaves the body waiting, with every live task
\* of its workers to be polled.
LEMMA AlertSuspended ==
  ASSUME IInv, NEW t \in Scheds, ThreadStep(t), Suspend(t), pc[t] \in {"poll", "push"},
         ~Heard(t)' => ~Heard(t) /\ Attentive(t),
         ~Heard(t)' => Awaits(t),
         UNCHANGED <<ip, phase, cancel, kids, task, report, queue, closed>>
  PROVE  Alert(t)'
<1>1. /\ prog' = prog /\ pc'[t] = "round"
      /\ todo'[t] = {w \in kids[t] : task[w] = "live"}
  BY DEF Suspend, Goto, Set, ThreadStep, IInv, BaseType
<1>2. ASSUME ~Heard(t)'
      PROVE  Attentive(t)'
  <2>1. cancel'[t] => Nested(t)'
    BY <1>1, <1>2 DEF Attentive, Nested, Op
  <2>2. Awaits(t)'
    BY <1>1, <1>2 DEF Awaits, CouldContinue, SendAnswer, Awaited, Op
  <2>3. Unseen(t)' \subseteq todo'[t]
    BY <1>1 DEF Unseen
  <2>. QED  BY <1>1, <2>1, <2>2, <2>3 DEF Attentive
<1>. QED  BY <1>1, <1>2 DEF Alert

\* A thread that stays past its poll, or goes on to the next check.
LEMMA AlertStays ==
  ASSUME IInv, NEW t \in Scheds, ThreadStep(t), Alert(t),
         ~Heard(t)' => ~Heard(t),
         pc[t] \in Past, pc'[t] \in Past \ {"round"},
         pc[t] = "round" => ~progressed[t] /\ todo[t] = {},
         UNCHANGED <<body, round, family, chans>>
  PROVE  Alert(t)'
<1>1. prog' = prog /\ ~progressed'[t]
  BY DEF ThreadStep, Alert, round
<1>2. ASSUME ~Heard(t)'
      PROVE  Attentive(t)'
  <2>1. Attentive(t)
    BY <1>2 DEF Alert
  <2>2. (cancel'[t] => Nested(t)') /\ Awaits(t) /\ Unseen(t) = {}
    BY <1>1, <2>1 DEF Attentive, Past, Nested, Op, body, round
  <2>3. Awaits(t)' /\ Unseen(t)' = {}
    BY <1>1, <2>2 DEF Awaits, CouldContinue, SendAnswer, Awaited, Op, Unseen, body, family, chans
  <2>. QED  BY <2>2, <2>3 DEF Attentive, Past
<1>. QED  BY <1>1, <1>2 DEF Alert

LEMMA AlertSelf ==
  ASSUME IInv, NEW t \in Scheds, ThreadStep(t), Alert(t)
  PROVE  Alert(t)'
<1>a. /\ pc \in [Scheds -> PCs] /\ woken \in [Scheds -> BOOLEAN]
      /\ cancel \in [Scheds -> BOOLEAN] /\ progressed \in [Scheds -> BOOLEAN]
      /\ after \in [Scheds -> {"poll", "round", "unwind", "ended"}]
      /\ todo \in [Scheds -> SUBSET Workers] /\ phase \in [Scheds -> SendPhase]
      /\ fate \in [Scheds -> {"none", "done", "failed", "cancelled", "alone", "deadlock"}]
      /\ kids \in [Scheds -> SUBSET Workers]
      /\ task \in [Workers -> {"live", "result", "cancelled"}]
      /\ queue \in [Channels -> Seq(Scheds)]
  BY DEF IInv, BaseType
<1>b. prog' = prog
  BY DEF ThreadStep
<1>c. pc[t] # "snap" /\ ~Heard(t)' =>
        ~Heard(t) /\ Attentive(t) /\ UNCHANGED <<queue, closed, report>>
  BY HeardBefore DEF Alert
<1>d. ip[t] <= Len(prog[t]) /\ Op(t).op \in {"recv", "send"} =>
        /\ Op(t).arg \in Channels /\ queue[Op(t).arg] \in Seq(Scheds)
        /\ Len(queue[Op(t).arg]) \in Nat /\ Cap[Op(t).arg] \in Nat
  BY <1>a, OpLegal, CapAssumption DEF IInv
<1>e. pc'[t] = "notify" => Alert(t)'
  BY DEF Alert, Heard, Owed, Past
<1>f. pc'[t] \in {"top", "snap", "enter", "unwind", "ended"} => Alert(t)'
  BY DEF Alert, Attentive, Past
<1>g. pc'[t] \in {"poll", "start", "book"} /\ (~Heard(t)' => ~cancel'[t] \/ Nested(t)') => Alert(t)'
  BY DEF Alert, Attentive, Past
<1>1. CASE Top(t)
  <2>1. pc'[t] = "snap"
    BY <1>1, <1>a DEF Top, Goto
  <2>. QED  BY <2>1, <1>f
<1>31. CASE Snapshot(t)
  <2>1. pc'[t] = "enter"
    BY <1>31, <1>a DEF Snapshot, Goto
  <2>. QED  BY <2>1, <1>f
<1>2. CASE Enter(t)
  <2>1. pc'[t] = "poll" /\ (~cancel'[t] \/ Nested(t)')
    BY <1>2, <1>a, <1>b DEF Enter, Goto, Nested, Op, body
  <2>. QED  BY <2>1, <1>g
<1>3. CASE ObserveCancel(t)
  <2>1. pc'[t] \in {"unwind", "notify"}
    BY <1>3, <1>a DEF ObserveCancel, Safepoint, Goto
  <2>. QED  BY <2>1, <1>e, <1>f
<1>4. CASE Notify(t)
  <2>1. woken'[t] /\ progressed'[t] = progressed[t] /\ pc'[t] \in {"poll", "round", "unwind", "ended"}
    BY <1>4, <1>a DEF Notify, Goto
  <2>. QED  BY <2>1 DEF Alert, Heard, Past
<1>5. CASE RecvGot(t)
  <2>1. pc'[t] = "notify"
    BY <1>5, <1>a DEF RecvGot, NotifyThen, Goto
  <2>. QED  BY <2>1, <1>e
<1>6. CASE RecvNone(t)
  <2>1. pc[t] = "poll" /\ pc'[t] = "poll" /\ cancel' = cancel /\ ~Nested(t)
    BY <1>6 DEF RecvNone, At, Nested
  <2>. QED  BY <2>1, <1>c, <1>g DEF Attentive
<1>7. CASE RecvPark(t)
  <2>1. /\ pc[t] = "poll" /\ Suspend(t) /\ ip[t] <= Len(prog[t]) /\ Op(t).op = "recv"
        /\ UNCHANGED <<ip, phase, cancel, kids, task, report, queue, closed>>
    BY <1>7 DEF RecvPark, At, body, family, chans
  <2>2. queue[Op(t).arg] = <<>> /\ ~closed[Op(t).arg]
    BY <1>7, <1>d, <2>1 DEF RecvPark, PollRecv
  <2>3. Awaits(t)
    BY <2>1, <2>2 DEF Awaits, CouldContinue
  <2>. QED  BY <2>1, <2>3, <1>c, AlertSuspended
<1>8. CASE SendCheck(t)
  <2>1. /\ pc[t] = "poll" /\ ip[t] <= Len(prog[t]) /\ Op(t).op = "send"
        /\ UNCHANGED <<cancel, kids, task, report, queue, closed>>
    BY <1>8 DEF SendCheck, At, family, chans
  <2>2. ~Heard(t)' => ~cancel'[t]
    BY <2>1, <1>c DEF Attentive, Nested
  <2>3. CASE SendAnswer(t) = "Park" /\ Suspend(t) /\ UNCHANGED <<ip, phase>>
    <3>1. Awaits(t)
      BY <2>1, <2>3 DEF Awaits, CouldContinue
    <3>. QED  BY <2>1, <2>3, <3>1, <1>c, AlertSuspended
  <2>4. CASE pc'[t] = "push" /\ SendAnswer(t) \in {"DeliverBuffered", "Deposit"} /\ ip' = ip
    <3>1. ~closed[Op(t).arg] /\ HasRoom(Cap[Op(t).arg], Len(queue[Op(t).arg]))
      BY <1>d, <2>1, <2>4 DEF SendAnswer, PollSend, PollRendezvous, HasRoom
    <3>2. Op(t)' = Op(t)
      BY <1>b, <2>4 DEF Op
    <3>. QED  BY <2>1, <2>2, <2>4, <3>1, <3>2 DEF Alert, Attentive, Past
  <2>5. CASE pc'[t] \in {"poll", "unwind"}
    BY <2>2, <2>5, <1>f, <1>g
  <2>. QED  BY <1>8, <1>a, <2>1, <2>3, <2>4, <2>5 DEF SendCheck, Unwind, Goto
<1>9. CASE SendPush(t)
  <2>1. pc[t] = "push"
    BY <1>9 DEF SendPush
  <2>2. CASE closed[Op(t).arg] \/ ~HasRoom(Cap[Op(t).arg], Len(queue[Op(t).arg]))
    <3>1. /\ Suspend(t)
          /\ UNCHANGED <<ip, phase, cancel, kids, task, report, queue, closed>>
      BY <1>9, <2>2 DEF SendPush, family
    <3>2. Heard(t)'
      BY <1>c, <2>1, <2>2 DEF Attentive
    <3>. QED  BY <2>1, <3>1, <3>2, AlertSuspended
  <2>3. CASE ~closed[Op(t).arg] /\ HasRoom(Cap[Op(t).arg], Len(queue[Op(t).arg]))
    <3>1. pc'[t] = "notify"
      BY <1>9, <1>a, <2>3 DEF SendPush, NotifyThen, Goto
    <3>. QED  BY <3>1, <1>e
  <2>. QED  BY <2>2, <2>3
<1>10. CASE JoinPoll(t)
  <2>1. /\ pc[t] = "poll" /\ ip[t] <= Len(prog[t]) /\ Op(t).op \in {"join", "scope_end"}
        /\ UNCHANGED <<phase, cancel, kids, task, report, queue, closed>>
    BY <1>10 DEF JoinPoll, At, family, chans
  <2>2. CASE \E w \in Awaited(t) : task[w] = "live"
    <3>1. Suspend(t) /\ ip' = ip
      BY <1>10, <2>2 DEF JoinPoll
    <3>2. Awaits(t)
      BY <2>1, <2>2 DEF Awaits, CouldContinue
    <3>. QED  BY <2>1, <3>1, <3>2, <1>c, AlertSuspended
  <2>3. CASE \A w \in Awaited(t) : task[w] # "live"
    <3>1. pc'[t] = "poll" /\ woken'[t]
      BY <1>10, <1>a, <2>1, <2>3 DEF JoinPoll, Set
    <3>. QED  BY <3>1, <1>g DEF Heard
  <2>. QED  BY <2>2, <2>3
<1>11. CASE DoClose(t)
  <2>1. pc'[t] = "notify"
    BY <1>11, <1>a DEF DoClose, NotifyThen, Goto
  <2>. QED  BY <2>1, <1>e
<1>12. CASE DoCancel(t)
  <2>1. /\ pc[t] = "poll" /\ ~Nested(t)
        /\ pc'[t] = "notify" \/ (pc'[t] = "poll" /\ cancel' = cancel)
    BY <1>12, <1>a DEF DoCancel, At, Goto, Nested
  <2>. QED  BY <2>1, <1>c, <1>e, <1>g DEF Attentive
<1>13. CASE TakeSlot(t)
  <2>1. pc[t] = "poll" /\ pc'[t] = "start" /\ cancel' = cancel /\ ~Nested(t)
    BY <1>13, <1>a DEF TakeSlot, At, Goto, Nested, body
  <2>. QED  BY <2>1, <1>c, <1>g DEF Attentive
<1>14. CASE StartThread(t)
  <2>1. pc[t] = "start" /\ cancel' = cancel /\ pc'[t] = "book" /\ ~Nested(t)
    BY <1>14, <1>a, FreshWorker DEF StartThread, body, Nested, Spawn
  <2>. QED  BY <2>1, <1>c, <1>g DEF Attentive
<1>15. CASE Book(t)
  <2>1. pc[t] = "book" /\ (pc'[t] = "notify" \/ (pc'[t] = "poll" /\ ~cancel[t] /\ cancel' = cancel))
    BY <1>15, <1>a DEF Book, Goto
  <2>. QED  BY <2>1, <1>e, <1>g
<1>16. CASE Finish(t)
  <2>1. pc'[t] = "unwind"
    BY <1>16, <1>a DEF Finish, Unwind, Goto
  <2>. QED  BY <2>1, <1>f
<1>17. ASSUME NEW w \in Workers, PollPending(t, w)
      PROVE  Alert(t)'
  <2>1. /\ pc[t] = "round" /\ pc'[t] = "round" /\ report[w] = "none"
        /\ todo'[t] = todo[t] \ {w}
        /\ UNCHANGED <<ip, phase, cancel, progressed, kids, task, report, queue, closed>>
    BY <1>17, <1>a DEF PollPending, Set, body, family, chans
  <2>2. ASSUME ~Heard(t)'
        PROVE  Attentive(t)'
    <3>1. Attentive(t)
      BY <2>1, <2>2, <1>c
    <3>2. Awaits(t)' <=> Awaits(t)
      BY <1>b, <2>1 DEF Awaits, CouldContinue, SendAnswer, Awaited, Op
    <3>3. Unseen(t)' = Unseen(t) /\ w \notin Unseen(t)
      BY <2>1 DEF Unseen
    <3>4. Nested(t)' <=> Nested(t)
      BY <1>b, <2>1 DEF Nested, Op
    <3>. QED  BY <2>1, <3>1, <3>2, <3>3, <3>4 DEF Attentive, Past
  <2>. QED  BY <2>1, <2>2 DEF Alert
<1>18. ASSUME NEW w \in Workers, Harvest(t, w)
      PROVE  Alert(t)'
  <2>1. /\ pc[t] = "round" /\ pc'[t] \in {"round", "notify"} /\ progressed'[t]
        /\ todo'[t] = todo[t] \ {w} /\ task'[w] # "live"
        /\ \A v \in Workers \ {w} : task'[v] = task[v]
        /\ UNCHANGED <<ip, cancel, kids, report>>
    BY <1>18, <1>a DEF Harvest, FinishIsolate, Terminal, Goto, Set, body
  <2>2. ASSUME ~Heard(t)', pc'[t] = "round"
        PROVE  Attentive(t)'
    <3>1. Attentive(t)
      BY <2>1, <2>2, <1>c
    <3>2. Unseen(t)' \subseteq Unseen(t) \ {w}
      BY <1>a, <2>1 DEF Unseen
    <3>3. Nested(t)' <=> Nested(t)
      BY <1>b, <2>1 DEF Nested, Op
    <3>. QED  BY <2>1, <2>2, <3>1, <3>2, <3>3 DEF Attentive, Past
  <2>. QED  BY <2>1, <2>2, <1>e DEF Alert
<1>19. ASSUME NEW w \in Workers, HarvestFailed(t, w)
      PROVE  Alert(t)'
  <2>1. pc'[t] = "unwind"
    BY <1>19, <1>a DEF HarvestFailed, Unwind, Goto
  <2>. QED  BY <2>1, <1>f
<1>20. CASE RoundDone(t)
  <2>1. /\ pc[t] = "round" /\ todo[t] = {} /\ UNCHANGED <<body, round, family, chans>>
        /\ pc'[t] = (IF progressed[t] THEN "top" ELSE "stall")
    BY <1>20, <1>a DEF RoundDone, Goto
  <2>2. CASE progressed[t]
    BY <2>1, <2>2, <1>f
  <2>3. CASE ~progressed[t]
    BY <2>1, <2>3, <1>c, AlertStays DEF Past
  <2>. QED  BY <2>2, <2>3
<1>21. CASE StallCheck(t)
  <2>1. \/ pc'[t] = "unwind"
        \/ pc[t] = "stall" /\ pc'[t] = "park" /\ UNCHANGED <<body, round, family, chans>>
    BY <1>21, <1>a DEF StallCheck, Unwind, Goto, body
  <2>. QED  BY <2>1, <1>c, <1>f, AlertStays DEF Past
<1>22. CASE Park(t)
  <2>1. pc[t] = "park" /\ pc'[t] = "count" /\ UNCHANGED <<body, round, family, chans>>
    BY <1>22, <1>a DEF Park, Goto
  <2>. QED  BY <2>1, <1>c, AlertStays DEF Past
<1>23. CASE CountParked(t)
  <2>1. pc[t] = "count" /\ pc'[t] = "wait" /\ UNCHANGED <<body, round, family, chans>>
    BY <1>23, <1>a DEF CountParked, Goto
  <2>. QED  BY <2>1, <1>c, AlertStays DEF Past
<1>24. CASE WaitPast(t)
  <2>1. pc[t] = "wait" /\ pc'[t] = "confirm" /\ UNCHANGED <<body, round, family, chans>>
    BY <1>24, <1>a DEF WaitPast, Goto
  <2>. QED  BY <2>1, <1>c, AlertStays DEF Past
<1>25. CASE Confirm(t)
  <2>1. pc[t] = "confirm" /\ pc'[t] = "judge" /\ UNCHANGED <<body, round, family, chans>>
    BY <1>25, <1>a DEF Confirm, Goto
  <2>. QED  BY <2>1, <1>c, AlertStays DEF Past
<1>26. CASE Judge(t)
  <2>1. pc[t] = "judge" /\ pc'[t] = "unpark" /\ UNCHANGED <<body, round, family, chans>>
    BY <1>26, <1>a DEF Judge, Goto
  <2>. QED  BY <2>1, <1>c, AlertStays DEF Past
<1>27. CASE Unpark(t)
  <2>1. \/ pc'[t] = "top"
        \/ pc[t] = "unpark" /\ pc'[t] = "latch" /\ UNCHANGED <<body, round, family, chans>>
    BY <1>27, <1>a DEF Unpark, Goto
  <2>. QED  BY <2>1, <1>c, <1>f, AlertStays DEF Past
<1>28. CASE Latch(t)
  <2>1. pc'[t] = "unwind"
    BY <1>28, <1>a DEF Latch, Unwind, Goto
  <2>. QED  BY <2>1, <1>f
<1>29. CASE t \in Workers /\ Report(t)
  <2>1. pc'[t] = "notify"
    BY <1>29, <1>a DEF Report, Goto
  <2>. QED  BY <2>1, <1>e
<1>30. CASE t = Root /\ Teardown
  <2>1. pc'[t] = "ended"
    BY <1>30, <1>a DEF Teardown, Goto
  <2>. QED  BY <2>1, <1>f
<1>. QED
  BY <1>1, <1>2, <1>3, <1>4, <1>5, <1>6, <1>7, <1>8, <1>9, <1>10, <1>11, <1>12, <1>13,
     <1>14, <1>15, <1>16, <1>17, <1>18, <1>19, <1>20, <1>21, <1>22, <1>23, <1>24, <1>25,
     <1>26, <1>27, <1>28, <1>29, <1>30, <1>31
     DEF ThreadStep, BodyStep, RoundStep, StallStep

\* `WAKE`: a thread that looked, found nothing and has not been woken since, or
\* is about to be, could still not go on: whoever changes what it waits for
\* notifies after the change, and its snapshot was taken before the look.  The one
\* thing it may have missed is a cancellation, in the loop of a join or of a
\* block's end: there the check comes before the snapshot and no poll enters a
\* frame, so a request between the two is seen after the 5 ms timeout only.
THEOREM WakesAreNotLost == Spec => []NoLostWake
<1>1. ASSUME Init
      PROVE  NoLostWake
  <2>1. \A t \in Scheds : woken[t] /\ pc[t] \in {"top", "unborn"}
    BY <1>1 DEF Init
  <2>. QED  BY <2>1 DEF NoLostWake, Alert, Heard, Past
<1>2. ASSUME NoLostWake, IInv, [Next]_vars
      PROVE  NoLostWake'
  <2>1. ASSUME NEW t \in Scheds, ThreadStep(t)
        PROVE  NoLostWake'
    BY <1>2, <2>1, AlertSelf, AlertOthers DEF NoLostWake
  <2>2. CASE UNCHANGED vars
    BY <1>2, <2>2 DEF NoLostWake, Alert, Heard, Owed, Attentive, Awaits, CouldContinue,
       SendAnswer, Awaited, Op, Nested, Unseen, vars, body, waiting, round, family, chans,
       stall
  <2>. QED  BY <1>2, <2>1, <2>2 DEF Next
<1>3. Init => NoLostWake
  BY <1>1
<1>4. IInv /\ NoLostWake /\ [Next]_vars => NoLostWake'
  BY <1>2
<1>. QED  BY <1>3, <1>4, Invariance, PTL DEF Spec
--------------------------------------------------------------------------------
(* What the registry tells a thread.                                       *)

\* Who runs is counted in `active`, and in `parked` only while it is parked.
Counts ==
  \A u \in Scheds : Live(u) => active > 0 /\ (~InPark(u) => parked < active)

LEMMA CountsHold == IInv => Counts
<1>. SUFFICES ASSUME IInv, NEW u \in Scheds, Live(u)
              PROVE  active > 0 /\ (~InPark(u) => parked < active)
  BY DEF Counts
<1>. DEFINE L == {t \in Scheds : Live(t)}
            P == {t \in Scheds : InPark(t)}
<1>1. active \in Int /\ Cardinality(L) <= active /\ parked = Cardinality(P)
  BY IInvCovers DEF IInv, BaseType, RegistryCovers, ParkedExact
<1>2. IsFiniteSet(L) /\ u \in L
  BY SchedsFinite, FS_Subset
<1>3. Cardinality(L \ {u}) = Cardinality(L) - 1 /\ IsFiniteSet(L \ {u})
  BY <1>2, FS_RemoveElement
<1>4. Cardinality(L) \in Nat /\ Cardinality(L \ {u}) \in Nat
  BY <1>2, <1>3, FS_CardinalityType
<1>5. active > 0
  BY <1>1, <1>3, <1>4
<1>6. ASSUME ~InPark(u)
      PROVE  parked < active
  <2>1. P \subseteq L \ {u}
    BY <1>6 DEF InPark, Live
  <2>2. Cardinality(P) \in Nat /\ Cardinality(P) <= Cardinality(L \ {u})
    BY <1>3, <2>1, FS_Subset, FS_CardinalityType
  <2>. QED  BY <1>1, <1>3, <1>4, <2>2
<1>. QED  BY <1>5, <1>6

LEMMA CountsNext == IInv' => Counts'
<1>. QED  BY CountsHold, PTL

\* The latch: set by its one action, cleared with the last slot only.
LatchMoves(t) ==
  /\ ~deadlocked /\ deadlocked' => Latch(t)
  /\ deadlocked /\ ~deadlocked' => active' = 0
  /\ deadlocked' => \/ Live(t)' \/ active' # 0
                    \/ deadlocked /\ active' = active

LEMMA LatchMovesStep ==
  ASSUME IInv, NEW t \in Scheds, ThreadStep(t)
  PROVE  LatchMoves(t)
<1>. USE DEF LatchMoves, Live
<1>a. pc \in [Scheds -> PCs] /\ deadlocked \in BOOLEAN /\ active \in Int /\ slots \in [Scheds -> Int]
  BY DEF IInv, BaseType
<1>1. CASE Top(t)
  BY <1>1, <1>a DEF Top, Goto, Set, body, waiting, round, family, chans, stall
<1>31. CASE Snapshot(t)
  BY <1>31, <1>a DEF Snapshot, Goto, Set, body, waiting, round, family, chans, stall
<1>2. CASE Enter(t)
  BY <1>2, <1>a DEF Enter, Goto, Set, body, waiting, round, family, chans, stall
<1>3. CASE ObserveCancel(t)
  BY <1>3, <1>a DEF ObserveCancel, Safepoint, Goto, Set, body, waiting, round, family, chans, stall
<1>4. CASE Notify(t)
  BY <1>4, <1>a DEF Notify, Goto, Set, body, waiting, round, family, chans, stall
<1>5. CASE RecvGot(t)
  BY <1>5, <1>a DEF RecvGot, NotifyThen, Step, At, Goto, Set, body, waiting, round, family,
     chans, stall
<1>6. CASE RecvNone(t)
  BY <1>6, <1>a DEF RecvNone, Step, At, Goto, Set, body, waiting, round, family, chans,
     stall
<1>7. CASE RecvPark(t)
  BY <1>7, <1>a DEF RecvPark, Suspend, At, Goto, Set, body, waiting, round, family, chans,
     stall
<1>8. CASE SendCheck(t)
  BY <1>8, <1>a DEF SendCheck, Unwind, Step, Suspend, At, Goto, Set, body, waiting, round,
     family, chans, stall
<1>9. CASE SendPush(t)
  BY <1>9, <1>a DEF SendPush, NotifyThen, Step, Suspend, Goto, Set, body, waiting, round,
     family, chans, stall
<1>10. CASE JoinPoll(t)
  BY <1>10, <1>a DEF JoinPoll, Step, Suspend, At, Goto, Set, body, waiting, round, family,
     chans, stall
<1>11. CASE DoClose(t)
  BY <1>11, <1>a DEF DoClose, Step, NotifyThen, At, Goto, Set, body, waiting, round, family,
     chans, stall
<1>12. CASE DoCancel(t)
  BY <1>12, <1>a DEF DoCancel, Step, At, Goto, Set, body, waiting, round, family, chans,
     stall
<1>13. CASE TakeSlot(t)
  BY <1>13, <1>a DEF TakeSlot, At, Goto, Set, body, waiting, round, family, chans, stall
<1>14. CASE StartThread(t)
  BY <1>14, <1>a DEF StartThread, Goto, Set, body, waiting, round, family, chans, stall
<1>15. CASE Book(t)
  BY <1>15, <1>a DEF Book, Step, Goto, Set, body, waiting, round, family, chans, stall
<1>16. CASE Finish(t)
  BY <1>16, <1>a DEF Finish, Unwind, Goto, Set, body, waiting, round, family, chans, stall
<1>17. ASSUME NEW w \in Workers, PollPending(t, w)
      PROVE  LatchMoves(t)
  BY <1>17, <1>a DEF PollPending, Goto, Set, body, waiting, round, family, chans, stall
<1>18. ASSUME NEW w \in Workers, Harvest(t, w)
      PROVE  LatchMoves(t)
  BY <1>18, <1>a DEF Harvest, FinishIsolate, Deregister, Goto, Set, body, waiting, round,
     family, chans, stall
<1>19. ASSUME NEW w \in Workers, HarvestFailed(t, w)
      PROVE  LatchMoves(t)
  BY <1>19, <1>a DEF HarvestFailed, FinishIsolate, Deregister, Unwind, Goto, Set, body,
     waiting, round, family, chans, stall
<1>20. CASE RoundDone(t)
  BY <1>20, <1>a DEF RoundDone, Goto, Set, body, waiting, round, family, chans, stall
<1>21. CASE StallCheck(t)
  BY <1>21, <1>a DEF StallCheck, Unwind, Goto, Set, body, waiting, round, family, chans,
     stall
<1>22. CASE Park(t)
  BY <1>22, <1>a DEF Park, Goto, Set, body, waiting, round, family, chans, stall
<1>23. CASE CountParked(t)
  BY <1>23, <1>a DEF CountParked, Goto, Set, body, waiting, round, family, chans, stall
<1>24. CASE WaitPast(t)
  BY <1>24, <1>a DEF WaitPast, Goto, Set, body, waiting, round, family, chans, stall
<1>25. CASE Confirm(t)
  BY <1>25, <1>a DEF Confirm, Goto, Set, body, waiting, round, family, chans, stall
<1>26. CASE Judge(t)
  BY <1>26, <1>a DEF Judge, Goto, Set, body, waiting, round, family, chans, stall
<1>27. CASE Unpark(t)
  BY <1>27, <1>a DEF Unpark, Goto, Set, body, waiting, round, family, chans, stall
<1>28. CASE Latch(t)
  BY <1>28, <1>a DEF Latch, Unwind, Goto, Set, body, waiting, round, family, chans, stall
<1>29. CASE t \in Workers /\ Report(t)
  BY <1>29, <1>a DEF Report, Goto, Set, body, waiting, round, family, chans, stall
<1>30. CASE t = Root /\ Teardown
  <2>1. Root \in Scheds /\ slots[Root] \in Int
    BY <1>a DEF Scheds
  <2>2. PICK n \in Int : n = slots[Root] + 1
    BY <2>1
  <2>3. active' = active - n /\ deadlocked' = (deadlocked /\ active # n)
    BY <1>30, <2>2 DEF Teardown, Deregister
  <2>4. active # n => active' # 0
    BY <1>a, <2>2, <2>3
  <2>5. active = n => active' = 0
    BY <1>a, <2>2, <2>3
  <2>. QED  BY <1>a, <2>3, <2>4, <2>5, Zenon
<1>. QED
  BY <1>1, <1>2, <1>3, <1>4, <1>5, <1>6, <1>7, <1>8, <1>9, <1>10, <1>11, <1>12, <1>13,
     <1>14, <1>15, <1>16, <1>17, <1>18, <1>19, <1>20, <1>21, <1>22, <1>23, <1>24, <1>25,
     <1>26, <1>27, <1>28, <1>29, <1>30, <1>31
     DEF ThreadStep, BodyStep, RoundStep, StallStep

--------------------------------------------------------------------------------
(* The first verdict.                                                      *)

\* When a scheduler is the first to conclude "deadlocked", nobody runs: every
\* live thread is inside `park`, and cannot go on unless a wake or a cancellation
\* has reached it that it has not acted on.  For every program, also one whose
\* workers abort and leave others behind, and however long threads are delayed.
THEOREM VerdictsSeeNobodyRun == Spec => FirstVerdict
<1>. DEFINE A == \A t \in Scheds :
                   Judge(t) /\ full'[t] /\ ~deadlocked =>
                     \A u \in Scheds : Live(u) => InPark(u) /\ (Stuck(u) \/ woken[u] \/ cancel[u])
<1>1. ASSUME IInv, NoLostWake, NEW t \in Scheds, Judge(t), full'[t], ~deadlocked,
             NEW u \in Scheds, Live(u)
      PROVE  InPark(u) /\ (Stuck(u) \/ woken[u] \/ cancel[u])
  <2>1. parked >= active
    <3>1. full \in [Scheds -> BOOLEAN]
      BY <1>1 DEF IInv, BaseType
    <3>. QED  BY <1>1, <3>1 DEF Judge, Set
  <2>2. active \in Int /\ parked \in Int
    BY <1>1 DEF IInv, BaseType
  <2>3. \A v \in Scheds : Live(v) => InPark(v)
    BY <1>1, <2>1, <2>2, CountsHold DEF Counts
  <2>4. ~Owed
    BY <2>3 DEF Owed, Live, InPark
  <2>5. ASSUME ~woken[u], ~cancel[u]
        PROVE  Stuck(u)
    <3>1. Alert(u) /\ Attentive(u) /\ InPark(u)
      BY <1>1, <2>3, <2>4, <2>5 DEF NoLostWake, Alert, Heard
    <3>2. pc[u] \in Past \ {"round"} /\ ~progressed[u]
      BY <3>1 DEF InPark, Past, Alert
    <3>3. Awaits(u) /\ Unseen(u) \subseteq {}
      BY <3>1, <3>2 DEF Attentive
    <3>. QED  BY <2>5, <3>1, <3>3 DEF Stuck, Awaits, Unseen
  <2>. QED  BY <1>1, <2>3, <2>5
<1>2. IInv /\ NoLostWake => A
  BY <1>1
<1>3. Spec => [][A]_vars
  BY <1>2, Invariance, WakesAreNotLost, PTL
<1>. QED  BY <1>3 DEF FirstVerdict
--------------------------------------------------------------------------------
(* What a program leaves behind.                                           *)

\* Of t's workers: none before it runs, and those of a block whose end it has
\* passed have been harvested.
BlocksJoined(t) ==
  /\ pc[t] = "unborn" => kids[t] = {}
  /\ \A w \in kids[t] : \A i, j \in DOMAIN prog[t] :
       prog[t][i] = Spawn(w) /\ i < j /\ j < ip[t] /\ prog[t][j] = ScopeEnd => task[w] # "live"

\* When the root has ended, its workers have, and it holds no slot; a harvested
\* worker has ended; the latch is not left set in an empty registry.
Left ==
  /\ pc[Root] # "unborn"
  /\ pc[Root] = "ended" => slots[Root] = 0 /\ \A w \in kids[Root] : pc[w] = "ended"
  /\ \A w \in Workers : task[w] # "live" => pc[w] = "ended"
  /\ \A t \in Scheds : BlocksJoined(t)
  /\ deadlocked => active # 0

\* A task that has ended stays so, and one that ends is of a thread that has.
LEMMA TaskEnds ==
  ASSUME IInv, NEW t \in Scheds, ThreadStep(t), NEW w \in Workers
  PROVE  /\ task[w] # "live" => task'[w] # "live"
         /\ task'[w] # "live" => task[w] # "live" \/ pc[w] = "ended"
<1>1. task \in [Workers -> {"live", "result", "cancelled"}]
  BY DEF IInv, BaseType
<1>2. CASE UNCHANGED task
  BY <1>2
<1>3. ASSUME NEW v \in Workers, Harvest(t, v)
      PROVE  /\ task[w] # "live" => task'[w] # "live"
             /\ task'[w] # "live" => task[w] # "live" \/ pc[w] = "ended"
  <2>1. pc[v] = "ended" /\ task' = [task EXCEPT ![v] = Terminal(report[v])]
    BY <1>3 DEF Harvest, FinishIsolate, Set
  <2>. QED  BY <1>1, <2>1 DEF Terminal
<1>4. ASSUME NEW v \in Workers, HarvestFailed(t, v)
      PROVE  UNCHANGED task
  BY <1>4 DEF HarvestFailed
<1>5. ASSUME TakeSlot(t) \/ StartThread(t) \/ Book(t) \/ (t = Root /\ Teardown) \/ Plain(t)
      PROVE  UNCHANGED task
  BY <1>5 DEF TakeSlot, StartThread, Book, Teardown, Plain, family
<1>. QED  BY <1>2, <1>3, <1>4, <1>5, KindsStep DEF Kinds

LEMMA BlocksJoinedStep ==
  ASSUME IInv, NEW t \in Scheds, ThreadStep(t), NEW u \in Scheds, BlocksJoined(u)
  PROVE  BlocksJoined(u)'
<1>1. /\ prog' = prog /\ prog[u] \in Seq(Ops) /\ ip[u] \in Nat
      /\ kids \in [Scheds -> SUBSET Workers] /\ pc \in [Scheds -> PCs] /\ Live(t)
  BY ProgramsAssumption, OnlyOwnPc DEF IInv, InBody, BaseType, ThreadStep, MovesItself
<1>2. ASSUME pc'[u] = "unborn"
      PROVE  kids'[u] = {}
  <2>1. pc[u] = "unborn" /\ u # t
    BY <1>1, <1>2, NeverUnborn DEF Live
  <2>2. kids'[u] = kids[u]
    BY <2>1, OthersKept DEF Own
  <2>. QED  BY <2>1, <2>2 DEF BlocksJoined
<1>3. ASSUME NEW w \in kids'[u], NEW i \in DOMAIN prog[u], NEW j \in DOMAIN prog[u],
             prog[u][i] = Spawn(w), i < j, j < ip'[u], prog[u][j] = ScopeEnd
      PROVE  task'[w] # "live"
  <2>1. i \in Nat /\ j \in Nat
    BY <1>1
  <2>2. w \in kids[u] \/ (u = t /\ pc[t] = "book" /\ w = Op(t).arg)
    BY <1>3, StartedStep
  <2>3. w \in Workers
    BY <1>1, <2>2, FreshWorker
  <2>4. CASE w \in kids[u] /\ j < ip[u]
    <3>1. task[w] # "live"
      BY <1>3, <2>4 DEF BlocksJoined
    <3>. QED  BY <2>3, <3>1, TaskEnds
  <2>5. CASE w \notin kids[u]
    <3>1. u = t /\ Op(t) = Spawn(w) /\ ip[t] \in DOMAIN prog[t]
      BY <2>2, <2>5, FreshWorker
    <3>2. i = ip[u]
      BY <1>3, <2>3, <3>1, OneSpawn DEF Op
    <3>3. ip'[u] = ip[u] \/ ip'[u] = ip[u] + 1
      BY <3>1, AdvancesStep DEF Advances
    <3>. QED  BY <1>1, <1>3, <2>1, <3>2, <3>3
  <2>6. CASE w \in kids[u] /\ ~(j < ip[u])
    <3>1. u = t
      BY <1>3, <2>6, OthersKept DEF Own
    <3>2. ip'[t] = ip[t] \/ ip'[t] = ip[t] + 1
      BY AdvancesStep DEF Advances
    <3>3. j = ip[t] /\ ip'[t] # ip[t]
      BY <1>1, <1>3, <2>1, <2>6, <3>1, <3>2
    <3>4. Op(t) = ScopeEnd
      BY <1>3, <3>1, <3>3 DEF Op
    <3>5. JoinPoll(t)
      BY <3>3, <3>4, AdvancesStep DEF Advances, ScopeEnd
    <3>6. Awaited(t) = kids[t] /\ task' = task
      BY <3>4, <3>5 DEF Awaited, ScopeEnd, JoinPoll, family
    <3>7. \A v \in Awaited(t) : task[v] # "live"
      BY <3>3, <3>5 DEF JoinPoll
    <3>. QED  BY <2>6, <3>1, <3>6, <3>7
  <2>. QED  BY <2>4, <2>5, <2>6
<1>. QED  BY <1>1, <1>2, <1>3 DEF BlocksJoined

LEMMA LeftStep ==
  ASSUME IInv, IInv', Left, NEW t \in Scheds, ThreadStep(t)
  PROVE  Left'
<1>a. /\ pc \in [Scheds -> PCs] /\ slots \in [Scheds -> Int] /\ Root \in Scheds /\ Live(t)
      /\ kids[Root] \subseteq Workers /\ Workers \subseteq Scheds
  BY OnlyOwnPc DEF IInv, BaseType, Scheds, MovesItself
<1>1. ASSUME pc'[Root] = "ended"
      PROVE  slots'[Root] = 0 /\ \A w \in kids'[Root] : pc'[w] = "ended"
  <2>1. CASE t = Root /\ Teardown
    <3>1. /\ slots'[Root] = 0 /\ kids' = kids /\ \A w \in kids[Root] : pc[w] = "ended"
          /\ pc' = [pc EXCEPT ![Root] = "ended"]
      BY <1>a, <2>1 DEF Teardown, Set, Goto
    <3>. QED  BY <1>a, <3>1
  <2>2. CASE ~(t = Root /\ Teardown)
    <3>1. pc[Root] = "ended" /\ t # Root
      BY <1>1, <1>a, <2>2, RootEnds DEF Live
    <3>2. slots'[Root] = slots[Root] /\ kids'[Root] = kids[Root]
      BY <1>a, <3>1, OthersKept DEF Own
    <3>3. ASSUME NEW w \in kids[Root]
          PROVE  pc'[w] = "ended"
      <4>1. w \in Scheds \ {t} /\ pc[w] = "ended"
        BY <1>a, <3>1 DEF Left, Live
      <4>. QED  BY <4>1, OnlyOwnPc, FreshWorker DEF MovesItself
    <3>. QED  BY <3>1, <3>2, <3>3 DEF Left
  <2>. QED  BY <2>1, <2>2
<1>2. ASSUME deadlocked'
      PROVE  active' # 0
  <2>1. Live(t)' => active' # 0
    BY CountsNext DEF Counts
  <2>. QED  BY <1>2, <2>1, LatchMovesStep DEF LatchMoves, Left
<1>3. pc'[Root] # "unborn"
  BY <1>a, NeverUnborn DEF Left
<1>4. ASSUME NEW w \in Workers, task'[w] # "live"
      PROVE  pc'[w] = "ended"
  <2>1. w \in Scheds /\ pc[w] = "ended"
    BY <1>4, TaskEnds DEF Left, Scheds
  <2>. QED  BY <1>a, <2>1, OnlyOwnPc, FreshWorker DEF MovesItself, Live
<1>5. \A u \in Scheds : BlocksJoined(u)'
  BY BlocksJoinedStep DEF Left
<1>. QED  BY <1>1, <1>2, <1>3, <1>4, <1>5 DEF Left

\* A body that returned has passed the end of every block it spawned a worker in.
LEMMA ReturnedJoined ==
  ASSUME IInv, Left, NEW t \in Scheds, fate[t] = "done", NEW w \in kids[t]
  PROVE  w \in Workers /\ task[w] # "live"
<1>1. ip[t] = Len(prog[t]) + 1 /\ prog \in Programs /\ prog[t] \in Seq(Ops) /\ w \in Workers
  BY ProgramsAssumption DEF IInv, BaseType, InBody, Fates, FateOf
<1>2. PICK i \in DOMAIN prog[t] : i < ip[t] /\ prog[t][i] = Spawn(w)
  BY DEF IInv, Parentage
<1>3. prog[t][i].op = "spawn"
  BY <1>2 DEF Spawn
<1>4. PICK j \in DOMAIN prog[t] : j > i /\ prog[t][j] = ScopeEnd
  BY <1>1, <1>3, BlocksAssumption
<1>5. i < j /\ j < ip[t]
  BY <1>1, <1>4
<1>. QED  BY <1>1, <1>2, <1>4, <1>5 DEF Left, BlocksJoined

\* What a program leaves behind, for every program: the root, however it ended,
\* and a worker that returned leave no worker of theirs running, and when all
\* threads have ended no count and no latch is left that an aborted worker's slots
\* do not account for.
THEOREM ExitsAreClean == Spec => []CleanExit
<1>1. ASSUME Init
      PROVE  Left
  <2>1. /\ pc[Root] = "top" /\ ~deadlocked /\ \A t \in Scheds : kids[t] = {}
        /\ \A w \in Workers : task[w] = "live"
    BY <1>1 DEF Init, Scheds
  <2>. QED  BY <2>1 DEF Left, BlocksJoined
<1>2. ASSUME IInv, IInv', Left, [Next]_vars
      PROVE  Left'
  <2>1. ASSUME NEW t \in Scheds, ThreadStep(t)
        PROVE  Left'
    BY <1>2, <2>1, LeftStep
  <2>2. CASE UNCHANGED vars
    BY <1>2, <2>2 DEF Left, BlocksJoined, vars, body, family, stall
  <2>. QED  BY <1>2, <2>1, <2>2 DEF Next
<1>3. ASSUME IInv, Left, NEW t \in Scheds, pc[t] = "ended", t = Root \/ fate[t] = "done",
             NEW w \in kids[t]
      PROVE  pc[w] = "ended"
  <2>1. CASE t = Root
    BY <1>3, <2>1 DEF Left
  <2>2. CASE fate[t] = "done"
    BY <1>3, <2>2, ReturnedJoined DEF Left
  <2>. QED  BY <1>3, <2>1, <2>2
<1>4. ASSUME IInv, Left, \A t \in Scheds : ~Live(t)
      PROVE  /\ parked = 0
             /\ active # 0 => \E w \in Workers : Aborted(w)
             /\ deadlocked => active # 0
  <2>1. PICK R \in SUBSET Workers : Ledger(R)
    BY <1>4 DEF IInv, Accounted
  <2>2. Root \in Scheds /\ Workers \subseteq Scheds /\ pc \in [Scheds -> PCs]
    BY <1>4 DEF Scheds, IInv, BaseType
  <2>3. pc[Root] = "ended" /\ Starting = {} /\ {t \in Scheds : InPark(t)} = {}
    BY <1>4, <2>2 DEF Live, Left, Starting, InPark
  <2>4. parked = 0
    BY <1>4, <2>3, FS_EmptySet DEF IInv, ParkedExact
  <2>5. ASSUME NEW w \in R
        PROVE  \E v \in Workers : Aborted(v)
    <3>1. pc[w] # "unborn" /\ task[w] = "live" /\ w \in Workers
      BY <2>1 DEF Ledger, Covers
    <3>2. PICK t \in Scheds : w \in Started(t)
      BY <1>4, <3>1 DEF IInv, Parentage
    <3>3. w \in kids[t]
      BY <1>4, <3>2 DEF Started, Live
    <3>4. t # Root
      <4>1. ASSUME t = Root
            PROVE  FALSE
        <5>1. Cardinality(R \cap Started(Root)) = 0 /\ IsFiniteSet(R \cap Started(Root))
          BY <1>4, <2>1, <2>2, <2>3, LedgerFinite DEF Ledger, Booked, Left
        <5>2. R \cap Started(Root) = {}
          BY <5>1, FS_EmptySet
        <5>. QED  BY <3>2, <4>1, <5>2
      <4>. QED  BY <4>1
    <3>5. pc[t] = "ended" /\ t \in Workers
      BY <1>4, <3>3, <3>4 DEF Live, Left, BlocksJoined, Scheds
    <3>6. fate[t] # "done"
      BY <1>4, <3>1, <3>3, ReturnedJoined
    <3>. QED  BY <3>3, <3>5, <3>6 DEF Aborted
  <2>6. R = {} => active = 0
    BY <2>1, <2>3, FS_EmptySet DEF Ledger, Total
  <2>. QED  BY <1>4, <2>4, <2>5, <2>6 DEF Left
<1>5. IInv /\ Left => CleanExit
  BY <1>3, <1>4 DEF CleanExit
<1>6. Init => Left
  BY <1>1
<1>7. IInv /\ IInv' /\ Left /\ [Next]_vars => Left'
  BY <1>2
<1>. QED  BY <1>5, <1>6, <1>7, Invariance, PTL DEF Spec
================================================================================
