--------------------------- MODULE IsolateSchedProof ---------------------------
(***************************************************************************)
(* Proofs about IsolateSched, for every set of programs, any number of      *)
(* workers and channels, every capacity and every behaviour of the safety   *)
(* timeout.                                                                *)
(***************************************************************************)
EXTENDS IsolateSched, FiniteSetTheorems, SequenceTheorems, TLAPS

\* Where a body is: an operation past its look is still the current one, and
\* a body that waits has not come to its end.
BodyAt(t) ==
  /\ ip[t] \in 1..(Len(prog[t]) + 1)
  /\ pc[t] = "push" => ip[t] <= Len(prog[t]) /\ Op(t).op = "send"
  /\ pc[t] \in {"start", "book"} => ip[t] <= Len(prog[t]) /\ Op(t).op = "spawn"
  /\ pc[t] \in {"round", "stall"} \/ (pc[t] = "notify" /\ after[t] = "round")
       => ip[t] <= Len(prog[t])
InBody == prog \in Programs /\ \A t \in Scheds : BodyAt(t)

\* A body has a fate exactly when it unwinds or is over.
Leaving(t) ==
  pc[t] \in {"unwind", "ended"} \/ (pc[t] = "notify" /\ after[t] \in {"unwind", "ended"})
Reported(w) == pc[w] = "ended" \/ (pc[w] = "notify" /\ after[w] = "ended")
FateOf(t) ==
  /\ fate[t] # "none" <=> Leaving(t)
  /\ fate[t] = "done" => ip[t] = Len(prog[t]) + 1
ReportOf(w) ==
  /\ report[w] # "none" <=> Reported(w)
  /\ report[w] \in {"done", "cancelled"} => fate[w] = report[w]
  /\ task[w] # "live" => report[w] \in {"done", "cancelled"} /\ task[w] = Terminal(report[w])
Fates ==
  /\ \A t \in Scheds : FateOf(t)
  /\ \A w \in Workers : ReportOf(w)
  /\ after[Root] # "ended"

\* The workers t has started: the ones it has booked, and the one it is
\* booking.  Everybody who runs was started by one thread.
Started(t) == kids[t] \cup (IF pc[t] = "book" THEN {Op(t).arg} ELSE {})
Parentage ==
  /\ \A t \in Scheds : \A w \in kids[t] :
       \E i \in DOMAIN prog[t] : i < ip[t] /\ prog[t][i] = Spawn(w)
  /\ \A w \in Workers :
       pc[w] # "unborn" <=> \E t \in Scheds : w \in Started(t)
  /\ \A w \in Workers : task[w] # "live" => \E t \in Scheds : w \in kids[t]
  /\ \A t \in Scheds : todo[t] \subseteq {w \in kids[t] : task[w] = "live"}

\* The producer holds of a channel: the booked workers not yet harvested.
Holders(c) ==
  {w \in Workers : /\ task[w] = "live" /\ c \in Senders(w)
                   /\ \E t \in Scheds : w \in kids[t]}
HoldsExact == \A c \in Channels : producers[c] = Cardinality(Holders(c))

\* R are the workers whose stall slot is still out.  A failed worker's task
\* stays live, so R is not a function of the other state.
Starting == {t \in Scheds : pc[t] = "start"}
Covers(R) ==
  /\ \A w \in R : pc[w] # "unborn" /\ task[w] = "live"
  /\ \A w \in Workers : Live(w) => w \in R
Booked(R, t) ==
  /\ fate[t] = "none" => {w \in Started(t) : task[w] = "live"} \subseteq R
  /\ slots[t] = Cardinality(R \cap Started(t))
  /\ inflight[t] >= Cardinality(R \cap kids[t])
Total(R) ==
  active = Cardinality(R) + Cardinality(Starting) + (IF pc[Root] = "ended" THEN 0 ELSE 1)
Ledger(R) == Covers(R) /\ (\A t \in Scheds : Booked(R, t)) /\ Total(R)
Accounted == \E R \in SUBSET Workers : Ledger(R)

\* TypeOK with the counters as integers: that none of them falls below zero is
\* what the ledgers are for.
BaseType ==
  /\ pc \in [Scheds -> PCs]
  /\ ip \in [Scheds -> Nat]
  /\ phase \in [Scheds -> SendPhase]
  /\ woken \in [Scheds -> BOOLEAN]
  /\ progressed \in [Scheds -> BOOLEAN]
  /\ after \in [Scheds -> {"poll", "round", "unwind", "ended"}]
  /\ todo \in [Scheds -> SUBSET Workers]
  /\ count \in [Scheds -> Nat]
  /\ full \in [Scheds -> BOOLEAN]
  /\ quiet \in [Scheds -> BOOLEAN]
  /\ fate \in [Scheds -> {"none", "done", "failed", "cancelled", "alone", "deadlock"}]
  /\ cancel \in [Scheds -> BOOLEAN]
  /\ kids \in [Scheds -> SUBSET Workers]
  /\ inflight \in [Scheds -> Int]
  /\ slots \in [Scheds -> Int]
  /\ task \in [Workers -> {"live", "result", "cancelled"}]
  /\ report \in [Workers -> {"none", "done", "cancelled", "failed"}]
  /\ queue \in [Channels -> Seq(Scheds)]
  /\ closed \in [Channels -> BOOLEAN]
  /\ producers \in [Channels -> Int]
  /\ active \in Int /\ parked \in Int
  /\ deadlocked \in BOOLEAN

IInv ==
  /\ BaseType /\ InBody /\ Fates /\ Parentage
  /\ HoldsExact /\ Accounted /\ ParkedExact
--------------------------------------------------------------------------------
(* The operations of a body.                                               *)

LEMMA OpArgs ==
  ASSUME NEW o \in Ops
  PROVE  /\ o.op \in {"recv", "send", "close"} => o.arg \in Channels
         /\ o.op \in {"join", "spawn", "cancel"} => o.arg \in Workers
         /\ o.op = "spawn" => o = Spawn(o.arg)
<1>1. \/ o = ScopeEnd
      \/ \E c \in Channels : o \in {Recv(c), Send(c), Close(c)}
      \/ \E w \in Workers : o \in {Join(w), Spawn(w), Cancel(w)}
  BY DEF Ops
<1>. QED  BY <1>1 DEF Recv, Send, Close, Join, Spawn, Cancel, ScopeEnd

LEMMA OpLegal ==
  ASSUME InBody, NEW t \in Scheds, ip[t] <= Len(prog[t])
  PROVE  /\ ip[t] \in DOMAIN prog[t] /\ Op(t) \in Ops
         /\ Op(t).op \in {"recv", "send", "close"} => Op(t).arg \in Channels
         /\ Op(t).op \in {"join", "spawn", "cancel"} => Op(t).arg \in Workers
         /\ Op(t).op = "spawn" => Op(t) = Spawn(Op(t).arg)
<1>1. prog[t] \in Seq(Ops) /\ ip[t] \in 1..(Len(prog[t]) + 1)
  BY ProgramsAssumption DEF InBody, BodyAt
<1>2. ip[t] \in DOMAIN prog[t] /\ Op(t) \in Ops
  BY <1>1 DEF Op
<1>. QED  BY <1>2, OpArgs
--------------------------------------------------------------------------------
(* Types.                                                                  *)

LEMMA SchedsFinite ==
  IsFiniteSet(Scheds) /\ Cardinality(Scheds) = Cardinality(Workers) + 1
<1>. QED  BY ThreadsAssumption, FS_AddElement DEF Scheds

LEMMA ParkedNat ==
  ASSUME ParkedExact
  PROVE  parked \in Nat
<1>1. IsFiniteSet({t \in Scheds : InPark(t)})
  BY SchedsFinite, FS_Subset
<1>. QED  BY <1>1, FS_CardinalityType DEF ParkedExact

LEMMA BaseTypeStep ==
  ASSUME IInv, NEW t \in Scheds, ThreadStep(t)
  PROVE  BaseType'
<1>a. BaseType  BY DEF IInv
<1>b. ip[t] <= Len(prog[t]) =>
        /\ Op(t).op \in {"recv", "send", "close"} => Op(t).arg \in Channels
        /\ Op(t).op \in {"join", "spawn", "cancel"} => Op(t).arg \in Workers
  BY OpLegal DEF IInv
<1>c. /\ pc[t] = "push" => Op(t).arg \in Channels
      /\ pc[t] \in {"start", "book"} => Op(t).arg \in Workers
  BY <1>b DEF IInv, InBody, BodyAt
<1>pc. pc \in [Scheds -> PCs]  BY <1>a DEF BaseType
<1>ip. ip \in [Scheds -> Nat]  BY <1>a DEF BaseType
<1>phase. phase \in [Scheds -> SendPhase]  BY <1>a DEF BaseType
<1>woken. woken \in [Scheds -> BOOLEAN]  BY <1>a DEF BaseType
<1>progressed. progressed \in [Scheds -> BOOLEAN]  BY <1>a DEF BaseType
<1>after. after \in [Scheds -> {"poll", "round", "unwind", "ended"}]  BY <1>a DEF BaseType
<1>todo. todo \in [Scheds -> SUBSET Workers]  BY <1>a DEF BaseType
<1>cancel. cancel \in [Scheds -> BOOLEAN]  BY <1>a DEF BaseType
<1>kids. kids \in [Scheds -> SUBSET Workers]  BY <1>a DEF BaseType
<1>inflight. inflight \in [Scheds -> Int]  BY <1>a DEF BaseType
<1>slots. slots \in [Scheds -> Int]  BY <1>a DEF BaseType
<1>task. task \in [Workers -> {"live", "result", "cancelled"}]  BY <1>a DEF BaseType
<1>queue. queue \in [Channels -> Seq(Scheds)]  BY <1>a DEF BaseType
<1>closed. closed \in [Channels -> BOOLEAN]  BY <1>a DEF BaseType
<1>producers. producers \in [Channels -> Int]  BY <1>a DEF BaseType
<1>active. active \in Int  BY <1>a DEF BaseType
<1>deadlocked. deadlocked \in BOOLEAN  BY <1>a DEF BaseType
<1>fate. fate \in [Scheds -> {"none", "done", "failed", "cancelled", "alone", "deadlock"}]  BY <1>a DEF BaseType
<1>5. CASE RecvGot(t)
  <2>1. Op(t).arg \in Channels /\ Len(queue[Op(t).arg]) > 0
    BY <1>5, <1>b, <1>queue DEF RecvGot, At, PollRecv
  <2>2. Tail(queue[Op(t).arg]) \in Seq(Scheds)
    BY <2>1, <1>queue
  <2>3. queue' \in [Channels -> Seq(Scheds)]
    BY <1>5, <1>queue, <2>1, <2>2 DEF RecvGot, NotifyThen, Goto, Set, Step, PCs
  <2>4. ip' \in [Scheds -> Nat]
    BY <1>5, <1>ip DEF RecvGot, NotifyThen, Goto, Set, Step, PCs
  <2>5. pc' \in [Scheds -> PCs]
    BY <1>5, <1>pc DEF RecvGot, NotifyThen, Goto, Set, Step, PCs
  <2>6. after' \in [Scheds -> {"poll", "round", "unwind", "ended"}]
    BY <1>5, <1>after DEF RecvGot, NotifyThen, Goto, Set, Step, PCs
  <2>7. progressed' \in [Scheds -> BOOLEAN]
    BY <1>5, <1>progressed DEF RecvGot, NotifyThen, Goto, Set, Step, PCs
  <2>8. UNCHANGED <<phase, fate, cancel, waiting, todo, family, closed, producers, woken, stall>>
    BY <1>5 DEF RecvGot
  <2>. QED  BY <1>a, <2>3, <2>4, <2>5, <2>6, <2>7, <2>8 DEF BaseType, body, waiting, round, family, chans, stall
<1>8. CASE SendCheck(t)
  <2>1. {w \in kids[t] : task[w] = "live"} \in SUBSET Workers
    BY <1>kids
  <2>2. pc' \in [Scheds -> PCs]
    BY <1>8, <1>pc DEF SendCheck, Suspend, SendPhase, Goto, Set, Step, Unwind, PCs
  <2>3. fate' \in [Scheds -> {"none", "done", "failed", "cancelled", "alone", "deadlock"}]
    BY <1>8, <1>fate DEF SendCheck, Suspend, SendPhase, Goto, Set, Step, Unwind, PCs
  <2>4. ip' \in [Scheds -> Nat]
    BY <1>8, <1>ip DEF SendCheck, Suspend, SendPhase, Goto, Set, Step, Unwind, PCs
  <2>5. phase' \in [Scheds -> SendPhase]
    BY <1>8, <1>phase DEF SendCheck, Suspend, SendPhase, Goto, Set, Step, Unwind, PCs
  <2>6. progressed' \in [Scheds -> BOOLEAN]
    BY <1>8, <1>progressed DEF SendCheck, Suspend, SendPhase, Goto, Set, Step, Unwind, PCs
  <2>7. todo' \in [Scheds -> SUBSET Workers]
    BY <1>8, <1>todo, <2>1 DEF SendCheck, Suspend, SendPhase, Goto, Set, Step, Unwind, PCs
  <2>8. UNCHANGED <<cancel, waiting, after, family, chans, woken, stall>>
    BY <1>8 DEF SendCheck
  <2>. QED  BY <1>a, <2>2, <2>3, <2>4, <2>5, <2>6, <2>7, <2>8 DEF BaseType, body, waiting, round, family, chans, stall
<1>9. CASE SendPush(t)
  <2>1. Op(t).arg \in Channels
    BY <1>9, <1>c DEF SendPush
  <2>2. Append(queue[Op(t).arg], t) \in Seq(Scheds)
    BY <2>1, <1>queue
  <2>3. {w \in kids[t] : task[w] = "live"} \in SUBSET Workers
    BY <1>kids
  <2>4. queue' \in [Channels -> Seq(Scheds)]
    BY <1>9, <1>queue, <2>1, <2>2, <2>3 DEF SendPush, NotifyThen, Suspend, SendPhase, Goto, Set, Step, PCs
  <2>5. pc' \in [Scheds -> PCs]
    BY <1>9, <1>pc DEF SendPush, NotifyThen, Suspend, SendPhase, Goto, Set, Step, PCs
  <2>6. ip' \in [Scheds -> Nat]
    BY <1>9, <1>ip DEF SendPush, NotifyThen, Suspend, SendPhase, Goto, Set, Step, PCs
  <2>7. phase' \in [Scheds -> SendPhase]
    BY <1>9, <1>phase DEF SendPush, NotifyThen, Suspend, SendPhase, Goto, Set, Step, PCs
  <2>8. todo' \in [Scheds -> SUBSET Workers]
    BY <1>9, <1>todo, <2>1, <2>2, <2>3 DEF SendPush, NotifyThen, Suspend, SendPhase, Goto, Set, Step, PCs
  <2>9. after' \in [Scheds -> {"poll", "round", "unwind", "ended"}]
    BY <1>9, <1>after DEF SendPush, NotifyThen, Suspend, SendPhase, Goto, Set, Step, PCs
  <2>10. progressed' \in [Scheds -> BOOLEAN]
    BY <1>9, <1>progressed DEF SendPush, NotifyThen, Suspend, SendPhase, Goto, Set, Step, PCs
  <2>11. UNCHANGED <<fate, cancel, waiting, family, closed, producers, woken, stall>>
    BY <1>9 DEF SendPush
  <2>. QED  BY <1>a, <2>4, <2>5, <2>6, <2>7, <2>8, <2>9, <2>10, <2>11 DEF BaseType, body, waiting, round, family, chans, stall
<1>10. CASE JoinPoll(t)
  <2>1. {w \in kids[t] : task[w] = "live"} \in SUBSET Workers
    BY <1>kids
  <2>2. pc' \in [Scheds -> PCs]
    BY <1>10, <1>pc DEF JoinPoll, Suspend, Goto, Set, Step, PCs
  <2>3. ip' \in [Scheds -> Nat]
    BY <1>10, <1>ip DEF JoinPoll, Suspend, Goto, Set, Step, PCs
  <2>4. todo' \in [Scheds -> SUBSET Workers]
    BY <1>10, <1>todo, <2>1 DEF JoinPoll, Suspend, Goto, Set, Step, PCs
  <2>5. UNCHANGED <<phase, fate, cancel, waiting, progressed, after, family, chans, stall>>
    BY <1>10 DEF JoinPoll
  <2>6. woken' \in [Scheds -> BOOLEAN]
    BY <1>10, <1>woken DEF JoinPoll, Set
  <2>. QED  BY <1>a, <2>2, <2>3, <2>4, <2>5, <2>6 DEF BaseType, body, waiting, round, family, chans, stall
<1>12. CASE DoCancel(t)
  <2>1. Op(t).arg \in Scheds
    BY <1>12, <1>b DEF DoCancel, At, Scheds
  <2>2. pc' \in [Scheds -> PCs]
    BY <1>12, <1>pc DEF DoCancel, Goto, Set, Step, PCs
  <2>3. ip' \in [Scheds -> Nat]
    BY <1>12, <1>ip DEF DoCancel, Goto, Set, Step, PCs
  <2>4. cancel' \in [Scheds -> BOOLEAN]
    BY <1>12, <1>cancel, <2>1 DEF DoCancel, Goto, Set, Step, PCs
  <2>5. after' \in [Scheds -> {"poll", "round", "unwind", "ended"}]
    BY <1>12, <1>after DEF DoCancel, Goto, Set, Step, PCs
  <2>6. UNCHANGED <<phase, fate, waiting, progressed, todo, family, chans, woken, stall>>
    BY <1>12 DEF DoCancel
  <2>. QED  BY <1>a, <2>2, <2>3, <2>4, <2>5, <2>6 DEF BaseType, body, waiting, round, family, chans, stall
<1>14. CASE StartThread(t)
  <2>1. Op(t).arg \in Scheds
    BY <1>14, <1>c DEF StartThread, Scheds
  <2>2. pc' \in [Scheds -> PCs]
    BY <1>14, <1>pc, <2>1 DEF StartThread, Goto, Set, Step, PCs
  <2>3. slots' \in [Scheds -> Int]
    BY <1>14, <1>slots DEF StartThread, Goto, Set, Step, PCs
  <2>4. UNCHANGED <<body, waiting, round, kids, inflight, task, report, chans, woken, stall>>
    BY <1>14 DEF StartThread
  <2>. QED  BY <1>a, <2>2, <2>3, <2>4 DEF BaseType, body, waiting, round, family, chans, stall
<1>15. CASE Book(t)
  <2>1. Op(t).arg \in Workers
    BY <1>15, <1>c DEF Book
  <2>2. Op(t).arg \in Scheds
    BY <2>1 DEF Scheds
  <2>3. kids' \in [Scheds -> SUBSET Workers]
    BY <1>15, <1>kids, <2>1, <2>2 DEF Book, Goto, Set, Step, PCs
  <2>4. inflight' \in [Scheds -> Int]
    BY <1>15, <1>inflight DEF Book, Goto, Set, Step, PCs
  <2>5. producers' \in [Channels -> Int]
    BY <1>15, <1>producers DEF Book, Goto, Set, Step, PCs
  <2>6. cancel' \in [Scheds -> BOOLEAN]
    BY <1>15, <1>cancel, <2>1, <2>2 DEF Book, Goto, Set, Step, PCs
  <2>7. ip' \in [Scheds -> Nat]
    BY <1>15, <1>ip DEF Book, Goto, Set, Step, PCs
  <2>8. pc' \in [Scheds -> PCs]
    BY <1>15, <1>pc DEF Book, Goto, Set, Step, PCs
  <2>9. after' \in [Scheds -> {"poll", "round", "unwind", "ended"}]
    BY <1>15, <1>after DEF Book, Goto, Set, Step, PCs
  <2>10. UNCHANGED <<phase, fate, waiting, progressed, todo, slots, task, report, queue, closed, woken, stall>>
    BY <1>15 DEF Book
  <2>. QED  BY <1>a, <2>3, <2>4, <2>5, <2>6, <2>7, <2>8, <2>9, <2>10 DEF BaseType, body, waiting, round, family, chans, stall
<1>18. ASSUME NEW w \in Workers, Harvest(t, w)
      PROVE  BaseType'
  <2>1. pc' \in [Scheds -> PCs]
    BY <1>18, <1>pc DEF Harvest, FinishIsolate, Deregister, Terminal, Goto, Set, Step, PCs
  <2>2. after' \in [Scheds -> {"poll", "round", "unwind", "ended"}]
    BY <1>18, <1>after DEF Harvest, FinishIsolate, Deregister, Terminal, Goto, Set, Step, PCs
  <2>3. todo' \in [Scheds -> SUBSET Workers]
    BY <1>18, <1>todo DEF Harvest, FinishIsolate, Deregister, Terminal, Goto, Set, Step, PCs
  <2>4. inflight' \in [Scheds -> Int]
    BY <1>18, <1>inflight DEF Harvest, FinishIsolate, Deregister, Terminal, Goto, Set, Step, PCs
  <2>5. slots' \in [Scheds -> Int]
    BY <1>18, <1>slots DEF Harvest, FinishIsolate, Deregister, Terminal, Goto, Set, Step, PCs
  <2>6. active' \in Int
    BY <1>18, <1>active DEF Harvest, FinishIsolate, Deregister, Terminal, Goto, Set, Step, PCs
  <2>7. deadlocked' \in BOOLEAN
    BY <1>18, <1>deadlocked DEF Harvest, FinishIsolate, Deregister, Terminal, Goto, Set, Step, PCs
  <2>8. task' \in [Workers -> {"live", "result", "cancelled"}]
    BY <1>18, <1>task DEF Harvest, FinishIsolate, Deregister, Terminal, Goto, Set, Step, PCs
  <2>9. progressed' \in [Scheds -> BOOLEAN]
    BY <1>18, <1>progressed DEF Harvest, FinishIsolate, Deregister, Terminal, Goto, Set, Step, PCs
  <2>10. producers' \in [Channels -> Int]
    BY <1>18, <1>producers DEF Harvest, FinishIsolate, Deregister, Terminal, Goto, Set, Step, PCs
  <2>11. closed' \in [Channels -> BOOLEAN]
    BY <1>18, <1>closed DEF Harvest, FinishIsolate, Deregister, Terminal, Goto, Set, Step, PCs
  <2>12. UNCHANGED <<body, waiting, kids, report, queue, woken, parked>>
    BY <1>18 DEF Harvest, FinishIsolate
  <2>. QED  BY <1>a, <2>1, <2>2, <2>3, <2>4, <2>5, <2>6, <2>7, <2>8, <2>9, <2>10, <2>11, <2>12 DEF BaseType, body, waiting, round, family, chans, stall
<1>. USE <1>a DEF BaseType, PCs, Goto, Set, Step, Unwind, body, waiting, round, family, chans, stall
<1>1. CASE Top(t)
  BY <1>1 DEF Top
<1>31. CASE Snapshot(t)
  BY <1>31 DEF Snapshot
<1>2. CASE Enter(t)
  BY <1>2 DEF Enter
<1>3. CASE ObserveCancel(t)
  BY <1>3 DEF ObserveCancel, Safepoint
<1>4. CASE Notify(t)
  BY <1>4 DEF Notify
<1>6. CASE RecvNone(t)
  BY <1>6 DEF RecvNone
<1>7. CASE RecvPark(t)
  BY <1>7 DEF RecvPark, Suspend
<1>11. CASE DoClose(t)
  <2>1. Op(t).arg \in Channels  BY <1>11, <1>b DEF DoClose, At
  <2>. QED  BY <1>11, <2>1 DEF DoClose, NotifyThen
<1>13. CASE TakeSlot(t)
  BY <1>13 DEF TakeSlot
<1>16. CASE Finish(t)
  BY <1>16 DEF Finish
<1>17. ASSUME NEW w \in Workers, PollPending(t, w)
      PROVE  BaseType'
  BY <1>17 DEF PollPending
<1>19. ASSUME NEW w \in Workers, HarvestFailed(t, w)
      PROVE  BaseType'
  BY <1>19 DEF HarvestFailed, FinishIsolate, Deregister
<1>20. CASE RoundDone(t)
  BY <1>20 DEF RoundDone
<1>21. CASE StallCheck(t)
  BY <1>21 DEF StallCheck
<1>22. CASE Park(t)
  <2>1. parked \in Nat
    BY ParkedNat DEF IInv
  <2>. QED  BY <1>22, <2>1 DEF Park
<1>23. CASE CountParked(t)
  BY <1>23 DEF CountParked
<1>24. CASE WaitPast(t)
  BY <1>24 DEF WaitPast
<1>25. CASE Confirm(t)
  BY <1>25 DEF Confirm
<1>26. CASE Judge(t)
  BY <1>26 DEF Judge
<1>27. CASE Unpark(t)
  BY <1>27 DEF Unpark
<1>28. CASE Latch(t)
  BY <1>28 DEF Latch
<1>29. CASE t \in Workers /\ Report(t)
  BY <1>29 DEF Report
<1>30. CASE t = Root /\ Teardown
  BY <1>30 DEF Teardown, Deregister
<1>. QED
  BY <1>1, <1>2, <1>3, <1>4, <1>5, <1>6, <1>7, <1>8, <1>9, <1>10, <1>11, <1>12, <1>13, <1>14, <1>15, <1>16, <1>17, <1>18, <1>19, <1>20, <1>21, <1>22, <1>23, <1>24, <1>25, <1>26, <1>27, <1>28, <1>29, <1>30, <1>31
     DEF ThreadStep, BodyStep, RoundStep, StallStep
--------------------------------------------------------------------------------
(* Who may move what.                                                      *)

\* What is another thread's own: only the thread itself changes it.
Own(u) == <<ip[u], after[u], fate[u], todo[u], kids[u], inflight[u], slots[u]>>

\* A step moves its own thread, which runs, and nobody else's -- except that
\* starting a thread makes it run.
MovesItself(t) ==
  /\ Live(t)
  /\ \/ \A u \in Scheds \ {t} : pc'[u] = pc[u]
     \/ /\ pc[t] = "start" /\ pc'[t] = "book" /\ pc'[Op(t).arg] = "top"
        /\ \A u \in Scheds \ {t, Op(t).arg} : pc'[u] = pc[u]

\* A worker is started by the one operation that spawns it, and by nothing
\* that was done before that operation.
LEMMA OneSpawn ==
  ASSUME IInv, NEW t \in Scheds, NEW u \in Scheds,
         NEW i \in DOMAIN prog[t], NEW j \in DOMAIN prog[u], NEW w \in Workers,
         prog[t][i] = Spawn(w), prog[u][j] = Spawn(w)
  PROVE  t = u /\ i = j
<1>1. prog \in Programs  BY DEF IInv, InBody, BodyAt
<1>2. prog[t][i].op = "spawn" /\ prog[t][i] = prog[u][j]  BY DEF Spawn
<1>. QED  BY <1>1, <1>2, ProgramsAssumption

LEMMA StartedBySpawn ==
  ASSUME IInv, NEW u \in Scheds, NEW w \in Started(u)
  PROVE  /\ w \in Workers
         /\ \E j \in DOMAIN prog[u] :
              /\ prog[u][j] = Spawn(w)
              /\ j < ip[u] \/ (j = ip[u] /\ pc[u] = "book" /\ w = Op(u).arg)
<1>1. CASE w \in kids[u]
  BY <1>1 DEF IInv, BaseType, Parentage
<1>2. CASE pc[u] = "book" /\ w = Op(u).arg
  <2>1. ip[u] <= Len(prog[u]) /\ Op(u).op = "spawn"
    BY <1>2 DEF IInv, InBody, BodyAt
  <2>2. ip[u] \in DOMAIN prog[u] /\ Op(u).arg \in Workers /\ Op(u) = Spawn(Op(u).arg)
    BY <2>1, OpLegal DEF IInv
  <2>. QED  BY <1>2, <2>2 DEF Op
<1>. QED  BY <1>1, <1>2 DEF Started

LEMMA OneParent ==
  ASSUME IInv, NEW t \in Scheds, NEW u \in Scheds, NEW w, w \in Started(t), w \in Started(u)
  PROVE  t = u
<1>1. w \in Workers /\ \E i \in DOMAIN prog[t] : prog[t][i] = Spawn(w)
  BY StartedBySpawn
<1>2. \E j \in DOMAIN prog[u] : prog[u][j] = Spawn(w)
  BY StartedBySpawn
<1>. QED  BY <1>1, <1>2, OneSpawn

\* What a spawn is about to start or to book is nobody's child yet; before
\* the thread starts, it has never run.
LEMMA FreshWorker ==
  ASSUME IInv, NEW t \in Scheds, pc[t] \in {"start", "book"}
  PROVE  /\ Op(t).arg \in Workers /\ Op(t) = Spawn(Op(t).arg) /\ ip[t] \in DOMAIN prog[t]
         /\ \A u \in Scheds : Op(t).arg \notin kids[u]
         /\ pc[t] = "start" => /\ \A u \in Scheds : Op(t).arg \notin Started(u)
                               /\ pc[Op(t).arg] = "unborn"
<1>. DEFINE w == Op(t).arg
<1>1. ip[t] <= Len(prog[t]) /\ Op(t).op = "spawn"
  BY DEF IInv, InBody, BodyAt
<1>2. w \in Workers /\ Op(t) = Spawn(w) /\ ip[t] \in DOMAIN prog[t]
  BY <1>1, OpLegal DEF IInv
<1>3. ip[t] \in Nat
  BY DEF IInv, BaseType
<1>4. ASSUME NEW u \in Scheds, w \in Started(u)
      PROVE  pc[t] = "book" /\ w \notin kids[u]
  <2>1. PICK j \in DOMAIN prog[u] :
          /\ prog[u][j] = Spawn(w)
          /\ j < ip[u] \/ (j = ip[u] /\ pc[u] = "book" /\ w = Op(u).arg)
    BY <1>4, StartedBySpawn
  <2>2. u = t /\ j = ip[t]
    BY <1>2, <2>1, OneSpawn DEF Op
  <2>3. pc[t] = "book"
    BY <1>3, <2>1, <2>2
  <2>4. ASSUME w \in kids[u]
        PROVE  FALSE
    <3>1. PICK i \in DOMAIN prog[u] : i < ip[u] /\ prog[u][i] = Spawn(w)
      BY <2>4 DEF IInv, Parentage
    <3>2. i = ip[t]
      BY <1>2, <3>1, OneSpawn DEF Op
    <3>. QED  BY <1>3, <2>2, <3>1, <3>2
  <2>. QED  BY <2>3, <2>4
<1>5. \A u \in Scheds : w \notin kids[u]
  BY <1>4 DEF Started
<1>6. pc[t] = "start" => \A u \in Scheds : w \notin Started(u)
  BY <1>4
<1>7. pc[t] = "start" => pc[w] = "unborn"
  BY <1>2, <1>6 DEF IInv, Parentage
<1>. QED  BY <1>2, <1>5, <1>6, <1>7

LEMMA OthersKept ==
  ASSUME IInv, NEW t \in Scheds, ThreadStep(t)
  PROVE  \A u \in Scheds \ {t} : UNCHANGED Own(u)
<1>. USE DEF Own
<1>a. /\ ip \in [Scheds -> Nat] /\ kids \in [Scheds -> SUBSET Workers]
      /\ after \in [Scheds -> {"poll", "round", "unwind", "ended"}]
      /\ fate \in [Scheds -> {"none", "done", "failed", "cancelled", "alone", "deadlock"}]
      /\ todo \in [Scheds -> SUBSET Workers]
      /\ inflight \in [Scheds -> Int] /\ slots \in [Scheds -> Int]
  BY DEF IInv, BaseType
<1>1. CASE Top(t)
  BY <1>1, <1>a DEF Top, Goto, Set, body, waiting, round, family, chans, stall
<1>31. CASE Snapshot(t)
  BY <1>31, <1>a DEF Snapshot, Goto, Set, body, waiting, round, family, chans, stall
<1>2. CASE Enter(t)
  BY <1>2, <1>a DEF Enter, Goto, body, waiting, round, family, chans, stall
<1>3. CASE ObserveCancel(t)
  BY <1>3, <1>a DEF ObserveCancel, Safepoint, Goto, Set, body, waiting, round, family, chans, stall
<1>4. CASE Notify(t)
  BY <1>4, <1>a DEF Notify, Goto, Set, body, waiting, round, family, chans, stall
<1>5. CASE RecvGot(t)
  BY <1>5, <1>a DEF RecvGot, NotifyThen, Goto, Set, Step, body, waiting, round, family,
       chans, stall
<1>6. CASE RecvNone(t)
  BY <1>6, <1>a DEF RecvNone, Step, Set, body, waiting, round, family, chans, stall
<1>7. CASE RecvPark(t)
  BY <1>7, <1>a DEF RecvPark, Suspend, Goto, Set, body, waiting, round, family, chans, stall
<1>8. CASE SendCheck(t)
  BY <1>8, <1>a DEF SendCheck, Unwind, Step, Suspend, Goto, Set, body, waiting, round,
       family, chans, stall
<1>9. CASE SendPush(t)
  BY <1>9, <1>a DEF SendPush, NotifyThen, Step, Suspend, Goto, Set, body, waiting, round,
       family, chans, stall
<1>10. CASE JoinPoll(t)
  BY <1>10, <1>a DEF JoinPoll, Step, Suspend, Goto, Set, body, waiting, round, family,
       chans, stall
<1>11. CASE DoClose(t)
  BY <1>11, <1>a DEF DoClose, Step, NotifyThen, Goto, Set, body, waiting, round, family,
       chans, stall
<1>12. CASE DoCancel(t)
  BY <1>12, <1>a DEF DoCancel, Step, Goto, Set, body, waiting, round, family, chans, stall
<1>13. CASE TakeSlot(t)
  BY <1>13, <1>a DEF TakeSlot, Goto, body, waiting, round, family, chans, stall
<1>14. CASE StartThread(t)
  BY <1>14, <1>a DEF StartThread, Set, body, waiting, round, family, chans, stall
<1>15. CASE Book(t)
  BY <1>15, <1>a DEF Book, Step, Goto, Set, body, waiting, round, family, chans, stall
<1>16. CASE Finish(t)
  BY <1>16, <1>a DEF Finish, Unwind, Goto, Set, body, waiting, round, family, chans, stall
<1>17. ASSUME NEW w \in Workers, PollPending(t, w)
      PROVE  \A u \in Scheds \ {t} : UNCHANGED Own(u)
  BY <1>17, <1>a DEF PollPending, Set, body, waiting, round, family, chans, stall
<1>18. ASSUME NEW w \in Workers, Harvest(t, w)
      PROVE  \A u \in Scheds \ {t} : UNCHANGED Own(u)
  BY <1>18, <1>a DEF Harvest, FinishIsolate, Deregister, Goto, Set, body, waiting, round,
       family, chans, stall
<1>19. ASSUME NEW w \in Workers, HarvestFailed(t, w)
      PROVE  \A u \in Scheds \ {t} : UNCHANGED Own(u)
  BY <1>19, <1>a DEF HarvestFailed, FinishIsolate, Deregister, Unwind, Goto, Set, body,
       waiting, round, family, chans, stall
<1>20. CASE RoundDone(t)
  BY <1>20, <1>a DEF RoundDone, Goto, body, waiting, round, family, chans, stall
<1>21. CASE StallCheck(t)
  BY <1>21, <1>a DEF StallCheck, Unwind, Goto, Set, body, waiting, round, family, chans,
       stall
<1>22. CASE Park(t)
  BY <1>22, <1>a DEF Park, Goto, Set, body, waiting, round, family, chans, stall
<1>23. CASE CountParked(t)
  BY <1>23, <1>a DEF CountParked, Goto, Set, body, waiting, round, family, chans, stall
<1>24. CASE WaitPast(t)
  BY <1>24, <1>a DEF WaitPast, Goto, body, waiting, round, family, chans, stall
<1>25. CASE Confirm(t)
  BY <1>25, <1>a DEF Confirm, Goto, Set, body, waiting, round, family, chans, stall
<1>26. CASE Judge(t)
  BY <1>26, <1>a DEF Judge, Goto, Set, body, waiting, round, family, chans, stall
<1>27. CASE Unpark(t)
  BY <1>27, <1>a DEF Unpark, Goto, Set, body, waiting, round, family, chans, stall
<1>28. CASE Latch(t)
  BY <1>28, <1>a DEF Latch, Unwind, Goto, Set, body, waiting, round, family, chans, stall
<1>29. CASE t \in Workers /\ Report(t)
  BY <1>29, <1>a DEF Report, Goto, Set, body, waiting, round, family, chans, stall
<1>30. CASE t = Root /\ Teardown
  BY <1>30, <1>a DEF Teardown, Deregister, Goto, Set, body, waiting, round, family, chans,
       stall
<1>. QED
  BY <1>1, <1>2, <1>3, <1>4, <1>5, <1>6, <1>7, <1>8, <1>9, <1>10, <1>11, <1>12, <1>13,
       <1>14, <1>15, <1>16, <1>17, <1>18, <1>19, <1>20, <1>21, <1>22, <1>23, <1>24, <1>25,
       <1>26, <1>27, <1>28, <1>29, <1>30, <1>31
     DEF ThreadStep, BodyStep, RoundStep, StallStep

LEMMA OnlyOwnPc ==
  ASSUME IInv, NEW t \in Scheds, ThreadStep(t)
  PROVE  MovesItself(t)
<1>. USE DEF MovesItself, Live
<1>a. pc \in [Scheds -> PCs]
  BY DEF IInv, BaseType
<1>1. CASE Top(t)
  BY <1>1, <1>a DEF Top, Goto, Set, body, waiting, round, family, chans, stall
<1>31. CASE Snapshot(t)
  BY <1>31, <1>a DEF Snapshot, Goto, Set, body, waiting, round, family, chans, stall
<1>2. CASE Enter(t)
  BY <1>2, <1>a DEF Enter, Goto, body, waiting, round, family, chans, stall
<1>3. CASE ObserveCancel(t)
  BY <1>3, <1>a DEF ObserveCancel, Safepoint, Goto, Set, body, waiting, round, family, chans, stall
<1>4. CASE Notify(t)
  BY <1>4, <1>a DEF Notify, Goto, Set, body, waiting, round, family, chans, stall
<1>5. CASE RecvGot(t)
  BY <1>5, <1>a DEF RecvGot, NotifyThen, Goto, Set, Step, At, body, waiting, round, family,
       chans, stall
<1>6. CASE RecvNone(t)
  BY <1>6, <1>a DEF RecvNone, Step, Set, At, body, waiting, round, family, chans, stall
<1>7. CASE RecvPark(t)
  BY <1>7, <1>a DEF RecvPark, Suspend, Goto, Set, At, body, waiting, round, family, chans,
       stall
<1>8. CASE SendCheck(t)
  BY <1>8, <1>a DEF SendCheck, Unwind, Step, Suspend, Goto, Set, At, body, waiting, round,
       family, chans, stall
<1>9. CASE SendPush(t)
  BY <1>9, <1>a DEF SendPush, NotifyThen, Step, Suspend, Goto, Set, body, waiting, round,
       family, chans, stall
<1>10. CASE JoinPoll(t)
  BY <1>10, <1>a DEF JoinPoll, Step, Suspend, Goto, Set, At, body, waiting, round, family,
       chans, stall
<1>11. CASE DoClose(t)
  BY <1>11, <1>a DEF DoClose, Step, NotifyThen, Goto, Set, At, body, waiting, round,
       family, chans, stall
<1>12. CASE DoCancel(t)
  BY <1>12, <1>a DEF DoCancel, Step, Goto, Set, At, body, waiting, round, family, chans,
       stall
<1>13. CASE TakeSlot(t)
  BY <1>13, <1>a DEF TakeSlot, Goto, At, body, waiting, round, family, chans, stall
<1>14. CASE StartThread(t)
  <2>1. Op(t).arg \in Workers /\ pc[Op(t).arg] = "unborn"
    BY <1>14, FreshWorker DEF StartThread
  <2>2. Op(t).arg # t /\ Op(t).arg \in Scheds
    BY <1>14, <2>1 DEF StartThread, Scheds
  <2>. QED  BY <1>14, <1>a, <2>2 DEF StartThread
<1>15. CASE Book(t)
  BY <1>15, <1>a DEF Book, Step, Goto, Set, body, waiting, round, family, chans, stall
<1>16. CASE Finish(t)
  BY <1>16, <1>a DEF Finish, Unwind, Goto, Set, At, body, waiting, round, family, chans,
       stall
<1>17. ASSUME NEW w \in Workers, PollPending(t, w)
      PROVE  MovesItself(t)
  BY <1>17, <1>a DEF PollPending, Set, body, waiting, round, family, chans, stall
<1>18. ASSUME NEW w \in Workers, Harvest(t, w)
      PROVE  MovesItself(t)
  BY <1>18, <1>a DEF Harvest, FinishIsolate, Deregister, Goto, Set, body, waiting, round,
       family, chans, stall
<1>19. ASSUME NEW w \in Workers, HarvestFailed(t, w)
      PROVE  MovesItself(t)
  BY <1>19, <1>a DEF HarvestFailed, FinishIsolate, Deregister, Unwind, Goto, Set, body,
       waiting, round, family, chans, stall
<1>20. CASE RoundDone(t)
  BY <1>20, <1>a DEF RoundDone, Goto, body, waiting, round, family, chans, stall
<1>21. CASE StallCheck(t)
  BY <1>21, <1>a DEF StallCheck, Unwind, Goto, Set, body, waiting, round, family, chans,
       stall
<1>22. CASE Park(t)
  BY <1>22, <1>a DEF Park, Goto, Set, body, waiting, round, family, chans, stall
<1>23. CASE CountParked(t)
  BY <1>23, <1>a DEF CountParked, Goto, Set, body, waiting, round, family, chans, stall
<1>24. CASE WaitPast(t)
  BY <1>24, <1>a DEF WaitPast, Goto, body, waiting, round, family, chans, stall
<1>25. CASE Confirm(t)
  BY <1>25, <1>a DEF Confirm, Goto, Set, body, waiting, round, family, chans, stall
<1>26. CASE Judge(t)
  BY <1>26, <1>a DEF Judge, Goto, Set, body, waiting, round, family, chans, stall
<1>27. CASE Unpark(t)
  BY <1>27, <1>a DEF Unpark, Goto, Set, body, waiting, round, family, chans, stall
<1>28. CASE Latch(t)
  BY <1>28, <1>a DEF Latch, Unwind, Goto, Set, body, waiting, round, family, chans, stall
<1>29. CASE t \in Workers /\ Report(t)
  BY <1>29, <1>a DEF Report, Goto, Set, body, waiting, round, family, chans, stall
<1>30. CASE t = Root /\ Teardown
  BY <1>30, <1>a DEF Teardown, Deregister, Goto, Set, body, waiting, round, family, chans,
       stall
<1>. QED
  BY <1>1, <1>2, <1>3, <1>4, <1>5, <1>6, <1>7, <1>8, <1>9, <1>10, <1>11, <1>12, <1>13,
       <1>14, <1>15, <1>16, <1>17, <1>18, <1>19, <1>20, <1>21, <1>22, <1>23, <1>24, <1>25,
       <1>26, <1>27, <1>28, <1>29, <1>30, <1>31
     DEF ThreadStep, BodyStep, RoundStep, StallStep

LEMMA BodyAtStep ==
  ASSUME IInv, NEW t \in Scheds, ThreadStep(t)
  PROVE  BodyAt(t)'
<1>a. /\ BodyAt(t) /\ prog' = prog /\ Len(prog[t]) \in Nat
      /\ pc \in [Scheds -> PCs] /\ ip \in [Scheds -> Nat]
      /\ after \in [Scheds -> {"poll", "round", "unwind", "ended"}]
  <2>1. prog[t] \in Seq(Ops)
    BY ProgramsAssumption DEF IInv, InBody
  <2>. QED  BY <2>1 DEF IInv, InBody, BaseType, ThreadStep
<1>. USE DEF BodyAt, Op
<1>1. CASE Top(t)
  BY <1>1, <1>a DEF Top, Goto, Set, body, waiting, round, family, chans, stall
<1>31. CASE Snapshot(t)
  BY <1>31, <1>a DEF Snapshot, Goto, Set, body, waiting, round, family, chans, stall
<1>2. CASE Enter(t)
  BY <1>2, <1>a DEF Enter, Goto, body, waiting, round, family, chans, stall
<1>3. CASE ObserveCancel(t)
  BY <1>3, <1>a DEF ObserveCancel, Safepoint, Goto, Set, body, waiting, round, family, chans, stall
<1>4. CASE Notify(t)
  BY <1>4, <1>a DEF Notify, Goto, Set, body, waiting, round, family, chans, stall
<1>5. CASE RecvGot(t)
  BY <1>5, <1>a DEF RecvGot, NotifyThen, Goto, Set, Step, At, body, waiting, round, family,
       chans, stall
<1>6. CASE RecvNone(t)
  BY <1>6, <1>a DEF RecvNone, Step, Set, At, body, waiting, round, family, chans, stall
<1>7. CASE RecvPark(t)
  BY <1>7, <1>a DEF RecvPark, Suspend, Goto, Set, At, body, waiting, round, family, chans,
       stall
<1>8. CASE SendCheck(t)
  BY <1>8, <1>a DEF SendCheck, Unwind, Step, Suspend, Goto, Set, At, body, waiting, round,
       family, chans, stall
<1>9. CASE SendPush(t)
  <2>1. pc[t] = "push" /\ ip[t] \in 1..Len(prog[t])
    BY <1>9, <1>a DEF SendPush
  <2>2. \/ pc'[t] \in {"notify", "round"} /\ ip' = ip
        \/ pc'[t] = "notify" /\ after'[t] = "poll" /\ ip'[t] = ip[t] + 1
    BY <1>9, <1>a DEF SendPush, NotifyThen, Step, Suspend, Goto, Set
  <2>. QED  BY <1>a, <2>1, <2>2
<1>10. CASE JoinPoll(t)
  BY <1>10, <1>a DEF JoinPoll, Step, Suspend, Goto, Set, At, body, waiting, round, family,
       chans, stall
<1>11. CASE DoClose(t)
  BY <1>11, <1>a DEF DoClose, Step, NotifyThen, Goto, Set, At, body, waiting, round,
       family, chans, stall
<1>12. CASE DoCancel(t)
  BY <1>12, <1>a DEF DoCancel, Step, Goto, Set, At, body, waiting, round, family, chans,
       stall
<1>13. CASE TakeSlot(t)
  BY <1>13, <1>a DEF TakeSlot, Goto, At, body, waiting, round, family, chans, stall
<1>14. CASE StartThread(t)
  BY <1>14, <1>a DEF StartThread, Set, body, waiting, round, family, chans, stall
<1>15. CASE Book(t)
  BY <1>15, <1>a DEF Book, Step, Goto, Set, body, waiting, round, family, chans, stall
<1>16. CASE Finish(t)
  BY <1>16, <1>a DEF Finish, Unwind, Goto, Set, At, body, waiting, round, family, chans,
       stall
<1>17. ASSUME NEW w \in Workers, PollPending(t, w)
      PROVE  BodyAt(t)'
  BY <1>17, <1>a DEF PollPending, Set, body, waiting, round, family, chans, stall
<1>18. ASSUME NEW w \in Workers, Harvest(t, w)
      PROVE  BodyAt(t)'
  BY <1>18, <1>a DEF Harvest, FinishIsolate, Deregister, Goto, Set, body, waiting, round,
       family, chans, stall
<1>19. ASSUME NEW w \in Workers, HarvestFailed(t, w)
      PROVE  BodyAt(t)'
  BY <1>19, <1>a DEF HarvestFailed, FinishIsolate, Deregister, Unwind, Goto, Set, body,
       waiting, round, family, chans, stall
<1>20. CASE RoundDone(t)
  BY <1>20, <1>a DEF RoundDone, Goto, body, waiting, round, family, chans, stall
<1>21. CASE StallCheck(t)
  BY <1>21, <1>a DEF StallCheck, Unwind, Goto, Set, body, waiting, round, family, chans,
       stall
<1>22. CASE Park(t)
  BY <1>22, <1>a DEF Park, Goto, Set, body, waiting, round, family, chans, stall
<1>23. CASE CountParked(t)
  BY <1>23, <1>a DEF CountParked, Goto, Set, body, waiting, round, family, chans, stall
<1>24. CASE WaitPast(t)
  BY <1>24, <1>a DEF WaitPast, Goto, body, waiting, round, family, chans, stall
<1>25. CASE Confirm(t)
  BY <1>25, <1>a DEF Confirm, Goto, Set, body, waiting, round, family, chans, stall
<1>26. CASE Judge(t)
  BY <1>26, <1>a DEF Judge, Goto, Set, body, waiting, round, family, chans, stall
<1>27. CASE Unpark(t)
  BY <1>27, <1>a DEF Unpark, Goto, Set, body, waiting, round, family, chans, stall
<1>28. CASE Latch(t)
  BY <1>28, <1>a DEF Latch, Unwind, Goto, Set, body, waiting, round, family, chans, stall
<1>29. CASE t \in Workers /\ Report(t)
  BY <1>29, <1>a DEF Report, Goto, Set, body, waiting, round, family, chans, stall
<1>30. CASE t = Root /\ Teardown
  BY <1>30, <1>a DEF Teardown, Deregister, Goto, Set, body, waiting, round, family, chans,
       stall
<1>. QED
  BY <1>1, <1>2, <1>3, <1>4, <1>5, <1>6, <1>7, <1>8, <1>9, <1>10, <1>11, <1>12, <1>13,
       <1>14, <1>15, <1>16, <1>17, <1>18, <1>19, <1>20, <1>21, <1>22, <1>23, <1>24, <1>25,
       <1>26, <1>27, <1>28, <1>29, <1>30, <1>31
     DEF ThreadStep, BodyStep, RoundStep, StallStep

LEMMA InBodyStep ==
  ASSUME IInv, NEW t \in Scheds, ThreadStep(t)
  PROVE  InBody'
<1>1. prog' = prog /\ InBody
  BY DEF IInv, ThreadStep
<1>2. ASSUME NEW u \in Scheds \ {t}
      PROVE  BodyAt(u)'
  <2>1. ip'[u] = ip[u] /\ after'[u] = after[u] /\ BodyAt(u)
    BY <1>1, OthersKept DEF Own, InBody
  <2>2. pc'[u] = pc[u] \/ pc'[u] = "top"
    BY OnlyOwnPc DEF MovesItself
  <2>. QED  BY <1>1, <2>1, <2>2 DEF BodyAt, Op
<1>. QED  BY <1>1, <1>2, BodyAtStep DEF InBody
--------------------------------------------------------------------------------
(* Fates and reports.                                                      *)

\* A thread's fate is set when its body starts to unwind, and kept.
LEMMA FateOfStep ==
  ASSUME IInv, NEW t \in Scheds, ThreadStep(t)
  PROVE  FateOf(t)'
<1>a. /\ FateOf(t) /\ BodyAt(t) /\ prog' = prog /\ Len(prog[t]) \in Nat
      /\ pc \in [Scheds -> PCs] /\ ip \in [Scheds -> Nat]
      /\ after \in [Scheds -> {"poll", "round", "unwind", "ended"}]
      /\ fate \in [Scheds -> {"none", "done", "failed", "cancelled", "alone", "deadlock"}]
  <2>1. prog[t] \in Seq(Ops)
    BY ProgramsAssumption DEF IInv, InBody
  <2>. QED  BY <2>1 DEF IInv, InBody, Fates, BaseType, ThreadStep
<1>. USE DEF FateOf, Leaving
<1>1. CASE Top(t)
  BY <1>1, <1>a DEF Top, Goto, Set, body, waiting, round, family, chans, stall
<1>31. CASE Snapshot(t)
  BY <1>31, <1>a DEF Snapshot, Goto, Set, body, waiting, round, family, chans, stall
<1>2. CASE Enter(t)
  BY <1>2, <1>a DEF Enter, Goto, body, waiting, round, family, chans, stall
<1>3. CASE ObserveCancel(t)
  BY <1>3, <1>a DEF ObserveCancel, Safepoint, Goto, Set, body, waiting, round, family, chans, stall
<1>4. CASE Notify(t)
  BY <1>4, <1>a DEF Notify, Goto, Set, body, waiting, round, family, chans, stall
<1>5. CASE RecvGot(t)
  BY <1>5, <1>a DEF RecvGot, NotifyThen, Goto, Set, Step, At, body, waiting, round, family,
       chans, stall
<1>6. CASE RecvNone(t)
  BY <1>6, <1>a DEF RecvNone, Step, Set, At, body, waiting, round, family, chans, stall
<1>7. CASE RecvPark(t)
  BY <1>7, <1>a DEF RecvPark, Suspend, Goto, Set, At, body, waiting, round, family, chans,
       stall
<1>8. CASE SendCheck(t)
  BY <1>8, <1>a DEF SendCheck, Unwind, Step, Suspend, Goto, Set, At, body, waiting, round,
       family, chans, stall
<1>9. CASE SendPush(t)
  BY <1>9, <1>a DEF SendPush, NotifyThen, Step, Suspend, Goto, Set, body, waiting, round,
       family, chans, stall
<1>10. CASE JoinPoll(t)
  BY <1>10, <1>a DEF JoinPoll, Step, Suspend, Goto, Set, At, body, waiting, round, family,
       chans, stall
<1>11. CASE DoClose(t)
  BY <1>11, <1>a DEF DoClose, Step, NotifyThen, Goto, Set, At, body, waiting, round,
       family, chans, stall
<1>12. CASE DoCancel(t)
  BY <1>12, <1>a DEF DoCancel, Step, Goto, Set, At, body, waiting, round, family, chans,
       stall
<1>13. CASE TakeSlot(t)
  BY <1>13, <1>a DEF TakeSlot, Goto, At, body, waiting, round, family, chans, stall
<1>14. CASE StartThread(t)
  BY <1>14, <1>a DEF StartThread, Set, body, waiting, round, family, chans, stall
<1>15. CASE Book(t)
  BY <1>15, <1>a DEF Book, Step, Goto, Set, body, waiting, round, family, chans, stall
<1>16. CASE Finish(t)
  BY <1>16, <1>a DEF Finish, Unwind, Goto, Set, BodyAt, body, waiting, round, family,
       chans, stall
<1>17. ASSUME NEW w \in Workers, PollPending(t, w)
      PROVE  FateOf(t)'
  BY <1>17, <1>a DEF PollPending, Set, body, waiting, round, family, chans, stall
<1>18. ASSUME NEW w \in Workers, Harvest(t, w)
      PROVE  FateOf(t)'
  BY <1>18, <1>a DEF Harvest, FinishIsolate, Deregister, Goto, Set, body, waiting, round,
       family, chans, stall
<1>19. ASSUME NEW w \in Workers, HarvestFailed(t, w)
      PROVE  FateOf(t)'
  BY <1>19, <1>a DEF HarvestFailed, FinishIsolate, Deregister, Unwind, Goto, Set, body,
       waiting, round, family, chans, stall
<1>20. CASE RoundDone(t)
  BY <1>20, <1>a DEF RoundDone, Goto, body, waiting, round, family, chans, stall
<1>21. CASE StallCheck(t)
  BY <1>21, <1>a DEF StallCheck, Unwind, Goto, Set, body, waiting, round, family, chans,
       stall
<1>22. CASE Park(t)
  BY <1>22, <1>a DEF Park, Goto, Set, body, waiting, round, family, chans, stall
<1>23. CASE CountParked(t)
  BY <1>23, <1>a DEF CountParked, Goto, Set, body, waiting, round, family, chans, stall
<1>24. CASE WaitPast(t)
  BY <1>24, <1>a DEF WaitPast, Goto, body, waiting, round, family, chans, stall
<1>25. CASE Confirm(t)
  BY <1>25, <1>a DEF Confirm, Goto, Set, body, waiting, round, family, chans, stall
<1>26. CASE Judge(t)
  BY <1>26, <1>a DEF Judge, Goto, Set, body, waiting, round, family, chans, stall
<1>27. CASE Unpark(t)
  BY <1>27, <1>a DEF Unpark, Goto, Set, body, waiting, round, family, chans, stall
<1>28. CASE Latch(t)
  BY <1>28, <1>a DEF Latch, Unwind, Goto, Set, body, waiting, round, family, chans, stall
<1>29. CASE t \in Workers /\ Report(t)
  BY <1>29, <1>a DEF Report, Goto, Set, body, waiting, round, family, chans, stall
<1>30. CASE t = Root /\ Teardown
  BY <1>30, <1>a DEF Teardown, Deregister, Goto, Set, body, waiting, round, family, chans,
       stall
<1>. QED
  BY <1>1, <1>2, <1>3, <1>4, <1>5, <1>6, <1>7, <1>8, <1>9, <1>10, <1>11, <1>12, <1>13,
       <1>14, <1>15, <1>16, <1>17, <1>18, <1>19, <1>20, <1>21, <1>22, <1>23, <1>24, <1>25,
       <1>26, <1>27, <1>28, <1>29, <1>30, <1>31
     DEF ThreadStep, BodyStep, RoundStep, StallStep

\* A report is sent by a worker that unwinds; a task ends when its parent
\* harvests a report.
Answers(t) ==
  /\ UNCHANGED report \/ (t \in Workers /\ Report(t))
  /\ \/ UNCHANGED task
     \/ /\ \E w \in todo[t] : /\ report[w] \in {"done", "cancelled"}
                              /\ task' = [task EXCEPT ![w] = Terminal(report[w])]
                              /\ todo' = [todo EXCEPT ![t] = todo[t] \ {w}]
                              /\ pc[t] = "round"
        /\ UNCHANGED <<report, fate, kids, ip>>

LEMMA AnswersStep ==
  ASSUME IInv, NEW t \in Scheds, ThreadStep(t)
  PROVE  Answers(t)
<1>. USE DEF Answers
<1>1. CASE Top(t)
  BY <1>1 DEF Top, Goto, Set, body, waiting, round, family, chans, stall
<1>31. CASE Snapshot(t)
  BY <1>31 DEF Snapshot, Goto, Set, body, waiting, round, family, chans, stall
<1>2. CASE Enter(t)
  BY <1>2 DEF Enter, Goto, body, waiting, round, family, chans, stall
<1>3. CASE ObserveCancel(t)
  BY <1>3 DEF ObserveCancel, Safepoint, Goto, Set, body, waiting, round, family, chans, stall
<1>4. CASE Notify(t)
  BY <1>4 DEF Notify, Goto, Set, body, waiting, round, family, chans, stall
<1>5. CASE RecvGot(t)
  BY <1>5 DEF RecvGot, NotifyThen, Goto, Set, Step, body, waiting, round, family, chans,
       stall
<1>6. CASE RecvNone(t)
  BY <1>6 DEF RecvNone, Step, Set, body, waiting, round, family, chans, stall
<1>7. CASE RecvPark(t)
  BY <1>7 DEF RecvPark, Suspend, Goto, Set, body, waiting, round, family, chans, stall
<1>8. CASE SendCheck(t)
  BY <1>8 DEF SendCheck, Unwind, Step, Suspend, Goto, Set, body, waiting, round, family,
       chans, stall
<1>9. CASE SendPush(t)
  BY <1>9 DEF SendPush, NotifyThen, Step, Suspend, Goto, Set, body, waiting, round, family,
       chans, stall
<1>10. CASE JoinPoll(t)
  BY <1>10 DEF JoinPoll, Step, Suspend, Goto, Set, body, waiting, round, family, chans,
       stall
<1>11. CASE DoClose(t)
  BY <1>11 DEF DoClose, Step, NotifyThen, Goto, Set, body, waiting, round, family, chans,
       stall
<1>12. CASE DoCancel(t)
  BY <1>12 DEF DoCancel, Step, Goto, Set, body, waiting, round, family, chans, stall
<1>13. CASE TakeSlot(t)
  BY <1>13 DEF TakeSlot, Goto, body, waiting, round, family, chans, stall
<1>14. CASE StartThread(t)
  BY <1>14 DEF StartThread, Set, body, waiting, round, family, chans, stall
<1>15. CASE Book(t)
  BY <1>15 DEF Book, Step, Goto, Set, body, waiting, round, family, chans, stall
<1>16. CASE Finish(t)
  BY <1>16 DEF Finish, Unwind, Goto, Set, body, waiting, round, family, chans, stall
<1>17. ASSUME NEW w \in Workers, PollPending(t, w)
      PROVE  Answers(t)
  BY <1>17 DEF PollPending, Set, body, waiting, round, family, chans, stall
<1>18. ASSUME NEW w \in Workers, Harvest(t, w)
      PROVE  Answers(t)
  BY <1>18 DEF Harvest, FinishIsolate, Deregister, Goto, Set, body, waiting, round, family,
       chans, stall
<1>19. ASSUME NEW w \in Workers, HarvestFailed(t, w)
      PROVE  Answers(t)
  BY <1>19 DEF HarvestFailed, FinishIsolate, Deregister, Unwind, Goto, Set, body, waiting,
       round, family, chans, stall
<1>20. CASE RoundDone(t)
  BY <1>20 DEF RoundDone, Goto, body, waiting, round, family, chans, stall
<1>21. CASE StallCheck(t)
  BY <1>21 DEF StallCheck, Unwind, Goto, Set, body, waiting, round, family, chans, stall
<1>22. CASE Park(t)
  BY <1>22 DEF Park, Goto, Set, body, waiting, round, family, chans, stall
<1>23. CASE CountParked(t)
  BY <1>23 DEF CountParked, Goto, Set, body, waiting, round, family, chans, stall
<1>24. CASE WaitPast(t)
  BY <1>24 DEF WaitPast, Goto, body, waiting, round, family, chans, stall
<1>25. CASE Confirm(t)
  BY <1>25 DEF Confirm, Goto, Set, body, waiting, round, family, chans, stall
<1>26. CASE Judge(t)
  BY <1>26 DEF Judge, Goto, Set, body, waiting, round, family, chans, stall
<1>27. CASE Unpark(t)
  BY <1>27 DEF Unpark, Goto, Set, body, waiting, round, family, chans, stall
<1>28. CASE Latch(t)
  BY <1>28 DEF Latch, Unwind, Goto, Set, body, waiting, round, family, chans, stall
<1>29. CASE t \in Workers /\ Report(t)
  BY <1>29 DEF Report, Goto, Set, body, waiting, round, family, chans, stall
<1>30. CASE t = Root /\ Teardown
  BY <1>30 DEF Teardown, Deregister, Goto, Set, body, waiting, round, family, chans, stall
<1>. QED
  BY <1>1, <1>2, <1>3, <1>4, <1>5, <1>6, <1>7, <1>8, <1>9, <1>10, <1>11, <1>12, <1>13,
       <1>14, <1>15, <1>16, <1>17, <1>18, <1>19, <1>20, <1>21, <1>22, <1>23, <1>24, <1>25,
       <1>26, <1>27, <1>28, <1>29, <1>30, <1>31
     DEF ThreadStep, BodyStep, RoundStep, StallStep

LEMMA ReportOfStep ==
  ASSUME IInv, NEW t \in Scheds, t \in Workers, ThreadStep(t)
  PROVE  ReportOf(t)'
<1>a. /\ ReportOf(t) /\ FateOf(t)
      /\ pc \in [Scheds -> PCs]
      /\ after \in [Scheds -> {"poll", "round", "unwind", "ended"}]
      /\ fate \in [Scheds -> {"none", "done", "failed", "cancelled", "alone", "deadlock"}]
      /\ report \in [Workers -> {"none", "done", "cancelled", "failed"}]
      /\ task \in [Workers -> {"live", "result", "cancelled"}]
  BY DEF IInv, Fates, BaseType
<1>. USE DEF ReportOf, Reported
<1>1. CASE Top(t)
  BY <1>1, <1>a DEF Top, Goto, Set, body, waiting, round, family, chans, stall
<1>31. CASE Snapshot(t)
  BY <1>31, <1>a DEF Snapshot, Goto, Set, body, waiting, round, family, chans, stall
<1>2. CASE Enter(t)
  BY <1>2, <1>a DEF Enter, Goto, body, waiting, round, family, chans, stall
<1>3. CASE ObserveCancel(t)
  BY <1>3, <1>a DEF ObserveCancel, Safepoint, Goto, Set, body, waiting, round, family, chans, stall
<1>4. CASE Notify(t)
  BY <1>4, <1>a DEF Notify, Goto, Set, body, waiting, round, family, chans, stall
<1>5. CASE RecvGot(t)
  BY <1>5, <1>a DEF RecvGot, NotifyThen, Goto, Set, Step, At, body, waiting, round, family,
       chans, stall
<1>6. CASE RecvNone(t)
  BY <1>6, <1>a DEF RecvNone, Step, Set, At, body, waiting, round, family, chans, stall
<1>7. CASE RecvPark(t)
  BY <1>7, <1>a DEF RecvPark, Suspend, Goto, Set, At, body, waiting, round, family, chans,
       stall
<1>8. CASE SendCheck(t)
  BY <1>8, <1>a DEF SendCheck, Unwind, Step, Suspend, Goto, Set, At, body, waiting, round,
       family, chans, stall
<1>9. CASE SendPush(t)
  BY <1>9, <1>a DEF SendPush, NotifyThen, Step, Suspend, Goto, Set, body, waiting, round,
       family, chans, stall
<1>10. CASE JoinPoll(t)
  BY <1>10, <1>a DEF JoinPoll, Step, Suspend, Goto, Set, At, body, waiting, round, family,
       chans, stall
<1>11. CASE DoClose(t)
  BY <1>11, <1>a DEF DoClose, Step, NotifyThen, Goto, Set, At, body, waiting, round,
       family, chans, stall
<1>12. CASE DoCancel(t)
  BY <1>12, <1>a DEF DoCancel, Step, Goto, Set, At, body, waiting, round, family, chans,
       stall
<1>13. CASE TakeSlot(t)
  BY <1>13, <1>a DEF TakeSlot, Goto, At, body, waiting, round, family, chans, stall
<1>14. CASE StartThread(t)
  BY <1>14, <1>a DEF StartThread, Set, body, waiting, round, family, chans, stall
<1>15. CASE Book(t)
  BY <1>15, <1>a DEF Book, Step, Goto, Set, body, waiting, round, family, chans, stall
<1>16. CASE Finish(t)
  BY <1>16, <1>a DEF Finish, Unwind, Goto, Set, At, body, waiting, round, family, chans,
       stall
<1>17. ASSUME NEW w \in Workers, PollPending(t, w)
      PROVE  ReportOf(t)'
  BY <1>17, <1>a DEF PollPending, Set, body, waiting, round, family, chans, stall
<1>18. ASSUME NEW w \in Workers, Harvest(t, w)
      PROVE  ReportOf(t)'
  <2>1. report[t] = "none" /\ report' = report
    BY <1>18, <1>a DEF Harvest, FinishIsolate
  <2>2. w # t
    BY <1>18, <2>1 DEF Harvest
  <2>. QED  BY <1>18, <1>a, <2>1, <2>2 DEF Harvest, FinishIsolate, Goto, Set, body
<1>19. ASSUME NEW w \in Workers, HarvestFailed(t, w)
      PROVE  ReportOf(t)'
  BY <1>19, <1>a DEF HarvestFailed, FinishIsolate, Deregister, Unwind, Goto, Set, body,
       waiting, round, family, chans, stall
<1>20. CASE RoundDone(t)
  BY <1>20, <1>a DEF RoundDone, Goto, body, waiting, round, family, chans, stall
<1>21. CASE StallCheck(t)
  BY <1>21, <1>a DEF StallCheck, Unwind, Goto, Set, body, waiting, round, family, chans,
       stall
<1>22. CASE Park(t)
  BY <1>22, <1>a DEF Park, Goto, Set, body, waiting, round, family, chans, stall
<1>23. CASE CountParked(t)
  BY <1>23, <1>a DEF CountParked, Goto, Set, body, waiting, round, family, chans, stall
<1>24. CASE WaitPast(t)
  BY <1>24, <1>a DEF WaitPast, Goto, body, waiting, round, family, chans, stall
<1>25. CASE Confirm(t)
  BY <1>25, <1>a DEF Confirm, Goto, Set, body, waiting, round, family, chans, stall
<1>26. CASE Judge(t)
  BY <1>26, <1>a DEF Judge, Goto, Set, body, waiting, round, family, chans, stall
<1>27. CASE Unpark(t)
  BY <1>27, <1>a DEF Unpark, Goto, Set, body, waiting, round, family, chans, stall
<1>28. CASE Latch(t)
  BY <1>28, <1>a DEF Latch, Unwind, Goto, Set, body, waiting, round, family, chans, stall
<1>29. CASE t \in Workers /\ Report(t)
  BY <1>29, <1>a DEF Report, Goto, Set, FateOf, Leaving, body, waiting, round, family,
       chans, stall
<1>30. CASE t = Root /\ Teardown
  BY <1>30, ThreadsAssumption
<1>. QED
  BY <1>1, <1>2, <1>3, <1>4, <1>5, <1>6, <1>7, <1>8, <1>9, <1>10, <1>11, <1>12, <1>13,
       <1>14, <1>15, <1>16, <1>17, <1>18, <1>19, <1>20, <1>21, <1>22, <1>23, <1>24, <1>25,
       <1>26, <1>27, <1>28, <1>29, <1>30, <1>31
     DEF ThreadStep, BodyStep, RoundStep, StallStep

LEMMA AfterRoot ==
  ASSUME IInv, NEW t \in Scheds, t = Root, ThreadStep(t)
  PROVE  after'[t] # "ended"
<1>a. t \notin Workers /\ after[t] # "ended"
  BY ThreadsAssumption DEF IInv, Fates
<1>b. after \in [Scheds -> {"poll", "round", "unwind", "ended"}]
  BY DEF IInv, BaseType
<1>1. CASE Top(t)
  BY <1>1, <1>a, <1>b DEF Top, Goto, Set, body, waiting, round, family, chans, stall
<1>31. CASE Snapshot(t)
  BY <1>31, <1>a, <1>b DEF Snapshot, Goto, Set, body, waiting, round, family, chans, stall
<1>2. CASE Enter(t)
  BY <1>2, <1>a, <1>b DEF Enter, Goto, body, waiting, round, family, chans, stall
<1>3. CASE ObserveCancel(t)
  BY <1>3, <1>a, <1>b DEF ObserveCancel, Safepoint, Goto, Set, body, waiting, round, family, chans,
       stall
<1>4. CASE Notify(t)
  BY <1>4, <1>a, <1>b DEF Notify, Goto, Set, body, waiting, round, family, chans, stall
<1>5. CASE RecvGot(t)
  BY <1>5, <1>a, <1>b DEF RecvGot, NotifyThen, Goto, Set, Step, body, waiting, round,
       family, chans, stall
<1>6. CASE RecvNone(t)
  BY <1>6, <1>a, <1>b DEF RecvNone, Step, Set, body, waiting, round, family, chans, stall
<1>7. CASE RecvPark(t)
  BY <1>7, <1>a, <1>b DEF RecvPark, Suspend, Goto, Set, body, waiting, round, family,
       chans, stall
<1>8. CASE SendCheck(t)
  BY <1>8, <1>a, <1>b DEF SendCheck, Unwind, Step, Suspend, Goto, Set, body, waiting,
       round, family, chans, stall
<1>9. CASE SendPush(t)
  BY <1>9, <1>a, <1>b DEF SendPush, NotifyThen, Step, Suspend, Goto, Set, body, waiting,
       round, family, chans, stall
<1>10. CASE JoinPoll(t)
  BY <1>10, <1>a, <1>b DEF JoinPoll, Step, Suspend, Goto, Set, body, waiting, round,
       family, chans, stall
<1>11. CASE DoClose(t)
  BY <1>11, <1>a, <1>b DEF DoClose, Step, NotifyThen, Goto, Set, body, waiting, round,
       family, chans, stall
<1>12. CASE DoCancel(t)
  BY <1>12, <1>a, <1>b DEF DoCancel, Step, Goto, Set, body, waiting, round, family, chans,
       stall
<1>13. CASE TakeSlot(t)
  BY <1>13, <1>a, <1>b DEF TakeSlot, Goto, body, waiting, round, family, chans, stall
<1>14. CASE StartThread(t)
  BY <1>14, <1>a, <1>b DEF StartThread, Set, body, waiting, round, family, chans, stall
<1>15. CASE Book(t)
  BY <1>15, <1>a, <1>b DEF Book, Step, Goto, Set, body, waiting, round, family, chans, stall
<1>16. CASE Finish(t)
  BY <1>16, <1>a, <1>b DEF Finish, Unwind, Goto, Set, body, waiting, round, family, chans,
       stall
<1>17. ASSUME NEW w \in Workers, PollPending(t, w)
      PROVE  after'[t] # "ended"
  BY <1>17, <1>a, <1>b DEF PollPending, Set, body, waiting, round, family, chans, stall
<1>18. ASSUME NEW w \in Workers, Harvest(t, w)
      PROVE  after'[t] # "ended"
  BY <1>18, <1>a, <1>b DEF Harvest, FinishIsolate, Deregister, Goto, Set, body, waiting,
       round, family, chans, stall
<1>19. ASSUME NEW w \in Workers, HarvestFailed(t, w)
      PROVE  after'[t] # "ended"
  BY <1>19, <1>a, <1>b DEF HarvestFailed, FinishIsolate, Deregister, Unwind, Goto, Set,
       body, waiting, round, family, chans, stall
<1>20. CASE RoundDone(t)
  BY <1>20, <1>a, <1>b DEF RoundDone, Goto, body, waiting, round, family, chans, stall
<1>21. CASE StallCheck(t)
  BY <1>21, <1>a, <1>b DEF StallCheck, Unwind, Goto, Set, body, waiting, round, family,
       chans, stall
<1>22. CASE Park(t)
  BY <1>22, <1>a, <1>b DEF Park, Goto, Set, body, waiting, round, family, chans, stall
<1>23. CASE CountParked(t)
  BY <1>23, <1>a, <1>b DEF CountParked, Goto, Set, body, waiting, round, family, chans,
       stall
<1>24. CASE WaitPast(t)
  BY <1>24, <1>a, <1>b DEF WaitPast, Goto, body, waiting, round, family, chans, stall
<1>25. CASE Confirm(t)
  BY <1>25, <1>a, <1>b DEF Confirm, Goto, Set, body, waiting, round, family, chans, stall
<1>26. CASE Judge(t)
  BY <1>26, <1>a, <1>b DEF Judge, Goto, Set, body, waiting, round, family, chans, stall
<1>27. CASE Unpark(t)
  BY <1>27, <1>a, <1>b DEF Unpark, Goto, Set, body, waiting, round, family, chans, stall
<1>28. CASE Latch(t)
  BY <1>28, <1>a, <1>b DEF Latch, Unwind, Goto, Set, body, waiting, round, family, chans,
       stall
<1>29. CASE t \in Workers /\ Report(t)
  BY <1>29, <1>a, <1>b DEF Report, Goto, Set, body, waiting, round, family, chans, stall
<1>30. CASE t = Root /\ Teardown
  BY <1>30, <1>a, <1>b DEF Teardown, Deregister, Goto, Set, body, waiting, round, family,
       chans, stall
<1>. QED
  BY <1>1, <1>2, <1>3, <1>4, <1>5, <1>6, <1>7, <1>8, <1>9, <1>10, <1>11, <1>12, <1>13,
       <1>14, <1>15, <1>16, <1>17, <1>18, <1>19, <1>20, <1>21, <1>22, <1>23, <1>24, <1>25,
       <1>26, <1>27, <1>28, <1>29, <1>30, <1>31
     DEF ThreadStep, BodyStep, RoundStep, StallStep

LEMMA FatesStep ==
  ASSUME IInv, NEW t \in Scheds, ThreadStep(t)
  PROVE  Fates'
<1>. USE DEF Fates
<1>1. prog' = prog /\ Fates /\ Answers(t)
  BY AnswersStep DEF IInv, ThreadStep
<1>2. ASSUME NEW u \in Scheds \ {t}
      PROVE  /\ UNCHANGED <<ip[u], after[u], fate[u]>>
             /\ pc'[u] = pc[u] \/ (pc[u] = "unborn" /\ pc'[u] = "top")
  BY OthersKept, OnlyOwnPc, FreshWorker DEF Own, MovesItself
<1>3. ASSUME NEW u \in Scheds \ {t}
      PROVE  FateOf(u)'
  <2>1. FateOf(u)
    BY <1>1
  <2>. QED  BY <1>1, <1>2, <1>3, <2>1 DEF FateOf, Leaving
<1>4. ASSUME NEW w \in Workers \ {t}
      PROVE  ReportOf(w)'
  <2>1. ReportOf(w) /\ w \in Scheds \ {t}
    BY <1>1 DEF Scheds
  <2>2. report'[w] = report[w]
    <3>1. report \in [Workers -> {"none", "done", "cancelled", "failed"}]
      BY DEF IInv, BaseType
    <3>. QED  BY <1>1, <3>1 DEF Answers, Report
  <2>3. Reported(w)' <=> Reported(w)
    BY <1>2, <2>1 DEF Reported
  <2>4. task'[w] = task[w] \/ (report[w] \in {"done", "cancelled"} /\ task'[w] = Terminal(report[w]))
    <3>1. task \in [Workers -> {"live", "result", "cancelled"}]
      BY DEF IInv, BaseType
    <3>. QED  BY <1>1, <3>1 DEF Answers
  <2>. QED  BY <1>2, <2>1, <2>2, <2>3, <2>4 DEF ReportOf
<1>5. after'[Root] # "ended"
  <2>1. CASE t # Root
    BY <1>1, <1>2, <2>1 DEF Scheds
  <2>2. CASE t = Root
    BY <1>1, <2>2, AfterRoot
  <2>. QED  BY <2>1, <2>2
<1>6. FateOf(t)' /\ (t \in Workers => ReportOf(t)')
  BY FateOfStep, ReportOfStep
<1>. QED  BY <1>3, <1>4, <1>5, <1>6
--------------------------------------------------------------------------------
(* Parents and their workers.                                              *)

\* A step that neither starts, books, harvests nor joins a worker.
Plain(t) ==
  /\ pc[t] \notin {"start", "book"} /\ pc'[t] \notin {"unborn", "start", "book"}
  /\ pc'[t] = "ended" => t # Root
  /\ fate'[t] = "none" => fate[t] = "none"
  /\ UNCHANGED <<kids, inflight, slots, task, producers, active>>
Kinds(t) ==
  \/ Plain(t) \/ TakeSlot(t) \/ StartThread(t) \/ Book(t)
  \/ \E w \in Workers : Harvest(t, w) \/ HarvestFailed(t, w)
  \/ t = Root /\ Teardown

LEMMA KindsStep ==
  ASSUME IInv, NEW t \in Scheds, ThreadStep(t)
  PROVE  Kinds(t)
<1>a. /\ pc \in [Scheds -> PCs]
      /\ fate \in [Scheds -> {"none", "done", "failed", "cancelled", "alone", "deadlock"}]
      /\ after \in [Scheds -> {"poll", "round", "unwind", "ended"}]
      /\ FateOf(t)
  BY DEF IInv, BaseType, Fates
<1>. USE DEF Kinds, Plain
<1>1. CASE Top(t)
  BY <1>1, <1>a DEF Top, Goto, Set, body, waiting, round, family, chans, stall
<1>31. CASE Snapshot(t)
  BY <1>31, <1>a DEF Snapshot, Goto, Set, body, waiting, round, family, chans, stall
<1>2. CASE Enter(t)
  BY <1>2, <1>a DEF Enter, Goto, body, waiting, round, family, chans, stall
<1>3. CASE ObserveCancel(t)
  BY <1>3, <1>a DEF ObserveCancel, Safepoint, Goto, Set, body, waiting, round, family, chans, stall
<1>4. CASE Notify(t)
  <2>1. t = Root => after[t] # "ended"
    BY DEF IInv, Fates
  <2>. QED  BY <1>4, <1>a, <2>1 DEF Notify, Goto, Set, body, family, chans, stall
<1>5. CASE RecvGot(t)
  BY <1>5, <1>a DEF RecvGot, NotifyThen, Goto, Set, Step, At, body, waiting, round, family,
       chans, stall
<1>6. CASE RecvNone(t)
  BY <1>6, <1>a DEF RecvNone, Step, Set, At, body, waiting, round, family, chans, stall
<1>7. CASE RecvPark(t)
  BY <1>7, <1>a DEF RecvPark, Suspend, Goto, Set, At, body, waiting, round, family, chans,
       stall
<1>8. CASE SendCheck(t)
  BY <1>8, <1>a DEF SendCheck, Unwind, Step, Suspend, Goto, Set, At, body, waiting, round,
       family, chans, stall
<1>9. CASE SendPush(t)
  BY <1>9, <1>a DEF SendPush, NotifyThen, Step, Suspend, Goto, Set, body, waiting, round,
       family, chans, stall
<1>10. CASE JoinPoll(t)
  BY <1>10, <1>a DEF JoinPoll, Step, Suspend, Goto, Set, At, body, waiting, round, family,
       chans, stall
<1>11. CASE DoClose(t)
  BY <1>11, <1>a DEF DoClose, Step, NotifyThen, Goto, Set, At, body, waiting, round,
       family, chans, stall
<1>12. CASE DoCancel(t)
  BY <1>12, <1>a DEF DoCancel, Step, Goto, Set, At, body, waiting, round, family, chans,
       stall
<1>13. CASE TakeSlot(t)
  BY <1>13
<1>14. CASE StartThread(t)
  BY <1>14
<1>15. CASE Book(t)
  BY <1>15
<1>16. CASE Finish(t)
  BY <1>16, <1>a DEF Finish, Unwind, Goto, Set, At, body, waiting, round, family, chans,
       stall
<1>17. ASSUME NEW w \in Workers, PollPending(t, w)
      PROVE  Kinds(t)
  BY <1>17, <1>a DEF PollPending, Set, body, waiting, round, family, chans, stall
<1>18. ASSUME NEW w \in Workers, Harvest(t, w)
      PROVE  Kinds(t)
  BY <1>18
<1>19. ASSUME NEW w \in Workers, HarvestFailed(t, w)
      PROVE  Kinds(t)
  BY <1>19
<1>20. CASE RoundDone(t)
  BY <1>20, <1>a DEF RoundDone, Goto, body, waiting, round, family, chans, stall
<1>21. CASE StallCheck(t)
  BY <1>21, <1>a DEF StallCheck, Unwind, Goto, Set, body, waiting, round, family, chans,
       stall
<1>22. CASE Park(t)
  BY <1>22, <1>a DEF Park, Goto, Set, body, waiting, round, family, chans, stall
<1>23. CASE CountParked(t)
  BY <1>23, <1>a DEF CountParked, Goto, Set, body, waiting, round, family, chans, stall
<1>24. CASE WaitPast(t)
  BY <1>24, <1>a DEF WaitPast, Goto, body, waiting, round, family, chans, stall
<1>25. CASE Confirm(t)
  BY <1>25, <1>a DEF Confirm, Goto, Set, body, waiting, round, family, chans, stall
<1>26. CASE Judge(t)
  BY <1>26, <1>a DEF Judge, Goto, Set, body, waiting, round, family, chans, stall
<1>27. CASE Unpark(t)
  BY <1>27, <1>a DEF Unpark, Goto, Set, body, waiting, round, family, chans, stall
<1>28. CASE Latch(t)
  BY <1>28, <1>a DEF Latch, Unwind, Goto, Set, body, waiting, round, family, chans, stall
<1>29. CASE t \in Workers /\ Report(t)
  BY <1>29, <1>a, ThreadsAssumption DEF Report, Goto, Set, body, chans, stall, FateOf,
       Leaving
<1>30. CASE t = Root /\ Teardown
  BY <1>30
<1>. QED
  BY <1>1, <1>2, <1>3, <1>4, <1>5, <1>6, <1>7, <1>8, <1>9, <1>10, <1>11, <1>12, <1>13,
       <1>14, <1>15, <1>16, <1>17, <1>18, <1>19, <1>20, <1>21, <1>22, <1>23, <1>24, <1>25,
       <1>26, <1>27, <1>28, <1>29, <1>30, <1>31
     DEF ThreadStep, BodyStep, RoundStep, StallStep

\* A round polls live tasks only: what is still to be polled has not ended.
LEMMA TodoStep ==
  ASSUME IInv, NEW t \in Scheds, ThreadStep(t)
  PROVE  todo'[t] \subseteq {v \in kids[t] : task'[v] = "live"}
<1>a. /\ todo \in [Scheds -> SUBSET Workers] /\ kids \in [Scheds -> SUBSET Workers]
      /\ task \in [Workers -> {"live", "result", "cancelled"}]
      /\ todo[t] \subseteq {w \in kids[t] : task[w] = "live"}
  BY DEF IInv, BaseType, Parentage
<1>1. CASE Top(t)
  BY <1>1, <1>a DEF Top, Goto, Set, body, waiting, round, family, chans, stall
<1>31. CASE Snapshot(t)
  BY <1>31, <1>a DEF Snapshot, Goto, Set, body, waiting, round, family, chans, stall
<1>2. CASE Enter(t)
  BY <1>2, <1>a DEF Enter, Goto, body, waiting, round, family, chans, stall
<1>3. CASE ObserveCancel(t)
  BY <1>3, <1>a DEF ObserveCancel, Safepoint, Goto, Set, body, waiting, round, family, chans, stall
<1>4. CASE Notify(t)
  BY <1>4, <1>a DEF Notify, Goto, Set, body, waiting, round, family, chans, stall
<1>5. CASE RecvGot(t)
  BY <1>5, <1>a DEF RecvGot, NotifyThen, Goto, Set, Step, body, waiting, round, family,
       chans, stall
<1>6. CASE RecvNone(t)
  BY <1>6, <1>a DEF RecvNone, Step, Set, body, waiting, round, family, chans, stall
<1>7. CASE RecvPark(t)
  BY <1>7, <1>a DEF RecvPark, Suspend, Goto, Set, body, waiting, round, family, chans, stall
<1>8. CASE SendCheck(t)
  BY <1>8, <1>a DEF SendCheck, Unwind, Step, Suspend, Goto, Set, body, waiting, round,
       family, chans, stall
<1>9. CASE SendPush(t)
  BY <1>9, <1>a DEF SendPush, NotifyThen, Step, Suspend, Goto, Set, body, waiting, round,
       family, chans, stall
<1>10. CASE JoinPoll(t)
  BY <1>10, <1>a DEF JoinPoll, Step, Suspend, Goto, Set, body, waiting, round, family,
       chans, stall
<1>11. CASE DoClose(t)
  BY <1>11, <1>a DEF DoClose, Step, NotifyThen, Goto, Set, body, waiting, round, family,
       chans, stall
<1>12. CASE DoCancel(t)
  BY <1>12, <1>a DEF DoCancel, Step, Goto, Set, body, waiting, round, family, chans, stall
<1>13. CASE TakeSlot(t)
  BY <1>13, <1>a DEF TakeSlot, Goto, body, waiting, round, family, chans, stall
<1>14. CASE StartThread(t)
  BY <1>14, <1>a DEF StartThread, Set, body, waiting, round, family, chans, stall
<1>15. CASE Book(t)
  BY <1>15, <1>a DEF Book, Step, Goto, Set, body, waiting, round, family, chans, stall
<1>16. CASE Finish(t)
  BY <1>16, <1>a DEF Finish, Unwind, Goto, Set, body, waiting, round, family, chans, stall
<1>17. ASSUME NEW w \in Workers, PollPending(t, w)
      PROVE  todo'[t] \subseteq {v \in kids[t] : task'[v] = "live"}
  BY <1>17, <1>a DEF PollPending, Set, body, waiting, round, family, chans, stall
<1>18. ASSUME NEW w \in Workers, Harvest(t, w)
      PROVE  todo'[t] \subseteq {v \in kids[t] : task'[v] = "live"}
  BY <1>18, <1>a DEF Harvest, FinishIsolate, Deregister, Goto, Set, body, waiting, round,
       family, chans, stall
<1>19. ASSUME NEW w \in Workers, HarvestFailed(t, w)
      PROVE  todo'[t] \subseteq {v \in kids[t] : task'[v] = "live"}
  BY <1>19, <1>a DEF HarvestFailed, FinishIsolate, Deregister, Unwind, Goto, Set, body,
       waiting, round, family, chans, stall
<1>20. CASE RoundDone(t)
  BY <1>20, <1>a DEF RoundDone, Goto, body, waiting, round, family, chans, stall
<1>21. CASE StallCheck(t)
  BY <1>21, <1>a DEF StallCheck, Unwind, Goto, Set, body, waiting, round, family, chans,
       stall
<1>22. CASE Park(t)
  BY <1>22, <1>a DEF Park, Goto, Set, body, waiting, round, family, chans, stall
<1>23. CASE CountParked(t)
  BY <1>23, <1>a DEF CountParked, Goto, Set, body, waiting, round, family, chans, stall
<1>24. CASE WaitPast(t)
  BY <1>24, <1>a DEF WaitPast, Goto, body, waiting, round, family, chans, stall
<1>25. CASE Confirm(t)
  BY <1>25, <1>a DEF Confirm, Goto, Set, body, waiting, round, family, chans, stall
<1>26. CASE Judge(t)
  BY <1>26, <1>a DEF Judge, Goto, Set, body, waiting, round, family, chans, stall
<1>27. CASE Unpark(t)
  BY <1>27, <1>a DEF Unpark, Goto, Set, body, waiting, round, family, chans, stall
<1>28. CASE Latch(t)
  BY <1>28, <1>a DEF Latch, Unwind, Goto, Set, body, waiting, round, family, chans, stall
<1>29. CASE t \in Workers /\ Report(t)
  BY <1>29, <1>a DEF Report, Goto, Set, body, waiting, round, family, chans, stall
<1>30. CASE t = Root /\ Teardown
  BY <1>30, <1>a DEF Teardown, Deregister, Goto, Set, body, waiting, round, family, chans,
       stall
<1>. QED
  BY <1>1, <1>2, <1>3, <1>4, <1>5, <1>6, <1>7, <1>8, <1>9, <1>10, <1>11, <1>12, <1>13,
       <1>14, <1>15, <1>16, <1>17, <1>18, <1>19, <1>20, <1>21, <1>22, <1>23, <1>24, <1>25,
       <1>26, <1>27, <1>28, <1>29, <1>30, <1>31
     DEF ThreadStep, BodyStep, RoundStep, StallStep

\* A body goes on by one operation, and past the end of a block by its join.
Advances(t) ==
  /\ ip'[t] = ip[t] \/ ip'[t] = ip[t] + 1
  /\ ip'[t] # ip[t] /\ Op(t).op = "scope_end" => JoinPoll(t)

LEMMA AdvancesStep ==
  ASSUME IInv, NEW t \in Scheds, ThreadStep(t)
  PROVE  Advances(t)
<1>. USE DEF Advances
<1>a. /\ ip \in [Scheds -> Nat]
      /\ pc[t] = "push" => Op(t).op = "send"
      /\ pc[t] = "book" => Op(t).op = "spawn"
  BY DEF IInv, BaseType, InBody, BodyAt
<1>1. CASE Top(t)
  BY <1>1, <1>a DEF Top, Goto, Set, body, waiting, round, family, chans, stall
<1>31. CASE Snapshot(t)
  BY <1>31, <1>a DEF Snapshot, Goto, Set, body, waiting, round, family, chans, stall
<1>2. CASE Enter(t)
  BY <1>2, <1>a DEF Enter, Goto, body, waiting, round, family, chans, stall
<1>3. CASE ObserveCancel(t)
  BY <1>3, <1>a DEF ObserveCancel, Safepoint, Goto, Set, body, waiting, round, family, chans, stall
<1>4. CASE Notify(t)
  BY <1>4, <1>a DEF Notify, Goto, Set, body, waiting, round, family, chans, stall
<1>5. CASE RecvGot(t)
  BY <1>5, <1>a DEF RecvGot, At, NotifyThen, Goto, Set, Step, body, waiting, round, family,
       chans, stall
<1>6. CASE RecvNone(t)
  BY <1>6, <1>a DEF RecvNone, At, Step, Set, body, waiting, round, family, chans, stall
<1>7. CASE RecvPark(t)
  BY <1>7, <1>a DEF RecvPark, At, Suspend, Goto, Set, body, waiting, round, family, chans, stall
<1>8. CASE SendCheck(t)
  BY <1>8, <1>a DEF SendCheck, At, Unwind, Step, Suspend, Goto, Set, body, waiting, round,
       family, chans, stall
<1>9. CASE SendPush(t)
  BY <1>9, <1>a DEF SendPush, NotifyThen, Step, Suspend, Goto, Set, body, waiting, round,
       family, chans, stall
<1>10. CASE JoinPoll(t)
  BY <1>10, <1>a DEF JoinPoll, At, Step, Suspend, Goto, Set, body, waiting, round, family,
       chans, stall
<1>11. CASE DoClose(t)
  BY <1>11, <1>a DEF DoClose, At, Step, NotifyThen, Goto, Set, body, waiting, round, family,
       chans, stall
<1>12. CASE DoCancel(t)
  BY <1>12, <1>a DEF DoCancel, At, Step, Goto, Set, body, waiting, round, family, chans, stall
<1>13. CASE TakeSlot(t)
  BY <1>13, <1>a DEF TakeSlot, At, Goto, body, waiting, round, family, chans, stall
<1>14. CASE StartThread(t)
  BY <1>14, <1>a DEF StartThread, Set, body, waiting, round, family, chans, stall
<1>15. CASE Book(t)
  BY <1>15, <1>a DEF Book, Step, Goto, Set, body, waiting, round, family, chans, stall
<1>16. CASE Finish(t)
  BY <1>16, <1>a DEF Finish, Unwind, Goto, Set, body, waiting, round, family, chans, stall
<1>17. ASSUME NEW w \in Workers, PollPending(t, w)
      PROVE  Advances(t)
  BY <1>17, <1>a DEF PollPending, Set, body, waiting, round, family, chans, stall
<1>18. ASSUME NEW w \in Workers, Harvest(t, w)
      PROVE  Advances(t)
  BY <1>18, <1>a DEF Harvest, FinishIsolate, Deregister, Goto, Set, body, waiting, round,
       family, chans, stall
<1>19. ASSUME NEW w \in Workers, HarvestFailed(t, w)
      PROVE  Advances(t)
  BY <1>19, <1>a DEF HarvestFailed, FinishIsolate, Deregister, Unwind, Goto, Set, body,
       waiting, round, family, chans, stall
<1>20. CASE RoundDone(t)
  BY <1>20, <1>a DEF RoundDone, Goto, body, waiting, round, family, chans, stall
<1>21. CASE StallCheck(t)
  BY <1>21, <1>a DEF StallCheck, Unwind, Goto, Set, body, waiting, round, family, chans,
       stall
<1>22. CASE Park(t)
  BY <1>22, <1>a DEF Park, Goto, Set, body, waiting, round, family, chans, stall
<1>23. CASE CountParked(t)
  BY <1>23, <1>a DEF CountParked, Goto, Set, body, waiting, round, family, chans, stall
<1>24. CASE WaitPast(t)
  BY <1>24, <1>a DEF WaitPast, Goto, body, waiting, round, family, chans, stall
<1>25. CASE Confirm(t)
  BY <1>25, <1>a DEF Confirm, Goto, Set, body, waiting, round, family, chans, stall
<1>26. CASE Judge(t)
  BY <1>26, <1>a DEF Judge, Goto, Set, body, waiting, round, family, chans, stall
<1>27. CASE Unpark(t)
  BY <1>27, <1>a DEF Unpark, Goto, Set, body, waiting, round, family, chans, stall
<1>28. CASE Latch(t)
  BY <1>28, <1>a DEF Latch, Unwind, Goto, Set, body, waiting, round, family, chans, stall
<1>29. CASE t \in Workers /\ Report(t)
  BY <1>29, <1>a DEF Report, Goto, Set, body, waiting, round, family, chans, stall
<1>30. CASE t = Root /\ Teardown
  BY <1>30, <1>a DEF Teardown, Deregister, Goto, Set, body, waiting, round, family, chans,
       stall
<1>. QED
  BY <1>1, <1>2, <1>3, <1>4, <1>5, <1>6, <1>7, <1>8, <1>9, <1>10, <1>11, <1>12, <1>13,
       <1>14, <1>15, <1>16, <1>17, <1>18, <1>19, <1>20, <1>21, <1>22, <1>23, <1>24, <1>25,
       <1>26, <1>27, <1>28, <1>29, <1>30, <1>31
     DEF ThreadStep, BodyStep, RoundStep, StallStep

LEMMA IpGrows ==
  ASSUME IInv, NEW t \in Scheds, ThreadStep(t), NEW u \in Scheds
  PROVE  ip[u] \in Nat /\ ip'[u] \in Nat /\ ip'[u] >= ip[u]
<1>1. ip \in [Scheds -> Nat]
  BY DEF IInv, BaseType
<1>. QED  BY <1>1, AdvancesStep, OthersKept DEF Own, Advances

\* Booking moves a worker from "being started" to the children; nothing else
\* changes who started whom.
LEMMA StartedStep ==
  ASSUME IInv, NEW t \in Scheds, ThreadStep(t), NEW u \in Scheds
  PROVE  /\ kids[u] \subseteq kids'[u]
         /\ kids'[u] \subseteq kids[u] \cup (IF u = t /\ pc[t] = "book" THEN {Op(t).arg} ELSE {})
         /\ Started(u)' = Started(u) \cup
                            (IF u = t /\ pc[t] = "start" THEN {Op(t).arg} ELSE {})
<1>1. CASE u # t
  <2>1. kids'[u] = kids[u] /\ ip'[u] = ip[u] /\ prog' = prog
    BY <1>1, OthersKept DEF Own, ThreadStep
  <2>2. pc'[u] = "book" <=> pc[u] = "book"
    BY <1>1, OnlyOwnPc, FreshWorker DEF MovesItself
  <2>. QED  BY <1>1, <2>1, <2>2 DEF Started, Op
<1>2. CASE u = t
  <2>1. /\ prog' = prog /\ pc \in [Scheds -> PCs] /\ kids \in [Scheds -> SUBSET Workers]
        /\ ip \in [Scheds -> Nat]
    BY DEF IInv, BaseType, ThreadStep
  <2>2. CASE StartThread(t)
    <3>1. pc'[t] = "book" /\ pc[t] = "start"
      BY <2>1, <2>2, FreshWorker DEF StartThread
    <3>. QED  BY <1>2, <2>1, <2>2, <3>1 DEF StartThread, Started, Op, body
  <2>3. CASE Book(t)
    <3>1. pc[t] = "book" /\ pc'[t] # "book"
      BY <2>1, <2>3 DEF Book, Goto
    <3>2. kids'[t] = kids[t] \cup {Op(t).arg}
      BY <2>1, <2>3 DEF Book, Set
    <3>. QED  BY <1>2, <3>1, <3>2 DEF Started
  <2>4. CASE Plain(t)
    BY <1>2, <2>1, <2>4 DEF Plain, Started
  <2>5. CASE TakeSlot(t)
    BY <1>2, <2>1, <2>5 DEF TakeSlot, At, Goto, Started, family
  <2>6. ASSUME NEW w \in Workers, Harvest(t, w) \/ HarvestFailed(t, w)
        PROVE  kids' = kids /\ pc[t] = "round" /\ pc'[t] # "book"
    BY <2>1, <2>6 DEF Harvest, HarvestFailed, Unwind, Goto
  <2>7. CASE t = Root /\ Teardown
    BY <1>2, <2>1, <2>7 DEF Teardown, Goto, Started
  <2>8. CASE \E w \in Workers : Harvest(t, w) \/ HarvestFailed(t, w)
    BY <1>2, <2>6, <2>8 DEF Started
  <2>. QED  BY KindsStep, <2>2, <2>3, <2>4, <2>5, <2>7, <2>8 DEF Kinds
<1>. QED  BY <1>1, <1>2

LEMMA NeverUnborn ==
  ASSUME IInv, NEW t \in Scheds, ThreadStep(t), NEW u \in Scheds
  PROVE  pc'[u] = "unborn" <=> /\ pc[u] = "unborn"
                               /\ ~(pc[t] = "start" /\ u = Op(t).arg)
<1>1. pc \in [Scheds -> PCs] /\ pc[t] # "unborn"
  BY OnlyOwnPc DEF IInv, BaseType, MovesItself, Live
<1>2. pc'[t] # "unborn"
  <2>1. CASE StartThread(t)
    BY <1>1, <2>1, FreshWorker DEF StartThread
  <2>2. CASE Book(t) \/ TakeSlot(t)
    BY <1>1, <2>2 DEF Book, TakeSlot, Goto
  <2>3. ASSUME NEW w \in Workers, Harvest(t, w) \/ HarvestFailed(t, w)
        PROVE  pc'[t] # "unborn"
    BY <1>1, <2>3 DEF Harvest, HarvestFailed, Unwind, Goto
  <2>4. CASE t = Root /\ Teardown
    BY <1>1, <2>4 DEF Teardown, Goto
  <2>. QED  BY <2>1, <2>2, <2>3, <2>4, KindsStep DEF Kinds, Plain
<1>3. pc[t] = "start" => Op(t).arg # t /\ pc'[Op(t).arg] = "top"
  <2>1. pc[t] = "start" => StartThread(t)
    BY <1>1, KindsStep DEF Kinds, Plain, TakeSlot, At, Book, Harvest, HarvestFailed, Teardown
  <2>. QED  BY <1>1, <2>1, FreshWorker DEF StartThread, Scheds
<1>. QED  BY <1>1, <1>2, <1>3, OnlyOwnPc DEF MovesItself

LEMMA ParentageStep ==
  ASSUME IInv, NEW t \in Scheds, ThreadStep(t)
  PROVE  Parentage'
<1>1. prog' = prog /\ Parentage /\ Answers(t)
  BY AnswersStep DEF IInv, ThreadStep
<1>2. ASSUME NEW u \in Scheds, NEW w \in kids'[u]
      PROVE  \E i \in DOMAIN prog[u] : i < ip'[u] /\ prog[u][i] = Spawn(w)
  <2>1. CASE w \in kids[u]
    <3>1. PICK i \in DOMAIN prog[u] : i < ip[u] /\ prog[u][i] = Spawn(w)
      BY <1>1, <2>1 DEF Parentage
    <3>2. prog[u] \in Seq(Ops)
      BY ProgramsAssumption DEF IInv, InBody
    <3>3. i \in Nat
      BY <3>2
    <3>. QED  BY <3>1, <3>3, IpGrows
  <2>2. CASE w \notin kids[u]
    <3>1. u = t /\ pc[t] = "book" /\ w = Op(t).arg
      BY <1>2, <2>2, StartedStep
    <3>2. Op(t) = Spawn(w) /\ ip[t] \in DOMAIN prog[t]
      BY <3>1, FreshWorker
    <3>3. ip'[t] = ip[t] + 1
      <4>1. Book(t)
        BY <3>1, KindsStep, OnlyOwnPc
           DEF Kinds, Plain, TakeSlot, At, StartThread, Harvest, HarvestFailed, Teardown
      <4>2. ip \in [Scheds -> Nat]
        BY DEF IInv, BaseType
      <4>. QED  BY <4>1, <4>2 DEF Book, Step, Set
    <3>4. ip[t] < ip'[t]
      BY <3>3, IpGrows
    <3>5. prog[t][ip[t]] = Spawn(w)
      BY <3>2 DEF Op
    <3>. QED  BY <3>1, <3>2, <3>4, <3>5
  <2>. QED  BY <2>1, <2>2
<1>3. ASSUME NEW w \in Workers
      PROVE  pc'[w] # "unborn" <=> \E u \in Scheds : w \in Started(u)'
  <2>1. w \in Scheds /\ (pc[w] # "unborn" <=> \E u \in Scheds : w \in Started(u))
    BY <1>1 DEF Scheds, Parentage
  <2>. QED  BY <2>1, NeverUnborn, StartedStep
<1>4. ASSUME NEW w \in Workers, task'[w] # "live"
      PROVE  \E u \in Scheds : w \in kids'[u]
  <2>1. task[w] # "live" \/ w \in todo[t]
    <3>1. task \in [Workers -> {"live", "result", "cancelled"}]
      BY DEF IInv, BaseType
    <3>. QED  BY <1>1, <1>4, <3>1 DEF Answers
  <2>2. \E u \in Scheds : w \in kids[u]
    BY <1>1, <2>1 DEF Parentage
  <2>. QED  BY <2>2, StartedStep
<1>5. ASSUME NEW u \in Scheds
      PROVE  todo'[u] \subseteq {w \in kids'[u] : task'[w] = "live"}
  <2>1. CASE u = t
    BY <2>1, TodoStep, StartedStep
  <2>2. CASE u # t
    <3>1. todo'[u] = todo[u] /\ todo[u] \subseteq {w \in kids[u] : task[w] = "live"}
      BY <1>1, <2>2, OthersKept DEF Own, Parentage
    <3>2. ASSUME NEW w \in todo[u]
          PROVE  task'[w] = "live"
      <4>1. w \in kids[u] /\ task[w] = "live" /\ w \in Workers
        BY <3>1 DEF IInv, BaseType
      <4>2. w \notin todo[t]
        <5>1. w \in todo[t] => w \in Started(t)
          BY <1>1 DEF Parentage, Started
        <5>2. w \in Started(u)
          BY <4>1 DEF Started
        <5>. QED  BY <2>2, <5>1, <5>2, OneParent
      <4>3. task \in [Workers -> {"live", "result", "cancelled"}]
        BY DEF IInv, BaseType
      <4>. QED  BY <1>1, <4>1, <4>2, <4>3 DEF Answers
    <3>. QED  BY <3>1, <3>2, StartedStep
  <2>. QED  BY <2>1, <2>2
<1>. QED  BY <1>1, <1>2, <1>3, <1>4, <1>5 DEF Parentage
--------------------------------------------------------------------------------
(* The counts.                                                             *)

\* A channel's producer count is what its live, booked workers hold: booking
\* adds a hold, harvesting takes it back, and nothing else does either.
LEMMA HoldsExactStep ==
  ASSUME IInv, NEW t \in Scheds, ThreadStep(t)
  PROVE  HoldsExact'
<1>. SUFFICES ASSUME NEW c \in Channels
              PROVE  producers'[c] = Cardinality(Holders(c)')
  BY DEF HoldsExact
<1>1. /\ prog' = prog /\ producers \in [Channels -> Int] /\ kids \in [Scheds -> SUBSET Workers]
      /\ task \in [Workers -> {"live", "result", "cancelled"}]
      /\ producers[c] = Cardinality(Holders(c)) /\ Parentage
  BY DEF IInv, BaseType, HoldsExact, ThreadStep
<1>2. \A w : Senders(w)' = Senders(w)
  BY <1>1 DEF Senders, Uses, Family
<1>3. IsFiniteSet(Holders(c))
  BY ThreadsAssumption, FS_Subset DEF Holders
<1>4. CASE UNCHANGED <<kids, task, producers>>
  BY <1>1, <1>2, <1>4 DEF Holders
<1>5. CASE Book(t)
  <2>. DEFINE w == Op(t).arg
  <2>1. w \in Workers /\ \A u \in Scheds : w \notin kids[u]
    BY <1>5, FreshWorker DEF Book
  <2>2. task[w] = "live" /\ w \notin Holders(c)
    BY <1>1, <2>1 DEF Parentage, Holders
  <2>3. task' = task /\ kids' = [kids EXCEPT ![t] = kids[t] \cup {w}]
    BY <1>5 DEF Book, Set
  <2>4. producers'[c] = IF c \in Senders(w) THEN producers[c] + 1 ELSE producers[c]
    BY <1>5 DEF Book
  <2>5. CASE c \in Senders(w)
    <3>1. Holders(c)' = Holders(c) \cup {w}
      BY <1>1, <1>2, <2>1, <2>2, <2>3, <2>5 DEF Holders
    <3>2. Cardinality(Holders(c) \cup {w}) = Cardinality(Holders(c)) + 1
      BY <1>3, <2>2, FS_AddElement
    <3>. QED  BY <1>1, <1>3, <2>4, <2>5, <3>1, <3>2
  <2>6. CASE c \notin Senders(w)
    <3>1. Holders(c)' = Holders(c)
      BY <1>1, <1>2, <2>1, <2>3, <2>6 DEF Holders
    <3>. QED  BY <1>1, <2>4, <2>6, <3>1
  <2>. QED  BY <2>5, <2>6
<1>6. ASSUME NEW w \in Workers, Harvest(t, w)
      PROVE  producers'[c] = Cardinality(Holders(c)')
  <2>1. w \in kids[t] /\ task[w] = "live"
    BY <1>1, <1>6 DEF Harvest, Parentage
  <2>2. kids' = kids /\ task' = [task EXCEPT ![w] = Terminal(report[w])]
    BY <1>6 DEF Harvest, Set
  <2>3. Terminal(report[w]) # "live"
    BY DEF Terminal
  <2>4. producers'[c] = IF c \in Senders(w) THEN producers[c] - 1 ELSE producers[c]
    BY <1>6 DEF Harvest
  <2>5. CASE c \in Senders(w)
    <3>1. Holders(c)' = Holders(c) \ {w} /\ w \in Holders(c)
      BY <1>1, <1>2, <2>1, <2>2, <2>3, <2>5 DEF Holders
    <3>. QED  BY <1>1, <1>3, <2>4, <2>5, <3>1, FS_RemoveElement
  <2>6. CASE c \notin Senders(w)
    <3>1. Holders(c)' = Holders(c)
      BY <1>1, <1>2, <2>2, <2>6 DEF Holders
    <3>. QED  BY <1>1, <2>4, <2>6, <3>1
  <2>. QED  BY <2>5, <2>6
<1>7. ASSUME NEW w \in Workers, HarvestFailed(t, w)
      PROVE  UNCHANGED <<kids, task, producers>>
  BY <1>7 DEF HarvestFailed, chans
<1>8. CASE TakeSlot(t) \/ StartThread(t) \/ (t = Root /\ Teardown)
  BY <1>4, <1>8 DEF TakeSlot, StartThread, Teardown, family, chans
<1>. QED  BY <1>4, <1>5, <1>6, <1>7, <1>8, KindsStep DEF Kinds, Plain

\* `parked` moves with the thread that parks or wakes.
ParkMoves(t) ==
  \/ /\ ~InPark(t) /\ InPark(t)' /\ parked' = parked + 1
  \/ /\ InPark(t) /\ ~InPark(t)' /\ parked' = parked - 1
  \/ (InPark(t)' <=> InPark(t)) /\ parked' = parked

LEMMA ParkMovesStep ==
  ASSUME IInv, NEW t \in Scheds, ThreadStep(t)
  PROVE  ParkMoves(t)
<1>a. /\ pc \in [Scheds -> PCs]
      /\ after \in [Scheds -> {"poll", "round", "unwind", "ended"}]
  BY DEF IInv, BaseType
<1>. USE DEF ParkMoves, InPark
<1>1. CASE Top(t)
  BY <1>1, <1>a DEF Top, Goto, Set, body, waiting, round, family, chans, stall
<1>31. CASE Snapshot(t)
  BY <1>31, <1>a DEF Snapshot, Goto, Set, body, waiting, round, family, chans, stall
<1>2. CASE Enter(t)
  BY <1>2, <1>a DEF Enter, Goto, body, waiting, round, family, chans, stall
<1>3. CASE ObserveCancel(t)
  BY <1>3, <1>a DEF ObserveCancel, Safepoint, Goto, Set, body, waiting, round, family, chans, stall
<1>4. CASE Notify(t)
  BY <1>4, <1>a DEF Notify, Goto, Set, body, waiting, round, family, chans, stall
<1>5. CASE RecvGot(t)
  BY <1>5, <1>a DEF RecvGot, NotifyThen, Goto, Set, Step, At, body, waiting, round, family,
       chans, stall
<1>6. CASE RecvNone(t)
  BY <1>6, <1>a DEF RecvNone, Step, Set, At, body, waiting, round, family, chans, stall
<1>7. CASE RecvPark(t)
  BY <1>7, <1>a DEF RecvPark, Suspend, Goto, Set, At, body, waiting, round, family, chans,
       stall
<1>8. CASE SendCheck(t)
  BY <1>8, <1>a DEF SendCheck, Unwind, Step, Suspend, Goto, Set, At, body, waiting, round,
       family, chans, stall
<1>9. CASE SendPush(t)
  BY <1>9, <1>a DEF SendPush, NotifyThen, Step, Suspend, Goto, Set, body, waiting, round,
       family, chans, stall
<1>10. CASE JoinPoll(t)
  BY <1>10, <1>a DEF JoinPoll, Step, Suspend, Goto, Set, At, body, waiting, round, family,
       chans, stall
<1>11. CASE DoClose(t)
  BY <1>11, <1>a DEF DoClose, Step, NotifyThen, Goto, Set, At, body, waiting, round,
       family, chans, stall
<1>12. CASE DoCancel(t)
  BY <1>12, <1>a DEF DoCancel, Step, Goto, Set, At, body, waiting, round, family, chans,
       stall
<1>13. CASE TakeSlot(t)
  BY <1>13, <1>a DEF TakeSlot, Goto, At, body, waiting, round, family, chans, stall
<1>14. CASE StartThread(t)
  <2>1. Op(t).arg # t
    BY <1>14, FreshWorker DEF StartThread
  <2>. QED  BY <1>14, <1>a, <2>1 DEF StartThread, stall
<1>15. CASE Book(t)
  BY <1>15, <1>a DEF Book, Step, Goto, Set, body, waiting, round, family, chans, stall
<1>16. CASE Finish(t)
  BY <1>16, <1>a DEF Finish, Unwind, Goto, Set, At, body, waiting, round, family, chans,
       stall
<1>17. ASSUME NEW w \in Workers, PollPending(t, w)
      PROVE  ParkMoves(t)
  BY <1>17, <1>a DEF PollPending, Set, body, waiting, round, family, chans, stall
<1>18. ASSUME NEW w \in Workers, Harvest(t, w)
      PROVE  ParkMoves(t)
  BY <1>18, <1>a DEF Harvest, FinishIsolate, Deregister, Goto, Set, body, waiting, round,
       family, chans, stall
<1>19. ASSUME NEW w \in Workers, HarvestFailed(t, w)
      PROVE  ParkMoves(t)
  BY <1>19, <1>a DEF HarvestFailed, FinishIsolate, Deregister, Unwind, Goto, Set, body,
       waiting, round, family, chans, stall
<1>20. CASE RoundDone(t)
  BY <1>20, <1>a DEF RoundDone, Goto, body, waiting, round, family, chans, stall
<1>21. CASE StallCheck(t)
  BY <1>21, <1>a DEF StallCheck, Unwind, Goto, Set, body, waiting, round, family, chans,
       stall
<1>22. CASE Park(t)
  BY <1>22, <1>a DEF Park, Goto, Set, body, waiting, round, family, chans, stall
<1>23. CASE CountParked(t)
  BY <1>23, <1>a DEF CountParked, Goto, Set, body, waiting, round, family, chans, stall
<1>24. CASE WaitPast(t)
  BY <1>24, <1>a DEF WaitPast, Goto, body, waiting, round, family, chans, stall
<1>25. CASE Confirm(t)
  BY <1>25, <1>a DEF Confirm, Goto, Set, body, waiting, round, family, chans, stall
<1>26. CASE Judge(t)
  BY <1>26, <1>a DEF Judge, Goto, Set, body, waiting, round, family, chans, stall
<1>27. CASE Unpark(t)
  BY <1>27, <1>a DEF Unpark, Goto, Set, body, waiting, round, family, chans, stall
<1>28. CASE Latch(t)
  BY <1>28, <1>a DEF Latch, Unwind, Goto, Set, body, waiting, round, family, chans, stall
<1>29. CASE t \in Workers /\ Report(t)
  BY <1>29, <1>a DEF Report, Goto, Set, body, waiting, round, family, chans, stall
<1>30. CASE t = Root /\ Teardown
  BY <1>30, <1>a DEF Teardown, Deregister, Goto, Set, body, waiting, round, family, chans,
       stall
<1>. QED
  BY <1>1, <1>2, <1>3, <1>4, <1>5, <1>6, <1>7, <1>8, <1>9, <1>10, <1>11, <1>12, <1>13,
       <1>14, <1>15, <1>16, <1>17, <1>18, <1>19, <1>20, <1>21, <1>22, <1>23, <1>24, <1>25,
       <1>26, <1>27, <1>28, <1>29, <1>30, <1>31
     DEF ThreadStep, BodyStep, RoundStep, StallStep

LEMMA ParkedExactStep ==
  ASSUME IInv, NEW t \in Scheds, ThreadStep(t)
  PROVE  ParkedExact'
<1>. DEFINE P == {u \in Scheds : InPark(u)}
<1>1. IsFiniteSet(P) /\ parked = Cardinality(P) /\ parked \in Int
  BY SchedsFinite, FS_Subset DEF IInv, BaseType, ParkedExact
<1>2. ASSUME NEW u \in Scheds \ {t}
      PROVE  InPark(u)' <=> InPark(u)
  BY OnlyOwnPc, FreshWorker DEF MovesItself, InPark
<1>3. P' = IF InPark(t)' THEN P \cup {t} ELSE P \ {t}
  BY <1>2
<1>4. t \in P <=> InPark(t)
  OBVIOUS
<1>. HIDE DEF P
<1>5. parked' = Cardinality(P')
  <2>1. CASE ~InPark(t) /\ InPark(t)' /\ parked' = parked + 1
    BY <1>1, <1>3, <1>4, <2>1, FS_AddElement
  <2>2. CASE InPark(t) /\ ~InPark(t)' /\ parked' = parked - 1
    BY <1>1, <1>3, <1>4, <2>2, FS_RemoveElement
  <2>3. CASE (InPark(t)' <=> InPark(t)) /\ parked' = parked
    <3>1. P' = P
      BY <1>3, <1>4, <2>3
    <3>. QED  BY <1>1, <2>3, <3>1
  <2>. QED  BY <2>1, <2>2, <2>3, ParkMovesStep DEF ParkMoves
<1>. QED  BY <1>5 DEF ParkedExact, P
--------------------------------------------------------------------------------
(* The stall slots.                                                        *)

\* Counting one more and one less.
LEMMA OneMore ==
  ASSUME NEW S, NEW T, NEW x, IsFiniteSet(S), T = S \cup {x}, x \notin S
  PROVE  Cardinality(T) = Cardinality(S) + 1
<1>. QED  BY FS_AddElement

LEMMA OneLess ==
  ASSUME NEW S, NEW T, NEW x, IsFiniteSet(S), T = S \ {x}, x \in S
  PROVE  Cardinality(T) = Cardinality(S) - 1
<1>. QED  BY FS_RemoveElement

LEMMA AtMostOneMore ==
  ASSUME NEW S, NEW T, NEW x, IsFiniteSet(S), T \subseteq S \cup {x}
  PROVE  Cardinality(T) \in Nat /\ Cardinality(T) <= Cardinality(S) + 1
<1>1. /\ IsFiniteSet(S \cup {x})
      /\ Cardinality(S \cup {x}) = IF x \in S THEN Cardinality(S) ELSE Cardinality(S) + 1
  BY FS_AddElement
<1>2. IsFiniteSet(T) /\ Cardinality(T) <= Cardinality(S \cup {x})
  BY <1>1, FS_Subset
<1>. QED  BY <1>1, <1>2, FS_CardinalityType

\* What a ledger says is about finite sets of workers.
LEMMA LedgerFinite ==
  ASSUME NEW R \in SUBSET Workers
  PROVE  /\ IsFiniteSet(R) /\ Cardinality(R) \in Nat
         /\ \A S : IsFiniteSet(R \cap S) /\ Cardinality(R \cap S) \in Nat
         /\ IsFiniteSet(Starting) /\ Cardinality(Starting) \in Nat
<1>1. IsFiniteSet(R) /\ IsFiniteSet(Starting)
  BY ThreadsAssumption, SchedsFinite, FS_Subset DEF Starting
<1>2. \A S : IsFiniteSet(R \cap S)
  BY <1>1, FS_Intersection
<1>. QED  BY <1>1, <1>2, FS_CardinalityType

\* Whoever runs after a step ran before it, or was just started.
LEMMA LiveStep ==
  ASSUME IInv, NEW t \in Scheds, ThreadStep(t), NEW w \in Workers, Live(w)'
  PROVE  Live(w) \/ (pc[t] = "start" /\ w = Op(t).arg)
<1>. QED  BY OnlyOwnPc DEF MovesItself, Live, Scheds

\* Who is between taking a slot and starting the thread.
LEMMA StartingStep ==
  ASSUME IInv, NEW t \in Scheds, ThreadStep(t)
  PROVE  Starting' = IF pc'[t] = "start" THEN Starting \cup {t} ELSE Starting \ {t}
<1>1. ASSUME NEW u \in Scheds \ {t}
      PROVE  pc'[u] = "start" <=> pc[u] = "start"
  BY OnlyOwnPc, FreshWorker DEF MovesItself
<1>. QED  BY <1>1 DEF Starting

\* The root ends with its teardown and in no other way.
LEMMA RootEnds ==
  ASSUME IInv, NEW t \in Scheds, ThreadStep(t), ~(t = Root /\ Teardown)
  PROVE  pc'[Root] = "ended" <=> pc[Root] = "ended"
<1>1. pc \in [Scheds -> PCs] /\ Live(t)
  BY OnlyOwnPc DEF IInv, BaseType, MovesItself
<1>2. CASE t = Root
  <2>1. pc'[t] # "ended"
    <3>1. CASE StartThread(t)
      BY <1>1, <3>1, FreshWorker DEF StartThread
    <3>2. CASE Book(t) \/ TakeSlot(t)
      BY <1>1, <3>2 DEF Book, TakeSlot, Goto
    <3>3. ASSUME NEW w \in Workers, Harvest(t, w) \/ HarvestFailed(t, w)
          PROVE  pc'[t] # "ended"
      BY <1>1, <3>3 DEF Harvest, HarvestFailed, Unwind, Goto
    <3>. QED  BY <1>2, <3>1, <3>2, <3>3, KindsStep DEF Kinds, Plain
  <2>. QED  BY <1>1, <1>2, <2>1 DEF Live
<1>3. CASE t # Root
  BY <1>3, OnlyOwnPc, FreshWorker, ThreadsAssumption DEF MovesItself, Scheds
<1>. QED  BY <1>2, <1>3

LEMMA StartedKept ==
  ASSUME IInv, NEW t \in Scheds, ThreadStep(t), NEW u \in Scheds, pc[t] # "start"
  PROVE  Started(u)' = Started(u)
<1>. QED  BY StartedStep

\* Steps that move no worker into or out of the ledger.
LEMMA LedgerKept ==
  ASSUME IInv, NEW t \in Scheds, ThreadStep(t), NEW R \in SUBSET Workers, Ledger(R),
         pc[t] # "start",
         UNCHANGED <<slots, task>>,
         fate'[t] = "none" => fate[t] = "none",
         \A u \in Scheds : inflight'[u] >= Cardinality(R \cap kids'[u])
  PROVE  Covers(R)' /\ \A u \in Scheds : Booked(R, u)'
<1>1. \A w \in R : pc'[w] # "unborn" /\ task'[w] = "live"
  BY NeverUnborn DEF Ledger, Covers, Scheds
<1>2. \A w \in Workers : Live(w)' => w \in R
  BY LiveStep DEF Ledger, Covers
<1>3. ASSUME NEW u \in Scheds
      PROVE  Booked(R, u)'
  <2>1. Started(u)' = Started(u)
    BY StartedKept
  <2>2. fate'[u] = "none" => fate[u] = "none"
    BY OthersKept DEF Own
  <2>. QED  BY <2>1, <2>2 DEF Ledger, Booked
<1>. QED  BY <1>1, <1>2, <1>3 DEF Covers

LEMMA StartThreadLedger ==
  ASSUME IInv, NEW t \in Scheds, ThreadStep(t), NEW R \in SUBSET Workers, Ledger(R),
         StartThread(t)
  PROVE  Accounted'
<1>w. PICK w : w = Op(t).arg
  OBVIOUS
<1>. DEFINE Q == R \cup {w}
<1>1. /\ w \in Workers /\ pc[t] = "start" /\ pc[w] = "unborn"
      /\ \A u \in Scheds : w \notin Started(u) /\ w \notin kids[u]
  BY <1>w, FreshWorker DEF StartThread
<1>2. w \notin R /\ Q \in SUBSET Workers
  BY <1>1 DEF Ledger, Covers
<1>3. UNCHANGED <<fate, task, kids, inflight, active>> /\ slots' = [slots EXCEPT ![t] = slots[t] + 1]
  BY DEF StartThread, Set, body, stall
<1>4. slots \in [Scheds -> Int] /\ pc \in [Scheds -> PCs] /\ pc'[t] = "book"
  BY <1>1 DEF StartThread, IInv, BaseType
<1>5. Covers(Q)'
  <2>1. pc'[w] # "unborn" /\ \A v \in R : pc'[v] # "unborn"
    BY <1>w, <1>1, NeverUnborn DEF Ledger, Covers, Scheds
  <2>2. \A v \in Workers : Live(v)' => v \in Q
    BY <1>w, LiveStep DEF Ledger, Covers
  <2>3. task'[w] = "live" /\ \A v \in R : task'[v] = "live"
    BY <1>1, <1>3 DEF Ledger, Covers, IInv, Parentage
  <2>. QED  BY <2>1, <2>2, <2>3 DEF Covers
<1>6. ASSUME NEW u \in Scheds
      PROVE  Booked(Q, u)'
  <2>1. Booked(R, u) /\ IsFiniteSet(R \cap Started(u))
    BY LedgerFinite DEF Ledger
  <2>2. Q \cap kids'[u] = R \cap kids[u]
    BY <1>1, <1>3
  <2>3. Started(u)' = IF u = t THEN Started(u) \cup {w} ELSE Started(u)
    BY <1>w, <1>1, StartedStep
  <2>4. fate'[u] = "none" => {v \in Started(u)' : task'[v] = "live"} \subseteq Q
    BY <1>3, <2>1, <2>3 DEF Booked
  <2>5. slots'[u] = Cardinality(Q \cap Started(u)')
    <3>1. CASE u = t
      <4>1. Q \cap Started(u)' = (R \cap Started(u)) \cup {w}
        BY <2>3, <3>1
      <4>2. w \notin R \cap Started(u)
        BY <1>2
      <4>3. Cardinality(Q \cap Started(u)') = Cardinality(R \cap Started(u)) + 1
        BY <2>1, <4>1, <4>2, OneMore
      <4>. QED  BY <1>3, <1>4, <2>1, <3>1, <4>3 DEF Booked
    <3>2. CASE u # t
      <4>1. Q \cap Started(u)' = R \cap Started(u)
        BY <1>1, <2>3, <3>2
      <4>. QED  BY <1>3, <1>4, <2>1, <3>2, <4>1 DEF Booked
    <3>. QED  BY <3>1, <3>2
  <2>. QED  BY <1>3, <2>1, <2>2, <2>4, <2>5 DEF Booked
<1>7. Total(Q)'
  <2>1. Starting' = Starting \ {t} /\ t \in Starting
    BY <1>1, <1>4, StartingStep DEF Starting
  <2>2. Cardinality(Starting') = Cardinality(Starting) - 1
    BY <2>1, LedgerFinite, FS_RemoveElement
  <2>3. Cardinality(Q) = Cardinality(R) + 1
    BY <1>2, LedgerFinite, FS_AddElement
  <2>4. pc'[Root] = "ended" <=> pc[Root] = "ended"
    BY <1>1, RootEnds DEF Teardown
  <2>5. Cardinality(R) \in Nat /\ Cardinality(Starting) \in Nat
    BY LedgerFinite
  <2>. HIDE DEF Q
  <2>. QED  BY <1>3, <2>2, <2>3, <2>4, <2>5 DEF Ledger, Total
<1>. QED  BY <1>2, <1>5, <1>6, <1>7 DEF Accounted, Ledger

\* `finish_isolate` gives the worker's slot back, once.
LEMMA FinishLedger ==
  ASSUME IInv, NEW t \in Scheds, ThreadStep(t), NEW R \in SUBSET Workers, Ledger(R),
         NEW w \in Workers, Harvest(t, w) \/ HarvestFailed(t, w)
  PROVE  Accounted'
<1>. DEFINE Q == R \ {w}
<1>1. /\ pc[t] = "round" /\ w \in todo[t] /\ pc[w] = "ended" /\ kids' = kids
      /\ slots' = [slots EXCEPT ![t] = slots[t] - 1]
      /\ inflight' = [inflight EXCEPT ![t] = inflight[t] - 1]
      /\ active' = active - 1
  BY DEF Harvest, HarvestFailed, FinishIsolate, Deregister, Set
<1>2. /\ slots \in [Scheds -> Int] /\ inflight \in [Scheds -> Int] /\ active \in Int
      /\ fate \in [Scheds -> {"none", "done", "failed", "cancelled", "alone", "deadlock"}]
      /\ task \in [Workers -> {"live", "result", "cancelled"}] /\ pc \in [Scheds -> PCs]
  BY DEF IInv, BaseType
<1>3. w \in kids[t] /\ task[w] = "live" /\ w \in Started(t)
  BY <1>1 DEF IInv, Parentage, Started
<1>4. fate[t] = "none"
  BY <1>1 DEF IInv, Fates, FateOf, Leaving
<1>5. w \in R
  BY <1>3, <1>4 DEF Ledger, Booked
<1>6. \A u \in Scheds \ {t} : w \notin Started(u) /\ w \notin kids[u]
  BY <1>3, OneParent DEF Started
<1>7. ASSUME NEW u \in Scheds
      PROVE  Started(u)' = Started(u)
  BY <1>1, StartedKept
<1>8. /\ pc'[w] = "ended" /\ pc'[t] # "start"
  <2>1. w \in Scheds /\ w # t
    BY <1>1 DEF Scheds
  <2>2. pc'[w] = "ended"
    BY <1>1, <2>1, OnlyOwnPc DEF MovesItself
  <2>. QED  BY <1>1, <1>2, <2>2 DEF Harvest, HarvestFailed, Unwind, Goto
<1>9. Covers(Q)'
  <2>1. \A v \in Q : pc'[v] # "unborn"
    BY <1>1, NeverUnborn DEF Ledger, Covers, Scheds
  <2>2. \A v \in Workers : Live(v)' => v \in Q
    BY <1>1, <1>8, LiveStep DEF Ledger, Covers, Live
  <2>3. \A v \in Workers \ {w} : task'[v] = task[v]
    BY <1>2 DEF Harvest, HarvestFailed, Set
  <2>4. \A v \in Q : task'[v] = "live"
    BY <2>3 DEF Ledger, Covers
  <2>. QED  BY <2>1, <2>2, <2>4 DEF Covers
<1>10. ASSUME NEW u \in Scheds
       PROVE  Booked(Q, u)'
  <2>1. Booked(R, u) /\ IsFiniteSet(R \cap Started(u)) /\ IsFiniteSet(R \cap kids[u])
    BY LedgerFinite DEF Ledger
  <2>2. fate'[u] = "none" => {v \in Started(u)' : task'[v] = "live"} \subseteq Q
    <3>1. CASE Harvest(t, w)
      <4>1. fate' = fate /\ task' = [task EXCEPT ![w] = Terminal(report[w])]
        BY <3>1 DEF Harvest, Set, body
      <4>2. task'[w] # "live" /\ \A v \in Workers \ {w} : task'[v] = task[v]
        BY <1>2, <4>1 DEF Terminal
      <4>3. \A v \in Started(u) : v \in Workers
        BY StartedBySpawn
      <4>. QED  BY <1>7, <2>1, <4>1, <4>2, <4>3 DEF Booked
    <3>2. CASE HarvestFailed(t, w)
      <4>1. fate'[t] # "none" /\ task' = task
        BY <1>2, <3>2 DEF HarvestFailed, Unwind, Set
      <4>2. u # t => fate'[u] = fate[u] /\ w \notin Started(u)
        BY <1>6, OthersKept DEF Own
      <4>. QED  BY <1>7, <2>1, <4>1, <4>2 DEF Booked
    <3>. QED  BY <3>1, <3>2
  <2>3. CASE u = t
    <3>1. Q \cap Started(u)' = (R \cap Started(u)) \ {w} /\ Q \cap kids'[u] = (R \cap kids[u]) \ {w}
      BY <1>1, <1>7
    <3>. HIDE DEF Q
    <3>a. Cardinality(Q \cap Started(u)') = Cardinality(R \cap Started(u)) - 1
      BY <1>3, <1>5, <2>1, <2>3, <3>1, OneLess
    <3>b. Cardinality(Q \cap kids'[u]) = Cardinality(R \cap kids[u]) - 1
      BY <1>3, <1>5, <2>1, <2>3, <3>1, OneLess
    <3>3. Cardinality(R \cap Started(u)) \in Nat /\ Cardinality(R \cap kids[u]) \in Nat
      BY LedgerFinite
    <3>. QED  BY <1>1, <1>2, <2>1, <2>2, <2>3, <3>a, <3>b, <3>3 DEF Booked
  <2>4. CASE u # t
    <3>1. Q \cap Started(u)' = R \cap Started(u) /\ Q \cap kids'[u] = R \cap kids[u]
      BY <1>1, <1>6, <1>7, <2>4
    <3>. QED  BY <1>1, <1>2, <2>1, <2>2, <2>4, <3>1 DEF Booked
  <2>. QED  BY <2>3, <2>4
<1>11. Total(Q)'
  <2>1. Starting' = Starting
    BY <1>1, <1>8, StartingStep DEF Starting
  <2>2. Cardinality(Q) = Cardinality(R) - 1
    BY <1>5, LedgerFinite, FS_RemoveElement
  <2>3. pc'[Root] = "ended" <=> pc[Root] = "ended"
    BY <1>1, RootEnds DEF Teardown
  <2>4. Cardinality(R) \in Nat /\ Cardinality(Starting) \in Nat
    BY LedgerFinite
  <2>. HIDE DEF Q
  <2>. QED  BY <1>1, <2>1, <2>2, <2>3, <2>4 DEF Ledger, Total
<1>. QED  BY <1>9, <1>10, <1>11 DEF Accounted, Ledger

\* The root's teardown gives back what is left of its workers, and its own.
LEMMA TeardownLedger ==
  ASSUME IInv, ThreadStep(Root), NEW R \in SUBSET Workers, Ledger(R), Teardown
  PROVE  Accounted'
<1>k. PICK K : K = kids[Root]
  OBVIOUS
<1>. DEFINE Q == R \ K
<1>1. /\ pc[Root] = "unwind" /\ \A w \in K : pc[w] = "ended"
      /\ UNCHANGED <<fate, task, kids, inflight>>
      /\ slots' = [slots EXCEPT ![Root] = 0] /\ active' = active - (slots[Root] + 1)
  BY <1>k DEF Teardown, Deregister, Set, body
<1>2. /\ Root \in Scheds /\ slots \in [Scheds -> Int] /\ active \in Int
      /\ pc \in [Scheds -> PCs] /\ kids \in [Scheds -> SUBSET Workers]
      /\ inflight \in [Scheds -> Int]
  BY DEF IInv, BaseType, Scheds
<1>3. pc' = [pc EXCEPT ![Root] = "ended"] /\ fate[Root] # "none"
  BY <1>1, <1>2 DEF Teardown, Goto, IInv, Fates, FateOf, Leaving
<1>4. Started(Root) = K
  BY <1>k, <1>1 DEF Started
<1>5. ASSUME NEW u \in Scheds
      PROVE  Started(u)' = Started(u)
  BY <1>1, <1>2, StartedKept
<1>6. Covers(Q)'
  <2>1. \A v \in Q : pc'[v] # "unborn" /\ task'[v] = "live"
    BY <1>1, <1>2, NeverUnborn DEF Ledger, Covers, Scheds
  <2>2. \A v \in Workers : Live(v)' => v \in Q
    BY <1>1, <1>2, LiveStep DEF Ledger, Covers, Live
  <2>. QED  BY <2>1, <2>2 DEF Covers
<1>7. ASSUME NEW u \in Scheds
      PROVE  Booked(Q, u)'
  <2>1. Booked(R, u)
    BY DEF Ledger
  <2>2. CASE u = Root
    <3>1. Q \cap Started(u)' = {} /\ Q \cap kids'[u] = {}
      BY <1>k, <1>1, <1>4, <1>5, <2>2
    <3>2. Cardinality(R \cap kids[u]) \in Nat
      BY LedgerFinite
    <3>3. inflight'[u] >= 0 /\ slots'[u] = 0
      BY <1>1, <1>2, <2>1, <2>2, <3>2 DEF Booked
    <3>. QED  BY <1>1, <1>3, <2>2, <3>1, <3>3, FS_EmptySet DEF Booked
  <2>3. CASE u # Root
    <3>1. \A v \in K : v \notin Started(u) /\ v \notin kids[u]
      BY <1>2, <1>4, <2>3, OneParent DEF Started
    <3>2. Q \cap Started(u)' = R \cap Started(u) /\ Q \cap kids'[u] = R \cap kids[u]
      BY <1>1, <1>5, <3>1
    <3>3. fate[u] = "none" => {v \in Started(u) : task[v] = "live"} \subseteq Q
      BY <2>1, <3>1 DEF Booked
    <3>. QED  BY <1>1, <1>2, <1>5, <2>1, <2>3, <3>2, <3>3 DEF Booked
  <2>. QED  BY <2>2, <2>3
<1>8. Total(Q)'
  <2>1. Starting' = Starting
    BY <1>1, <1>2, <1>3 DEF Starting
  <2>2. Cardinality(Q) = Cardinality(R) - Cardinality(R \cap K)
    BY LedgerFinite, FS_Difference
  <2>3. slots[Root] = Cardinality(R \cap K)
    BY <1>2, <1>4 DEF Ledger, Booked
  <2>4. pc'[Root] = "ended" /\ pc[Root] # "ended"
    BY <1>1, <1>2, <1>3
  <2>5. /\ Cardinality(R) \in Nat /\ Cardinality(Starting) \in Nat
        /\ Cardinality(R \cap K) \in Nat
    BY LedgerFinite
  <2>. HIDE DEF Q
  <2>. QED  BY <1>1, <2>1, <2>2, <2>3, <2>4, <2>5 DEF Ledger, Total
<1>. QED  BY <1>6, <1>7, <1>8 DEF Accounted, Ledger

LEMMA AccountedStep ==
  ASSUME IInv, NEW t \in Scheds, ThreadStep(t)
  PROVE  Accounted'
<1>1. PICK R \in SUBSET Workers : Ledger(R)
  BY DEF IInv, Accounted
<1>2. /\ pc \in [Scheds -> PCs] /\ inflight \in [Scheds -> Int] /\ active \in Int
      /\ kids \in [Scheds -> SUBSET Workers]
  BY DEF IInv, BaseType
<1>3. Cardinality(R) \in Nat /\ Cardinality(Starting) \in Nat /\ IsFiniteSet(Starting)
  BY LedgerFinite
<1>4. \A u \in Scheds : inflight[u] >= Cardinality(R \cap kids[u])
  BY <1>1 DEF Ledger, Booked
<1>5. CASE Plain(t)
  <2>1. Covers(R)' /\ \A u \in Scheds : Booked(R, u)'
    BY <1>1, <1>4, <1>5, LedgerKept DEF Plain
  <2>2. Starting' = Starting
    BY <1>5, StartingStep DEF Plain, Starting
  <2>3. pc'[Root] = "ended" <=> pc[Root] = "ended"
    <3>1. CASE t = Root /\ Teardown
      BY <1>2, <1>5, <3>1 DEF Plain, Teardown, Goto
    <3>. QED  BY <3>1, RootEnds
  <2>4. Total(R)'
    BY <1>1, <1>5, <2>2, <2>3 DEF Plain, Ledger, Total
  <2>. QED  BY <2>1, <2>4 DEF Accounted, Ledger
<1>6. CASE TakeSlot(t)
  <2>1. UNCHANGED <<slots, task, fate, inflight, kids>> /\ active' = active + 1
    BY <1>6 DEF TakeSlot, family, body
  <2>2. pc[t] = "poll" /\ pc'[t] = "start"
    BY <1>2, <1>6 DEF TakeSlot, At, Goto
  <2>3. Covers(R)' /\ \A u \in Scheds : Booked(R, u)'
    BY <1>1, <1>4, <2>1, <2>2, LedgerKept
  <2>4. Starting' = Starting \cup {t} /\ t \notin Starting
    BY <2>2, StartingStep DEF Starting
  <2>5. Cardinality(Starting') = Cardinality(Starting) + 1
    BY <1>3, <2>4, FS_AddElement
  <2>6. pc'[Root] = "ended" <=> pc[Root] = "ended"
    BY <2>2, RootEnds DEF Teardown
  <2>7. Total(R)'
    BY <1>1, <1>3, <2>1, <2>5, <2>6 DEF Ledger, Total
  <2>. QED  BY <2>3, <2>7 DEF Accounted, Ledger
<1>7. CASE Book(t)
  <2>1. UNCHANGED <<slots, task, fate, active>> /\ pc[t] = "book"
    BY <1>7 DEF Book, stall
  <2>2. /\ kids' = [kids EXCEPT ![t] = kids[t] \cup {Op(t).arg}]
        /\ inflight' = [inflight EXCEPT ![t] = inflight[t] + 1]
    BY <1>7 DEF Book, Set
  <2>3. ASSUME NEW u \in Scheds
        PROVE  inflight'[u] >= Cardinality(R \cap kids'[u])
    <3>1. CASE u # t
      BY <1>2, <1>4, <2>2, <3>1
    <3>2. CASE u = t
      <4>1. /\ IsFiniteSet(R \cap kids[t]) /\ Cardinality(R \cap kids[t]) \in Nat
            /\ inflight[t] >= Cardinality(R \cap kids[t])
        BY <1>4, LedgerFinite
      <4>2. R \cap kids'[t] \subseteq (R \cap kids[t]) \cup {Op(t).arg}
        BY <1>2, <2>2
      <4>3. /\ Cardinality(R \cap kids'[t]) \in Nat
            /\ Cardinality(R \cap kids'[t]) <= Cardinality(R \cap kids[t]) + 1
        BY <4>1, <4>2, AtMostOneMore
      <4>4. inflight'[t] = inflight[t] + 1 /\ inflight[t] \in Int
        BY <1>2, <2>2
      <4>. QED  BY <3>2, <4>1, <4>3, <4>4
    <3>. QED  BY <3>1, <3>2
  <2>4. Covers(R)' /\ \A u \in Scheds : Booked(R, u)'
    BY <1>1, <2>1, <2>3, LedgerKept
  <2>5. Starting' = Starting
    <3>1. pc'[t] # "start"
      BY <1>2, <1>7 DEF Book, Goto
    <3>. QED  BY <2>1, <3>1, StartingStep DEF Starting
  <2>6. pc'[Root] = "ended" <=> pc[Root] = "ended"
    BY <2>1, RootEnds DEF Teardown
  <2>7. Total(R)'
    BY <1>1, <2>1, <2>5, <2>6 DEF Ledger, Total
  <2>. QED  BY <2>4, <2>7 DEF Accounted, Ledger
<1>. QED
  BY <1>1, <1>5, <1>6, <1>7, StartThreadLedger, FinishLedger, TeardownLedger, KindsStep DEF Kinds
--------------------------------------------------------------------------------
(* The theorems.                                                           *)

LEMMA InitIInv ==
  ASSUME Init
  PROVE  IInv
<1>1. Root \in Scheds /\ \A w \in Workers : w \in Scheds /\ w # Root
  BY ThreadsAssumption DEF Scheds
<1>2. BaseType
  <2>1. /\ pc \in [Scheds -> PCs] /\ ip \in [Scheds -> Nat] /\ phase \in [Scheds -> SendPhase]
        /\ after \in [Scheds -> {"poll", "round", "unwind", "ended"}]
        /\ fate \in [Scheds -> {"none", "done", "failed", "cancelled", "alone", "deadlock"}]
    BY DEF Init, PCs, SendPhase
  <2>2. /\ woken \in [Scheds -> BOOLEAN] /\ progressed \in [Scheds -> BOOLEAN]
        /\ full \in [Scheds -> BOOLEAN] /\ quiet \in [Scheds -> BOOLEAN]
        /\ cancel \in [Scheds -> BOOLEAN] /\ closed \in [Channels -> BOOLEAN]
        /\ deadlocked \in BOOLEAN
    BY DEF Init
  <2>3. /\ todo \in [Scheds -> SUBSET Workers] /\ kids \in [Scheds -> SUBSET Workers]
        /\ count \in [Scheds -> Nat] /\ inflight \in [Scheds -> Int]
        /\ slots \in [Scheds -> Int] /\ producers \in [Channels -> Int]
        /\ active \in Int /\ parked \in Int
    BY DEF Init
  <2>4. /\ task \in [Workers -> {"live", "result", "cancelled"}]
        /\ report \in [Workers -> {"none", "done", "cancelled", "failed"}]
    BY DEF Init
  <2>5. queue \in [Channels -> Seq(Scheds)]
    BY DEF Init
  <2>. QED  BY <2>1, <2>2, <2>3, <2>4, <2>5 DEF BaseType
<1>3. InBody
  <2>1. \A t \in Scheds : Len(prog[t]) \in Nat
    BY ProgramsAssumption DEF Init
  <2>. QED  BY <1>1, <2>1 DEF Init, InBody, BodyAt
<1>4. Fates
  BY <1>1 DEF Init, Fates, FateOf, ReportOf, Leaving, Reported
<1>5. \A t \in Scheds : Started(t) = {} /\ kids[t] = {}
  BY DEF Init, Started
<1>6. Parentage
  BY <1>1, <1>5 DEF Init, Parentage
<1>7. HoldsExact
  <2>1. \A c \in Channels : Holders(c) = {}
    BY <1>5 DEF Holders
  <2>. QED  BY <2>1, FS_EmptySet DEF Init, HoldsExact
<1>8. Accounted
  <2>1. Starting = {}
    BY DEF Init, Starting
  <2>2. Covers({})
    BY <1>1 DEF Init, Covers, Live
  <2>3. ASSUME NEW t \in Scheds
        PROVE  Booked({}, t)
    <3>1. {} \cap Started(t) = {} /\ {} \cap kids[t] = {} /\ slots[t] = 0 /\ inflight[t] = 0
      BY DEF Init
    <3>2. {w \in Started(t) : task[w] = "live"} \subseteq {}
      BY <1>5
    <3>. QED  BY <3>1, <3>2, FS_EmptySet DEF Booked
  <2>4. Total({})
    BY <1>1, <2>1, FS_EmptySet DEF Init, Total
  <2>. QED  BY <2>2, <2>3, <2>4 DEF Accounted, Ledger
<1>9. ParkedExact
  <2>1. {t \in Scheds : InPark(t)} = {}
    BY DEF Init, InPark
  <2>. QED  BY <2>1, FS_EmptySet DEF Init, ParkedExact
<1>. QED  BY <1>2, <1>3, <1>4, <1>6, <1>7, <1>8, <1>9 DEF IInv

LEMMA NextIInv ==
  ASSUME IInv, [Next]_vars
  PROVE  IInv'
<1>1. ASSUME NEW t \in Scheds, ThreadStep(t)
      PROVE  IInv'
  BY <1>1, BaseTypeStep, InBodyStep, FatesStep, ParentageStep, HoldsExactStep,
     AccountedStep, ParkedExactStep DEF IInv
<1>2. CASE UNCHANGED vars
  <2>1. UNCHANGED <<prog, pc, ip, phase, fate, cancel, count, full, quiet, progressed, after,
                    todo, kids, inflight, slots, task, report, queue, closed, producers,
                    woken, active, parked, deadlocked>>
    BY <1>2 DEF vars, body, waiting, round, family, chans, stall
  <2>2. BaseType' /\ InBody'
    BY <2>1 DEF IInv, BaseType, InBody, BodyAt, Op
  <2>3. Fates'
    BY <2>1 DEF IInv, Fates, FateOf, ReportOf, Leaving, Reported
  <2>4. /\ \A t \in Scheds : Started(t)' = Started(t)
        /\ \A w : Senders(w)' = Senders(w)
        /\ Starting' = Starting
    BY <2>1 DEF Started, Op, Senders, Uses, Family, Starting
  <2>5. Parentage'
    BY <2>1, <2>4 DEF IInv, Parentage
  <2>6. HoldsExact'
    <3>1. \A c \in Channels : Holders(c)' = Holders(c)
      BY <2>1, <2>4 DEF Holders
    <3>. QED  BY <2>1, <3>1 DEF IInv, HoldsExact
  <2>7. Accounted'
    <3>1. PICK R \in SUBSET Workers : Ledger(R)
      BY DEF IInv, Accounted
    <3>2. Covers(R)' /\ Total(R)'
      BY <2>1, <2>4, <3>1 DEF Ledger, Covers, Live, Total
    <3>3. \A t \in Scheds : Booked(R, t)'
      BY <2>1, <2>4, <3>1 DEF Ledger, Booked
    <3>. QED  BY <3>2, <3>3 DEF Accounted, Ledger
  <2>8. ParkedExact'
    <3>1. \A t \in Scheds : InPark(t)' <=> InPark(t)
      BY <2>1 DEF InPark
    <3>2. {t \in Scheds : InPark(t)}' = {t \in Scheds : InPark(t)}
      BY <3>1
    <3>. QED  BY <2>1, <3>2 DEF IInv, ParkedExact
  <2>. QED  BY <2>2, <2>3, <2>5, <2>6, <2>7, <2>8 DEF IInv
<1>. QED  BY <1>1, <1>2 DEF Next

\* The inductive invariant of the whole protocol: positions and fates, who
\* started whom, and the ledgers behind every counter.
THEOREM Invariance == Spec => []IInv
<1>1. Init => IInv
  BY InitIInv
<1>2. IInv /\ [Next]_vars => IInv'
  BY NextIInv
<1>. QED  BY <1>1, <1>2, PTL DEF Spec

LEMMA IInvTypeOK ==
  ASSUME IInv
  PROVE  TypeOK
<1>1. PICK R \in SUBSET Workers : Ledger(R)
  BY DEF IInv, Accounted
<1>2. ASSUME NEW t \in Scheds
      PROVE  slots[t] \in Nat /\ inflight[t] \in Nat
  <2>1. Booked(R, t) /\ inflight[t] \in Int
    BY <1>1 DEF Ledger, IInv, BaseType
  <2>2. Cardinality(R \cap Started(t)) \in Nat /\ Cardinality(R \cap kids[t]) \in Nat
    BY LedgerFinite
  <2>. QED  BY <2>1, <2>2 DEF Booked
<1>3. active \in Nat
  <2>1. Cardinality(R) \in Nat /\ Cardinality(Starting) \in Nat
    BY LedgerFinite
  <2>. QED  BY <1>1, <2>1 DEF Ledger, Total
<1>4. ASSUME NEW c \in Channels
      PROVE  producers[c] \in Nat
  <2>1. IsFiniteSet(Holders(c))
    BY ThreadsAssumption, FS_Subset DEF Holders
  <2>. QED  BY <2>1, FS_CardinalityType DEF IInv, HoldsExact
<1>5. parked \in Nat
  BY ParkedNat DEF IInv
<1>6. slots \in [Scheds -> Nat] /\ inflight \in [Scheds -> Nat] /\ producers \in [Channels -> Nat]
  BY <1>2, <1>4 DEF IInv, BaseType
<1>. QED  BY <1>3, <1>5, <1>6 DEF IInv, BaseType, TypeOK

LEMMA IInvCovers ==
  ASSUME IInv
  PROVE  RegistryCovers
<1>. DEFINE L == {t \in Scheds : Live(t)}
<1>1. PICK R \in SUBSET Workers : Ledger(R)
  BY DEF IInv, Accounted
<1>2. IsFiniteSet(R) /\ Cardinality(R) \in Nat /\ Cardinality(Starting) \in Nat
  BY LedgerFinite
<1>3. L \subseteq R \cup {Root}
  BY <1>1 DEF Ledger, Covers, Scheds
<1>4. CASE pc[Root] = "ended"
  <2>1. L \subseteq R
    BY <1>3, <1>4 DEF Live
  <2>2. IsFiniteSet(L) /\ Cardinality(L) <= Cardinality(R)
    BY <1>2, <2>1, FS_Subset
  <2>3. Cardinality(L) \in Nat
    BY <2>2, FS_CardinalityType
  <2>. HIDE DEF L
  <2>4. Cardinality(L) <= active
    BY <1>1, <1>2, <1>4, <2>2, <2>3 DEF Ledger, Total
  <2>. QED  BY <2>4 DEF RegistryCovers, L
<1>5. CASE pc[Root] # "ended"
  <2>1. Cardinality(L) \in Nat /\ Cardinality(L) <= Cardinality(R) + 1
    BY <1>2, <1>3, AtMostOneMore
  <2>. HIDE DEF L
  <2>2. Cardinality(L) <= active
    BY <1>1, <1>2, <1>5, <2>1 DEF Ledger, Total
  <2>. QED  BY <2>2 DEF RegistryCovers, L
<1>. QED  BY <1>4, <1>5

\* STALL's two counts are right at every moment, for every program: no counter
\* of the scheduler falls below zero (the atomics would wrap), `active` misses
\* no running thread, and `parked` is the number of threads inside `park`.
THEOREM RegistryIsExact == Spec => []RegistryExact
<1>1. IInv => RegistryExact
  BY IInvTypeOK, IInvCovers DEF IInv, RegistryExact
<1>. QED  BY <1>1, Invariance, PTL

\* When a VM's in-flight count is back to zero and it frees the shared argument
\* region, every worker it started has ended.
THEOREM RegionIsOutlived == Spec => []RegionOutlivesBorrowers
<1>1. ASSUME IInv, NEW t \in Scheds, inflight[t] = 0, NEW w \in kids[t]
      PROVE  pc[w] = "ended"
  <2>1. PICK R \in SUBSET Workers : Ledger(R)
    BY <1>1 DEF IInv, Accounted
  <2>2. IsFiniteSet(R \cap kids[t]) /\ Cardinality(R \cap kids[t]) \in Nat
    BY LedgerFinite
  <2>3. Cardinality(R \cap kids[t]) = 0
    <3>1. inflight[t] >= Cardinality(R \cap kids[t])
      BY <1>1, <2>1 DEF Ledger, Booked
    <3>. QED  BY <1>1, <2>2, <3>1
  <2>4. w \notin R
    BY <1>1, <2>2, <2>3, FS_EmptySet
  <2>5. w \in Workers /\ ~Live(w)
    BY <1>1, <2>1, <2>4 DEF Ledger, Covers, IInv, BaseType
  <2>6. pc[w] # "unborn"
    BY <1>1, <2>5 DEF IInv, Parentage, Started
  <2>. QED  BY <2>5, <2>6 DEF Live
<1>2. IInv => RegionOutlivesBorrowers
  BY <1>1 DEF RegionOutlivesBorrowers
<1>. QED  BY <1>2, Invariance, PTL

\* What a parent is told of a worker is what happened to it: a value only of a
\* body that ran to its end, "cancelled" only of one that was cancelled.
THEOREM ReportsAreHonest == Spec => []ReportIsHonest
<1>1. ASSUME IInv, NEW w \in Workers
      PROVE  /\ task[w] = "result" => fate[w] = "done" /\ ip[w] = Len(prog[w]) + 1
             /\ task[w] = "cancelled" => fate[w] = "cancelled"
  <2>1. w \in Scheds /\ ReportOf(w) /\ FateOf(w)
    BY <1>1 DEF Scheds, IInv, Fates
  <2>. QED  BY <2>1 DEF ReportOf, FateOf, Terminal
<1>2. IInv => ReportIsHonest
  BY <1>1 DEF ReportIsHonest
<1>. QED  BY <1>2, Invariance, PTL

\* A receiver that raises E0010 because nothing is outstanding on another
\* thread leaves no message behind: the channel it waits on is among the ones
\* `is_pending` was asked about, closed and drained.
THEOREM MessagesNotAbandoned == Spec => MessageNotAbandoned
<1>. DEFINE A == \A t \in Scheds : pc[t] = "stall" /\ fate'[t] = "alone" /\ Op(t).op = "recv"
                                     => queue[Op(t).arg] = <<>>
<1>1. ASSUME IInv, NEW u \in Scheds, ThreadStep(u), NEW t \in Scheds,
             pc[t] = "stall", fate'[t] = "alone", Op(t).op = "recv"
      PROVE  queue[Op(t).arg] = <<>>
  <2>1. fate[t] = "none" /\ ip[t] <= Len(prog[t])
    BY <1>1 DEF IInv, Fates, FateOf, Leaving, InBody, BodyAt
  <2>2. u = t
    BY <1>1, <2>1, OthersKept DEF Own
  <2>3. /\ pc \in [Scheds -> PCs]
        /\ fate \in [Scheds -> {"none", "done", "failed", "cancelled", "alone", "deadlock"}]
    BY <1>1 DEF IInv, BaseType
  <2>4. StallCheck(t)
    BY <1>1, <2>1, <2>2 DEF ThreadStep, BodyStep, RoundStep, StallStep, Top, Snapshot, Safepoint, Enter,
       ObserveCancel, Notify, RecvGot, RecvNone, RecvPark, SendCheck, SendPush, JoinPoll,
       DoClose, DoCancel, TakeSlot, StartThread, Book, Finish, At, PollPending, Harvest,
       HarvestFailed, RoundDone, Park, CountParked, WaitPast, Confirm, Judge, Unpark,
       Latch, Report, Teardown
  <2>5. ~CrossThreadPending(t)
    BY <1>1, <2>1, <2>3, <2>4 DEF StallCheck, Unwind, Set
  <2>6. ip[t] \in DOMAIN prog[t] /\ Op(t) \in Ops /\ Op(t).arg \in Channels
    BY <1>1, <2>1, OpLegal DEF IInv
  <2>7. Op(t) = Recv(Op(t).arg)
    BY <1>1, <2>6 DEF Ops, Recv, Send, Close, Join, Spawn, Cancel, ScopeEnd
  <2>8. Op(t) \in Uses(t)
    BY <2>6 DEF Uses, Family, Op
  <2>9. Op(t).arg \in Known(t)
    BY <2>6, <2>7, <2>8 DEF Known
  <2>. QED  BY <2>5, <2>9 DEF CrossThreadPending, IsPending
<1>2. ASSUME IInv, [Next]_vars
      PROVE  [A]_vars
  BY <1>1, <1>2 DEF Next
<1>3. IInv /\ [Next]_vars => [A]_vars
  BY <1>2
<1>4. Spec => [][A]_vars
  BY <1>3, Invariance, PTL DEF Spec
<1>. QED  BY <1>4 DEF MessageNotAbandoned
================================================================================
