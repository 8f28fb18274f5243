---------------------------- MODULE ServeFleetProof ----------------------------
(***************************************************************************)
(* Proofs about ServeFleet, for fleets of any size, any number of clients,  *)
(* edits and disconnects.                                                  *)
(***************************************************************************)
EXTENDS ServeFleet, FiniteSetTheorems, SequenceTheorems, WellFoundedInduction, TLAPS

Lives == {"http", "opened", "live"}
Entries == [c : Conns, life : Lives, ready : BOOLEAN, ws : BOOLEAN, code : Nat, gen : Nat,
            told : BOOLEAN]
Purposes == {"nothing", "abort", "reply", "upgrade", "close"}
Jobs == [c : Conns \union {NoConn}, for : Purposes]
PCs == {"boot", "top", "accept", "reap", "driving", "tell", "park", "parked", "over", "ended"}
Fates == {"new", "taken", "replied", "stream", "closed", "dropped"}

\* The types of the state.
Base ==
  /\ mode \in {"plain", "hot", "restarted"} /\ fleet \in SUBSET Workers
  /\ DOMAIN fate \subseteq Conns /\ fate \in [DOMAIN fate -> Fates]
  /\ pc \in [Workers -> PCs]
  /\ closing \in [Workers -> BOOLEAN] /\ held \in [Workers -> BOOLEAN]
  /\ acc \in [Workers -> Conns \union {NoConn, Idle}]
  /\ flight \in [Workers -> Seq(Entries)]
  /\ at \in [Workers -> Nat \ {0}]
  /\ job \in [Workers -> Jobs]
  /\ active \in [Workers -> Int]
  /\ applied \in [Workers -> Nat] /\ hot_gen \in [Workers -> Nat]
  /\ waiters \in SUBSET Workers /\ woken \in [Workers -> {"no", "all", "one"}]
  /\ rouser \in {"idle", "clear", "waiters", "one"}
  /\ saves \in Nat
  /\ plans \in Seq(BOOLEAN)

\* The mailbox.  Cursors are claimed in order, each by one worker of the fleet;
\* a cursor nobody has claimed yet is at the beginning, and one in use has not
\* overtaken the queue.
Consumers == 1..Cardinality(fleet)
Registered == {w \in Workers : slot[w] # 0}
Claims ==
  /\ slot \in [Workers -> Consumers \union {0}]
  /\ Claimed = 1..Cardinality(Registered)
  /\ \A v, w \in Workers : slot[v] = slot[w] /\ slot[w] # 0 => v = w
  /\ Registered \subseteq fleet
  /\ \A w \in Workers : pc[w] = "boot" => slot[w] = 0
  /\ mode = "hot" => \A w \in fleet : slot[w] = 0 => pc[w] = "boot"
Cursors ==
  /\ Len(plans) + saves <= MaxPlans
  /\ cursors \in [Consumers -> 0..RETIRED]
  /\ \A k \in Consumers : /\ cursors[k] # RETIRED => cursors[k] <= Len(plans)
                          /\ k \notin Claimed => cursors[k] = 0
  /\ \A w \in Workers : slot[w] = 0 => applied[w] = 0

\* The serve loop of a worker: what its accept, its job and its position in
\* the reap have to do with each other.
Loop(w) ==
  /\ acc[w] # NoConn => held[w] \/ closing[w]
  /\ pc[w] = "accept" => acc[w] \in Conns
  /\ job[w].for = "nothing" <=> pc[w] # "driving"
  /\ IF job[w].for = "nothing" THEN job[w].c = NoConn ELSE job[w].c \in Conns
  /\ job[w].for \in {"reply", "upgrade", "close"} =>
       at[w] \in DOMAIN flight[w] /\ Here(w).c = job[w].c
  /\ job[w].for \in {"reply", "upgrade"} => Here(w).life = "http"

\* The connections a worker has, each in one place.
Mine(w) ==
  {c \in Conns : \/ acc[w] = c
                 \/ job[w].for = "abort" /\ job[w].c = c
                 \/ \E i \in DOMAIN flight[w] : flight[w][i].c = c}
Once(w) ==
  /\ acc[w] \in Conns /\ job[w].for = "abort" => acc[w] # job[w].c
  /\ \A i \in DOMAIN flight[w] :
       /\ acc[w] # flight[w][i].c
       /\ job[w].for = "abort" => job[w].c # flight[w][i].c
       /\ \A j \in DOMAIN flight[w] : flight[w][i].c = flight[w][j].c => i = j
Open == {c \in DOMAIN fate : fate[c] \in {"taken", "stream"}}
Placed ==
  /\ \A w \in Workers : Mine(w) \subseteq Open
  /\ \A c \in Open : \E w \in Workers : c \in Mine(w)
  /\ \A v, w \in Workers : v # w => Mine(v) \cap Mine(w) = {}

\* The gauge, and the sockets that have to be told.
Gauge(w) ==
  IF pc[w] \in Over THEN active[w] = 0 \/ (active[w] > 0 /\ gone # {})
  ELSE active[w] = Cardinality(Life(w)) - (IF Ended(w) THEN 1 ELSE 0)
Reload(w) ==
  /\ hot_gen[w] <= applied[w]
  /\ pc[w] \in {"park", "parked"} => hot_gen[w] = applied[w]
  /\ \A i \in Sockets(w) :
       flight[w][i].ws /\ flight[w][i].gen < hot_gen[w] => flight[w][i].told

IInv ==
  /\ Base /\ Claims /\ Cursors /\ QueueExact /\ Placed
  /\ \A w \in Workers : Loop(w) /\ Once(w) /\ Gauge(w) /\ Reload(w)
--------------------------------------------------------------------------------
(* Sequences and minima.                                                    *)

LEMMA PutAt ==
  ASSUME NEW S, NEW s \in Seq(S), NEW i \in DOMAIN s, NEW e \in S
  PROVE  /\ [s EXCEPT ![i] = e] \in Seq(S)
         /\ DOMAIN [s EXCEPT ![i] = e] = DOMAIN s
         /\ \A j \in DOMAIN s : [s EXCEPT ![i] = e][j] = IF j = i THEN e ELSE s[j]
<1>. QED  OBVIOUS

\* Taking an entry out moves the ones after it down by one.
LEMMA RemoveAtFacts ==
  ASSUME NEW S, NEW s \in Seq(S), NEW i \in 1..Len(s)
  PROVE  /\ RemoveAt(s, i) \in Seq(S)
         /\ Len(RemoveAt(s, i)) = Len(s) - 1
         /\ \A j \in 1..(Len(s) - 1) : RemoveAt(s, i)[j] = IF j < i THEN s[j] ELSE s[j + 1]
<1>. DEFINE a == SubSeq(s, 1, i - 1)
            b == SubSeq(s, i + 1, Len(s))
<1>0. Len(s) \in Nat OBVIOUS
<1>1. a \in Seq(S) /\ Len(a) = i - 1 /\ \A j \in 1..(i - 1) : a[j] = s[j]
  OBVIOUS
<1>2. b \in Seq(S) /\ Len(b) = Len(s) - i /\ \A j \in 1..(Len(s) - i) : b[j] = s[j + i]
  OBVIOUS
<1>3. RemoveAt(s, i) = a \o b  BY DEF RemoveAt
<1>. HIDE DEF a, b
<1>4. RemoveAt(s, i) \in Seq(S) /\ Len(RemoveAt(s, i)) = Len(s) - 1
  BY <1>0, <1>1, <1>2, <1>3
<1>5. ASSUME NEW j \in 1..(Len(s) - 1)
      PROVE RemoveAt(s, i)[j] = IF j < i THEN s[j] ELSE s[j + 1]
  <2>1. CASE j < i
    BY <1>0, <1>1, <1>2, <1>3, <2>1
  <2>2. CASE j >= i
    <3>1. j - (i - 1) \in 1..(Len(s) - i) BY <1>0, <2>2
    <3>2. (a \o b)[j] = b[j - (i - 1)] BY <1>0, <1>1, <1>2, <2>2
    <3>. QED BY <1>0, <1>2, <1>3, <2>2, <3>1, <3>2
  <2>. QED BY <1>0, <2>1, <2>2
<1>. QED BY <1>4, <1>5

LEMMA MinFacts ==
  ASSUME NEW S \in SUBSET Nat, S # {}
  PROVE  Min(S) \in S /\ \A y \in S : Min(S) <= y
<1>. DEFINE R == {ss \in Nat \X Nat : ss[1] < ss[2]}
<1>0. IsWellFoundedOn(R, Nat)
  BY NatLessThanWellFounded DEF OpToRel
<1>a. S \subseteq Nat /\ S # {} OBVIOUS
<1>1. ASSUME NEW y \in Nat, NEW x \in Nat, y < x
      PROVE <<y, x>> \in R
  <2>1. <<y, x>> \in Nat \X Nat /\ <<y, x>>[1] = y /\ <<y, x>>[2] = x OBVIOUS
  <2>2. <<y, x>>[1] < <<y, x>>[2] BY <1>1, <2>1
  <2>. QED BY <2>1, <2>2, Zenon
<1>. HIDE DEF R
<1>2. PICK x \in S : \A y \in S : ~(<<y, x>> \in R)
  BY <1>0, <1>a, WFMin
<1>3. ASSUME NEW y \in S
      PROVE  x <= y
  <2>1. x \in Nat /\ y \in Nat
    OBVIOUS
  <2>2. ~(y < x)
    BY <1>1, <1>2, <2>1
  <2>. QED  BY <2>1, <2>2
<1>. QED  BY <1>3 DEF Min

--------------------------------------------------------------------------------
(* Who may move what.                                                       *)

\* What belongs to one worker: only its own steps change it.
Local(v) ==
  <<pc[v], closing[v], held[v], acc[v], flight[v], at[v], job[v], active[v], applied[v],
    hot_gen[v]>>

LEMMA OthersKept ==
  ASSUME IInv, NEW w \in fleet, Worker(w) \/ Kernel(w)
  PROVE  \A v \in Workers \ {w} : UNCHANGED Local(v)
<1>. USE DEF Local
<1>a. /\ w \in Workers /\ pc \in [Workers -> PCs] /\ closing \in [Workers -> BOOLEAN]
      /\ held \in [Workers -> BOOLEAN] /\ acc \in [Workers -> Conns \union {NoConn, Idle}]
      /\ flight \in [Workers -> Seq(Entries)] /\ at \in [Workers -> Nat \ {0}]
      /\ job \in [Workers -> Jobs] /\ active \in [Workers -> Int]
      /\ applied \in [Workers -> Nat] /\ hot_gen \in [Workers -> Nat]
  BY DEF IInv, Base
<1>1. CASE Boot(w)
  BY <1>1, <1>a DEF Boot
<1>2. CASE Top(w)
  BY <1>2, <1>a DEF Top
<1>3. ASSUME NEW b \in BOOLEAN, Dispatch(w, b)
      PROVE  \A v \in Workers \ {w} : UNCHANGED Local(v)
  BY <1>3, <1>a DEF Dispatch, Take
<1>4. ASSUME NEW b \in BOOLEAN, DispatchAborts(w, b)
      PROVE  \A v \in Workers \ {w} : UNCHANGED Local(v)
  BY <1>4, <1>a DEF DispatchAborts, Take, begin_exit
<1>5. CASE ReapPending(w)
  BY <1>5, <1>a DEF ReapPending
<1>6. CASE ReapSession(w)
  BY <1>6, <1>a DEF ReapSession
<1>7. ASSUME NEW b \in BOOLEAN, NEW for \in {"reply", "upgrade"}, ReapHandler(w, for, b)
      PROVE  \A v \in Workers \ {w} : UNCHANGED Local(v)
  BY <1>7, <1>a DEF ReapHandler, begin_exit, Drive
<1>8. ASSUME NEW b \in BOOLEAN, EndSession(w, b)
      PROVE  \A v \in Workers \ {w} : UNCHANGED Local(v)
  BY <1>8, <1>a DEF EndSession, begin_exit, Drive
<1>9. ASSUME NEW b \in BOOLEAN, UpgradeAborts(w, b)
      PROVE  \A v \in Workers \ {w} : UNCHANGED Local(v)
  BY <1>9, <1>a DEF UpgradeAborts, begin_exit
<1>10. CASE Driven(w)
  BY <1>10, <1>a DEF Driven, Settle
<1>11. ASSUME NEW ws \in BOOLEAN, Upgraded(w, ws)
       PROVE  \A v \in Workers \ {w} : UNCHANGED Local(v)
  BY <1>11, <1>a DEF Upgraded, Settle
<1>12. CASE DriveFails(w)
  BY <1>12, <1>a DEF DriveFails, Leave
<1>13. CASE Finish(w)
  BY <1>13, <1>a DEF Finish, Leave
<1>14. CASE Tasks(w)
  BY <1>14, <1>a DEF Tasks
<1>15. CASE Tell(w)
  BY <1>15, <1>a DEF Tell
<1>16. CASE Awake(w)
  BY <1>16, <1>a DEF Awake, Harvest
<1>17. CASE Park(w)
  BY <1>17, <1>a DEF Park
<1>18. CASE UnparkWoken(w)
  BY <1>18, <1>a DEF UnparkWoken
<1>19. CASE UnparkWork(w)
  BY <1>19, <1>a DEF UnparkWork, Harvest
<1>20. CASE Retire(w)
  BY <1>20, <1>a DEF Retire
<1>21. CASE Absorb(w)
  BY <1>21, <1>a DEF Absorb, local
<1>22. ASSUME NEW x \in DOMAIN fate, AcceptReady(w, x)
      PROVE  \A v \in Workers \ {w} : UNCHANGED Local(v)
  BY <1>22, <1>a DEF AcceptReady
<1>23. ASSUME NEW n \in 1..Cardinality(Conns), WorkReady(w, n)
      PROVE  \A v \in Workers \ {w} : UNCHANGED Local(v)
  BY <1>23, <1>a DEF WorkReady
<1>24. CASE HandlerTasks(w)
  BY <1>24, <1>a DEF HandlerTasks, Handling, Reached
<1>. QED
  BY <1>1, <1>2, <1>3, <1>4, <1>5, <1>6, <1>7, <1>8, <1>9, <1>10, <1>11, <1>12, <1>13,
       <1>14, <1>15, <1>16, <1>17, <1>18, <1>19, <1>20, <1>21, <1>22, <1>23, <1>24
     DEF Worker, Streams, Kernel
--------------------------------------------------------------------------------
(* Types.                                                                   *)

ControlType ==
  /\ pc \in [Workers -> PCs]
  /\ closing \in [Workers -> BOOLEAN] /\ held \in [Workers -> BOOLEAN]
  /\ at \in [Workers -> Nat \ {0}]
  /\ active \in [Workers -> Int] /\ hot_gen \in [Workers -> Nat]

LEMMA ControlTypeStep ==
  ASSUME IInv, NEW w \in fleet, Worker(w) \/ Kernel(w)
  PROVE  ControlType'
<1>. USE DEF ControlType, PCs
<1>a. ControlType /\ w \in Workers /\ applied \in [Workers -> Nat]
  BY DEF IInv, Base
<1>1. CASE Boot(w)
  BY <1>1, <1>a DEF Boot
<1>2. CASE Top(w)
  BY <1>2, <1>a DEF Top
<1>3. ASSUME NEW b \in BOOLEAN, Dispatch(w, b)
      PROVE  ControlType'
  BY <1>3, <1>a DEF Dispatch, Take
<1>4. ASSUME NEW b \in BOOLEAN, DispatchAborts(w, b)
      PROVE  ControlType'
  BY <1>4, <1>a DEF DispatchAborts, Take, begin_exit
<1>5. CASE ReapPending(w)
  BY <1>5, <1>a DEF ReapPending
<1>6. CASE ReapSession(w)
  BY <1>6, <1>a DEF ReapSession
<1>7. ASSUME NEW b \in BOOLEAN, NEW for \in {"reply", "upgrade"}, ReapHandler(w, for, b)
      PROVE  ControlType'
  BY <1>7, <1>a DEF ReapHandler, begin_exit, Drive
<1>8. ASSUME NEW b \in BOOLEAN, EndSession(w, b)
      PROVE  ControlType'
  BY <1>8, <1>a DEF EndSession, begin_exit, Drive
<1>9. ASSUME NEW b \in BOOLEAN, UpgradeAborts(w, b)
      PROVE  ControlType'
  BY <1>9, <1>a DEF UpgradeAborts, begin_exit
<1>10. CASE Driven(w)
  BY <1>10, <1>a DEF Driven, Settle
<1>11. ASSUME NEW ws \in BOOLEAN, Upgraded(w, ws)
       PROVE  ControlType'
  BY <1>11, <1>a DEF Upgraded, Settle
<1>12. CASE DriveFails(w)
  BY <1>12, <1>a DEF DriveFails, Leave
<1>13. CASE Finish(w)
  BY <1>13, <1>a DEF Finish, Leave
<1>14. CASE Tasks(w)
  BY <1>14, <1>a DEF Tasks
<1>15. CASE Tell(w)
  BY <1>15, <1>a DEF Tell, swap_count
<1>16. CASE Awake(w)
  BY <1>16, <1>a DEF Awake, Harvest
<1>17. CASE Park(w)
  BY <1>17, <1>a DEF Park
<1>18. CASE UnparkWoken(w)
  BY <1>18, <1>a DEF UnparkWoken
<1>19. CASE UnparkWork(w)
  BY <1>19, <1>a DEF UnparkWork, Harvest
<1>20. CASE Retire(w)
  BY <1>20, <1>a DEF Retire
<1>21. CASE Absorb(w)
  BY <1>21, <1>a DEF Absorb, local
<1>22. ASSUME NEW x \in DOMAIN fate, AcceptReady(w, x)
      PROVE  ControlType'
  BY <1>22, <1>a DEF AcceptReady
<1>23. ASSUME NEW n \in 1..Cardinality(Conns), WorkReady(w, n)
      PROVE  ControlType'
  BY <1>23, <1>a DEF WorkReady
<1>24. CASE HandlerTasks(w)
  BY <1>24, <1>a DEF HandlerTasks, Handling, Reached
<1>. QED
  BY <1>1, <1>2, <1>3, <1>4, <1>5, <1>6, <1>7, <1>8, <1>9, <1>10, <1>11, <1>12, <1>13,
       <1>14, <1>15, <1>16, <1>17, <1>18, <1>19, <1>20, <1>21, <1>22, <1>23, <1>24
     DEF Worker, Streams, Kernel

LEMMA AcceptTypeStep ==
  ASSUME IInv, NEW w \in fleet, Worker(w) \/ Kernel(w)
  PROVE  acc' \in [Workers -> Conns \union {NoConn, Idle}]
<1>a. acc \in [Workers -> Conns \union {NoConn, Idle}] /\ DOMAIN fate \subseteq Conns
  BY DEF IInv, Base
<1>1. CASE Boot(w)
  BY <1>1, <1>a DEF Boot
<1>2. CASE Top(w)
  BY <1>2, <1>a DEF Top
<1>3. ASSUME NEW b \in BOOLEAN, Dispatch(w, b)
      PROVE  acc' \in [Workers -> Conns \union {NoConn, Idle}]
  BY <1>3, <1>a DEF Dispatch, Take
<1>4. ASSUME NEW b \in BOOLEAN, DispatchAborts(w, b)
      PROVE  acc' \in [Workers -> Conns \union {NoConn, Idle}]
  BY <1>4, <1>a DEF DispatchAborts, Take, begin_exit
<1>5. CASE ReapPending(w)
  BY <1>5, <1>a DEF ReapPending
<1>6. CASE ReapSession(w)
  BY <1>6, <1>a DEF ReapSession
<1>7. ASSUME NEW b \in BOOLEAN, NEW for \in {"reply", "upgrade"}, ReapHandler(w, for, b)
      PROVE  acc' \in [Workers -> Conns \union {NoConn, Idle}]
  BY <1>7, <1>a DEF ReapHandler, begin_exit, Drive
<1>8. ASSUME NEW b \in BOOLEAN, EndSession(w, b)
      PROVE  acc' \in [Workers -> Conns \union {NoConn, Idle}]
  BY <1>8, <1>a DEF EndSession, begin_exit, Drive
<1>9. ASSUME NEW b \in BOOLEAN, UpgradeAborts(w, b)
      PROVE  acc' \in [Workers -> Conns \union {NoConn, Idle}]
  BY <1>9, <1>a DEF UpgradeAborts, begin_exit
<1>10. CASE Driven(w)
  BY <1>10, <1>a DEF Driven, Settle
<1>11. ASSUME NEW ws \in BOOLEAN, Upgraded(w, ws)
       PROVE  acc' \in [Workers -> Conns \union {NoConn, Idle}]
  BY <1>11, <1>a DEF Upgraded, Settle
<1>12. CASE DriveFails(w)
  BY <1>12, <1>a DEF DriveFails, Leave
<1>13. CASE Finish(w)
  BY <1>13, <1>a DEF Finish, Leave
<1>14. CASE Tasks(w)
  BY <1>14, <1>a DEF Tasks
<1>15. CASE Tell(w)
  BY <1>15, <1>a DEF Tell
<1>16. CASE Awake(w)
  BY <1>16, <1>a DEF Awake, Harvest
<1>17. CASE Park(w)
  BY <1>17, <1>a DEF Park
<1>18. CASE UnparkWoken(w)
  BY <1>18, <1>a DEF UnparkWoken
<1>19. CASE UnparkWork(w)
  BY <1>19, <1>a DEF UnparkWork, Harvest
<1>20. CASE Retire(w)
  BY <1>20, <1>a DEF Retire
<1>21. CASE Absorb(w)
  BY <1>21, <1>a DEF Absorb, local
<1>22. ASSUME NEW x \in DOMAIN fate, AcceptReady(w, x)
      PROVE  acc' \in [Workers -> Conns \union {NoConn, Idle}]
  BY <1>22, <1>a DEF AcceptReady
<1>23. ASSUME NEW n \in 1..Cardinality(Conns), WorkReady(w, n)
      PROVE  acc' \in [Workers -> Conns \union {NoConn, Idle}]
  BY <1>23, <1>a DEF WorkReady
<1>24. CASE HandlerTasks(w)
  BY <1>24, <1>a DEF HandlerTasks, Handling, Reached
<1>. QED
  BY <1>1, <1>2, <1>3, <1>4, <1>5, <1>6, <1>7, <1>8, <1>9, <1>10, <1>11, <1>12, <1>13,
       <1>14, <1>15, <1>16, <1>17, <1>18, <1>19, <1>20, <1>21, <1>22, <1>23, <1>24
     DEF Worker, Streams, Kernel

LEMMA JobTypeStep ==
  ASSUME IInv, NEW w \in fleet, Worker(w) \/ Kernel(w)
  PROVE  job' \in [Workers -> Jobs]
<1>. USE DEF Jobs, Purposes
<1>a. /\ w \in Workers /\ job \in [Workers -> Jobs] /\ Loop(w) /\ NoJob \in Jobs
      /\ flight \in [Workers -> Seq(Entries)]
  BY DEF IInv, Base, NoJob
<1>1. CASE Boot(w)
  BY <1>1, <1>a DEF Boot
<1>2. CASE Top(w)
  BY <1>2, <1>a DEF Top
<1>3. ASSUME NEW b \in BOOLEAN, Dispatch(w, b)
      PROVE  job' \in [Workers -> Jobs]
  BY <1>3, <1>a DEF Dispatch, Take
<1>4. ASSUME NEW b \in BOOLEAN, DispatchAborts(w, b)
      PROVE  job' \in [Workers -> Jobs]
  BY <1>4, <1>a DEF DispatchAborts, Take, begin_exit, Loop
<1>5. CASE ReapPending(w)
  BY <1>5, <1>a DEF ReapPending
<1>6. CASE ReapSession(w)
  BY <1>6, <1>a DEF ReapSession
<1>7. ASSUME NEW b \in BOOLEAN, NEW for \in {"reply", "upgrade"}, ReapHandler(w, for, b)
      PROVE  job' \in [Workers -> Jobs]
  <2>1. at[w] \in DOMAIN flight[w]
    BY <1>7 DEF ReapHandler, Reached
  <2>2. flight[w][at[w]] \in Entries
    BY <1>a, <2>1
  <2>3. Here(w).c \in Conns
    BY <2>2 DEF Here, Entries
  <2>. QED  BY <1>7, <1>a, <2>3 DEF ReapHandler, Drive
<1>8. ASSUME NEW b \in BOOLEAN, EndSession(w, b)
      PROVE  job' \in [Workers -> Jobs]
  <2>1. at[w] \in DOMAIN flight[w]
    BY <1>8 DEF EndSession, Reached
  <2>2. flight[w][at[w]] \in Entries
    BY <1>a, <2>1
  <2>3. Here(w).c \in Conns
    BY <2>2 DEF Here, Entries
  <2>. QED  BY <1>8, <1>a, <2>3 DEF EndSession, Drive
<1>9. ASSUME NEW b \in BOOLEAN, UpgradeAborts(w, b)
      PROVE  job' \in [Workers -> Jobs]
  BY <1>9, <1>a DEF UpgradeAborts, begin_exit
<1>10. CASE Driven(w)
  BY <1>10, <1>a DEF Driven, Settle
<1>11. ASSUME NEW ws \in BOOLEAN, Upgraded(w, ws)
       PROVE  job' \in [Workers -> Jobs]
  BY <1>11, <1>a DEF Upgraded, Settle
<1>12. CASE DriveFails(w)
  BY <1>12, <1>a DEF DriveFails, Leave
<1>13. CASE Finish(w)
  BY <1>13, <1>a DEF Finish, Leave
<1>14. CASE Tasks(w)
  BY <1>14, <1>a DEF Tasks
<1>15. CASE Tell(w)
  BY <1>15, <1>a DEF Tell
<1>16. CASE Awake(w)
  BY <1>16, <1>a DEF Awake, Harvest
<1>17. CASE Park(w)
  BY <1>17, <1>a DEF Park
<1>18. CASE UnparkWoken(w)
  BY <1>18, <1>a DEF UnparkWoken
<1>19. CASE UnparkWork(w)
  BY <1>19, <1>a DEF UnparkWork, Harvest
<1>20. CASE Retire(w)
  BY <1>20, <1>a DEF Retire
<1>21. CASE Absorb(w)
  BY <1>21, <1>a DEF Absorb, local
<1>22. ASSUME NEW x \in DOMAIN fate, AcceptReady(w, x)
      PROVE  job' \in [Workers -> Jobs]
  BY <1>22, <1>a DEF AcceptReady
<1>23. ASSUME NEW n \in 1..Cardinality(Conns), WorkReady(w, n)
      PROVE  job' \in [Workers -> Jobs]
  BY <1>23, <1>a DEF WorkReady
<1>24. CASE HandlerTasks(w)
  BY <1>24, <1>a DEF HandlerTasks, Handling, Reached
<1>. QED
  BY <1>1, <1>2, <1>3, <1>4, <1>5, <1>6, <1>7, <1>8, <1>9, <1>10, <1>11, <1>12, <1>13,
       <1>14, <1>15, <1>16, <1>17, <1>18, <1>19, <1>20, <1>21, <1>22, <1>23, <1>24
     DEF Worker, Streams, Kernel

LEMMA FlightTypeStep ==
  ASSUME IInv, NEW w \in fleet, Worker(w) \/ Kernel(w)
  PROVE  flight' \in [Workers -> Seq(Entries)]
<1>a. /\ w \in Workers /\ flight \in [Workers -> Seq(Entries)] /\ applied \in [Workers -> Nat]
      /\ acc \in [Workers -> Conns \union {NoConn, Idle}] /\ Loop(w)
  BY DEF IInv, Base
<1>b. ASSUME NEW i \in DOMAIN flight[w]
      PROVE  flight[w][i] \in Entries
  BY <1>a, <1>b
<1>c. ASSUME NEW i \in DOMAIN flight[w], NEW e \in Entries
      PROVE  [flight EXCEPT ![w] = [flight[w] EXCEPT ![i] = e]] \in [Workers -> Seq(Entries)]
  <2>1. [flight[w] EXCEPT ![i] = e] \in Seq(Entries)
    BY <1>a, PutAt
  <2>. QED  BY <1>a, <2>1
<1>1. CASE Boot(w)
  BY <1>1, <1>a DEF Boot
<1>2. CASE Top(w)
  BY <1>2, <1>a DEF Top
<1>3. ASSUME NEW b \in BOOLEAN, Dispatch(w, b)
      PROVE  flight' \in [Workers -> Seq(Entries)]
  <2>1. Entry(w, acc[w], b) \in Entries
    BY <1>3, <1>a DEF Dispatch, Take, Loop, Entry, Entries, Lives
  <2>2. Append(flight[w], Entry(w, acc[w], b)) \in Seq(Entries)
    BY <1>a, <2>1
  <2>. QED  BY <1>3, <1>a, <2>2 DEF Dispatch
<1>4. ASSUME NEW b \in BOOLEAN, DispatchAborts(w, b)
      PROVE  flight' \in [Workers -> Seq(Entries)]
  BY <1>4, <1>a DEF DispatchAborts, Take, begin_exit
<1>5. CASE ReapPending(w)
  BY <1>5, <1>a DEF ReapPending
<1>6. CASE ReapSession(w)
  <2>. DEFINE e == [flight[w][at[w]] EXCEPT !.life = "live", !.ready = FALSE]
  <2>1. at[w] \in DOMAIN flight[w]
    BY <1>6, <1>a DEF ReapSession, Reached
  <2>2. e \in Entries
    BY <1>a, <1>b, <2>1 DEF Entries, Lives
  <2>3. flight' = [flight EXCEPT ![w] = [flight[w] EXCEPT ![at[w]] = e]]
    BY <1>6 DEF ReapSession
  <2>. HIDE DEF e
  <2>. QED  BY <1>c, <2>1, <2>2, <2>3
<1>7. ASSUME NEW b \in BOOLEAN, NEW for \in {"reply", "upgrade"}, ReapHandler(w, for, b)
      PROVE  flight' \in [Workers -> Seq(Entries)]
  BY <1>7, <1>a DEF ReapHandler, begin_exit, Drive
<1>8. ASSUME NEW b \in BOOLEAN, EndSession(w, b)
      PROVE  flight' \in [Workers -> Seq(Entries)]
  BY <1>8, <1>a DEF EndSession, begin_exit, Drive
<1>9. ASSUME NEW b \in BOOLEAN, UpgradeAborts(w, b)
      PROVE  flight' \in [Workers -> Seq(Entries)]
  BY <1>9, <1>a DEF UpgradeAborts, begin_exit
<1>10. CASE Driven(w)
  <2>1. CASE job[w].for = "abort"
    BY <1>10, <1>a, <2>1 DEF Driven
  <2>2. CASE job[w].for # "abort"
    <3>1. at[w] \in 1..Len(flight[w])
      BY <1>10, <1>a, <2>2 DEF Driven, Loop
    <3>2. RemoveAt(flight[w], at[w]) \in Seq(Entries)
      BY <1>a, <3>1, RemoveAtFacts
    <3>. QED  BY <1>10, <1>a, <2>2, <3>2 DEF Driven
  <2>. QED  BY <2>1, <2>2
<1>11. ASSUME NEW ws \in BOOLEAN, Upgraded(w, ws)
       PROVE  flight' \in [Workers -> Seq(Entries)]
  <2>. DEFINE e == [flight[w][at[w]] EXCEPT !.life = "opened", !.ws = ws, !.gen = applied[w]]
  <2>1. at[w] \in DOMAIN flight[w]
    BY <1>11, <1>a DEF Upgraded, Loop
  <2>2. e \in Entries
    BY <1>a, <1>b, <2>1 DEF Entries, Lives
  <2>3. flight' = [flight EXCEPT ![w] = [flight[w] EXCEPT ![at[w]] = e]]
    BY <1>11 DEF Upgraded
  <2>. HIDE DEF e
  <2>. QED  BY <1>c, <2>1, <2>2, <2>3
<1>12. CASE DriveFails(w)
  BY <1>12, <1>a DEF DriveFails, Leave
<1>13. CASE Finish(w)
  BY <1>13, <1>a DEF Finish, Leave
<1>14. CASE Tasks(w)
  BY <1>14, <1>a DEF Tasks
<1>15. CASE Tell(w)
  <2>. DEFINE landed == swap_count(w) # hot_gen[w]
             f == [i \in DOMAIN flight[w] |->
                     [flight[w][i] EXCEPT !.told = flight[w][i].told \/ (landed /\ i \in Audience(w))]]
  <2>1. \A i \in DOMAIN flight[w] : f[i] \in Entries
    BY <1>b DEF Entries
  <2>2. f \in Seq(Entries)
    <3>1. Len(flight[w]) \in Nat /\ DOMAIN flight[w] = 1..Len(flight[w])
      BY <1>a
    <3>2. f \in [1..Len(flight[w]) -> Entries]
      BY <2>1, <3>1
    <3>. QED  BY <3>1, <3>2
  <2>3. flight' = [flight EXCEPT ![w] = f]
    BY <1>15 DEF Tell
  <2>. HIDE DEF f
  <2>. QED  BY <1>a, <2>2, <2>3
<1>16. CASE Awake(w)
  BY <1>16, <1>a DEF Awake, Harvest
<1>17. CASE Park(w)
  BY <1>17, <1>a DEF Park
<1>18. CASE UnparkWoken(w)
  BY <1>18, <1>a DEF UnparkWoken
<1>19. CASE UnparkWork(w)
  BY <1>19, <1>a DEF UnparkWork, Harvest
<1>20. CASE Retire(w)
  BY <1>20, <1>a DEF Retire
<1>21. CASE Absorb(w)
  BY <1>21, <1>a DEF Absorb, local
<1>22. ASSUME NEW x \in DOMAIN fate, AcceptReady(w, x)
      PROVE  flight' \in [Workers -> Seq(Entries)]
  BY <1>22, <1>a DEF AcceptReady
<1>23. ASSUME NEW n \in 1..Cardinality(Conns), WorkReady(w, n)
      PROVE  flight' \in [Workers -> Seq(Entries)]
  <2>. DEFINE e == [flight[w][n] EXCEPT !.ready = TRUE]
  <2>1. n \in DOMAIN flight[w]
    BY <1>23, <1>a DEF WorkReady
  <2>2. e \in Entries
    BY <1>a, <1>b, <2>1 DEF Entries, Lives
  <2>3. flight' = [flight EXCEPT ![w] = [flight[w] EXCEPT ![n] = e]]
    BY <1>23 DEF WorkReady
  <2>. HIDE DEF e
  <2>. QED  BY <1>c, <2>1, <2>2, <2>3
<1>24. CASE HandlerTasks(w)
  BY <1>24, <1>a DEF HandlerTasks, Handling, Reached
<1>. QED
  BY <1>1, <1>2, <1>3, <1>4, <1>5, <1>6, <1>7, <1>8, <1>9, <1>10, <1>11, <1>12, <1>13,
       <1>14, <1>15, <1>16, <1>17, <1>18, <1>19, <1>20, <1>21, <1>22, <1>23, <1>24
     DEF Worker, Streams, Kernel
--------------------------------------------------------------------------------
(* The mailbox.                                                             *)

LEMMA FleetFinite ==
  ASSUME Base
  PROVE  /\ IsFiniteSet(Workers) /\ IsFiniteSet(fleet) /\ Cardinality(fleet) \in Nat
         /\ \A S \in SUBSET fleet : IsFiniteSet(S) /\ Cardinality(S) \in Nat
<1>1. IsFiniteSet(fleet)
  BY QueueBounds, FS_Subset DEF Base
<1>. QED  BY <1>1, QueueBounds, FS_Subset, FS_CardinalityType

\* What a registered worker has to take: its cursor is in use and behind.
LEMMA PendingFacts ==
  ASSUME IInv, NEW w \in Workers, slot[w] # 0, Pending(w) # {}
  PROVE  /\ slot[w] \in Consumers /\ cursors[slot[w]] \in Nat
         /\ cursors[slot[w]] # RETIRED /\ cursors[slot[w]] < Len(plans)
         /\ Cardinality(Pending(w)) = Len(plans) - cursors[slot[w]]
<1>. DEFINE k == slot[w]
<1>1. k \in Consumers /\ cursors[k] \in 0..RETIRED /\ Len(plans) \in Nat /\ saves \in Nat
  BY DEF IInv, Base, Claims, Cursors
<1>2. MaxPlans \in Nat /\ Len(plans) + saves <= MaxPlans
  BY QueueBounds DEF IInv, Cursors
<1>3. cursors[k] \in Nat /\ cursors[k] < Len(plans)
  BY <1>1, <1>2 DEF Pending, RETIRED
<1>4. cursors[k] # RETIRED
  BY <1>1, <1>2, <1>3 DEF RETIRED
<1>5. Cardinality(Pending(w)) = Len(plans) - cursors[k]
  <2>. DEFINE a == cursors[k] + 1
              b == Len(plans)
  <2>1. a \in Int /\ b \in Int /\ ~(a > b) /\ b - a + 1 = Len(plans) - cursors[k]
    BY <1>1, <1>3
  <2>. HIDE DEF a, b
  <2>2. Cardinality(a..b) = b - a + 1
    BY <2>1, FS_Interval
  <2>. QED  BY <2>1, <2>2 DEF Pending, a, b
<1>. QED  BY <1>1, <1>3, <1>4, <1>5

\* A worker that applies swaps has registered.
LEMMA TasksRegistered ==
  ASSUME IInv, NEW w \in fleet, Tasks(w), ~NothingPending(w)
  PROVE  w \in Workers /\ slot[w] # 0 /\ Pending(w) # {}
<1>1. mode = "hot" /\ Pending(w) # {} /\ pc[w] = "reap"
  BY DEF Tasks, Reaped, NothingPending
<1>. QED  BY <1>1 DEF IInv, Base, Claims

LEMMA HandlerRegistered ==
  ASSUME IInv, NEW w \in fleet, HandlerTasks(w)
  PROVE  w \in Workers /\ slot[w] # 0 /\ Pending(w) # {} /\ drain(w)
<1>1. mode = "hot" /\ Pending(w) # {} /\ pc[w] = "reap" /\ drain(w)
  BY DEF HandlerTasks, Handling, Reached, NothingPending
<1>. QED  BY <1>1 DEF IInv, Base, Claims

LEMMA AppliedTypeStep ==
  ASSUME IInv, NEW w \in fleet, Worker(w) \/ Kernel(w)
  PROVE  applied' \in [Workers -> Nat]
<1>a. applied \in [Workers -> Nat]
  BY DEF IInv, Base
<1>1. CASE Boot(w)
  BY <1>1, <1>a DEF Boot
<1>2. CASE Top(w)
  BY <1>2, <1>a DEF Top
<1>3. ASSUME NEW b \in BOOLEAN, Dispatch(w, b)
      PROVE  applied' \in [Workers -> Nat]
  BY <1>3, <1>a DEF Dispatch, Take
<1>4. ASSUME NEW b \in BOOLEAN, DispatchAborts(w, b)
      PROVE  applied' \in [Workers -> Nat]
  BY <1>4, <1>a DEF DispatchAborts, Take, begin_exit
<1>5. CASE ReapPending(w)
  BY <1>5, <1>a DEF ReapPending
<1>6. CASE ReapSession(w)
  BY <1>6, <1>a DEF ReapSession
<1>7. ASSUME NEW b \in BOOLEAN, NEW for \in {"reply", "upgrade"}, ReapHandler(w, for, b)
      PROVE  applied' \in [Workers -> Nat]
  BY <1>7, <1>a DEF ReapHandler, begin_exit, Drive
<1>8. ASSUME NEW b \in BOOLEAN, EndSession(w, b)
      PROVE  applied' \in [Workers -> Nat]
  BY <1>8, <1>a DEF EndSession, begin_exit, Drive
<1>9. ASSUME NEW b \in BOOLEAN, UpgradeAborts(w, b)
      PROVE  applied' \in [Workers -> Nat]
  BY <1>9, <1>a DEF UpgradeAborts, begin_exit
<1>10. CASE Driven(w)
  BY <1>10, <1>a DEF Driven, Settle
<1>11. ASSUME NEW ws \in BOOLEAN, Upgraded(w, ws)
       PROVE  applied' \in [Workers -> Nat]
  BY <1>11, <1>a DEF Upgraded, Settle
<1>12. CASE DriveFails(w)
  BY <1>12, <1>a DEF DriveFails, Leave
<1>13. CASE Finish(w)
  BY <1>13, <1>a DEF Finish, Leave
<1>14. CASE Tasks(w)
  <2>1. CASE NothingPending(w)
    BY <1>14, <1>a, <2>1 DEF Tasks
  <2>2. CASE ~NothingPending(w)
    <3>1. w \in Workers /\ Cardinality(Pending(w)) = Len(plans) - cursors[slot[w]]
      BY <1>14, <2>2, TasksRegistered, PendingFacts
    <3>2. cursors[slot[w]] \in Nat /\ cursors[slot[w]] < Len(plans) /\ Len(plans) \in Nat
      BY SMTT(30), <1>14, <2>2, TasksRegistered, PendingFacts DEF IInv, Base
    <3>3. Cardinality(Pending(w)) \in Nat
      BY <3>1, <3>2
    <3>. QED  BY <1>14, <1>a, <2>2, <3>3 DEF Tasks
  <2>. QED  BY <2>1, <2>2
<1>15. CASE Tell(w)
  BY <1>15, <1>a DEF Tell
<1>16. CASE Awake(w)
  BY <1>16, <1>a DEF Awake, Harvest
<1>17. CASE Park(w)
  BY <1>17, <1>a DEF Park
<1>18. CASE UnparkWoken(w)
  BY <1>18, <1>a DEF UnparkWoken
<1>19. CASE UnparkWork(w)
  BY <1>19, <1>a DEF UnparkWork, Harvest
<1>20. CASE Retire(w)
  BY <1>20, <1>a DEF Retire
<1>21. CASE Absorb(w)
  BY <1>21, <1>a DEF Absorb, local
<1>22. ASSUME NEW x \in DOMAIN fate, AcceptReady(w, x)
      PROVE  applied' \in [Workers -> Nat]
  BY <1>22, <1>a DEF AcceptReady
<1>23. ASSUME NEW n \in 1..Cardinality(Conns), WorkReady(w, n)
      PROVE  applied' \in [Workers -> Nat]
  BY <1>23, <1>a DEF WorkReady
<1>24. CASE HandlerTasks(w)
  <2>1. w \in Workers /\ Cardinality(Pending(w)) = Len(plans) - cursors[slot[w]]
    BY <1>24, HandlerRegistered, PendingFacts
  <2>2. cursors[slot[w]] \in Nat /\ cursors[slot[w]] < Len(plans) /\ Len(plans) \in Nat
    BY <1>24, HandlerRegistered, PendingFacts DEF IInv, Base
  <2>3. Cardinality(Pending(w)) \in Nat
    BY <2>1, <2>2
  <2>4. applied' = [applied EXCEPT ![w] = applied[w] + Cardinality(Pending(w))]
    BY <1>24 DEF HandlerTasks
  <2>5. applied[w] + Cardinality(Pending(w)) \in Nat
    BY <1>a, <2>1, <2>3
  <2>. QED  BY <1>a, <2>4, <2>5
<1>. QED
  BY <1>1, <1>2, <1>3, <1>4, <1>5, <1>6, <1>7, <1>8, <1>9, <1>10, <1>11, <1>12, <1>13,
       <1>14, <1>15, <1>16, <1>17, <1>18, <1>19, <1>20, <1>21, <1>22, <1>23, <1>24
     DEF Worker, Streams, Kernel

\* `drain`: the frontier is no further than the slowest cursor, and the
\* tombstones end there.
LEMMA DrainFacts ==
  ASSUME IInv, NEW w \in Workers, slot[w] # 0, drain(w)
  PROVE  /\ cursors' = [cursors EXCEPT ![slot[w]] = Len(plans)] /\ slot' = slot
         /\ plans' \in Seq(BOOLEAN) /\ Len(plans') = Len(plans)
         /\ \A i \in DOMAIN plans : ~plans'[i] => ~plans[i] \/ \A k \in Consumers : i <= cursors'[k]
         /\ hole' = (hole \/ \E i \in Pending(w) : ~plans[i])
<1>. DEFINE adv == [cursors EXCEPT ![slot[w]] = Len(plans)]
            S == Range(adv) \union {Len(plans)}
<1>1. /\ slot[w] \in Consumers /\ cursors \in [Consumers -> 0..RETIRED] /\ Len(plans) \in Nat
      /\ plans \in Seq(BOOLEAN) /\ RETIRED \in Nat
  <2>1. RETIRED \in Nat
    BY QueueBounds DEF RETIRED
  <2>2. slot[w] \in Consumers
    BY DEF IInv, Claims
  <2>3. plans \in Seq(BOOLEAN) /\ Len(plans) \in Nat
    BY DEF IInv, Base
  <2>. QED  BY <2>1, <2>2, <2>3 DEF IInv, Cursors
<1>2. adv \in [Consumers -> Nat]
  BY <1>1
<1>3. S \in SUBSET Nat /\ S # {} /\ \A k \in Consumers : adv[k] \in S
  BY <1>1, <1>2 DEF Range
<1>4. Min(S) \in Nat /\ \A k \in Consumers : Min(S) <= adv[k]
  BY <1>3, MinFacts
<1>5. /\ cursors' = adv /\ slot' = slot
      /\ plans' = [i \in DOMAIN plans |-> plans[i] /\ i > Min(S)]
      /\ hole' = (hole \/ \E i \in Pending(w) : ~plans[i])
  BY DEF drain, collect
<1>. HIDE DEF S
<1>6. plans' \in Seq(BOOLEAN) /\ Len(plans') = Len(plans) /\ DOMAIN plans' = DOMAIN plans
  <2>1. DOMAIN plans = 1..Len(plans)
    BY <1>1
  <2>2. plans' \in [1..Len(plans) -> BOOLEAN]
    BY <1>5, <2>1
  <2>. QED  BY <1>1, <2>1, <2>2
<1>7. ASSUME NEW i \in DOMAIN plans, ~plans'[i], NEW k \in Consumers
      PROVE  ~plans[i] \/ i <= cursors'[k]
  <2>1. ~plans[i] \/ ~(i > Min(S))
    BY <1>5, <1>7
  <2>2. i \in Nat
    BY <1>1
  <2>. QED  BY <1>2, <1>4, <1>5, <2>1, <2>2
<1>. QED  BY <1>5, <1>6, <1>7
--------------------------------------------------------------------------------
(* Claims and cursors.                                                      *)

LEMMA ProcessKept ==
  ASSUME IInv, NEW w \in fleet, Worker(w) \/ Kernel(w)
  PROVE  UNCHANGED <<mode, fleet, saves, rouser, shutdown, gone>>
<1>1. CASE Boot(w)
  BY <1>1 DEF Boot, process, world
<1>2. CASE Top(w)
  BY <1>2 DEF Top, process, world
<1>3. ASSUME NEW b \in BOOLEAN, Dispatch(w, b)
      PROVE  UNCHANGED <<mode, fleet, saves, rouser, shutdown, gone>>
  BY <1>3 DEF Dispatch, Take, process, world
<1>4. ASSUME NEW b \in BOOLEAN, DispatchAborts(w, b)
      PROVE  UNCHANGED <<mode, fleet, saves, rouser, shutdown, gone>>
  BY <1>4 DEF DispatchAborts, Take, begin_exit, process, world
<1>5. CASE ReapPending(w)
  BY <1>5 DEF ReapPending, process, world
<1>6. CASE ReapSession(w)
  BY <1>6 DEF ReapSession, process, world
<1>7. ASSUME NEW b \in BOOLEAN, NEW for \in {"reply", "upgrade"}, ReapHandler(w, for, b)
      PROVE  UNCHANGED <<mode, fleet, saves, rouser, shutdown, gone>>
  BY <1>7 DEF ReapHandler, begin_exit, Drive, process, world
<1>8. ASSUME NEW b \in BOOLEAN, EndSession(w, b)
      PROVE  UNCHANGED <<mode, fleet, saves, rouser, shutdown, gone>>
  BY <1>8 DEF EndSession, begin_exit, Drive, process, world
<1>9. ASSUME NEW b \in BOOLEAN, UpgradeAborts(w, b)
      PROVE  UNCHANGED <<mode, fleet, saves, rouser, shutdown, gone>>
  BY <1>9 DEF UpgradeAborts, begin_exit, process, world
<1>10. CASE Driven(w)
  BY <1>10 DEF Driven, Settle, process, world
<1>11. ASSUME NEW ws \in BOOLEAN, Upgraded(w, ws)
       PROVE  UNCHANGED <<mode, fleet, saves, rouser, shutdown, gone>>
  BY <1>11 DEF Upgraded, Settle, process, world
<1>12. CASE DriveFails(w)
  BY <1>12 DEF DriveFails, Leave, process, world
<1>13. CASE Finish(w)
  BY <1>13 DEF Finish, Leave, process, world
<1>14. CASE Tasks(w)
  BY <1>14 DEF Tasks, process, world
<1>15. CASE Tell(w)
  BY <1>15 DEF Tell, process, world
<1>16. CASE Awake(w)
  BY <1>16 DEF Awake, Harvest, process, world
<1>17. CASE Park(w)
  BY <1>17 DEF Park, process, world
<1>18. CASE UnparkWoken(w)
  BY <1>18 DEF UnparkWoken, process, world
<1>19. CASE UnparkWork(w)
  BY <1>19 DEF UnparkWork, Harvest, process, world
<1>20. CASE Retire(w)
  BY <1>20 DEF Retire, process, world
<1>21. CASE Absorb(w)
  BY <1>21 DEF Absorb, local, process, world
<1>22. ASSUME NEW x \in DOMAIN fate, AcceptReady(w, x)
      PROVE  UNCHANGED <<mode, fleet, saves, rouser, shutdown, gone>>
  BY <1>22 DEF AcceptReady, process, world
<1>23. ASSUME NEW n \in 1..Cardinality(Conns), WorkReady(w, n)
      PROVE  UNCHANGED <<mode, fleet, saves, rouser, shutdown, gone>>
  BY <1>23 DEF WorkReady, process, world
<1>24. CASE HandlerTasks(w)
  BY <1>24 DEF HandlerTasks, Handling, Reached, process, world
<1>. QED
  BY <1>1, <1>2, <1>3, <1>4, <1>5, <1>6, <1>7, <1>8, <1>9, <1>10, <1>11, <1>12, <1>13,
       <1>14, <1>15, <1>16, <1>17, <1>18, <1>19, <1>20, <1>21, <1>22, <1>23, <1>24
     DEF Worker, Streams, Kernel

\* A step of a worker that is not about the mailbox.
MailKept(w) ==
  /\ UNCHANGED <<plans, cursors, slot, hole, applied>>
  /\ pc[w] # "boot" /\ pc'[w] # "boot"
MailKinds(w) == MailKept(w) \/ Boot(w) \/ Tasks(w) \/ HandlerTasks(w) \/ Retire(w)

LEMMA MailKindsStep ==
  ASSUME IInv, NEW w \in fleet, Worker(w) \/ Kernel(w)
  PROVE  MailKinds(w)
<1>. USE DEF MailKinds, MailKept, queue
<1>a. w \in Workers /\ pc \in [Workers -> PCs]
  BY DEF IInv, Base
<1>1. CASE Boot(w)
  BY <1>1, <1>a DEF Boot
<1>2. CASE Top(w)
  BY <1>2, <1>a DEF Top
<1>3. ASSUME NEW b \in BOOLEAN, Dispatch(w, b)
      PROVE  MailKinds(w)
  BY <1>3, <1>a DEF Dispatch, Take
<1>4. ASSUME NEW b \in BOOLEAN, DispatchAborts(w, b)
      PROVE  MailKinds(w)
  BY <1>4, <1>a DEF DispatchAborts, Take, begin_exit
<1>5. CASE ReapPending(w)
  BY <1>5, <1>a DEF ReapPending, Reached
<1>6. CASE ReapSession(w)
  BY <1>6, <1>a DEF ReapSession, Reached
<1>7. ASSUME NEW b \in BOOLEAN, NEW for \in {"reply", "upgrade"}, ReapHandler(w, for, b)
      PROVE  MailKinds(w)
  BY <1>7, <1>a DEF ReapHandler, begin_exit, Drive, Reached
<1>8. ASSUME NEW b \in BOOLEAN, EndSession(w, b)
      PROVE  MailKinds(w)
  BY <1>8, <1>a DEF EndSession, begin_exit, Drive, Reached
<1>9. ASSUME NEW b \in BOOLEAN, UpgradeAborts(w, b)
      PROVE  MailKinds(w)
  BY <1>9, <1>a DEF UpgradeAborts, begin_exit
<1>10. CASE Driven(w)
  BY <1>10, <1>a DEF Driven, Settle
<1>11. ASSUME NEW ws \in BOOLEAN, Upgraded(w, ws)
       PROVE  MailKinds(w)
  BY <1>11, <1>a DEF Upgraded, Settle
<1>12. CASE DriveFails(w)
  BY <1>12, <1>a DEF DriveFails, Leave
<1>13. CASE Finish(w)
  BY <1>13, <1>a DEF Finish, Leave, Reaped
<1>14. CASE Tasks(w)
  BY <1>14, <1>a DEF Tasks
<1>15. CASE Tell(w)
  BY <1>15, <1>a DEF Tell
<1>16. CASE Awake(w)
  BY <1>16, <1>a DEF Awake, Harvest
<1>17. CASE Park(w)
  BY <1>17, <1>a DEF Park
<1>18. CASE UnparkWoken(w)
  BY <1>18, <1>a DEF UnparkWoken
<1>19. CASE UnparkWork(w)
  BY <1>19, <1>a DEF UnparkWork, Harvest
<1>20. CASE Retire(w)
  BY <1>20, <1>a DEF Retire
<1>21. CASE Absorb(w)
  BY <1>21, <1>a DEF Absorb, local, Driving, Handling, Reached
<1>22. ASSUME NEW x \in DOMAIN fate, AcceptReady(w, x)
      PROVE  MailKinds(w)
  BY <1>22, <1>a DEF AcceptReady, Pumping, Driving, Handling, Reached
<1>23. ASSUME NEW n \in 1..Cardinality(Conns), WorkReady(w, n)
      PROVE  MailKinds(w)
  BY <1>23, <1>a DEF WorkReady, Pumping, Driving, Handling, Reached
<1>24. CASE HandlerTasks(w)
  BY <1>24, <1>a DEF HandlerTasks, Handling, Reached
<1>. QED
  BY <1>1, <1>2, <1>3, <1>4, <1>5, <1>6, <1>7, <1>8, <1>9, <1>10, <1>11, <1>12, <1>13,
       <1>14, <1>15, <1>16, <1>17, <1>18, <1>19, <1>20, <1>21, <1>22, <1>23, <1>24
     DEF Worker, Streams, Kernel

\* Boot in hot mode: the next cursor, which nobody has and which exists.
LEMMA RegisterStep ==
  ASSUME IInv, NEW w \in fleet, Boot(w), mode = "hot", UNCHANGED <<mode, fleet, saves>>
  PROVE  Claims' /\ Cursors' /\ QueueExact'
<1>. DEFINE n == Cardinality(Registered)
<1>1. /\ w \in Workers /\ slot[w] = 0 /\ pc[w] = "boot" /\ applied[w] = 0
      /\ pc' = [pc EXCEPT ![w] = "top"] /\ pc \in [Workers -> PCs]
      /\ slot \in [Workers -> Consumers \union {0}] /\ Registered \subseteq fleet
  BY DEF IInv, Base, Boot, Claims, Cursors
<1>2. IsFiniteSet(Registered) /\ n \in Nat /\ IsFiniteSet(fleet) /\ Cardinality(fleet) \in Nat
  BY <1>1, FleetFinite DEF IInv
<1>. HIDE DEF n
<1>3. n + 1 <= Cardinality(fleet)
  <2>1. Registered \cup {w} \in SUBSET fleet /\ w \notin Registered
    BY <1>1 DEF Registered
  <2>2. Cardinality(Registered \cup {w}) = n + 1
    BY <1>2, <2>1, FS_AddElement DEF n
  <2>. QED  BY <1>2, <2>1, <2>2, FS_Subset
<1>4. Claimed = 1..n /\ Cardinality(Claimed) = n
  BY <1>2, FS_Interval DEF IInv, Claims, n
<1>5. /\ slot' = [slot EXCEPT ![w] = n + 1]
      /\ UNCHANGED <<plans, cursors, hole, applied>>
  BY <1>4 DEF Boot, register
<1>6. n + 1 \in Consumers /\ n + 1 # 0 /\ n + 1 \notin Claimed
  BY <1>2, <1>3, <1>4 DEF Consumers
<1>7. Consumers' = Consumers
  BY DEF Consumers
<1>8. Registered' = Registered \cup {w}
  BY <1>1, <1>5, <1>6 DEF Registered
<1>9. Claimed' = Claimed \cup {n + 1}
  BY <1>1, <1>5, <1>6 DEF Claimed
<1>10. \A v \in Workers : slot[v] # n + 1
  BY <1>6 DEF Claimed
<1>11. Claims'
  <2>1. slot' \in [Workers -> Consumers' \union {0}]
    BY <1>1, <1>5, <1>6, <1>7
  <2>2. Cardinality(Registered') = n + 1
    BY <1>1, <1>2, <1>8, FS_AddElement DEF n, Registered
  <2>3. Claimed' = 1..(n + 1)
    BY <1>2, <1>4, <1>9
  <2>4. \A u, v \in Workers : slot'[u] = slot'[v] /\ slot'[v] # 0 => u = v
    BY <1>1, <1>5, <1>10 DEF IInv, Claims
  <2>5. Registered' \subseteq fleet'
    BY <1>1, <1>8
  <2>6. \A v \in Workers : pc'[v] = "boot" => slot'[v] = 0
    BY <1>1, <1>5 DEF IInv, Claims
  <2>7. \A v \in fleet : slot'[v] = 0 => pc'[v] = "boot"
    BY <1>1, <1>5, <1>6 DEF IInv, Claims, Base
  <2>. QED  BY <2>1, <2>2, <2>3, <2>4, <2>5, <2>6, <2>7 DEF Claims
<1>12. Cursors'
  BY <1>1, <1>5, <1>7, <1>9 DEF IInv, Cursors
<1>13. QueueExact'
  <2>1. ASSUME NEW v \in Workers, slot'[v] # 0, cursors'[slot'[v]] # RETIRED
        PROVE  applied'[v] = cursors'[slot'[v]]
    <3>1. CASE v = w
      BY <1>1, <1>5, <1>6, <3>1 DEF IInv, Cursors
    <3>2. CASE v # w
      BY <1>1, <1>5, <2>1, <3>2 DEF IInv, QueueExact
    <3>. QED  BY <3>1, <3>2
  <2>. QED  BY <1>5, <2>1 DEF IInv, QueueExact, RETIRED
<1>. QED  BY <1>11, <1>12, <1>13

\* The drain of `advance_tasks`: the worker takes all it has not, and what it
\* takes has kept its payload.
LEMMA DrainStep ==
  ASSUME IInv, NEW w \in fleet, (Tasks(w) /\ ~NothingPending(w)) \/ HandlerTasks(w),
         UNCHANGED <<mode, fleet, saves>>
  PROVE  Claims' /\ Cursors' /\ QueueExact'
<1>. DEFINE k == slot[w]
<1>1. w \in Workers /\ k # 0 /\ drain(w) /\ Pending(w) # {}
  BY TasksRegistered, HandlerRegistered DEF Tasks
<1>2. /\ k \in Consumers /\ cursors[k] \in Nat /\ cursors[k] # RETIRED
      /\ cursors[k] < Len(plans) /\ Cardinality(Pending(w)) = Len(plans) - cursors[k]
  BY <1>1, PendingFacts
<1>3. /\ cursors' = [cursors EXCEPT ![k] = Len(plans)] /\ slot' = slot
      /\ plans' \in Seq(BOOLEAN) /\ Len(plans') = Len(plans)
      /\ \A i \in DOMAIN plans :
           ~plans'[i] => ~plans[i] \/ \A j \in Consumers : i <= cursors'[j]
      /\ hole' = (hole \/ \E i \in Pending(w) : ~plans[i])
  BY <1>1, DrainFacts
<1>4. /\ cursors \in [Consumers -> 0..RETIRED] /\ Len(plans) \in Nat /\ saves \in Nat
      /\ MaxPlans \in Nat /\ Len(plans) + saves <= MaxPlans /\ plans \in Seq(BOOLEAN)
      /\ applied \in [Workers -> Nat] /\ slot \in [Workers -> Consumers \union {0}]
  BY QueueBounds DEF IInv, Base, Claims, Cursors
<1>5. Consumers' = Consumers /\ Claimed' = Claimed /\ Registered' = Registered
  BY <1>3 DEF Consumers, Claimed, Registered
<1>6. /\ pc[w] = "reap" /\ pc' \in {pc, [pc EXCEPT ![w] = "tell"]} /\ pc \in [Workers -> PCs]
      /\ applied' = [applied EXCEPT ![w] = applied[w] + Cardinality(Pending(w))]
  <2>1. CASE Tasks(w) /\ ~NothingPending(w)
    BY <2>1 DEF Tasks, Reaped, IInv, Base
  <2>2. CASE HandlerTasks(w)
    BY <2>2 DEF HandlerTasks, Handling, Reached, IInv, Base
  <2>. QED  BY <2>1, <2>2
<1>7. Claims'
  <2>1. pc'[w] # "boot" /\ \A v \in Workers \ {w} : pc'[v] = pc[v]
    BY <1>1, <1>6
  <2>2. \A v \in Workers : pc'[v] = "boot" => slot'[v] = 0
    BY <1>3, <2>1 DEF IInv, Claims
  <2>3. mode' = "hot" => \A v \in fleet : slot'[v] = 0 => pc'[v] = "boot"
    BY <1>1, <1>3, <2>1 DEF IInv, Claims, Base
  <2>. QED  BY <1>3, <1>5, <2>2, <2>3 DEF IInv, Claims
<1>8. applied[w] = cursors[k]
  BY <1>1, <1>2 DEF IInv, QueueExact
<1>9. Cursors'
  <2>0. Len(plans) \in 0..RETIRED
    BY <1>4 DEF RETIRED
  <2>1. cursors' \in [Consumers -> 0..RETIRED]
    BY <1>3, <1>4, <2>0
  <2>2. \A j \in Consumers : cursors'[j] # RETIRED => cursors'[j] <= Len(plans')
    BY <1>3, <1>4 DEF IInv, Cursors
  <2>3. \A j \in Consumers : j \notin Claimed => cursors'[j] = 0
    BY <1>1, <1>3, <1>4 DEF IInv, Cursors, Claimed
  <2>4. \A v \in Workers : slot'[v] = 0 => applied'[v] = 0
    BY <1>1, <1>3, <1>4, <1>6 DEF IInv, Cursors
  <2>. QED  BY <1>3, <1>4, <1>5, <2>1, <2>2, <2>3, <2>4 DEF Cursors
<1>10. ~hole'
  <2>1. ASSUME NEW i \in Pending(w)
        PROVE  plans[i]
    <3>1. i \in DOMAIN plans /\ i \in Nat /\ ~(cursors[k] >= i)
      BY <1>2, <1>4 DEF Pending
    <3>2. ~plans[i] => \A j \in DOMAIN cursors : cursors[j] >= i
      BY <3>1 DEF IInv, QueueExact
    <3>. QED  BY <1>2, <1>4, <3>1, <3>2
  <2>. QED  BY <1>3, <2>1 DEF IInv, QueueExact
<1>11. ASSUME NEW i \in DOMAIN plans', ~plans'[i], NEW j \in DOMAIN cursors'
       PROVE  cursors'[j] >= i
  <2>1. i \in DOMAIN plans /\ i \in Nat /\ i <= Len(plans) /\ j \in Consumers
    BY <1>3, <1>4
  <2>2. CASE ~plans[i]
    <3>1. cursors[j] >= i
      BY <1>4, <2>1, <2>2 DEF IInv, QueueExact
    <3>. QED  BY <1>3, <1>4, <2>1, <3>1
  <2>3. CASE i <= cursors'[j]
    <3>1. cursors'[j] \in Nat
      BY <1>3, <1>4, <2>1 DEF RETIRED
    <3>. QED  BY <2>1, <2>3, <3>1
  <2>. QED  BY <1>3, <1>11, <2>1, <2>2, <2>3
<1>12. ASSUME NEW v \in Workers, slot'[v] # 0, cursors'[slot'[v]] # RETIRED
       PROVE  applied'[v] = cursors'[slot'[v]]
  <2>1. CASE v = w
    <3>1. applied'[w] = applied[w] + Cardinality(Pending(w)) /\ cursors'[slot'[w]] = Len(plans)
      BY <1>1, <1>2, <1>3, <1>4, <1>6
    <3>. QED  BY <1>2, <1>4, <1>8, <2>1, <3>1
  <2>2. CASE v # w
    <3>1. slot[v] # k /\ slot[v] \in Consumers
      BY <1>1, <1>3, <1>4, <1>12, <2>2 DEF IInv, Claims
    <3>. QED  BY <1>1, <1>3, <1>4, <1>6, <1>12, <2>2, <3>1 DEF IInv, QueueExact
  <2>. QED  BY <2>1, <2>2
<1>13. QueueExact'
  BY <1>10, <1>11, <1>12 DEF QueueExact, RETIRED
<1>. QED  BY <1>7, <1>9, <1>13

\* A cursor that is retired holds nothing back and is nobody's any more.
LEMMA RetireStep ==
  ASSUME IInv, NEW w \in fleet, Retire(w), mode = "hot", UNCHANGED <<mode, fleet, saves>>
  PROVE  Claims' /\ Cursors' /\ QueueExact'
<1>. DEFINE k == slot[w]
<1>1. /\ pc[w] = "over" /\ pc' = [pc EXCEPT ![w] = "ended"] /\ w \in Workers
      /\ pc \in [Workers -> PCs]
      /\ cursors' = IF k = 0 THEN cursors ELSE [cursors EXCEPT ![k] = RETIRED]
      /\ UNCHANGED <<plans, slot, hole, applied>>
  BY DEF Retire, retire, IInv, Base
<1>2. k # 0
  BY <1>1 DEF IInv, Claims
<1>3. /\ cursors \in [Consumers -> 0..RETIRED] /\ slot \in [Workers -> Consumers \union {0}]
      /\ plans \in Seq(BOOLEAN) /\ Len(plans) \in Nat /\ saves \in Nat /\ MaxPlans \in Nat
      /\ Len(plans) + saves <= MaxPlans
  BY QueueBounds DEF IInv, Base, Claims, Cursors
<1>4. Consumers' = Consumers /\ Claimed' = Claimed /\ Registered' = Registered
  BY <1>1 DEF Consumers, Claimed, Registered
<1>5. RETIRED \in 0..RETIRED /\ RETIRED > Len(plans) /\ RETIRED' = RETIRED /\ RETIRED \in Nat
  BY <1>3 DEF RETIRED
<1>6. Claims'
  BY <1>1, <1>4 DEF IInv, Claims
<1>7. Cursors'
  <2>1. cursors' \in [Consumers -> 0..RETIRED]
    BY <1>1, <1>3, <1>5
  <2>2. k \in Claimed
    BY <1>1, <1>2 DEF Claimed
  <2>3. ASSUME NEW j \in Consumers
        PROVE  /\ cursors'[j] # RETIRED => cursors'[j] <= Len(plans)
               /\ j \notin Claimed => cursors'[j] = 0
    BY <1>1, <1>3, <2>2 DEF IInv, Cursors
  <2>. QED  BY <1>1, <1>4, <1>5, <2>1, <2>3 DEF IInv, Cursors
<1>8. ASSUME NEW i \in DOMAIN plans', ~plans'[i], NEW j \in DOMAIN cursors'
      PROVE  cursors'[j] >= i
  <2>1. i \in DOMAIN plans /\ ~plans[i] /\ i \in Nat /\ i <= Len(plans) /\ j \in Consumers
    BY <1>1, <1>3, <1>8
  <2>2. cursors[j] >= i
    BY <1>3, <2>1 DEF IInv, QueueExact
  <2>. QED  BY <1>1, <1>3, <1>5, <2>1, <2>2
<1>9. ASSUME NEW v \in Workers, slot'[v] # 0, cursors'[slot'[v]] # RETIRED
      PROVE  applied'[v] = cursors'[slot'[v]]
  <2>1. slot[v] \in Consumers /\ slot'[v] = slot[v] /\ slot[v] # 0
    BY <1>1, <1>3, <1>9
  <2>2. slot[v] # k
    BY <1>1, <1>2, <1>3, <1>9, <2>1
  <2>3. cursors'[slot[v]] = cursors[slot[v]]
    BY <1>1, <1>3, <2>1, <2>2
  <2>. QED  BY <1>1, <1>9, <2>1, <2>3 DEF IInv, QueueExact
<1>10. QueueExact'
  BY <1>1, <1>5, <1>8, <1>9 DEF IInv, QueueExact
<1>. QED  BY <1>6, <1>7, <1>10

LEMMA MailStep ==
  ASSUME IInv, NEW w \in fleet, Worker(w) \/ Kernel(w)
  PROVE  Claims' /\ Cursors' /\ QueueExact'
<1>1. UNCHANGED <<mode, fleet, saves>> /\ w \in Workers /\ pc \in [Workers -> PCs]
  BY ProcessKept DEF IInv, Base
<1>2. ASSUME UNCHANGED <<plans, cursors, slot, hole, applied>>,
             pc'[w] # "boot", mode = "hot" => pc[w] # "boot"
      PROVE  Claims' /\ Cursors' /\ QueueExact'
  <2>1. \A v \in Workers \ {w} : pc'[v] = pc[v]
    BY OthersKept DEF Local
  <2>2. Consumers' = Consumers /\ Claimed' = Claimed /\ Registered' = Registered
    BY <1>1, <1>2 DEF Consumers, Claimed, Registered
  <2>3. Claims'
    <3>1. \A v \in Workers : pc'[v] = "boot" => slot'[v] = 0
      BY <1>2, <2>1 DEF IInv, Claims
    <3>2. mode' = "hot" => \A v \in fleet : slot'[v] = 0 => pc'[v] = "boot"
      BY <1>1, <1>2, <2>1 DEF IInv, Claims, Base
    <3>. QED  BY <1>1, <1>2, <2>2, <3>1, <3>2 DEF IInv, Claims
  <2>4. Cursors'
    BY <1>1, <1>2, <2>2 DEF IInv, Cursors, RETIRED
  <2>5. QueueExact'
    BY <1>2 DEF IInv, QueueExact, RETIRED
  <2>. QED  BY <2>3, <2>4, <2>5
<1>3. CASE MailKept(w)
  BY <1>2, <1>3 DEF MailKept
<1>4. CASE Boot(w)
  <2>1. CASE mode = "hot"
    BY <1>1, <1>4, <2>1, RegisterStep
  <2>2. CASE mode # "hot"
    BY <1>1, <1>2, <1>4, <2>2 DEF Boot, queue
  <2>. QED  BY <2>1, <2>2
<1>5. CASE Tasks(w)
  <2>1. CASE NothingPending(w)
    BY <1>1, <1>2, <1>5, <2>1 DEF Tasks, Reaped, queue
  <2>2. CASE ~NothingPending(w)
    BY <1>1, <1>5, <2>2, DrainStep
  <2>. QED  BY <2>1, <2>2
<1>6. CASE Retire(w)
  <2>1. CASE mode = "hot"
    BY <1>1, <1>6, <2>1, RetireStep
  <2>2. CASE mode # "hot"
    BY <1>1, <1>2, <1>6, <2>2 DEF Retire, queue
  <2>. QED  BY <2>1, <2>2
<1>7. CASE HandlerTasks(w)
  BY <1>1, <1>7, DrainStep
<1>. QED  BY <1>3, <1>4, <1>5, <1>6, <1>7, MailKindsStep DEF MailKinds
--------------------------------------------------------------------------------
(* What a step does to the entries in flight.                               *)


\* A request that is dispatched becomes the last entry.
LEMMA Dispatched ==
  ASSUME IInv, NEW w \in Workers, NEW b \in BOOLEAN, Dispatch(w, b)
  PROVE  /\ acc[w] \in Conns /\ Len(flight'[w]) = Len(flight[w]) + 1
         /\ DOMAIN flight'[w] = DOMAIN flight[w] \cup {Len(flight[w]) + 1}
         /\ Len(flight[w]) + 1 \notin DOMAIN flight[w]
         /\ \A i \in DOMAIN flight[w] : flight'[w][i] = flight[w][i]
         /\ flight'[w][Len(flight[w]) + 1].c = acc[w]
         /\ flight'[w][Len(flight[w]) + 1].life = "http"
<1>1. /\ flight \in [Workers -> Seq(Entries)] /\ flight[w] \in Seq(Entries) /\ acc[w] \in Conns
      /\ Len(flight[w]) \in Nat /\ applied[w] \in Nat
  BY DEF IInv, Base, Loop, Dispatch, Take
<1>. DEFINE e == Entry(w, acc[w], b)
<1>2. e \in Entries /\ e.c = acc[w] /\ e.life = "http"
  BY <1>1 DEF Entry, Entries, Lives
<1>3. flight'[w] = Append(flight[w], e)
  BY <1>1 DEF Dispatch
<1>. HIDE DEF e
<1>. QED  BY <1>1, <1>2, <1>3

\* One entry is replaced.
LEMMA OneReplaced ==
  ASSUME IInv, NEW w \in Workers, NEW i \in DOMAIN flight[w], NEW e \in Entries,
         flight' = [flight EXCEPT ![w] = [flight[w] EXCEPT ![i] = e]]
  PROVE  /\ DOMAIN flight'[w] = DOMAIN flight[w]
         /\ flight'[w][i] = e
         /\ \A j \in DOMAIN flight[w] : j # i => flight'[w][j] = flight[w][j]
<1>1. flight \in [Workers -> Seq(Entries)] /\ flight[w] \in Seq(Entries)
  BY DEF IInv, Base
<1>2. flight'[w] = [flight[w] EXCEPT ![i] = e]
  BY <1>1
<1>. QED  BY <1>1, <1>2, PutAt

\* The session that is polled goes on waiting.
LEMMA Polled ==
  ASSUME IInv, NEW w \in Workers, ReapSession(w)
  PROVE  /\ at[w] \in DOMAIN flight[w] /\ DOMAIN flight'[w] = DOMAIN flight[w]
         /\ \A j \in DOMAIN flight[w] :
              /\ flight'[w][j].c = flight[w][j].c /\ flight'[w][j].gen = flight[w][j].gen
              /\ flight'[w][j].ws = flight[w][j].ws
              /\ flight'[w][j].told = flight[w][j].told
              /\ flight'[w][j].life = "http" <=> flight[w][j].life = "http"
<1>. DEFINE e == [flight[w][at[w]] EXCEPT !.life = "live", !.ready = FALSE]
<1>1. at[w] \in DOMAIN flight[w] /\ flight[w] \in Seq(Entries) /\ Here(w).life # "http"
  BY DEF IInv, Base, ReapSession, Reached
<1>2. flight[w][at[w]] \in Entries
  BY <1>1
<1>3. /\ e \in Entries /\ e.c = flight[w][at[w]].c /\ e.gen = flight[w][at[w]].gen
      /\ e.ws = flight[w][at[w]].ws
      /\ e.told = flight[w][at[w]].told /\ e.life = "live"
  BY <1>2 DEF Entries, Lives
<1>4. flight' = [flight EXCEPT ![w] = [flight[w] EXCEPT ![at[w]] = e]]
  BY DEF ReapSession
<1>. HIDE DEF e
<1>5. /\ DOMAIN flight'[w] = DOMAIN flight[w] /\ flight'[w][at[w]] = e
      /\ \A j \in DOMAIN flight[w] : j # at[w] => flight'[w][j] = flight[w][j]
  <2>. DEFINE i == at[w]
  <2>1. i \in DOMAIN flight[w] /\ flight' = [flight EXCEPT ![w] = [flight[w] EXCEPT ![i] = e]]
    BY <1>1, <1>4
  <2>. HIDE DEF i
  <2>2. /\ DOMAIN flight'[w] = DOMAIN flight[w] /\ flight'[w][i] = e
        /\ \A j \in DOMAIN flight[w] : j # i => flight'[w][j] = flight[w][j]
    BY <1>3, <2>1, OneReplaced, Zenon
  <2>. QED  BY <2>2, Zenon DEF i
<1>. QED  BY <1>1, <1>3, <1>5 DEF Here

\* What an entry waits for arrives.
LEMMA Arrived ==
  ASSUME IInv, NEW w \in Workers, NEW n, WorkReady(w, n)
  PROVE  /\ n \in DOMAIN flight[w] /\ DOMAIN flight'[w] = DOMAIN flight[w]
         /\ \A j \in DOMAIN flight[w] :
              /\ flight'[w][j].c = flight[w][j].c /\ flight'[w][j].gen = flight[w][j].gen
              /\ flight'[w][j].ws = flight[w][j].ws
              /\ flight'[w][j].told = flight[w][j].told
              /\ flight'[w][j].life = flight[w][j].life
<1>. DEFINE e == [flight[w][n] EXCEPT !.ready = TRUE]
<1>1. n \in DOMAIN flight[w] /\ flight[w] \in Seq(Entries)
  BY DEF IInv, Base, WorkReady
<1>2. flight[w][n] \in Entries
  BY <1>1
<1>3. /\ e \in Entries /\ e.c = flight[w][n].c /\ e.gen = flight[w][n].gen /\ e.ws = flight[w][n].ws
      /\ e.told = flight[w][n].told /\ e.life = flight[w][n].life
  BY <1>2 DEF Entries
<1>4. flight' = [flight EXCEPT ![w] = [flight[w] EXCEPT ![n] = e]]
  BY DEF WorkReady
<1>. HIDE DEF e
<1>5. /\ DOMAIN flight'[w] = DOMAIN flight[w] /\ flight'[w][n] = e
      /\ \A j \in DOMAIN flight[w] : j # n => flight'[w][j] = flight[w][j]
  BY <1>1, <1>3, <1>4, OneReplaced
<1>. QED  BY <1>1, <1>3, <1>5

\* The handshake is out: a request has become a stream.
LEMMA Opened ==
  ASSUME IInv, NEW w \in Workers, NEW ws \in BOOLEAN, Upgraded(w, ws)
  PROVE  /\ at[w] \in DOMAIN flight[w] /\ DOMAIN flight'[w] = DOMAIN flight[w]
         /\ flight[w][at[w]].life = "http" /\ flight'[w][at[w]].life = "opened"
         /\ flight'[w][at[w]].c = flight[w][at[w]].c /\ flight[w][at[w]].c = job[w].c
         /\ flight'[w][at[w]].gen = applied[w]
         /\ \A j \in DOMAIN flight[w] : j # at[w] => flight'[w][j] = flight[w][j]
<1>. DEFINE e == [flight[w][at[w]] EXCEPT !.life = "opened", !.ws = ws, !.gen = applied[w]]
<1>1. /\ at[w] \in DOMAIN flight[w] /\ flight[w] \in Seq(Entries) /\ applied[w] \in Nat
      /\ flight[w][at[w]].life = "http" /\ flight[w][at[w]].c = job[w].c
  BY DEF IInv, Base, Upgraded, Loop, Here
<1>2. flight[w][at[w]] \in Entries
  BY <1>1
<1>3. e \in Entries /\ e.c = flight[w][at[w]].c /\ e.gen = applied[w] /\ e.life = "opened"
  BY <1>1, <1>2 DEF Entries, Lives
<1>4. flight' = [flight EXCEPT ![w] = [flight[w] EXCEPT ![at[w]] = e]]
  BY DEF Upgraded
<1>. HIDE DEF e
<1>5. /\ DOMAIN flight'[w] = DOMAIN flight[w] /\ flight'[w][at[w]] = e
      /\ \A j \in DOMAIN flight[w] : j # at[w] => flight'[w][j] = flight[w][j]
  BY <1>1, <1>3, <1>4, OneReplaced
<1>. QED  BY <1>1, <1>3, <1>5

\* `hot_broadcast` touches nothing but who has been told.
LEMMA Told ==
  ASSUME IInv, NEW w \in Workers, Tell(w)
  PROVE  /\ DOMAIN flight'[w] = DOMAIN flight[w]
         /\ \A j \in DOMAIN flight[w] :
              /\ flight'[w][j].c = flight[w][j].c /\ flight'[w][j].gen = flight[w][j].gen
              /\ flight'[w][j].ws = flight[w][j].ws
              /\ flight'[w][j].life = flight[w][j].life
              /\ flight'[w][j].told =
                   (flight[w][j].told \/ (applied[w] # hot_gen[w] /\ j \in Audience(w)))
<1>1. flight \in [Workers -> Seq(Entries)] /\ flight[w] \in Seq(Entries)
  BY DEF IInv, Base
<1>2. flight'[w] = [i \in DOMAIN flight[w] |->
                  [flight[w][i] EXCEPT !.told =
                      flight[w][i].told \/ (applied[w] # hot_gen[w] /\ i \in Audience(w))]]
  BY <1>1 DEF Tell, swap_count
<1>3. ASSUME NEW j \in DOMAIN flight[w]
      PROVE  /\ flight'[w][j].c = flight[w][j].c /\ flight'[w][j].gen = flight[w][j].gen
              /\ flight'[w][j].ws = flight[w][j].ws
             /\ flight'[w][j].life = flight[w][j].life
             /\ flight'[w][j].told =
                   (flight[w][j].told \/ (applied[w] # hot_gen[w] /\ j \in Audience(w)))
  <2>1. flight[w][j] \in Entries
    BY <1>1
  <2>. QED  BY <1>2, <2>1 DEF Entries, Audience
<1>. QED  BY <1>2, <1>3

\* A reply or a close that is out takes its entry with it.
Up(i, k) == IF k < i THEN k ELSE k + 1
LEMMA TakenOut ==
  ASSUME IInv, NEW w \in Workers, Driven(w), job[w].for # "abort"
  PROVE  /\ at[w] \in DOMAIN flight[w] /\ flight[w][at[w]].c = job[w].c
         /\ DOMAIN flight[w] = 1..Len(flight[w]) /\ Len(flight[w]) \in Nat
         /\ DOMAIN flight'[w] = 1..(Len(flight[w]) - 1)
         /\ \A k \in DOMAIN flight'[w] : /\ Up(at[w], k) \in DOMAIN flight[w] \ {at[w]}
                                         /\ flight'[w][k] = flight[w][Up(at[w], k)]
<1>1. /\ flight \in [Workers -> Seq(Entries)] /\ flight[w] \in Seq(Entries)
      /\ at[w] \in DOMAIN flight[w] /\ flight[w][at[w]].c = job[w].c
  BY DEF IInv, Base, Driven, Loop, Here
<1>2. /\ Len(flight[w]) \in Nat /\ DOMAIN flight[w] = 1..Len(flight[w])
      /\ at[w] \in 1..Len(flight[w])
  BY <1>1
<1>3. flight'[w] = RemoveAt(flight[w], at[w])
  BY <1>1 DEF Driven
<1>4. /\ flight'[w] \in Seq(Entries) /\ Len(flight'[w]) = Len(flight[w]) - 1
      /\ \A k \in 1..(Len(flight[w]) - 1) :
            flight'[w][k] = IF k < at[w] THEN flight[w][k] ELSE flight[w][k + 1]
  <2>. DEFINE s == flight[w]
              i == at[w]
  <2>1. s \in Seq(Entries) /\ i \in 1..Len(s)
    BY <1>1, <1>2
  <2>. HIDE DEF s, i
  <2>2. /\ RemoveAt(s, i) \in Seq(Entries) /\ Len(RemoveAt(s, i)) = Len(s) - 1
        /\ \A k \in 1..(Len(s) - 1) : RemoveAt(s, i)[k] = IF k < i THEN s[k] ELSE s[k + 1]
    BY <2>1, RemoveAtFacts, Zenon
  <2>. QED  BY <1>3, <2>2, Zenon DEF s, i
<1>5. DOMAIN flight'[w] = 1..(Len(flight[w]) - 1)
  BY <1>4
<1>6. ASSUME NEW k \in DOMAIN flight'[w]
      PROVE  /\ Up(at[w], k) \in DOMAIN flight[w] \ {at[w]}
             /\ flight'[w][k] = flight[w][Up(at[w], k)]
  <2>1. k \in 1..(Len(flight[w]) - 1) /\ k \in Nat /\ at[w] \in Nat
    BY <1>2, <1>5
  <2>2. flight'[w][k] = flight[w][Up(at[w], k)]
    BY <1>4, <2>1 DEF Up
  <2>3. Up(at[w], k) \in 1..Len(flight[w]) /\ Up(at[w], k) # at[w]
    BY <1>2, <2>1 DEF Up
  <2>. QED  BY <1>2, <2>2, <2>3
<1>. QED  BY <1>1, <1>2, <1>5, <1>6
--------------------------------------------------------------------------------
(* The serve loop of the worker that moves.                                 *)

\* The accept, the job and the position in the reap stay in step.
LEMMA LoopStep ==
  ASSUME IInv, NEW w \in fleet, Worker(w) \/ Kernel(w)
  PROVE  Loop(w)'
<1>. USE DEF Loop, Here
<1>a. /\ w \in Workers /\ Loop(w) /\ pc \in [Workers -> PCs] /\ closing \in [Workers -> BOOLEAN]
      /\ held \in [Workers -> BOOLEAN] /\ acc \in [Workers -> Conns \union {NoConn, Idle}]
      /\ flight \in [Workers -> Seq(Entries)] /\ at \in [Workers -> Nat \ {0}]
      /\ job \in [Workers -> Jobs] /\ NoConn \notin Conns /\ Idle \notin Conns /\ Idle # NoConn
  BY FleetBounds DEF IInv, Base
<1>b. NoJob.for = "nothing" /\ NoJob.c = NoConn
  BY DEF NoJob
<1>c. job[w] \in Jobs
  BY <1>a
<1>d. at[w] \in DOMAIN flight[w] => flight[w][at[w]].c \in Conns
  <2>1. at[w] \in DOMAIN flight[w] => flight[w][at[w]] \in Entries
    BY <1>a
  <2>. QED  BY <2>1 DEF Entries
<1>e. held'[w] \in BOOLEAN
  BY ControlTypeStep DEF ControlType, IInv, Base
<1>1. CASE Boot(w)
  BY <1>1, <1>a DEF Boot
<1>2. CASE Top(w)
  <2>1. /\ UNCHANGED <<job, flight, at>> /\ pc[w] = "top" /\ pc'[w] \in {"accept", "reap"}
        /\ job[w].for = "nothing"
    BY <1>2, <1>a DEF Top
  <2>2. /\ acc'[w] # NoConn => held'[w] \/ closing'[w]
        /\ pc'[w] = "accept" => acc'[w] \in Conns
    BY <1>2, <1>a DEF Top, Accepted
  <2>. QED  BY <1>a, <2>1, <2>2
<1>3. ASSUME NEW b \in BOOLEAN, Dispatch(w, b)
      PROVE  Loop(w)'
  <2>1. job'[w] = job[w] /\ job[w].for = "nothing" /\ acc'[w] = NoConn /\ pc'[w] = "reap"
    BY <1>3, <1>a DEF Dispatch, Take
  <2>. QED  BY <1>a, <2>1
<1>4. ASSUME NEW b \in BOOLEAN, DispatchAborts(w, b)
      PROVE  Loop(w)'
  <2>1. /\ acc'[w] = NoConn /\ pc'[w] = "driving"
        /\ job'[w] = [c |-> acc[w], for |-> "abort"] /\ acc[w] \in Conns
    BY <1>4, <1>a DEF DispatchAborts, Take
  <2>. QED  BY <2>1
<1>5. CASE ReapPending(w)
  BY <1>5, <1>a DEF ReapPending, Reached
<1>6. CASE ReapSession(w)
  <2>1. /\ job'[w] = job[w] /\ job[w].for = "nothing" /\ acc'[w] = acc[w]
        /\ pc'[w] = "reap" /\ held'[w] = held[w] /\ closing'[w] = closing[w]
    BY <1>6, <1>a DEF ReapSession, Reached
  <2>. QED  BY <1>a, <2>1
<1>7. ASSUME NEW b \in BOOLEAN, NEW for \in {"reply", "upgrade"}, ReapHandler(w, for, b)
      PROVE  Loop(w)'
  <2>1. /\ job'[w] = [c |-> flight[w][at[w]].c, for |-> for] /\ pc'[w] = "driving"
        /\ UNCHANGED <<flight, at, acc>> /\ flight[w][at[w]].life = "http"
        /\ at[w] \in DOMAIN flight[w]
    BY <1>7, <1>a DEF ReapHandler, Drive, Reached
  <2>2. acc'[w] # NoConn => held'[w] \/ closing'[w]
    BY <1>7, <1>a DEF ReapHandler, begin_exit
  <2>. QED  BY <1>d, <2>1, <2>2
<1>8. ASSUME NEW b \in BOOLEAN, EndSession(w, b)
      PROVE  Loop(w)'
  <2>1. /\ job'[w] = [c |-> flight[w][at[w]].c, for |-> "close"] /\ pc'[w] = "driving"
        /\ UNCHANGED <<flight, at, acc>> /\ at[w] \in DOMAIN flight[w]
    BY <1>8, <1>a DEF EndSession, Drive, Reached
  <2>2. acc'[w] # NoConn => held'[w] \/ closing'[w]
    BY <1>8, <1>a DEF EndSession, begin_exit
  <2>. QED  BY <1>d, <2>1, <2>2
<1>9. ASSUME NEW b \in BOOLEAN, UpgradeAborts(w, b)
      PROVE  Loop(w)'
  <2>1. /\ job'[w].for = "close" /\ job'[w].c = job[w].c /\ pc'[w] = "driving"
        /\ UNCHANGED <<flight, at, acc>> /\ job[w].for = "upgrade"
    BY <1>9, <1>a, <1>c DEF UpgradeAborts, Jobs
  <2>2. acc'[w] # NoConn => held'[w] \/ closing'[w]
    BY <1>9, <1>a DEF UpgradeAborts, begin_exit
  <2>. QED  BY <1>a, <2>1, <2>2
<1>10. CASE Driven(w)
  <2>1. /\ job'[w] = NoJob /\ pc'[w] = "reap"
        /\ acc'[w] = acc[w] /\ held'[w] = held[w] /\ closing'[w] = closing[w]
    BY <1>10, <1>a DEF Driven, Settle
  <2>. QED  BY <1>a, <1>b, <2>1
<1>11. ASSUME NEW ws \in BOOLEAN, Upgraded(w, ws)
       PROVE  Loop(w)'
  <2>1. /\ job'[w] = NoJob /\ pc'[w] = "reap"
        /\ acc'[w] = acc[w] /\ held'[w] = held[w] /\ closing'[w] = closing[w]
    BY <1>11, <1>a DEF Upgraded, Settle
  <2>. QED  BY <1>a, <1>b, <2>1
<1>12. CASE DriveFails(w)
  <2>1. job'[w] = NoJob /\ pc'[w] = "over" /\ acc'[w] = NoConn
    BY <1>12, <1>a DEF DriveFails, Leave
  <2>. QED  BY <1>b, <2>1
<1>13. CASE Finish(w)
  <2>1. job'[w] = NoJob /\ pc'[w] = "over" /\ acc'[w] = NoConn
    BY <1>13, <1>a DEF Finish, Leave
  <2>. QED  BY <1>b, <2>1
<1>14. CASE Tasks(w)
  <2>1. /\ job'[w] = job[w] /\ pc'[w] = "tell" /\ pc[w] = "reap"
        /\ acc'[w] = acc[w] /\ held'[w] = held[w] /\ closing'[w] = closing[w]
    BY <1>14, <1>a DEF Tasks, Reaped
  <2>. QED  BY <1>a, <2>1
<1>15. CASE Tell(w)
  <2>1. /\ job'[w] = job[w] /\ pc'[w] = "park" /\ pc[w] = "tell"
        /\ acc'[w] = acc[w] /\ held'[w] = held[w] /\ closing'[w] = closing[w]
    BY <1>15, <1>a DEF Tell
  <2>. QED  BY <1>a, <2>1
<1>16. CASE Awake(w)
  <2>1. /\ job'[w] = job[w] /\ pc'[w] = "top" /\ pc[w] = "park"
        /\ acc'[w] \in {acc[w], NoConn} /\ held'[w] = held[w] /\ closing'[w] = closing[w]
    BY <1>16, <1>a DEF Awake, Harvest
  <2>. QED  BY <1>a, <2>1
<1>17. CASE Park(w)
  BY <1>17, <1>a DEF Park
<1>18. CASE UnparkWoken(w)
  BY <1>18, <1>a DEF UnparkWoken
<1>19. CASE UnparkWork(w)
  <2>1. /\ job'[w] = job[w] /\ pc'[w] = "top" /\ pc[w] = "parked"
        /\ acc'[w] \in {acc[w], NoConn} /\ held'[w] = held[w] /\ closing'[w] = closing[w]
    BY <1>19, <1>a DEF UnparkWork, Harvest
  <2>. QED  BY <1>a, <2>1
<1>20. CASE Retire(w)
  BY <1>20, <1>a DEF Retire
<1>21. CASE Absorb(w)
  BY <1>21, <1>a DEF Absorb, local
<1>22. ASSUME NEW x \in DOMAIN fate, AcceptReady(w, x)
      PROVE  Loop(w)'
  <2>1. /\ acc[w] = Idle /\ pc'[w] = pc[w] /\ pc[w] # "accept"
        /\ held'[w] = held[w] /\ closing'[w] = closing[w] /\ UNCHANGED <<job, at, flight>>
    BY <1>22, <1>a DEF AcceptReady, Pumping, Driving, Handling, Reached
  <2>. QED  BY <1>a, <2>1
<1>23. ASSUME NEW n \in 1..Cardinality(Conns), WorkReady(w, n)
      PROVE  Loop(w)'
  <2>1. UNCHANGED <<pc, held, closing, acc, job, at>>
    BY <1>23, <1>a DEF WorkReady
  <2>2. /\ n \in DOMAIN flight[w] /\ DOMAIN flight'[w] = DOMAIN flight[w]
        /\ \A j \in DOMAIN flight[w] : /\ flight'[w][j].c = flight[w][j].c
                                       /\ flight'[w][j].life = flight[w][j].life
    BY <1>23, <1>a, Arrived
  <2>. QED  BY <1>a, <2>1, <2>2
<1>24. CASE HandlerTasks(w)
  <2>1. UNCHANGED <<job, pc, acc, held, closing, flight, at>>
    BY <1>24 DEF HandlerTasks
  <2>. QED  BY <1>a, <2>1
<1>. QED
  BY <1>1, <1>2, <1>3, <1>4, <1>5, <1>6, <1>7, <1>8, <1>9, <1>10, <1>11, <1>12, <1>13,
       <1>14, <1>15, <1>16, <1>17, <1>18, <1>19, <1>20, <1>21, <1>22, <1>23, <1>24
     DEF Worker, Streams, Kernel
--------------------------------------------------------------------------------
(* Connections and their places.                                            *)

LEMMA FateTypeStep ==
  ASSUME IInv, NEW w \in fleet, Worker(w) \/ Kernel(w)
  PROVE  DOMAIN fate' = DOMAIN fate /\ fate' \in [DOMAIN fate -> Fates]
<1>a. fate \in [DOMAIN fate -> Fates]
  BY DEF IInv, Base
<1>. USE DEF Fates, world
<1>1. CASE Boot(w)
  BY <1>1, <1>a DEF Boot
<1>2. CASE Top(w)
  BY <1>2, <1>a DEF Top
<1>3. ASSUME NEW b \in BOOLEAN, Dispatch(w, b)
      PROVE  DOMAIN fate' = DOMAIN fate /\ fate' \in [DOMAIN fate -> Fates]
  BY <1>3, <1>a DEF Dispatch, Take
<1>4. ASSUME NEW b \in BOOLEAN, DispatchAborts(w, b)
      PROVE  DOMAIN fate' = DOMAIN fate /\ fate' \in [DOMAIN fate -> Fates]
  BY <1>4, <1>a DEF DispatchAborts, Take, begin_exit
<1>5. CASE ReapPending(w)
  BY <1>5, <1>a DEF ReapPending
<1>6. CASE ReapSession(w)
  BY <1>6, <1>a DEF ReapSession
<1>7. ASSUME NEW b \in BOOLEAN, NEW for \in {"reply", "upgrade"}, ReapHandler(w, for, b)
      PROVE  DOMAIN fate' = DOMAIN fate /\ fate' \in [DOMAIN fate -> Fates]
  BY <1>7, <1>a DEF ReapHandler, begin_exit, Drive
<1>8. ASSUME NEW b \in BOOLEAN, EndSession(w, b)
      PROVE  DOMAIN fate' = DOMAIN fate /\ fate' \in [DOMAIN fate -> Fates]
  BY <1>8, <1>a DEF EndSession, begin_exit, Drive
<1>9. ASSUME NEW b \in BOOLEAN, UpgradeAborts(w, b)
      PROVE  DOMAIN fate' = DOMAIN fate /\ fate' \in [DOMAIN fate -> Fates]
  BY <1>9, <1>a DEF UpgradeAborts, begin_exit
<1>10. CASE Driven(w)
  BY <1>10, <1>a DEF Driven, Settle
<1>11. ASSUME NEW ws \in BOOLEAN, Upgraded(w, ws)
       PROVE  DOMAIN fate' = DOMAIN fate /\ fate' \in [DOMAIN fate -> Fates]
  BY <1>11, <1>a DEF Upgraded, Settle
<1>12. CASE DriveFails(w)
  BY <1>12, <1>a DEF DriveFails, Leave
<1>13. CASE Finish(w)
  BY <1>13, <1>a DEF Finish, Leave
<1>14. CASE Tasks(w)
  BY <1>14, <1>a DEF Tasks
<1>15. CASE Tell(w)
  BY <1>15, <1>a DEF Tell
<1>16. CASE Awake(w)
  BY <1>16, <1>a DEF Awake, Harvest
<1>17. CASE Park(w)
  BY <1>17, <1>a DEF Park
<1>18. CASE UnparkWoken(w)
  BY <1>18, <1>a DEF UnparkWoken
<1>19. CASE UnparkWork(w)
  BY <1>19, <1>a DEF UnparkWork, Harvest
<1>20. CASE Retire(w)
  BY <1>20, <1>a DEF Retire
<1>21. CASE Absorb(w)
  BY <1>21, <1>a DEF Absorb, local
<1>22. ASSUME NEW x \in DOMAIN fate, AcceptReady(w, x)
      PROVE  DOMAIN fate' = DOMAIN fate /\ fate' \in [DOMAIN fate -> Fates]
  BY <1>22, <1>a DEF AcceptReady
<1>23. ASSUME NEW n \in 1..Cardinality(Conns), WorkReady(w, n)
      PROVE  DOMAIN fate' = DOMAIN fate /\ fate' \in [DOMAIN fate -> Fates]
  BY <1>23, <1>a DEF WorkReady
<1>24. CASE HandlerTasks(w)
  BY <1>24, <1>a DEF HandlerTasks, Handling, Reached
<1>. QED
  BY <1>1, <1>2, <1>3, <1>4, <1>5, <1>6, <1>7, <1>8, <1>9, <1>10, <1>11, <1>12, <1>13,
       <1>14, <1>15, <1>16, <1>17, <1>18, <1>19, <1>20, <1>21, <1>22, <1>23, <1>24
     DEF Worker, Streams, Kernel

LEMMA NotifyTypeStep ==
  ASSUME IInv, NEW w \in fleet, Worker(w) \/ Kernel(w)
  PROVE  waiters' \in SUBSET Workers /\ woken' \in [Workers -> {"no", "all", "one"}]
<1>a. waiters \in SUBSET Workers /\ woken \in [Workers -> {"no", "all", "one"}] /\ w \in Workers
  BY DEF IInv, Base
<1>. USE DEF notify
<1>1. CASE Boot(w)
  BY <1>1, <1>a DEF Boot
<1>2. CASE Top(w)
  BY <1>2, <1>a DEF Top
<1>3. ASSUME NEW b \in BOOLEAN, Dispatch(w, b)
      PROVE  waiters' \in SUBSET Workers /\ woken' \in [Workers -> {"no", "all", "one"}]
  BY <1>3, <1>a DEF Dispatch, Take
<1>4. ASSUME NEW b \in BOOLEAN, DispatchAborts(w, b)
      PROVE  waiters' \in SUBSET Workers /\ woken' \in [Workers -> {"no", "all", "one"}]
  BY <1>4, <1>a DEF DispatchAborts, Take, begin_exit
<1>5. CASE ReapPending(w)
  BY <1>5, <1>a DEF ReapPending
<1>6. CASE ReapSession(w)
  BY <1>6, <1>a DEF ReapSession
<1>7. ASSUME NEW b \in BOOLEAN, NEW for \in {"reply", "upgrade"}, ReapHandler(w, for, b)
      PROVE  waiters' \in SUBSET Workers /\ woken' \in [Workers -> {"no", "all", "one"}]
  BY <1>7, <1>a DEF ReapHandler, begin_exit, Drive
<1>8. ASSUME NEW b \in BOOLEAN, EndSession(w, b)
      PROVE  waiters' \in SUBSET Workers /\ woken' \in [Workers -> {"no", "all", "one"}]
  BY <1>8, <1>a DEF EndSession, begin_exit, Drive
<1>9. ASSUME NEW b \in BOOLEAN, UpgradeAborts(w, b)
      PROVE  waiters' \in SUBSET Workers /\ woken' \in [Workers -> {"no", "all", "one"}]
  BY <1>9, <1>a DEF UpgradeAborts, begin_exit
<1>10. CASE Driven(w)
  BY <1>10, <1>a DEF Driven, Settle
<1>11. ASSUME NEW ws \in BOOLEAN, Upgraded(w, ws)
       PROVE  waiters' \in SUBSET Workers /\ woken' \in [Workers -> {"no", "all", "one"}]
  BY <1>11, <1>a DEF Upgraded, Settle
<1>12. CASE DriveFails(w)
  BY <1>12, <1>a DEF DriveFails, Leave
<1>13. CASE Finish(w)
  BY <1>13, <1>a DEF Finish, Leave
<1>14. CASE Tasks(w)
  BY <1>14, <1>a DEF Tasks
<1>15. CASE Tell(w)
  BY <1>15, <1>a DEF Tell
<1>16. CASE Awake(w)
  BY <1>16, <1>a DEF Awake, Harvest
<1>17. CASE Park(w)
  BY <1>17, <1>a DEF Park
<1>18. CASE UnparkWoken(w)
  BY <1>18, <1>a DEF UnparkWoken
<1>19. CASE UnparkWork(w)
  BY <1>19, <1>a DEF UnparkWork, Harvest, GiveOne
<1>20. CASE Retire(w)
  BY <1>20, <1>a DEF Retire
<1>21. CASE Absorb(w)
  BY <1>21, <1>a DEF Absorb, local
<1>22. ASSUME NEW x \in DOMAIN fate, AcceptReady(w, x)
      PROVE  waiters' \in SUBSET Workers /\ woken' \in [Workers -> {"no", "all", "one"}]
  BY <1>22, <1>a DEF AcceptReady
<1>23. ASSUME NEW n \in 1..Cardinality(Conns), WorkReady(w, n)
      PROVE  waiters' \in SUBSET Workers /\ woken' \in [Workers -> {"no", "all", "one"}]
  BY <1>23, <1>a DEF WorkReady
<1>24. CASE HandlerTasks(w)
  BY <1>24, <1>a DEF HandlerTasks, Handling, Reached
<1>. QED
  BY <1>1, <1>2, <1>3, <1>4, <1>5, <1>6, <1>7, <1>8, <1>9, <1>10, <1>11, <1>12, <1>13,
       <1>14, <1>15, <1>16, <1>17, <1>18, <1>19, <1>20, <1>21, <1>22, <1>23, <1>24
     DEF Worker, Streams, Kernel

\* No connection is in two places of the worker that moves.
LEMMA OnceStep ==
  ASSUME IInv, NEW w \in fleet, Worker(w) \/ Kernel(w)
  PROVE  Once(w)'
<1>. USE DEF Once
<1>a. /\ w \in Workers /\ Once(w) /\ Loop(w) /\ pc \in [Workers -> PCs]
      /\ acc \in [Workers -> Conns \union {NoConn, Idle}]
      /\ flight \in [Workers -> Seq(Entries)] /\ flight[w] \in Seq(Entries)
      /\ job \in [Workers -> Jobs] /\ NoConn \notin Conns /\ Idle \notin Conns
  BY FleetBounds DEF IInv, Base
<1>b. \A i \in DOMAIN flight[w] : flight[w][i].c \in Conns
  <2>1. \A i \in DOMAIN flight[w] : flight[w][i] \in Entries
    BY <1>a
  <2>. QED  BY <2>1 DEF Entries
<1>c. NoJob.for = "nothing"
  BY DEF NoJob
\* Nothing but the accept and the job may have changed, and neither to
\* something the worker did not have there.
<1>d. ASSUME DOMAIN flight'[w] = DOMAIN flight[w],
             \A i \in DOMAIN flight[w] : flight'[w][i].c = flight[w][i].c,
             acc'[w] \in {acc[w], NoConn, Idle}, job'[w] = job[w] \/ job'[w].for # "abort"
      PROVE  Once(w)'
  BY <1>a, <1>b, <1>d
<1>1. CASE Boot(w)
  <2>1. /\ flight' = flight /\ acc'[w] \in {acc[w], NoConn, Idle}
        /\ job'[w] = job[w] \/ job'[w].for # "abort"
    BY <1>1, <1>a, <1>c DEF Boot
  <2>. QED  BY <1>d, <2>1
<1>2. CASE Top(w)
  <2>1. /\ flight' = flight /\ acc'[w] \in {acc[w], NoConn, Idle}
        /\ job'[w] = job[w] \/ job'[w].for # "abort"
    BY <1>2, <1>a, <1>c DEF Top
  <2>. QED  BY <1>d, <2>1
<1>3. ASSUME NEW b \in BOOLEAN, Dispatch(w, b)
      PROVE  Once(w)'
  <2>1. /\ acc[w] \in Conns /\ Len(flight[w]) + 1 \notin DOMAIN flight[w]
        /\ DOMAIN flight'[w] = DOMAIN flight[w] \cup {Len(flight[w]) + 1}
        /\ \A i \in DOMAIN flight[w] : flight'[w][i] = flight[w][i]
        /\ flight'[w][Len(flight[w]) + 1].c = acc[w]
    BY <1>3, <1>a, Dispatched
  <2>2. acc'[w] = NoConn /\ job'[w].for # "abort"
    BY <1>3, <1>a DEF Dispatch, Take, Loop
  <2>. QED  BY <1>a, <1>b, <2>1, <2>2
<1>4. ASSUME NEW b \in BOOLEAN, DispatchAborts(w, b)
      PROVE  Once(w)'
  <2>1. /\ acc[w] \in Conns /\ acc'[w] = NoConn /\ flight' = flight
        /\ job'[w] = [c |-> acc[w], for |-> "abort"]
    BY <1>4, <1>a DEF DispatchAborts, Take, Loop
  <2>. QED  BY <1>a, <1>b, <2>1
<1>5. CASE ReapPending(w)
  <2>1. /\ flight' = flight /\ acc'[w] \in {acc[w], NoConn, Idle}
        /\ job'[w] = job[w] \/ job'[w].for # "abort"
    BY <1>5, <1>a, <1>c DEF ReapPending
  <2>. QED  BY <1>d, <2>1
<1>6. CASE ReapSession(w)
  <2>1. /\ DOMAIN flight'[w] = DOMAIN flight[w]
        /\ \A i \in DOMAIN flight[w] : flight'[w][i].c = flight[w][i].c
    BY <1>6, <1>a, Polled
  <2>2. acc' = acc /\ (job'[w] = job[w] \/ job'[w].for # "abort")
    BY <1>6, <1>a, <1>c DEF ReapSession
  <2>. QED  BY <1>d, <2>1, <2>2
<1>7. ASSUME NEW b \in BOOLEAN, NEW for \in {"reply", "upgrade"}, ReapHandler(w, for, b)
      PROVE  Once(w)'
  <2>1. /\ flight' = flight /\ acc'[w] \in {acc[w], NoConn, Idle}
        /\ job'[w] = job[w] \/ job'[w].for # "abort"
    BY <1>7, <1>a, <1>c DEF ReapHandler, begin_exit, Drive
  <2>. QED  BY <1>d, <2>1
<1>8. ASSUME NEW b \in BOOLEAN, EndSession(w, b)
      PROVE  Once(w)'
  <2>1. /\ flight' = flight /\ acc'[w] \in {acc[w], NoConn, Idle}
        /\ job'[w] = job[w] \/ job'[w].for # "abort"
    BY <1>8, <1>a, <1>c DEF EndSession, begin_exit, Drive
  <2>. QED  BY <1>d, <2>1
<1>9. ASSUME NEW b \in BOOLEAN, UpgradeAborts(w, b)
      PROVE  Once(w)'
  <2>1. /\ flight' = flight /\ acc'[w] \in {acc[w], NoConn, Idle}
        /\ job'[w] = job[w] \/ job'[w].for # "abort"
    BY <1>9, <1>a, <1>c DEF UpgradeAborts, begin_exit
  <2>. QED  BY <1>d, <2>1
<1>10. CASE Driven(w)
  <2>1. acc' = acc /\ job'[w].for = "nothing"
    BY <1>10, <1>a, <1>c DEF Driven, Settle
  <2>2. CASE job[w].for = "abort"
    <3>1. flight' = flight
      BY <1>10, <2>2 DEF Driven
    <3>. QED  BY <1>d, <2>1, <3>1
  <2>3. CASE job[w].for # "abort"
    <3>1. /\ at[w] \in DOMAIN flight[w] /\ DOMAIN flight[w] = 1..Len(flight[w])
          /\ Len(flight[w]) \in Nat /\ DOMAIN flight'[w] = 1..(Len(flight[w]) - 1)
          /\ \A k \in DOMAIN flight'[w] : /\ Up(at[w], k) \in DOMAIN flight[w] \ {at[w]}
                                          /\ flight'[w][k] = flight[w][Up(at[w], k)]
      BY <1>10, <1>a, <2>3, TakenOut
    <3>2. ASSUME NEW i \in DOMAIN flight'[w], NEW j \in DOMAIN flight'[w],
                 flight'[w][i].c = flight'[w][j].c
          PROVE  i = j
      <4>1. Up(at[w], i) = Up(at[w], j)
        BY <1>a, <3>1, <3>2
      <4>2. i \in Nat /\ j \in Nat /\ at[w] \in Nat
        BY <3>1
      <4>. QED  BY <4>1, <4>2 DEF Up
    <3>3. \A i \in DOMAIN flight'[w] : acc'[w] # flight'[w][i].c
      BY <1>a, <2>1, <3>1
    <3>. QED  BY <2>1, <3>2, <3>3
  <2>. QED  BY <2>2, <2>3
<1>11. ASSUME NEW ws \in BOOLEAN, Upgraded(w, ws)
       PROVE  Once(w)'
  <2>1. /\ DOMAIN flight'[w] = DOMAIN flight[w]
        /\ \A i \in DOMAIN flight[w] : flight'[w][i].c = flight[w][i].c
    BY <1>11, <1>a, Opened
  <2>2. acc' = acc /\ (job'[w] = job[w] \/ job'[w].for # "abort")
    BY <1>11, <1>a, <1>c DEF Upgraded, Settle
  <2>. QED  BY <1>d, <2>1, <2>2
<1>12. CASE DriveFails(w)
  <2>1. acc'[w] = NoConn /\ flight'[w] = <<>> /\ job'[w].for = "nothing"
    BY <1>12, <1>a, <1>c DEF DriveFails, Leave
  <2>. QED  BY <2>1
<1>13. CASE Finish(w)
  <2>1. acc'[w] = NoConn /\ flight'[w] = <<>> /\ job'[w].for = "nothing"
    BY <1>13, <1>a, <1>c DEF Finish, Leave
  <2>. QED  BY <2>1
<1>14. CASE Tasks(w)
  <2>1. /\ flight' = flight /\ acc'[w] \in {acc[w], NoConn, Idle}
        /\ job'[w] = job[w] \/ job'[w].for # "abort"
    BY <1>14, <1>a, <1>c DEF Tasks
  <2>. QED  BY <1>d, <2>1
<1>15. CASE Tell(w)
  <2>1. /\ DOMAIN flight'[w] = DOMAIN flight[w]
        /\ \A i \in DOMAIN flight[w] : flight'[w][i].c = flight[w][i].c
    BY <1>15, <1>a, Told
  <2>2. acc' = acc /\ (job'[w] = job[w] \/ job'[w].for # "abort")
    BY <1>15, <1>a, <1>c DEF Tell
  <2>. QED  BY <1>d, <2>1, <2>2
<1>16. CASE Awake(w)
  <2>1. /\ flight' = flight /\ acc'[w] \in {acc[w], NoConn, Idle}
        /\ job'[w] = job[w] \/ job'[w].for # "abort"
    BY <1>16, <1>a, <1>c DEF Awake, Harvest
  <2>. QED  BY <1>d, <2>1
<1>17. CASE Park(w)
  <2>1. /\ flight' = flight /\ acc'[w] \in {acc[w], NoConn, Idle}
        /\ job'[w] = job[w] \/ job'[w].for # "abort"
    BY <1>17, <1>a, <1>c DEF Park
  <2>. QED  BY <1>d, <2>1
<1>18. CASE UnparkWoken(w)
  <2>1. /\ flight' = flight /\ acc'[w] \in {acc[w], NoConn, Idle}
        /\ job'[w] = job[w] \/ job'[w].for # "abort"
    BY <1>18, <1>a, <1>c DEF UnparkWoken
  <2>. QED  BY <1>d, <2>1
<1>19. CASE UnparkWork(w)
  <2>1. /\ flight' = flight /\ acc'[w] \in {acc[w], NoConn, Idle}
        /\ job'[w] = job[w] \/ job'[w].for # "abort"
    BY <1>19, <1>a, <1>c DEF UnparkWork, Harvest
  <2>. QED  BY <1>d, <2>1
<1>20. CASE Retire(w)
  <2>1. /\ flight' = flight /\ acc'[w] \in {acc[w], NoConn, Idle}
        /\ job'[w] = job[w] \/ job'[w].for # "abort"
    BY <1>20, <1>a, <1>c DEF Retire
  <2>. QED  BY <1>d, <2>1
<1>21. CASE Absorb(w)
  <2>1. /\ flight' = flight /\ acc'[w] \in {acc[w], NoConn, Idle}
        /\ job'[w] = job[w] \/ job'[w].for # "abort"
    BY <1>21, <1>a, <1>c DEF Absorb, local
  <2>. QED  BY <1>d, <2>1
<1>22. ASSUME NEW x \in DOMAIN fate, AcceptReady(w, x)
      PROVE  Once(w)'
  <2>1. acc'[w] = x /\ UNCHANGED <<flight, job>> /\ fate[x] = "new"
    BY <1>22, <1>a DEF AcceptReady
  <2>2. x \notin Mine(w) /\ x \in Conns
    BY <1>a, <2>1 DEF IInv, Base, Placed, Open
  <2>3. /\ \A i \in DOMAIN flight[w] : flight[w][i].c # x
        /\ job[w].for = "abort" => job[w].c # x
    BY <2>2 DEF Mine
  <2>. QED  BY <1>a, <2>1, <2>2, <2>3
<1>23. ASSUME NEW n \in 1..Cardinality(Conns), WorkReady(w, n)
      PROVE  Once(w)'
  <2>1. /\ DOMAIN flight'[w] = DOMAIN flight[w]
        /\ \A i \in DOMAIN flight[w] : flight'[w][i].c = flight[w][i].c
    BY <1>23, <1>a, Arrived
  <2>2. acc' = acc /\ (job'[w] = job[w] \/ job'[w].for # "abort")
    BY <1>23, <1>a, <1>c DEF WorkReady
  <2>. QED  BY <1>d, <2>1, <2>2
<1>24. CASE HandlerTasks(w)
  <2>1. /\ flight' = flight /\ acc'[w] \in {acc[w], NoConn, Idle}
        /\ job'[w] = job[w] \/ job'[w].for # "abort"
    BY <1>24, <1>a, <1>c DEF HandlerTasks, Handling, Reached
  <2>. QED  BY <1>d, <2>1
<1>. QED
  BY <1>1, <1>2, <1>3, <1>4, <1>5, <1>6, <1>7, <1>8, <1>9, <1>10, <1>11, <1>12, <1>13,
       <1>14, <1>15, <1>16, <1>17, <1>18, <1>19, <1>20, <1>21, <1>22, <1>23, <1>24
     DEF Worker, Streams, Kernel
--------------------------------------------------------------------------------
(* A connection has one place.                                              *)

\* A step of a worker settles or drops some of the connections it has, or
\* takes one that was new.
Settles(w) == \E X \in SUBSET Mine(w) : Mine(w)' = Mine(w) \ X /\ Open' = Open \ X
Takes(w) == \E c \in DOMAIN fate \ Open : Mine(w)' = Mine(w) \cup {c} /\ Open' = Open \cup {c}

LEMMA PlaceKinds ==
  ASSUME IInv, NEW w \in fleet, Worker(w) \/ Kernel(w)
  PROVE  Settles(w) \/ Takes(w)
<1>. USE DEF world
<1>a. /\ w \in Workers /\ Once(w) /\ Loop(w) /\ pc \in [Workers -> PCs]
      /\ acc \in [Workers -> Conns \union {NoConn, Idle}]
      /\ flight \in [Workers -> Seq(Entries)]
      /\ job \in [Workers -> Jobs] /\ NoConn \notin Conns /\ Idle \notin Conns
  BY FleetBounds DEF IInv, Base
<1>b. NoJob.for = "nothing"
  BY DEF NoJob
<1>c. Mine(w) \subseteq Open /\ Open \subseteq DOMAIN fate /\ DOMAIN fate \subseteq Conns
  BY <1>a DEF IInv, Base, Placed, Open
<1>d. ASSUME Mine(w)' = Mine(w), Open' = Open
      PROVE  Settles(w)
  <2>1. Mine(w) = Mine(w) \ {} /\ Open = Open \ {} /\ {} \in SUBSET Mine(w)
    OBVIOUS
  <2>. QED  BY <1>d, <2>1 DEF Settles
\* The entries keep their connections, and nothing is called or settled.
<1>e. ASSUME DOMAIN flight'[w] = DOMAIN flight[w],
             \A i \in DOMAIN flight[w] : flight'[w][i].c = flight[w][i].c,
             acc'[w] = acc[w] \/ (acc[w] \notin Conns /\ acc'[w] \notin Conns),
             job'[w] = job[w] \/ (job[w].for # "abort" /\ job'[w].for # "abort")
      PROVE  Mine(w)' = Mine(w)
  BY <1>e DEF Mine
<1>f. ASSUME fate' = fate
      PROVE  Open' = Open
  BY <1>f DEF Open
<1>1. CASE Boot(w)
  <2>1. /\ flight' = flight /\ fate' = fate
        /\ acc'[w] = acc[w] \/ (acc[w] \notin Conns /\ acc'[w] \notin Conns)
        /\ job'[w] = job[w] \/ (job[w].for # "abort" /\ job'[w].for # "abort")
    BY <1>1, <1>a DEF Boot
  <2>. QED  BY <1>d, <1>e, <1>f, <2>1
<1>2. CASE Top(w)
  <2>1. /\ flight' = flight /\ fate' = fate
        /\ acc'[w] = acc[w] \/ (acc[w] \notin Conns /\ acc'[w] \notin Conns)
        /\ job'[w] = job[w] \/ (job[w].for # "abort" /\ job'[w].for # "abort")
    BY <1>2, <1>a DEF Top, Loop
  <2>. QED  BY <1>d, <1>e, <1>f, <2>1
<1>3. ASSUME NEW b \in BOOLEAN, Dispatch(w, b)
      PROVE  Settles(w) \/ Takes(w)
  <2>1. /\ acc[w] \in Conns
        /\ DOMAIN flight'[w] = DOMAIN flight[w] \cup {Len(flight[w]) + 1}
        /\ \A i \in DOMAIN flight[w] : flight'[w][i] = flight[w][i]
        /\ flight'[w][Len(flight[w]) + 1].c = acc[w]
    BY <1>3, <1>a, Dispatched
  <2>2. Len(flight[w]) + 1 \notin DOMAIN flight[w]
    BY <1>3, <1>a, Dispatched
  <2>3. acc'[w] = NoConn /\ job' = job /\ fate' = fate
    BY <1>3, <1>a DEF Dispatch, Take
  <2>4. Mine(w)' = Mine(w)
    BY <1>a, <2>1, <2>2, <2>3 DEF Mine
  <2>. QED  BY <1>d, <1>f, <2>3, <2>4
<1>4. ASSUME NEW b \in BOOLEAN, DispatchAborts(w, b)
      PROVE  Settles(w) \/ Takes(w)
  <2>1. /\ acc[w] \in Conns /\ acc'[w] = NoConn /\ flight' = flight /\ fate' = fate
        /\ job'[w] = [c |-> acc[w], for |-> "abort"] /\ job[w].for # "abort"
    BY <1>4, <1>a DEF DispatchAborts, Take, Loop
  <2>2. Mine(w)' = Mine(w)
    BY <1>a, <2>1 DEF Mine
  <2>. QED  BY <1>d, <1>f, <2>1, <2>2
<1>5. CASE ReapPending(w)
  <2>1. /\ flight' = flight /\ fate' = fate
        /\ acc'[w] = acc[w] \/ (acc[w] \notin Conns /\ acc'[w] \notin Conns)
        /\ job'[w] = job[w] \/ (job[w].for # "abort" /\ job'[w].for # "abort")
    BY <1>5, <1>a DEF ReapPending, Loop, Reached
  <2>. QED  BY <1>d, <1>e, <1>f, <2>1
<1>6. CASE ReapSession(w)
  <2>1. /\ DOMAIN flight'[w] = DOMAIN flight[w]
        /\ \A i \in DOMAIN flight[w] : flight'[w][i].c = flight[w][i].c
    BY <1>6, <1>a, Polled
  <2>2. acc' = acc /\ job' = job /\ fate' = fate
    BY <1>6 DEF ReapSession
  <2>. QED  BY <1>d, <1>e, <1>f, <2>1, <2>2
<1>7. ASSUME NEW b \in BOOLEAN, NEW for \in {"reply", "upgrade"}, ReapHandler(w, for, b)
      PROVE  Settles(w) \/ Takes(w)
  <2>1. /\ flight' = flight /\ fate' = fate
        /\ acc'[w] = acc[w] \/ (acc[w] \notin Conns /\ acc'[w] \notin Conns)
        /\ job'[w] = job[w] \/ (job[w].for # "abort" /\ job'[w].for # "abort")
    BY <1>7, <1>a DEF ReapHandler, begin_exit, Drive, Loop, Reached
  <2>. QED  BY <1>d, <1>e, <1>f, <2>1
<1>8. ASSUME NEW b \in BOOLEAN, EndSession(w, b)
      PROVE  Settles(w) \/ Takes(w)
  <2>1. /\ flight' = flight /\ fate' = fate
        /\ acc'[w] = acc[w] \/ (acc[w] \notin Conns /\ acc'[w] \notin Conns)
        /\ job'[w] = job[w] \/ (job[w].for # "abort" /\ job'[w].for # "abort")
    BY <1>8, <1>a DEF EndSession, begin_exit, Drive, Loop, Reached
  <2>. QED  BY <1>d, <1>e, <1>f, <2>1
<1>9. ASSUME NEW b \in BOOLEAN, UpgradeAborts(w, b)
      PROVE  Settles(w) \/ Takes(w)
  <2>1. /\ flight' = flight /\ fate' = fate
        /\ acc'[w] = acc[w] \/ (acc[w] \notin Conns /\ acc'[w] \notin Conns)
        /\ job'[w] = job[w] \/ (job[w].for # "abort" /\ job'[w].for # "abort")
    BY <1>9, <1>a DEF UpgradeAborts, begin_exit, Loop
  <2>. QED  BY <1>d, <1>e, <1>f, <2>1
<1>10. CASE Driven(w)
  <2>. DEFINE c == job[w].c
  <2>1. /\ acc' = acc /\ job'[w].for = "nothing"
        /\ fate' = [fate EXCEPT ![c] = IF job[w].for = "close" THEN "closed" ELSE "replied"]
    BY <1>10, <1>a, <1>b DEF Driven, Settle
  <2>2. c \in Conns /\ pc[w] = "driving"
    BY <1>10, <1>a DEF Driven, Loop
  <2>3. Open' = Open \ {c}
    BY <2>1 DEF Open
  <2>4. c \in Mine(w) /\ Mine(w)' = Mine(w) \ {c}
    <3>1. CASE job[w].for = "abort"
      <4>1. flight' = flight
        BY <1>10, <3>1 DEF Driven
      <4>. QED  BY <1>a, <2>1, <2>2, <3>1, <4>1 DEF Mine, Once
    <3>2. CASE job[w].for # "abort"
      <4>1. /\ at[w] \in DOMAIN flight[w] /\ flight[w][at[w]].c = c
            /\ DOMAIN flight[w] = 1..Len(flight[w])
            /\ Len(flight[w]) \in Nat /\ DOMAIN flight'[w] = 1..(Len(flight[w]) - 1)
            /\ \A k \in DOMAIN flight'[w] : /\ Up(at[w], k) \in DOMAIN flight[w] \ {at[w]}
                                            /\ flight'[w][k] = flight[w][Up(at[w], k)]
        BY <1>10, <1>a, <3>2, TakenOut
      <4>2. ASSUME NEW i \in DOMAIN flight[w], i # at[w]
            PROVE  \E k \in DOMAIN flight'[w] : flight'[w][k].c = flight[w][i].c
        <5>. DEFINE k == IF i < at[w] THEN i ELSE i - 1
        <5>1. k \in DOMAIN flight'[w] /\ Up(at[w], k) = i
          BY <4>1, <4>2 DEF Up
        <5>. QED  BY <4>1, <5>1
      <4>3. \A i \in DOMAIN flight[w] : flight[w][i].c = c => i = at[w]
        BY <1>a, <4>1 DEF Once
      <4>4. acc[w] # c
        BY <1>a, <4>1 DEF Once
      <4>5. ASSUME NEW d \in Conns
            PROVE  (\E i \in DOMAIN flight'[w] : flight'[w][i].c = d)
                     <=> (d # c /\ \E i \in DOMAIN flight[w] : flight[w][i].c = d)
        <5>1. ASSUME NEW i \in DOMAIN flight'[w], flight'[w][i].c = d
              PROVE  d # c /\ \E j \in DOMAIN flight[w] : flight[w][j].c = d
          <6>1. PICK j \in DOMAIN flight[w] : j # at[w] /\ flight'[w][i] = flight[w][j]
            BY <4>1
          <6>. QED  BY <4>3, <5>1, <6>1
        <5>2. ASSUME d # c, NEW i \in DOMAIN flight[w], flight[w][i].c = d
              PROVE  \E j \in DOMAIN flight'[w] : flight'[w][j].c = d
          <6>1. i # at[w]
            BY <4>1, <5>2
          <6>. QED  BY <4>2, <5>2, <6>1
        <5>. QED  BY <5>1, <5>2
      <4>. QED  BY <2>1, <2>2, <3>2, <4>1, <4>4, <4>5 DEF Mine
    <3>. QED  BY <3>1, <3>2
  <2>5. {c} \in SUBSET Mine(w)
    BY <2>4
  <2>. HIDE DEF c
  <2>. QED  BY <2>3, <2>4, <2>5 DEF Settles
<1>11. ASSUME NEW ws \in BOOLEAN, Upgraded(w, ws)
       PROVE  Settles(w) \/ Takes(w)
  <2>. DEFINE c == job[w].c
  <2>1. /\ at[w] \in DOMAIN flight[w] /\ DOMAIN flight'[w] = DOMAIN flight[w]
        /\ \A i \in DOMAIN flight[w] : flight'[w][i].c = flight[w][i].c
        /\ flight[w][at[w]].c = c
    BY <1>11, <1>a, Opened
  <2>2. /\ acc' = acc /\ job'[w].for = "nothing" /\ job[w].for = "upgrade"
        /\ fate' = [fate EXCEPT ![c] = "stream"]
    BY <1>11, <1>a, <1>b DEF Upgraded, Settle
  <2>3. c \in Open
    BY <1>a, <1>c, <2>1, <2>2 DEF Mine, Loop
  <2>4. Open' = Open
    BY <2>2, <2>3 DEF Open
  <2>. QED  BY <1>d, <1>e, <2>1, <2>2, <2>4
<1>12. CASE DriveFails(w)
  <2>1. acc'[w] = NoConn /\ flight'[w] = <<>> /\ job'[w].for = "nothing"
    BY <1>12, <1>a, <1>b DEF DriveFails, Leave
  <2>2. Mine(w)' = {}
    BY <1>a, <2>1 DEF Mine
  <2>3. \A c \in Conns : c \in Lost(w) => c \in Mine(w)
    BY <1>12, <1>a DEF DriveFails, Loop, Lost, Mine, Here, Jobs, Purposes
  <2>4. \A c \in Mine(w) : c \in Lost(w)
    BY DEF Lost, Mine
  <2>5. fate' = [c \in DOMAIN fate |-> IF c \in Lost(w) /\ fate[c] \in {"taken", "stream"}
                                       THEN "dropped" ELSE fate[c]]
    BY <1>12 DEF DriveFails, Leave
  <2>6. Open' = Open \ Mine(w)
    BY <1>c, <2>3, <2>4, <2>5 DEF Open
  <2>7. Mine(w)' = Mine(w) \ Mine(w)
    BY <2>2
  <2>. QED  BY <2>6, <2>7 DEF Settles
<1>13. CASE Finish(w)
  <2>1. acc'[w] = NoConn /\ flight'[w] = <<>> /\ job'[w].for = "nothing"
    BY <1>13, <1>a, <1>b DEF Finish, Leave
  <2>2. Mine(w)' = {}
    BY <1>a, <2>1 DEF Mine
  <2>3. \A c \in Conns : c \in Lost(w) => c \in Mine(w)
    BY <1>13, <1>a DEF Finish, Loop, Lost, Mine, Here, Jobs, Purposes, Reaped
  <2>4. \A c \in Mine(w) : c \in Lost(w)
    BY DEF Lost, Mine
  <2>5. fate' = [c \in DOMAIN fate |-> IF c \in Lost(w) /\ fate[c] \in {"taken", "stream"}
                                       THEN "dropped" ELSE fate[c]]
    BY <1>13 DEF Finish, Leave
  <2>6. Open' = Open \ Mine(w)
    BY <1>c, <2>3, <2>4, <2>5 DEF Open
  <2>7. Mine(w)' = Mine(w) \ Mine(w)
    BY <2>2
  <2>. QED  BY <2>6, <2>7 DEF Settles
<1>14. CASE Tasks(w)
  <2>1. /\ flight' = flight /\ fate' = fate
        /\ acc'[w] = acc[w] \/ (acc[w] \notin Conns /\ acc'[w] \notin Conns)
        /\ job'[w] = job[w] \/ (job[w].for # "abort" /\ job'[w].for # "abort")
    BY <1>14, <1>a DEF Tasks
  <2>. QED  BY <1>d, <1>e, <1>f, <2>1
<1>15. CASE Tell(w)
  <2>1. /\ DOMAIN flight'[w] = DOMAIN flight[w]
        /\ \A i \in DOMAIN flight[w] : flight'[w][i].c = flight[w][i].c
    BY <1>15, <1>a, Told
  <2>2. acc' = acc /\ job' = job /\ fate' = fate
    BY <1>15 DEF Tell
  <2>. QED  BY <1>d, <1>e, <1>f, <2>1, <2>2
<1>16. CASE Awake(w)
  <2>1. job' = job /\ flight' = flight
    BY <1>16 DEF Awake
  <2>2. CASE acc' = acc /\ fate' = fate
    BY <1>d, <1>e, <1>f, <2>1, <2>2
  <2>3. CASE /\ acc[w] \in Conns /\ acc'[w] = NoConn
             /\ fate' = [fate EXCEPT ![acc[w]] = "dropped"]
    <3>1. Open' = Open \ {acc[w]}
      BY <2>3 DEF Open
    <3>2. acc[w] \in Mine(w) /\ Mine(w)' = Mine(w) \ {acc[w]}
      BY <1>a, <2>1, <2>3 DEF Mine, Once
    <3>3. {acc[w]} \in SUBSET Mine(w)
      BY <3>2
    <3>. QED  BY <3>1, <3>2, <3>3 DEF Settles
  <2>. QED  BY <1>16, <1>a, <2>2, <2>3 DEF Awake, Harvest
<1>17. CASE Park(w)
  <2>1. /\ flight' = flight /\ fate' = fate
        /\ acc'[w] = acc[w] \/ (acc[w] \notin Conns /\ acc'[w] \notin Conns)
        /\ job'[w] = job[w] \/ (job[w].for # "abort" /\ job'[w].for # "abort")
    BY <1>17, <1>a DEF Park
  <2>. QED  BY <1>d, <1>e, <1>f, <2>1
<1>18. CASE UnparkWoken(w)
  <2>1. /\ flight' = flight /\ fate' = fate
        /\ acc'[w] = acc[w] \/ (acc[w] \notin Conns /\ acc'[w] \notin Conns)
        /\ job'[w] = job[w] \/ (job[w].for # "abort" /\ job'[w].for # "abort")
    BY <1>18, <1>a DEF UnparkWoken
  <2>. QED  BY <1>d, <1>e, <1>f, <2>1
<1>19. CASE UnparkWork(w)
  <2>1. job' = job /\ flight' = flight
    BY <1>19 DEF UnparkWork
  <2>2. CASE acc' = acc /\ fate' = fate
    BY <1>d, <1>e, <1>f, <2>1, <2>2
  <2>3. CASE /\ acc[w] \in Conns /\ acc'[w] = NoConn
             /\ fate' = [fate EXCEPT ![acc[w]] = "dropped"]
    <3>1. Open' = Open \ {acc[w]}
      BY <2>3 DEF Open
    <3>2. acc[w] \in Mine(w) /\ Mine(w)' = Mine(w) \ {acc[w]}
      BY <1>a, <2>1, <2>3 DEF Mine, Once
    <3>3. {acc[w]} \in SUBSET Mine(w)
      BY <3>2
    <3>. QED  BY <3>1, <3>2, <3>3 DEF Settles
  <2>. QED  BY <1>19, <1>a, <2>2, <2>3 DEF UnparkWork, Harvest
<1>20. CASE Retire(w)
  <2>1. /\ flight' = flight /\ fate' = fate
        /\ acc'[w] = acc[w] \/ (acc[w] \notin Conns /\ acc'[w] \notin Conns)
        /\ job'[w] = job[w] \/ (job[w].for # "abort" /\ job'[w].for # "abort")
    BY <1>20, <1>a DEF Retire
  <2>. QED  BY <1>d, <1>e, <1>f, <2>1
<1>21. CASE Absorb(w)
  <2>1. /\ flight' = flight /\ fate' = fate
        /\ acc'[w] = acc[w] \/ (acc[w] \notin Conns /\ acc'[w] \notin Conns)
        /\ job'[w] = job[w] \/ (job[w].for # "abort" /\ job'[w].for # "abort")
    BY <1>21, <1>a DEF Absorb, local
  <2>. QED  BY <1>d, <1>e, <1>f, <2>1
<1>22. ASSUME NEW x \in DOMAIN fate, AcceptReady(w, x)
      PROVE  Settles(w) \/ Takes(w)
  <2>1. /\ acc[w] = Idle /\ acc'[w] = x /\ UNCHANGED <<flight, job>> /\ fate[x] = "new"
        /\ fate' = [fate EXCEPT ![x] = "taken"]
    BY <1>22, <1>a DEF AcceptReady
  <2>2. x \in Conns /\ x \notin Open
    BY <1>c, <2>1 DEF Open
  <2>3. Open' = Open \cup {x}
    BY <2>1 DEF Open
  <2>4. Mine(w)' = Mine(w) \cup {x}
    BY <1>a, <2>1, <2>2 DEF Mine
  <2>. QED  BY <2>2, <2>3, <2>4 DEF Takes
<1>23. ASSUME NEW n \in 1..Cardinality(Conns), WorkReady(w, n)
      PROVE  Settles(w) \/ Takes(w)
  <2>1. /\ DOMAIN flight'[w] = DOMAIN flight[w]
        /\ \A i \in DOMAIN flight[w] : flight'[w][i].c = flight[w][i].c
    BY <1>23, <1>a, Arrived
  <2>2. acc' = acc /\ job' = job /\ fate' = fate
    BY <1>23 DEF WorkReady
  <2>. QED  BY <1>d, <1>e, <1>f, <2>1, <2>2
<1>24. CASE HandlerTasks(w)
  <2>1. /\ flight' = flight /\ fate' = fate
        /\ acc'[w] = acc[w] \/ (acc[w] \notin Conns /\ acc'[w] \notin Conns)
        /\ job'[w] = job[w] \/ (job[w].for # "abort" /\ job'[w].for # "abort")
    BY <1>24, <1>a DEF HandlerTasks, Handling, Reached
  <2>. QED  BY <1>d, <1>e, <1>f, <2>1
<1>. QED
  BY <1>1, <1>2, <1>3, <1>4, <1>5, <1>6, <1>7, <1>8, <1>9, <1>10, <1>11, <1>12, <1>13,
       <1>14, <1>15, <1>16, <1>17, <1>18, <1>19, <1>20, <1>21, <1>22, <1>23, <1>24
     DEF Worker, Streams, Kernel

LEMMA PlacedStep ==
  ASSUME IInv, NEW w \in fleet, Worker(w) \/ Kernel(w)
  PROVE  Placed'
<1>1. w \in Workers /\ Placed
  BY DEF IInv, Base
<1>2. \A v \in Workers \ {w} : Mine(v)' = Mine(v)
  <2>1. ASSUME NEW v \in Workers \ {w}
        PROVE  Mine(v)' = Mine(v)
    BY OthersKept DEF Local, Mine
  <2>. QED  BY <2>1
<1>3. CASE Settles(w)
  <2>1. PICK X \in SUBSET Mine(w) : Mine(w)' = Mine(w) \ X /\ Open' = Open \ X
    BY <1>3 DEF Settles
  <2>2. \A v \in Workers : Mine(v)' \subseteq Open'
    BY <1>1, <1>2, <2>1 DEF Placed
  <2>3. \A c \in Open' : \E v \in Workers : c \in Mine(v)'
    BY <1>1, <1>2, <2>1 DEF Placed
  <2>4. \A u, v \in Workers : u # v => Mine(u)' \cap Mine(v)' = {}
    BY <1>1, <1>2, <2>1 DEF Placed
  <2>. QED  BY <2>2, <2>3, <2>4 DEF Placed
<1>4. CASE Takes(w)
  <2>1. PICK c \in DOMAIN fate \ Open : Mine(w)' = Mine(w) \cup {c} /\ Open' = Open \cup {c}
    BY <1>4 DEF Takes
  <2>2. \A v \in Workers : Mine(v)' \subseteq Open'
    BY <1>1, <1>2, <2>1 DEF Placed
  <2>3. \A d \in Open' : \E v \in Workers : d \in Mine(v)'
    BY <1>1, <1>2, <2>1 DEF Placed
  <2>4. \A u, v \in Workers : u # v => Mine(u)' \cap Mine(v)' = {}
    BY <1>1, <1>2, <2>1 DEF Placed
  <2>. QED  BY <2>2, <2>3, <2>4 DEF Placed
<1>. QED  BY <1>3, <1>4, PlaceKinds
--------------------------------------------------------------------------------
(* The gauge of active requests.                                            *)

LEMMA LifeFinite ==
  ASSUME IInv, NEW w \in Workers
  PROVE  /\ flight[w] \in Seq(Entries) /\ IsFiniteSet(Life(w)) /\ Cardinality(Life(w)) \in Nat
         /\ Life(w) \subseteq DOMAIN flight[w]
<1>1. /\ flight[w] \in Seq(Entries) /\ Len(flight[w]) \in Nat
      /\ DOMAIN flight[w] = 1..Len(flight[w])
  BY DEF IInv, Base
<1>2. 1 \in Int /\ Len(flight[w]) \in Int
  BY <1>1
<1>3. IsFiniteSet(DOMAIN flight[w])
  BY <1>1, <1>2, FS_Interval
<1>4. Life(w) \subseteq DOMAIN flight[w]
  BY DEF Life
<1>. QED  BY <1>1, <1>3, <1>4, FS_Subset, FS_CardinalityType

\* Taking an entry out renumbers the others and loses none of them.
LEMMA LifeTakenOut ==
  ASSUME IInv, NEW w \in Workers, Driven(w), job[w].for # "abort"
  PROVE  /\ IsFiniteSet(Life(w)') 
         /\ Cardinality(Life(w)') = Cardinality(Life(w)) - (IF at[w] \in Life(w) THEN 1 ELSE 0)
<1>. DEFINE S == Life(w) \ {at[w]}
            T == Life(w)'
            i == at[w]
            f == [j \in S |-> IF j < i THEN j ELSE j - 1]
<1>1. IsFiniteSet(Life(w)) /\ Cardinality(Life(w)) \in Nat
  BY LifeFinite
<1>2. /\ i \in DOMAIN flight[w]
      /\ DOMAIN flight[w] = 1..Len(flight[w]) /\ Len(flight[w]) \in Nat
      /\ DOMAIN flight'[w] = 1..(Len(flight[w]) - 1)
      /\ \A k \in DOMAIN flight'[w] : /\ Up(i, k) \in DOMAIN flight[w] \ {i}
                                      /\ flight'[w][k] = flight[w][Up(i, k)]
  BY TakenOut
<1>3. i \in Nat /\ S \subseteq 1..Len(flight[w])
  BY <1>2 DEF Life
<1>. HIDE DEF i
<1>4. ASSUME NEW j \in S
      PROVE  f[j] \in T /\ Up(i, f[j]) = j
  <2>1. j \in 1..Len(flight[w]) /\ j # i /\ flight[w][j].life = "http"
    BY <1>2, <1>4 DEF Life, i
  <2>2. f[j] \in 1..(Len(flight[w]) - 1) /\ Up(i, f[j]) = j
    BY <1>2, <1>3, <2>1 DEF Up
  <2>3. f[j] \in DOMAIN flight'[w]
    BY <1>2, <2>2
  <2>4. flight'[w][f[j]].life = "http"
    BY <1>2, <2>1, <2>2, <2>3
  <2>. QED  BY <2>2, <2>3, <2>4 DEF Life
<1>5. ASSUME NEW k \in T
      PROVE  Up(i, k) \in S /\ f[Up(i, k)] = k
  <2>1. k \in DOMAIN flight'[w] /\ flight'[w][k].life = "http"
    BY <1>5 DEF Life
  <2>2. Up(i, k) \in DOMAIN flight[w] \ {i} /\ flight[w][Up(i, k)].life = "http"
    BY <1>2, <2>1
  <2>3. Up(i, k) \in S
    BY <2>2 DEF Life, i
  <2>4. k \in Nat
    BY <1>2, <2>1
  <2>. QED  BY <1>3, <2>3, <2>4 DEF Up
<1>. HIDE DEF f, S, T
<1>6. f \in [S -> T]
  <2>1. f = [j \in S |-> f[j]]
    BY DEF f
  <2>. QED  BY <1>4, <2>1
<1>7. f \in Injection(S, T)
  BY <1>4, <1>6 DEF Injection, IsInjective
<1>8. f \in Surjection(S, T)
  BY <1>5, <1>6 DEF Surjection
<1>9. ExistsBijection(S, T)
  BY <1>7, <1>8 DEF ExistsBijection, Bijection
<1>10. /\ IsFiniteSet(S)
       /\ Cardinality(S) = IF at[w] \in Life(w) THEN Cardinality(Life(w)) - 1
                                                ELSE Cardinality(Life(w))
  BY <1>1, FS_RemoveElement DEF S
<1>11. IsFiniteSet(T) /\ Cardinality(T) = Cardinality(S)
  BY <1>9, <1>10, FS_Bijection
<1>. QED  BY <1>1, <1>10, <1>11 DEF T

\* http.server.active_requests counts the handlers in flight, less the one
\* whose answer is on its way.
LEMMA GaugeStep ==
  ASSUME IInv, NEW w \in fleet, Worker(w) \/ Kernel(w)
  PROVE  Gauge(w)'
<1>a. /\ w \in Workers /\ Loop(w) /\ Gauge(w) /\ pc \in [Workers -> PCs]
      /\ flight \in [Workers -> Seq(Entries)] /\ at \in [Workers -> Nat \ {0}]
      /\ job \in [Workers -> Jobs] /\ active \in [Workers -> Int]
  BY DEF IInv, Base
<1>b. IsFiniteSet(Life(w)) /\ Cardinality(Life(w)) \in Nat /\ Life(w) \subseteq DOMAIN flight[w]
  BY <1>a, LifeFinite
<1>c. NoJob.for = "nothing" /\ active[w] \in Int
  BY <1>a DEF NoJob
<1>d. ASSUME DOMAIN flight'[w] = DOMAIN flight[w],
             \A i \in DOMAIN flight[w] : flight'[w][i].life = "http" <=> flight[w][i].life = "http"
      PROVE  Life(w)' = Life(w)
  BY <1>d DEF Life
\* Nothing that counts has changed.
<1>e. ASSUME Life(w)' = Life(w), active'[w] = active[w], Ended(w)' <=> Ended(w),
             pc'[w] \in Over <=> pc[w] \in Over
      PROVE  Gauge(w)'
  <2>1. gone' = gone
    BY ProcessKept
  <2>. QED  BY <1>a, <1>e, <2>1 DEF Gauge
<1>f. pc[w] # "driving" => ~Ended(w)
  BY DEF Ended
<1>1. CASE Boot(w)
  <2>1. /\ flight' = flight /\ active' = active /\ pc[w] # "driving" /\ pc'[w] # "driving"
        /\ (pc'[w] \in Over <=> pc[w] \in Over)
    BY <1>1, <1>a DEF Boot, Over
  <2>. QED  BY <1>d, <1>e, <2>1 DEF Ended
<1>2. CASE Top(w)
  <2>1. /\ flight' = flight /\ active' = active /\ pc[w] # "driving" /\ pc'[w] # "driving"
        /\ (pc'[w] \in Over <=> pc[w] \in Over)
    BY <1>2, <1>a DEF Top, Over
  <2>. QED  BY <1>d, <1>e, <2>1 DEF Ended
<1>3. ASSUME NEW b \in BOOLEAN, Dispatch(w, b)
      PROVE  Gauge(w)'
  <2>. DEFINE n == Len(flight[w]) + 1
  <2>1. /\ DOMAIN flight'[w] = DOMAIN flight[w] \cup {n} /\ n \notin DOMAIN flight[w]
        /\ \A i \in DOMAIN flight[w] : flight'[w][i] = flight[w][i]
        /\ flight'[w][n].life = "http"
    BY <1>3, <1>a, Dispatched
  <2>. HIDE DEF n
  <2>2. Life(w)' = Life(w) \cup {n} /\ n \notin Life(w)
    BY <2>1 DEF Life
  <2>3. Cardinality(Life(w)') = Cardinality(Life(w)) + 1
    BY <1>b, <2>2, FS_AddElement
  <2>4. active'[w] = active[w] + 1 /\ pc[w] = "accept" /\ pc'[w] = "reap"
    BY <1>3, <1>a DEF Dispatch, Take
  <2>. QED  BY <1>a, <1>b, <1>c, <2>3, <2>4 DEF Gauge, Ended, Over
<1>4. ASSUME NEW b \in BOOLEAN, DispatchAborts(w, b)
      PROVE  Gauge(w)'
  <2>1. /\ flight' = flight /\ active' = active /\ pc[w] = "accept"
        /\ job'[w].for = "abort" /\ (pc'[w] \in Over <=> pc[w] \in Over)
    BY <1>4, <1>a DEF DispatchAborts, Take, Over
  <2>. QED  BY <1>d, <1>e, <2>1 DEF Ended
<1>5. CASE ReapPending(w)
  <2>1. /\ flight' = flight /\ active' = active /\ pc[w] # "driving" /\ pc'[w] # "driving"
        /\ (pc'[w] \in Over <=> pc[w] \in Over)
    BY <1>5, <1>a DEF ReapPending, Reached, Over
  <2>. QED  BY <1>d, <1>e, <2>1 DEF Ended
<1>6. CASE ReapSession(w)
  <2>1. /\ DOMAIN flight'[w] = DOMAIN flight[w]
        /\ \A i \in DOMAIN flight[w] : flight'[w][i].life = "http" <=> flight[w][i].life = "http"
    BY <1>6, <1>a, Polled
  <2>2. /\ active' = active /\ pc[w] # "driving" /\ pc'[w] # "driving"
        /\ (pc'[w] \in Over <=> pc[w] \in Over)
    BY <1>6, <1>a DEF ReapSession, Reached, Over
  <2>. QED  BY <1>d, <1>e, <2>1, <2>2 DEF Ended
<1>7. ASSUME NEW b \in BOOLEAN, NEW for \in {"reply", "upgrade"}, ReapHandler(w, for, b)
      PROVE  Gauge(w)'
  <2>1. /\ flight' = flight /\ at' = at /\ pc[w] = "reap" /\ pc'[w] = "driving"
        /\ active'[w] = active[w] - 1 /\ job'[w].for = for /\ Here(w).life = "http"
    BY <1>7, <1>a DEF ReapHandler, Drive, Reached
  <2>2. Ended(w)' /\ ~Ended(w)
    BY <2>1 DEF Ended, Here
  <2>3. Life(w)' = Life(w)
    BY <1>d, <2>1
  <2>. QED  BY <1>a, <1>b, <1>c, <2>1, <2>2, <2>3 DEF Gauge, Over
<1>8. ASSUME NEW b \in BOOLEAN, EndSession(w, b)
      PROVE  Gauge(w)'
  <2>1. /\ flight' = flight /\ at' = at /\ pc[w] = "reap"
        /\ active' = active /\ Here(w).life # "http" /\ (pc'[w] \in Over <=> pc[w] \in Over)
    BY <1>8, <1>a DEF EndSession, Drive, Reached, Over
  <2>2. ~Ended(w)' /\ ~Ended(w)
    BY <2>1 DEF Ended, Here
  <2>. QED  BY <1>d, <1>e, <2>1, <2>2
<1>9. ASSUME NEW b \in BOOLEAN, UpgradeAborts(w, b)
      PROVE  Gauge(w)'
  <2>1. /\ UNCHANGED <<flight, at, pc, active>> /\ job'[w].for = "close"
        /\ job[w].for = "upgrade"
    BY <1>9, <1>a DEF UpgradeAborts, Jobs
  <2>2. Ended(w)' <=> Ended(w)
    BY <2>1 DEF Ended, Here
  <2>. QED  BY <1>d, <1>e, <2>1, <2>2
<1>10. CASE Driven(w)
  <2>1. active' = active /\ pc[w] = "driving" /\ pc'[w] = "reap"
    BY <1>10, <1>a DEF Driven, Settle
  <2>2. ~Ended(w)'
    BY <2>1 DEF Ended
  <2>3. CASE job[w].for = "abort"
    <3>1. flight' = flight /\ ~Ended(w) /\ (pc'[w] \in Over <=> pc[w] \in Over)
      BY <1>10, <2>1, <2>3 DEF Driven, Ended, Over
    <3>. QED  BY <1>d, <1>e, <2>1, <2>2, <3>1
  <2>4. CASE job[w].for # "abort"
    <3>1. at[w] \in DOMAIN flight[w]
      BY <1>10, <1>a, <2>4, TakenOut
    <3>2. Ended(w) <=> at[w] \in Life(w)
      BY <2>1, <2>4, <3>1 DEF Ended, Here, Life
    <3>3. Cardinality(Life(w)') = Cardinality(Life(w)) - (IF at[w] \in Life(w) THEN 1 ELSE 0)
      BY <1>10, <1>a, <2>4, LifeTakenOut
    <3>4. active[w] = Cardinality(Life(w)')
      BY <1>a, <2>1, <3>2, <3>3 DEF Gauge, Over
    <3>5. Cardinality(Life(w)') \in Int
      BY <1>b, <3>3
    <3>. QED  BY <2>1, <2>2, <3>4, <3>5 DEF Gauge, Over
  <2>. QED  BY <2>3, <2>4
<1>11. ASSUME NEW ws \in BOOLEAN, Upgraded(w, ws)
       PROVE  Gauge(w)'
  <2>1. /\ at[w] \in DOMAIN flight[w] /\ DOMAIN flight'[w] = DOMAIN flight[w]
        /\ flight[w][at[w]].life = "http" /\ flight'[w][at[w]].life = "opened"
        /\ \A j \in DOMAIN flight[w] : j # at[w] => flight'[w][j] = flight[w][j]
    BY <1>11, <1>a, Opened
  <2>2. Life(w)' = Life(w) \ {at[w]} /\ at[w] \in Life(w)
    BY <2>1 DEF Life
  <2>3. Cardinality(Life(w)') = Cardinality(Life(w)) - 1
    BY <1>b, <2>2, FS_RemoveElement
  <2>4. /\ active' = active /\ pc[w] = "driving" /\ pc'[w] = "reap"
        /\ job[w].for = "upgrade"
    BY <1>11, <1>a DEF Upgraded, Settle
  <2>5. Ended(w) /\ ~Ended(w)'
    BY <2>1, <2>4 DEF Ended, Here
  <2>. QED  BY <1>a, <1>b, <1>c, <2>3, <2>4, <2>5 DEF Gauge, Over
\* A loop that fails leaves the requests it had in flight counted.
<1>12. CASE DriveFails(w)
  <2>1. /\ active' = active /\ pc[w] = "driving" /\ pc'[w] = "over" /\ gone' = gone
        /\ job[w].c \in gone
    BY <1>12, <1>a DEF DriveFails, Leave
  <2>2. Ended(w) => at[w] \in Life(w)
    <3>1. Ended(w) => job[w].for \in {"reply", "upgrade", "close"}
      BY <1>a, <2>1 DEF Ended, Loop, Jobs, Purposes
    <3>. QED  BY <1>a, <3>1 DEF Ended, Loop, Life, Here
  <2>3. Ended(w) => Cardinality(Life(w)) # 0
    BY <1>b, <2>2, FS_EmptySet
  <2>4. active[w] = Cardinality(Life(w)) - (IF Ended(w) THEN 1 ELSE 0)
    BY <1>a, <2>1 DEF Gauge, Over
  <2>5. active[w] = 0 \/ active[w] > 0
    BY <1>b, <2>3, <2>4
  <2>. QED  BY <2>1, <2>5 DEF Gauge, Over
<1>13. CASE Finish(w)
  <2>1. flight[w] = <<>> /\ active' = active /\ pc[w] = "reap" /\ pc'[w] = "over"
    BY <1>13, <1>a DEF Finish, Leave, Reaped, Drained
  <2>2. Life(w) = {}
    BY <2>1 DEF Life
  <2>3. Cardinality(Life(w)) = 0
    BY <2>2, FS_EmptySet
  <2>4. active[w] = 0
    <3>1. active[w] = Cardinality(Life(w)) - 0
      BY <1>a, <1>f, <2>1 DEF Gauge, Over
    <3>. QED  BY <2>3, <3>1
  <2>. QED  BY <2>1, <2>4 DEF Gauge, Over
<1>14. CASE Tasks(w)
  <2>1. /\ flight' = flight /\ active' = active /\ pc[w] # "driving" /\ pc'[w] # "driving"
        /\ (pc'[w] \in Over <=> pc[w] \in Over)
    BY <1>14, <1>a DEF Tasks, Reaped, Over
  <2>. QED  BY <1>d, <1>e, <2>1 DEF Ended
<1>15. CASE Tell(w)
  <2>1. /\ DOMAIN flight'[w] = DOMAIN flight[w]
        /\ \A i \in DOMAIN flight[w] : flight'[w][i].life = "http" <=> flight[w][i].life = "http"
    BY <1>15, <1>a, Told
  <2>2. /\ active' = active /\ pc[w] # "driving" /\ pc'[w] # "driving"
        /\ (pc'[w] \in Over <=> pc[w] \in Over)
    BY <1>15, <1>a DEF Tell, Over
  <2>. QED  BY <1>d, <1>e, <2>1, <2>2 DEF Ended
<1>16. CASE Awake(w)
  <2>1. /\ flight' = flight /\ active' = active /\ pc[w] # "driving" /\ pc'[w] # "driving"
        /\ (pc'[w] \in Over <=> pc[w] \in Over)
    BY <1>16, <1>a DEF Awake, Harvest, Over
  <2>. QED  BY <1>d, <1>e, <2>1 DEF Ended
<1>17. CASE Park(w)
  <2>1. /\ flight' = flight /\ active' = active /\ pc[w] # "driving" /\ pc'[w] # "driving"
        /\ (pc'[w] \in Over <=> pc[w] \in Over)
    BY <1>17, <1>a DEF Park, Over
  <2>. QED  BY <1>d, <1>e, <2>1 DEF Ended
<1>18. CASE UnparkWoken(w)
  <2>1. /\ flight' = flight /\ active' = active /\ pc[w] # "driving" /\ pc'[w] # "driving"
        /\ (pc'[w] \in Over <=> pc[w] \in Over)
    BY <1>18, <1>a DEF UnparkWoken, Over
  <2>. QED  BY <1>d, <1>e, <2>1 DEF Ended
<1>19. CASE UnparkWork(w)
  <2>1. /\ flight' = flight /\ active' = active /\ pc[w] # "driving" /\ pc'[w] # "driving"
        /\ (pc'[w] \in Over <=> pc[w] \in Over)
    BY <1>19, <1>a DEF UnparkWork, Harvest, Over
  <2>. QED  BY <1>d, <1>e, <2>1 DEF Ended
<1>20. CASE Retire(w)
  <2>1. /\ flight' = flight /\ active' = active /\ pc[w] # "driving" /\ pc'[w] # "driving"
        /\ (pc'[w] \in Over <=> pc[w] \in Over)
    BY <1>20, <1>a DEF Retire, Over
  <2>. QED  BY <1>d, <1>e, <2>1 DEF Ended
<1>21. CASE Absorb(w)
  <2>1. UNCHANGED <<flight, active, pc, job, at>>
    BY <1>21 DEF Absorb, local
  <2>. QED  BY <1>d, <1>e, <2>1 DEF Ended, Here
<1>22. ASSUME NEW x \in DOMAIN fate, AcceptReady(w, x)
      PROVE  Gauge(w)'
  <2>1. UNCHANGED <<flight, active, pc, job, at>>
    BY <1>22 DEF AcceptReady
  <2>. QED  BY <1>d, <1>e, <2>1 DEF Ended, Here
<1>23. ASSUME NEW n \in 1..Cardinality(Conns), WorkReady(w, n)
      PROVE  Gauge(w)'
  <2>1. /\ DOMAIN flight'[w] = DOMAIN flight[w]
        /\ \A i \in DOMAIN flight[w] : flight'[w][i].life = flight[w][i].life
    BY <1>23, <1>a, Arrived
  <2>2. UNCHANGED <<active, pc, job, at>>
    BY <1>23 DEF WorkReady
  <2>3. job[w].for \in {"reply", "upgrade", "close"} => at[w] \in DOMAIN flight[w]
    BY <1>a DEF Loop
  <2>4. pc[w] = "driving" /\ job[w].for # "abort" => at[w] \in DOMAIN flight[w]
    BY <1>a, <2>3 DEF Loop, Jobs, Purposes
  <2>5. Ended(w)' <=> Ended(w)
    BY <2>1, <2>2, <2>4 DEF Ended, Here
  <2>. QED  BY <1>d, <1>e, <2>1, <2>2, <2>5
<1>24. CASE HandlerTasks(w)
  <2>1. UNCHANGED <<flight, active, pc, job, at>>
    BY <1>24 DEF HandlerTasks
  <2>. QED  BY <1>d, <1>e, <2>1 DEF Ended, Here
<1>. QED
  BY <1>1, <1>2, <1>3, <1>4, <1>5, <1>6, <1>7, <1>8, <1>9, <1>10, <1>11, <1>12, <1>13,
       <1>14, <1>15, <1>16, <1>17, <1>18, <1>19, <1>20, <1>21, <1>22, <1>23, <1>24
     DEF Worker, Streams, Kernel
--------------------------------------------------------------------------------
(* Swaps and the sockets that must reload.                                  *)

\* What `hot_broadcast` owes: a swap is told before the worker sleeps.
LEMMA ReloadStep ==
  ASSUME IInv, NEW w \in fleet, Worker(w) \/ Kernel(w)
  PROVE  Reload(w)'
<1>a. /\ w \in Workers /\ Reload(w) /\ pc \in [Workers -> PCs]
      /\ applied \in [Workers -> Nat] /\ hot_gen \in [Workers -> Nat]
      /\ flight \in [Workers -> Seq(Entries)] /\ flight[w] \in Seq(Entries)
  BY DEF IInv, Base
<1>b. applied[w] \in Nat /\ hot_gen[w] \in Nat
  BY <1>a
<1>c. \A i \in DOMAIN flight[w] : flight[w][i].gen \in Nat
  <2>1. \A i \in DOMAIN flight[w] : flight[w][i] \in Entries
    BY <1>a
  <2>. QED  BY <2>1 DEF Entries
<1>d. \A i \in DOMAIN flight[w] : flight[w][i].life # "http" =>
        (flight[w][i].ws /\ flight[w][i].gen < hot_gen[w] => flight[w][i].told)
  BY <1>a DEF Reload, Sockets, Life
\* The sockets are what they were, and the worker has not gone to sleep.
<1>e. ASSUME UNCHANGED <<applied, hot_gen>>,
             \A i \in DOMAIN flight'[w] : flight'[w][i].life # "http" =>
                (flight'[w][i].ws /\ flight'[w][i].gen < hot_gen[w] => flight'[w][i].told),
             pc'[w] \notin {"park", "parked"} \/ pc[w] \in {"park", "parked"}
      PROVE  Reload(w)'
  BY <1>a, <1>b, <1>e DEF Reload, Sockets, Life
<1>1. CASE Boot(w)
  <2>1. /\ UNCHANGED <<flight, applied, hot_gen>>
        /\ pc'[w] \notin {"park", "parked"} \/ pc[w] \in {"park", "parked"}
    BY <1>1, <1>a DEF Boot
  <2>. QED  BY <1>d, <1>e, <2>1
<1>2. CASE Top(w)
  <2>1. /\ UNCHANGED <<flight, applied, hot_gen>>
        /\ pc'[w] \notin {"park", "parked"} \/ pc[w] \in {"park", "parked"}
    BY <1>2, <1>a DEF Top
  <2>. QED  BY <1>d, <1>e, <2>1
<1>3. ASSUME NEW b \in BOOLEAN, Dispatch(w, b)
      PROVE  Reload(w)'
  <2>. DEFINE n == Len(flight[w]) + 1
  <2>1. /\ DOMAIN flight'[w] = DOMAIN flight[w] \cup {n}
        /\ \A i \in DOMAIN flight[w] : flight'[w][i] = flight[w][i]
        /\ flight'[w][n].life = "http"
    BY <1>3, <1>a, Dispatched
  <2>. HIDE DEF n
  <2>2. UNCHANGED <<applied, hot_gen>> /\ pc'[w] = "reap"
    BY <1>3, <1>a DEF Dispatch
  <2>. QED  BY <1>d, <1>e, <2>1, <2>2
<1>4. ASSUME NEW b \in BOOLEAN, DispatchAborts(w, b)
      PROVE  Reload(w)'
  <2>1. /\ UNCHANGED <<flight, applied, hot_gen>>
        /\ pc'[w] \notin {"park", "parked"} \/ pc[w] \in {"park", "parked"}
    BY <1>4, <1>a DEF DispatchAborts, Take, begin_exit
  <2>. QED  BY <1>d, <1>e, <2>1
<1>5. CASE ReapPending(w)
  <2>1. /\ UNCHANGED <<flight, applied, hot_gen>>
        /\ pc'[w] \notin {"park", "parked"} \/ pc[w] \in {"park", "parked"}
    BY <1>5, <1>a DEF ReapPending, Reached
  <2>. QED  BY <1>d, <1>e, <2>1
<1>6. CASE ReapSession(w)
  <2>1. /\ DOMAIN flight'[w] = DOMAIN flight[w]
        /\ \A j \in DOMAIN flight[w] :
             /\ flight'[w][j].gen = flight[w][j].gen /\ flight'[w][j].told = flight[w][j].told
             /\ flight'[w][j].ws = flight[w][j].ws
             /\ flight'[w][j].life = "http" <=> flight[w][j].life = "http"
    BY <1>6, <1>a, Polled
  <2>2. /\ UNCHANGED <<applied, hot_gen>>
        /\ pc'[w] \notin {"park", "parked"} \/ pc[w] \in {"park", "parked"}
    BY <1>6, <1>a DEF ReapSession, Reached
  <2>. QED  BY <1>d, <1>e, <2>1, <2>2
<1>7. ASSUME NEW b \in BOOLEAN, NEW for \in {"reply", "upgrade"}, ReapHandler(w, for, b)
      PROVE  Reload(w)'
  <2>1. /\ UNCHANGED <<flight, applied, hot_gen>>
        /\ pc'[w] \notin {"park", "parked"} \/ pc[w] \in {"park", "parked"}
    BY <1>7, <1>a DEF ReapHandler, begin_exit, Drive
  <2>. QED  BY <1>d, <1>e, <2>1
<1>8. ASSUME NEW b \in BOOLEAN, EndSession(w, b)
      PROVE  Reload(w)'
  <2>1. /\ UNCHANGED <<flight, applied, hot_gen>>
        /\ pc'[w] \notin {"park", "parked"} \/ pc[w] \in {"park", "parked"}
    BY <1>8, <1>a DEF EndSession, begin_exit, Drive
  <2>. QED  BY <1>d, <1>e, <2>1
<1>9. ASSUME NEW b \in BOOLEAN, UpgradeAborts(w, b)
      PROVE  Reload(w)'
  <2>1. /\ UNCHANGED <<flight, applied, hot_gen>>
        /\ pc'[w] \notin {"park", "parked"} \/ pc[w] \in {"park", "parked"}
    BY <1>9, <1>a DEF UpgradeAborts, begin_exit
  <2>. QED  BY <1>d, <1>e, <2>1
<1>10. CASE Driven(w)
  <2>1. UNCHANGED <<applied, hot_gen>> /\ pc'[w] = "reap"
    BY <1>10, <1>a DEF Driven, Settle
  <2>2. CASE job[w].for = "abort"
    <3>1. flight' = flight
      BY <1>10, <2>2 DEF Driven
    <3>. QED  BY <1>d, <1>e, <2>1, <3>1
  <2>3. CASE job[w].for # "abort"
    <3>1. \A k \in DOMAIN flight'[w] : /\ Up(at[w], k) \in DOMAIN flight[w] \ {at[w]}
                                       /\ flight'[w][k] = flight[w][Up(at[w], k)]
      BY <1>10, <1>a, <2>3, TakenOut
    <3>. QED  BY <1>d, <1>e, <2>1, <3>1
  <2>. QED  BY <2>2, <2>3
<1>11. ASSUME NEW ws \in BOOLEAN, Upgraded(w, ws)
       PROVE  Reload(w)'
  <2>1. /\ at[w] \in DOMAIN flight[w] /\ DOMAIN flight'[w] = DOMAIN flight[w]
        /\ flight'[w][at[w]].gen = applied[w]
        /\ \A j \in DOMAIN flight[w] : j # at[w] => flight'[w][j] = flight[w][j]
    BY <1>11, <1>a, Opened
  <2>2. UNCHANGED <<applied, hot_gen>> /\ pc'[w] = "reap"
    BY <1>11, <1>a DEF Upgraded, Settle
  <2>3. ~(applied[w] < hot_gen[w])
    BY <1>a, <1>b DEF Reload
  <2>. QED  BY <1>d, <1>e, <2>1, <2>2, <2>3
<1>12. CASE DriveFails(w)
  <2>1. flight'[w] = <<>> /\ pc'[w] = "over" /\ UNCHANGED <<applied, hot_gen>>
    BY <1>12, <1>a DEF DriveFails, Leave
  <2>. QED  BY <1>e, <2>1
<1>13. CASE Finish(w)
  <2>1. flight'[w] = <<>> /\ pc'[w] = "over" /\ UNCHANGED <<applied, hot_gen>>
    BY <1>13, <1>a DEF Finish, Leave
  <2>. QED  BY <1>e, <2>1
<1>14. CASE Tasks(w)
  <2>1. UNCHANGED <<flight, hot_gen>> /\ pc'[w] = "tell"
    BY <1>14, <1>a DEF Tasks
  <2>2. applied'[w] \in Nat /\ applied[w] <= applied'[w]
    <3>1. CASE NothingPending(w)
      BY <1>14, <1>a, <1>b, <3>1 DEF Tasks
    <3>2. CASE ~NothingPending(w)
      <4>1. /\ Cardinality(Pending(w)) = Len(plans) - cursors[slot[w]]
            /\ cursors[slot[w]] \in Nat /\ cursors[slot[w]] < Len(plans) /\ Len(plans) \in Nat
        BY <1>14, <3>2, TasksRegistered, PendingFacts DEF IInv, Base
      <4>2. Cardinality(Pending(w)) \in Nat
        BY <4>1
      <4>3. applied'[w] = applied[w] + Cardinality(Pending(w))
        BY <1>14, <1>a, <3>2 DEF Tasks
      <4>. QED  BY <1>b, <4>2, <4>3
    <3>. QED  BY <3>1, <3>2
  <2>3. hot_gen'[w] <= applied'[w]
    BY <1>a, <1>b, <2>1, <2>2 DEF Reload
  <2>. QED  BY <1>a, <2>1, <2>3 DEF Reload, Sockets, Life
<1>15. CASE Tell(w)
  <2>1. /\ DOMAIN flight'[w] = DOMAIN flight[w]
        /\ \A j \in DOMAIN flight[w] :
             /\ flight'[w][j].gen = flight[w][j].gen /\ flight'[w][j].life = flight[w][j].life
             /\ flight'[w][j].ws = flight[w][j].ws
             /\ flight'[w][j].told =
                  (flight[w][j].told \/ (applied[w] # hot_gen[w] /\ j \in Audience(w)))
    BY <1>15, <1>a, Told
  <2>2. applied' = applied /\ hot_gen'[w] = applied[w]
    BY <1>15, <1>a DEF Tell, swap_count
  <2>3. ASSUME NEW i \in DOMAIN flight[w], flight[w][i].life # "http",
               flight[w][i].ws, flight[w][i].gen < applied[w]
        PROVE  flight'[w][i].told
    <3>1. CASE applied[w] = hot_gen[w]
      BY <1>d, <2>1, <2>3, <3>1
    <3>2. CASE applied[w] # hot_gen[w]
      BY <2>1, <2>3, <3>2 DEF Audience, Sockets, Life
    <3>. QED  BY <3>1, <3>2
  <2>. QED  BY <1>b, <2>1, <2>2, <2>3 DEF Reload, Sockets, Life
<1>16. CASE Awake(w)
  <2>1. /\ UNCHANGED <<flight, applied, hot_gen>>
        /\ pc'[w] \notin {"park", "parked"} \/ pc[w] \in {"park", "parked"}
    BY <1>16, <1>a DEF Awake, Harvest
  <2>. QED  BY <1>d, <1>e, <2>1
<1>17. CASE Park(w)
  <2>1. /\ UNCHANGED <<flight, applied, hot_gen>>
        /\ pc'[w] \notin {"park", "parked"} \/ pc[w] \in {"park", "parked"}
    BY <1>17, <1>a DEF Park
  <2>. QED  BY <1>d, <1>e, <2>1
<1>18. CASE UnparkWoken(w)
  <2>1. /\ UNCHANGED <<flight, applied, hot_gen>>
        /\ pc'[w] \notin {"park", "parked"} \/ pc[w] \in {"park", "parked"}
    BY <1>18, <1>a DEF UnparkWoken
  <2>. QED  BY <1>d, <1>e, <2>1
<1>19. CASE UnparkWork(w)
  <2>1. /\ UNCHANGED <<flight, applied, hot_gen>>
        /\ pc'[w] \notin {"park", "parked"} \/ pc[w] \in {"park", "parked"}
    BY <1>19, <1>a DEF UnparkWork, Harvest
  <2>. QED  BY <1>d, <1>e, <2>1
<1>20. CASE Retire(w)
  <2>1. /\ UNCHANGED <<flight, applied, hot_gen>>
        /\ pc'[w] \notin {"park", "parked"} \/ pc[w] \in {"park", "parked"}
    BY <1>20, <1>a DEF Retire
  <2>. QED  BY <1>d, <1>e, <2>1
<1>21. CASE Absorb(w)
  <2>1. /\ UNCHANGED <<flight, applied, hot_gen>>
        /\ pc'[w] \notin {"park", "parked"} \/ pc[w] \in {"park", "parked"}
    BY <1>21, <1>a DEF Absorb, local
  <2>. QED  BY <1>d, <1>e, <2>1
<1>22. ASSUME NEW x \in DOMAIN fate, AcceptReady(w, x)
      PROVE  Reload(w)'
  <2>1. /\ UNCHANGED <<flight, applied, hot_gen>>
        /\ pc'[w] \notin {"park", "parked"} \/ pc[w] \in {"park", "parked"}
    BY <1>22, <1>a DEF AcceptReady
  <2>. QED  BY <1>d, <1>e, <2>1
<1>23. ASSUME NEW n \in 1..Cardinality(Conns), WorkReady(w, n)
      PROVE  Reload(w)'
  <2>1. /\ DOMAIN flight'[w] = DOMAIN flight[w]
        /\ \A j \in DOMAIN flight[w] :
             /\ flight'[w][j].gen = flight[w][j].gen /\ flight'[w][j].told = flight[w][j].told
             /\ flight'[w][j].ws = flight[w][j].ws
             /\ flight'[w][j].life = "http" <=> flight[w][j].life = "http"
    BY <1>23, <1>a, Arrived
  <2>2. /\ UNCHANGED <<applied, hot_gen>>
        /\ pc'[w] \notin {"park", "parked"} \/ pc[w] \in {"park", "parked"}
    BY <1>23, <1>a DEF WorkReady
  <2>. QED  BY <1>d, <1>e, <2>1, <2>2
<1>24. CASE HandlerTasks(w)
  <2>1. /\ UNCHANGED <<flight, hot_gen, pc>> /\ pc[w] = "reap"
        /\ applied'[w] = applied[w] + Cardinality(Pending(w))
    BY <1>24, <1>a DEF HandlerTasks, Handling, Reached
  <2>2. /\ Cardinality(Pending(w)) = Len(plans) - cursors[slot[w]]
        /\ cursors[slot[w]] \in Nat /\ cursors[slot[w]] < Len(plans) /\ Len(plans) \in Nat
    BY <1>24, HandlerRegistered, PendingFacts DEF IInv, Base
  <2>3. Cardinality(Pending(w)) \in Nat
    BY <2>2
  <2>4. hot_gen'[w] <= applied'[w]
    BY <1>a, <1>b, <2>1, <2>3 DEF Reload
  <2>. QED  BY <1>a, <2>1, <2>4 DEF Reload, Sockets, Life
<1>. QED
  BY <1>1, <1>2, <1>3, <1>4, <1>5, <1>6, <1>7, <1>8, <1>9, <1>10, <1>11, <1>12, <1>13,
       <1>14, <1>15, <1>16, <1>17, <1>18, <1>19, <1>20, <1>21, <1>22, <1>23, <1>24
     DEF Worker, Streams, Kernel

--------------------------------------------------------------------------------
(* The inductive invariant.                                                 *)


LEMMA PlansTypeStep ==
  ASSUME IInv, NEW w \in fleet, Worker(w) \/ Kernel(w)
  PROVE  plans' \in Seq(BOOLEAN)
<1>1. plans \in Seq(BOOLEAN)
  BY DEF IInv, Base
<1>2. CASE MailKept(w)
  BY <1>1, <1>2 DEF MailKept
<1>3. CASE Boot(w)
  BY <1>1, <1>3 DEF Boot, register, queue
<1>4. CASE Tasks(w)
  <2>1. CASE NothingPending(w)
    BY <1>1, <1>4, <2>1 DEF Tasks, queue
  <2>2. CASE ~NothingPending(w)
    <3>1. w \in Workers /\ slot[w] # 0 /\ drain(w)
      BY <1>4, <2>2, TasksRegistered DEF Tasks
    <3>. QED  BY <3>1, DrainFacts
  <2>. QED  BY <2>1, <2>2
<1>5. CASE Retire(w)
  BY <1>1, <1>5 DEF Retire, retire, queue
<1>6. CASE HandlerTasks(w)
  BY <1>6, HandlerRegistered, DrainFacts
<1>. QED  BY <1>2, <1>3, <1>4, <1>5, <1>6, MailKindsStep DEF MailKinds

\* Everything that is said of one worker depends on what belongs to it.
LEMMA LocalKept ==
  ASSUME IInv, NEW v \in Workers, UNCHANGED Local(v), gone \subseteq gone'
  PROVE  Loop(v)' /\ Once(v)' /\ Gauge(v)' /\ Reload(v)' /\ Mine(v)' = Mine(v)
<1>1. Loop(v) /\ Once(v) /\ Gauge(v) /\ Reload(v)
  BY DEF IInv
<1>2. /\ pc'[v] = pc[v] /\ closing'[v] = closing[v] /\ held'[v] = held[v] /\ acc'[v] = acc[v]
      /\ flight'[v] = flight[v] /\ at'[v] = at[v] /\ job'[v] = job[v]
      /\ active'[v] = active[v] /\ applied'[v] = applied[v] /\ hot_gen'[v] = hot_gen[v]
  BY DEF Local
<1>3. Life(v)' = Life(v) /\ Sockets(v)' = Sockets(v)
  BY <1>2 DEF Life, Sockets
<1>4. Loop(v)'
  BY <1>1, <1>2 DEF Loop, Here
<1>5. Once(v)' /\ Mine(v)' = Mine(v)
  BY <1>1, <1>2 DEF Once, Mine
<1>6. Ended(v)' <=> Ended(v)
  BY <1>2 DEF Ended, Here
<1>7. Gauge(v)'
  BY <1>1, <1>2, <1>3, <1>6 DEF Gauge
<1>8. Reload(v)'
  BY <1>1, <1>2, <1>3 DEF Reload
<1>. QED  BY <1>4, <1>5, <1>7, <1>8

\* A step of a worker, or of the kernel for it.
LEMMA WorkerStep ==
  ASSUME IInv, NEW w \in fleet, Worker(w) \/ Kernel(w)
  PROVE  IInv'
<1>1. Base'
  <2>1. UNCHANGED <<mode, fleet, saves, rouser>>
    BY ProcessKept
  <2>. QED  BY <2>1, ControlTypeStep, AcceptTypeStep, JobTypeStep, FlightTypeStep,
               AppliedTypeStep, FateTypeStep, NotifyTypeStep, PlansTypeStep
            DEF IInv, Base, ControlType
<1>2. ASSUME NEW v \in Workers
      PROVE  Loop(v)' /\ Once(v)' /\ Gauge(v)' /\ Reload(v)'
  <2>1. CASE v = w
    BY <2>1, LoopStep, OnceStep, GaugeStep, ReloadStep
  <2>2. CASE v # w
    BY <2>2, ProcessKept, OthersKept, LocalKept
  <2>. QED  BY <2>1, <2>2
<1>. QED  BY <1>1, <1>2, MailStep, PlacedStep DEF IInv

\* A step of another thread that leaves the workers and their mailbox alone.
LEMMA OutsideStep ==
  ASSUME IInv, UNCHANGED local, UNCHANGED queue, UNCHANGED fate, UNCHANGED <<mode, fleet>>,
         gone \subseteq gone',
         waiters' \in SUBSET Workers, woken' \in [Workers -> {"no", "all", "one"}],
         rouser' \in {"idle", "clear", "waiters", "one"}, saves' \in Nat, saves' <= saves
  PROVE  IInv'
<1>1. /\ UNCHANGED <<pc, closing, held, acc, flight, at, job, active, applied, hot_gen>>
      /\ UNCHANGED <<plans, cursors, slot, hole>>
  BY DEF local, queue
<1>2. Base'
  BY <1>1 DEF IInv, Base
<1>3. \A v \in Workers : UNCHANGED Local(v)
  BY <1>1 DEF Local
<1>4. \A v \in Workers : /\ Loop(v)' /\ Once(v)' /\ Gauge(v)' /\ Reload(v)'
                         /\ Mine(v)' = Mine(v)
  BY <1>3, LocalKept
<1>5. Consumers' = Consumers /\ Claimed' = Claimed /\ Registered' = Registered
  BY <1>1 DEF Consumers, Claimed, Registered
<1>6. Claims'
  BY <1>1, <1>5 DEF IInv, Claims
<1>7. Cursors'
  <2>1. Len(plans') + saves' <= MaxPlans
    <3>1. Len(plans) \in Nat /\ saves \in Nat /\ MaxPlans \in Nat
      BY QueueBounds DEF IInv, Base
    <3>. QED  BY <1>1, <3>1 DEF IInv, Cursors
  <2>. QED  BY <1>1, <1>5, <2>1 DEF IInv, Cursors, RETIRED
<1>8. QueueExact'
  BY <1>1 DEF IInv, QueueExact, RETIRED
<1>9. Placed'
  <2>1. Open' = Open
    BY DEF Open
  <2>. QED  BY <1>4, <2>1 DEF IInv, Placed
<1>. QED  BY <1>2, <1>4, <1>6, <1>7, <1>8, <1>9 DEF IInv

\* A swap is deposited: the queue grows by a plan nobody has taken.
LEMMA DepositStep ==
  ASSUME IInv, EditSwaps
  PROVE  IInv'
<1>1. /\ UNCHANGED <<pc, closing, held, acc, flight, at, job, active, applied, hot_gen>>
      /\ UNCHANGED <<cursors, slot, hole, fate, gone, mode, fleet, waiters, woken>>
      /\ plans' = Append(plans, TRUE) /\ saves' = saves - 1 /\ rouser' = "clear" /\ saves > 0
  BY DEF EditSwaps, deposit, local, notify, world
<1>2. /\ plans \in Seq(BOOLEAN) /\ saves \in Nat /\ Len(plans) \in Nat /\ MaxPlans \in Nat
      /\ Len(plans) + saves <= MaxPlans /\ cursors \in [Consumers -> 0..RETIRED]
  BY QueueBounds DEF IInv, Base, Cursors
<1>a. TRUE \in BOOLEAN
  OBVIOUS
<1>3. /\ plans' \in Seq(BOOLEAN) /\ Len(plans') = Len(plans) + 1 /\ saves' \in Nat
      /\ DOMAIN plans' = 1..(Len(plans) + 1) /\ DOMAIN plans = 1..Len(plans)
      /\ \A i \in DOMAIN plans : plans'[i] = plans[i]
      /\ plans'[Len(plans) + 1]
  <2>1. plans' \in Seq(BOOLEAN) /\ Len(plans') = Len(plans) + 1
    BY <1>1, <1>2, <1>a, AppendProperties
  <2>2. saves' \in Nat
    BY <1>1, <1>2
  <2>3. DOMAIN plans' = 1..(Len(plans) + 1) /\ DOMAIN plans = 1..Len(plans)
    BY <1>2, <2>1
  <2>4. (\A i \in 1..Len(plans) : plans'[i] = plans[i]) /\ plans'[Len(plans) + 1] = TRUE
    BY <1>1, <1>2, <1>a, AppendProperties
  <2>. QED  BY <2>1, <2>2, <2>3, <2>4
<1>4. Base'
  BY <1>1, <1>3 DEF IInv, Base
<1>5. \A v \in Workers : UNCHANGED Local(v)
  BY <1>1 DEF Local
<1>6. \A v \in Workers : /\ Loop(v)' /\ Once(v)' /\ Gauge(v)' /\ Reload(v)'
                         /\ Mine(v)' = Mine(v)
  BY <1>1, <1>5, LocalKept
<1>7. Consumers' = Consumers /\ Claimed' = Claimed /\ Registered' = Registered
  BY <1>1 DEF Consumers, Claimed, Registered
<1>8. Claims'
  BY <1>1, <1>7 DEF IInv, Claims
<1>9. Cursors'
  <2>1. Len(plans') + saves' <= MaxPlans
    BY <1>1, <1>2, <1>3
  <2>2. \A k \in Consumers : cursors[k] # RETIRED => cursors[k] <= Len(plans')
    <3>1. ASSUME NEW k \in Consumers, cursors[k] # RETIRED
          PROVE  cursors[k] <= Len(plans')
      <4>1. cursors[k] \in Int /\ cursors[k] <= Len(plans)
        BY <1>2, <3>1 DEF IInv, Cursors
      <4>. QED  BY <1>2, <1>3, <4>1
    <3>. QED  BY <3>1
  <2>. QED  BY <1>1, <1>7, <2>1, <2>2 DEF IInv, Cursors, RETIRED
<1>10. QueueExact'
  <2>1. ASSUME NEW i \in DOMAIN plans', ~plans'[i], NEW k \in DOMAIN cursors'
        PROVE  cursors'[k] >= i
    <3>1. i \in DOMAIN plans
      BY <1>2, <1>3, <2>1
    <3>. QED  BY <1>1, <1>3, <2>1, <3>1 DEF IInv, QueueExact
  <2>. QED  BY <1>1, <2>1 DEF IInv, QueueExact, RETIRED
<1>11. Placed'
  <2>1. Open' = Open
    BY <1>1 DEF Open
  <2>. QED  BY <1>6, <2>1 DEF IInv, Placed
<1>. QED  BY <1>4, <1>6, <1>8, <1>9, <1>10, <1>11 DEF IInv

\* The process exits: whatever was open is dropped, by every worker.
LEMMA RestartStep ==
  ASSUME IInv, Restart
  PROVE  IInv'
<1>1. /\ UNCHANGED <<plans, cursors, slot, hole, closing, at, applied, hot_gen, waiters, woken,
                     fleet, rouser, saves>>
      /\ mode' = "restarted" /\ pc' = [w \in Workers |-> "ended"]
      /\ flight' = [w \in Workers |-> <<>>] /\ job' = [w \in Workers |-> NoJob]
      /\ acc' = [w \in Workers |-> NoConn] /\ held' = [w \in Workers |-> FALSE]
      /\ active' = [w \in Workers |-> 0]
      /\ fate' = [c \in DOMAIN fate |-> IF fate[c] \in {"taken", "stream"}
                                        THEN "dropped" ELSE fate[c]]
  BY DEF Restart, queue, notify
<1>2. NoJob \in Jobs /\ NoJob.for = "nothing" /\ NoJob.c = NoConn
  BY DEF NoJob, Jobs, Purposes
<1>3. <<>> \in Seq(Entries)
  OBVIOUS
<1>4. Base'
  <2>1. DOMAIN fate' = DOMAIN fate /\ fate' \in [DOMAIN fate -> Fates]
    BY <1>1 DEF IInv, Base, Fates
  <2>. QED  BY <1>1, <1>2, <1>3, <2>1 DEF IInv, Base, PCs
<1>5. ASSUME NEW v \in Workers
      PROVE  Loop(v)' /\ Once(v)' /\ Gauge(v)' /\ Reload(v)' /\ Mine(v)' = {}
  <2>1. /\ pc'[v] = "ended" /\ acc'[v] = NoConn /\ flight'[v] = <<>> /\ job'[v] = NoJob
        /\ active'[v] = 0
    BY <1>1
  <2>2. Loop(v)' /\ Once(v)' /\ Mine(v)' = {}
    BY <1>2, <2>1, FleetBounds DEF Loop, Once, Mine
  <2>3. Life(v)' = {} /\ Sockets(v)' = {}
    BY <2>1 DEF Life, Sockets
  <2>4. Gauge(v)'
    BY <2>1 DEF Gauge, Over
  <2>5. Reload(v)'
    BY <1>1, <2>1, <2>3 DEF IInv, Reload
  <2>. QED  BY <2>2, <2>4, <2>5
<1>6. Consumers' = Consumers /\ Claimed' = Claimed /\ Registered' = Registered
  BY <1>1 DEF Consumers, Claimed, Registered
<1>7. Claims'
  BY <1>1, <1>6 DEF IInv, Claims
<1>8. Cursors'
  BY <1>1, <1>6 DEF IInv, Cursors, RETIRED
<1>9. QueueExact'
  BY <1>1 DEF IInv, QueueExact, RETIRED
<1>10. Placed'
  <2>1. Open' = {}
    BY <1>1 DEF Open
  <2>. QED  BY <1>5, <2>1 DEF Placed
<1>. QED  BY <1>4, <1>5, <1>7, <1>8, <1>9, <1>10 DEF IInv

LEMMA InitInv ==
  ASSUME FleetInit
  PROVE  IInv
<1>1. PICK s \in Scenarios :
        /\ mode = s.mode /\ fleet = s.fleet /\ fate = [c \in s.conns |-> "new"]
        /\ QueueInit(Cardinality(s.fleet)) /\ saves = s.saves
  BY DEF FleetInit
<1>2. /\ s.mode \in {"plain", "hot"} /\ s.fleet \subseteq Workers /\ s.conns \subseteq Conns
      /\ s.saves \in 0..MaxPlans /\ MaxPlans \in Nat
  BY FleetBounds, QueueBounds
<1>3. /\ pc = [w \in Workers |-> IF w \in fleet THEN "boot" ELSE "ended"]
      /\ closing = [w \in Workers |-> FALSE] /\ held = [w \in Workers |-> FALSE]
      /\ acc = [w \in Workers |-> NoConn] /\ flight = [w \in Workers |-> <<>>]
      /\ at = [w \in Workers |-> 1] /\ job = [w \in Workers |-> NoJob]
      /\ active = [w \in Workers |-> 0] /\ applied = [w \in Workers |-> 0]
      /\ hot_gen = [w \in Workers |-> 0] /\ waiters = {}
      /\ woken = [w \in Workers |-> "no"] /\ rouser = "idle"
  BY DEF FleetInit
<1>4. /\ plans = <<>> /\ cursors = [k \in 1..Cardinality(fleet) |-> 0]
      /\ slot = [w \in Workers |-> 0] /\ hole = FALSE
  BY <1>1 DEF QueueInit
<1>5. NoJob \in Jobs /\ NoJob.for = "nothing" /\ NoJob.c = NoConn
  BY DEF NoJob, Jobs, Purposes
<1>6. <<>> \in Seq(Entries) /\ <<>> \in Seq(BOOLEAN) /\ Len(plans) = 0
  BY <1>4
<1>7. Base
  <2>1. fate \in [DOMAIN fate -> Fates] /\ DOMAIN fate \subseteq Conns
    BY <1>1, <1>2 DEF Fates
  <2>2. saves \in Nat
    BY <1>1, <1>2
  <2>3. pc \in [Workers -> PCs]
    BY <1>3 DEF PCs
  <2>. QED  BY <1>1, <1>2, <1>3, <1>4, <1>5, <1>6, <2>1, <2>2, <2>3 DEF Base
<1>8. Claims
  <2>1. Claimed = {} /\ Registered = {}
    BY <1>4 DEF Claimed, Registered
  <2>2. Claimed = 1..Cardinality(Registered)
    <3>1. Cardinality(Registered) = 0
      BY <2>1, FS_EmptySet
    <3>. QED  BY <2>1, <3>1
  <2>. QED  BY <1>1, <1>2, <1>3, <1>4, <2>1, <2>2 DEF Claims
<1>9. Cursors
  <2>1. 0 \in 0..RETIRED
    BY <1>2 DEF RETIRED
  <2>. QED  BY <1>1, <1>2, <1>3, <1>4, <1>6, <2>1 DEF Cursors, Consumers
<1>10. QueueExact
  BY <1>4 DEF QueueExact
<1>11. ASSUME NEW v \in Workers
       PROVE  Loop(v) /\ Once(v) /\ Gauge(v) /\ Reload(v) /\ Mine(v) = {}
  <2>1. /\ pc[v] \in {"boot", "ended"} /\ acc[v] = NoConn /\ flight[v] = <<>>
        /\ job[v] = NoJob /\ active[v] = 0 /\ applied[v] = 0 /\ hot_gen[v] = 0
    BY <1>3
  <2>2. Loop(v) /\ Once(v) /\ Mine(v) = {}
    BY <1>5, <2>1, FleetBounds DEF Loop, Once, Mine
  <2>3. Life(v) = {} /\ Sockets(v) = {}
    BY <2>1 DEF Life, Sockets
  <2>4. Gauge(v)
    <3>1. Cardinality(Life(v)) = 0
      BY <2>3, FS_EmptySet
    <3>2. ~Ended(v)
      BY <2>1 DEF Ended
    <3>3. active[v] = 0
      BY <2>1
    <3>4. 0 = 0 - 0
      OBVIOUS
    <3>. QED  BY <3>1, <3>2, <3>3, <3>4 DEF Gauge
  <2>5. Reload(v)
    BY <2>1, <2>3 DEF Reload
  <2>. QED  BY <2>2, <2>4, <2>5
<1>12. Placed
  <2>1. Open = {}
    BY <1>1 DEF Open
  <2>. QED  BY <1>11, <2>1 DEF Placed
<1>. QED  BY <1>7, <1>8, <1>9, <1>10, <1>11, <1>12 DEF IInv

\* Notify::notify_one, whoever it reaches.
LEMMA GiveOneType ==
  ASSUME NEW ws \in SUBSET Workers, NEW wk \in [Workers -> {"no", "all", "one"}],
         GiveOne(ws, wk)
  PROVE  waiters' \in SUBSET Workers /\ woken' \in [Workers -> {"no", "all", "one"}]
<1>. QED  BY DEF GiveOne

LEMMA NextInv ==
  ASSUME IInv, [Next]_vars
  PROVE  IInv'
<1>. USE DEF notify, world, process
<1>a. /\ waiters \in SUBSET Workers /\ woken \in [Workers -> {"no", "all", "one"}]
      /\ rouser \in {"idle", "clear", "waiters", "one"} /\ saves \in Nat
  BY DEF IInv, Base
<1>b. saves <= saves /\ (saves > 0 => saves - 1 \in Nat /\ saves - 1 <= saves)
  BY <1>a
<1>1. ASSUME NEW w \in fleet, Worker(w) \/ Kernel(w)
      PROVE  IInv'
  BY <1>1, WorkerStep
<1>2. CASE ClearError
  BY <1>2, <1>a, <1>b, OutsideStep DEF ClearError
<1>3. CASE NotifyWaiters
  <2>1. waiters' \in SUBSET Workers /\ woken' \in [Workers -> {"no", "all", "one"}]
    BY <1>3, <1>a DEF NotifyWaiters
  <2>. QED  BY <1>3, <1>a, <1>b, <2>1, OutsideStep DEF NotifyWaiters
<1>4. CASE NotifyOne
  <2>1. waiters' \in SUBSET Workers /\ woken' \in [Workers -> {"no", "all", "one"}]
    BY <1>4, <1>a, GiveOneType DEF NotifyOne
  <2>. QED  BY <1>4, <1>a, <1>b, <2>1, OutsideStep DEF NotifyOne
<1>5. CASE Sigint
  BY <1>5, <1>a, <1>b, OutsideStep DEF Sigint
<1>6. CASE EditSwaps
  BY <1>6, DepositStep
<1>7. CASE EditFails
  BY <1>7, <1>a, <1>b, OutsideStep DEF EditFails
<1>8. CASE Restart
  BY <1>8, RestartStep
<1>9. ASSUME NEW c \in DOMAIN fate, HangUp(c)
      PROVE  IInv'
  BY <1>9, <1>a, <1>b, OutsideStep DEF HangUp
<1>10. CASE UNCHANGED vars
  BY <1>10, <1>a, <1>b, OutsideStep DEF vars
<1>. QED
  BY <1>1, <1>2, <1>3, <1>4, <1>5, <1>6, <1>7, <1>8, <1>9, <1>10
     DEF Next, Rouser, Editor, Client

\* The inductive invariant holds throughout: the serve loop, the mailbox and
\* the fates of the connections agree whatever the workers, the clients, the
\* watcher and Ctrl-C do and in whatever order.
THEOREM Invariance == Spec => []IInv
<1>1. FleetInit => IInv
  BY InitInv
<1>2. IInv /\ [Next]_vars => IInv'
  BY NextInv
<1>. QED  BY <1>1, <1>2, PTL DEF Spec
--------------------------------------------------------------------------------
(* The properties.                                                          *)

\* The hot mailbox (`HotChannel::drain`, `collect`, `retire`): no plan is
\* reclaimed before every consumer that can still ask for it has taken it, one
\* that has not registered included, and every worker has applied exactly the
\* plans its cursor is past.
THEOREM MailboxIsExact == Spec => []QueueExact
<1>1. IInv => QueueExact
  BY DEF IInv
<1>. QED  BY <1>1, Invariance, PTL

\* `hot_broadcast`: when a worker's serve loop sleeps, every websocket that was
\* open when a swap was applied has been told to reload.  (A session opened
\* after the swap by a handler called before it is not: SessionsCurrent fails.)
THEOREM SocketsAreTold == Spec => []ReloadTold
<1>1. IInv => ReloadTold
  <2>1. ASSUME IInv, NEW w \in Workers, pc[w] = "parked", NEW i \in Sockets(w),
               flight[w][i].ws, flight[w][i].gen < applied[w]
        PROVE  flight[w][i].told
    BY <2>1 DEF IInv, Reload
  <2>. QED  BY <2>1 DEF ReloadTold
<1>. QED  BY <1>1, Invariance, PTL

LEMMA PlacesAre ==
  ASSUME IInv, NEW c \in DOMAIN fate
  PROVE  Cardinality(Places(c)) = IF fate[c] \in {"taken", "stream"} THEN 1 ELSE 0
<1>. DEFINE SA == {v \in Workers : acc[v] = c}
            SB == {v \in Workers : job[v] = [c |-> c, for |-> "abort"]}
            SC(v) == {j \in DOMAIN flight[v] : flight[v][j].c = c}
            A == {<<w, "accept">> : w \in SA}
            B == {<<w, "called">> : w \in SB}
            C == UNION {{<<w, i>> : i \in SC(w)} : w \in Workers}
<1>1. c \in Conns /\ job \in [Workers -> Jobs]
  BY DEF IInv, Base
<1>2. Places(c) = (A \union B) \union C
  BY DEF Places
<1>3. SB = {v \in Workers : job[v].for = "abort" /\ job[v].c = c}
  <2>1. ASSUME NEW v \in Workers
        PROVE  job[v] = [c |-> c, for |-> "abort"] <=> (job[v].for = "abort" /\ job[v].c = c)
    <3>1. job[v] \in Jobs
      BY <1>1
    <3>. QED  BY <3>1 DEF Jobs
  <2>. QED  BY <2>1
<1>4. ASSUME NEW v \in Workers
      PROVE  c \in Mine(v) <=> v \in SA \/ v \in SB \/ SC(v) # {}
  BY <1>1, <1>3 DEF Mine
<1>5. CASE fate[c] \notin {"taken", "stream"}
  <2>1. c \notin Open
    BY <1>5 DEF Open
  <2>2. \A v \in Workers : c \notin Mine(v)
    BY <2>1 DEF IInv, Placed
  <2>3. SA = {} /\ SB = {} /\ \A v \in Workers : SC(v) = {}
    BY <1>4, <2>2
  <2>. HIDE DEF SA, SB, SC
  <2>4. A = {} /\ B = {} /\ C = {}
    BY <2>3
  <2>5. Places(c) = {}
    BY <1>2, <2>4
  <2>. QED  BY <1>5, <2>5, FS_EmptySet
<1>6. CASE fate[c] \in {"taken", "stream"}
  <2>1. c \in Open
    BY <1>6 DEF Open
  <2>2. PICK w \in Workers : c \in Mine(w)
    BY <2>1 DEF IInv, Placed
  <2>3. \A v \in Workers : v # w => c \notin Mine(v)
    BY <2>2 DEF IInv, Placed
  <2>4. Once(w)
    BY DEF IInv
  <2>5. \E p : Places(c) = {p}
    <3>1. CASE w \in SA
      <4>1. w \notin SB /\ SC(w) = {}
        BY <1>1, <1>3, <2>4, <3>1 DEF Once
      <4>2. SA = {w} /\ SB = {} /\ \A v \in Workers : SC(v) = {}
        BY <1>4, <2>3, <3>1, <4>1
      <4>. HIDE DEF SA, SB, SC
      <4>3. A = {<<w, "accept">>} /\ B = {} /\ C = {}
        BY <4>2
      <4>. QED  BY <1>2, <4>3
    <3>2. CASE w \in SB
      <4>1. w \notin SA /\ SC(w) = {}
        BY <1>1, <1>3, <2>4, <3>2 DEF Once
      <4>2. SB = {w} /\ SA = {} /\ \A v \in Workers : SC(v) = {}
        BY <1>4, <2>3, <3>2, <4>1
      <4>. HIDE DEF SA, SB, SC
      <4>3. B = {<<w, "called">>} /\ A = {} /\ C = {}
        BY <4>2
      <4>. QED  BY <1>2, <4>3
    <3>3. CASE SC(w) # {}
      <4>1. PICK i : i \in SC(w)
        BY <3>3
      <4>2. SC(w) = {i} /\ w \notin SA /\ w \notin SB
        BY <1>3, <2>4, <4>1 DEF Once
      <4>3. SA = {} /\ SB = {} /\ \A v \in Workers : v # w => SC(v) = {}
        BY <1>4, <2>3, <4>2
      <4>. HIDE DEF SA, SB, SC
      <4>4. A = {} /\ B = {}
        BY <4>3
      <4>5. C = {<<w, i>>}
        BY <4>2, <4>3
      <4>. QED  BY <1>2, <4>4, <4>5
    <3>. QED  BY <1>4, <2>2, <3>1, <3>2, <3>3
  <2>6. PICK p : Places(c) = {p}
    BY <2>5
  <2>7. Cardinality({p}) = 1
    BY FS_Singleton
  <2>. QED  BY <1>6, <2>6, <2>7
<1>. QED  BY <1>5, <1>6

\* The serve loop (serve.rs): every connection a worker took and has not
\* answered, closed or dropped is in exactly one place of exactly one worker,
\* one that is answered is in none; while a loop runs the gauge of active
\* requests counts exactly the handlers in flight, and only a client that broke
\* its connection leaves it raised after the loop.
THEOREM ServingIsExact == Spec => []ServeExact
<1>1. IInv => ServeExact
  <2>. SUFFICES ASSUME IInv PROVE ServeExact
    OBVIOUS
  <2>1. TypeOK
    BY DEF IInv, Base, Cursors, TypeOK, Fates
  <2>2. \A c \in DOMAIN fate :
          Cardinality(Places(c)) = (IF fate[c] \in {"taken", "stream"} THEN 1 ELSE 0)
    BY PlacesAre
  <2>3. \A w \in Workers :
          IF pc[w] \in Over THEN active[w] = 0 \/ (active[w] > 0 /\ gone # {})
          ELSE active[w] = Cardinality(Life(w)) - (IF Ended(w) THEN 1 ELSE 0)
    BY DEF IInv, Gauge
  <2>. QED  BY <2>1, <2>2, <2>3 DEF ServeExact
<1>. QED  BY <1>1, Invariance, PTL
================================================================================
