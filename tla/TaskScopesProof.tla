---------------------------- MODULE TaskScopesProof ----------------------------
(***************************************************************************)
(* Proofs about TaskScopes, for every program, the careless ones included,  *)
(* and any number of tasks, blocks, awaits and cancellations.               *)
(***************************************************************************)
EXTENDS TaskScopes, FiniteSetTheorems, SequenceTheorems, WellFoundedInduction, TLAPS

Records == [result : Coroutines, cancelled : BOOLEAN, polling : BOOLEAN]
BlockRecords == [split : BOOLEAN, si : Nat, id : Nat \ {0}, fresh : BOOLEAN]
Places == Nat \X Nat
CodeFrames == [k : {"code"}, x : Coroutines]
LoopFrames == [k : {"join", "sleep", "await", "join_task"}, t : Coroutines, si : Nat,
               at : Places, prog : BOOLEAN]

\* The types of the state, with the scope table in step with its flags.
Base ==
  /\ scopes \in Seq(Seq(Bodies)) /\ closed \in Seq(BOOLEAN) /\ Len(scopes) = Len(closed)
  /\ task \in [Bodies -> Records]
  /\ handle \in [Bodies -> Places]
  /\ blocks \in [Coroutines -> Seq(BlockRecords)]
  /\ wait \in [Coroutines -> {Awake, AtTimer, AtJoin} \union Bodies]
  /\ stack \in Seq(CodeFrames \union LoopFrames)
  /\ made \in 0..MaxTasks /\ opened \in 0..MaxBlocks
  /\ from \in [Bodies -> Nat]

\* A body that has not been started is nowhere; one that has a handle, or a
\* place in the table, was spawned, and a bare one was not.
Started ==
  /\ \A t \in Bodies : t > made => Bare(t) /\ from[t] = 0
  /\ \A t \in Bodies : from[t] # 0 => ~Bare(t)
  /\ \A si \in DOMAIN scopes : \A ti \in DOMAIN scopes[si] :
       scopes[si][ti] <= made /\ ~Bare(scopes[si][ti])

\* The native stack: code and loops take turns, the top level is at the
\* bottom and never waits in a poll, and a loop drives a body that exists.
IsCode(i) == stack[i].k = "code"
Alternates ==
  /\ stack # <<>> /\ stack[1] = Code(Main)
  /\ wait[Main] = Awake /\ \A b \in DOMAIN blocks[Main] : ~blocks[Main][b].split
  /\ \A i \in 2..Len(stack) : /\ IsCode(i) # IsCode(i - 1)
                              /\ IsCode(i) => stack[i].x \in 1..made
                              /\ ~IsCode(i) => stack[i].t <= made
                              /\ stack[i].k \in {"await", "join_task"} => stack[i].t # Main

\* A code frame is the poll of the loop under it: the drive of a bare body, or
\* the poll of a task that is marked.  What is now in the place that was polled
\* is that task, or one that came later and is not below.
PollOf(i) ==
  LET f == stack[i - 1]  u == stack[i].x
  IN  \/ f.at = Nowhere /\ f.k = "await" /\ f.t = u /\ Bare(u)
      \/ /\ f.at # Nowhere /\ ~Bare(u) /\ task[u].polling
         /\ At(f.at[1], f.at[2]) =>
              LET v == scopes[f.at[1]][f.at[2]]
              IN  v = u \/ \A j \in 1..(i - 1) : stack[j] # Code(v)
Polls == \A i \in 2..Len(stack) : IsCode(i) => PollOf(i)

\* One loop drives a bare body.
Bares ==
  \A i, j \in DOMAIN stack :
    stack[i].k = "await" /\ stack[j].k = "await" /\ stack[i].t = stack[j].t
      /\ Bare(stack[i].t) => i = j

\* There are at least as many open slots as blocks programs are inside.
Blocks == {p \in Coroutines \X Nat : p[2] \in DOMAIN blocks[p[1]]}
Enough == IsFiniteSet(Blocks) /\ Cardinality(Blocks) <= Cardinality(OpenSlots)

\* A synchronous block that is being joined is still there: its coroutine
\* waits under the join.  So is the block a coroutine waits to leave.
Joining ==
  /\ \A i \in 2..Len(stack) : stack[i].k = "join" =>
       blocks[stack[i - 1].x] # <<>> /\ wait[stack[i - 1].x] = Awake
  /\ \A x \in Coroutines : wait[x] = AtJoin => blocks[x] # <<>>

IInv == Base /\ Joining /\ Started /\ Alternates /\ Polls /\ Bares /\ Enough /\ NotReentered
--------------------------------------------------------------------------------
(* Sequences and maxima.                                                    *)

LEMMA MaxFacts ==
  ASSUME NEW n \in Nat, NEW S \in SUBSET (1..n), S # {}
  PROVE  Max(S) \in S /\ \A y \in S : y <= Max(S)
<1>. DEFINE R == {ss \in Nat \X Nat : ss[1] < ss[2]}
            T == {n - y : y \in S}
<1>0. IsWellFoundedOn(R, Nat)
  BY NatLessThanWellFounded DEF OpToRel
<1>a. T \subseteq Nat /\ T # {}
  <2>1. \A y \in S : y \in 1..n
    OBVIOUS
  <2>2. \A y \in S : n - y \in Nat
    BY <2>1
  <2>. QED  BY <2>2
<1>1. ASSUME NEW y \in Nat, NEW x \in Nat, y < x
      PROVE  <<y, x>> \in R
  <2>1. <<y, x>> \in Nat \X Nat /\ <<y, x>>[1] = y /\ <<y, x>>[2] = x OBVIOUS
  <2>2. <<y, x>>[1] < <<y, x>>[2] BY <1>1, <2>1
  <2>. QED BY <2>1, <2>2, Zenon
<1>. HIDE DEF R
<1>2. PICK z \in T : \A y \in T : ~(<<y, z>> \in R)
  <2>. HIDE DEF T
  <2>. QED  BY <1>0, <1>a, WFMin
<1>3. PICK x \in S : z = n - x
  OBVIOUS
<1>4. ASSUME NEW y \in S
      PROVE  y <= x
  <2>1. n - y \in T /\ n - y \in Nat /\ n - x \in Nat /\ x \in Nat /\ y \in Nat
    OBVIOUS
  <2>2. ~(n - y < n - x)
    BY <1>1, <1>2, <1>3, <2>1
  <2>. QED  BY <2>1, <2>2
<1>5. Max(S) = CHOOSE m \in S : \A y \in S : m >= y
  BY DEF Max
<1>6. \A y \in S : x >= y
  BY <1>4
<1>7. Max(S) \in S /\ \A y \in S : Max(S) >= y
  BY <1>5, <1>6
<1>. QED  BY <1>7

LEMMA OnTop ==
  ASSUME NEW S, NEW s \in Seq(S), NEW e \in S
  PROVE  /\ Append(s, e) \in Seq(S) /\ Len(Append(s, e)) = Len(s) + 1
         /\ Append(s, e)[Len(s) + 1] = e
         /\ \A i \in 1..Len(s) : Append(s, e)[i] = s[i]
<1>. QED  BY AppendProperties

LEMMA Cut ==
  ASSUME NEW S, NEW s \in Seq(S), NEW m \in 0..Len(s)
  PROVE  /\ SubSeq(s, 1, m) \in Seq(S) /\ Len(SubSeq(s, 1, m)) = m
         /\ \A i \in 1..m : SubSeq(s, 1, m)[i] = s[i]
<1>. QED  OBVIOUS

LEMMA Put ==
  ASSUME NEW S, NEW s \in Seq(S), NEW i \in 1..Len(s), NEW e \in S
  PROVE  /\ [s EXCEPT ![i] = e] \in Seq(S)
         /\ Len([s EXCEPT ![i] = e]) = Len(s)
         /\ \A j \in 1..Len(s) : [s EXCEPT ![i] = e][j] = IF j = i THEN e ELSE s[j]
<1>. QED  OBVIOUS

--------------------------------------------------------------------------------
(* The scope table.                                                         *)

\* `innermost_open` finds a slot when one is open.
LEMMA Innermost ==
  ASSUME Base, OpenSlots # {}
  PROVE  innermost_open \in OpenSlots /\ innermost_open \in 1..Len(scopes)
<1>1. OpenSlots \in SUBSET (1..Len(closed)) /\ Len(closed) \in Nat /\ Len(scopes) = Len(closed)
  BY DEF Base, OpenSlots
<1>2. Max(OpenSlots) \in OpenSlots
  BY <1>1, MaxFacts
<1>. QED  BY <1>1, <1>2 DEF innermost_open

LEMMA SlotsFinite ==
  ASSUME Base
  PROVE  IsFiniteSet(OpenSlots) /\ Cardinality(OpenSlots) \in Nat
<1>1. OpenSlots \subseteq 1..Len(closed) /\ Len(closed) \in Nat
  BY DEF Base, OpenSlots
<1>2. IsFiniteSet(1..Len(closed))
  BY <1>1, FS_Interval
<1>. QED  BY <1>1, <1>2, FS_Subset, FS_CardinalityType

\* `close_scope`: the slot is a tombstone, and no other slot moves.
LEMMA CloseFacts ==
  ASSUME Base, NEW si \in 1..Len(scopes), close_scope(si)
  PROVE  /\ scopes' \in Seq(Seq(Bodies)) /\ closed' \in Seq(BOOLEAN)
         /\ Len(scopes') = Len(closed') /\ Len(scopes') <= Len(scopes)
         /\ closed' # <<>> => ~Last(closed')
         /\ OpenSlots' = OpenSlots \ {si}
         /\ \A a \in 1..Len(scopes') : scopes'[a] = IF a = si THEN <<>> ELSE scopes[a]
<1>. DEFINE flags == [closed EXCEPT ![si] = TRUE]
            up == {i \in DOMAIN flags : ~flags[i]}
            table == [scopes EXCEPT ![si] = <<>>]
            k == Keep(flags)
<1>1. /\ scopes \in Seq(Seq(Bodies)) /\ closed \in Seq(BOOLEAN) /\ Len(closed) = Len(scopes)
      /\ Len(scopes) \in Nat /\ <<>> \in Seq(Bodies) /\ TRUE \in BOOLEAN
  BY DEF Base
<1>2. /\ flags \in Seq(BOOLEAN) /\ Len(flags) = Len(closed)
      /\ \A j \in 1..Len(closed) : flags[j] <=> (j = si \/ closed[j])
  <2>1. DOMAIN closed = 1..Len(closed) /\ si \in DOMAIN closed
    BY <1>1
  <2>2. flags \in [1..Len(closed) -> BOOLEAN]
    BY <1>1, <2>1
  <2>3. flags \in Seq(BOOLEAN) /\ Len(flags) = Len(closed)
    BY <1>1, <2>2
  <2>4. ASSUME NEW j \in 1..Len(closed)
        PROVE  flags[j] <=> (j = si \/ closed[j])
    <3>1. CASE j = si
      BY <2>1, <3>1
    <3>2. CASE j # si
      BY <2>1, <3>2
    <3>. QED  BY <3>1, <3>2
  <2>. QED  BY <2>3, <2>4
<1>3. /\ table \in Seq(Seq(Bodies)) /\ Len(table) = Len(scopes)
      /\ \A j \in 1..Len(scopes) : table[j] = IF j = si THEN <<>> ELSE scopes[j]
  BY <1>1, Put
<1>4. closed' = SubSeq(flags, 1, k) /\ scopes' = SubSeq(table, 1, k)
  BY DEF close_scope
<1>5. k = IF up = {} THEN 0 ELSE Max(up)
  BY DEF Keep
<1>. HIDE DEF flags, table, k
<1>6. up \in SUBSET (1..Len(scopes)) /\ \A j \in 1..Len(scopes) : j \in up <=> j # si /\ ~closed[j]
  <2>1. DOMAIN flags = 1..Len(scopes)
    BY <1>1, <1>2
  <2>2. ASSUME NEW j \in 1..Len(scopes)
        PROVE  j \in up <=> j # si /\ ~closed[j]
    <3>1. flags[j] <=> (j = si \/ closed[j])
      BY <1>1, <1>2
    <3>. QED  BY <2>1, <3>1, Zenon
  <2>. QED  BY <2>1, <2>2
<1>. HIDE DEF up
<1>7. k \in 0..Len(scopes) /\ (k # 0 => k \in up) /\ \A j \in up : j <= k
  <2>1. CASE up = {}
    BY <1>1, <1>5, <2>1
  <2>2. CASE up # {}
    <3>1. Max(up) \in up /\ \A y \in up : y <= Max(up)
      BY <1>1, <1>6, <2>2, MaxFacts
    <3>. QED  BY <1>1, <1>5, <1>6, <2>2, <3>1
  <2>. QED  BY <2>1, <2>2
<1>8. /\ closed' \in Seq(BOOLEAN) /\ Len(closed') = k
      /\ \A j \in 1..k : closed'[j] = flags[j]
  BY <1>1, <1>2, <1>4, <1>7, Cut
<1>9. /\ scopes' \in Seq(Seq(Bodies)) /\ Len(scopes') = k
      /\ \A j \in 1..k : scopes'[j] = table[j]
  BY <1>1, <1>3, <1>4, <1>7, Cut
<1>10. DOMAIN closed' = 1..k /\ DOMAIN closed = 1..Len(scopes) /\ k \in Nat
  BY <1>1, <1>7, <1>8
<1>11. OpenSlots' = OpenSlots \ {si}
  <2>1. ASSUME NEW j
        PROVE  j \in OpenSlots' <=> j \in 1..Len(scopes) /\ j # si /\ ~closed[j]
    <3>1. CASE j \in 1..k
      <4>1. j \in 1..Len(scopes) /\ closed'[j] = flags[j]
        BY <1>1, <1>7, <1>8, <3>1
      <4>2. flags[j] <=> (j = si \/ closed[j])
        BY <1>1, <1>2, <4>1
      <4>. QED  BY <1>10, <3>1, <4>1, <4>2 DEF OpenSlots
    <3>2. CASE j \notin 1..k
      <4>1. j \notin OpenSlots'
        BY <1>10, <3>2 DEF OpenSlots
      <4>2. ~(j \in 1..Len(scopes) /\ j # si /\ ~closed[j])
        BY <1>1, <1>6, <1>7, <3>2
      <4>. QED  BY <4>1, <4>2
    <3>. QED  BY <3>1, <3>2
  <2>. QED  BY <1>10, <2>1 DEF OpenSlots
<1>12. \A a \in 1..Len(scopes') : scopes'[a] = IF a = si THEN <<>> ELSE scopes[a]
  <2>1. ASSUME NEW a \in 1..Len(scopes')
        PROVE  scopes'[a] = IF a = si THEN <<>> ELSE scopes[a]
    <3>1. a \in 1..k /\ a \in 1..Len(scopes)
      BY <1>1, <1>7, <1>9
    <3>. QED  BY <1>3, <1>9, <3>1
  <2>. QED  BY <2>1
<1>13. closed' # <<>> => ~Last(closed')
  <2>1. ASSUME closed' # <<>>
        PROVE  ~closed'[k]
    <3>1. k \in 1..Len(scopes) /\ k \in up /\ k \in 1..k
      BY <1>1, <1>7, <1>8, <2>1
    <3>2. ~closed[k] /\ k # si
      BY <1>6, <3>1
    <3>3. flags[k] <=> (k = si \/ closed[k])
      BY <1>1, <1>2, <3>1
    <3>4. closed'[k] = flags[k]
      BY <1>8, <3>1
    <3>. QED  BY <3>2, <3>3, <3>4
  <2>. QED  BY <1>8, <2>1 DEF Last
<1>. QED  BY <1>1, <1>7, <1>8, <1>9, <1>11, <1>12, <1>13
--------------------------------------------------------------------------------
(* The native stack.                                                        *)

LEMMA Frames ==
  ASSUME IInv
  PROVE  /\ Len(stack) \in Nat \ {0} /\ DOMAIN stack = 1..Len(stack)
         /\ \A i \in 1..Len(stack) : IsCode(i) => stack[i] \in CodeFrames /\ stack[i] = Code(stack[i].x)
         /\ \A i \in 1..Len(stack) : ~IsCode(i) => stack[i] \in LoopFrames
<1>1. stack \in Seq(CodeFrames \union LoopFrames) /\ stack # <<>>
  BY DEF IInv, Base, Alternates
<1>2. Len(stack) \in Nat \ {0} /\ DOMAIN stack = 1..Len(stack)
  BY <1>1
<1>3. ASSUME NEW i \in 1..Len(stack)
      PROVE  /\ IsCode(i) => stack[i] \in CodeFrames /\ stack[i] = Code(stack[i].x)
             /\ ~IsCode(i) => stack[i] \in LoopFrames
  <2>1. stack[i] \in CodeFrames \/ stack[i] \in LoopFrames
    BY <1>1
  <2>. QED  BY <2>1 DEF IsCode, CodeFrames, LoopFrames, Code
<1>. QED  BY <1>2, <1>3

\* A body that runs is on top, and unless it is the top level a loop polls it.
LEMMA CodeOnTop ==
  ASSUME IInv, NEW x \in Coroutines, Running(x)
  PROVE  /\ stack[Len(stack)] = Code(x) /\ IsCode(Len(stack)) /\ stack[Len(stack)].x = x
         /\ x # Main => /\ Len(stack) >= 3 /\ Len(stack) - 2 \in 1..Len(stack)
                        /\ IsCode(Len(stack) - 2)
                        /\ Len(stack) - 1 \in 1..Len(stack) /\ ~IsCode(Len(stack) - 1)
                        /\ stack[Len(stack) - 1] \in LoopFrames
                        /\ x \in 1..made /\ PollOf(Len(stack))
<1>. DEFINE n == Len(stack)
<1>1. n \in Nat \ {0}
  BY Frames
<1>2. stack[n] = Code(x)
  BY DEF Running, Last
<1>3. IsCode(n) /\ stack[n].x = x
  BY <1>2 DEF IsCode, Code
<1>a. n = Len(stack)
  OBVIOUS
<1>. HIDE DEF n
<1>4. ASSUME x # Main
      PROVE  /\ n >= 3 /\ n - 2 \in 1..n /\ IsCode(n - 2)
             /\ n - 1 \in 1..n /\ ~IsCode(n - 1) /\ stack[n - 1] \in LoopFrames
             /\ x \in 1..made /\ PollOf(n)
  <2>1. n # 1
    <3>1. stack[1] = Code(Main)
      BY DEF IInv, Alternates
    <3>2. stack[1].x = Main
      BY <3>1 DEF Code
    <3>. QED  BY <1>3, <1>4, <3>2
  <2>2. n \in 2..n
    BY <1>1, <2>1
  <2>3. ~IsCode(n - 1) /\ x \in 1..made /\ PollOf(n)
    BY <1>a, <1>3, <2>2 DEF IInv, Alternates, Polls
  <2>4. n - 1 # 1
    <3>1. IsCode(1)
      BY DEF IInv, Alternates, IsCode, Code
    <3>. QED  BY <2>3, <3>1
  <2>5. n >= 3 /\ n - 1 \in 2..n /\ n - 1 \in 1..n /\ n - 2 \in 1..n /\ (n - 1) - 1 = n - 2
    BY <1>1, <2>1, <2>4
  <2>6. IsCode(n - 2)
    <3>1. IsCode(n - 1) # IsCode((n - 1) - 1)
      BY <1>a, <2>5 DEF IInv, Alternates
    <3>. QED  BY <2>3, <2>5, <3>1 DEF IsCode
  <2>7. stack[n - 1] \in LoopFrames
    BY <1>a, <2>3, <2>5, Frames
  <2>. QED  BY <2>3, <2>5, <2>6, <2>7
<1>. QED  BY <1>2, <1>3, <1>4, <1>a

\* A loop that is on top has the code that started it under it.
LEMMA LoopOnTop ==
  ASSUME IInv, Looping
  PROVE  /\ Loop = stack[Len(stack)] /\ ~IsCode(Len(stack)) /\ Loop \in LoopFrames
         /\ Len(stack) >= 2 /\ Len(stack) - 1 \in 1..Len(stack)
         /\ Under = stack[Len(stack) - 1] /\ IsCode(Len(stack) - 1)
         /\ Driver = stack[Len(stack) - 1].x /\ Driver \in Coroutines
         /\ Loop.t <= made /\ (Loop.k \in {"await", "join_task"} => Loop.t # Main)
<1>. DEFINE n == Len(stack)
<1>1. n \in Nat \ {0}
  BY Frames
<1>2. Loop = stack[n] /\ ~IsCode(n) /\ Under = stack[n - 1]
  BY DEF Loop, Last, Looping, IsCode, Under
<1>3. n # 1
  <2>1. IsCode(1)
    BY DEF IInv, Alternates, IsCode, Code
  <2>. QED  BY <1>2, <2>1
<1>4. n >= 2 /\ n \in 2..n /\ n - 1 \in 1..n
  BY <1>1, <1>3
<1>5. /\ IsCode(n) # IsCode(n - 1) /\ stack[n].t <= made
      /\ stack[n].k \in {"await", "join_task"} => stack[n].t # Main
  BY <1>2, <1>4 DEF IInv, Alternates
<1>6. IsCode(n - 1)
  BY <1>2, <1>5 DEF IsCode
<1>7. stack[n - 1] \in CodeFrames /\ stack[n] \in LoopFrames
  BY <1>1, <1>2, <1>4, <1>6, Frames
<1>8. Driver = stack[n - 1].x /\ Driver \in Coroutines
  BY <1>2, <1>7 DEF Driver, CodeFrames
<1>. QED  BY <1>2, <1>4, <1>5, <1>6, <1>7, <1>8

LEMMA LeastNat ==
  ASSUME NEW S \in SUBSET Nat, S # {}
  PROVE  \E x \in S : \A y \in S : x <= y
<1>. DEFINE R == {ss \in Nat \X Nat : ss[1] < ss[2]}
<1>0. IsWellFoundedOn(R, Nat)
  BY NatLessThanWellFounded DEF OpToRel
<1>a. S \subseteq Nat /\ S # {} OBVIOUS
<1>1. ASSUME NEW y \in Nat, NEW x \in Nat, y < x
      PROVE <<y, x>> \in R
  <2>1. <<y, x>> \in Nat \X Nat /\ <<y, x>>[1] = y /\ <<y, x>>[2] = x OBVIOUS
  <2>2. <<y, x>>[1] < <<y, x>>[2] BY <1>1, <2>1
  <2>. QED BY <2>1, <2>2, Zenon
<1>. HIDE DEF R
<1>2. PICK x \in S : \A y \in S : ~(<<y, x>> \in R)
  BY <1>0, <1>a, WFMin
<1>3. ASSUME NEW y \in S
      PROVE  x <= y
  <2>1. x \in Nat /\ y \in Nat
    OBVIOUS
  <2>2. ~(y < x)
    BY <1>1, <1>2, <2>1
  <2>. QED  BY <2>1, <2>2
<1>. QED  BY <1>3

\* A round that has somebody to poll knows whom: the first in the table.
LEMMA FirstDue ==
  ASSUME IInv, NEW at, Due(at) # {}
  PROVE  /\ First(Due(at)) \in Due(at)
         /\ First(Due(at)) \in Places /\ First(Due(at)) # Nowhere
         /\ At(First(Due(at))[1], First(Due(at))[2])
         /\ Pollable(scopes[First(Due(at))[1]][First(Due(at))[2]])
         /\ scopes[First(Due(at))[1]][First(Due(at))[2]] \in Bodies
         /\ \A q \in Due(at) : Before(First(Due(at)), q)
<1>. DEFINE D == Due(at)
<1>0. scopes \in Seq(Seq(Bodies))
  BY DEF IInv, Base
<1>1. ASSUME NEW p \in D
      PROVE  /\ p = <<p[1], p[2]>> /\ p[1] \in Nat \ {0} /\ p[2] \in Nat \ {0}
             /\ p[1] \in DOMAIN scopes /\ p[2] \in DOMAIN scopes[p[1]]
             /\ Pollable(scopes[p[1]][p[2]]) /\ scopes[p[1]][p[2]] \in Bodies
  <2>1. PICK si \in DOMAIN scopes : p \in {si} \X DOMAIN scopes[si]
    BY DEF Due
  <2>2. p = <<p[1], p[2]>> /\ p[1] = si /\ p[2] \in DOMAIN scopes[si]
    BY <2>1
  <2>3. scopes[si] \in Seq(Bodies) /\ si \in Nat \ {0}
    BY <1>0
  <2>4. p[2] \in Nat \ {0} /\ scopes[si][p[2]] \in Bodies
    BY <2>2, <2>3
  <2>5. Pollable(scopes[p[1]][p[2]])
    BY DEF Due
  <2>. QED  BY <2>2, <2>3, <2>4, <2>5
<1>. HIDE DEF D
<1>2. \E p \in D : \A q \in D : Before(p, q)
  <2>. DEFINE A == {p[1] : p \in D}
  <2>1. A \in SUBSET Nat /\ A # {}
    BY <1>1 DEF D
  <2>. HIDE DEF A
  <2>2. PICK a \in A : \A y \in A : a <= y
    BY <2>1, LeastNat
  <2>. DEFINE B == {p[2] : p \in {q \in D : q[1] = a}}
  <2>3. B \in SUBSET Nat /\ B # {}
    <3>1. \E p \in D : p[1] = a
      BY DEF A
    <3>. QED  BY <1>1, <3>1
  <2>. HIDE DEF B
  <2>4. PICK b \in B : \A y \in B : b <= y
    BY <2>3, LeastNat
  <2>5. PICK p \in D : p[1] = a /\ p[2] = b
    BY DEF B
  <2>6. ASSUME NEW q \in D
        PROVE  Before(p, q)
    <3>1. q[1] \in A /\ a <= q[1] /\ a \in Nat /\ q[1] \in Nat
      BY <1>1, <2>1, <2>2 DEF A
    <3>2. CASE q[1] = a
      <4>1. q[2] \in B /\ b <= q[2]
        BY <2>4, <3>2 DEF B
      <4>. QED  BY <2>5, <3>2, <4>1 DEF Before
    <3>3. CASE q[1] # a
      BY <2>5, <3>1, <3>3 DEF Before
    <3>. QED  BY <3>2, <3>3
  <2>. QED  BY <2>6
<1>3. First(D) \in D /\ \A q \in D : Before(First(D), q)
  BY <1>2 DEF First
<1>. DEFINE p == First(D)
<1>4. /\ p = <<p[1], p[2]>> /\ p[1] \in Nat \ {0} /\ p[2] \in Nat \ {0}
      /\ p[1] \in DOMAIN scopes /\ p[2] \in DOMAIN scopes[p[1]]
      /\ Pollable(scopes[p[1]][p[2]]) /\ scopes[p[1]][p[2]] \in Bodies
  BY <1>1, <1>3
<1>. HIDE DEF p
<1>5. p \in Places /\ p # Nowhere /\ At(p[1], p[2])
  BY <1>4 DEF Places, Nowhere, At
<1>. QED  BY <1>3, <1>4, <1>5 DEF p, D
--------------------------------------------------------------------------------
(* What a step does to the stack and to the table.                          *)

\* The stack keeps its first m frames; then there may be a loop, the one that
\* was there or one just entered, and on it the poll of a body not on the stack.
PollKept(m) ==
  \A i \in 2..m : IsCode(i) /\ ~Bare(stack[i].x) /\ task[stack[i].x].polling
                    => task'[stack[i].x].polling
StillJoins(f, y) == f.k = "join" => blocks'[y] # <<>> /\ wait'[y] = Awake
JoinKept(m) == \A i \in 2..m : StillJoins(stack[i], stack[i - 1].x)
SameLoop(f, g) == g.k = f.k /\ g.t = f.t /\ g.si = f.si
NewLoop(m) ==
  LET g == stack'[m + 1]
  IN  /\ IsCode(m) /\ g \in LoopFrames
      /\ g.t <= made' /\ (g.k \in {"await", "join_task"} => g.t # Main)
      /\ StillJoins(g, stack[m].x)
      /\ \/ m < Len(stack) /\ ~IsCode(m + 1) /\ SameLoop(stack[m + 1], g)
         \/ m = Len(stack) /\ (g.k = "await" /\ handle'[g.t] = Nowhere => g.t > made)
NewCode(j) ==
  \E u \in 1..made : /\ stack'[j] = Code(u) /\ PollOf(j)'
                     /\ \A i \in 1..Len(stack) : stack[i] # Code(u)
StackStep ==
  /\ stack' \in Seq(CodeFrames \union LoopFrames)
  /\ \E m \in 1..Len(stack) :
       /\ Len(stack') \in {m, m + 1, m + 2}
       /\ \A i \in 1..m : stack'[i] = stack[i]
       /\ PollKept(m) /\ JoinKept(m)
       /\ Len(stack') # m => NewLoop(m)
       /\ Len(stack') = m + 2 => m + 1 = Len(stack) /\ NewCode(m + 2)

\* A task keeps its place or loses it, or it is the one just spawned.
TableStep ==
  \A a \in DOMAIN scopes' : \A b \in DOMAIN scopes'[a] :
    \/ At(a, b) /\ scopes'[a][b] = scopes[a][b]
    \/ made' = made + 1 /\ scopes'[a][b] = made + 1 /\ handle'[made + 1] # Nowhere
HandleStep ==
  /\ made' \in {made, made + 1}
  /\ \A t \in Bodies : t <= made => handle'[t] = handle[t] /\ from'[t] = from[t]
  /\ \A t \in Bodies : t > made' => handle'[t] = handle[t] /\ from'[t] = from[t]
  /\ \A t \in Bodies : from'[t] # 0 => from[t] # 0 \/ ~Bare(t)'
TypesStep ==
  /\ scopes' \in Seq(Seq(Bodies)) /\ closed' \in Seq(BOOLEAN) /\ Len(scopes') = Len(closed')
  /\ task' \in [Bodies -> Records] /\ handle' \in [Bodies -> Places]
  /\ blocks' \in [Coroutines -> Seq(BlockRecords)]
  /\ wait' \in [Coroutines -> {Awake, AtTimer, AtJoin} \union Bodies]
  /\ made' \in 0..MaxTasks /\ opened' \in 0..MaxBlocks /\ from' \in [Bodies -> Nat]
MainStep ==
  /\ wait'[Main] = Awake /\ \A b \in DOMAIN blocks'[Main] : ~blocks'[Main][b].split
  /\ \A x \in Coroutines : wait'[x] = AtJoin => blocks'[x] # <<>>
DataStep == TypesStep /\ TableStep /\ HandleStep /\ MainStep

LEMMA StartedKept ==
  ASSUME IInv, DataStep
  PROVE  Started'
<1>0. made \in 0..MaxTasks /\ made' \in 0..MaxTasks /\ made' \in {made, made + 1} /\ MaxTasks \in Nat
  BY TaskBounds DEF IInv, Base, DataStep, TypesStep, HandleStep
<1>1. ASSUME NEW t \in Bodies, t > made'
      PROVE  Bare(t)' /\ from'[t] = 0
  <2>1. t > made
    BY <1>0, <1>1 DEF Bodies
  <2>2. handle[t] = Nowhere /\ from[t] = 0
    BY <2>1 DEF IInv, Started, Bare
  <2>. QED  BY <1>1, <2>2 DEF DataStep, HandleStep, Bare
<1>2. ASSUME NEW t \in Bodies, from'[t] # 0
      PROVE  ~Bare(t)'
  <2>1. CASE t > made'
    BY <1>1, <1>2, <2>1
  <2>2. CASE from[t] # 0 /\ t <= made
    BY <2>2 DEF IInv, Started, Bare, DataStep, HandleStep
  <2>3. CASE from[t] = 0
    BY <1>2, <2>3 DEF DataStep, HandleStep
  <2>4. from[t] # 0 => t <= made
    BY <1>0 DEF IInv, Started, Bodies
  <2>. QED  BY <2>2, <2>3, <2>4
<1>3. ASSUME NEW a \in DOMAIN scopes', NEW b \in DOMAIN scopes'[a]
      PROVE  scopes'[a][b] <= made' /\ ~Bare(scopes[a][b])'
  <2>1. CASE At(a, b) /\ scopes'[a][b] = scopes[a][b]
    <3>1. a \in DOMAIN scopes /\ b \in DOMAIN scopes[a] /\ scopes[a][b] \in Bodies
      BY <2>1 DEF At, IInv, Base
    <3>2. scopes[a][b] <= made /\ ~Bare(scopes[a][b])
      BY <3>1 DEF IInv, Started
    <3>3. handle'[scopes[a][b]] = handle[scopes[a][b]]
      BY <3>1, <3>2 DEF DataStep, HandleStep
    <3>. QED  BY <1>0, <2>1, <3>1, <3>2, <3>3 DEF Bare, Bodies
  <2>2. CASE made' = made + 1 /\ scopes'[a][b] = made + 1 /\ handle'[made + 1] # Nowhere
    BY <1>0, <2>2 DEF Bare
  <2>. QED  BY <2>1, <2>2 DEF DataStep, TableStep
<1>. QED  BY <1>1, <1>2, <1>3 DEF Started

--------------------------------------------------------------------------------
(* The invariant of the stack is kept by every such step.                   *)

\* The frames of the next stack, one by one.
LEMMA FrameStep ==
  ASSUME IInv, DataStep, StackStep, NEW i \in 1..Len(stack')
  PROVE  \/ i <= Len(stack) /\ stack'[i] = stack[i]
         \/ /\ i - 1 \in 1..Len(stack) /\ stack'[i - 1] = stack[i - 1] /\ NewLoop(i - 1)
            /\ stack'[i] \in LoopFrames
         \/ /\ i - 2 \in 1..Len(stack) /\ i = Len(stack) + 1 /\ i = Len(stack') /\ NewCode(i)
            /\ stack'[i - 1] \in LoopFrames
<1>s. /\ stack' \in Seq(CodeFrames \union LoopFrames)
      /\ DOMAIN stack' = 1..Len(stack') /\ DOMAIN stack = 1..Len(stack)
  <2>1. stack' \in Seq(CodeFrames \union LoopFrames)
    BY DEF StackStep
  <2>2. DOMAIN stack' = 1..Len(stack')
    BY <2>1
  <2>. QED  BY <2>1, <2>2, Frames
<1>0. /\ Len(stack) \in Nat \ {0} /\ Len(stack') \in Nat
      /\ made \in Nat /\ made' \in {made, made + 1} /\ made <= MaxTasks /\ MaxTasks \in Nat
  BY <1>s, Frames, TaskBounds DEF DataStep, HandleStep, IInv, Base
<1>m. PICK m \in 1..Len(stack) :
        /\ Len(stack') \in {m, m + 1, m + 2}
        /\ \A c \in 1..m : stack'[c] = stack[c]
        /\ PollKept(m) /\ JoinKept(m)
        /\ Len(stack') # m => NewLoop(m)
        /\ Len(stack') = m + 2 => m + 1 = Len(stack) /\ NewCode(m + 2)
  BY DEF StackStep
<1>n. /\ m \in Nat \ {0} /\ m <= Len(stack)
      /\ Len(stack') = m \/ Len(stack') = m + 1 \/ Len(stack') = m + 2
  <2>1. Len(stack') \in {m, m + 1, m + 2}
    BY <1>m
  <2>2. m \in Nat \ {0} /\ m <= Len(stack)
    BY <1>0
  <2>. QED  BY <2>1, <2>2
<1>1. CASE i <= m
  <2>1. i \in 1..m /\ i <= Len(stack)
    BY <1>0, <1>n, <1>1
  <2>. QED  BY <1>m, <2>1
<1>2. CASE i = m + 1
  <2>1. i - 1 = m /\ i - 1 \in 1..Len(stack) /\ Len(stack') # m
    BY <1>0, <1>n, <1>2
  <2>2. NewLoop(m) /\ stack'[m] = stack[m]
    BY <1>m, <2>1
  <2>3. stack'[i] \in LoopFrames
    BY <1>2, <2>2 DEF NewLoop
  <2>. QED  BY <2>1, <2>2, <2>3
<1>3. CASE i = m + 2
  <2>1. i - 2 = m /\ i - 1 = m + 1 /\ Len(stack') = m + 2 /\ Len(stack') # m
    BY <1>0, <1>n, <1>3
  <2>2. m + 1 = Len(stack) /\ NewCode(m + 2) /\ NewLoop(m)
    BY <1>m, <2>1
  <2>3. stack'[m + 1] \in LoopFrames
    BY <2>2 DEF NewLoop
  <2>4. i = Len(stack) + 1 /\ i = Len(stack') /\ i - 2 \in 1..Len(stack)
    BY <1>0, <1>3, <2>1, <2>2
  <2>. QED  BY <1>3, <2>1, <2>2, <2>3, <2>4
<1>4. i <= m \/ i = m + 1 \/ i = m + 2
  BY <1>0, <1>n
<1>. QED  BY <1>1, <1>2, <1>3, <1>4

\* Code on the next stack was there, in the same frame, or is the new poll.
LEMMA CodeStep ==
  ASSUME IInv, DataStep, StackStep, NEW i \in 1..Len(stack'), stack'[i].k = "code"
  PROVE  \/ i <= Len(stack) /\ stack'[i] = stack[i]
         \/ i = Len(stack) + 1 /\ i = Len(stack') /\ NewCode(i)
<1>1. stack'[i] \notin LoopFrames
  BY DEF LoopFrames
<1>. QED  BY <1>1, FrameStep

LEMMA NotReenteredKept ==
  ASSUME IInv, DataStep, StackStep
  PROVE  NotReentered'
<1>0. Len(stack) \in Nat \ {0} /\ Len(stack') \in Nat /\ DOMAIN stack' = 1..Len(stack')
      /\ DOMAIN stack = 1..Len(stack)
  <2>1. stack' \in Seq(CodeFrames \union LoopFrames)
    BY DEF StackStep
  <2>2. DOMAIN stack' = 1..Len(stack')
    BY <2>1
  <2>. QED  BY <2>1, <2>2, Frames
<1>1. ASSUME NEW i \in 1..Len(stack'), NEW j \in 1..Len(stack'),
             stack'[i].k = "code", stack'[i] = stack'[j]
      PROVE  i = j
  <2>. DEFINE Old(a) == a <= Len(stack) /\ stack'[a] = stack[a]
              New(a) == a = Len(stack) + 1 /\ NewCode(a)
  <2>1. (Old(i) \/ New(i)) /\ (Old(j) \/ New(j))
    BY <1>1, CodeStep
  <2>2. CASE Old(i) /\ Old(j)
    <3>1. i \in DOMAIN stack /\ j \in DOMAIN stack
      BY <1>0, <2>2
    <3>2. stack[i].k = "code" /\ stack[i] = stack[j]
      BY <1>1, <2>2
    <3>. QED  BY <3>1, <3>2 DEF IInv, NotReentered
  <2>3. ASSUME NEW a \in 1..Len(stack'), NEW b \in 1..Len(stack'), Old(a), New(b)
        PROVE  stack'[a] # stack'[b]
    <3>1. PICK u : stack'[b] = Code(u) /\ \A c \in 1..Len(stack) : stack[c] # Code(u)
      BY <2>3 DEF NewCode
    <3>. QED  BY <1>0, <2>3, <3>1
  <2>. HIDE DEF Old
  <2>. QED  BY <1>1, <2>1, <2>2, <2>3
<1>. QED  BY <1>0, <1>1 DEF NotReentered

LEMMA AlternatesKept ==
  ASSUME IInv, DataStep, StackStep
  PROVE  Alternates'
<1>s. /\ stack' \in Seq(CodeFrames \union LoopFrames)
      /\ DOMAIN stack' = 1..Len(stack') /\ DOMAIN stack = 1..Len(stack)
  <2>1. stack' \in Seq(CodeFrames \union LoopFrames)
    BY DEF StackStep
  <2>2. DOMAIN stack' = 1..Len(stack')
    BY <2>1
  <2>. QED  BY <2>1, <2>2, Frames
<1>0. /\ Len(stack) \in Nat \ {0} /\ Len(stack') \in Nat
      /\ made \in Nat /\ made' \in {made, made + 1} /\ made <= MaxTasks /\ MaxTasks \in Nat
  BY <1>s, Frames, TaskBounds DEF DataStep, HandleStep, IInv, Base
<1>m. PICK m \in 1..Len(stack) :
        /\ Len(stack') \in {m, m + 1, m + 2}
        /\ \A c \in 1..m : stack'[c] = stack[c]
        /\ PollKept(m) /\ JoinKept(m)
        /\ Len(stack') # m => NewLoop(m)
        /\ Len(stack') = m + 2 => m + 1 = Len(stack) /\ NewCode(m + 2)
  BY DEF StackStep
<1>n. /\ m \in Nat \ {0} /\ m <= Len(stack)
      /\ Len(stack') = m \/ Len(stack') = m + 1 \/ Len(stack') = m + 2
  <2>1. Len(stack') \in {m, m + 1, m + 2}
    BY <1>m
  <2>2. m \in Nat \ {0} /\ m <= Len(stack)
    BY <1>0
  <2>. QED  BY <2>1, <2>2
<1>1. stack' # <<>> /\ stack'[1] = Code(Main)
  <2>1. 1 \in 1..m /\ Len(stack') # 0
    BY <1>n
  <2>2. stack'[1] = stack[1] /\ stack[1] = Code(Main)
    BY <1>m, <2>1 DEF IInv, Alternates
  <2>. QED  BY <2>1, <2>2
<1>2. wait'[Main] = Awake /\ \A b \in DOMAIN blocks'[Main] : ~blocks'[Main][b].split
  BY DEF DataStep, MainStep
<1>3. ASSUME NEW i \in 2..Len(stack')
      PROVE  /\ IsCode(i)' # IsCode(i - 1)'
             /\ IsCode(i)' => stack'[i].x \in 1..made'
             /\ ~IsCode(i)' => stack'[i].t <= made'
             /\ stack'[i].k \in {"await", "join_task"} => stack'[i].t # Main
  <2>1. CASE i <= m
    <3>1. i \in 2..Len(stack) /\ i \in 1..m /\ i - 1 \in 1..m
      BY <1>0, <2>1
    <3>2. stack'[i] = stack[i] /\ stack'[i - 1] = stack[i - 1]
      BY <1>m, <3>1
    <3>3. /\ IsCode(i) # IsCode(i - 1)
          /\ IsCode(i) => stack[i].x \in 1..made
          /\ ~IsCode(i) => stack[i].t <= made
          /\ stack[i].k \in {"await", "join_task"} => stack[i].t # Main
      BY <3>1 DEF IInv, Alternates
    <3>4. (IsCode(i)' <=> IsCode(i)) /\ (IsCode(i - 1)' <=> IsCode(i - 1))
      BY <3>2 DEF IsCode
    <3>5. IsCode(i)' => stack'[i].x \in 1..made'
      BY <1>0, <3>2, <3>3, <3>4
    <3>6. ~IsCode(i)' => stack'[i].t <= made'
      <4>1. ASSUME ~IsCode(i) PROVE stack[i].t \in Nat
        <5>1. i \in 1..Len(stack)
          BY <1>0, <2>1
        <5>2. stack[i] \in LoopFrames
          BY <4>1, <5>1, Frames
        <5>. QED  BY <5>2 DEF LoopFrames, Coroutines
      <4>. QED  BY <1>0, <3>2, <3>3, <3>4, <4>1
    <3>7. IsCode(i)' # IsCode(i - 1)'
      BY <3>3, <3>4 DEF IsCode
    <3>. QED  BY <3>2, <3>3, <3>5, <3>6, <3>7
  <2>2. CASE i = m + 1
    <3>1. i - 1 = m /\ Len(stack') # m /\ m \in 1..m
      BY <1>0, <1>n, <2>2
    <3>2. NewLoop(m) /\ stack'[m] = stack[m]
      BY <1>m, <3>1
    <3>3. /\ IsCode(m) /\ stack'[i] \in LoopFrames /\ stack'[i].t <= made'
          /\ stack'[i].k \in {"await", "join_task"} => stack'[i].t # Main
      BY <2>2, <3>2 DEF NewLoop
    <3>4. IsCode(i - 1)' /\ ~IsCode(i)'
      BY <3>1, <3>2, <3>3 DEF IsCode, LoopFrames
    <3>. QED  BY <3>3, <3>4
  <2>3. CASE i = m + 2
    <3>1. i - 1 = m + 1 /\ Len(stack') # m /\ Len(stack') = m + 2
      BY <1>0, <1>n, <2>3
    <3>2. NewLoop(m) /\ NewCode(m + 2)
      BY <1>m, <3>1
    <3>3. stack'[m + 1] \in LoopFrames
      BY <3>2 DEF NewLoop
    <3>4. PICK u \in 1..made : stack'[i] = Code(u)
      BY <2>3, <3>2 DEF NewCode
    <3>5. ~IsCode(i - 1)' /\ IsCode(i)' /\ stack'[i].x = u /\ stack'[i].k = "code"
      BY <3>1, <3>3, <3>4 DEF IsCode, LoopFrames, Code
    <3>6. u \in 1..made'
      BY <1>0
    <3>. QED  BY <3>5, <3>6
  <2>4. i <= m \/ i = m + 1 \/ i = m + 2
    BY <1>0, <1>n
  <2>. QED  BY <2>1, <2>2, <2>3, <2>4
<1>. QED  BY <1>1, <1>2, <1>3 DEF Alternates

--------------------------------------------------------------------------------
(* Bare bodies, polls and joins.                                            *)

\* A loop that drives a body drove it before, from the same frame, or was just
\* entered.
LEMMA LoopStep ==
  ASSUME IInv, DataStep, StackStep, NEW i \in 1..Len(stack'), stack'[i].k = "await"
  PROVE  /\ stack'[i].t \in Bodies
         /\ \/ i <= Len(stack) /\ stack[i].k = "await" /\ stack[i].t = stack'[i].t
                 /\ stack[i].t <= made
            \/ /\ i = Len(stack) + 1 /\ i = Len(stack')
               /\ handle'[stack'[i].t] = Nowhere => stack'[i].t > made
<1>s. /\ stack' \in Seq(CodeFrames \union LoopFrames)
      /\ DOMAIN stack' = 1..Len(stack') /\ DOMAIN stack = 1..Len(stack)
  <2>1. stack' \in Seq(CodeFrames \union LoopFrames)
    BY DEF StackStep
  <2>2. DOMAIN stack' = 1..Len(stack')
    BY <2>1
  <2>. QED  BY <2>1, <2>2, Frames
<1>0. /\ Len(stack) \in Nat \ {0} /\ Len(stack') \in Nat
      /\ made \in Nat /\ made' \in {made, made + 1} /\ made <= MaxTasks /\ MaxTasks \in Nat
  BY <1>s, Frames, TaskBounds DEF DataStep, HandleStep, IInv, Base
<1>m. PICK m \in 1..Len(stack) :
        /\ Len(stack') \in {m, m + 1, m + 2}
        /\ \A c \in 1..m : stack'[c] = stack[c]
        /\ PollKept(m) /\ JoinKept(m)
        /\ Len(stack') # m => NewLoop(m)
        /\ Len(stack') = m + 2 => m + 1 = Len(stack) /\ NewCode(m + 2)
  BY DEF StackStep
<1>n. /\ m \in Nat \ {0} /\ m <= Len(stack)
      /\ Len(stack') = m \/ Len(stack') = m + 1 \/ Len(stack') = m + 2
  <2>1. Len(stack') \in {m, m + 1, m + 2}
    BY <1>m
  <2>2. m \in Nat \ {0} /\ m <= Len(stack)
    BY <1>0
  <2>. QED  BY <2>1, <2>2
<1>1. CASE i <= m
  <2>1. i \in 1..m /\ i <= Len(stack) /\ i \in 1..Len(stack)
    BY <1>0, <1>n, <1>1
  <2>2. stack'[i] = stack[i]
    BY <1>m, <2>1
  <2>3. ~IsCode(i) /\ ~IsCode(i)'
    BY <2>2 DEF IsCode
  <2>4. stack[i] \in LoopFrames /\ stack[1] = Code(Main)
    BY <2>1, <2>3, Frames DEF IInv, Alternates
  <2>5. i # 1
    BY <2>2, <2>4 DEF Code
  <2>6. i \in 2..Len(stack)
    BY <2>1, <2>5
  <2>7. stack[i].t <= made /\ stack[i].t # Main
    BY <2>2, <2>3, <2>6 DEF IInv, Alternates
  <2>8. stack[i].t \in Bodies
    BY <2>4, <2>7 DEF LoopFrames, Coroutines, Bodies, Main
  <2>. QED  BY <2>1, <2>2, <2>7, <2>8
<1>2. CASE i = m + 1
  <2>1. Len(stack') # m
    BY <1>0, <1>n, <1>2
  <2>2. NewLoop(m)
    BY <1>m, <2>1
  <2>3. /\ stack'[i] \in LoopFrames /\ stack'[i].t # Main
        /\ \/ m < Len(stack) /\ ~IsCode(m + 1) /\ SameLoop(stack[m + 1], stack'[i])
           \/ m = Len(stack) /\ (handle'[stack'[i].t] = Nowhere => stack'[i].t > made)
    BY <1>2, <2>2 DEF NewLoop
  <2>4. stack'[i].t \in Bodies
    BY <2>3 DEF LoopFrames, Coroutines, Bodies, Main
  <2>5. CASE m < Len(stack) /\ ~IsCode(m + 1) /\ SameLoop(stack[m + 1], stack'[i])
    <3>1. i <= Len(stack) /\ i \in 2..Len(stack)
      BY <1>0, <1>n, <1>2, <2>5
    <3>2. stack[i].k = "await" /\ stack[i].t = stack'[i].t
      BY <1>2, <2>5 DEF SameLoop
    <3>3. stack[i].t <= made
      BY <1>2, <2>5, <3>1 DEF IInv, Alternates
    <3>. QED  BY <2>4, <3>1, <3>2, <3>3
  <2>6. CASE m = Len(stack) /\ (handle'[stack'[i].t] = Nowhere => stack'[i].t > made)
    <3>1. Len(stack') # m + 2
      <4>1. m + 1 # Len(stack)
        BY <1>0, <1>n, <2>6
      <4>. QED  BY <1>m, <4>1
    <3>2. i = Len(stack) + 1 /\ i = Len(stack')
      BY <1>0, <1>n, <1>2, <2>6, <3>1
    <3>. QED  BY <2>4, <2>6, <3>2
  <2>. QED  BY <2>3, <2>5, <2>6
<1>3. CASE i = m + 2
  <2>1. Len(stack') = m + 2
    BY <1>0, <1>n, <1>3
  <2>2. NewCode(m + 2)
    BY <1>m, <2>1
  <2>3. stack'[i].k = "code"
    BY <1>3, <2>2 DEF NewCode, Code
  <2>. QED  BY <2>3
<1>4. i <= m \/ i = m + 1 \/ i = m + 2
  BY <1>0, <1>n
<1>. QED  BY <1>1, <1>2, <1>3, <1>4

LEMMA BaresKept ==
  ASSUME IInv, DataStep, StackStep
  PROVE  Bares'
<1>0. /\ Len(stack) \in Nat \ {0} /\ made \in Nat
      /\ \A u \in Bodies : u <= made => handle'[u] = handle[u]
  BY Frames DEF DataStep, HandleStep, IInv, Base
<1>s. DOMAIN stack' = 1..Len(stack') /\ DOMAIN stack = 1..Len(stack)
  <2>1. stack' \in Seq(CodeFrames \union LoopFrames)
    BY DEF StackStep
  <2>2. DOMAIN stack' = 1..Len(stack')
    BY <2>1
  <2>. QED  BY <2>2, Frames
<1>1. ASSUME NEW i \in 1..Len(stack'), NEW j \in 1..Len(stack'),
             stack'[i].k = "await", stack'[j].k = "await", stack'[i].t = stack'[j].t,
             handle'[stack'[i].t] = Nowhere
      PROVE  i = j
  <2>. DEFINE u == stack'[i].t
              Old(a) == a <= Len(stack) /\ stack[a].k = "await" /\ stack[a].t = u /\ u <= made
              New(a) == a = Len(stack) + 1 /\ u > made
  <2>1. u \in Bodies /\ (Old(i) \/ New(i)) /\ (Old(j) \/ New(j))
    BY <1>1, LoopStep
  <2>2. CASE Old(i) /\ Old(j)
    <3>1. handle[u] = Nowhere
      BY <1>0, <1>1, <2>1, <2>2
    <3>2. i \in 1..Len(stack) /\ j \in 1..Len(stack)
      BY <1>0, <2>2
    <3>. QED  BY <1>s, <2>2, <3>1, <3>2 DEF IInv, Bares, Bare
  <2>3. u \in Int
    BY <2>1 DEF Bodies
  <2>4. ~(u <= made /\ u > made)
    BY <1>0, <2>3
  <2>. HIDE DEF u
  <2>. QED  BY <2>1, <2>2, <2>4
<1>. QED  BY <1>s, <1>1 DEF Bares, Bare

\* The poll below is still a poll: the body that runs is the one in the place,
\* and if the place was given away it was to a body that is not below.
LEMMA PollsKept ==
  ASSUME IInv, DataStep, StackStep
  PROVE  Polls'
<1>s. /\ stack' \in Seq(CodeFrames \union LoopFrames)
      /\ DOMAIN stack' = 1..Len(stack') /\ DOMAIN stack = 1..Len(stack)
  <2>1. stack' \in Seq(CodeFrames \union LoopFrames)
    BY DEF StackStep
  <2>2. DOMAIN stack' = 1..Len(stack')
    BY <2>1
  <2>. QED  BY <2>1, <2>2, Frames
<1>0. /\ Len(stack) \in Nat \ {0} /\ Len(stack') \in Nat
      /\ made \in Nat /\ made' \in {made, made + 1} /\ made <= MaxTasks /\ MaxTasks \in Nat
  BY <1>s, Frames, TaskBounds DEF DataStep, HandleStep, IInv, Base
<1>m. PICK m \in 1..Len(stack) :
        /\ Len(stack') \in {m, m + 1, m + 2}
        /\ \A c \in 1..m : stack'[c] = stack[c]
        /\ PollKept(m) /\ JoinKept(m)
        /\ Len(stack') # m => NewLoop(m)
        /\ Len(stack') = m + 2 => m + 1 = Len(stack) /\ NewCode(m + 2)
  BY DEF StackStep
<1>n. /\ m \in Nat \ {0} /\ m <= Len(stack)
      /\ Len(stack') = m \/ Len(stack') = m + 1 \/ Len(stack') = m + 2
  <2>1. Len(stack') \in {m, m + 1, m + 2}
    BY <1>m
  <2>2. m \in Nat \ {0} /\ m <= Len(stack)
    BY <1>0
  <2>. QED  BY <2>1, <2>2
<1>1. ASSUME NEW i \in 2..Len(stack'), IsCode(i)', i <= m
      PROVE  PollOf(i)'
  <2>1. i \in 2..Len(stack) /\ i \in 2..m /\ i \in 1..m /\ i - 1 \in 1..m /\ i \in 1..Len(stack)
    BY <1>0, <1>n, <1>1
  <2>2. stack'[i] = stack[i] /\ stack'[i - 1] = stack[i - 1]
    BY <1>m, <2>1
  <2>3. IsCode(i)
    BY <1>1, <2>2 DEF IsCode
  <2>4. PollOf(i) /\ stack[i].x \in 1..made
    BY <2>1, <2>3 DEF IInv, Polls, Alternates
  <2>. DEFINE f == stack[i - 1]
              u == stack[i].x
  <2>5. u \in Bodies /\ u <= made
    BY <1>0, <2>4 DEF Bodies
  <2>6. handle'[u] = handle[u]
    BY <2>5 DEF DataStep, HandleStep
  <2>7. CASE f.at = Nowhere /\ f.k = "await" /\ f.t = u /\ Bare(u)
    BY <2>2, <2>6, <2>7 DEF PollOf, Bare
  <2>8. CASE /\ f.at # Nowhere /\ ~Bare(u) /\ task[u].polling
             /\ At(f.at[1], f.at[2]) =>
                  LET v == scopes[f.at[1]][f.at[2]]
                  IN  v = u \/ \A j \in 1..(i - 1) : stack[j] # Code(v)
    <3>1. task'[u].polling
      BY <1>m, <2>1, <2>3, <2>8 DEF PollKept
    <3>2. ASSUME f.at[1] \in DOMAIN scopes', f.at[2] \in DOMAIN scopes'[f.at[1]]
          PROVE  \/ scopes'[f.at[1]][f.at[2]] = u
                 \/ \A j \in 1..(i - 1) : stack'[j] # Code(scopes'[f.at[1]][f.at[2]])
      <4>. DEFINE a == f.at[1]
                  b == f.at[2]
      <4>0. a \in DOMAIN scopes' /\ b \in DOMAIN scopes'[a]
        BY <3>2
      <4>1. CASE At(a, b) /\ scopes'[a][b] = scopes[a][b]
        <5>1. scopes[a][b] = u \/ \A j \in 1..(i - 1) : stack[j] # Code(scopes[a][b])
          BY <2>8, <4>1
        <5>2. \A j \in 1..(i - 1) : stack'[j] = stack[j]
          BY <1>m, <1>n, <1>1, <2>1
        <5>. QED  BY <4>1, <5>1, <5>2
      <4>2. CASE scopes'[a][b] = made + 1
        <5>1. ASSUME NEW j \in 1..(i - 1)
              PROVE  stack'[j] # Code(made + 1)
          <6>1. j \in 1..m /\ j \in 1..Len(stack)
            BY <1>0, <1>n, <1>1
          <6>2. stack'[j] = stack[j]
            BY <1>m, <6>1
          <6>3. CASE j = 1
            <7>1. stack[1].x = 0
              BY DEF IInv, Alternates, Code, Main
            <7>2. Code(made + 1).x = made + 1 /\ made + 1 # 0
              BY <1>0 DEF Code
            <7>. QED  BY <6>2, <6>3, <7>1, <7>2
          <6>4. CASE j # 1 /\ IsCode(j)
            <7>1. j \in 2..Len(stack)
              BY <6>1, <6>4
            <7>2. stack[j].x \in 1..made
              BY <6>4, <7>1 DEF IInv, Alternates
            <7>3. Code(made + 1).x = made + 1 /\ stack[j].x # made + 1
              BY <1>0, <7>2 DEF Code
            <7>. QED  BY <6>2, <7>3
          <6>5. CASE ~IsCode(j)
            BY <6>2, <6>5 DEF IsCode, Code
          <6>. QED  BY <6>3, <6>4, <6>5
        <5>. QED  BY <4>2, <5>1
      <4>3. (At(a, b) /\ scopes'[a][b] = scopes[a][b]) \/ scopes'[a][b] = made + 1
        BY <4>0 DEF DataStep, TableStep
      <4>. QED  BY <4>1, <4>2, <4>3
    <3>3. f.at # Nowhere /\ handle'[u] # Nowhere
      BY <2>6, <2>8 DEF Bare
    <3>. HIDE DEF f, u
    <3>4. stack'[i - 1] = f /\ stack'[i].x = u
      BY <2>2 DEF f, u
    <3>. QED  BY <3>1, <3>2, <3>3, <3>4 DEF PollOf, Bare, At
  <2>. QED  BY <2>4, <2>7, <2>8 DEF PollOf
<1>2. ASSUME NEW i \in 2..Len(stack'), IsCode(i)', i = m + 1
      PROVE  FALSE
  <2>1. Len(stack') # m
    BY <1>0, <1>n, <1>2
  <2>2. NewLoop(m)
    BY <1>m, <2>1
  <2>. QED  BY <1>2, <2>2 DEF NewLoop, IsCode, LoopFrames
<1>3. ASSUME NEW i \in 2..Len(stack'), IsCode(i)', i = m + 2
      PROVE  PollOf(i)'
  <2>1. Len(stack') = m + 2
    BY <1>0, <1>n, <1>3
  <2>2. NewCode(i)
    BY <1>m, <1>3, <2>1
  <2>. QED  BY <2>2 DEF NewCode
<1>4. ASSUME NEW i \in 2..Len(stack')
      PROVE  i <= m \/ i = m + 1 \/ i = m + 2
  BY <1>0, <1>n
<1>. QED  BY <1>1, <1>2, <1>3, <1>4 DEF Polls

LEMMA JoiningKept ==
  ASSUME IInv, DataStep, StackStep
  PROVE  Joining'
<1>s. /\ stack' \in Seq(CodeFrames \union LoopFrames)
      /\ DOMAIN stack' = 1..Len(stack') /\ DOMAIN stack = 1..Len(stack)
  <2>1. stack' \in Seq(CodeFrames \union LoopFrames)
    BY DEF StackStep
  <2>2. DOMAIN stack' = 1..Len(stack')
    BY <2>1
  <2>. QED  BY <2>1, <2>2, Frames
<1>0. /\ Len(stack) \in Nat \ {0} /\ Len(stack') \in Nat
      /\ made \in Nat /\ made' \in {made, made + 1} /\ made <= MaxTasks /\ MaxTasks \in Nat
  BY <1>s, Frames, TaskBounds DEF DataStep, HandleStep, IInv, Base
<1>m. PICK m \in 1..Len(stack) :
        /\ Len(stack') \in {m, m + 1, m + 2}
        /\ \A c \in 1..m : stack'[c] = stack[c]
        /\ PollKept(m) /\ JoinKept(m)
        /\ Len(stack') # m => NewLoop(m)
        /\ Len(stack') = m + 2 => m + 1 = Len(stack) /\ NewCode(m + 2)
  BY DEF StackStep
<1>n. /\ m \in Nat \ {0} /\ m <= Len(stack)
      /\ Len(stack') = m \/ Len(stack') = m + 1 \/ Len(stack') = m + 2
  <2>1. Len(stack') \in {m, m + 1, m + 2}
    BY <1>m
  <2>2. m \in Nat \ {0} /\ m <= Len(stack)
    BY <1>0
  <2>. QED  BY <2>1, <2>2
<1>1. ASSUME NEW i \in 2..Len(stack'), stack'[i].k = "join"
      PROVE  blocks'[stack'[i - 1].x] # <<>> /\ wait'[stack'[i - 1].x] = Awake
  <2>1. CASE i <= m
    <3>1. i \in 2..m /\ i \in 1..m /\ i - 1 \in 1..m
      BY <1>0, <1>n, <2>1
    <3>2. stack'[i] = stack[i] /\ stack'[i - 1] = stack[i - 1]
      BY <1>m, <3>1
    <3>. QED  BY <1>m, <1>1, <3>1, <3>2 DEF JoinKept, StillJoins
  <2>2. CASE i = m + 1
    <3>1. Len(stack') # m /\ i - 1 = m /\ m \in 1..m
      BY <1>0, <1>n, <2>2
    <3>2. NewLoop(m) /\ stack'[m] = stack[m]
      BY <1>m, <3>1
    <3>3. StillJoins(stack'[i], stack[m].x)
      BY <2>2, <3>2 DEF NewLoop
    <3>. QED  BY <1>1, <3>1, <3>2, <3>3 DEF StillJoins
  <2>3. CASE i = m + 2
    <3>1. Len(stack') = m + 2
      BY <1>0, <1>n, <2>3
    <3>2. NewCode(i)
      BY <1>m, <2>3, <3>1
    <3>3. stack'[i].k = "code"
      BY <3>2 DEF NewCode, Code
    <3>. QED  BY <1>1, <3>3
  <2>4. i <= m \/ i = m + 1 \/ i = m + 2
    BY <1>0, <1>n
  <2>. QED  BY <2>1, <2>2, <2>3, <2>4
<1>. QED  BY <1>1 DEF Joining, DataStep, MainStep

--------------------------------------------------------------------------------
(* The kinds of steps.                                                      *)

LEMMA StaysStep ==
  ASSUME IInv, stack' = stack, PollKept(Len(stack)), JoinKept(Len(stack))
  PROVE  StackStep
<1>0. Len(stack) \in Nat \ {0}
  BY Frames
<1>1. Len(stack) \in 1..Len(stack) /\ Len(stack) # Len(stack) + 2
  BY <1>0
<1>2. stack' \in Seq(CodeFrames \union LoopFrames)
  BY DEF IInv, Base
<1>. QED  BY <1>1, <1>2 DEF StackStep

LEMMA EntersStep ==
  ASSUME IInv, NEW f \in LoopFrames, stack' = Append(stack, f), IsCode(Len(stack)),
         f.t <= made', f.k \in {"await", "join_task"} => f.t # Main,
         StillJoins(f, stack[Len(stack)].x), f.k = "await" /\ handle'[f.t] = Nowhere => f.t > made,
         PollKept(Len(stack)), JoinKept(Len(stack))
  PROVE  StackStep
<1>0. stack \in Seq(CodeFrames \union LoopFrames) /\ f \in CodeFrames \union LoopFrames
  BY DEF IInv, Base
<1>1. /\ stack' \in Seq(CodeFrames \union LoopFrames) /\ Len(stack') = Len(stack) + 1
      /\ stack'[Len(stack) + 1] = f /\ \A i \in 1..Len(stack) : stack'[i] = stack[i]
  BY <1>0, OnTop
<1>. DEFINE m == Len(stack)
<1>a. Len(stack) \in Nat \ {0}
  BY Frames
<1>2. m \in 1..Len(stack) /\ m + 1 # m + 2
  BY <1>a
<1>3. NewLoop(m)
  BY <1>1 DEF NewLoop
<1>. QED  BY <1>1, <1>2, <1>3 DEF StackStep

LEMMA LeavesStep ==
  ASSUME IInv, NEW m \in 1..Len(stack), stack' = SubSeq(stack, 1, m), PollKept(m), JoinKept(m)
  PROVE  StackStep
<1>0. stack \in Seq(CodeFrames \union LoopFrames) /\ m \in 0..Len(stack) /\ m # m + 2
  BY DEF IInv, Base
<1>1. /\ stack' \in Seq(CodeFrames \union LoopFrames) /\ Len(stack') = m
      /\ \A i \in 1..m : stack'[i] = stack[i]
  BY <1>0, Cut, Zenon
<1>. QED  BY <1>0, <1>1 DEF StackStep

LEMMA TurnsStep ==
  ASSUME IInv, NEW m \in Nat, m + 1 \in 2..Len(stack), ~IsCode(m + 1),
         NEW g \in LoopFrames, SameLoop(stack[m + 1], g),
         stack' = Append(SubSeq(stack, 1, m), g), made' \in {made, made + 1},
         PollKept(m), JoinKept(m + 1)
  PROVE  StackStep
<1>0. /\ stack \in Seq(CodeFrames \union LoopFrames) /\ made \in Nat
      /\ g \in CodeFrames \union LoopFrames
  BY DEF IInv, Base
<1>a. /\ m \in 1..Len(stack) /\ m \in 0..Len(stack) /\ m < Len(stack) /\ m + 1 # m + 2
      /\ (m + 1) - 1 = m
  BY Frames
<1>1. /\ SubSeq(stack, 1, m) \in Seq(CodeFrames \union LoopFrames) /\ Len(SubSeq(stack, 1, m)) = m
      /\ \A i \in 1..m : SubSeq(stack, 1, m)[i] = stack[i]
  BY <1>0, <1>a, Cut, Zenon
<1>2. /\ stack' \in Seq(CodeFrames \union LoopFrames) /\ Len(stack') = m + 1
      /\ stack'[m + 1] = g /\ \A i \in 1..m : stack'[i] = SubSeq(stack, 1, m)[i]
  <2>. DEFINE q == SubSeq(stack, 1, m)
  <2>1. q \in Seq(CodeFrames \union LoopFrames) /\ Len(q) = m /\ stack' = Append(q, g)
    BY <1>1
  <2>. HIDE DEF q
  <2>2. /\ Append(q, g) \in Seq(CodeFrames \union LoopFrames) /\ Len(Append(q, g)) = Len(q) + 1
        /\ Append(q, g)[Len(q) + 1] = g
        /\ \A i \in 1..Len(q) : Append(q, g)[i] = q[i]
    BY <1>0, <2>1, OnTop
  <2>3. \A i \in 1..m : stack'[i] = q[i]
    BY <2>1, <2>2
  <2>. QED  BY <2>1, <2>2, <2>3 DEF q
<1>3. JoinKept(m)
  BY <1>a DEF JoinKept
<1>4. /\ IsCode(m + 1) # IsCode(m) /\ stack[m + 1].t <= made
      /\ stack[m + 1].k \in {"await", "join_task"} => stack[m + 1].t # Main
  BY <1>a DEF IInv, Alternates
<1>5. IsCode(m)
  BY <1>4 DEF IsCode
<1>6. g.t <= made'
  <2>1. g.t = stack[m + 1].t /\ g.t \in Nat
    BY DEF SameLoop, LoopFrames, Coroutines
  <2>. QED  BY <1>0, <1>4, <2>1
<1>7. StillJoins(g, stack[m].x)
  <2>1. StillJoins(stack[m + 1], stack[m].x)
    BY <1>a DEF JoinKept
  <2>. QED  BY <2>1 DEF StillJoins, SameLoop
<1>8. NewLoop(m)
  BY <1>a, <1>2, <1>4, <1>5, <1>6, <1>7 DEF NewLoop, SameLoop
<1>9. \A i \in 1..m : stack'[i] = stack[i]
  BY <1>1, <1>2
<1>. QED  BY <1>a, <1>2, <1>3, <1>8, <1>9 DEF StackStep

LEMMA PollStep ==
  ASSUME IInv, Looping, NEW g \in LoopFrames, SameLoop(Loop, g), NEW u \in 1..made,
         stack' \in Seq(CodeFrames \union LoopFrames), Len(stack') = Len(stack) + 1,
         \A i \in 1..(Len(stack) - 1) : stack'[i] = stack[i],
         stack'[Len(stack)] = g, stack'[Len(stack) + 1] = Code(u),
         made' = made, PollKept(Len(stack)), JoinKept(Len(stack)),
         \A i \in 1..Len(stack) : stack[i] # Code(u),
         \/ g.at = Nowhere /\ g.k = "await" /\ g.t = u /\ handle'[u] = Nowhere
         \/ /\ g.at # Nowhere /\ handle'[u] # Nowhere /\ task'[u].polling
            /\ scopes'[g.at[1]][g.at[2]] = u
  PROVE  StackStep
<1>a. PICK m \in Nat : m = Len(stack) - 1
  <2>1. Len(stack) \in Nat \ {0}
    BY Frames
  <2>2. Len(stack) - 1 \in Nat
    BY <2>1
  <2>. QED  BY <2>2
<1>1. /\ m \in 1..Len(stack) /\ m < Len(stack) /\ m + 1 = Len(stack) /\ m + 2 = Len(stack) + 1
      /\ Len(stack') = m + 2 /\ m # m + 2 /\ (m + 2) - 1 = Len(stack)
  <2>1. Len(stack) \in Nat \ {0}
    BY Frames
  <2>2. Len(stack) >= 2
    BY LoopOnTop
  <2>. QED  BY <1>a, <2>1, <2>2
<1>2. /\ Loop = stack[m + 1] /\ ~IsCode(m + 1) /\ IsCode(m) /\ Loop.t <= made
      /\ Loop.k \in {"await", "join_task"} => Loop.t # Main
  <2>1. Loop = stack[Len(stack)] /\ ~IsCode(Len(stack)) /\ IsCode(Len(stack) - 1)
    BY LoopOnTop
  <2>2. Loop.t <= made /\ (Loop.k \in {"await", "join_task"} => Loop.t # Main)
    BY LoopOnTop
  <2>. QED  BY <1>a, <1>1, <2>1, <2>2, Zenon
<1>3. m \in Nat /\ \A i \in 2..m : i \in 2..Len(stack)
  BY <1>1, Frames
<1>4. PollKept(m) /\ JoinKept(m)
  BY <1>3 DEF PollKept, JoinKept
<1>5. StillJoins(g, stack[m].x)
  <2>1. m + 1 \in 2..Len(stack) /\ (m + 1) - 1 = m
    BY <1>1, <1>3
  <2>2. StillJoins(stack[m + 1], stack[m].x)
    BY <2>1 DEF JoinKept
  <2>. QED  BY <1>2, <2>2 DEF StillJoins, SameLoop
<1>6. NewLoop(m)
  BY <1>1, <1>2, <1>5 DEF NewLoop, SameLoop
<1>7. PollOf(m + 2)'
  <2>1. stack'[(m + 2) - 1] = g /\ stack'[m + 2].x = u
    BY <1>1 DEF Code
  <2>2. CASE g.at = Nowhere /\ g.k = "await" /\ g.t = u /\ handle'[u] = Nowhere
    BY <2>1, <2>2 DEF PollOf, Bare
  <2>3. CASE /\ g.at # Nowhere /\ handle'[u] # Nowhere /\ task'[u].polling
             /\ scopes'[g.at[1]][g.at[2]] = u
    BY <2>1, <2>3 DEF PollOf, Bare
  <2>. QED  BY <2>2, <2>3
<1>8. NewCode(m + 2)
  BY <1>1, <1>7 DEF NewCode
<1>9. \A i \in 1..m : stack'[i] = stack[i]
  BY <1>a
<1>. QED  BY <1>1, <1>4, <1>6, <1>8, <1>9 DEF StackStep

\* A step that clears no flag unmarks no poll.
LEMMA PollGrows ==
  ASSUME IInv, \A t \in Bodies : task[t].polling => task'[t].polling
  PROVE  PollKept(Len(stack))
<1>1. ASSUME NEW i \in 2..Len(stack), IsCode(i)
      PROVE  stack[i].x \in Bodies
  <2>1. stack[i].x \in 1..made /\ made \in 0..MaxTasks /\ MaxTasks \in Nat
    BY <1>1, TaskBounds DEF IInv, Alternates, Base
  <2>. QED  BY <2>1 DEF Bodies
<1>. QED  BY <1>1 DEF PollKept

LEMMA CodeStill ==
  ASSUME IInv, blocks' = blocks, wait' = wait
  PROVE  JoinKept(Len(stack))
<1>. QED  BY DEF IInv, Joining, JoinKept, StillJoins

\* Code that runs is not the code any join below it belongs to.
LEMMA CodeAlone ==
  ASSUME IInv, NEW x \in Coroutines, NEW k \in 1..Len(stack), stack[k] = Code(x),
         \A y \in Coroutines \ {x} : blocks'[y] = blocks[y] /\ wait'[y] = wait[y]
  PROVE  JoinKept(k)
<1>0. Len(stack) \in Nat \ {0} /\ DOMAIN stack = 1..Len(stack)
  BY Frames
<1>1. ASSUME NEW i \in 2..k, stack[i].k = "join"
      PROVE  blocks'[stack[i - 1].x] # <<>> /\ wait'[stack[i - 1].x] = Awake
  <2>1. i \in 2..Len(stack) /\ i - 1 \in 1..Len(stack) /\ i - 1 # k
    BY <1>0
  <2>2. blocks[stack[i - 1].x] # <<>> /\ wait[stack[i - 1].x] = Awake
    BY <1>1, <2>1 DEF IInv, Joining
  <2>3. IsCode(i) # IsCode(i - 1) /\ ~IsCode(i)
    BY <1>1, <2>1 DEF IInv, Alternates, IsCode
  <2>4. IsCode(i - 1)
    BY <2>3 DEF IsCode
  <2>5. stack[i - 1] = Code(stack[i - 1].x) /\ stack[i - 1].x \in Coroutines
    BY <2>1, <2>4, Frames DEF CodeFrames
  <2>6. stack[i - 1].x # x
    <3>1. stack[i - 1].k = "code"
      BY <2>4 DEF IsCode
    <3>. QED  BY <1>0, <2>1, <2>5, <3>1 DEF IInv, NotReentered
  <2>. QED  BY <2>2, <2>5, <2>6
<1>. QED  BY <1>1 DEF JoinKept, StillJoins

--------------------------------------------------------------------------------
(* The return from a poll.                                                  *)

\* The loop under a body that returns, or suspends, goes on; the record that is
\* unmarked is of a body that is nowhere below.
LEMMA BackStep ==
  ASSUME IInv, NEW x \in Coroutines, x # Main, Running(x), NEW result \in Coroutines,
         Back(x, result), UNCHANGED <<scopes, handle, blocks, wait, made>>
  PROVE  StackStep /\ task' \in [Bodies -> Records]
<1>1. PICK n \in Nat : n = Len(stack)
  <2>1. Len(stack) \in Nat
    BY Frames
  <2>. QED  BY <2>1
<1>2. /\ stack[n] = Code(x) /\ n >= 3 /\ n - 2 \in 1..n /\ n - 1 \in 1..n /\ ~IsCode(n - 1)
      /\ stack[n - 1] \in LoopFrames /\ x \in 1..made /\ PollOf(n) /\ stack[n].x = x
  <2>1. /\ stack[Len(stack)] = Code(x) /\ Len(stack) >= 3 /\ Len(stack) - 2 \in 1..Len(stack)
        /\ stack[Len(stack)].x = x
    BY CodeOnTop
  <2>2. /\ Len(stack) - 1 \in 1..Len(stack) /\ ~IsCode(Len(stack) - 1)
        /\ stack[Len(stack) - 1] \in LoopFrames /\ x \in 1..made /\ PollOf(Len(stack))
    BY CodeOnTop
  <2>. QED  BY <1>1, <2>1, <2>2, Zenon
<1>3. Under = stack[n - 1]
  BY <1>1 DEF Under
<1>4. /\ task \in [Bodies -> Records] /\ scopes \in Seq(Seq(Bodies)) /\ made \in Nat
      /\ x \in Bodies
  <2>1. made \in 0..MaxTasks /\ MaxTasks \in Nat
    BY TaskBounds DEF IInv, Base
  <2>2. x \in Bodies
    BY <1>2, <2>1 DEF Bodies
  <2>. QED  BY <2>1, <2>2 DEF IInv, Base
<1>5. JoinKept(n)
  BY <1>1, CodeStill
<1>6. PICK m \in Nat : m = n - 2
  BY <1>2
<1>7. /\ m \in 1..n /\ m \in 1..Len(stack) /\ m + 1 = n - 1 /\ m + 1 \in 2..Len(stack)
      /\ Len(stack) - 2 = m /\ m < n
  BY <1>1, <1>2, <1>6
<1>8. JoinKept(m) /\ JoinKept(m + 1)
  <2>1. \A i \in 2..(m + 1) : i \in 2..n
    BY <1>2, <1>6
  <2>2. \A i \in 2..m : i \in 2..n
    BY <1>2, <1>6
  <2>. QED  BY <1>5, <2>1, <2>2 DEF JoinKept
<1>. DEFINE si == Under.at[1]
            ti == Under.at[2]
            v == scopes[si][ti]
<1>9. CASE Under.at = Nowhere
  <2>1. task' = [task EXCEPT ![x].result = result]
    BY <1>9 DEF Back
  <2>2. task' \in [Bodies -> Records]
    BY <1>4, <2>1 DEF Records
  <2>3. \A t \in Bodies : task'[t].polling = task[t].polling
    BY <1>4, <2>1 DEF Records
  <2>4. PollKept(m)
    <3>1. PollKept(Len(stack))
      BY <2>3, PollGrows
    <3>2. \A i \in 2..m : i \in 2..Len(stack)
      BY <1>1, <1>7
    <3>. QED  BY <3>1, <3>2 DEF PollKept
  <2>5. CASE result # 0
    <3>1. stack' = SubSeq(stack, 1, m)
      BY <1>7, <1>9, <2>5 DEF Back
    <3>2. StackStep
      BY <1>7, <1>8, <2>4, <3>1, LeavesStep
    <3>. QED  BY <2>2, <3>2
  <2>6. CASE result = 0
    <3>. DEFINE g == [Under EXCEPT !.at = <<1, 1>>, !.prog = FALSE]
    <3>1. stack' = Append(SubSeq(stack, 1, m), g)
      BY <1>7, <1>9, <2>6 DEF Back
    <3>2. g \in LoopFrames /\ SameLoop(stack[m + 1], g)
      BY <1>2, <1>3, <1>7 DEF LoopFrames, Places, SameLoop
    <3>3. ~IsCode(m + 1)
      BY <1>2, <1>7
    <3>. HIDE DEF g
    <3>4. StackStep
      BY <1>7, <1>8, <2>4, <3>1, <3>2, <3>3, TurnsStep
    <3>. QED  BY <2>2, <3>4
  <2>. QED  BY <2>5, <2>6
<1>10. CASE Under.at # Nowhere /\ At(si, ti)
  <2>1. task' = [task EXCEPT ![v].polling = FALSE,
                             ![v].result = IF result # 0 THEN result ELSE @]
    BY <1>10 DEF Back
  <2>2. v \in Bodies
    <3>1. si \in DOMAIN scopes /\ ti \in DOMAIN scopes[si]
      BY <1>10 DEF At
    <3>2. scopes[si] \in Seq(Bodies)
      BY <1>4, <3>1
    <3>. QED  BY <3>1, <3>2
  <2>. HIDE DEF v
  <2>3. task' \in [Bodies -> Records]
    BY <1>4, <2>1, <2>2 DEF Records
  <2>4. \A t \in Bodies : t # v => task'[t] = task[t]
    BY <1>4, <2>1, <2>2
  <2>5. v = x \/ \A j \in 1..(n - 1) : stack[j] # Code(v)
    BY <1>2, <1>3, <1>10 DEF PollOf, v, si, ti
  <2>6. ASSUME NEW i \in 2..m, IsCode(i)
        PROVE  stack[i].x # v /\ stack[i].x \in Bodies
    <3>1. i \in 2..Len(stack) /\ i \in 1..Len(stack) /\ i \in 1..(n - 1) /\ i # n /\ n \in 1..Len(stack)
      BY <1>1, <1>7
    <3>2. stack[i] = Code(stack[i].x) /\ stack[i].k = "code" /\ DOMAIN stack = 1..Len(stack)
      BY <2>6, <3>1, Frames DEF IsCode
    <3>3. stack[i].x # x
      BY <1>2, <3>1, <3>2 DEF IInv, NotReentered
    <3>4. stack[i].x # v
      BY <2>5, <3>1, <3>2, <3>3
    <3>5. stack[i].x \in 1..made /\ made \in 0..MaxTasks /\ MaxTasks \in Nat
      BY <2>6, <3>1, TaskBounds DEF IInv, Alternates, Base
    <3>6. stack[i].x \in Bodies
      BY <3>5 DEF Bodies
    <3>. QED  BY <3>4, <3>6
  <2>7. PollKept(m)
    BY <2>4, <2>6 DEF PollKept
  <2>. DEFINE g == [Under EXCEPT !.at = Next_place(@), !.prog = @ \/ result # 0]
  <2>8. stack' = Append(SubSeq(stack, 1, m), g)
    BY <1>7, <1>10 DEF Back
  <2>9. g \in LoopFrames /\ SameLoop(stack[m + 1], g)
    <3>1. Under \in LoopFrames /\ Under = stack[m + 1]
      BY <1>2, <1>3, <1>7
    <3>2. Under.at \in Places /\ Under.prog \in BOOLEAN
      BY <3>1 DEF LoopFrames
    <3>3. Next_place(Under.at) \in Places
      BY <3>2 DEF Next_place, Places
    <3>4. (Under.prog \/ result # 0) \in BOOLEAN
      BY <3>2
    <3>5. g.at = Next_place(Under.at) /\ g.prog = (Under.prog \/ result # 0)
      BY <3>1 DEF LoopFrames
    <3>6. g.k = Under.k /\ g.t = Under.t
      BY <3>1 DEF LoopFrames
    <3>7. g \in LoopFrames
      <4>1. ASSUME NEW p \in Places, NEW b \in BOOLEAN
            PROVE  [Under EXCEPT !.at = p, !.prog = b] \in LoopFrames
        BY <3>1 DEF LoopFrames
      <4>2. g = [Under EXCEPT !.at = Next_place(Under.at), !.prog = (Under.prog \/ result # 0)]
        BY Zenon
      <4>. QED  BY <3>3, <3>4, <4>1, <4>2, Zenon
    <3>. QED  BY <3>1, <3>6, <3>7 DEF SameLoop
  <2>10. ~IsCode(m + 1)
    BY <1>2, <1>7
  <2>. HIDE DEF g
  <2>11. StackStep
    BY <1>7, <1>8, <2>7, <2>8, <2>9, <2>10, TurnsStep
  <2>. QED  BY <2>3, <2>11
<1>11. CASE Under.at # Nowhere /\ ~At(si, ti)
  <2>1. task' = task /\ stack' = stack
    BY <1>11 DEF Back
  <2>2. PollKept(Len(stack)) /\ JoinKept(Len(stack))
    BY <1>1, <1>5, <2>1, PollGrows
  <2>3. StackStep
    BY <2>1, <2>2, StaysStep
  <2>. QED  BY <1>4, <2>1, <2>3
<1>. QED  BY <1>9, <1>10, <1>11

--------------------------------------------------------------------------------
(* What bodies do.                                                          *)

LEMMA AgedFacts ==
  ASSUME Base, NEW x \in Coroutines
  PROVE  /\ Aged(x) \in [Coroutines -> Seq(BlockRecords)]
         /\ \A y \in Coroutines \ {x} : Aged(x)[y] = blocks[y]
         /\ Len(Aged(x)[x]) = Len(blocks[x])
         /\ \A y \in Coroutines : DOMAIN Aged(x)[y] = DOMAIN blocks[y]
         /\ \A y \in Coroutines : Aged(x)[y] = <<>> <=> blocks[y] = <<>>
         /\ \A i \in DOMAIN blocks[x] : Aged(x)[x][i].split = blocks[x][i].split
<1>. DEFINE b == blocks[x]
            a == [i \in DOMAIN b |-> [b[i] EXCEPT !.fresh = FALSE]]
<1>1. blocks \in [Coroutines -> Seq(BlockRecords)] /\ b \in Seq(BlockRecords)
  BY DEF Base
<1>2. Aged(x) = [blocks EXCEPT ![x] = a]
  BY DEF Aged
<1>3. ASSUME NEW i \in DOMAIN b
      PROVE  [b[i] EXCEPT !.fresh = FALSE] \in BlockRecords
  <2>1. b[i] \in BlockRecords
    BY <1>1
  <2>. QED  BY <2>1 DEF BlockRecords
<1>4. \A i \in DOMAIN b : [b[i] EXCEPT !.fresh = FALSE].split = b[i].split
  BY <1>1 DEF BlockRecords
<1>. HIDE DEF b
<1>5. a \in [1..Len(b) -> BlockRecords] /\ Len(b) \in Nat /\ DOMAIN b = 1..Len(b)
  BY <1>1, <1>3
<1>6. a \in Seq(BlockRecords) /\ Len(a) = Len(b) /\ DOMAIN a = DOMAIN b
  BY <1>5
<1>7. a = <<>> <=> b = <<>>
  BY <1>1, <1>6
<1>8. \A i \in DOMAIN b : a[i].split = b[i].split
  BY <1>4
<1>. HIDE DEF a
<1>9. /\ Aged(x) \in [Coroutines -> Seq(BlockRecords)] /\ Aged(x)[x] = a
      /\ \A y \in Coroutines \ {x} : Aged(x)[y] = blocks[y]
  BY <1>1, <1>2, <1>6
<1>10. ASSUME NEW y \in Coroutines
       PROVE  DOMAIN Aged(x)[y] = DOMAIN blocks[y] /\ (Aged(x)[y] = <<>> <=> blocks[y] = <<>>)
  <2>1. CASE y = x
    BY <1>6, <1>7, <1>9, <2>1 DEF b
  <2>2. CASE y # x
    BY <1>9, <2>2
  <2>. QED  BY <2>1, <2>2
<1>. QED  BY <1>6, <1>8, <1>9, <1>10 DEF b

\* `innermost_open` finds a slot whenever code inside a block asks for one.
LEMMA OpenWhenInside ==
  ASSUME IInv, NEW x \in Coroutines, Inside(x)
  PROVE  OpenSlots # {} /\ innermost_open \in OpenSlots /\ innermost_open \in 1..Len(scopes)
<1>1. blocks[x] \in Seq(BlockRecords) /\ blocks[x] # <<>>
  BY DEF IInv, Base, Inside
<1>2. 1 \in DOMAIN blocks[x]
  BY <1>1
<1>3. <<x, 1>> \in Blocks
  BY <1>2 DEF Blocks
<1>4. IsFiniteSet(Blocks) /\ Cardinality(Blocks) \in Nat /\ Cardinality(Blocks) # 0
  <2>1. IsFiniteSet(Blocks)
    BY DEF IInv, Enough
  <2>2. Blocks # {}
    BY <1>3
  <2>. QED  BY <2>1, <2>2, FS_CardinalityType, FS_EmptySet
<1>5. IsFiniteSet(OpenSlots) /\ Cardinality(OpenSlots) \in Nat
  BY SlotsFinite DEF IInv
<1>6. Cardinality(OpenSlots) # 0
  <2>1. Cardinality(Blocks) <= Cardinality(OpenSlots)
    BY DEF IInv, Enough
  <2>. QED  BY <1>4, <1>5, <2>1
<1>7. OpenSlots # {}
  BY <1>6, FS_EmptySet
<1>. QED  BY <1>7, Innermost DEF IInv

LEMMA StaysBody ==
  ASSUME IInv, NEW x \in Coroutines, Running(x), stack' = stack,
         \A t \in Bodies : task[t].polling => task'[t].polling,
         \A y \in Coroutines \ {x} : blocks'[y] = blocks[y] /\ wait'[y] = wait[y]
  PROVE  StackStep
<1>1. stack[Len(stack)] = Code(x)
  BY CodeOnTop
<1>a. Len(stack) \in Nat \ {0}
  BY Frames
<1>b. Len(stack) \in 1..Len(stack)
  BY <1>a
<1>2. JoinKept(Len(stack))
  BY <1>b, <1>1, CodeAlone
<1>3. PollKept(Len(stack))
  BY PollGrows
<1>. QED  BY <1>2, <1>3, StaysStep

LEMMA EntersBody ==
  ASSUME IInv, NEW x \in Coroutines, Running(x), NEW f \in LoopFrames,
         stack' = Append(stack, f), task' = task,
         \A y \in Coroutines \ {x} : blocks'[y] = blocks[y] /\ wait'[y] = wait[y],
         f.t <= made', f.k \in {"await", "join_task"} => f.t # Main,
         f.k = "join" => blocks'[x] # <<>> /\ wait'[x] = Awake,
         f.k = "await" /\ handle'[f.t] = Nowhere => f.t > made
  PROVE  StackStep
<1>1. stack[Len(stack)] = Code(x) /\ IsCode(Len(stack)) /\ stack[Len(stack)].x = x
  BY CodeOnTop
<1>a. Len(stack) \in Nat \ {0}
  BY Frames
<1>b. Len(stack) \in 1..Len(stack)
  BY <1>a
<1>2. JoinKept(Len(stack))
  BY <1>b, <1>1, CodeAlone
<1>3. PollKept(Len(stack))
  BY PollGrows
<1>4. StillJoins(f, stack[Len(stack)].x)
  BY <1>1 DEF StillJoins
<1>. QED  BY <1>1, <1>2, <1>3, <1>4, EntersStep

\* A loop on top that goes on, or is left for the code under it.
LEMMA TurnsLoop ==
  ASSUME IInv, Looping, NEW g \in LoopFrames, SameLoop(Loop, g), SetLoop(g),
         task' = task, blocks' = blocks, wait' = wait, made' = made
  PROVE  StackStep
<1>1. PICK m \in Nat : m = Len(stack) - 1 /\ m + 1 = Len(stack) /\ m + 1 \in 2..Len(stack)
  <2>1. Len(stack) \in Nat /\ Len(stack) >= 2
    BY Frames, LoopOnTop
  <2>2. /\ Len(stack) - 1 \in Nat /\ (Len(stack) - 1) + 1 = Len(stack)
        /\ (Len(stack) - 1) + 1 \in 2..Len(stack)
    BY <2>1
  <2>. QED  BY <2>2
<1>2. ~IsCode(m + 1) /\ SameLoop(stack[m + 1], g)
  BY <1>1, LoopOnTop
<1>3. stack' = Append(SubSeq(stack, 1, m), g)
  BY <1>1 DEF SetLoop, Front
<1>4. JoinKept(m + 1) /\ PollKept(m + 1)
  BY <1>1, CodeStill, PollGrows
<1>5. PollKept(m)
  <2>1. \A i \in 2..m : i \in 2..(m + 1)
    OBVIOUS
  <2>. QED  BY <1>4, <2>1 DEF PollKept
<1>6. made' \in {made, made + 1}
  OBVIOUS
<1>. QED  BY <1>1, <1>2, <1>3, <1>4, <1>5, <1>6, TurnsStep

LEMMA LeavesLoop ==
  ASSUME IInv, Looping, Pop, task' = task,
         \A y \in Coroutines \ {Driver} : blocks'[y] = blocks[y] /\ wait'[y] = wait[y]
  PROVE  StackStep
<1>1. PICK m \in Nat : m = Len(stack) - 1 /\ m \in 1..Len(stack)
  <2>1. Len(stack) \in Nat /\ Len(stack) >= 2
    BY Frames, LoopOnTop
  <2>2. Len(stack) - 1 \in Nat /\ Len(stack) - 1 \in 1..Len(stack)
    BY <2>1
  <2>. QED  BY <2>2
<1>2. IsCode(m) /\ stack[m].x = Driver /\ Driver \in Coroutines
  BY <1>1, LoopOnTop
<1>3. stack[m] = Code(Driver)
  BY <1>1, <1>2, Frames
<1>. DEFINE d == Driver
<1>4. JoinKept(m)
  <2>1. d \in Coroutines /\ stack[m] = Code(d)
    BY <1>2, <1>3
  <2>2. \A y \in Coroutines \ {d} : blocks'[y] = blocks[y] /\ wait'[y] = wait[y]
    OBVIOUS
  <2>. HIDE DEF d
  <2>. QED  BY <1>1, <2>1, <2>2, CodeAlone
<1>5. PollKept(m)
  <2>1. PollKept(Len(stack))
    BY PollGrows
  <2>2. Len(stack) \in Nat
    BY Frames
  <2>3. \A i \in 2..m : i \in 2..Len(stack)
    BY <1>1, <2>2
  <2>. QED  BY <2>1, <2>3 DEF PollKept
<1>6. stack' = SubSeq(stack, 1, m)
  BY <1>1 DEF Pop, Front
<1>. QED  BY <1>1, <1>4, <1>5, <1>6, LeavesStep

LEMMA StaysLoop ==
  ASSUME IInv, stack' = stack, task' = task, blocks' = blocks, wait' = wait
  PROVE  StackStep
<1>. QED  BY PollGrows, CodeStill, StaysStep

--------------------------------------------------------------------------------
(* The stack, action by action.                                             *)

\* A drive polls the bare body it was given: no frame below runs it, since no
\* other loop drives it.
LEMMA BarePolled ==
  ASSUME IInv, DriveBare
  PROVE  StackStep
<1>1. /\ Looping /\ Loop.at = Nowhere /\ Loop.k = "await" /\ Bare(Loop.t)
      /\ stack' = Append(stack, Code(Loop.t))
      /\ UNCHANGED <<task, handle, scopes, blocks, wait, made>>
  BY DEF DriveBare, AtTop, sched, code, used
<1>2. PICK n \in Nat : n = Len(stack) /\ n >= 2
  <2>1. Len(stack) \in Nat /\ Len(stack) >= 2
    BY <1>1, Frames, LoopOnTop
  <2>. QED  BY <2>1
<1>3. Loop = stack[n] /\ Loop \in LoopFrames /\ Loop.t <= made /\ Loop.t # Main
  BY <1>1, <1>2, LoopOnTop
<1>4. PICK u \in 1..made : u = Loop.t /\ u \in Coroutines
  <2>1. Loop.t \in Coroutines /\ made \in Nat
    BY <1>3 DEF LoopFrames, IInv, Base
  <2>2. Loop.t \in 1..made
    BY <1>3, <2>1 DEF Coroutines, Main
  <2>. QED  BY <2>1, <2>2
<1>5. stack \in Seq(CodeFrames \union LoopFrames) /\ Code(u) \in CodeFrames \union LoopFrames
  BY <1>4 DEF IInv, Base, Code, CodeFrames
<1>6. /\ stack' \in Seq(CodeFrames \union LoopFrames) /\ Len(stack') = Len(stack) + 1
      /\ stack'[Len(stack) + 1] = Code(u)
      /\ \A i \in 1..Len(stack) : stack'[i] = stack[i]
  BY <1>1, <1>4, <1>5, OnTop
<1>7. ASSUME NEW i \in 1..Len(stack), stack[i] = Code(u)
      PROVE  FALSE
  <2>1. IsCode(i) /\ stack[i].x = u
    BY <1>7 DEF IsCode, Code
  <2>2. i # 1
    <3>1. stack[1].x = 0
      BY DEF IInv, Alternates, Code, Main
    <3>2. u # 0
      BY <1>4 DEF IInv, Base
    <3>. QED  BY <2>1, <3>1, <3>2
  <2>3. i \in 2..Len(stack) /\ i - 1 \in 1..Len(stack) /\ n \in 1..Len(stack) /\ i - 1 # n
    BY <1>2, <2>2
  <2>4. PollOf(i)
    BY <2>1, <2>3 DEF IInv, Polls
  <2>5. stack[i - 1].k = "await" /\ stack[i - 1].t = u
    BY <1>1, <1>4, <2>1, <2>4 DEF PollOf, Bare
  <2>6. DOMAIN stack = 1..Len(stack)
    BY Frames
  <2>. QED  BY <1>1, <1>3, <1>4, <2>3, <2>5, <2>6 DEF IInv, Bares
<1>8. PollKept(Len(stack)) /\ JoinKept(Len(stack))
  BY <1>1, PollGrows, CodeStill
<1>9. \A i \in 1..(Len(stack) - 1) : stack'[i] = stack[i]
  BY <1>2, <1>6
<1>10. stack'[Len(stack)] = Loop
  <2>1. n \in 1..Len(stack)
    BY <1>2
  <2>. QED  BY <1>2, <1>3, <1>6, <2>1
<1>11. SameLoop(Loop, Loop) /\ handle'[u] = Nowhere /\ Loop.t = u
  BY <1>1, <1>4 DEF SameLoop, Bare
<1>. DEFINE g == Loop
<1>12. /\ g \in LoopFrames /\ SameLoop(Loop, g) /\ stack'[Len(stack)] = g
       /\ g.at = Nowhere /\ g.k = "await" /\ g.t = u
  BY <1>1, <1>3, <1>10, <1>11
<1>. HIDE DEF g
<1>. QED  BY <1>1, <1>6, <1>7, <1>8, <1>9, <1>11, <1>12, PollStep

\* A round polls a task that is not marked: no frame below runs it.
LEMMA TaskPolled ==
  ASSUME IInv, RoundPoll
  PROVE  StackStep
<1>1. /\ Looping /\ Loop.at # Nowhere /\ Due(Loop.at) # {}
      /\ UNCHANGED <<handle, scopes, blocks, wait, made>>
  BY DEF RoundPoll, code, used
<1>2. PICK n \in Nat : n = Len(stack) /\ n >= 2
  <2>1. Len(stack) \in Nat /\ Len(stack) >= 2
    BY <1>1, Frames, LoopOnTop
  <2>. QED  BY <2>1
<1>3. Loop = stack[n] /\ Loop \in LoopFrames
  BY <1>1, <1>2, LoopOnTop
<1>4. PICK p : /\ p = First(Due(Loop.at)) /\ p \in Places /\ p # Nowhere /\ At(p[1], p[2])
               /\ Pollable(scopes[p[1]][p[2]]) /\ scopes[p[1]][p[2]] \in Bodies
  BY <1>1, FirstDue
<1>5. PICK u \in Bodies : u = scopes[p[1]][p[2]]
  BY <1>4
<1>6. /\ task' = [task EXCEPT ![u].polling = TRUE]
      /\ stack' = Append(Append(Front(stack), [Loop EXCEPT !.at = p]), Code(u))
  BY <1>4, <1>5 DEF RoundPoll
<1>7. u \in 1..made /\ ~Bare(u) /\ ~task[u].polling /\ u \in Coroutines
  <2>1. u <= made /\ ~Bare(u)
    BY <1>4, <1>5 DEF IInv, Started, At
  <2>2. ~task[u].polling
    BY <1>4, <1>5 DEF Pollable
  <2>3. made \in Nat /\ u \in Nat \ {0} /\ u \in 0..MaxTasks
    BY TaskBounds DEF IInv, Base, Bodies
  <2>. QED  BY <2>1, <2>2, <2>3 DEF Coroutines
<1>8. task \in [Bodies -> Records]
  BY DEF IInv, Base
<1>9. task'[u].polling /\ \A t \in Bodies : task[t].polling => task'[t].polling
  BY <1>6, <1>8 DEF Records
<1>. DEFINE g == [Loop EXCEPT !.at = p]
<1>10. g \in LoopFrames /\ SameLoop(Loop, g) /\ g.at = p
  BY <1>3, <1>4 DEF LoopFrames, SameLoop
<1>. HIDE DEF g
<1>11. /\ stack' \in Seq(CodeFrames \union LoopFrames) /\ Len(stack') = Len(stack) + 1
       /\ stack'[Len(stack)] = g /\ stack'[Len(stack) + 1] = Code(u)
       /\ \A i \in 1..(Len(stack) - 1) : stack'[i] = stack[i]
  <2>. DEFINE F == CodeFrames \union LoopFrames
              a == SubSeq(stack, 1, n - 1)
              b == Append(a, g)
  <2>1. stack \in Seq(F) /\ g \in F /\ Code(u) \in F
    BY <1>7, <1>10 DEF IInv, Base, Code, CodeFrames
  <2>2. stack' = Append(b, Code(u))
    BY <1>2, <1>6 DEF Front, g
  <2>3. n - 1 \in 0..Len(stack)
    BY <1>2
  <2>4. a \in Seq(F) /\ Len(a) = n - 1 /\ \A i \in 1..(n - 1) : a[i] = stack[i]
    <3>. HIDE DEF F
    <3>. QED  BY <2>1, <2>3, Cut
  <2>. HIDE DEF F, a
  <2>5. b \in Seq(F) /\ Len(b) = Len(a) + 1 /\ b[Len(a) + 1] = g /\ \A i \in 1..Len(a) : b[i] = a[i]
    BY <2>1, <2>4, OnTop
  <2>. HIDE DEF b
  <2>6. /\ stack' \in Seq(F) /\ Len(stack') = Len(b) + 1 /\ stack'[Len(b) + 1] = Code(u)
        /\ \A i \in 1..Len(b) : stack'[i] = b[i]
    BY <2>1, <2>2, <2>5, OnTop
  <2>7. Len(a) + 1 = n /\ Len(b) = n
    BY <1>2, <2>4, <2>5
  <2>8. \A i \in 1..(n - 1) : i \in 1..Len(b) /\ i \in 1..Len(a)
    BY <1>2, <2>4, <2>7
  <2>9. \A i \in 1..(n - 1) : stack'[i] = stack[i]
    BY <2>4, <2>5, <2>6, <2>8
  <2>10. n \in 1..n
    BY <1>2
  <2>11. stack'[n] = g
    BY <2>5, <2>6, <2>7, <2>10
  <2>. QED  BY <1>2, <2>6, <2>7, <2>9, <2>11 DEF F
<1>12. ASSUME NEW i \in 1..Len(stack), stack[i] = Code(u)
       PROVE  FALSE
  <2>1. IsCode(i) /\ stack[i].x = u
    BY <1>12 DEF IsCode, Code
  <2>2. i # 1
    <3>1. stack[1].x = 0
      BY DEF IInv, Alternates, Code, Main
    <3>2. u # 0
      BY <1>7 DEF IInv, Base
    <3>. QED  BY <2>1, <3>1, <3>2
  <2>3. i \in 2..Len(stack)
    BY <1>2, <2>2
  <2>4. PollOf(i)
    BY <2>1, <2>3 DEF IInv, Polls
  <2>. QED  BY <1>7, <2>1, <2>4 DEF PollOf
<1>13. PollKept(Len(stack)) /\ JoinKept(Len(stack))
  BY <1>1, <1>9, PollGrows, CodeStill
<1>14. /\ g.at # Nowhere /\ handle'[u] # Nowhere /\ task'[u].polling
       /\ scopes'[g.at[1]][g.at[2]] = u
  BY <1>1, <1>4, <1>5, <1>7, <1>9, <1>10 DEF Bare
<1>. QED  BY <1>1, <1>7, <1>10, <1>11, <1>12, <1>13, <1>14, PollStep

LEMMA StackSteps ==
  ASSUME IInv, Next
  PROVE  StackStep
<1>1. ASSUME NEW x \in Coroutines, NEW split \in BOOLEAN, Open(x, split)
      PROVE  StackStep
  <2>1. Running(x) /\ stack' = stack /\ task' = task
    BY <1>1 DEF Open, InCode
  <2>2. blocks \in [Coroutines -> Seq(BlockRecords)]
    BY DEF IInv, Base
  <2>3. \A y \in Coroutines \ {x} : blocks'[y] = blocks[y] /\ wait'[y] = wait[y]
    BY <1>1, <2>2 DEF Open
  <2>. QED  BY <2>1, <2>3, StaysBody
<1>2. ASSUME NEW x \in Coroutines, Spawn(x)
      PROVE  StackStep
  <2>1. Running(x) /\ UNCHANGED <<stack, task, blocks, wait>>
    BY <1>2 DEF Spawn, InCode, code, sched, vars
  <2>. QED  BY <2>1, StaysLoop
<1>3. ASSUME NEW x \in Coroutines, Nap(x)
      PROVE  StackStep
  <2>1. Running(x) /\ task' = task /\ blocks' = Aged(x)
    BY <1>3 DEF Nap, InCode, sched
  <2>2. \A y \in Coroutines \ {x} : blocks'[y] = blocks[y]
    BY <2>1, AgedFacts DEF IInv
  <2>3. CASE Sync(x)
    <3>1. stack' = Append(stack, Drive(Main, "sleep")) /\ wait' = wait
      BY <1>3, <2>3 DEF Nap, Push
    <3>. DEFINE f == Drive(Main, "sleep")
    <3>2. f \in LoopFrames /\ f.t = 0 /\ f.k = "sleep" /\ made' \in Nat
      BY <1>3, TaskBounds DEF Drive, LoopFrames, Coroutines, Main, Nowhere, Places, IInv,
           Base, Nap
    <3>. HIDE DEF f
    <3>3. f.t <= made'
      BY <3>2
    <3>. QED  BY <2>1, <2>2, <3>1, <3>2, <3>3, EntersBody DEF f
  <2>4. CASE ~Sync(x)
    <3>1. stack' = stack /\ wait' = [wait EXCEPT ![x] = AtTimer]
      BY <1>3, <2>4 DEF Nap
    <3>2. \A y \in Coroutines \ {x} : wait'[y] = wait[y]
      BY <3>1 DEF IInv, Base
    <3>. QED  BY <2>1, <2>2, <3>1, <3>2, StaysBody
  <2>. QED  BY <2>3, <2>4
<1>4. ASSUME NEW x \in Coroutines, AwaitBare(x)
      PROVE  StackStep
  <2>1. Running(x) /\ task' = task /\ blocks' = Aged(x)
    BY <1>4 DEF AwaitBare, InCode, sched
  <2>2. \A y \in Coroutines \ {x} : blocks'[y] = blocks[y]
    BY <2>1, AgedFacts DEF IInv
  <2>3. stack' = Append(stack, Drive(made + 1, "await")) /\ wait' = wait /\ made' = made + 1
    BY <1>4 DEF AwaitBare, Push
  <2>4. made \in Nat /\ made + 1 \in 1..MaxTasks
    BY <1>4, TaskBounds DEF AwaitBare, IInv, Base
  <2>. DEFINE f == Drive(made + 1, "await")
  <2>5. f \in LoopFrames /\ f.t = made + 1 /\ f.k = "await"
    BY <2>4 DEF Drive, LoopFrames, Coroutines, Nowhere, Places
  <2>. HIDE DEF f
  <2>6. f.t <= made' /\ f.t # Main /\ f.t > made
    BY <2>3, <2>4, <2>5 DEF Main
  <2>. QED  BY <2>1, <2>2, <2>3, <2>5, <2>6, EntersBody DEF f
<1>5. ASSUME NEW x \in Coroutines, EndBlock(x)
      PROVE  StackStep
  <2>1. Running(x) /\ task' = task /\ blocks' = Aged(x)
    BY <1>5 DEF EndBlock, InCode, sched
  <2>2. \A y \in Coroutines \ {x} : blocks'[y] = blocks[y]
    BY <2>1, AgedFacts DEF IInv
  <2>3. Inside(x) /\ wait[x] = Awake
    BY <1>5 DEF EndBlock, InCode
  <2>4. CASE ~Block(x).split
    <3>1. stack' = Append(stack, Join(innermost_open)) /\ wait' = wait /\ made' = made
      BY <1>5, <2>4 DEF EndBlock, Push, used
    <3>2. innermost_open \in Nat
      BY <2>3, OpenWhenInside
    <3>. DEFINE f == Join(innermost_open)
    <3>3. f \in LoopFrames /\ f.t = 0 /\ f.k = "join"
      BY <3>2, TaskBounds DEF Join, LoopFrames, Coroutines, Main, Nowhere, Places
    <3>. HIDE DEF f
    <3>4. f.t <= made'
      BY <3>1, <3>3 DEF IInv, Base
    <3>5. blocks'[x] # <<>>
      BY <2>1, <2>3, AgedFacts DEF IInv, Inside
    <3>. QED  BY <2>1, <2>2, <2>3, <3>1, <3>3, <3>4, <3>5, EntersBody DEF f
  <2>5. CASE Block(x).split
    <3>1. stack' = stack /\ wait' = [wait EXCEPT ![x] = AtJoin]
      BY <1>5, <2>5 DEF EndBlock
    <3>2. \A y \in Coroutines \ {x} : wait'[y] = wait[y]
      BY <3>1 DEF IInv, Base
    <3>. QED  BY <2>1, <2>2, <3>1, <3>2, StaysBody
  <2>. QED  BY <2>4, <2>5
<1>6. ASSUME NEW x \in Coroutines, Return(x)
      PROVE  StackStep
  <2>1. Running(x) /\ UNCHANGED <<scopes, handle, blocks, wait, made>>
    BY <1>6 DEF Return, InCode, code, used
  <2>2. CASE x = Main
    BY <1>6, <2>1, <2>2, StaysLoop DEF Return
  <2>3. CASE x # Main
    BY <1>6, <2>1, <2>3, BackStep DEF Return
  <2>. QED  BY <2>2, <2>3
<1>7. ASSUME NEW x \in Coroutines, NEW t \in Named(x), cancel_task(x, t)
      PROVE  StackStep
  <2>1. Running(x) /\ UNCHANGED <<stack, blocks, wait>>
    BY <1>7 DEF cancel_task, InCode, code
  <2>2. task \in [Bodies -> Records]
    BY DEF IInv, Base
  <2>3. PICK v : task' = [task EXCEPT ![v].cancelled = TRUE]
    BY <1>7 DEF cancel_task
  <2>4. \A u \in Bodies : task'[u].polling = task[u].polling
    BY <2>2, <2>3 DEF Records
  <2>. QED  BY <2>1, <2>4, StaysBody
<1>8. ASSUME NEW x \in Coroutines, NEW t \in Named(x),
             NEW how \in {"await", "join_task"}, Await(x, t, how)
      PROVE  StackStep
  <2>1. Running(x) /\ task' = task /\ blocks' = Aged(x)
    BY <1>8 DEF Await, InCode, sched
  <2>2. \A y \in Coroutines \ {x} : blocks'[y] = blocks[y]
    BY <2>1, AgedFacts DEF IInv
  <2>3. t \in 1..made /\ from[t] # 0 /\ made' = made /\ handle' = handle
    BY <1>8 DEF Await, Named, sched
  <2>a. t \in Bodies /\ made \in Nat
    BY <2>3, TaskBounds DEF IInv, Base, Bodies
  <2>4. handle'[t] # Nowhere
    BY <2>3, <2>a DEF IInv, Started, Bare
  <2>5. CASE Sync(x) \/ how = "join_task"
    <3>1. stack' = Append(stack, Drive(t, how)) /\ wait' = wait
      BY <1>8, <2>5 DEF Await, Push
    <3>. DEFINE f == Drive(t, how)
    <3>2. f \in LoopFrames /\ f.t = t /\ f.k = how
      BY <2>a DEF Drive, LoopFrames, Coroutines, Nowhere, Places, Bodies
    <3>. HIDE DEF f
    <3>3. f.t <= made' /\ f.t # Main /\ f.k # "join" /\ handle'[f.t] # Nowhere
      BY <2>3, <2>4, <2>a, <3>2 DEF Main
    <3>. QED  BY <2>1, <2>2, <3>1, <3>2, <3>3, EntersBody DEF f
  <2>6. CASE ~(Sync(x) \/ how = "join_task")
    <3>1. stack' = stack /\ wait' = [wait EXCEPT ![x] = t]
      BY <1>8, <2>6 DEF Await
    <3>2. \A y \in Coroutines \ {x} : wait'[y] = wait[y]
      BY <3>1 DEF IInv, Base
    <3>. QED  BY <2>1, <2>2, <3>1, <3>2, StaysBody
  <2>. QED  BY <2>5, <2>6
<1>9. ASSUME NEW x \in Coroutines, ResumeAwait(x)
      PROVE  StackStep
  <2>1. Running(x) /\ stack' = stack /\ task' = task /\ blocks' = blocks
    BY <1>9 DEF ResumeAwait, sched
  <2>2. \A y \in Coroutines \ {x} : wait'[y] = wait[y]
    BY <1>9 DEF ResumeAwait, IInv, Base
  <2>. QED  BY <2>1, <2>2, StaysBody
<1>10. ASSUME NEW x \in Coroutines, ResumeJoin(x)
      PROVE  StackStep
  <2>1. Running(x) /\ stack' = stack /\ task' = task
    BY <1>10 DEF ResumeJoin
  <2>2. \A y \in Coroutines \ {x} : wait'[y] = wait[y] /\ blocks'[y] = blocks[y]
    BY <1>10 DEF ResumeJoin, IInv, Base
  <2>. QED  BY <2>1, <2>2, StaysBody
<1>11. ASSUME NEW x \in Coroutines, ResumeCancelled(x)
      PROVE  StackStep
  <2>1. Running(x) /\ UNCHANGED <<stack, task, blocks, wait>>
    BY <1>11 DEF ResumeCancelled, InCode, code, sched, vars
  <2>. QED  BY <2>1, StaysLoop
<1>12. ASSUME NEW x \in Coroutines, Suspend(x)
      PROVE  StackStep
  <2>1. Running(x) /\ Back(x, 0) /\ UNCHANGED <<scopes, handle, blocks, wait, made>>
    BY <1>12 DEF Suspend, code, used
  <2>2. x # Main
    BY <1>12 DEF Suspend, IInv, Alternates
  <2>3. 0 \in Coroutines
    BY TaskBounds DEF Coroutines
  <2>. QED  BY <2>1, <2>2, <2>3, BackStep
<1>13. CASE DriveReady
  <2>1. Looping /\ Pop /\ UNCHANGED <<task, blocks, wait>>
    BY <1>13 DEF DriveReady, AtTop, sched, code
  <2>. QED  BY <2>1, LeavesLoop
<1>14. CASE DriveCancelled
  <2>1. Looping /\ UNCHANGED <<task, blocks, wait>> /\ (Pop \/ stack' = stack)
    BY <1>14 DEF DriveCancelled, AtTop, sched, code
  <2>. QED  BY <2>1, LeavesLoop, StaysLoop
<1>15. CASE DriveBare
  BY <1>15, BarePolled
<1>16. CASE BeginRound
  <2>1. /\ Looping /\ UNCHANGED <<task, blocks, wait, made>>
        /\ SetLoop([Loop EXCEPT !.at = <<1, 1>>, !.prog = FALSE])
    BY <1>16 DEF BeginRound, AtTop, sched, code, used
  <2>. DEFINE g == [Loop EXCEPT !.at = <<1, 1>>, !.prog = FALSE]
  <2>2. Loop \in LoopFrames
    BY <2>1, LoopOnTop
  <2>3. g \in LoopFrames /\ SameLoop(Loop, g)
    BY <2>2 DEF LoopFrames, SameLoop, Places
  <2>. HIDE DEF g
  <2>. QED  BY <2>1, <2>3, TurnsLoop DEF g
<1>17. CASE RoundPoll
  BY <1>17, TaskPolled
<1>18. CASE ScopeEnd
  <2>1. Looping /\ UNCHANGED <<task, wait>>
    BY <1>18 DEF ScopeEnd, RoundOver
  <2>2. CASE Lost
    BY <1>18, <2>1, <2>2, StaysLoop DEF ScopeEnd
  <2>3. CASE ~Lost
    <3>1. Pop /\ blocks' = [blocks EXCEPT ![Driver] = Front(@)]
      BY <1>18, <2>3 DEF ScopeEnd
    <3>2. \A y \in Coroutines \ {Driver} : blocks'[y] = blocks[y]
      BY <3>1 DEF IInv, Base
    <3>. QED  BY <2>1, <3>1, <3>2, LeavesLoop
  <2>. QED  BY <2>2, <2>3
<1>19. CASE RoundAgain
  <2>1. Looping /\ UNCHANGED <<task, blocks, wait, made>>
    BY <1>19 DEF RoundAgain, RoundOver, code, used
  <2>2. SetLoop([Loop EXCEPT !.at = Nowhere]) \/ stack' = stack
    BY <1>19 DEF RoundAgain
  <2>. DEFINE g == [Loop EXCEPT !.at = Nowhere]
  <2>3. Loop \in LoopFrames
    BY <2>1, LoopOnTop
  <2>4. g \in LoopFrames /\ SameLoop(Loop, g)
    BY <2>3 DEF LoopFrames, SameLoop, Places, Nowhere
  <2>. HIDE DEF g
  <2>5. CASE stack' = stack
    BY <2>1, <2>5, StaysLoop
  <2>6. CASE SetLoop(g)
    BY <2>1, <2>4, <2>6, TurnsLoop
  <2>. QED  BY <2>2, <2>5, <2>6 DEF g
<1>20. CASE Exited
  <2>1. UNCHANGED <<stack, task, blocks, wait>>
    BY <1>20 DEF Exited, vars, code, sched
  <2>. QED  BY <2>1, StaysLoop
<1>. QED
  BY <1>1, <1>2, <1>3, <1>4, <1>5, <1>6, <1>7, <1>8, <1>9, <1>10, <1>11, <1>12, <1>13,
       <1>14, <1>15, <1>16, <1>17, <1>18, <1>19, <1>20
     DEF Next, Body, Scheduler

--------------------------------------------------------------------------------
(* The data, action by action.                                              *)

\* The end of a block drops the last one of a coroutine.
LEMMA Shorter ==
  ASSUME Base, NEW d \in Coroutines, blocks[d] # <<>>, blocks' = [blocks EXCEPT ![d] = Front(@)]
  PROVE  /\ blocks' \in [Coroutines -> Seq(BlockRecords)]
         /\ \A y \in Coroutines \ {d} : blocks'[y] = blocks[y]
         /\ DOMAIN blocks[d] = 1..Len(blocks[d]) /\ Len(blocks[d]) \in Nat \ {0}
         /\ DOMAIN blocks'[d] = 1..(Len(blocks[d]) - 1)
         /\ \A i \in DOMAIN blocks'[d] : blocks'[d][i] = blocks[d][i]
<1>. DEFINE b == blocks[d]
            m == Len(b) - 1
<1>1. blocks \in [Coroutines -> Seq(BlockRecords)] /\ b \in Seq(BlockRecords)
  BY DEF Base
<1>2. Len(b) \in Nat \ {0} /\ DOMAIN b = 1..Len(b)
  BY <1>1
<1>3. m \in 0..Len(b)
  BY <1>2
<1>4. Front(b) = SubSeq(b, 1, m)
  BY DEF Front
<1>. HIDE DEF m
<1>5. /\ Front(b) \in Seq(BlockRecords) /\ Len(Front(b)) = m
      /\ \A i \in 1..m : Front(b)[i] = b[i]
  <2>. HIDE DEF b
  <2>. QED  BY <1>1, <1>3, <1>4, Cut
<1>6. DOMAIN Front(b) = 1..m
  BY <1>5
<1>7. blocks'[d] = Front(b) /\ \A y \in Coroutines \ {d} : blocks'[y] = blocks[y]
  BY <1>1
<1>8. blocks' \in [Coroutines -> Seq(BlockRecords)]
  BY <1>1, <1>5
<1>. QED  BY <1>2, <1>5, <1>6, <1>7, <1>8 DEF m

\* A join on top of the stack is of a block that its coroutine is inside.
LEMMA JoinTop ==
  ASSUME IInv, Looping, Loop.k = "join"
  PROVE  /\ Driver \in Coroutines /\ Inside(Driver) /\ wait[Driver] = Awake
         /\ innermost_open \in 1..Len(scopes) /\ innermost_open \in OpenSlots
<1>1. /\ Loop = stack[Len(stack)] /\ Len(stack) >= 2 /\ Driver \in Coroutines
      /\ Driver = stack[Len(stack) - 1].x
  BY LoopOnTop
<1>a. Len(stack) \in Nat
  BY Frames
<1>2. Len(stack) \in 2..Len(stack)
  BY <1>1, <1>a
<1>3. blocks[stack[Len(stack) - 1].x] # <<>> /\ wait[stack[Len(stack) - 1].x] = Awake
  BY <1>1, <1>2 DEF IInv, Joining
<1>4. Inside(Driver) /\ wait[Driver] = Awake
  BY <1>1, <1>3 DEF Inside
<1>. QED  BY <1>1, <1>4, OpenWhenInside

\* The frame of the last block of a coroutine that waits to leave it.
LEMMA LeavesInside ==
  ASSUME IInv, NEW x \in Coroutines, wait[x] = AtJoin
  PROVE  Inside(x) /\ Block(x) \in BlockRecords
<1>1. blocks[x] \in Seq(BlockRecords) /\ blocks[x] # <<>>
  BY DEF IInv, Joining, Base
<1>2. Last(blocks[x]) \in BlockRecords
  BY <1>1 DEF Last
<1>. QED  BY <1>1, <1>2 DEF Inside, Block

LEMMA TypesSteps ==
  ASSUME IInv, Next
  PROVE  TypesStep
<1>1. ASSUME NEW x \in Coroutines, NEW split \in BOOLEAN, Open(x, split)
      PROVE  TypesStep
  <2>1. scopes' = Append(scopes, <<>>) /\ closed' = Append(closed, FALSE) /\ Base
    BY <1>1 DEF Open, IInv
  <2>2. /\ scopes' \in Seq(Seq(Bodies)) /\ closed' \in Seq(BOOLEAN)
        /\ Len(scopes') = Len(closed')
    <3>1. scopes \in Seq(Seq(Bodies)) /\ <<>> \in Seq(Bodies) /\ Len(scopes) = Len(closed)
      BY <2>1 DEF Base
    <3>2. closed \in Seq(BOOLEAN) /\ FALSE \in BOOLEAN
      BY <2>1 DEF Base
    <3>3. scopes' \in Seq(Seq(Bodies)) /\ Len(scopes') = Len(scopes) + 1
      BY <2>1, <3>1, OnTop
    <3>4. closed' \in Seq(BOOLEAN) /\ Len(closed') = Len(closed) + 1
      BY <2>1, <3>2, OnTop
    <3>. QED  BY <3>1, <3>3, <3>4
  <2>3. PICK r :
          /\ r = [split |-> split, si |-> Len(scopes) + 1, id |-> opened + 1,
                  fresh |-> TRUE]
          /\ blocks' = [blocks EXCEPT ![x] = Append(@, r)]
    BY <1>1 DEF Open
  <2>4. r \in BlockRecords
    <3>1. scopes \in Seq(Seq(Bodies)) /\ opened \in Nat
      BY <2>1, TaskBounds DEF Base
    <3>2. Len(scopes) \in Nat
      BY <3>1
    <3>3. Len(scopes) + 1 \in Nat /\ opened + 1 \in Nat \ {0}
      BY <3>1, <3>2
    <3>. QED  BY <2>3, <3>3 DEF BlockRecords
  <2>5. blocks' \in [Coroutines -> Seq(BlockRecords)]
    BY <2>1, <2>3, <2>4 DEF Base
  <2>6. opened' \in 0..MaxBlocks
    <3>1. opened \in 0..MaxBlocks /\ opened < MaxBlocks /\ opened' = opened + 1
      BY <1>1, <2>1 DEF Open, Base
    <3>2. MaxBlocks \in Nat
      BY TaskBounds
    <3>. QED  BY <3>1, <3>2
  <2>. QED  BY <1>1, <2>1, <2>2, <2>5, <2>6 DEF Open, TypesStep, Base, ghost
<1>2. ASSUME NEW x \in Coroutines, Spawn(x)
      PROVE  TypesStep
  <2>1. Inside(x) /\ made < MaxTasks /\ Base
    BY <1>2 DEF Spawn, IInv
  <2>2. PICK si : si = innermost_open /\ si \in 1..Len(scopes)
    BY <2>1, OpenWhenInside
  <2>3. /\ scopes' = [scopes EXCEPT ![si] = Append(@, made + 1)] /\ made' = made + 1
        /\ handle' = [handle EXCEPT ![made + 1] = <<si, Len(scopes[si]) + 1>>]
        /\ from' = [from EXCEPT ![made + 1] = Block(x).id]
        /\ UNCHANGED <<closed, task, blocks, wait, opened>>
    BY <1>2, <2>2 DEF Spawn, code
  <2>4. made + 1 \in Bodies /\ made' \in 0..MaxTasks
    BY <2>1, <2>3, TaskBounds DEF Base, Bodies
  <2>5. scopes[si] \in Seq(Bodies) /\ scopes \in Seq(Seq(Bodies)) /\ si \in Nat
    BY <2>1, <2>2 DEF Base
  <2>6. Append(scopes[si], made + 1) \in Seq(Bodies) /\ Len(scopes[si]) \in Nat
    BY <2>4, <2>5
  <2>7. scopes' \in Seq(Seq(Bodies)) /\ Len(scopes') = Len(scopes)
    BY <2>2, <2>3, <2>5, <2>6, Put
  <2>8. handle' \in [Bodies -> Places]
    <3>1. <<si, Len(scopes[si]) + 1>> \in Places
      BY <2>5, <2>6 DEF Places
    <3>. QED  BY <2>1, <2>3, <3>1 DEF Base
  <2>9. from' \in [Bodies -> Nat]
    <3>1. blocks[x] \in Seq(BlockRecords) /\ blocks[x] # <<>>
      BY <2>1 DEF Base, Inside
    <3>2. Last(blocks[x]) \in BlockRecords
      BY <3>1 DEF Last
    <3>3. Block(x).id \in Nat
      BY <3>2 DEF Block, BlockRecords
    <3>. QED  BY <2>1, <2>3, <3>3 DEF Base
  <2>. QED  BY <2>1, <2>3, <2>4, <2>7, <2>8, <2>9 DEF TypesStep, Base
<1>3. ASSUME NEW x \in Coroutines, Nap(x)
      PROVE  TypesStep
  <2>1. blocks' \in [Coroutines -> Seq(BlockRecords)]
    BY <1>3, AgedFacts DEF IInv, Nap
  <2>2. wait' \in [Coroutines -> {Awake, AtTimer, AtJoin} \union Bodies]
    BY <1>3 DEF Nap, IInv, Base
  <2>3. made' \in 0..MaxTasks
    BY <1>3, TaskBounds DEF Nap, IInv, Base, used
  <2>. QED  BY <1>3, <2>1, <2>2, <2>3 DEF Nap, TypesStep, IInv, Base, sched, used, ghost,
       Push
<1>4. ASSUME NEW x \in Coroutines, AwaitBare(x)
      PROVE  TypesStep
  <2>1. blocks' \in [Coroutines -> Seq(BlockRecords)]
    BY <1>4, AgedFacts DEF IInv, AwaitBare
  <2>2. wait' \in [Coroutines -> {Awake, AtTimer, AtJoin} \union Bodies]
    BY <1>4 DEF AwaitBare, IInv, Base
  <2>3. made' \in 0..MaxTasks
    BY <1>4, TaskBounds DEF AwaitBare, IInv, Base, used
  <2>. QED  BY <1>4, <2>1, <2>2, <2>3 DEF AwaitBare, TypesStep, IInv, Base, sched, used,
       ghost, Push
<1>5. ASSUME NEW x \in Coroutines, EndBlock(x)
      PROVE  TypesStep
  <2>1. blocks' \in [Coroutines -> Seq(BlockRecords)]
    BY <1>5, AgedFacts DEF IInv, EndBlock
  <2>2. wait' \in [Coroutines -> {Awake, AtTimer, AtJoin} \union Bodies]
    BY <1>5 DEF EndBlock, IInv, Base
  <2>3. made' \in 0..MaxTasks
    BY <1>5, TaskBounds DEF EndBlock, IInv, Base, used
  <2>. QED  BY <1>5, <2>1, <2>2, <2>3 DEF EndBlock, TypesStep, IInv, Base, sched, used,
       ghost, Push
<1>6. ASSUME NEW x \in Coroutines, Return(x)
      PROVE  TypesStep
  <2>1. Running(x) /\ UNCHANGED <<scopes, handle, blocks, wait, made>>
    BY <1>6 DEF Return, InCode, code, used
  <2>2. CASE x = Main
    BY <1>6, <2>2 DEF Return, TypesStep, IInv, Base, code, used, ghost
  <2>3. CASE x # Main
    <3>1. task' \in [Bodies -> Records]
      BY <1>6, <2>1, <2>3, BackStep DEF Return
    <3>. QED  BY <1>6, <3>1 DEF Return, TypesStep, IInv, Base, code, used, ghost
  <2>. QED  BY <2>2, <2>3
<1>7. ASSUME NEW x \in Coroutines, NEW t \in Named(x), cancel_task(x, t)
      PROVE  TypesStep
  <2>1. PICK v : task' = [task EXCEPT ![v].cancelled = TRUE]
    BY <1>7 DEF cancel_task
  <2>2. task' \in [Bodies -> Records]
    BY <2>1 DEF Records, IInv, Base
  <2>. QED  BY <1>7, <2>2 DEF cancel_task, TypesStep, IInv, Base, code, ghost
<1>8. ASSUME NEW x \in Coroutines, NEW t \in Named(x),
             NEW how \in {"await", "join_task"}, Await(x, t, how)
      PROVE  TypesStep
  <2>1. blocks' \in [Coroutines -> Seq(BlockRecords)]
    BY <1>8, AgedFacts DEF IInv, Await
  <2>2. wait' \in [Coroutines -> {Awake, AtTimer, AtJoin} \union Bodies]
    <3>1. t \in Bodies
      BY TaskBounds DEF Named, IInv, Base, Bodies
    <3>. QED  BY <1>8, <3>1 DEF Await, IInv, Base
  <2>3. made' \in 0..MaxTasks
    BY <1>8, TaskBounds DEF Await, IInv, Base, used
  <2>. QED  BY <1>8, <2>1, <2>2, <2>3 DEF Await, TypesStep, IInv, Base, sched, used, ghost,
       Push
<1>9. ASSUME NEW x \in Coroutines, ResumeAwait(x)
      PROVE  TypesStep
  <2>1. wait' \in [Coroutines -> {Awake, AtTimer, AtJoin} \union Bodies]
    BY <1>9 DEF ResumeAwait, IInv, Base
  <2>. QED  BY <1>9, <2>1 DEF ResumeAwait, TypesStep, IInv, Base, sched, used, ghost
<1>10. ASSUME NEW x \in Coroutines, ResumeJoin(x)
      PROVE  TypesStep
  <2>1. Inside(x) /\ Block(x) \in BlockRecords /\ Base
    BY <1>10, LeavesInside DEF ResumeJoin, IInv
  <2>2. blocks' \in [Coroutines -> Seq(BlockRecords)]
    BY <1>10, <2>1, Shorter DEF ResumeJoin, Inside
  <2>3. /\ scopes' \in Seq(Seq(Bodies)) /\ closed' \in Seq(BOOLEAN)
        /\ Len(scopes') = Len(closed')
    <3>1. CASE Block(x).si \in DOMAIN scopes
      <4>1. PICK si \in 1..Len(scopes) : si = Block(x).si
        BY <2>1, <3>1 DEF Base
      <4>. QED  BY <1>10, <2>1, <3>1, <4>1, CloseFacts DEF ResumeJoin
    <3>2. CASE Block(x).si \notin DOMAIN scopes
      BY <1>10, <2>1, <3>2 DEF ResumeJoin, Base
    <3>. QED  BY <3>1, <3>2
  <2>4. wait' \in [Coroutines -> {Awake, AtTimer, AtJoin} \union Bodies]
    BY <1>10, <2>1 DEF ResumeJoin, Base
  <2>. QED  BY <1>10, <2>1, <2>2, <2>3, <2>4 DEF ResumeJoin, TypesStep, Base, used
<1>11. ASSUME NEW x \in Coroutines, ResumeCancelled(x)
      PROVE  TypesStep
  BY <1>11 DEF ResumeCancelled, TypesStep, IInv, Base, sched, code, used, ghost, Push, vars
<1>12. ASSUME NEW x \in Coroutines, Suspend(x)
      PROVE  TypesStep
  <2>1. Running(x) /\ Back(x, 0) /\ UNCHANGED <<scopes, handle, blocks, wait, made>>
    BY <1>12 DEF Suspend, code, used
  <2>2. x # Main
    BY <1>12 DEF Suspend, IInv, Alternates
  <2>3. 0 \in Coroutines
    BY TaskBounds DEF Coroutines
  <2>4. task' \in [Bodies -> Records]
    BY <2>1, <2>2, <2>3, BackStep
  <2>. QED  BY <1>12, <2>4 DEF Suspend, TypesStep, IInv, Base, code, used, ghost
<1>13. CASE DriveReady
  BY <1>13 DEF DriveReady, TypesStep, IInv, Base, sched, code, used, ghost, Push, vars
<1>14. CASE DriveCancelled
  BY <1>14 DEF DriveCancelled, TypesStep, IInv, Base, sched, code, used, ghost, Push, vars
<1>15. CASE DriveBare
  BY <1>15 DEF DriveBare, TypesStep, IInv, Base, sched, code, used, ghost, Push, vars
<1>16. CASE BeginRound
  BY <1>16 DEF BeginRound, TypesStep, IInv, Base, sched, code, used, ghost, Push, vars
<1>17. CASE RoundPoll
  <2>1. PICK v : task' = [task EXCEPT ![v].polling = TRUE]
    BY <1>17 DEF RoundPoll
  <2>2. task' \in [Bodies -> Records]
    BY <2>1 DEF Records, IInv, Base
  <2>. QED  BY <1>17, <2>2 DEF RoundPoll, TypesStep, IInv, Base, code, used, ghost
<1>18. CASE ScopeEnd
  <2>1. Looping /\ Loop.k = "join" /\ Base
    BY <1>18 DEF ScopeEnd, RoundOver, Drained, Lost, IInv
  <2>2. CASE Lost
    BY <1>18, <2>1, <2>2 DEF ScopeEnd, TypesStep, Base, used
  <2>3. CASE ~Lost
    <3>1. close_scope(innermost_open) /\ blocks' = [blocks EXCEPT ![Driver] = Front(@)]
      BY <1>18, <2>3 DEF ScopeEnd
    <3>2. PICK d \in Coroutines : d = Driver /\ blocks[d] # <<>>
      BY <2>1, JoinTop DEF Inside
    <3>3. PICK si \in 1..Len(scopes) : si = innermost_open
      BY <2>1, JoinTop
    <3>4. blocks' \in [Coroutines -> Seq(BlockRecords)]
      BY <2>1, <3>1, <3>2, Shorter
    <3>5. /\ scopes' \in Seq(Seq(Bodies)) /\ closed' \in Seq(BOOLEAN)
          /\ Len(scopes') = Len(closed')
      BY <2>1, <3>1, <3>3, CloseFacts
    <3>. QED  BY <1>18, <2>1, <3>4, <3>5 DEF ScopeEnd, TypesStep, Base, used
  <2>. QED  BY <2>2, <2>3
<1>19. CASE RoundAgain
  BY <1>19 DEF RoundAgain, TypesStep, IInv, Base, sched, code, used, ghost, Push, vars
<1>20. CASE Exited
  BY <1>20 DEF Exited, TypesStep, IInv, Base, sched, code, used, ghost, Push, vars
<1>. QED
  BY <1>1, <1>2, <1>3, <1>4, <1>5, <1>6, <1>7, <1>8, <1>9, <1>10, <1>11, <1>12, <1>13,
       <1>14, <1>15, <1>16, <1>17, <1>18, <1>19, <1>20
     DEF Next, Body, Scheduler

--------------------------------------------------------------------------------
(* Places, handles and the top level, action by action.                     *)

LEMMA TableStill ==
  ASSUME scopes' = scopes
  PROVE  TableStep
<1>. QED  BY DEF TableStep, At

LEMMA TableClosed ==
  ASSUME Base, NEW si \in 1..Len(scopes), close_scope(si)
  PROVE  TableStep
<1>1. /\ scopes' \in Seq(Seq(Bodies)) /\ Len(scopes') <= Len(scopes)
      /\ \A a \in 1..Len(scopes') : scopes'[a] = IF a = si THEN <<>> ELSE scopes[a]
  BY CloseFacts
<1>2. scopes \in Seq(Seq(Bodies))
  BY DEF Base
<1>3. ASSUME NEW a \in DOMAIN scopes', NEW b \in DOMAIN scopes'[a]
      PROVE  At(a, b) /\ scopes'[a][b] = scopes[a][b]
  <2>1. Len(scopes') \in Nat /\ Len(scopes) \in Nat
    BY <1>1, <1>2
  <2>2. a \in 1..Len(scopes')
    BY <1>1
  <2>3. a \in 1..Len(scopes)
    BY <1>1, <2>1, <2>2
  <2>4. scopes'[a] = IF a = si THEN <<>> ELSE scopes[a]
    BY <1>1, <2>2
  <2>5. a # si
    BY <2>4
  <2>. QED  BY <1>2, <2>3, <2>4, <2>5 DEF At
<1>. QED  BY <1>3 DEF TableStep

LEMMA TableSteps ==
  ASSUME IInv, Next
  PROVE  TableStep
<1>1. ASSUME NEW x \in Coroutines, NEW split \in BOOLEAN, Open(x, split)
      PROVE  TableStep
  <2>1. scopes \in Seq(Seq(Bodies)) /\ scopes' = Append(scopes, <<>>)
    BY <1>1 DEF Open, IInv, Base
  <2>a. <<>> \in Seq(Bodies)
    OBVIOUS
  <2>2. /\ scopes' \in Seq(Seq(Bodies)) /\ Len(scopes') = Len(scopes) + 1
        /\ scopes'[Len(scopes) + 1] = <<>> /\ \A i \in 1..Len(scopes) : scopes'[i] = scopes[i]
    BY <2>1, <2>a, OnTop
  <2>b. Len(scopes) \in Nat /\ DOMAIN scopes = 1..Len(scopes)
    BY <2>1
  <2>3. ASSUME NEW a \in DOMAIN scopes', NEW b \in DOMAIN scopes'[a]
        PROVE  At(a, b) /\ scopes'[a][b] = scopes[a][b]
    <3>1. a \in 1..(Len(scopes) + 1)
      BY <2>2
    <3>2. a # Len(scopes) + 1
      BY <2>2
    <3>3. a \in 1..Len(scopes)
      BY <2>b, <3>1, <3>2
    <3>. QED  BY <2>2, <2>b, <3>3 DEF At
  <2>. QED  BY <2>3 DEF TableStep
<1>2. ASSUME NEW x \in Coroutines, Spawn(x)
      PROVE  TableStep
  <2>1. Inside(x) /\ made < MaxTasks /\ Base
    BY <1>2 DEF Spawn, IInv
  <2>2. PICK si : si = innermost_open /\ si \in 1..Len(scopes)
    BY <2>1, OpenWhenInside
  <2>3. /\ scopes' = [scopes EXCEPT ![si] = Append(@, made + 1)] /\ made' = made + 1
        /\ handle' = [handle EXCEPT ![made + 1] = <<si, Len(scopes[si]) + 1>>]
    BY <1>2, <2>2 DEF Spawn
  <2>4. scopes[si] \in Seq(Bodies) /\ scopes \in Seq(Seq(Bodies)) /\ si \in Nat \ {0}
    BY <2>1, <2>2 DEF Base
  <2>5. made + 1 \in Bodies
    BY <2>1, TaskBounds DEF Base, Bodies
  <2>. DEFINE l == Append(scopes[si], made + 1)
  <2>6. /\ l \in Seq(Bodies) /\ Len(l) = Len(scopes[si]) + 1 /\ Len(scopes[si]) \in Nat
        /\ l[Len(scopes[si]) + 1] = made + 1
        /\ \A i \in 1..Len(scopes[si]) : l[i] = scopes[si][i]
    <3>1. Len(scopes[si]) \in Nat
      BY <2>4
    <3>2. PICK q \in Seq(Bodies) : q = scopes[si]
      BY <2>4
    <3>. QED  BY <2>5, <3>1, <3>2, OnTop
  <2>7. DOMAIN l = 1..(Len(scopes[si]) + 1) /\ DOMAIN scopes[si] = 1..Len(scopes[si])
    BY <2>4, <2>6
  <2>8. DOMAIN scopes' = DOMAIN scopes /\ scopes'[si] = l /\ si \in DOMAIN scopes
    BY <2>2, <2>3, <2>4
  <2>9. \A a \in DOMAIN scopes : a # si => scopes'[a] = scopes[a]
    BY <2>3
  <2>10. handle'[made + 1] # Nowhere
    <3>1. handle'[made + 1] = <<si, Len(scopes[si]) + 1>>
      BY <2>1, <2>3, <2>5 DEF Base
    <3>. QED  BY <2>4, <3>1 DEF Nowhere
  <2>. HIDE DEF l
  <2>11. ASSUME NEW a \in DOMAIN scopes', NEW b \in DOMAIN scopes'[a]
         PROVE  \/ At(a, b) /\ scopes'[a][b] = scopes[a][b]
                \/ made' = made + 1 /\ scopes'[a][b] = made + 1 /\ handle'[made + 1] # Nowhere
    <3>1. CASE a # si
      BY <2>8, <2>9, <3>1 DEF At
    <3>2. CASE a = si /\ b = Len(scopes[si]) + 1
      BY <2>3, <2>6, <2>8, <2>10, <3>2
    <3>3. CASE a = si /\ b # Len(scopes[si]) + 1
      <4>1. b \in 1..Len(scopes[si])
        BY <2>6, <2>7, <2>8, <3>3
      <4>. QED  BY <2>6, <2>7, <2>8, <3>3, <4>1 DEF At
    <3>. QED  BY <3>1, <3>2, <3>3
  <2>. QED  BY <2>11 DEF TableStep
<1>3. ASSUME NEW x \in Coroutines, Nap(x)
      PROVE  TableStep
  BY <1>3, TableStill DEF Nap, sched, used, code, vars
<1>4. ASSUME NEW x \in Coroutines, AwaitBare(x)
      PROVE  TableStep
  BY <1>4, TableStill DEF AwaitBare, sched, used, code, vars
<1>5. ASSUME NEW x \in Coroutines, EndBlock(x)
      PROVE  TableStep
  BY <1>5, TableStill DEF EndBlock, sched, used, code, vars
<1>6. ASSUME NEW x \in Coroutines, Return(x)
      PROVE  TableStep
  BY <1>6, TableStill DEF Return, sched, used, code, vars
<1>7. ASSUME NEW x \in Coroutines, NEW t \in Named(x), cancel_task(x, t)
      PROVE  TableStep
  BY <1>7, TableStill DEF cancel_task, sched, used, code, vars
<1>8. ASSUME NEW x \in Coroutines, NEW t \in Named(x),
             NEW how \in {"await", "join_task"}, Await(x, t, how)
      PROVE  TableStep
  BY <1>8, TableStill DEF Await, sched, used, code, vars
<1>9. ASSUME NEW x \in Coroutines, ResumeAwait(x)
      PROVE  TableStep
  BY <1>9, TableStill DEF ResumeAwait, sched, used, code, vars
<1>10. ASSUME NEW x \in Coroutines, ResumeJoin(x)
      PROVE  TableStep
  <2>1. Inside(x) /\ Block(x) \in BlockRecords /\ Base
    BY <1>10, LeavesInside DEF ResumeJoin, IInv
  <2>2. CASE Block(x).si \in DOMAIN scopes
    <3>1. PICK si \in 1..Len(scopes) : si = Block(x).si
      BY <2>1, <2>2 DEF Base
    <3>. QED  BY <1>10, <2>1, <2>2, <3>1, TableClosed DEF ResumeJoin
  <2>3. CASE Block(x).si \notin DOMAIN scopes
    BY <1>10, <2>3, TableStill DEF ResumeJoin
  <2>. QED  BY <2>2, <2>3
<1>11. ASSUME NEW x \in Coroutines, ResumeCancelled(x)
      PROVE  TableStep
  BY <1>11, TableStill DEF ResumeCancelled, sched, used, code, vars
<1>12. ASSUME NEW x \in Coroutines, Suspend(x)
      PROVE  TableStep
  BY <1>12, TableStill DEF Suspend, sched, used, code, vars
<1>13. CASE DriveReady
  BY <1>13, TableStill DEF DriveReady, sched, used, code, vars
<1>14. CASE DriveCancelled
  BY <1>14, TableStill DEF DriveCancelled, sched, used, code, vars
<1>15. CASE DriveBare
  BY <1>15, TableStill DEF DriveBare, sched, used, code, vars
<1>16. CASE BeginRound
  BY <1>16, TableStill DEF BeginRound, sched, used, code, vars
<1>17. CASE RoundPoll
  BY <1>17, TableStill DEF RoundPoll, sched, used, code, vars
<1>18. CASE ScopeEnd
  <2>1. Looping /\ Loop.k = "join" /\ Base
    BY <1>18 DEF ScopeEnd, RoundOver, Drained, Lost, IInv
  <2>2. CASE Lost
    BY <1>18, <2>2, TableStill DEF ScopeEnd
  <2>3. CASE ~Lost
    <3>1. close_scope(innermost_open)
      BY <1>18, <2>3 DEF ScopeEnd
    <3>2. PICK si \in 1..Len(scopes) : si = innermost_open
      BY <2>1, JoinTop
    <3>. QED  BY <2>1, <3>1, <3>2, TableClosed
  <2>. QED  BY <2>2, <2>3
<1>19. CASE RoundAgain
  BY <1>19, TableStill DEF RoundAgain, sched, used, code, vars
<1>20. CASE Exited
  BY <1>20, TableStill DEF Exited, sched, used, code, vars
<1>. QED
  BY <1>1, <1>2, <1>3, <1>4, <1>5, <1>6, <1>7, <1>8, <1>9, <1>10, <1>11, <1>12, <1>13,
       <1>14, <1>15, <1>16, <1>17, <1>18, <1>19, <1>20
     DEF Next, Body, Scheduler

LEMMA HandleStill ==
  ASSUME UNCHANGED <<handle, from, made>>
  PROVE  HandleStep
<1>. QED  BY DEF HandleStep

LEMMA HandleSteps ==
  ASSUME IInv, Next
  PROVE  HandleStep
<1>1. ASSUME NEW x \in Coroutines, NEW split \in BOOLEAN, Open(x, split)
      PROVE  HandleStep
  BY <1>1, HandleStill DEF Open, sched, used, code, ghost, Push, vars
<1>2. ASSUME NEW x \in Coroutines, Spawn(x)
      PROVE  HandleStep
  <2>1. made < MaxTasks /\ Base /\ Inside(x)
    BY <1>2 DEF Spawn, IInv
  <2>2. PICK si : si = innermost_open /\ si \in 1..Len(scopes)
    BY <2>1, OpenWhenInside
  <2>3. /\ made' = made + 1 /\ from' = [from EXCEPT ![made + 1] = Block(x).id]
        /\ handle' = [handle EXCEPT ![made + 1] = <<si, Len(scopes[si]) + 1>>]
    BY <1>2, <2>2 DEF Spawn
  <2>4. made \in Nat /\ handle \in [Bodies -> Places] /\ from \in [Bodies -> Nat]
    BY <2>1 DEF Base
  <2>5. \A t \in Bodies : t # made + 1 => handle'[t] = handle[t] /\ from'[t] = from[t]
    BY <2>3, <2>4
  <2>6. \A t \in Bodies : (t <= made => t # made + 1) /\ (t > made + 1 => t # made + 1)
    BY <2>4 DEF Bodies
  <2>7. made + 1 \in Bodies => handle'[made + 1] # Nowhere
    BY <2>2, <2>3, <2>4 DEF Nowhere
  <2>. QED  BY <2>3, <2>5, <2>6, <2>7 DEF HandleStep, Bare
<1>3. ASSUME NEW x \in Coroutines, Nap(x)
      PROVE  HandleStep
  BY <1>3, HandleStill DEF Nap, sched, used, code, ghost, Push, vars
<1>4. ASSUME NEW x \in Coroutines, AwaitBare(x)
      PROVE  HandleStep
  <2>1. made' = made + 1 /\ handle' = handle /\ from' = from
    BY <1>4 DEF AwaitBare, Push, sched
  <2>. QED  BY <2>1 DEF HandleStep
<1>5. ASSUME NEW x \in Coroutines, EndBlock(x)
      PROVE  HandleStep
  BY <1>5, HandleStill DEF EndBlock, sched, used, code, ghost, Push, vars
<1>6. ASSUME NEW x \in Coroutines, Return(x)
      PROVE  HandleStep
  BY <1>6, HandleStill DEF Return, sched, used, code, ghost, Push, vars
<1>7. ASSUME NEW x \in Coroutines, NEW t \in Named(x), cancel_task(x, t)
      PROVE  HandleStep
  BY <1>7, HandleStill DEF cancel_task, sched, used, code, ghost, Push, vars
<1>8. ASSUME NEW x \in Coroutines, NEW t \in Named(x),
             NEW how \in {"await", "join_task"}, Await(x, t, how)
      PROVE  HandleStep
  BY <1>8, HandleStill DEF Await, sched, used, code, ghost, Push, vars
<1>9. ASSUME NEW x \in Coroutines, ResumeAwait(x)
      PROVE  HandleStep
  BY <1>9, HandleStill DEF ResumeAwait, sched, used, code, ghost, Push, vars
<1>10. ASSUME NEW x \in Coroutines, ResumeJoin(x)
      PROVE  HandleStep
  BY <1>10, HandleStill DEF ResumeJoin, sched, used, code, ghost, Push, vars
<1>11. ASSUME NEW x \in Coroutines, ResumeCancelled(x)
      PROVE  HandleStep
  BY <1>11, HandleStill DEF ResumeCancelled, sched, used, code, ghost, Push, vars
<1>12. ASSUME NEW x \in Coroutines, Suspend(x)
      PROVE  HandleStep
  BY <1>12, HandleStill DEF Suspend, sched, used, code, ghost, Push, vars
<1>13. CASE DriveReady
  BY <1>13, HandleStill DEF DriveReady, sched, used, code, ghost, Push, vars
<1>14. CASE DriveCancelled
  BY <1>14, HandleStill DEF DriveCancelled, sched, used, code, ghost, Push, vars
<1>15. CASE DriveBare
  BY <1>15, HandleStill DEF DriveBare, sched, used, code, ghost, Push, vars
<1>16. CASE BeginRound
  BY <1>16, HandleStill DEF BeginRound, sched, used, code, ghost, Push, vars
<1>17. CASE RoundPoll
  BY <1>17, HandleStill DEF RoundPoll, sched, used, code, ghost, Push, vars
<1>18. CASE ScopeEnd
  BY <1>18, HandleStill DEF ScopeEnd, sched, used, code, ghost, Push, vars
<1>19. CASE RoundAgain
  BY <1>19, HandleStill DEF RoundAgain, sched, used, code, ghost, Push, vars
<1>20. CASE Exited
  BY <1>20, HandleStill DEF Exited, sched, used, code, ghost, Push, vars
<1>. QED
  BY <1>1, <1>2, <1>3, <1>4, <1>5, <1>6, <1>7, <1>8, <1>9, <1>10, <1>11, <1>12, <1>13,
       <1>14, <1>15, <1>16, <1>17, <1>18, <1>19, <1>20
     DEF Next, Body, Scheduler

--------------------------------------------------------------------------------
(* The top level and the joins, action by action.                           *)

LEMMA MainStill ==
  ASSUME IInv, blocks' = blocks, wait' = wait
  PROVE  MainStep
<1>. QED  BY DEF IInv, Alternates, Joining, MainStep

LEMMA MainBody ==
  ASSUME IInv, NEW x \in Coroutines,
         \A y \in Coroutines \ {x} : blocks'[y] = blocks[y] /\ wait'[y] = wait[y],
         x = Main => wait'[x] = Awake /\ \A b \in DOMAIN blocks'[x] : ~blocks'[x][b].split,
         wait'[x] = AtJoin => blocks'[x] # <<>>
  PROVE  MainStep
<1>1. Main \in Coroutines
  BY TaskBounds DEF Main, Coroutines
<1>2. wait'[Main] = Awake /\ \A b \in DOMAIN blocks'[Main] : ~blocks'[Main][b].split
  <2>1. CASE x = Main
    BY <2>1
  <2>2. CASE x # Main
    <3>1. blocks'[Main] = blocks[Main] /\ wait'[Main] = wait[Main]
      BY <1>1, <2>2
    <3>. QED  BY <3>1 DEF IInv, Alternates
  <2>. QED  BY <2>1, <2>2
<1>3. ASSUME NEW y \in Coroutines, wait'[y] = AtJoin
      PROVE  blocks'[y] # <<>>
  <2>1. CASE y = x
    BY <1>3, <2>1
  <2>2. CASE y # x
    <3>1. blocks'[y] = blocks[y] /\ wait'[y] = wait[y]
      BY <2>2
    <3>. QED  BY <1>3, <3>1 DEF IInv, Joining
  <2>. QED  BY <2>1, <2>2
<1>. QED  BY <1>2, <1>3 DEF MainStep

LEMMA MainAged ==
  ASSUME IInv, NEW x \in Coroutines, blocks' = Aged(x)
  PROVE  /\ \A y \in Coroutines \ {x} : blocks'[y] = blocks[y]
         /\ x = Main => \A b \in DOMAIN blocks'[x] : ~blocks'[x][b].split
         /\ blocks'[x] = <<>> <=> blocks[x] = <<>>
<1>1. /\ \A y \in Coroutines \ {x} : blocks'[y] = blocks[y]
      /\ DOMAIN blocks'[x] = DOMAIN blocks[x]
      /\ blocks'[x] = <<>> <=> blocks[x] = <<>>
      /\ \A i \in DOMAIN blocks[x] : blocks'[x][i].split = blocks[x][i].split
  BY AgedFacts DEF IInv
<1>2. ASSUME x = Main, NEW b \in DOMAIN blocks'[x]
      PROVE  ~blocks'[x][b].split
  <2>1. b \in DOMAIN blocks[x] /\ blocks'[x][b].split = blocks[x][b].split
    BY <1>1
  <2>2. ~blocks[x][b].split
    BY <1>2, <2>1 DEF IInv, Alternates
  <2>. QED  BY <2>1, <2>2
<1>. QED  BY <1>1, <1>2

LEMMA MainShorter ==
  ASSUME IInv, NEW d \in Coroutines, blocks[d] # <<>>, blocks' = [blocks EXCEPT ![d] = Front(@)],
         wait'[d] = Awake, \A y \in Coroutines \ {d} : wait'[y] = wait[y]
  PROVE  MainStep
<1>1. /\ \A y \in Coroutines \ {d} : blocks'[y] = blocks[y]
      /\ DOMAIN blocks[d] = 1..Len(blocks[d]) /\ Len(blocks[d]) \in Nat \ {0}
      /\ DOMAIN blocks'[d] = 1..(Len(blocks[d]) - 1)
      /\ \A i \in DOMAIN blocks'[d] : blocks'[d][i] = blocks[d][i]
  BY Shorter DEF IInv
<1>2. ASSUME d = Main, NEW b \in DOMAIN blocks'[d]
      PROVE  ~blocks'[d][b].split
  <2>1. b \in DOMAIN blocks[d] /\ blocks'[d][b] = blocks[d][b]
    BY <1>1
  <2>2. ~blocks[d][b].split
    BY <1>2, <2>1 DEF IInv, Alternates
  <2>. QED  BY <2>1, <2>2
<1>3. wait'[d] # AtJoin
  BY DEF Awake, AtJoin
<1>. QED  BY <1>1, <1>2, <1>3, MainBody

LEMMA MainSteps ==
  ASSUME IInv, Next
  PROVE  MainStep
<1>1. ASSUME NEW x \in Coroutines, NEW split \in BOOLEAN, Open(x, split)
      PROVE  MainStep
  <2>1. wait' = wait /\ (split => x # Main) /\ wait[x] = Awake
    BY <1>1 DEF Open, Sync, InCode
  <2>2. blocks \in [Coroutines -> Seq(BlockRecords)]
    BY DEF IInv, Base
  <2>3. PICK r : r.split = split /\ blocks' = [blocks EXCEPT ![x] = Append(@, r)]
    BY <1>1 DEF Open
  <2>4. blocks'[x] = Append(blocks[x],
       r) /\ \A y \in Coroutines \ {x} : blocks'[y] = blocks[y]
    BY <2>2, <2>3
  <2>5. ASSUME x = Main, NEW b \in DOMAIN blocks'[x]
        PROVE  ~blocks'[x][b].split
    <3>1. blocks[x] \in Seq(BlockRecords)
      BY <2>2
    <3>2. b \in 1..(Len(blocks[x]) + 1) /\ Len(blocks[x]) \in Nat
      BY <2>4, <3>1
    <3>3. CASE b = Len(blocks[x]) + 1
      <4>1. blocks'[x][b] = r
        BY <2>4, <3>1, <3>3
      <4>. QED  BY <2>1, <2>3, <2>5, <4>1
    <3>4. CASE b # Len(blocks[x]) + 1
      <4>1. b \in 1..Len(blocks[x])
        BY <3>2, <3>4
      <4>2. blocks'[x][b] = blocks[x][b] /\ b \in DOMAIN blocks[x]
        BY <2>4, <3>1, <4>1
      <4>3. ~blocks[x][b].split
        BY <2>5, <4>2 DEF IInv, Alternates
      <4>. QED  BY <4>2, <4>3
    <3>. QED  BY <3>3, <3>4
  <2>6. wait'[x] = Awake /\ wait'[x] # AtJoin
    BY <2>1 DEF Awake, AtJoin
  <2>. QED  BY <2>1, <2>4, <2>5, <2>6, MainBody
<1>2. ASSUME NEW x \in Coroutines, Spawn(x)
      PROVE  MainStep
  BY <1>2, MainStill DEF Spawn, sched, used, code, ghost, Push, vars
<1>3. ASSUME NEW x \in Coroutines, Nap(x)
      PROVE  MainStep
  <2>1. blocks' = Aged(x) /\ wait[x] = Awake
    BY <1>3 DEF Nap, InCode
  <2>2. /\ \A y \in Coroutines \ {x} : blocks'[y] = blocks[y]
        /\ x = Main => \A b \in DOMAIN blocks'[x] : ~blocks'[x][b].split
        /\ blocks'[x] = <<>> <=> blocks[x] = <<>>
    BY <2>1, MainAged
  <2>3. CASE wait' = wait
    <3>1. wait'[x] = Awake /\ wait'[x] # AtJoin
      BY <2>1, <2>3 DEF Awake, AtJoin
    <3>. QED  BY <2>2, <2>3, <3>1, MainBody
  <2>4. CASE wait' = [wait EXCEPT ![x] = AtTimer] /\ x # Main
    <3>1. wait'[x] = AtTimer /\ \A y \in Coroutines \ {x} : wait'[y] = wait[y]
      BY <2>4 DEF IInv, Base
    <3>2. wait'[x] = AtJoin => blocks'[x] # <<>>
      BY <3>1 DEF AtTimer, AtJoin
    <3>. QED  BY <2>2, <2>4, <3>1, <3>2, MainBody
  <2>5. wait' = wait \/ (wait' = [wait EXCEPT ![x] = AtTimer] /\ x # Main)
    BY <1>3 DEF Nap, Sync
  <2>. QED  BY <2>3, <2>4, <2>5
<1>4. ASSUME NEW x \in Coroutines, AwaitBare(x)
      PROVE  MainStep
  <2>1. blocks' = Aged(x) /\ wait[x] = Awake
    BY <1>4 DEF AwaitBare, InCode
  <2>2. /\ \A y \in Coroutines \ {x} : blocks'[y] = blocks[y]
        /\ x = Main => \A b \in DOMAIN blocks'[x] : ~blocks'[x][b].split
        /\ blocks'[x] = <<>> <=> blocks[x] = <<>>
    BY <2>1, MainAged
  <2>3. wait' = wait
    BY <1>4 DEF AwaitBare
  <2>4. wait'[x] = Awake /\ wait'[x] # AtJoin
    BY <2>1, <2>3 DEF Awake, AtJoin
  <2>. QED  BY <2>2, <2>3, <2>4, MainBody
<1>5. ASSUME NEW x \in Coroutines, EndBlock(x)
      PROVE  MainStep
  <2>1. blocks' = Aged(x) /\ wait[x] = Awake
    BY <1>5 DEF EndBlock, InCode
  <2>2. /\ \A y \in Coroutines \ {x} : blocks'[y] = blocks[y]
        /\ x = Main => \A b \in DOMAIN blocks'[x] : ~blocks'[x][b].split
        /\ blocks'[x] = <<>> <=> blocks[x] = <<>>
    BY <2>1, MainAged
  <2>3. CASE wait' = wait
    <3>1. wait'[x] = Awake /\ wait'[x] # AtJoin
      BY <2>1, <2>3 DEF Awake, AtJoin
    <3>. QED  BY <2>2, <2>3, <3>1, MainBody
  <2>4. CASE wait' = [wait EXCEPT ![x] = AtJoin] /\ x # Main
    <3>1. wait'[x] = AtJoin /\ \A y \in Coroutines \ {x} : wait'[y] = wait[y]
      BY <2>4 DEF IInv, Base
    <3>2. wait'[x] = AtJoin => blocks'[x] # <<>>
      BY <1>5, <2>2 DEF EndBlock, Inside
    <3>. QED  BY <2>2, <2>4, <3>1, <3>2, MainBody
  <2>5. wait' = wait \/ (wait' = [wait EXCEPT ![x] = AtJoin] /\ x # Main)
    <3>1. Block(x).split => x # Main
      <4>1. ASSUME x = Main
            PROVE  ~Block(x).split
        <5>1. blocks[x] \in Seq(BlockRecords) /\ blocks[x] # <<>>
          BY <1>5 DEF EndBlock, Inside, IInv, Base
        <5>2. Len(blocks[x]) \in DOMAIN blocks[x]
          BY <5>1
        <5>3. ~blocks[x][Len(blocks[x])].split
          BY <4>1, <5>2 DEF IInv, Alternates
        <5>. QED  BY <5>3 DEF Block, Last
      <4>. QED  BY <4>1
    <3>. QED  BY <1>5, <3>1 DEF EndBlock
  <2>. QED  BY <2>3, <2>4, <2>5
<1>6. ASSUME NEW x \in Coroutines, Return(x)
      PROVE  MainStep
  BY <1>6, MainStill DEF Return, sched, used, code, ghost, Push, vars
<1>7. ASSUME NEW x \in Coroutines, NEW t \in Named(x), cancel_task(x, t)
      PROVE  MainStep
  BY <1>7, MainStill DEF cancel_task, sched, used, code, ghost, Push, vars
<1>8. ASSUME NEW x \in Coroutines, NEW t \in Named(x),
             NEW how \in {"await", "join_task"}, Await(x, t, how)
      PROVE  MainStep
  <2>1. blocks' = Aged(x) /\ wait[x] = Awake
    BY <1>8 DEF Await, InCode
  <2>2. /\ \A y \in Coroutines \ {x} : blocks'[y] = blocks[y]
        /\ x = Main => \A b \in DOMAIN blocks'[x] : ~blocks'[x][b].split
        /\ blocks'[x] = <<>> <=> blocks[x] = <<>>
    BY <2>1, MainAged
  <2>3. CASE wait' = wait
    <3>1. wait'[x] = Awake /\ wait'[x] # AtJoin
      BY <2>1, <2>3 DEF Awake, AtJoin
    <3>. QED  BY <2>2, <2>3, <3>1, MainBody
  <2>4. CASE wait' = [wait EXCEPT ![x] = t] /\ x # Main
    <3>1. wait'[x] = t /\ \A y \in Coroutines \ {x} : wait'[y] = wait[y]
      BY <2>4 DEF IInv, Base
    <3>2. wait'[x] = AtJoin => blocks'[x] # <<>>
      <4>1. t \in 1..made /\ made \in Nat
        BY DEF Named, IInv, Base
      <4>2. t # -2
        BY <4>1
      <4>. QED  BY <3>1, <4>2 DEF AtJoin
    <3>. QED  BY <2>2, <2>4, <3>1, <3>2, MainBody
  <2>5. wait' = wait \/ (wait' = [wait EXCEPT ![x] = t] /\ x # Main)
    BY <1>8 DEF Await, Sync
  <2>. QED  BY <2>3, <2>4, <2>5
<1>9. ASSUME NEW x \in Coroutines, ResumeAwait(x)
      PROVE  MainStep
  <2>1. blocks' = blocks /\ wait' = [wait EXCEPT ![x] = Awake]
    BY <1>9 DEF ResumeAwait
  <2>2. wait'[x] = Awake /\ \A y \in Coroutines \ {x} : wait'[y] = wait[y]
    BY <2>1 DEF IInv, Base
  <2>3. x = Main => \A b \in DOMAIN blocks'[x] : ~blocks'[x][b].split
    BY <2>1 DEF IInv, Alternates
  <2>4. wait'[x] # AtJoin
    BY <2>2 DEF Awake, AtJoin
  <2>. QED  BY <2>1, <2>2, <2>3, <2>4, MainBody
<1>10. ASSUME NEW x \in Coroutines, ResumeJoin(x)
      PROVE  MainStep
  <2>1. blocks[x] # <<>>
    BY <1>10, LeavesInside DEF ResumeJoin, Inside
  <2>2. blocks' = [blocks EXCEPT ![x] = Front(@)] /\ wait' = [wait EXCEPT ![x] = Awake]
    BY <1>10 DEF ResumeJoin
  <2>3. wait'[x] = Awake /\ \A y \in Coroutines \ {x} : wait'[y] = wait[y]
    BY <2>2 DEF IInv, Base
  <2>. QED  BY <2>1, <2>2, <2>3, MainShorter
<1>11. ASSUME NEW x \in Coroutines, ResumeCancelled(x)
      PROVE  MainStep
  BY <1>11, MainStill DEF ResumeCancelled, sched, used, code, ghost, Push, vars
<1>12. ASSUME NEW x \in Coroutines, Suspend(x)
      PROVE  MainStep
  BY <1>12, MainStill DEF Suspend, sched, used, code, ghost, Push, vars
<1>13. CASE DriveReady
  BY <1>13, MainStill DEF DriveReady, sched, used, code, ghost, Push, vars
<1>14. CASE DriveCancelled
  BY <1>14, MainStill DEF DriveCancelled, sched, used, code, ghost, Push, vars
<1>15. CASE DriveBare
  BY <1>15, MainStill DEF DriveBare, sched, used, code, ghost, Push, vars
<1>16. CASE BeginRound
  BY <1>16, MainStill DEF BeginRound, sched, used, code, ghost, Push, vars
<1>17. CASE RoundPoll
  BY <1>17, MainStill DEF RoundPoll, sched, used, code, ghost, Push, vars
<1>18. CASE ScopeEnd
  <2>1. Looping /\ Loop.k = "join" /\ wait' = wait
    BY <1>18 DEF ScopeEnd, RoundOver, Drained, Lost, IInv
  <2>2. CASE Lost
    BY <1>18, <2>2, MainStill DEF ScopeEnd
  <2>3. CASE ~Lost
    <3>1. blocks' = [blocks EXCEPT ![Driver] = Front(@)]
      BY <1>18, <2>3 DEF ScopeEnd
    <3>2. PICK d \in Coroutines : d = Driver /\ blocks[d] # <<>> /\ wait[d] = Awake
      BY <2>1, JoinTop DEF Inside
    <3>. QED  BY <2>1, <3>1, <3>2, MainShorter
  <2>. QED  BY <2>2, <2>3
<1>19. CASE RoundAgain
  BY <1>19, MainStill DEF RoundAgain, sched, used, code, ghost, Push, vars
<1>20. CASE Exited
  BY <1>20, MainStill DEF Exited, sched, used, code, ghost, Push, vars
<1>. QED
  BY <1>1, <1>2, <1>3, <1>4, <1>5, <1>6, <1>7, <1>8, <1>9, <1>10, <1>11, <1>12, <1>13,
       <1>14, <1>15, <1>16, <1>17, <1>18, <1>19, <1>20
     DEF Next, Body, Scheduler

--------------------------------------------------------------------------------
(* Open slots and blocks, action by action.                                 *)

LEMMA EnoughStill ==
  ASSUME IInv, closed' = closed,
         \A y \in Coroutines : DOMAIN blocks'[y] = DOMAIN blocks[y]
  PROVE  Enough'
<1>1. Blocks' = Blocks
  BY DEF Blocks
<1>2. OpenSlots' = OpenSlots
  BY DEF OpenSlots
<1>. QED  BY <1>1, <1>2 DEF IInv, Enough

LEMMA EnoughShorter ==
  ASSUME IInv, NEW d \in Coroutines, blocks[d] # <<>>, blocks' = [blocks EXCEPT ![d] = Front(@)],
         NEW si, OpenSlots' = OpenSlots \/ OpenSlots' = OpenSlots \ {si}
  PROVE  Enough'
<1>1. /\ \A y \in Coroutines \ {d} : blocks'[y] = blocks[y]
      /\ DOMAIN blocks[d] = 1..Len(blocks[d]) /\ Len(blocks[d]) \in Nat \ {0}
      /\ DOMAIN blocks'[d] = 1..(Len(blocks[d]) - 1)
  BY Shorter DEF IInv
<1>. DEFINE p == <<d, Len(blocks[d])>>
<1>2. p \in Blocks
  BY <1>1 DEF Blocks
<1>3. Blocks' = Blocks \ {p}
  <2>1. ASSUME NEW q \in Coroutines \X Nat
        PROVE  q[2] \in DOMAIN blocks'[q[1]] <=> q[2] \in DOMAIN blocks[q[1]] /\ q # p
    <3>0. q[1] \in Coroutines /\ q[2] \in Nat /\ q = <<q[1], q[2]>>
      OBVIOUS
    <3>1. CASE q[1] # d
      BY <1>1, <3>0, <3>1
    <3>2. CASE q[1] = d
      <4>1. q # p <=> q[2] # Len(blocks[d])
        BY <3>0, <3>2
      <4>2. q[2] \in 1..(Len(blocks[d]) - 1) <=> q[2] \in 1..Len(blocks[d]) /\ q[2] # Len(blocks[d])
        BY <1>1, <3>0
      <4>. QED  BY <1>1, <3>2, <4>1, <4>2
    <3>. QED  BY <3>1, <3>2
  <2>. HIDE DEF p
  <2>. QED  BY <2>1 DEF Blocks
<1>4. IsFiniteSet(Blocks) /\ Cardinality(Blocks) <= Cardinality(OpenSlots)
  BY DEF IInv, Enough
<1>. HIDE DEF p
<1>5. IsFiniteSet(Blocks') /\ Cardinality(Blocks') = Cardinality(Blocks) - 1
  BY <1>2, <1>3, <1>4, FS_RemoveElement
<1>6. IsFiniteSet(OpenSlots) /\ Cardinality(OpenSlots) \in Nat
  BY SlotsFinite DEF IInv
<1>7. Cardinality(OpenSlots') \in {Cardinality(OpenSlots), Cardinality(OpenSlots) - 1}
  BY <1>6, FS_RemoveElement
<1>8. Cardinality(Blocks) \in Nat
  BY <1>4, FS_CardinalityType
<1>9. Cardinality(OpenSlots') \in Int /\ Cardinality(OpenSlots') >= Cardinality(OpenSlots) - 1
  BY <1>6, <1>7
<1>10. Cardinality(Blocks') <= Cardinality(OpenSlots')
  BY <1>4, <1>5, <1>6, <1>8, <1>9
<1>. QED  BY <1>5, <1>10 DEF Enough

LEMMA EnoughSteps ==
  ASSUME IInv, Next
  PROVE  Enough'
<1>1. ASSUME NEW x \in Coroutines, NEW split \in BOOLEAN, Open(x, split)
      PROVE  Enough'
  <2>1. blocks \in [Coroutines -> Seq(BlockRecords)] /\ closed \in Seq(BOOLEAN)
    BY DEF IInv, Base
  <2>2. closed' = Append(closed, FALSE)
    BY <1>1 DEF Open
  <2>3. PICK r : blocks' = [blocks EXCEPT ![x] = Append(@, r)]
    BY <1>1 DEF Open
  <2>4. blocks'[x] = Append(blocks[x],
       r) /\ \A y \in Coroutines \ {x} : blocks'[y] = blocks[y]
    BY <2>1, <2>3
  <2>5. PICK l \in Nat : /\ l = Len(blocks[x]) /\ DOMAIN blocks[x] = 1..l
                         /\ DOMAIN blocks'[x] = 1..(l + 1)
    <3>1. blocks[x] \in Seq(BlockRecords)
      BY <2>1
    <3>2. Len(blocks[x]) \in Nat /\ DOMAIN blocks[x] = 1..Len(blocks[x])
      BY <3>1
    <3>3. DOMAIN Append(blocks[x], r) = 1..(Len(blocks[x]) + 1)
      BY <3>1
    <3>. QED  BY <2>4, <3>2, <3>3
  <2>6. Blocks' = Blocks \union {<<x, l + 1>>} /\ <<x, l + 1>> \notin Blocks
    <3>1. ASSUME NEW q \in Coroutines \X Nat
          PROVE  q[2] \in DOMAIN blocks'[q[1]] <=> q[2] \in DOMAIN blocks[q[1]] \/ q = <<x,
               l + 1>>
      <4>0. q[1] \in Coroutines /\ q[2] \in Nat /\ q = <<q[1], q[2]>>
        OBVIOUS
      <4>1. CASE q[1] # x
        BY <2>4, <4>0, <4>1
      <4>2. CASE q[1] = x
        <5>1. q = <<x, l + 1>> <=> q[2] = l + 1
          BY <4>0, <4>2
        <5>2. q[2] \in 1..(l + 1) <=> q[2] \in 1..l \/ q[2] = l + 1
          BY <4>0
        <5>. QED  BY <2>5, <4>2, <5>1, <5>2
      <4>. QED  BY <4>1, <4>2
    <3>2. <<x, l + 1>> \in Coroutines \X Nat
      OBVIOUS
    <3>3. l + 1 \notin DOMAIN blocks[x]
      BY <2>5
    <3>4. <<x, l + 1>> \notin Blocks
      BY <3>3 DEF Blocks
    <3>5. Blocks' = Blocks \union {<<x, l + 1>>}
      <4>. DEFINE p == <<x, l + 1>>
      <4>1. p \in Coroutines \X Nat
        BY <3>2
      <4>2. \A q \in Coroutines \X Nat :
              q[2] \in DOMAIN blocks'[q[1]] <=> q[2] \in DOMAIN blocks[q[1]] \/ q = p
        BY <3>1
      <4>. HIDE DEF p
      <4>3. Blocks' = Blocks \union {p}
        BY <4>1, <4>2 DEF Blocks
      <4>. QED  BY <4>3 DEF p
    <3>. QED  BY <3>4, <3>5
  <2>7. OpenSlots' = OpenSlots \union {Len(closed) + 1} /\ Len(closed) + 1 \notin OpenSlots
    <3>1. Len(closed) \in Nat /\ DOMAIN closed = 1..Len(closed)
      BY <2>1
    <3>2. DOMAIN closed' = 1..(Len(closed) + 1) /\ closed'[Len(closed) + 1] = FALSE
          /\ \A j \in 1..Len(closed) : closed'[j] = closed[j]
      BY <2>1, <2>2
    <3>3. \A j : j \in 1..(Len(closed) + 1) <=> j \in 1..Len(closed) \/ j = Len(closed) + 1
      BY <3>1
    <3>4. Len(closed) + 1 \notin 1..Len(closed)
      BY <3>1
    <3>. QED  BY <3>1, <3>2, <3>3, <3>4 DEF OpenSlots
  <2>8. IsFiniteSet(Blocks) /\ Cardinality(Blocks) <= Cardinality(OpenSlots)
    BY DEF IInv, Enough
  <2>9. IsFiniteSet(Blocks') /\ Cardinality(Blocks') = Cardinality(Blocks) + 1
    BY <2>6, <2>8, FS_AddElement
  <2>10. IsFiniteSet(OpenSlots) /\ Cardinality(OpenSlots) \in Nat
    BY SlotsFinite DEF IInv
  <2>11. Cardinality(OpenSlots') = Cardinality(OpenSlots) + 1
    BY <2>7, <2>10, FS_AddElement
  <2>12. Cardinality(Blocks) \in Nat
    BY <2>8, FS_CardinalityType
  <2>13. Cardinality(Blocks') <= Cardinality(OpenSlots')
    BY <2>8, <2>9, <2>10, <2>11, <2>12
  <2>. QED  BY <2>9, <2>13 DEF Enough
<1>2. ASSUME NEW x \in Coroutines, Spawn(x)
      PROVE  Enough'
  BY <1>2, EnoughStill DEF Spawn, sched, used, code, ghost, Push, vars
<1>3. ASSUME NEW x \in Coroutines, Nap(x)
      PROVE  Enough'
  <2>1. blocks' = Aged(x) /\ closed' = closed
    BY <1>3 DEF Nap, sched
  <2>2. \A y \in Coroutines : DOMAIN blocks'[y] = DOMAIN blocks[y]
    BY <2>1, AgedFacts DEF IInv
  <2>. QED  BY <2>1, <2>2, EnoughStill
<1>4. ASSUME NEW x \in Coroutines, AwaitBare(x)
      PROVE  Enough'
  <2>1. blocks' = Aged(x) /\ closed' = closed
    BY <1>4 DEF AwaitBare, sched
  <2>2. \A y \in Coroutines : DOMAIN blocks'[y] = DOMAIN blocks[y]
    BY <2>1, AgedFacts DEF IInv
  <2>. QED  BY <2>1, <2>2, EnoughStill
<1>5. ASSUME NEW x \in Coroutines, EndBlock(x)
      PROVE  Enough'
  <2>1. blocks' = Aged(x) /\ closed' = closed
    BY <1>5 DEF EndBlock, sched
  <2>2. \A y \in Coroutines : DOMAIN blocks'[y] = DOMAIN blocks[y]
    BY <2>1, AgedFacts DEF IInv
  <2>. QED  BY <2>1, <2>2, EnoughStill
<1>6. ASSUME NEW x \in Coroutines, Return(x)
      PROVE  Enough'
  BY <1>6, EnoughStill DEF Return, sched, used, code, ghost, Push, vars
<1>7. ASSUME NEW x \in Coroutines, NEW t \in Named(x), cancel_task(x, t)
      PROVE  Enough'
  BY <1>7, EnoughStill DEF cancel_task, sched, used, code, ghost, Push, vars
<1>8. ASSUME NEW x \in Coroutines, NEW t \in Named(x),
             NEW how \in {"await", "join_task"}, Await(x, t, how)
      PROVE  Enough'
  <2>1. blocks' = Aged(x) /\ closed' = closed
    BY <1>8 DEF Await, sched
  <2>2. \A y \in Coroutines : DOMAIN blocks'[y] = DOMAIN blocks[y]
    BY <2>1, AgedFacts DEF IInv
  <2>. QED  BY <2>1, <2>2, EnoughStill
<1>9. ASSUME NEW x \in Coroutines, ResumeAwait(x)
      PROVE  Enough'
  BY <1>9, EnoughStill DEF ResumeAwait, sched, used, code, ghost, Push, vars
<1>10. ASSUME NEW x \in Coroutines, ResumeJoin(x)
      PROVE  Enough'
  <2>1. Block(x) \in BlockRecords /\ Base /\ blocks[x] # <<>>
    BY <1>10, LeavesInside DEF ResumeJoin, IInv, Inside
  <2>2. blocks' = [blocks EXCEPT ![x] = Front(@)]
    BY <1>10 DEF ResumeJoin
  <2>3. PICK si : si = Block(x).si
    OBVIOUS
  <2>4. OpenSlots' = OpenSlots \/ OpenSlots' = OpenSlots \ {si}
    <3>1. CASE Block(x).si \in DOMAIN scopes
      <4>1. si \in 1..Len(scopes)
        BY <2>1, <2>3, <3>1 DEF Base
      <4>. QED  BY <1>10, <2>1, <2>3, <3>1, <4>1, CloseFacts DEF ResumeJoin
    <3>2. CASE Block(x).si \notin DOMAIN scopes
      BY <1>10, <3>2 DEF ResumeJoin, OpenSlots
    <3>. QED  BY <3>1, <3>2
  <2>. QED  BY <2>1, <2>2, <2>4, EnoughShorter
<1>11. ASSUME NEW x \in Coroutines, ResumeCancelled(x)
      PROVE  Enough'
  BY <1>11, EnoughStill DEF ResumeCancelled, sched, used, code, ghost, Push, vars
<1>12. ASSUME NEW x \in Coroutines, Suspend(x)
      PROVE  Enough'
  BY <1>12, EnoughStill DEF Suspend, sched, used, code, ghost, Push, vars
<1>13. CASE DriveReady
  BY <1>13, EnoughStill DEF DriveReady, sched, used, code, ghost, Push, vars
<1>14. CASE DriveCancelled
  BY <1>14, EnoughStill DEF DriveCancelled, sched, used, code, ghost, Push, vars
<1>15. CASE DriveBare
  BY <1>15, EnoughStill DEF DriveBare, sched, used, code, ghost, Push, vars
<1>16. CASE BeginRound
  BY <1>16, EnoughStill DEF BeginRound, sched, used, code, ghost, Push, vars
<1>17. CASE RoundPoll
  BY <1>17, EnoughStill DEF RoundPoll, sched, used, code, ghost, Push, vars
<1>18. CASE ScopeEnd
  <2>1. Looping /\ Loop.k = "join" /\ Base
    BY <1>18 DEF ScopeEnd, RoundOver, Drained, Lost, IInv
  <2>2. CASE Lost
    BY <1>18, <2>2, EnoughStill DEF ScopeEnd
  <2>3. CASE ~Lost
    <3>1. close_scope(innermost_open) /\ blocks' = [blocks EXCEPT ![Driver] = Front(@)]
      BY <1>18, <2>3 DEF ScopeEnd
    <3>2. PICK d \in Coroutines : d = Driver /\ blocks[d] # <<>>
      BY <2>1, JoinTop DEF Inside
    <3>3. PICK si \in 1..Len(scopes) : si = innermost_open
      BY <2>1, JoinTop
    <3>4. OpenSlots' = OpenSlots \ {si}
      BY <2>1, <3>1, <3>3, CloseFacts
    <3>. QED  BY <3>1, <3>2, <3>4, EnoughShorter
  <2>. QED  BY <2>2, <2>3
<1>19. CASE RoundAgain
  BY <1>19, EnoughStill DEF RoundAgain, sched, used, code, ghost, Push, vars
<1>20. CASE Exited
  BY <1>20, EnoughStill DEF Exited, sched, used, code, ghost, Push, vars
<1>. QED
  BY <1>1, <1>2, <1>3, <1>4, <1>5, <1>6, <1>7, <1>8, <1>9, <1>10, <1>11, <1>12, <1>13,
       <1>14, <1>15, <1>16, <1>17, <1>18, <1>19, <1>20
     DEF Next, Body, Scheduler

--------------------------------------------------------------------------------
(* The rest of the types, action by action.                                 *)

Rest ==
  /\ closed # <<>> => ~Last(closed)
  /\ timers \subseteq Coroutines
  /\ mode \in {"running", "ended", "E0010", "E0056", "panic"}

LEMMA RestStill ==
  ASSUME Rest, closed' = closed, timers' \subseteq Coroutines,
         mode' = mode \/ mode' \in {"ended", "E0010", "E0056", "panic"}
  PROVE  Rest'
<1>. QED  BY DEF Rest

LEMMA RestSteps ==
  ASSUME IInv, Rest, Next
  PROVE  Rest'
<1>1. ASSUME NEW x \in Coroutines, NEW split \in BOOLEAN, Open(x, split)
      PROVE  Rest'
  <2>1. closed \in Seq(BOOLEAN) /\ closed' = Append(closed, FALSE) /\ UNCHANGED <<timers,
       mode>>
    BY <1>1 DEF Open, IInv, Base
  <2>2. ~Last(closed')
    BY <2>1 DEF Last
  <2>. QED  BY <2>1, <2>2 DEF Rest
<1>2. ASSUME NEW x \in Coroutines, Spawn(x)
      PROVE  Rest'
  <2>1. closed' = closed /\ timers' \subseteq Coroutines
    BY <1>2 DEF Spawn, sched, vars, Rest
  <2>2. mode' = mode \/ mode' \in {"ended", "E0010", "E0056", "panic"}
    BY <1>2 DEF Spawn, Back, vars
  <2>. QED  BY <2>1, <2>2, RestStill
<1>3. ASSUME NEW x \in Coroutines, Nap(x)
      PROVE  Rest'
  <2>1. closed' = closed /\ timers' \subseteq Coroutines
    BY <1>3 DEF Nap, sched, vars, Rest
  <2>2. mode' = mode \/ mode' \in {"ended", "E0010", "E0056", "panic"}
    BY <1>3 DEF Nap, Back, vars
  <2>. QED  BY <2>1, <2>2, RestStill
<1>4. ASSUME NEW x \in Coroutines, AwaitBare(x)
      PROVE  Rest'
  <2>1. closed' = closed /\ timers' \subseteq Coroutines
    BY <1>4 DEF AwaitBare, sched, vars, Rest
  <2>2. mode' = mode \/ mode' \in {"ended", "E0010", "E0056", "panic"}
    BY <1>4 DEF AwaitBare, Back, vars
  <2>. QED  BY <2>1, <2>2, RestStill
<1>5. ASSUME NEW x \in Coroutines, EndBlock(x)
      PROVE  Rest'
  <2>1. closed' = closed /\ timers' \subseteq Coroutines
    BY <1>5 DEF EndBlock, sched, vars, Rest
  <2>2. mode' = mode \/ mode' \in {"ended", "E0010", "E0056", "panic"}
    BY <1>5 DEF EndBlock, Back, vars
  <2>. QED  BY <2>1, <2>2, RestStill
<1>6. ASSUME NEW x \in Coroutines, Return(x)
      PROVE  Rest'
  <2>1. closed' = closed /\ timers' \subseteq Coroutines
    BY <1>6 DEF Return, sched, vars, Rest
  <2>2. mode' = mode \/ mode' \in {"ended", "E0010", "E0056", "panic"}
    BY <1>6 DEF Return, Back, vars
  <2>. QED  BY <2>1, <2>2, RestStill
<1>7. ASSUME NEW x \in Coroutines, NEW t \in Named(x), cancel_task(x, t)
      PROVE  Rest'
  <2>1. closed' = closed /\ timers' \subseteq Coroutines
    BY <1>7 DEF cancel_task, sched, vars, Rest
  <2>2. mode' = mode \/ mode' \in {"ended", "E0010", "E0056", "panic"}
    BY <1>7 DEF cancel_task, Back, vars
  <2>. QED  BY <2>1, <2>2, RestStill
<1>8. ASSUME NEW x \in Coroutines, NEW t \in Named(x),
             NEW how \in {"await", "join_task"}, Await(x, t, how)
      PROVE  Rest'
  <2>1. closed' = closed /\ timers' \subseteq Coroutines
    BY <1>8 DEF Await, sched, vars, Rest
  <2>2. mode' = mode \/ mode' \in {"ended", "E0010", "E0056", "panic"}
    BY <1>8 DEF Await, Back, vars
  <2>. QED  BY <2>1, <2>2, RestStill
<1>9. ASSUME NEW x \in Coroutines, ResumeAwait(x)
      PROVE  Rest'
  <2>1. closed' = closed /\ timers' \subseteq Coroutines
    BY <1>9 DEF ResumeAwait, sched, vars, Rest
  <2>2. mode' = mode \/ mode' \in {"ended", "E0010", "E0056", "panic"}
    BY <1>9 DEF ResumeAwait, Back, vars
  <2>. QED  BY <2>1, <2>2, RestStill
<1>10. ASSUME NEW x \in Coroutines, ResumeJoin(x)
      PROVE  Rest'
  <2>1. Base /\ UNCHANGED <<timers, mode>>
    BY <1>10 DEF ResumeJoin, IInv
  <2>2. CASE Block(x).si \in DOMAIN scopes
    <3>1. PICK si \in 1..Len(scopes) : si = Block(x).si
      BY <2>1, <2>2 DEF Base
    <3>2. closed' # <<>> => ~Last(closed')
      BY <1>10, <2>1, <2>2, <3>1, CloseFacts DEF ResumeJoin
    <3>. QED  BY <2>1, <3>2 DEF Rest
  <2>3. CASE Block(x).si \notin DOMAIN scopes
    BY <1>10, <2>1, <2>3 DEF ResumeJoin, Rest
  <2>. QED  BY <2>2, <2>3
<1>11. ASSUME NEW x \in Coroutines, ResumeCancelled(x)
      PROVE  Rest'
  <2>1. closed' = closed /\ timers' \subseteq Coroutines
    BY <1>11 DEF ResumeCancelled, sched, vars, Rest
  <2>2. mode' = mode \/ mode' \in {"ended", "E0010", "E0056", "panic"}
    BY <1>11 DEF ResumeCancelled, Back, vars
  <2>. QED  BY <2>1, <2>2, RestStill
<1>12. ASSUME NEW x \in Coroutines, Suspend(x)
      PROVE  Rest'
  <2>1. closed' = closed /\ timers' \subseteq Coroutines
    BY <1>12 DEF Suspend, sched, vars, Rest
  <2>2. mode' = mode \/ mode' \in {"ended", "E0010", "E0056", "panic"}
    BY <1>12 DEF Suspend, Back, vars
  <2>. QED  BY <2>1, <2>2, RestStill
<1>13. CASE DriveReady
  <2>1. closed' = closed /\ timers' \subseteq Coroutines
    BY <1>13 DEF DriveReady, sched, vars, Rest
  <2>2. mode' = mode \/ mode' \in {"ended", "E0010", "E0056", "panic"}
    BY <1>13 DEF DriveReady, Back, vars
  <2>. QED  BY <2>1, <2>2, RestStill
<1>14. CASE DriveCancelled
  <2>1. closed' = closed /\ timers' \subseteq Coroutines
    BY <1>14 DEF DriveCancelled, sched, vars, Rest
  <2>2. mode' = mode \/ mode' \in {"ended", "E0010", "E0056", "panic"}
    BY <1>14 DEF DriveCancelled, Back, vars
  <2>. QED  BY <2>1, <2>2, RestStill
<1>15. CASE DriveBare
  <2>1. closed' = closed /\ timers' \subseteq Coroutines
    BY <1>15 DEF DriveBare, sched, vars, Rest
  <2>2. mode' = mode \/ mode' \in {"ended", "E0010", "E0056", "panic"}
    BY <1>15 DEF DriveBare, Back, vars
  <2>. QED  BY <2>1, <2>2, RestStill
<1>16. CASE BeginRound
  <2>1. closed' = closed /\ timers' \subseteq Coroutines
    BY <1>16 DEF BeginRound, sched, vars, Rest
  <2>2. mode' = mode \/ mode' \in {"ended", "E0010", "E0056", "panic"}
    BY <1>16 DEF BeginRound, Back, vars
  <2>. QED  BY <2>1, <2>2, RestStill
<1>17. CASE RoundPoll
  <2>1. closed' = closed /\ timers' \subseteq Coroutines
    BY <1>17 DEF RoundPoll, sched, vars, Rest
  <2>2. mode' = mode \/ mode' \in {"ended", "E0010", "E0056", "panic"}
    BY <1>17 DEF RoundPoll, Back, vars
  <2>. QED  BY <2>1, <2>2, RestStill
<1>18. CASE ScopeEnd
  <2>1. Looping /\ Loop.k = "join" /\ Base /\ timers' = timers
    BY <1>18 DEF ScopeEnd, RoundOver, Drained, Lost, IInv
  <2>2. CASE Lost
    BY <1>18, <2>1, <2>2 DEF ScopeEnd, Rest
  <2>3. CASE ~Lost
    <3>1. close_scope(innermost_open) /\ mode' = mode
      BY <1>18, <2>3 DEF ScopeEnd
    <3>2. PICK si \in 1..Len(scopes) : si = innermost_open
      BY <2>1, JoinTop
    <3>3. closed' # <<>> => ~Last(closed')
      BY <2>1, <3>1, <3>2, CloseFacts
    <3>. QED  BY <2>1, <3>1, <3>3 DEF Rest
  <2>. QED  BY <2>2, <2>3
<1>19. CASE RoundAgain
  <2>1. closed' = closed /\ timers' \subseteq Coroutines
    BY <1>19 DEF RoundAgain, sched, vars, Rest
  <2>2. mode' = mode \/ mode' \in {"ended", "E0010", "E0056", "panic"}
    BY <1>19 DEF RoundAgain, Back, vars
  <2>. QED  BY <2>1, <2>2, RestStill
<1>20. CASE Exited
  <2>1. closed' = closed /\ timers' \subseteq Coroutines
    BY <1>20 DEF Exited, sched, vars, Rest
  <2>2. mode' = mode \/ mode' \in {"ended", "E0010", "E0056", "panic"}
    BY <1>20 DEF Exited, Back, vars
  <2>. QED  BY <2>1, <2>2, RestStill
<1>. QED
  BY <1>1, <1>2, <1>3, <1>4, <1>5, <1>6, <1>7, <1>8, <1>9, <1>10, <1>11, <1>12, <1>13,
       <1>14, <1>15, <1>16, <1>17, <1>18, <1>19, <1>20
     DEF Next, Body, Scheduler

--------------------------------------------------------------------------------
(* The theorems.                                                            *)

LEMMA InitHolds ==
  ASSUME Init
  PROVE  IInv
<1>0. MaxTasks \in Nat /\ 0 \in Coroutines /\ 0 \in 0..MaxTasks /\ 0 \in 0..MaxBlocks
  BY TaskBounds DEF Coroutines
<1>1. Base
  <2>1. scopes \in Seq(Seq(Bodies)) /\ closed \in Seq(BOOLEAN) /\ Len(scopes) = Len(closed)
    BY DEF Init
  <2>2. task \in [Bodies -> Records] /\ handle \in [Bodies -> Places]
    BY <1>0 DEF Init, Records, Places, Nowhere
  <2>3. blocks \in [Coroutines -> Seq(BlockRecords)] /\ from \in [Bodies -> Nat]
    BY DEF Init
  <2>4. wait \in [Coroutines -> {Awake, AtTimer, AtJoin} \union Bodies]
    BY DEF Init
  <2>5. stack \in Seq(CodeFrames \union LoopFrames)
    <3>1. Code(Main) \in CodeFrames \union LoopFrames
      BY <1>0 DEF Code, Main, CodeFrames
    <3>. QED  BY <3>1 DEF Init
  <2>. QED  BY <1>0, <2>1, <2>2, <2>3, <2>4, <2>5 DEF Init, Base
<1>2. Len(stack) = 1 /\ stack[1] = Code(Main) /\ stack # <<>>
  BY DEF Init
<1>3. \A i \in 2..Len(stack) : FALSE
  BY <1>2
<1>4. \A x \in Coroutines : blocks[x] = <<>> /\ wait[x] = Awake
  BY DEF Init
<1>5. Started
  BY DEF Init, Started, Bare
<1>6. Alternates
  <2>1. Main \in Coroutines
    BY <1>0 DEF Main
  <2>2. DOMAIN blocks[Main] = {} /\ wait[Main] = Awake
    BY <1>4, <2>1
  <2>. QED  BY <1>2, <1>3, <2>2 DEF Alternates
<1>7. Polls
  BY <1>3 DEF Polls
<1>8. DOMAIN stack = {1}
  BY DEF Init
<1>9. Bares /\ NotReentered
  BY <1>8 DEF Bares, NotReentered
<1>10. Joining
  <2>1. \A x \in Coroutines : wait[x] # AtJoin
    BY <1>4 DEF Awake, AtJoin
  <2>. QED  BY <1>3, <2>1 DEF Joining
<1>11. Enough
  <2>1. Blocks = {}
    <3>1. \A x \in Coroutines : DOMAIN blocks[x] = {}
      BY <1>4
    <3>. QED  BY <3>1 DEF Blocks
  <2>2. OpenSlots = {}
    BY DEF Init, OpenSlots
  <2>3. IsFiniteSet({}) /\ Cardinality({}) = 0
    BY FS_EmptySet
  <2>. QED  BY <2>1, <2>2, <2>3 DEF Enough
<1>. QED  BY <1>1, <1>5, <1>6, <1>7, <1>9, <1>10, <1>11 DEF IInv

LEMMA NextKeeps ==
  ASSUME IInv, Next
  PROVE  IInv'
<1>1. DataStep
  BY TypesSteps, TableSteps, HandleSteps, MainSteps DEF DataStep
<1>2. StackStep
  BY StackSteps
<1>3. Base'
  BY <1>1, <1>2 DEF Base, DataStep, TypesStep, StackStep
<1>4. Started' /\ Alternates' /\ Polls' /\ Bares' /\ Joining' /\ NotReentered'
  BY <1>1, <1>2, StartedKept, AlternatesKept, PollsKept, BaresKept, JoiningKept, NotReenteredKept
<1>5. Enough'
  BY EnoughSteps
<1>. QED  BY <1>3, <1>4, <1>5 DEF IInv

LEMMA StutterKeeps ==
  ASSUME IInv, UNCHANGED vars
  PROVE  IInv'
<1>1. UNCHANGED <<scopes, closed, task, handle, blocks, wait, stack, made, opened, from>>
  BY DEF vars, sched, code, used, ghost
<1>2. Base' /\ Joining' /\ Started' /\ NotReentered'
  BY <1>1 DEF IInv, Base, Joining, Started, Bare, NotReentered
<1>3. Alternates' /\ Bares'
  BY <1>1 DEF IInv, Alternates, IsCode, Bares, Bare
<1>4. Polls'
  BY <1>1 DEF IInv, Polls, PollOf, IsCode, Bare, At
<1>5. Enough'
  BY <1>1, EnoughStill
<1>. QED  BY <1>2, <1>3, <1>4, <1>5 DEF IInv

\* The inductive invariant of the task scheduler (scheduler.rs): the types of
\* the table and the stack, the alternation of code and loops on the native
\* stack, the mark of every task that is being polled, and enough open slots.
THEOREM Invariance == Spec => []IInv
<1>1. Init => IInv
  BY InitHolds
<1>2. IInv /\ [Next]_vars => IInv'
  BY NextKeeps, StutterKeeps
<1>. QED  BY <1>1, <1>2, PTL DEF Spec

\* `poll_all_scopes_round` never polls a task whose poll is under way, whatever
\* the program does: joins and drives nested in polls, tasks cancelled while
\* they run, blocks closed under other tasks.  No step is entered twice.
THEOREM StepsAreNotReentered == Spec => []NotReentered
<1>1. IInv => NotReentered
  BY DEF IInv
<1>. QED  BY <1>1, Invariance, PTL

\* `innermost_open` expects an open scope and always finds one, whatever the
\* program does: code inside a block (Spawn, ScopeEnd) has a slot that is not a
\* tombstone, and so has the join of a block that is on top of the stack.
InnermostFound ==
  /\ \A x \in Coroutines : Inside(x) => innermost_open \in OpenSlots
  /\ Looping /\ Loop.k = "join" => innermost_open \in OpenSlots
\* The `.expect("an open concurrency scope")` of `innermost_open` never fires.
THEOREM InnermostIsFound == Spec => []InnermostFound
<1>1. IInv => InnermostFound
  BY OpenWhenInside, JoinTop DEF InnermostFound
<1>. QED  BY <1>1, Invariance, PTL

LEMMA TypeFacts ==
  ASSUME IInv, Rest
  PROVE  TypeOK
<1>1. ASSUME NEW si \in DOMAIN scopes
      PROVE  InScope(si) \subseteq Bodies
  <2>1. scopes[si] \in Seq(Bodies)
    BY DEF IInv, Base
  <2>. QED  BY <2>1 DEF InScope, Range
<1>2. ASSUME NEW t \in Bodies
      PROVE  /\ task[t].result \in Coroutines
             /\ {task[t].cancelled, task[t].polling} \subseteq BOOLEAN
  <2>1. task[t] \in Records
    BY DEF IInv, Base
  <2>. QED  BY <2>1 DEF Records
<1>3. /\ Len(scopes) = Len(closed)
      /\ wait \in [Coroutines -> {Awake, AtTimer, AtJoin} \union Bodies]
  BY DEF IInv, Base
<1>. QED  BY <1>1, <1>2, <1>3 DEF Rest, TypeOK

\* The table and its flags keep their types and stay in step, and its last slot
\* is never a tombstone: `close_scope` trims every trailing one.
THEOREM TypesAreKept == Spec => []TypeOK
<1>1. Init => Rest
  BY DEF Init, Rest
<1>2. IInv /\ Rest /\ [Next]_vars => Rest'
  <2>1. ASSUME IInv, Rest, UNCHANGED vars
        PROVE  Rest'
    BY <2>1 DEF vars, sched, Rest
  <2>. QED  BY <2>1, RestSteps
<1>3. IInv /\ Rest => TypeOK
  BY TypeFacts
<1>. QED  BY <1>1, <1>2, <1>3, Invariance, PTL DEF Spec
================================================================================
