--------------------------- MODULE TaskDeadlockProof ---------------------------
(***************************************************************************)
(* E0010 is honest: for programs without any of the careless habits, and   *)
(* any number of tasks, blocks and awaits, a run in which no poll runs a   *)
(* loop of its own and nothing is cancelled is aborted as deadlocked only  *)
(* when coroutines of it really wait for one another.                      *)
(***************************************************************************)
EXTENDS TaskJoinsProof

\* No poll has run a loop of its own, and nothing was cancelled.
Plain == ~nested /\ cancels = 0

\* One loop at most, of the top level, and one poll in it.
Shallow == Len(stack) <= 3

\* What a body waits for is a task it can name, whose block is therefore open.
WaitsNamed == \A x \in Bodies : wait[x] \in Bodies => wait[x] \in Named(x)

\* The scopes a task opens are above the one it is in, so that what it spawns
\* is polled later in the same round.
Above ==
  \A x \in Bodies : ~Bare(x) => \A i \in DOMAIN blocks[x] : blocks[x][i].si > handle[x][1]

\* The loop of the top level drives a body nobody spawned or a task of its own.
Aims(f) ==
  f.k \in {"await", "join_task"} =>
    IF Bare(f.t) THEN f.k = "await" ELSE from[f.t] \in Mine(Main)
Aimed == Len(stack) >= 2 => Aims(stack[2])

\* A body that a poll leaves where it is: its timer has not been reached, a
\* task of its block is unfinished, or the task it awaits is.
Blocked(x) ==
  \/ wait[x] = AtTimer /\ x \in timers
  \/ wait[x] = AtJoin /\ \E t \in InScope(Block(x).si) : ~Over(t)
  \/ wait[x] \in Bodies /\ ~Over(wait[x])

\* In a round in which nothing has completed, every task before the place it
\* has reached is over or still blocked, and the loop still waits.
Settled == {u \in Bodies : Over(u) \/ Blocked(u)}
Unmet == {t \in Bodies : IF Bare(t) THEN Blocked(t) ELSE ~Over(t)}
Idle(f) == f.at # Nowhere /\ ~f.prog
Passed(f, si, ti) == si < f.at[1] \/ (si = f.at[1] /\ ti < f.at[2])
SeenSettled(f) ==
  \A si \in DOMAIN scopes : \A ti \in DOMAIN scopes[si] :
    Passed(f, si, ti) => scopes[si][ti] \in Settled
StillWaits(f) ==
  /\ f.k = "sleep" => Main \in timers
  /\ f.k \in {"await", "join_task"} => f.t \in Unmet
Rounds == Len(stack) >= 2 /\ Idle(stack[2]) => SeenSettled(stack[2]) /\ StillWaits(stack[2])

PInv == Shallow /\ WaitsNamed /\ Above /\ Aimed /\ Rounds
DInv == cancels \in Nat /\ (Plain => PInv /\ DeadlockHonest)

--------------------------------------------------------------------------------
(* The native stack of such a run.                                          *)

LEMMA LoopAtTwo ==
  ASSUME IInv, Shallow, Looping
  PROVE  Len(stack) = 2 /\ Loop = stack[2] /\ Under = stack[1] /\ Driver = Main
         /\ stack[1] = Code(Main) /\ Loop \in LoopFrames
<1>. DEFINE n == Len(stack)
<1>1. n \in Nat /\ n >= 2 /\ n <= 3 /\ Loop = stack[n] /\ Under = stack[n - 1] /\ ~IsCode(n)
      /\ Loop \in LoopFrames
  BY LoopOnTop, Frames DEF Shallow
<1>2. stack[1] = Code(Main)
  BY DEF IInv, Alternates
<1>3. ASSUME n = 3
      PROVE  FALSE
  <2>1. 2 \in 2..Len(stack) /\ 3 \in 2..Len(stack) /\ 2 - 1 = 1 /\ 3 - 1 = 2
    BY <1>3
  <2>2. IsCode(2) # IsCode(1) /\ IsCode(3) # IsCode(2)
    BY <2>1 DEF IInv, Alternates
  <2>3. IsCode(1)
    BY <1>2 DEF IsCode, Code
  <2>. QED  BY <1>1, <1>3, <2>2, <2>3 DEF IsCode
<1>a. n = Len(stack)
  OBVIOUS
<1>. HIDE DEF n
<1>4. n = 2
  BY <1>1, <1>3
<1>5. Driver = Main
  BY <1>1, <1>2, <1>4 DEF Driver, Code
<1>. QED  BY <1>1, <1>2, <1>4, <1>5, <1>a

LEMMA BodyAtThree ==
  ASSUME IInv, Shallow, NEW x \in Bodies, Running(x)
  PROVE  /\ Len(stack) = 3 /\ stack[1] = Code(Main) /\ Under = stack[2] /\ stack[3] = Code(x)
         /\ stack[2] \in LoopFrames /\ x \in 1..made /\ x # Main /\ PollOf(3)
<1>1. x \in Coroutines /\ x # Main
  BY Types
<1>2. /\ stack[Len(stack)] = Code(x) /\ Len(stack) >= 3
      /\ stack[Len(stack) - 1] \in LoopFrames /\ x \in 1..made /\ PollOf(Len(stack))
  BY <1>1, CodeOnTop
<1>3. Len(stack) \in Nat
  BY Frames
<1>4. Len(stack) = 3
  <2>1. Len(stack) >= 3
    BY <1>2
  <2>2. Len(stack) <= 3
    BY DEF Shallow
  <2>3. \A n \in Nat : n >= 3 /\ n <= 3 => n = 3
    OBVIOUS
  <2>. QED  BY <1>3, <2>1, <2>2, <2>3, Zenon
<1>5. Len(stack) - 1 = 2
  BY <1>4
<1>6. Under = stack[2] /\ stack[1] = Code(Main)
  BY <1>5 DEF Under, IInv, Alternates
<1>. QED  BY <1>1, <1>2, <1>4, <1>5, <1>6

\* A body is either the top level, alone on the stack, or polled at the top.
LEMMA WhoRuns ==
  ASSUME IInv, Shallow, NEW x \in Coroutines, Running(x)
  PROVE  \/ x = Main /\ Len(stack) = 1
         \/ x \in Bodies /\ Len(stack) = 3
<1>1. CASE x = Main
  BY <1>1, MainAlone
<1>2. CASE x # Main
  <2>1. x \in Bodies
    BY <1>2, Types
  <2>. QED  BY <2>1, BodyAtThree
<1>. QED  BY <1>1, <1>2

\* A poll that runs a loop of its own ends the plain part of the run.
LEMMA PushesOnce ==
  ASSUME IInv, Shallow, Plain', NEW f \in LoopFrames, Push(f), NEW x \in Coroutines, Running(x)
  PROVE  x = Main /\ Len(stack) = 1 /\ Len(stack') = 2 /\ stack'[2] = f /\ stack'[1] = stack[1]
<1>1. ~(Len(stack) > 1)
  BY DEF Push, Plain
<1>2. x = Main /\ Len(stack) = 1
  <2>1. Len(stack) \in Nat
    BY Frames
  <2>2. \A n \in Nat : ~(n > 1) => n # 3
    OBVIOUS
  <2>3. Len(stack) # 3
    BY <1>1, <2>1, <2>2, Zenon
  <2>. QED  BY <2>3, WhoRuns, Zenon
<1>3. stack \in Seq(CodeFrames \union LoopFrames) /\ stack' = Append(stack, f)
  BY DEF IInv, Base, Push
<1>4. /\ Len(stack') = Len(stack) + 1 /\ stack'[Len(stack) + 1] = f
      /\ \A i \in 1..Len(stack) : stack'[i] = stack[i]
  BY <1>3
<1>5. Len(stack) + 1 = 2 /\ 1 \in 1..Len(stack)
  BY <1>2
<1>. QED  BY <1>2, <1>4, <1>5

\* The loop of the top level stays the same one until it is left.
LEMMA SecondFrame ==
  ASSUME Context, Len(stack) >= 2, Len(stack') >= 2
  PROVE  SameLoop(stack[2], stack'[2])
<1>1. PICK m \in 1..Len(stack) :
        /\ Len(stack') \in {m, m + 1, m + 2}
        /\ \A i \in 1..m : stack'[i] = stack[i]
        /\ Len(stack') # m => NewLoop(m)
  BY DEF Context, StackStep
<1>2. m \in Nat /\ m >= 1 /\ Len(stack) \in Nat
  BY <1>1, Frames DEF Context
<1>3. CASE m >= 2
  <2>1. 2 \in 1..m
    BY <1>2, <1>3
  <2>. QED  BY <1>1, <2>1 DEF SameLoop
<1>4. CASE m = 1
  <2>1. m + 1 = 2
    BY <1>4
  <2>2. \A n \in Nat : n >= 2 => n # 1
    OBVIOUS
  <2>3. Len(stack') # m /\ m # Len(stack)
    BY <1>2, <1>4, <2>2, NextFrames, Zenon DEF Context
  <2>4. NewLoop(m)
    BY <1>1, <2>3
  <2>. QED  BY <2>1, <2>3, <2>4 DEF NewLoop
<1>. QED  BY <1>2, <1>3, <1>4

\* Everything a step of the run keeps of what was spawned.
LEMMA OldBodies ==
  ASSUME Context, NEW t \in 1..made
  PROVE  t \in Bodies /\ t \in 1..made' /\ handle'[t] = handle[t] /\ from'[t] = from[t]
         /\ (Bare(t)' <=> Bare(t))
<1>1. t \in Bodies /\ made \in Nat /\ made' \in {made, made + 1} /\ t <= made
  BY BodyTypes, Types DEF Context, DataStep, HandleStep
<1>2. handle'[t] = handle[t] /\ from'[t] = from[t]
  BY <1>1 DEF Context, DataStep, HandleStep
<1>. QED  BY <1>1, <1>2 DEF Bare

--------------------------------------------------------------------------------
(* Names, slots and targets.                                                *)

LEMMA MineSame ==
  ASSUME BlocksSame, NEW x \in Coroutines
  PROVE  Mine(x)' = Mine(x)
<1>1. DOMAIN blocks'[x] = DOMAIN blocks[x]
  BY DEF BlocksSame
<1>2. \A i \in DOMAIN blocks'[x] : blocks'[x][i].id = blocks[x][i].id
  BY DEF BlocksSame, Fewer, SameBlock
<1>. QED  BY <1>1, <1>2 DEF Mine

LEMMA NamedKept ==
  ASSUME Context, NEW x \in Bodies, NEW t \in Named(x), Mine(x) \subseteq Mine(x)'
  PROVE  t \in Named(x)'
<1>1. t \in 1..made /\ from[t] # 0 /\ t # x
      /\ (from[t] \in Mine(x) \/ (x # Main /\ from[t] = from[x]))
  BY DEF Named
<1>2. t \in 1..made' /\ from'[t] = from[t]
  BY <1>1, OldBodies
<1>3. CASE from[t] \in Mine(x)
  BY <1>1, <1>2, <1>3 DEF Named
<1>4. CASE x # Main /\ from[t] = from[x]
  <2>1. x \in 1..made
    <3>1. ~(x > made) /\ x \in Nat \ {0} /\ made \in Nat
      BY <1>1, <1>4, BodyTypes, Types DEF Context
    <3>. QED  BY <3>1
  <2>2. from'[x] = from[x]
    BY <2>1, OldBodies
  <2>. QED  BY <1>1, <1>2, <1>4, <2>2 DEF Named
<1>. QED  BY <1>1, <1>3, <1>4

LEMMA AboveKept ==
  ASSUME Context, Above, Fewer
  PROVE  Above'
<1>1. ASSUME NEW x \in Bodies, ~Bare(x)', NEW i \in DOMAIN blocks'[x]
      PROVE  blocks'[x][i].si > handle'[x][1]
  <2>1. x \in Coroutines /\ x \in Nat \ {0} /\ made \in Nat
    BY Types, BodyTypes DEF Context
  <2>2. i \in DOMAIN blocks[x] /\ blocks'[x][i].si = blocks[x][i].si
    BY <1>1, <2>1 DEF Fewer, SameBlock
  <2>3. x <= made
    BY <2>1, <2>2 DEF Context, JInv, Lineage
  <2>4. x \in 1..made
    BY <2>1, <2>3
  <2>5. handle'[x] = handle[x] /\ ~Bare(x)
    BY <1>1, <2>4, OldBodies
  <2>. QED  BY <2>2, <2>5 DEF Above
<1>. QED  BY <1>1 DEF Above

LEMMA TargetTypes ==
  ASSUME IInv, Len(stack) >= 2
  PROVE  /\ stack[2] \in LoopFrames
         /\ stack[2].k \in {"await", "join_task"} => stack[2].t \in 1..made
<1>1. Len(stack) \in Nat /\ stack[1] = Code(Main) /\ made \in Nat /\ Coroutines = 0..MaxTasks
      /\ Main = 0 /\ MaxTasks \in Nat
  BY Frames, Types DEF IInv, Alternates
<1>2. 2 \in 2..Len(stack) /\ 2 - 1 = 1 /\ 2 \in 1..Len(stack)
  BY <1>1
<1>3. ~IsCode(2)
  <2>1. IsCode(1)
    BY <1>1 DEF IsCode, Code
  <2>. QED  BY <1>2, <2>1 DEF IInv, Alternates
<1>4. stack[2] \in LoopFrames
  BY <1>2, <1>3, Frames
<1>5. stack[2].t \in Coroutines /\ stack[2].t <= made
  BY <1>2, <1>3, <1>4 DEF LoopFrames, IInv, Alternates
<1>6. stack[2].k \in {"await", "join_task"} => stack[2].t # Main
  BY <1>2 DEF IInv, Alternates
<1>. QED  BY <1>1, <1>4, <1>5, <1>6

LEMMA AimedKept ==
  ASSUME Context, Aimed, Len(stack) >= 2, Mine(Main) \subseteq Mine(Main)'
  PROVE  Aimed'
<1>1. SUFFICES ASSUME Len(stack') >= 2, stack'[2].k \in {"await", "join_task"}
               PROVE  IF handle'[stack'[2].t] = Nowhere
                      THEN stack'[2].k = "await" ELSE from'[stack'[2].t] \in Mine(Main)'
  BY DEF Aimed, Aims, Bare
<1>2. stack'[2].k = stack[2].k /\ stack'[2].t = stack[2].t
  BY <1>1, SecondFrame DEF SameLoop
<1>3. stack[2].t \in 1..made
  BY <1>1, <1>2, TargetTypes DEF Context
<1>4. from'[stack[2].t] = from[stack[2].t] /\ handle'[stack[2].t] = handle[stack[2].t]
  BY <1>3, OldBodies
<1>5. IF Bare(stack[2].t) THEN stack[2].k = "await" ELSE from[stack[2].t] \in Mine(Main)
  BY <1>1, <1>2 DEF Aimed, Aims
<1>. QED  BY <1>2, <1>4, <1>5 DEF Bare

\* A step that keeps the blocks, and after which a body waits for what it
\* waited for or for a task it can name.
LEMMA NamesKept ==
  ASSUME Context, WaitsNamed, Above, BlocksSame,
         \A x \in Bodies : wait'[x] \in Bodies => wait'[x] = wait[x] \/ wait'[x] \in Named(x)
  PROVE  WaitsNamed' /\ Above'
<1>1. Above'
  BY AboveKept DEF BlocksSame
<1>2. ASSUME NEW x \in Bodies, wait'[x] \in Bodies
      PROVE  wait'[x] \in Named(x)'
  <2>1. x \in Coroutines
    BY Types DEF Context
  <2>2. wait'[x] \in Named(x)
    BY <1>2 DEF WaitsNamed
  <2>3. Mine(x) \subseteq Mine(x)'
    BY <2>1, MineSame
  <2>. QED  BY <2>2, <2>3, NamedKept
<1>. QED  BY <1>1, <1>2 DEF WaitsNamed

\* What a loop step keeps: the code waits where it did.
LEMMA LoopNames ==
  ASSUME Context, WaitsNamed, Above, Aimed, Len(stack) >= 2, BlocksSame, wait' = wait
  PROVE  WaitsNamed' /\ Above' /\ Aimed'
<1>1. Mine(Main)' = Mine(Main)
  BY MineSame, Types DEF Context
<1>. QED  BY <1>1, NamesKept, AimedKept

--------------------------------------------------------------------------------
(* Rounds.                                                                  *)

OverSame == \A t \in Bodies : Over(t)' <=> Over(t)
\* What u waits for is as it was, and its blocks have the tasks they had.
SameWait(u) ==
  /\ wait'[u] = wait[u] /\ blocks'[u] = blocks[u]
  /\ \A i \in DOMAIN blocks[u] : Range(scopes[blocks[u][i].si]) \subseteq Range(scopes'[blocks[u][i].si])

LEMMA TableTypes ==
  ASSUME IInv, NEW a \in DOMAIN scopes
  PROVE  /\ a \in Nat \ {0} /\ scopes[a] \in Seq(Bodies) /\ Range(scopes[a]) \subseteq Bodies
         /\ \A b \in DOMAIN scopes[a] : b \in Nat \ {0} /\ scopes[a][b] \in Bodies
<1>1. scopes \in Seq(Seq(Bodies))
  BY Types
<1>2. a \in Nat \ {0} /\ scopes[a] \in Seq(Bodies)
  BY <1>1
<1>3. \A b \in DOMAIN scopes[a] : b \in Nat \ {0} /\ scopes[a][b] \in Bodies
  BY <1>2
<1>. QED  BY <1>2, <1>3 DEF Range

LEMMA BlockedKept ==
  ASSUME Context, NEW u \in Bodies, Blocked(u), SameWait(u), OverSame, timers \subseteq timers'
  PROVE  Blocked(u)'
<1>1. CASE wait[u] = AtTimer /\ u \in timers
  BY <1>1 DEF Blocked, SameWait
<1>2. CASE wait[u] = AtJoin /\ \E t \in InScope(Block(u).si) : ~Over(t)
  <2>1. u \in Coroutines /\ Inside(u)
    BY <1>2, Types DEF Context, IInv, Joining, Inside
  <2>2. Len(blocks[u]) \in DOMAIN blocks[u] /\ Block(u) = blocks[u][Len(blocks[u])]
    BY <2>1, LastBlock DEF Context
  <2>3. Block(u).si \in DOMAIN scopes
    <3>1. Block(u).si \in OpenSlots
      BY <2>1, <2>2 DEF Context, JInv, Slotted
    <3>. QED  BY <3>1 DEF OpenSlots, Context, IInv, Base
  <2>4. PICK t \in InScope(Block(u).si) : ~Over(t)
    BY <1>2
  <2>5. t \in Bodies
    BY <2>3, <2>4, TableTypes DEF Context, InScope
  <2>6. ~Over(t)'
    BY <2>4, <2>5 DEF OverSame
  <2>7. Block(u)' = Block(u)
    BY DEF SameWait, Block
  <2>8. t \in Range(scopes'[Block(u).si])
    BY <2>2, <2>4 DEF SameWait, InScope
  <2>9. t \in InScope(Block(u).si)'
    BY <2>7, <2>8 DEF InScope
  <2>. QED  BY <1>2, <2>6, <2>9 DEF Blocked, SameWait
<1>3. CASE wait[u] \in Bodies /\ ~Over(wait[u])
  <2>1. ~Over(wait[u])' /\ wait'[u] = wait[u]
    BY <1>3 DEF OverSame, SameWait
  <2>2. ~(Done(wait[u]) \/ task[wait[u]].cancelled)'
    BY <2>1 DEF Over
  <2>. QED  BY <1>3, <2>1, <2>2 DEF Blocked, Over, Done
<1>. QED  BY <1>1, <1>2, <1>3 DEF Blocked

\* The body that a round polls stands where the round does.
LEMMA PolledHere ==
  ASSUME Context, Shallow, NEW x \in Bodies, Running(x), stack[2].at # Nowhere
  PROVE  /\ handle[x] = stack[2].at /\ ~Bare(x) /\ stack[2].at \in Places
         /\ At(handle[x][1], handle[x][2]) /\ scopes[handle[x][1]][handle[x][2]] = x
         /\ ~Over(x) /\ x \in 1..made
<1>1. /\ Len(stack) = 3 /\ stack[3] = Code(x) /\ x \in 1..made /\ PollOf(3) /\ IInv /\ JInv
      /\ stack[2] \in LoopFrames
  BY BodyAtThree DEF Context
<1>2. 3 \in 2..Len(stack) /\ 3 - 1 = 2 /\ 3 \in 1..Len(stack) /\ IsCode(3) /\ stack[3].x = x
  BY <1>1 DEF IsCode, Code
<1>3. handle[x] = stack[2].at
  BY <1>1, <1>2 DEF JInv, Standing
<1>4. ~Bare(x)
  BY <1>1, <1>2, <1>3 DEF Bare
<1>5. ~Over(x)
  <2>1. OnStack(x)
    BY <1>1, <1>2 DEF OnStack
  <2>. QED  BY <1>1, <2>1 DEF JInv, Finished
<1>6. stack[2].at \in Places
  BY <1>1 DEF LoopFrames
<1>. QED  BY <1>1, <1>3, <1>4, <1>5, <1>6, OwnPlace DEF JInv

\* A place the round has passed is not the one it stands at.
LEMMA PassedOther ==
  ASSUME Context, Shallow, NEW x \in Bodies, Running(x), stack[2].at # Nowhere,
         NEW a \in DOMAIN scopes, NEW b \in DOMAIN scopes[a], Passed(stack[2], a, b)
  PROVE  scopes[a][b] # x
<1>1. handle[x] = stack[2].at /\ stack[2].at \in Places
  BY PolledHere
<1>2. At(a, b)
  BY DEF At
<1>3. handle[scopes[a][b]] = <<a, b>>
  BY <1>2, PlaceOf DEF Context, JInv
<1>4. a \in Nat /\ b \in Nat
  BY TableTypes DEF Context
<1>5. SUFFICES ASSUME stack[2].at = <<a, b>>
               PROVE  FALSE
  BY <1>1, <1>3
<1>. QED  BY <1>4, <1>5 DEF Passed

\* What a step that completes nothing leaves as it was.
LEMMA SettledKept ==
  ASSUME Context, OverSame, timers \subseteq timers', NEW u \in Bodies, SameWait(u)
  PROVE  /\ u \in Settled => u \in Settled'
         /\ u \in 1..made /\ u \in Unmet => u \in Unmet'
<1>1. Blocked(u) => Blocked(u)'
  BY BlockedKept
<1>2. Over(u)' <=> Over(u)
  BY DEF OverSame
<1>3. u \in 1..made => (Bare(u)' <=> Bare(u))
  BY OldBodies
<1>. QED  BY <1>1, <1>2, <1>3 DEF Settled, Unmet

\* A step of the body that is polled leaves what the round has seen.
LEMMA BodyRounds ==
  ASSUME Context, PInv, NEW x \in Bodies, Running(x), stack' = stack, OverSame,
         timers \subseteq timers', \A u \in Bodies \ {x} : SameWait(u),
         \A a \in DOMAIN scopes' : \A b \in DOMAIN scopes'[a] :
           Idle(stack[2]) /\ Passed(stack[2], a, b) => At(a, b) /\ scopes'[a][b] = scopes[a][b]
  PROVE  Rounds'
<1>1. CASE ~Idle(stack[2])
  BY <1>1 DEF Rounds, Idle
<1>2. CASE Idle(stack[2])
  <2>1. /\ Len(stack) = 3 /\ SeenSettled(stack[2]) /\ StillWaits(stack[2]) /\ Shallow
        /\ stack[2].at # Nowhere /\ ~Bare(x) /\ ~Over(x) /\ IInv /\ Len(stack) >= 2
    <3>1. Len(stack) = 3 /\ Shallow /\ stack[2].at # Nowhere /\ IInv
      BY <1>2, BodyAtThree DEF PInv, Context, Idle
    <3>2. Len(stack) >= 2
      BY <3>1
    <3>. QED  BY <1>2, <3>1, <3>2, PolledHere DEF PInv, Rounds
  <2>2. ASSUME NEW a \in DOMAIN scopes', NEW b \in DOMAIN scopes'[a], Passed(stack[2], a, b)
        PROVE  scopes'[a][b] \in Settled'
    <3>1. a \in DOMAIN scopes /\ b \in DOMAIN scopes[a] /\ scopes'[a][b] = scopes[a][b]
      BY <1>2, <2>2 DEF At
    <3>2. scopes[a][b] \in Bodies \ {x} /\ scopes[a][b] \in Settled
      BY <2>1, <2>2, <3>1, PassedOther, TableTypes DEF SeenSettled
    <3>3. scopes[a][b] \in Settled'
      BY <3>2, SettledKept
    <3>. QED  BY <3>1, <3>3
  <2>3. ASSUME stack[2].k \in {"await", "join_task"}
        PROVE  stack[2].t \in Unmet'
    <3>1. stack[2].t \in 1..made /\ stack[2].t \in Unmet
      BY <2>1, <2>3, TargetTypes DEF StillWaits
    <3>2. CASE stack[2].t = x
      <4>1. x \in 1..made
        BY <3>1, <3>2
      <4>2. ~Over(x)' /\ ~Bare(x)'
        BY <2>1, <4>1, OldBodies DEF OverSame
      <4>. QED  BY <3>2, <4>2 DEF Unmet
    <3>3. CASE stack[2].t # x
      <4>1. stack[2].t \in Bodies \ {x}
        BY <3>1, <3>3 DEF Unmet
      <4>. QED  BY <3>1, <4>1, SettledKept
    <3>. QED  BY <3>2, <3>3
  <2>4. SeenSettled(stack[2])'
    BY <2>2 DEF SeenSettled, Passed
  <2>5. StillWaits(stack[2])'
    BY <2>1, <2>3 DEF StillWaits
  <2>. QED  BY <2>4, <2>5 DEF Rounds
<1>. QED  BY <1>1, <1>2

--------------------------------------------------------------------------------
(* Steps of the code on top.                                                *)

LEMMA StillFrames ==
  ASSUME Context, PInv, stack' = stack, Mine(Main) \subseteq Mine(Main)'
  PROVE  Shallow' /\ Aimed'
<1>1. Shallow'
  BY DEF PInv, Shallow
<1>2. CASE Len(stack) >= 2
  BY <1>1, <1>2, AimedKept DEF PInv
<1>3. CASE ~(Len(stack) >= 2)
  BY <1>1, <1>3 DEF Aimed
<1>. QED  BY <1>2, <1>3

LEMMA TopStill ==
  ASSUME Context, Running(Main), stack' = stack
  PROVE  Rounds'
<1>1. Len(stack') = 1
  BY MainAlone DEF Context
<1>2. ~(Len(stack') >= 2)
  BY <1>1
<1>. QED  BY <1>2 DEF Rounds

\* The code on top stays there.  The top level is in no round; what a task
\* does leaves what the round of its poll has seen.
LEMMA StaysPlain ==
  ASSUME Context, PInv, NEW x \in Coroutines, Running(x), stack' = stack, task' = task,
         timers \subseteq timers', \A u \in Bodies \ {x} : SameWait(u),
         \A a \in DOMAIN scopes' : \A b \in DOMAIN scopes'[a] :
           x \in Bodies /\ Idle(stack[2]) /\ Passed(stack[2], a, b)
             => At(a, b) /\ scopes'[a][b] = scopes[a][b]
  PROVE  Rounds'
<1>1. CASE x = Main
  BY <1>1, TopStill
<1>2. CASE x # Main
  <2>1. x \in Bodies
    BY <1>2, Types DEF Context
  <2>2. OverSame
    BY DEF OverSame, Over, Done
  <2>. QED  BY <2>1, <2>2, BodyRounds
<1>. QED  BY <1>1, <1>2

\* Nobody is spawned: a place of the table was one before, with the same task.
LEMMA PlacesStay ==
  ASSUME Context, made' = made, NEW a \in DOMAIN scopes', NEW b \in DOMAIN scopes'[a]
  PROVE  At(a, b) /\ scopes'[a][b] = scopes[a][b]
<1>1. made' # made + 1
  BY Types DEF Context
<1>. QED  BY <1>1 DEF Context, DataStep, TableStep

\* The top level enters a loop.
LEMMA MainEnters ==
  ASSUME Context, PInv, Plain', NEW x \in Coroutines, Running(x), NEW f \in LoopFrames, Push(f),
         f.at = Nowhere,
         f.k \in {"await", "join_task"} =>
           IF handle'[f.t] = Nowhere THEN f.k = "await" ELSE from'[f.t] \in Mine(Main)'
  PROVE  Shallow' /\ Aimed' /\ Rounds' /\ x = Main
<1>1. x = Main /\ Len(stack') = 2 /\ stack'[2] = f
  BY PushesOnce DEF Context, PInv
<1>2. Shallow'
  BY <1>1 DEF Shallow
<1>3. Aimed'
  BY <1>1 DEF Aimed, Aims, Bare
<1>4. Rounds'
  BY <1>1 DEF Rounds, Idle
<1>. QED  BY <1>1, <1>2, <1>3, <1>4

\* The code on top goes to a suspension point, or enters a loop, and its
\* blocks age.
LEMMA AgedWaits ==
  ASSUME Context, PInv, NEW x \in Coroutines, Running(x), blocks' = Aged(x), stack' = stack,
         task' = task, scopes' = scopes, made' = made, timers \subseteq timers',
         NEW w, wait' = [wait EXCEPT ![x] = w], w \in Bodies => w \in Named(x)
  PROVE  PInv'
<1>1. /\ BlocksSame /\ Main \in Coroutines /\ Bodies \subseteq Coroutines
      /\ wait'[x] = w /\ \A y \in Coroutines \ {x} : wait'[y] = wait[y] /\ blocks'[y] = blocks[y]
  BY AgedBlocks, Types DEF Context, IInv, Base
<1>2. WaitsNamed' /\ Above'
  BY <1>1, NamesKept DEF PInv
<1>3. Shallow' /\ Aimed'
  BY <1>1, MineSame, StillFrames
<1>4. Rounds'
  <2>1. \A u \in Bodies \ {x} : SameWait(u)
    BY <1>1 DEF SameWait
  <2>2. \A a \in DOMAIN scopes' : \A b \in DOMAIN scopes'[a] : At(a, b) /\ scopes'[a][b] = scopes[a][b]
    BY DEF At
  <2>. QED  BY <2>1, <2>2, StaysPlain
<1>. QED  BY <1>2, <1>3, <1>4 DEF PInv

LEMMA AgedEnters ==
  ASSUME Context, PInv, Plain', NEW x \in Coroutines, Running(x), blocks' = Aged(x), wait' = wait,
         NEW f \in LoopFrames, Push(f), f.at = Nowhere,
         f.k \in {"await", "join_task"} =>
           IF handle'[f.t] = Nowhere THEN f.k = "await" ELSE f.t \in Named(x)
  PROVE  PInv'
<1>1. BlocksSame /\ Main \in Coroutines
  BY AgedBlocks, Types DEF Context
<1>2. WaitsNamed' /\ Above'
  BY <1>1, NamesKept DEF PInv
<1>3. x = Main
  BY PushesOnce DEF Context, PInv
<1>4. ASSUME f.k \in {"await", "join_task"}
      PROVE  IF handle'[f.t] = Nowhere THEN f.k = "await" ELSE from'[f.t] \in Mine(Main)'
  <2>1. ASSUME f.t \in Named(Main)
        PROVE  from'[f.t] \in Mine(Main)'
    <3>1. f.t \in 1..made /\ from[f.t] \in Mine(Main)
      BY <2>1 DEF Named
    <3>. QED  BY <1>1, <3>1, OldBodies, MineSame
  <2>. QED  BY <1>3, <1>4, <2>1
<1>. QED  BY <1>2, <1>4, MainEnters DEF PInv

LEMMA NapPlain ==
  ASSUME Context, PInv, Plain', NEW x \in Coroutines, Nap(x)
  PROVE  PInv'
<1>1. /\ Running(x) /\ blocks' = Aged(x) /\ task' = task /\ scopes' = scopes /\ made' = made
      /\ timers \subseteq timers'
  BY DEF Nap, InCode
<1>2. CASE Sync(x)
  <2>1. Push(Drive(Main, "sleep")) /\ wait' = wait
    BY <1>2 DEF Nap
  <2>2. /\ Drive(Main, "sleep") \in LoopFrames /\ Drive(Main, "sleep").k = "sleep"
        /\ Drive(Main, "sleep").at = Nowhere
    BY FrameTypes, Types DEF Context, Drive
  <2>. QED  BY <1>1, <2>1, <2>2, AgedEnters
<1>3. CASE ~Sync(x)
  <2>1. stack' = stack /\ wait' = [wait EXCEPT ![x] = AtTimer]
    BY <1>3 DEF Nap
  <2>2. AtTimer \notin Bodies
    BY Types DEF Context, AtTimer
  <2>. QED  BY <1>1, <2>1, <2>2, AgedWaits
<1>. QED  BY <1>2, <1>3

LEMMA AwaitPlain ==
  ASSUME Context, PInv, Plain', NEW x \in Coroutines, NEW t \in Named(x),
         NEW how \in {"await", "join_task"}, Await(x, t, how)
  PROVE  PInv'
<1>1. /\ Running(x) /\ blocks' = Aged(x) /\ UNCHANGED <<task, scopes, made, timers, handle>>
  BY DEF Await, InCode, sched
<1>2. t \in Bodies /\ t \in Coroutines /\ ~Bare(t)
  BY <1>1, NamedPlace, Types DEF Context
<1>3. CASE Sync(x) \/ how = "join_task"
  <2>1. Push(Drive(t, how)) /\ wait' = wait
    BY <1>3 DEF Await
  <2>2. /\ Drive(t, how) \in LoopFrames /\ Drive(t, how).k = how
        /\ Drive(t, how).at = Nowhere /\ Drive(t, how).t = t
    BY <1>2, FrameTypes DEF Context, Drive
  <2>3. handle'[t] # Nowhere
    BY <1>1, <1>2 DEF Bare
  <2>. QED  BY <1>1, <2>1, <2>2, <2>3, AgedEnters
<1>4. CASE ~(Sync(x) \/ how = "join_task")
  <2>1. stack' = stack /\ wait' = [wait EXCEPT ![x] = t]
    BY <1>4 DEF Await
  <2>. QED  BY <1>1, <2>1, AgedWaits
<1>. QED  BY <1>3, <1>4

LEMMA AwaitBarePlain ==
  ASSUME Context, PInv, Plain', NEW x \in Coroutines, AwaitBare(x)
  PROVE  PInv'
<1>1. /\ Running(x) /\ blocks' = Aged(x) /\ wait' = wait /\ handle' = handle /\ made < MaxTasks
      /\ Push(Drive(made + 1, "await"))
  BY DEF AwaitBare, InCode, sched
<1>2. made + 1 \in Bodies /\ made + 1 \in Coroutines /\ made + 1 > made
  BY <1>1, Types DEF Context
<1>3. Bare(made + 1)
  BY <1>2 DEF Context, IInv, Started
<1>4. /\ Drive(made + 1, "await") \in LoopFrames /\ Drive(made + 1, "await").k = "await"
      /\ Drive(made + 1, "await").at = Nowhere /\ Drive(made + 1, "await").t = made + 1
  BY <1>2, FrameTypes DEF Context, Drive
<1>5. handle'[made + 1] = Nowhere
  BY <1>1, <1>3 DEF Bare
<1>. QED  BY <1>1, <1>4, <1>5, AgedEnters

LEMMA EndBlockPlain ==
  ASSUME Context, PInv, Plain', NEW x \in Coroutines, EndBlock(x)
  PROVE  PInv'
<1>1. /\ Running(x) /\ Inside(x) /\ blocks' = Aged(x)
      /\ UNCHANGED <<task, scopes, made, timers, handle>>
  BY DEF EndBlock, InCode, sched, used
<1>2. CASE ~Block(x).split
  <2>1. Push(Join(innermost_open)) /\ wait' = wait
    BY <1>2 DEF EndBlock
  <2>2. innermost_open \in Nat
    <3>1. innermost_open \in 1..Len(scopes) /\ Len(scopes) \in Nat
      BY <1>1, OpenWhenInside, Types DEF Context
    <3>. QED  BY <3>1
  <2>3. /\ Join(innermost_open) \in LoopFrames /\ Join(innermost_open).k = "join"
        /\ Join(innermost_open).at = Nowhere
    BY <2>2, FrameTypes DEF Context, Join
  <2>. QED  BY <1>1, <2>1, <2>3, AgedEnters
<1>3. CASE Block(x).split
  <2>1. stack' = stack /\ wait' = [wait EXCEPT ![x] = AtJoin]
    BY <1>3 DEF EndBlock
  <2>2. AtJoin \notin Bodies
    BY Types DEF Context, AtJoin
  <2>. QED  BY <1>1, <2>1, <2>2, AgedWaits
<1>. QED  BY <1>2, <1>3

\* A body that runs is not over, and its scope is in the table.
LEMMA RunsPlaced ==
  ASSUME Context, NEW x \in Bodies, Running(x), ~Bare(x)
  PROVE  At(handle[x][1], handle[x][2]) /\ scopes[handle[x][1]][handle[x][2]] = x
<1>1. x \in Coroutines /\ x # Main /\ IInv /\ JInv
  BY Types DEF Context
<1>2. x \in 1..made /\ stack[Len(stack)] = Code(x) /\ Len(stack) \in 1..Len(stack)
  BY <1>1, CodeOnTop, Frames
<1>3. ~Over(x)
  BY <1>1, <1>2 DEF JInv, Finished, OnStack
<1>. QED  BY <1>1, <1>2, <1>3, OwnPlace DEF JInv

LEMMA OpenPlain ==
  ASSUME Context, PInv, NEW x \in Coroutines, NEW split \in BOOLEAN, Open(x, split)
  PROVE  PInv'
<1>0. IInv /\ JInv /\ Slotted /\ Main \in Coroutines /\ Bodies \subseteq Coroutines
  BY Types DEF Context, JInv
<1>1. /\ Running(x) /\ UNCHANGED <<task, handle, timers, wait, stack, made, from>>
  BY DEF Open, InCode, ghost
<1>2. \A y \in Coroutines : Mine(y) \subseteq Mine(y)'
  <2>1. ASSUME NEW y \in Coroutines, NEW i \in DOMAIN blocks[y]
        PROVE  i \in DOMAIN blocks'[y] /\ blocks'[y][i] = blocks[y][i]
    <3>1. CASE y = x
      <4>1. i \in 1..Len(blocks[x]) /\ Len(blocks[x]) \in Nat
            /\ DOMAIN blocks'[x] = 1..(Len(blocks[x]) + 1)
        BY <1>0, <2>1, <3>1, OpenBlocks
      <4>2. i \in 1..(Len(blocks[x]) + 1)
        BY <4>1
      <4>. QED  BY <1>0, <2>1, <3>1, <4>1, <4>2, OpenBlocks
    <3>2. CASE y # x
      BY <1>0, <2>1, <3>2, OpenBlocks
    <3>. QED  BY <3>1, <3>2
  <2>. QED  BY <2>1 DEF Mine
<1>3. WaitsNamed'
  <2>1. ASSUME NEW y \in Bodies, wait'[y] \in Bodies
        PROVE  wait'[y] \in Named(y)'
    BY <1>0, <1>1, <1>2, <2>1, NamedKept DEF PInv, WaitsNamed
  <2>. QED  BY <2>1 DEF WaitsNamed
<1>4. Above'
  <2>1. ASSUME NEW y \in Bodies, ~Bare(y), NEW i \in DOMAIN blocks'[y]
        PROVE  blocks'[y][i].si > handle[y][1]
    <3>1. CASE NewBlock(x, y, i) /\ blocks'[y][i].si = Len(closed) + 1
      <4>1. y = x /\ handle[x][1] \in DOMAIN scopes
        BY <1>1, <2>1, <3>1, RunsPlaced DEF NewBlock, At
      <4>2. DOMAIN scopes = 1..Len(closed) /\ Len(closed) \in Nat
        BY <1>0, OpenTable
      <4>. QED  BY <3>1, <4>1, <4>2
    <3>2. CASE OldBlock(y, i)
      BY <2>1, <3>2 DEF OldBlock, PInv, Above
    <3>. QED  BY <1>0, <2>1, <3>1, <3>2, OpenEach
  <2>. QED  BY <1>1, <2>1 DEF Above, Bare
<1>5. Shallow' /\ Aimed'
  BY <1>0, <1>1, <1>2, StillFrames
<1>6. Rounds'
  <2>1. ASSUME NEW u \in Bodies \ {x}
        PROVE  SameWait(u)
    <3>1. blocks'[u] = blocks[u] /\ wait'[u] = wait[u]
      BY <1>0, <1>1, OpenBlocks
    <3>2. ASSUME NEW i \in DOMAIN blocks[u]
          PROVE  scopes'[blocks[u][i].si] = scopes[blocks[u][i].si]
      <4>1. blocks[u][i].si \in OpenSlots
        BY <1>0 DEF Slotted
      <4>2. blocks[u][i].si \in 1..Len(closed)
        BY <1>0, <4>1, OpenTable
      <4>. QED  BY <1>0, <4>2, OpenTable
    <3>. QED  BY <3>1, <3>2 DEF SameWait
  <2>2. \A a \in DOMAIN scopes' : \A b \in DOMAIN scopes'[a] : At(a, b) /\ scopes'[a][b] = scopes[a][b]
    BY <1>1, PlacesStay
  <2>. QED  BY <1>1, <2>1, <2>2, StaysPlain
<1>. QED  BY <1>3, <1>4, <1>5, <1>6 DEF PInv

\* The new task is in the innermost scope, above the place the round is at.
LEMMA SpawnPlain ==
  ASSUME Context, PInv, NEW x \in Coroutines, Spawn(x)
  PROVE  PInv'
<1>. DEFINE s == innermost_open
<1>0. IInv /\ JInv /\ Slotted /\ Main \in Coroutines /\ Bodies \subseteq Coroutines
  BY Types DEF Context, JInv
<1>1. /\ Running(x) /\ Inside(x) /\ UNCHANGED <<task, timers, wait, stack, blocks>>
  BY DEF Spawn, InCode, code
<1>2. s \in 1..Len(scopes) /\ s \in OpenSlots
  BY <1>0, <1>1, OpenWhenInside
<1>3. /\ DOMAIN scopes' = DOMAIN scopes /\ s \in DOMAIN scopes
      /\ \A r \in DOMAIN scopes \ {s} : scopes'[r] = scopes[r]
      /\ Len(scopes[s]) \in Nat /\ DOMAIN scopes[s] = 1..Len(scopes[s])
      /\ DOMAIN scopes'[s] = 1..(Len(scopes[s]) + 1)
      /\ \A i \in DOMAIN scopes[s] : scopes'[s][i] = scopes[s][i]
  BY <1>0, <1>2, SpawnTable
<1>4. BlocksSame
  BY <1>1, StillBlocks
<1>5. WaitsNamed' /\ Above' /\ Shallow' /\ Aimed'
  BY <1>0, <1>1, <1>4, NamesKept, MineSame, StillFrames DEF PInv
<1>6. Block(x).si <= s
  <2>1. Block(x).si \in OpenSlots
    BY <1>0, <1>1, LastBlock DEF Slotted
  <2>2. OpenSlots \in SUBSET (1..Len(closed)) /\ Len(closed) \in Nat /\ OpenSlots # {}
    BY <1>0, <1>2, Types DEF OpenSlots
  <2>. QED  BY <2>1, <2>2, MaxFacts DEF innermost_open
<1>7. ASSUME x \in Bodies, stack[2].at # Nowhere
      PROVE  s > stack[2].at[1]
  <2>1. handle[x] = stack[2].at /\ ~Bare(x) /\ stack[2].at \in Places
    BY <1>1, <1>7, PolledHere DEF PInv
  <2>2. Block(x).si > handle[x][1] /\ Block(x).si \in Nat
    BY <1>0, <1>1, <1>7, <2>1, LastBlock, BlockTypes DEF PInv, Above
  <2>3. stack[2].at[1] \in Nat /\ s \in Nat
    BY <1>2, <2>1 DEF Places
  <2>. HIDE DEF s
  <2>. QED  BY <1>6, <2>1, <2>2, <2>3
<1>. HIDE DEF s
<1>8. ASSUME NEW r \in DOMAIN scopes, NEW b \in DOMAIN scopes[r]
      PROVE  b \in DOMAIN scopes'[r] /\ scopes'[r][b] = scopes[r][b]
  <2>1. CASE r = s
    <3>1. b \in 1..(Len(scopes[s]) + 1)
      BY <1>3, <1>8, <2>1
    <3>. QED  BY <1>3, <1>8, <2>1, <3>1
  <2>2. CASE r # s
    BY <1>3, <1>8, <2>2
  <2>. QED  BY <2>1, <2>2
<1>9. ASSUME NEW u \in Bodies \ {x}
      PROVE  SameWait(u)
  <2>1. ASSUME NEW i \in DOMAIN blocks[u]
        PROVE  Range(scopes[blocks[u][i].si]) \subseteq Range(scopes'[blocks[u][i].si])
    <3>1. blocks[u][i].si \in OpenSlots
      BY <1>0 DEF Slotted
    <3>2. blocks[u][i].si \in DOMAIN scopes
      BY <1>0, <3>1 DEF OpenSlots, IInv, Base
    <3>. QED  BY <1>8, <3>2 DEF Range
  <2>. QED  BY <1>1, <2>1 DEF SameWait
<1>10. ASSUME NEW a \in DOMAIN scopes', NEW b \in DOMAIN scopes'[a],
              x \in Bodies, Idle(stack[2]), Passed(stack[2], a, b)
       PROVE  At(a, b) /\ scopes'[a][b] = scopes[a][b]
  <2>1. a # s
    <3>1. s > stack[2].at[1] /\ stack[2].at[1] \in Nat /\ s \in Nat
      <4>1. stack[2].at \in Places
        BY <1>1, <1>10, PolledHere DEF PInv, Idle
      <4>. QED  BY <1>2, <1>7, <1>10, <4>1 DEF Idle, Places
    <3>. QED  BY <1>10, <3>1 DEF Passed
  <2>. QED  BY <1>3, <1>10, <2>1 DEF At
<1>11. Rounds'
  BY <1>1, <1>9, <1>10, StaysPlain
<1>. QED  BY <1>5, <1>11 DEF PInv

LEMMA ResumeAwaitPlain ==
  ASSUME Context, PInv, NEW x \in Coroutines, ResumeAwait(x)
  PROVE  PInv'
<1>1. /\ Running(x) /\ UNCHANGED <<task, scopes, timers, stack, blocks>>
      /\ wait' = [wait EXCEPT ![x] = Awake]
  BY DEF ResumeAwait, sched
<1>2. /\ BlocksSame /\ Main \in Coroutines /\ Bodies \subseteq Coroutines /\ Awake \notin Bodies
      /\ wait'[x] = Awake /\ \A y \in Coroutines \ {x} : wait'[y] = wait[y]
  BY <1>1, StillBlocks, Types DEF Context, IInv, Base, Awake
<1>3. WaitsNamed' /\ Above'
  BY <1>2, NamesKept DEF PInv
<1>4. Shallow' /\ Aimed'
  BY <1>1, <1>2, MineSame, StillFrames
<1>5. Rounds'
  <2>1. \A u \in Bodies \ {x} : SameWait(u)
    BY <1>1, <1>2 DEF SameWait
  <2>2. \A a \in DOMAIN scopes' : \A b \in DOMAIN scopes'[a] : At(a, b) /\ scopes'[a][b] = scopes[a][b]
    BY <1>1 DEF At
  <2>. QED  BY <1>1, <2>1, <2>2, StaysPlain
<1>. QED  BY <1>3, <1>4, <1>5 DEF PInv

\* Another body's block has another slot, which closing this one leaves alone.
LEMMA ResumeJoinPlain ==
  ASSUME Context, PInv, NEW x \in Coroutines, ResumeJoin(x)
  PROVE  PInv'
<1>0. IInv /\ IInv' /\ JInv /\ Slotted /\ Main \in Coroutines /\ Bodies \subseteq Coroutines /\ Base
  BY Types DEF Context, JInv, IInv
<1>1. Running(x) /\ wait[x] = AtJoin /\ wait[x] # Awake
  BY DEF ResumeJoin, AtJoin, Awake
<1>2. x # Main /\ Inside(x)
  BY <1>0, <1>1, LeavesInside DEF IInv, Alternates
<1>3. Len(blocks[x]) \in DOMAIN blocks[x] /\ Block(x) = blocks[x][Len(blocks[x])]
  BY <1>0, <1>2, LastBlock
<1>4. Block(x).si \in OpenSlots /\ Block(x).si \in DOMAIN scopes /\ Block(x).si \in 1..Len(scopes)
  <2>1. Block(x).si \in OpenSlots
    BY <1>0, <1>3 DEF Slotted
  <2>. QED  BY <1>0, <2>1 DEF OpenSlots, Base
<1>5. /\ close_scope(Block(x).si) /\ blocks' = [blocks EXCEPT ![x] = Front(@)]
      /\ wait' = [wait EXCEPT ![x] = Awake] /\ UNCHANGED <<task, timers, stack, made>>
  BY <1>4 DEF ResumeJoin, used
<1>6. /\ wait'[x] = Awake /\ Awake \notin Bodies
      /\ \A y \in Coroutines \ {x} : wait'[y] = wait[y] /\ blocks'[y] = blocks[y]
  <2>1. DOMAIN wait = Coroutines /\ DOMAIN blocks = Coroutines /\ Awake \notin Bodies
    BY <1>0, Types DEF Base, Awake
  <2>. QED  BY <1>5, <2>1
<1>7. Above'
  BY <1>0, <1>2, <1>5, ShorterBlocks, AboveKept DEF Inside, PInv
<1>8. WaitsNamed'
  <2>1. ASSUME NEW y \in Bodies, wait'[y] \in Bodies
        PROVE  wait'[y] \in Named(y)'
    <3>1. y # x /\ y \in Coroutines
      BY <1>0, <1>6, <2>1
    <3>2. wait'[y] = wait[y] /\ Mine(y)' = Mine(y)
      BY <1>6, <3>1 DEF Mine
    <3>. QED  BY <2>1, <3>2, NamedKept DEF PInv, WaitsNamed
  <2>. QED  BY <2>1 DEF WaitsNamed
<1>9. Shallow' /\ Aimed'
  <2>1. Mine(Main)' = Mine(Main)
    BY <1>0, <1>2, <1>6 DEF Mine
  <2>. QED  BY <1>5, <2>1, StillFrames
<1>10. Rounds'
  <2>1. ASSUME NEW u \in Bodies \ {x}
        PROVE  SameWait(u)
    <3>1. ASSUME NEW i \in DOMAIN blocks[u]
          PROVE  scopes'[blocks[u][i].si] = scopes[blocks[u][i].si]
      <4>. DEFINE r == blocks[u][i].si
      <4>1. r # Block(x).si /\ r \in OpenSlots
        BY <1>0, <1>3 DEF Slotted
      <4>2. r \in OpenSlots'
        BY <1>0, <1>4, <1>5, <4>1, CloseFacts
      <4>3. r \in 1..Len(scopes')
        <5>1. closed' \in Seq(BOOLEAN) /\ Len(closed') = Len(scopes')
          BY <1>0 DEF IInv, Base
        <5>2. r \in DOMAIN closed'
          BY <4>2 DEF OpenSlots
        <5>. QED  BY <5>1, <5>2
      <4>. HIDE DEF r
      <4>4. scopes'[r] = scopes[r]
        BY <1>0, <1>4, <1>5, <4>1, <4>3, CloseFacts
      <4>. QED  BY <4>4 DEF r
    <3>. QED  BY <1>0, <1>6, <3>1 DEF SameWait
  <2>2. \A a \in DOMAIN scopes' : \A b \in DOMAIN scopes'[a] : At(a, b) /\ scopes'[a][b] = scopes[a][b]
    BY <1>5, PlacesStay
  <2>. QED  BY <1>1, <1>5, <2>1, <2>2, StaysPlain
<1>. QED  BY <1>7, <1>8, <1>9, <1>10 DEF PInv

--------------------------------------------------------------------------------
(* A poll ends.                                                             *)

\* A step that ends a run leaves everything else as it is.
LEMMA PStill ==
  ASSUME PInv, UNCHANGED <<scopes, task, handle, blocks, wait, timers, stack, made, from>>
  PROVE  PInv'
<1>1. Shallow' /\ WaitsNamed' /\ Above'
  BY DEF PInv, Shallow, WaitsNamed, Named, Mine, Above, Bare
<1>2. Aimed'
  BY DEF PInv, Aimed, Aims, Bare, Mine
<1>3. Settled' = Settled /\ Unmet' = Unmet
  BY DEF Settled, Unmet, Bare, Over, Done, Blocked, InScope, Block
<1>4. Rounds'
  BY <1>3 DEF PInv, Rounds, Idle, SeenSettled, StillWaits, Passed
<1>. QED  BY <1>1, <1>2, <1>4 DEF PInv

\* A poll is pending only where the body cannot go on.
LEMMA SuspendBlocked ==
  ASSUME Context, WaitsNamed, NEW x \in Bodies, Running(x), wait[x] # Awake,
         ~Fires(x), ~AwaitsCancelled(x)
  PROVE  Blocked(x)
<1>1. x \in Coroutines /\ wait[x] \in {AtTimer, AtJoin} \union Bodies
  BY Types DEF Context, IInv, Base
<1>2. AtTimer # AtJoin /\ AtTimer \notin Bodies /\ AtJoin \notin Bodies
  BY Types DEF Context, AtTimer, AtJoin
<1>3. CASE wait[x] = AtTimer
  BY <1>3 DEF Fires, Blocked
<1>4. CASE wait[x] = AtJoin
  BY <1>2, <1>4 DEF Fires, Blocked, ScopeReady
<1>5. CASE wait[x] \in Bodies
  <2>1. PICK w \in Named(x) : wait[x] = w
    BY <1>5 DEF WaitsNamed
  <2>2. scopes[handle[w][1]][handle[w][2]] = w
    BY <1>1, NamedPlace
  <2>3. ~HandleReady(w) /\ ~HandleCancelled(w)
    BY <1>2, <1>5, <2>1 DEF Fires, AwaitsCancelled
  <2>4. ~Over(w)
    BY <2>2, <2>3 DEF HandleReady, HandleCancelled, Over
  <2>. QED  BY <1>5, <2>1, <2>4 DEF Blocked
<1>. QED  BY <1>1, <1>3, <1>4, <1>5

\* The loop that a poll returns to, in full.
Resumes(x, result) ==
  /\ Len(stack') = 2
  /\ \/ /\ stack[2].at = Nowhere /\ result = 0 /\ Bare(x) /\ stack[2].k = "await" /\ stack[2].t = x
        /\ stack'[2].at = <<1, 1>>
     \/ /\ stack[2].at # Nowhere /\ stack'[2].at = Next_place(stack[2].at)
        /\ stack'[2].prog = (stack[2].prog \/ result # 0)
LEMMA BackFrame ==
  ASSUME Context, Shallow, NEW x \in Bodies, Running(x), NEW result \in {0, x}, Back(x, result)
  PROVE  Len(stack') = 1 \/ Resumes(x, result)
<1>0. /\ Len(stack) = 3 /\ Under = stack[2] /\ stack[2] \in LoopFrames /\ x \in 1..made /\ PollOf(3)
      /\ stack[3] = Code(x) /\ IInv /\ stack \in Seq(CodeFrames \union LoopFrames)
  BY BodyAtThree DEF Context, IInv, Base
<1>. DEFINE s == SubSeq(stack, 1, 1)
<1>1. s \in Seq(CodeFrames \union LoopFrames) /\ Len(s) = 1
  <2>1. 1 \in 0..Len(stack)
    BY <1>0
  <2>. QED  BY <1>0, <2>1, Cut
<1>2. Len(stack) - 2 = 1 /\ 3 - 1 = 2
  BY <1>0
<1>. HIDE DEF s
<1>3. ASSUME NEW g \in LoopFrames, stack' = Append(s, g)
      PROVE  Len(stack') = 2 /\ stack'[2] = g
  <2>1. Len(Append(s, g)) = Len(s) + 1 /\ Append(s, g)[Len(s) + 1] = g
    <3>1. g \in CodeFrames \union LoopFrames
      OBVIOUS
    <3>. QED  BY <1>1, <3>1, OnTop
  <2>2. Len(s) + 1 = 2
    BY <1>1
  <2>. QED  BY <1>3, <2>1, <2>2
<1>4. CASE Under.at = Nowhere
  <2>1. stack' = IF result # 0 THEN s ELSE Append(s, [Under EXCEPT !.at = <<1, 1>>, !.prog = FALSE])
    BY <1>2, <1>4 DEF Back, s
  <2>2. CASE result # 0
    BY <1>1, <2>1, <2>2
  <2>3. CASE result = 0
    <3>. DEFINE g == [stack[2] EXCEPT !.at = <<1, 1>>, !.prog = FALSE]
    <3>1. g \in LoopFrames /\ g.at = <<1, 1>>
      BY <1>0 DEF LoopFrames, Places
    <3>2. stack' = Append(s, g)
      BY <1>0, <2>1, <2>3
    <3>. HIDE DEF g
    <3>3. Len(stack') = 2 /\ stack'[2] = g
      BY <1>3, <3>1, <3>2
    <3>4. Bare(x) /\ stack[2].k = "await" /\ stack[2].t = x
      <4>1. stack[3].x = x
        BY <1>0 DEF Code
      <4>. QED  BY <1>0, <1>2, <1>4, <4>1 DEF PollOf
    <3>. QED  BY <1>0, <1>4, <2>3, <3>1, <3>3, <3>4 DEF Resumes
  <2>. QED  BY <2>2, <2>3
<1>5. CASE Under.at # Nowhere
  <2>1. At(Under.at[1], Under.at[2]) /\ stack[2].at \in Places
    BY <1>0, <1>5, PolledHere
  <2>. DEFINE g == [stack[2] EXCEPT !.at = Next_place(@), !.prog = @ \/ result # 0]
  <2>2. stack' = Append(s, g)
    BY <1>0, <1>2, <1>5, <2>1 DEF Back, s
  <2>3. g \in LoopFrames /\ g.at = Next_place(stack[2].at) /\ g.prog = (stack[2].prog \/ result # 0)
    <3>1. Next_place(stack[2].at) \in Places
      BY <2>1 DEF Next_place, Places
    <3>2. (stack[2].prog \/ result # 0) \in BOOLEAN
      OBVIOUS
    <3>. QED  BY <1>0, <3>1, <3>2 DEF LoopFrames
  <2>. HIDE DEF g
  <2>4. Len(stack') = 2 /\ stack'[2] = g
    BY <1>3, <2>2, <2>3
  <2>. QED  BY <1>0, <1>5, <2>3, <2>4 DEF Resumes
<1>. QED  BY <1>4, <1>5

\* A poll that ends leaves what is waited for, and the loop its target.
LEMMA BackNames ==
  ASSUME Context, PInv, NEW x \in Bodies, Running(x), NEW result \in {0, x}, Back(x, result),
         blocks' = blocks, wait' = wait
  PROVE  Shallow' /\ WaitsNamed' /\ Above' /\ Aimed'
<1>1. Len(stack) = 3 /\ Main \in Coroutines
  BY BodyAtThree, Types DEF Context, PInv
<1>2. Len(stack') = 1 \/ Len(stack') = 2
  <2>1. Len(stack') = 1 \/ Resumes(x, result)
    BY BackFrame DEF PInv
  <2>. QED  BY <2>1 DEF Resumes
<1>3. Shallow'
  <2>1. 1 <= 3 /\ 2 <= 3
    OBVIOUS
  <2>. QED  BY <1>2, <2>1, Zenon DEF Shallow
<1>4. Len(stack) >= 2
  BY <1>1
<1>5. BlocksSame
  BY StillBlocks
<1>. QED  BY <1>3, <1>4, <1>5, LoopNames DEF PInv

LEMMA ReturnPlain ==
  ASSUME Context, PInv, NEW x \in Coroutines, Return(x)
  PROVE  PInv'
<1>1. Running(x) /\ UNCHANGED <<scopes, handle, timers, blocks, wait, made, from>>
  BY DEF Return, InCode, code, used, ghost
<1>2. CASE x = Main
  BY <1>1, <1>2, PStill DEF Return
<1>3. CASE x # Main
  <2>0. Back(x, x)
    BY <1>3 DEF Return
  <2>1. x \in Bodies /\ Back(x, x) /\ x \in {0, x} /\ x # 0
    BY <1>3, <2>0, Types DEF Context, Main
  <2>2. Shallow' /\ WaitsNamed' /\ Above' /\ Aimed'
    BY <1>1, <2>1, BackNames
  <2>3. CASE Len(stack') = 1
    <3>1. ~(Len(stack') >= 2)
      BY <2>3
    <3>. QED  BY <2>2, <3>1 DEF PInv, Rounds
  <2>4. CASE Resumes(x, x)
    <3>1. stack'[2].prog
      BY <2>1, <2>4 DEF Resumes
    <3>. QED  BY <2>2, <3>1 DEF PInv, Rounds, Idle
  <2>. QED  BY <1>1, <2>1, <2>3, <2>4, BackFrame DEF PInv
<1>. QED  BY <1>2, <1>3

LEMMA SuspendPlain ==
  ASSUME Context, PInv, NEW x \in Coroutines, Suspend(x)
  PROVE  PInv'
<1>1. /\ Running(x) /\ wait[x] # Awake /\ ~Fires(x) /\ ~AwaitsCancelled(x) /\ Back(x, 0)
      /\ UNCHANGED <<scopes, handle, timers, blocks, wait, made, from>>
  BY DEF Suspend, code, used, ghost
<1>2. x # Main
  BY <1>1 DEF Context, IInv, Alternates
<1>3. x \in Bodies /\ 0 \in {0, x} /\ IInv
  BY <1>2, Types DEF Context
<1>4. Shallow' /\ WaitsNamed' /\ Above' /\ Aimed' /\ Shallow
  BY <1>1, <1>3, BackNames DEF PInv
<1>5. OverSame
  <2>1. ~Over(x) /\ \A t \in Bodies \ {x} : task'[t] = task[t]
    BY <1>1, <1>3, BackFacts
  <2>2. task'[x].result = 0 /\ task'[x].cancelled = task[x].cancelled
    BY <1>1, <1>3, BackFacts
  <2>. QED  BY <2>1, <2>2 DEF OverSame, Over, Done
<1>6. \A u \in Bodies : SameWait(u)
  BY <1>1 DEF SameWait
<1>7. Blocked(x)
  BY <1>1, <1>3, SuspendBlocked DEF PInv
<1>8. \A u \in Bodies : u \in Settled => u \in Settled'
  BY <1>1, <1>5, <1>6, SettledKept
<1>9. CASE Len(stack') = 1
  <2>1. ~(Len(stack') >= 2)
    BY <1>9
  <2>. QED  BY <1>4, <2>1 DEF PInv, Rounds
<1>10. CASE Resumes(x, 0)
  <2>1. Len(stack) = 3 /\ stack[2] \in LoopFrames /\ x \in 1..made
    BY <1>1, <1>3, <1>4, BodyAtThree
  <2>2. Len(stack) >= 2 /\ Len(stack') >= 2
    BY <1>10, <2>1 DEF Resumes
  <2>3. stack'[2].k = stack[2].k /\ stack'[2].t = stack[2].t
    BY <2>2, SecondFrame DEF SameLoop
  <2>4. SUFFICES ASSUME Idle(stack[2])'
                 PROVE  SeenSettled(stack[2])' /\ StillWaits(stack[2])'
    BY <1>4 DEF PInv, Rounds
  <2>5. CASE stack[2].at = Nowhere
    <3>1. Bare(x) /\ stack[2].k = "await" /\ stack[2].t = x /\ stack'[2].at = <<1, 1>>
      BY <1>10, <2>5 DEF Resumes
    <3>2. SeenSettled(stack[2])'
      <4>1. ASSUME NEW a \in DOMAIN scopes, NEW b \in DOMAIN scopes[a]
            PROVE  ~(a < 1 \/ (a = 1 /\ b < 1))
        <5>1. a \in Nat \ {0} /\ b \in Nat \ {0}
          BY <1>3, <4>1, TableTypes
        <5>. QED  BY <5>1
      <4>2. <<1, 1>>[1] = 1 /\ <<1, 1>>[2] = 1
        OBVIOUS
      <4>. QED  BY <1>1, <3>1, <4>1, <4>2 DEF SeenSettled, Passed
    <3>3. x \in Unmet'
      <4>1. x \in Unmet
        BY <1>3, <1>7, <3>1 DEF Unmet
      <4>. QED  BY <1>1, <1>3, <1>5, <1>6, <2>1, <4>1, SettledKept
    <3>. QED  BY <2>3, <3>1, <3>2, <3>3 DEF StillWaits
  <2>6. CASE stack[2].at # Nowhere
    <3>1. stack'[2].at = Next_place(stack[2].at) /\ ~stack[2].prog
      BY <1>10, <2>4, <2>6 DEF Resumes, Idle
    <3>2. Idle(stack[2])
      BY <2>6, <3>1 DEF Idle
    <3>3. SeenSettled(stack[2]) /\ StillWaits(stack[2])
      BY <2>2, <3>2 DEF PInv, Rounds
    <3>4. stack[2].at = handle[x] /\ stack[2].at \in Places /\ scopes[handle[x][1]][handle[x][2]] = x
      BY <1>1, <1>3, <1>4, <2>6, PolledHere
    <3>5. ASSUME NEW a \in DOMAIN scopes, NEW b \in DOMAIN scopes[a], Passed(stack[2], a, b)'
          PROVE  scopes[a][b] \in Settled
      <4>1. a \in Nat /\ b \in Nat /\ stack[2].at[1] \in Nat /\ stack[2].at[2] \in Nat
        BY <1>3, <3>4, <3>5, TableTypes DEF Places
      <4>2. stack'[2].at[1] = stack[2].at[1] /\ stack'[2].at[2] = stack[2].at[2] + 1
        BY <3>1 DEF Next_place
      <4>3. Passed(stack[2], a, b) \/ (a = stack[2].at[1] /\ b = stack[2].at[2])
        BY <3>5, <4>1, <4>2 DEF Passed
      <4>4. CASE Passed(stack[2], a, b)
        BY <3>3, <4>4 DEF SeenSettled
      <4>5. CASE a = stack[2].at[1] /\ b = stack[2].at[2]
        BY <1>3, <1>7, <3>4, <4>5 DEF Settled
      <4>. QED  BY <4>3, <4>4, <4>5
    <3>6. SeenSettled(stack[2])'
      <4>1. ASSUME NEW a \in DOMAIN scopes, NEW b \in DOMAIN scopes[a], Passed(stack[2], a, b)'
            PROVE  scopes[a][b] \in Settled'
        BY <1>8, <3>5, <4>1 DEF Settled
      <4>. QED  BY <1>1, <4>1 DEF SeenSettled
    <3>7. ASSUME stack[2].k \in {"await", "join_task"}
          PROVE  stack[2].t \in Unmet'
      <4>1. stack[2].t \in 1..made /\ stack[2].t \in Unmet /\ stack[2].t \in Bodies
        BY <1>3, <2>2, <3>3, <3>7, TargetTypes DEF StillWaits, Unmet
      <4>. QED  BY <1>1, <1>5, <1>6, <4>1, SettledKept
    <3>. QED  BY <1>1, <2>3, <3>3, <3>6, <3>7 DEF StillWaits
  <2>. QED  BY <2>5, <2>6
<1>. QED  BY <1>1, <1>3, <1>4, <1>9, <1>10, BackFrame

--------------------------------------------------------------------------------
(* Steps of the loop of the top level.                                      *)

LEMMA LeavesPlain ==
  ASSUME Context, PInv, Looping, Pop, BlocksSame, wait' = wait
  PROVE  PInv'
<1>1. Len(stack) = 2 /\ IInv
  BY LoopAtTwo DEF Context, PInv
<1>2. Len(stack') = Len(stack) - 1
  BY <1>1, LeavesCode
<1>3. Len(stack') = 1 /\ Len(stack) >= 2
  BY <1>1, <1>2
<1>4. ~(Len(stack') >= 2) /\ Len(stack') <= 3
  BY <1>3
<1>5. WaitsNamed' /\ Above' /\ Aimed'
  BY <1>3, LoopNames DEF PInv
<1>. QED  BY <1>4, <1>5 DEF PInv, Shallow, Rounds

\* The loop on top moves to another place.
LEMMA TurnsFrame ==
  ASSUME Context, PInv, Looping, NEW g \in LoopFrames, SetLoop(g)
  PROVE  Len(stack') = 2 /\ stack'[2] = g
<1>1. Len(stack) = 2 /\ IInv /\ stack \in Seq(CodeFrames \union LoopFrames)
  BY LoopAtTwo DEF Context, PInv, IInv, Base
<1>. DEFINE s == SubSeq(stack, 1, 1)
<1>2. stack' = Append(s, g)
  <2>1. Len(stack) - 1 = 1
    BY <1>1
  <2>. QED  BY <2>1 DEF SetLoop, Front
<1>3. s \in Seq(CodeFrames \union LoopFrames) /\ Len(s) = 1
  <2>1. 1 \in 0..Len(stack)
    BY <1>1
  <2>. QED  BY <1>1, <2>1, Cut
<1>4. g \in CodeFrames \union LoopFrames
  OBVIOUS
<1>. HIDE DEF s
<1>5. Len(Append(s, g)) = Len(s) + 1 /\ Append(s, g)[Len(s) + 1] = g
  BY <1>3, <1>4, OnTop
<1>6. Len(s) + 1 = 2
  BY <1>3
<1>. QED  BY <1>2, <1>5, <1>6

\* The loop goes back to its top.
LEMMA RestartsPlain ==
  ASSUME Context, PInv, Looping, NEW g \in LoopFrames, g.at = Nowhere, SetLoop(g),
         BlocksSame, wait' = wait
  PROVE  PInv'
<1>1. Len(stack) = 2 /\ Len(stack') = 2 /\ stack'[2] = g
  BY LoopAtTwo, TurnsFrame DEF Context, PInv
<1>2. Len(stack) >= 2 /\ Len(stack') <= 3
  BY <1>1
<1>3. WaitsNamed' /\ Above' /\ Aimed'
  BY <1>2, LoopNames DEF PInv
<1>. QED  BY <1>1, <1>2, <1>3 DEF PInv, Shallow, Rounds, Idle

LEMMA DriveReadyPlain ==
  ASSUME Context, PInv, DriveReady
  PROVE  PInv'
<1>1. Looping /\ Pop /\ blocks' = blocks /\ wait' = wait
  BY DEF DriveReady, AtTop, code
<1>. QED  BY <1>1, StillBlocks, LeavesPlain

LEMMA DriveCancelledPlain ==
  ASSUME Context, PInv, DriveCancelled
  PROVE  PInv'
<1>1. Looping /\ UNCHANGED <<scopes, task, handle, blocks, wait, timers, made, from>>
  BY DEF DriveCancelled, AtTop, code, sched, used, ghost
<1>2. CASE Loop.k = "await"
  BY <1>1, <1>2, PStill DEF DriveCancelled
<1>3. CASE Loop.k # "await"
  BY <1>1, <1>3, StillBlocks, LeavesPlain DEF DriveCancelled
<1>. QED  BY <1>2, <1>3

LEMMA DriveBarePlain ==
  ASSUME Context, PInv, DriveBare
  PROVE  PInv'
<1>1. /\ Looping /\ Loop.at = Nowhere /\ blocks' = blocks /\ wait' = wait
      /\ stack' = Append(stack, Code(Loop.t))
  BY DEF DriveBare, AtTop, code
<1>2. Len(stack) = 2 /\ Loop = stack[2] /\ IInv /\ Loop \in LoopFrames
      /\ stack \in Seq(CodeFrames \union LoopFrames)
  BY <1>1, LoopAtTwo DEF Context, PInv, IInv, Base
<1>3. Code(Loop.t) \in CodeFrames \union LoopFrames
  BY <1>2 DEF Code, CodeFrames, LoopFrames
<1>4. Len(stack') = Len(stack) + 1 /\ \A i \in 1..Len(stack) : stack'[i] = stack[i]
  <2>. DEFINE e == Code(Loop.t)
  <2>1. /\ stack' = Append(stack, e) /\ e \in CodeFrames \union LoopFrames
        /\ stack \in Seq(CodeFrames \union LoopFrames)
    BY <1>1, <1>2, <1>3
  <2>. HIDE DEF e
  <2>2. /\ Len(Append(stack, e)) = Len(stack) + 1 /\ Append(stack, e)[Len(stack) + 1] = e
        /\ \A i \in 1..Len(stack) : Append(stack, e)[i] = stack[i]
    BY <2>1, OnTop
  <2>. QED  BY <2>1, <2>2
<1>5. Len(stack') = 3 /\ 2 \in 1..Len(stack) /\ Len(stack) >= 2
  BY <1>2, <1>4
<1>6. Len(stack') <= 3 /\ stack'[2] = stack[2]
  BY <1>4, <1>5
<1>7. WaitsNamed' /\ Above' /\ Aimed'
  BY <1>1, <1>5, StillBlocks, LoopNames DEF PInv
<1>. QED  BY <1>1, <1>2, <1>6, <1>7 DEF PInv, Shallow, Rounds, Idle

\* A round begins when what the loop waits for has not come.
LEMMA BeginRoundPlain ==
  ASSUME Context, PInv, BeginRound
  PROVE  PInv'
<1>. DEFINE g == [Loop EXCEPT !.at = <<1, 1>>, !.prog = FALSE]
<1>1. /\ Looping /\ ~Ripe /\ ~GivesUp /\ (Loop.k = "await" => ~Bare(Loop.t)) /\ SetLoop(g)
      /\ UNCHANGED <<scopes, task, handle, blocks, wait, timers, made, from>>
  BY DEF BeginRound, AtTop, code, sched, used, ghost
<1>2. Len(stack) = 2 /\ Loop = stack[2] /\ Loop \in LoopFrames /\ IInv /\ Driver = Main
  BY <1>1, LoopAtTwo DEF Context, PInv
<1>3. g \in LoopFrames /\ g.at = <<1, 1>> /\ g.k = Loop.k /\ g.t = Loop.t
  BY <1>2 DEF LoopFrames, Places
<1>. HIDE DEF g
<1>4. Len(stack') = 2 /\ stack'[2] = g
  BY <1>1, <1>3, TurnsFrame
<1>5. Len(stack) >= 2 /\ Len(stack') <= 3
  BY <1>2, <1>4
<1>6. WaitsNamed' /\ Above' /\ Aimed'
  BY <1>1, <1>5, StillBlocks, LoopNames DEF PInv
<1>7. SeenSettled(stack[2])'
  <2>1. ASSUME NEW a \in DOMAIN scopes, NEW b \in DOMAIN scopes[a]
        PROVE  ~(a < 1 \/ (a = 1 /\ b < 1))
    <3>1. a \in Nat \ {0} /\ b \in Nat \ {0}
      BY <1>2, <2>1, TableTypes
    <3>. QED  BY <3>1
  <2>2. <<1, 1>>[1] = 1 /\ <<1, 1>>[2] = 1
    OBVIOUS
  <2>. QED  BY <1>1, <1>3, <1>4, <2>1, <2>2 DEF SeenSettled, Passed
<1>8. Loop.k = "sleep" => Main \in timers
  BY <1>1, <1>2 DEF Ripe
<1>9. ASSUME Loop.k \in {"await", "join_task"}
      PROVE  Loop.t \in Unmet
  <2>. DEFINE t == Loop.t
  <2>1. t \in 1..made
    BY <1>2, <1>5, <1>9, TargetTypes
  <2>2. IF Bare(t) THEN Loop.k = "await" ELSE from[t] \in Mine(Main)
    BY <1>2, <1>5, <1>9 DEF PInv, Aimed, Aims
  <2>3. ~Bare(t) /\ from[t] \in Mine(Main)
    BY <1>1, <2>2
  <2>4. PICK i \in DOMAIN blocks[Main] : from[t] = blocks[Main][i].id
    BY <2>3 DEF Mine
  <2>5. At(handle[t][1], handle[t][2]) /\ scopes[handle[t][1]][handle[t][2]] = t
    BY <1>2, <2>1, <2>4, Types DEF Context, JInv, Placed
  <2>6. ~HandleReady(t) /\ ~HandleCancelled(t)
    BY <1>1, <1>9, <2>3 DEF Ripe, GivesUp
  <2>7. ~Over(t)
    BY <2>5, <2>6 DEF HandleReady, HandleCancelled, Over
  <2>8. t \in Bodies
    BY <1>2, <2>1, BodyTypes
  <2>. QED  BY <2>3, <2>7, <2>8 DEF Unmet
<1>10. Unmet' = Unmet
  BY <1>1 DEF Unmet, Bare, Over, Done, Blocked, InScope, Block
<1>11. StillWaits(stack[2])'
  BY <1>1, <1>3, <1>4, <1>8, <1>9, <1>10 DEF StillWaits
<1>. QED  BY <1>5, <1>6, <1>7, <1>11 DEF PInv, Shallow, Rounds

\* Between two polls nobody is marked.
LEMMA NotPolled ==
  ASSUME Context, Shallow, Looping, NEW u \in Bodies
  PROVE  ~task[u].polling
<1>1. Len(stack) = 2 /\ stack[1] = Code(Main) /\ stack[2] \in LoopFrames /\ u # Main
  BY LoopAtTwo, Types DEF Context
<1>2. stack[1] # Code(u) /\ stack[2] # Code(u)
  BY <1>1 DEF Code, LoopFrames
<1>3. ~OnStack(u)
  <2>1. \A k \in 1..2 : k = 1 \/ k = 2
    OBVIOUS
  <2>. QED  BY <1>1, <1>2, <2>1 DEF OnStack
<1>. QED  BY <1>3 DEF Context, JInv, Finished

\* A round skips only tasks that are over.
LEMMA SkippedOver ==
  ASSUME Context, Shallow, Looping, NEW a \in DOMAIN scopes, NEW b \in DOMAIN scopes[a],
         Loop.at \in Places, ~Passed(Loop, a, b), <<a, b>> \notin Due(Loop.at)
  PROVE  Over(scopes[a][b])
<1>1. a \in Nat /\ b \in Nat /\ scopes[a][b] \in Bodies
  BY TableTypes DEF Context
<1>2. Loop.at[1] \in Nat /\ Loop.at[2] \in Nat
  BY DEF Places
<1>. DEFINE p == <<a, b>>
<1>3. p[1] = a /\ p[2] = b
  OBVIOUS
<1>4. Before(Loop.at, p)
  BY <1>1, <1>2, <1>3 DEF Before, Passed
<1>5. p \in {a} \X DOMAIN scopes[a]
  OBVIOUS
<1>6. p \in UNION {{si} \X DOMAIN scopes[si] : si \in DOMAIN scopes}
  BY <1>5
<1>. HIDE DEF p
<1>7. ~Pollable(scopes[p[1]][p[2]])
  BY <1>4, <1>6 DEF Due, p
<1>8. ~Pollable(scopes[a][b]) /\ ~task[scopes[a][b]].polling
  BY <1>1, <1>3, <1>7, NotPolled
<1>. QED  BY <1>8 DEF Pollable, Over

LEMMA RoundPollPlain ==
  ASSUME Context, PInv, RoundPoll
  PROVE  PInv'
<1>. DEFINE p == First(Due(Loop.at))
            t == scopes[p[1]][p[2]]
            g == [Loop EXCEPT !.at = p]
<1>1. /\ Looping /\ Due(Loop.at) # {} /\ Loop.at # Nowhere
      /\ UNCHANGED <<scopes, handle, blocks, wait, timers, made, from>>
      /\ task' = [task EXCEPT ![t].polling = TRUE]
      /\ stack' = Append(Append(Front(stack), g), Code(t))
  BY DEF RoundPoll, code, used, ghost
<1>2. /\ Len(stack) = 2 /\ Loop = stack[2] /\ Loop \in LoopFrames /\ IInv /\ Shallow
      /\ stack \in Seq(CodeFrames \union LoopFrames)
  BY <1>1, LoopAtTwo DEF Context, PInv, IInv, Base
<1>3. p \in Places /\ t \in Bodies /\ \A q \in Due(Loop.at) : Before(p, q)
  BY <1>1, <1>2, FirstDue
<1>4. g \in LoopFrames /\ g.at = p /\ g.k = Loop.k /\ g.t = Loop.t /\ g.prog = Loop.prog
  BY <1>2, <1>3 DEF LoopFrames
<1>5. OverSame
  <2>1. task \in [Bodies -> Records]
    BY <1>2, Types
  <2>2. ASSUME NEW v \in Bodies
        PROVE  task'[v].result = task[v].result /\ task'[v].cancelled = task[v].cancelled
    <3>1. task'[v] = task[v] \/ task'[v] = [task[v] EXCEPT !.polling = TRUE]
      BY <1>1, <1>3, <2>1
    <3>2. task[v] \in Records
      BY <2>1
    <3>. QED  BY <3>1, <3>2 DEF Records
  <2>. QED  BY <2>2 DEF OverSame, Over, Done
<1>6. Len(stack') = 3 /\ stack'[2] = g
  <2>. DEFINE s == SubSeq(stack, 1, 1)
              c == Code(t)
              F == CodeFrames \union LoopFrames
  <2>1. s \in Seq(F) /\ Len(s) = 1
    <3>1. 1 \in 0..Len(stack)
      BY <1>2
    <3>. QED  BY <1>2, <3>1, Cut
  <2>2. stack' = Append(Append(s, g), c)
    <3>1. Len(stack) - 1 = 1
      BY <1>2
    <3>. QED  BY <1>1, <3>1 DEF Front
  <2>3. g \in F /\ c \in F
    <3>1. t \in Coroutines
      BY <1>2, <1>3, Types
    <3>. QED  BY <1>4, <3>1 DEF Code, CodeFrames
  <2>. HIDE DEF s, g, c, F
  <2>4. /\ Append(s, g) \in Seq(F) /\ Len(Append(s, g)) = Len(s) + 1
        /\ Append(s, g)[Len(s) + 1] = g
    BY <2>1, <2>3, OnTop
  <2>. DEFINE r == Append(s, g)
  <2>5. r \in Seq(F) /\ Len(r) = 2 /\ r[2] = g /\ stack' = Append(r, c)
    <3>1. Len(s) + 1 = 2
      BY <2>1
    <3>. QED  BY <2>2, <2>4, <3>1
  <2>a. r \in Seq(F)
    BY <2>5
  <2>. HIDE DEF r
  <2>6. /\ Len(Append(r, c)) = Len(r) + 1 /\ Append(r, c)[Len(r) + 1] = c
        /\ \A i \in 1..Len(r) : Append(r, c)[i] = r[i]
    BY <2>3, <2>a, OnTop
  <2>7. Len(r) + 1 = 3 /\ 2 \in 1..Len(r)
    BY <2>5
  <2>. QED  BY <2>5, <2>6, <2>7
<1>. HIDE DEF p, t, g
<1>7. Len(stack) >= 2 /\ Len(stack') <= 3 /\ Len(stack') >= 2
  BY <1>2, <1>6
<1>8. WaitsNamed' /\ Above' /\ Aimed'
  BY <1>1, <1>7, StillBlocks, LoopNames DEF PInv
<1>9. \A u \in Bodies : SameWait(u)
  BY <1>1 DEF SameWait
<1>10. SUFFICES ASSUME Idle(stack[2])'
                PROVE  SeenSettled(stack[2])' /\ StillWaits(stack[2])'
  BY <1>7, <1>8 DEF PInv, Shallow, Rounds
<1>11. SeenSettled(Loop) /\ StillWaits(Loop)
  <2>1. Idle(stack[2])
    BY <1>1, <1>2, <1>4, <1>6, <1>10 DEF Idle
  <2>. QED  BY <1>2, <1>7, <2>1 DEF PInv, Rounds
<1>12. ASSUME NEW a \in DOMAIN scopes, NEW b \in DOMAIN scopes[a], Passed(g, a, b)
       PROVE  scopes[a][b] \in Settled'
  <2>1. scopes[a][b] \in Bodies /\ a \in Nat /\ b \in Nat
    BY <1>2, TableTypes
  <2>2. ASSUME Passed(Loop, a, b)
        PROVE  scopes[a][b] \in Settled
    BY <1>11, <2>2 DEF SeenSettled
  <2>3. ASSUME ~Passed(Loop, a, b)
        PROVE  scopes[a][b] \in Settled
    <3>1. <<a, b>> \notin Due(Loop.at)
      <4>1. SUFFICES ASSUME Before(p, <<a, b>>)
                     PROVE  FALSE
        BY <1>3
      <4>2. p[1] \in Nat /\ p[2] \in Nat
        BY <1>3 DEF Places
      <4>3. p[1] < a \/ (p[1] = a /\ p[2] <= b)
        BY <4>1 DEF Before
      <4>4. a < p[1] \/ (a = p[1] /\ b < p[2])
        BY <1>4, <1>12 DEF Passed
      <4>. QED  BY <2>1, <4>2, <4>3, <4>4
    <3>2. Loop.at \in Places
      BY <1>2 DEF LoopFrames
    <3>3. Over(scopes[a][b])
      BY <1>1, <1>2, <2>3, <3>1, <3>2, SkippedOver
    <3>. QED  BY <2>1, <3>3 DEF Settled
  <2>4. scopes[a][b] \in Settled
    BY <2>2, <2>3
  <2>. QED  BY <1>1, <1>5, <1>9, <2>1, <2>4, SettledKept
<1>13. SeenSettled(stack[2])'
  BY <1>1, <1>6, <1>12 DEF SeenSettled, Passed
<1>14. ASSUME Loop.k \in {"await", "join_task"}
       PROVE  Loop.t \in Unmet'
  <2>1. Loop.t \in 1..made /\ Loop.t \in Unmet /\ Loop.t \in Bodies
    BY <1>2, <1>7, <1>11, <1>14, TargetTypes DEF StillWaits, Unmet
  <2>. QED  BY <1>1, <1>5, <1>9, <2>1, SettledKept
<1>15. StillWaits(stack[2])'
  BY <1>1, <1>4, <1>6, <1>11, <1>14 DEF StillWaits
<1>. QED  BY <1>13, <1>15

LEMMA ScopeEndPlain ==
  ASSUME Context, PInv, ScopeEnd
  PROVE  PInv'
<1>0. IInv /\ JInv /\ Bodies \subseteq Coroutines /\ Main \notin Bodies /\ Main \in Coroutines
  BY Types DEF Context
<1>1. Looping /\ Loop.k = "join" /\ wait' = wait
      /\ UNCHANGED <<task, handle, timers, made, from>>
  BY DEF ScopeEnd, RoundOver, Drained, Lost, used
<1>2. Driver = Main /\ Len(stack) = 2 /\ Loop = stack[2] /\ stack[1] = Code(Main)
  BY <1>0, <1>1, LoopAtTwo DEF PInv
<1>3. CASE Lost
  BY <1>1, <1>3, PStill DEF ScopeEnd
<1>4. CASE ~Lost
  <2>1. Pop /\ blocks' = [blocks EXCEPT ![Main] = Front(@)]
    BY <1>2, <1>4 DEF ScopeEnd
  <2>2. blocks[Main] # <<>>
    <3>1. 2 \in 2..Len(stack) /\ 2 - 1 = 1 /\ stack[1].x = Main
      BY <1>2 DEF Code
    <3>. QED  BY <1>0, <1>1, <1>2, <3>1 DEF IInv, Joining
  <2>3. Fewer /\ \A y \in Coroutines \ {Main} : blocks'[y] = blocks[y]
    BY <1>0, <2>1, <2>2, ShorterBlocks, Shorter DEF IInv
  <2>4. Above'
    BY <2>3, AboveKept DEF PInv
  <2>5. WaitsNamed'
    <3>1. ASSUME NEW y \in Bodies, wait'[y] \in Bodies
          PROVE  wait'[y] \in Named(y)'
      <4>1. Mine(y)' = Mine(y)
        BY <1>0, <2>3 DEF Mine
      <4>. QED  BY <1>1, <3>1, <4>1, NamedKept DEF PInv, WaitsNamed
    <3>. QED  BY <3>1 DEF WaitsNamed
  <2>6. Len(stack') = Len(stack) - 1
    BY <1>0, <1>1, <2>1, LeavesCode
  <2>7. Len(stack') = 1
    BY <1>2, <2>6
  <2>8. ~(Len(stack') >= 2) /\ Len(stack') <= 3
    BY <2>7
  <2>. QED  BY <2>4, <2>5, <2>8 DEF PInv, Shallow, Aimed, Rounds
<1>. QED  BY <1>3, <1>4

LEMMA RoundAgainPlain ==
  ASSUME Context, PInv, RoundAgain
  PROVE  PInv'
<1>1. Looping /\ UNCHANGED <<scopes, task, handle, blocks, wait, made, from>>
  BY DEF RoundAgain, RoundOver, code, used, ghost
<1>2. ASSUME SetLoop([Loop EXCEPT !.at = Nowhere])
      PROVE  PInv'
  <2>. DEFINE g == [Loop EXCEPT !.at = Nowhere]
  <2>1. Loop \in LoopFrames
    BY <1>1, LoopKinds
  <2>2. g \in LoopFrames /\ g.at = Nowhere
    BY <2>1 DEF LoopFrames, Places, Nowhere
  <2>3. SetLoop(g)
    BY <1>2
  <2>. HIDE DEF g
  <2>. QED  BY <1>1, <2>2, <2>3, StillBlocks, RestartsPlain
<1>3. ASSUME UNCHANGED <<timers, stack>>
      PROVE  PInv'
  BY <1>1, <1>3, PStill
<1>. QED  BY <1>2, <1>3 DEF RoundAgain

--------------------------------------------------------------------------------
(* The deadlock.                                                            *)

\* The top level, and the bodies that are blocked.
Stuck == {Main} \union {x \in Bodies : ~Over(x) /\ Blocked(x)}

\* A round without progress is over and no timer is left: every task of the
\* table that is not over is blocked.
LEMMA TableStuck ==
  ASSUME Context, PInv, RoundOver, ~Loop.prog, NEW t \in 1..made, ~Bare(t), ~Over(t)
  PROVE  t \in Stuck
<1>1. Looping /\ Loop.at # Nowhere /\ Due(Loop.at) = {}
  BY DEF RoundOver
<1>2. Len(stack) = 2 /\ Loop = stack[2] /\ Loop \in LoopFrames /\ Shallow
  BY <1>1, LoopAtTwo DEF Context, PInv
<1>3. Len(stack) >= 2 /\ Idle(stack[2]) /\ Loop.at \in Places
  BY <1>1, <1>2 DEF Idle, LoopFrames
<1>. DEFINE a == handle[t][1]
            b == handle[t][2]
<1>4. a \in DOMAIN scopes /\ b \in DOMAIN scopes[a] /\ scopes[a][b] = t
  BY OwnPlace DEF Context, JInv, At
<1>. HIDE DEF a, b
<1>5. CASE Passed(Loop, a, b)
  <2>1. t \in Settled
    BY <1>2, <1>3, <1>4, <1>5 DEF PInv, Rounds, SeenSettled
  <2>. QED  BY <2>1 DEF Settled, Stuck
<1>6. CASE ~Passed(Loop, a, b)
  <2>1. Over(scopes[a][b])
    BY <1>1, <1>2, <1>3, <1>4, <1>6, SkippedOver
  <2>. QED  BY <1>4, <2>1
<1>. QED  BY <1>5, <1>6

LEMMA ScopeStuck ==
  ASSUME Context, PInv, RoundOver, ~Loop.prog, NEW si \in DOMAIN scopes,
         NEW t \in InScope(si), ~Over(t)
  PROVE  t \in Stuck
<1>1. PICK ti \in DOMAIN scopes[si] : scopes[si][ti] = t
  BY DEF InScope, Range
<1>2. t <= made /\ ~Bare(t) /\ t \in Bodies
  BY <1>1, TableTypes DEF Context, IInv, Started
<1>3. t \in 1..made
  BY <1>2, BodyTypes, Types DEF Context
<1>. QED  BY <1>2, <1>3, TableStuck

\* A body that is blocked waits for one that is stuck too.
LEMMA BodyStuck ==
  ASSUME Context, PInv, RoundOver, ~Loop.prog, timers = {}, NEW x \in Bodies, ~Over(x), Blocked(x)
  PROVE  WaitsFor(x) \intersect Stuck # {}
<1>0. x \in Coroutines /\ IInv /\ JInv /\ AtJoin \notin Bodies
  BY Types DEF Context, AtJoin
<1>1. CASE wait[x] = AtJoin /\ \E t \in InScope(Block(x).si) : ~Over(t)
  <2>1. PICK t \in InScope(Block(x).si) : ~Over(t)
    BY <1>1
  <2>2. Block(x).si \in DOMAIN scopes
    <3>1. Block(x).si \in OpenSlots
      BY <1>0, <1>1, LeavesInside, LastBlock DEF JInv, Slotted
    <3>. QED  BY <1>0, <3>1 DEF OpenSlots, IInv, Base
  <2>3. t \in Stuck
    BY <2>1, <2>2, ScopeStuck
  <2>4. t \in Tasks(Block(x).si)
    BY <2>1, <2>2 DEF Tasks
  <2>5. t \in WaitsFor(x)
    BY <1>1, <2>1, <2>4 DEF WaitsFor, Unfinished
  <2>. QED  BY <2>3, <2>5
<1>2. CASE wait[x] \in Bodies /\ ~Over(wait[x])
  <2>1. PICK t \in Named(x) : t = wait[x]
    BY <1>2 DEF PInv, WaitsNamed
  <2>2. t \in 1..made /\ from[t] # 0 /\ t \in Bodies
    BY <1>0, <2>1, BodyTypes DEF Named
  <2>3. ~Bare(t) /\ ~Over(t)
    BY <1>0, <1>2, <2>1, <2>2 DEF IInv, Started
  <2>4. t \in Stuck
    BY <2>2, <2>3, TableStuck
  <2>5. t \in WaitsFor(x)
    BY <1>0, <1>2, <2>1, <2>2, <2>3 DEF WaitsFor, Unfinished
  <2>. QED  BY <2>4, <2>5
<1>. QED  BY <1>1, <1>2 DEF Blocked

\* So does the top level, under its loop.
LEMMA MainStuck ==
  ASSUME Context, PInv, RoundOver, ~Loop.prog, timers = {}, ~Drained, ~Lost
  PROVE  WaitsFor(Main) \intersect Stuck # {}
<1>1. Looping /\ Loop.at # Nowhere
  BY DEF RoundOver
<1>2. /\ Len(stack) = 2 /\ Loop = stack[2] /\ Loop \in LoopFrames /\ stack[1] = Code(Main)
      /\ IInv /\ JInv
  BY <1>1, LoopAtTwo DEF Context, PInv
<1>3. Len(stack) >= 2 /\ Idle(stack[2])
  BY <1>1, <1>2 DEF Idle
<1>4. Loop.k \in {"join", "sleep", "await", "join_task"} /\ StillWaits(Loop)
  BY <1>2, <1>3 DEF LoopFrames, PInv, Rounds
<1>5. Loop \in LoopsOf(Main)
  <2>1. 1 \in {j \in 1..Len(stack) - 1 : stack[j] = Code(Main)} /\ 1 + 1 = 2
    BY <1>2
  <2>. QED  BY <1>2, <2>1 DEF LoopsOf
<1>6. CASE Loop.k = "join"
  <2>1. Loop.si \in DOMAIN scopes /\ ~ScopeReady(Loop.si)
    BY <1>6 DEF Drained, Lost
  <2>2. PICK t \in InScope(Loop.si) : ~Over(t)
    BY <2>1 DEF ScopeReady
  <2>3. t \in Stuck
    BY <2>1, <2>2, ScopeStuck
  <2>4. t \in Tasks(Loop.si)
    BY <2>1, <2>2 DEF Tasks
  <2>5. t \in WaitsFor(Main)
    BY <1>5, <1>6, <2>2, <2>4 DEF WaitsFor, Unfinished
  <2>. QED  BY <2>3, <2>5
<1>7. CASE Loop.k = "sleep"
  BY <1>4, <1>7 DEF StillWaits
<1>8. CASE Loop.k \in {"await", "join_task"}
  <2>. DEFINE t == Loop.t
  <2>1. t \in 1..made /\ t \in Unmet
    BY <1>2, <1>3, <1>4, <1>8, TargetTypes DEF StillWaits
  <2>2. ~Over(t) /\ t \in Stuck
    <3>1. CASE Bare(t)
      <4>1. Blocked(t) /\ t \in Bodies /\ Loop.k = "await"
        BY <1>2, <1>3, <1>8, <2>1, <3>1 DEF Unmet, PInv, Aimed, Aims
      <4>2. 2 \in 1..Len(stack)
        BY <1>2
      <4>3. DrivenBare(t)
        BY <1>2, <3>1, <4>1, <4>2 DEF DrivenBare
      <4>4. ~Over(t)
        BY <1>2, <4>1, <4>3 DEF JInv, Finished
      <4>. QED  BY <4>1, <4>4 DEF Stuck
    <3>2. CASE ~Bare(t)
      <4>1. ~Over(t)
        BY <2>1, <3>2 DEF Unmet
      <4>. QED  BY <2>1, <3>2, <4>1, TableStuck
    <3>. QED  BY <3>1, <3>2
  <2>3. t \in WaitsFor(Main)
    BY <1>5, <1>8, <2>2 DEF WaitsFor, Unfinished
  <2>. QED  BY <2>2, <2>3
<1>. QED  BY <1>4, <1>6, <1>7, <1>8

LEMMA DeadlockStep ==
  ASSUME Context, PInv, RoundAgain, mode' = "E0010"
  PROVE  DeadlockHonest'
<1>1. /\ RoundOver /\ ~Drained /\ ~Lost /\ mode = "running"
      /\ UNCHANGED <<scopes, task, blocks, wait>>
  BY DEF RoundAgain, RoundOver, Looping, code
<1>2. ~Loop.prog /\ timers = {} /\ stack' = stack
  BY <1>1 DEF RoundAgain
<1>3. Stuck \in SUBSET Coroutines /\ Main \in Stuck
  BY Types DEF Stuck, Context
<1>4. ASSUME NEW x \in Stuck
      PROVE  WaitsFor(x) \intersect Stuck # {}
  <2>1. CASE x = Main
    BY <1>1, <1>2, <2>1, MainStuck
  <2>2. CASE x # Main
    BY <1>1, <1>2, <2>2, BodyStuck DEF Stuck
  <2>. QED  BY <2>1, <2>2
<1>5. \A x : WaitsFor(x)' = WaitsFor(x)
  BY <1>1, <1>2 DEF WaitsFor, Unfinished, Over, Done, LoopsOf, Tasks, InScope, Block
<1>6. \E D \in SUBSET Coroutines : D # {} /\ \A x \in D : WaitsFor(x)' \intersect D # {}
  BY <1>3, <1>4, <1>5
<1>. QED  BY <1>6 DEF DeadlockHonest

--------------------------------------------------------------------------------
(* Every step, and the theorem.                                             *)

\* A run that is plain was plain before; a step counts a cancellation or none.
LEMMA PlainBefore ==
  ASSUME Next, cancels \in Nat
  PROVE  /\ cancels' \in Nat /\ (Plain' => Plain)
         /\ \A x \in Coroutines : \A t \in Named(x) : cancel_task(x, t) => ~Plain'
<1>1. ASSUME UNCHANGED <<cancels, nested>>
      PROVE  cancels' \in Nat /\ (Plain' => Plain)
  BY <1>1 DEF Plain
<1>2. ASSUME NEW f, Push(f), cancels' = cancels
      PROVE  cancels' \in Nat /\ (Plain' => Plain)
  BY <1>2 DEF Plain, Push
<1>3. ASSUME NEW x, NEW t, cancel_task(x, t)
      PROVE  cancels' \in Nat /\ ~Plain'
  <2>1. cancels' = cancels + 1
    BY <1>3 DEF cancel_task
  <2>. QED  BY <2>1 DEF Plain
<1>4. ASSUME NEW x \in Coroutines, Body(x)
      PROVE  cancels' \in Nat /\ (Plain' => Plain)
  <2>1. ASSUME NEW split \in BOOLEAN, Open(x, split)
        PROVE  UNCHANGED <<cancels, nested>>
    BY <2>1 DEF Open, ghost
  <2>2. ASSUME Spawn(x) \/ Return(x) \/ ResumeAwait(x) \/ ResumeJoin(x) \/ ResumeCancelled(x) \/ Suspend(x)
        PROVE  UNCHANGED <<cancels, nested>>
    BY <2>2 DEF Spawn, Return, ResumeAwait, ResumeJoin, ResumeCancelled, Suspend, used, ghost
  <2>3. ASSUME Nap(x) \/ AwaitBare(x) \/ EndBlock(x)
               \/ \E t \in Named(x) : \E how \in {"await", "join_task"} : Await(x, t, how)
        PROVE  \/ UNCHANGED <<cancels, nested>>
               \/ cancels' = cancels /\ \E f : Push(f)
    BY <2>3 DEF Nap, AwaitBare, EndBlock, Await, used, ghost
  <2>. QED  BY <1>1, <1>2, <1>3, <1>4, <2>1, <2>2, <2>3 DEF Body
<1>5. ASSUME Scheduler \/ Exited
      PROVE  UNCHANGED <<cancels, nested>>
  BY <1>5 DEF Scheduler, DriveReady, DriveCancelled, DriveBare, BeginRound, RoundPoll, ScopeEnd,
              RoundAgain, Exited, vars, used, ghost
<1>. QED  BY <1>1, <1>3, <1>4, <1>5 DEF Next

\* E0010 is what a round that is over reports, and nothing else does.
LEMMA WhoReports ==
  ASSUME Next, mode' = "E0010"
  PROVE  RoundAgain \/ UNCHANGED vars
<1>1. ASSUME NEW x \in Coroutines, Body(x)
      PROVE  FALSE
  <2>1. mode = "running"
    BY <1>1 DEF Body, Open, Spawn, Nap, AwaitBare, EndBlock, Return, cancel_task, Await, ResumeAwait,
                ResumeJoin, ResumeCancelled, Suspend, InCode, Running
  <2>2. ASSUME NEW result, Back(x, result)
        PROVE  mode' \in {mode, "panic"}
    BY <2>2 DEF Back
  <2>3. ASSUME Return(x) \/ Suspend(x) \/ ResumeCancelled(x)
        PROVE  mode' \in {mode, "panic", "ended", "E0056"}
    BY <2>2, <2>3 DEF Return, Suspend, ResumeCancelled
  <2>4. ASSUME ~(Return(x) \/ Suspend(x) \/ ResumeCancelled(x))
        PROVE  mode' = mode
    BY <1>1, <2>4 DEF Body, Open, Spawn, Nap, AwaitBare, EndBlock, cancel_task, Await, ResumeAwait,
                      ResumeJoin
  <2>. QED  BY <2>1, <2>3, <2>4
<1>2. ASSUME DriveReady \/ DriveCancelled \/ DriveBare \/ BeginRound \/ RoundPoll \/ ScopeEnd
      PROVE  FALSE
  <2>1. mode = "running"
    BY <1>2 DEF DriveReady, DriveCancelled, DriveBare, BeginRound, RoundPoll, ScopeEnd, RoundOver,
                AtTop, Looping
  <2>2. mode' \in {mode, "panic", "E0056"}
    BY <1>2 DEF DriveReady, DriveCancelled, DriveBare, BeginRound, RoundPoll, ScopeEnd
  <2>. QED  BY <2>1, <2>2
<1>. QED  BY <1>1, <1>2 DEF Next, Scheduler, Exited

LEMMA PNext ==
  ASSUME Careful, IInv, JInv, PInv, Plain', Next, cancels \in Nat
  PROVE  PInv'
<1>1. Context
  BY StepContext
<1>2. ASSUME NEW x \in Coroutines, Body(x)
      PROVE  PInv'
  <2>1. ASSUME ResumeCancelled(x)
        PROVE  PInv'
    <3>1. UNCHANGED <<scopes, task, handle, blocks, wait, timers, stack, made, from>>
      BY <2>1 DEF ResumeCancelled, sched, code, used, ghost
    <3>. QED  BY <3>1, PStill
  <2>2. ASSUME NEW t \in Named(x), cancel_task(x, t)
        PROVE  PInv'
    BY <2>2, PlainBefore
  <2>3. ASSUME NEW t \in Named(x), NEW how \in {"await", "join_task"}, Await(x, t, how)
        PROVE  PInv'
    BY <1>1, <2>3, AwaitPlain
  <2>4. ASSUME NEW split \in BOOLEAN, Open(x, split)
        PROVE  PInv'
    BY <1>1, <2>4, OpenPlain
  <2>. QED  BY <1>1, <1>2, <2>1, <2>2, <2>3, <2>4, SpawnPlain, NapPlain, AwaitBarePlain, EndBlockPlain,
               ReturnPlain, ResumeAwaitPlain, ResumeJoinPlain, SuspendPlain DEF Body
<1>3. ASSUME Scheduler
      PROVE  PInv'
  BY <1>1, <1>3, DriveReadyPlain, DriveCancelledPlain, DriveBarePlain, BeginRoundPlain,
     RoundPollPlain, ScopeEndPlain, RoundAgainPlain DEF Scheduler
<1>4. ASSUME Exited
      PROVE  PInv'
  BY <1>4, PStill DEF Exited, vars, sched, code, used, ghost
<1>. QED  BY <1>2, <1>3, <1>4 DEF Next

LEMMA DStutter ==
  ASSUME DInv, UNCHANGED vars
  PROVE  DInv'
<1>1. UNCHANGED <<scopes, task, handle, blocks, wait, timers, stack, made, from, mode, cancels, nested>>
  BY DEF vars, sched, code, used, ghost
<1>2. Plain' = Plain
  BY <1>1 DEF Plain
<1>3. PInv => PInv'
  BY <1>1, PStill
<1>4. DeadlockHonest => DeadlockHonest'
  <2>1. \A x : WaitsFor(x)' = WaitsFor(x)
    BY <1>1 DEF WaitsFor, Unfinished, Over, Done, LoopsOf, Tasks, InScope, Block
  <2>. QED  BY <1>1, <2>1 DEF DeadlockHonest
<1>. QED  BY <1>1, <1>2, <1>3, <1>4 DEF DInv

LEMMA DInit ==
  ASSUME Init
  PROVE  DInv
<1>1. /\ stack = <<Code(Main)>> /\ mode = "running" /\ cancels = 0 /\ scopes = <<>>
      /\ wait = [x \in Coroutines |-> Awake] /\ blocks = [x \in Coroutines |-> <<>>]
  BY DEF Init
<1>2. Len(stack) = 1
  BY <1>1
<1>3. ~(Len(stack) >= 2) /\ Len(stack) <= 3
  BY <1>2
<1>4. MaxTasks \in Nat /\ Bodies \subseteq Coroutines /\ Awake \notin Bodies
  BY TaskBounds DEF Bodies, Coroutines, Awake
<1>5. WaitsNamed /\ Above
  BY <1>1, <1>4 DEF WaitsNamed, Above
<1>6. PInv
  BY <1>3, <1>5 DEF PInv, Shallow, Aimed, Rounds
<1>. QED  BY <1>1, <1>6 DEF DInv, DeadlockHonest

LEMMA DNext ==
  ASSUME Careful, IInv, JInv, DInv, Next
  PROVE  DInv'
<1>1. cancels' \in Nat /\ (Plain' => Plain)
  BY PlainBefore DEF DInv
<1>2. ASSUME Plain'
      PROVE  PInv' /\ DeadlockHonest'
  <2>1. PInv
    BY <1>1, <1>2 DEF DInv
  <2>2. PInv'
    BY <1>2, <2>1, PNext DEF DInv
  <2>3. ASSUME mode' = "E0010"
        PROVE  DeadlockHonest'
    <3>1. CASE RoundAgain
      <4>1. Context
        BY StepContext
      <4>. QED  BY <2>1, <2>3, <3>1, <4>1, DeadlockStep
    <3>2. CASE UNCHANGED vars
      BY <1>2, <3>2, DStutter DEF DInv
    <3>. QED  BY <2>3, <3>1, <3>2, WhoReports
  <2>4. ASSUME mode' # "E0010"
        PROVE  DeadlockHonest'
    BY <2>4 DEF DeadlockHonest
  <2>. QED  BY <2>2, <2>3, <2>4
<1>. QED  BY <1>1, <1>2 DEF DInv

\* The inductive invariant behind the theorem below.
THEOREM DeadlockInvariance == Careful => (Spec => []DInv)
<1>. SUFFICES ASSUME Careful PROVE Spec => []DInv
  OBVIOUS
<1>1. Init => DInv
  BY DInit
<1>2. IInv /\ JInv /\ DInv /\ [Next]_vars => DInv'
  BY DNext, DStutter
<1>3. Spec => []JInv
  BY JoinInvariance
<1>. QED  BY <1>1, <1>2, <1>3, Invariance, PTL DEF Spec

\* "async deadlock" (E0010, scheduler.rs): for every program without careless
\* habits, `join_scope` and `drive_future_outcome` abort a run in which no poll
\* ran a loop of its own and nothing was cancelled only when a set of its
\* coroutines wait for one another, each for an unfinished body of the set: a
\* round that completes nothing with no timer left has polled every unfinished
\* task, and none of them can have been woken by what came after it.
THEOREM DeadlocksAreHonest == Careful => (Spec => []DeadlockHonestFlat)
<1>. SUFFICES ASSUME Careful PROVE Spec => []DeadlockHonestFlat
  OBVIOUS
<1>1. DInv => DeadlockHonestFlat
  BY DEF DInv, Plain, DeadlockHonestFlat
<1>2. Spec => []DInv
  BY DeadlockInvariance
<1>. QED  BY <1>1, <1>2, PTL
================================================================================
