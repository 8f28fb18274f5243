----------------------------- MODULE TaskJoinsProof -----------------------------
(***************************************************************************)
(* Blocks, slots and tasks belong together: for programs without any of    *)
(* the careless habits, and any number of tasks, blocks, awaits and        *)
(* cancellations, every block joins its own tasks before it returns.       *)
(***************************************************************************)
EXTENDS TaskScopesProof

Careful == Careless = {}

\* A block has an identity of its own, which is in left once it has been run
\* past.  A task was spawned in a block that was run past, or in one that a
\* coroutine which started earlier is still inside.
Lineage ==
  /\ left \subseteq 1..opened
  /\ \A x \in Coroutines : \A i \in DOMAIN blocks[x] :
       x <= made /\ blocks[x][i].id \in i..opened /\ blocks[x][i].id \notin left
  /\ \A x, y \in Coroutines : \A i \in DOMAIN blocks[x], j \in DOMAIN blocks[y] :
       blocks[x][i].id = blocks[y][j].id => x = y /\ i = j
  /\ \A t \in 1..made : from[t] # 0 =>
       \/ from[t] \in left
       \/ \E x \in 0..(t - 1) : \E i \in DOMAIN blocks[x] : blocks[x][i].id = from[t]

\* The open slots are those of the blocks, one each; a tombstone is empty.
Slotted ==
  /\ \A x \in Coroutines : \A i \in DOMAIN blocks[x] : blocks[x][i].si \in OpenSlots
  /\ \A x, y \in Coroutines : \A i \in DOMAIN blocks[x], j \in DOMAIN blocks[y] :
       blocks[x][i].si = blocks[y][j].si => x = y /\ i = j
  /\ \A s \in OpenSlots : \E x \in Coroutines : \E i \in DOMAIN blocks[x] : blocks[x][i].si = s
  /\ \A s \in DOMAIN closed : closed[s] => scopes[s] = <<>>

\* The slot of a block holds exactly the tasks spawned in it, each in the place
\* that its handle names.
Placed ==
  /\ \A t \in Bodies : ~Bare(t) => from[t] # 0
  /\ \A x \in Coroutines : \A i \in DOMAIN blocks[x] : \A t \in 1..made :
       from[t] = blocks[x][i].id =>
         /\ handle[t][1] = blocks[x][i].si
         /\ At(handle[t][1], handle[t][2]) /\ scopes[handle[t][1]][handle[t][2]] = t
  /\ \A x \in Coroutines : \A i \in DOMAIN blocks[x] :
       \A ti \in DOMAIN scopes[blocks[x][i].si] :
         /\ from[scopes[blocks[x][i].si][ti]] = blocks[x][i].id
         /\ handle[scopes[blocks[x][i].si][ti]] = <<blocks[x][i].si, ti>>

\* A body that is over is inside no block and on no frame, and nobody drives it
\* if it is bare; a mark is of a task that is being polled.
OnStack(x) == \E k \in 1..Len(stack) : stack[k] = Code(x)
DrivenBare(t) == \E k \in 1..Len(stack) : stack[k].k = "await" /\ stack[k].t = t /\ Bare(t)
Finished ==
  \A t \in Bodies :
    /\ Over(t) => blocks[t] = <<>> /\ t <= made /\ ~OnStack(t) /\ ~DrivenBare(t)
    /\ task[t].result \in {0, t}
    /\ task[t].polling => OnStack(t) /\ ~Bare(t)

\* A round stands at the place that the handle of the body it polls names.
Standing ==
  \A k \in 2..Len(stack) :
    IsCode(k) /\ stack[k - 1].at # Nowhere => stack[k - 1].at = handle[stack[k].x]

\* A block that has been open without a break is on top, with no scope above
\* it but those of blocks inside it.
FreshOnTop ==
  \A x \in Coroutines : \A i \in DOMAIN blocks[x] : blocks[x][i].fresh =>
    /\ stack[Len(stack)] = Code(x) /\ wait[x] = Awake
    /\ \A y \in Coroutines : \A j \in DOMAIN blocks[y] :
         blocks[y][j].si > blocks[x][i].si => y = x /\ j > i

\* A join is of the last block of the code that runs it.
JoinsLast ==
  \A k \in 2..Len(stack) : stack[k].k = "join" =>
    /\ stack[k].si = blocks[stack[k - 1].x][Len(blocks[stack[k - 1].x])].si
    /\ ~blocks[stack[k - 1].x][Len(blocks[stack[k - 1].x])].split

\* Synchronous blocks nest as the native stack does.
Nested ==
  style = "sync" =>
    /\ \A x \in Coroutines : blocks[x] # <<>> => OnStack(x) /\ wait[x] = Awake
    /\ \A x \in Coroutines : \A i \in DOMAIN blocks[x] : ~blocks[x][i].split
    /\ \A x, y \in Coroutines : \A i \in DOMAIN blocks[x], j \in DOMAIN blocks[y] :
         \A k, l \in DOMAIN stack :
           stack[k] = Code(x) /\ stack[l] = Code(y) /\ (k < l \/ (k = l /\ i < j)) =>
             blocks[x][i].si < blocks[y][j].si

\* With blocks of async fns only the top level has a synchronous block, at most
\* one, which it joins at once; bodies are inside blocks only meanwhile or
\* while the top level drives a future.
Flat ==
  style = "split" =>
    /\ Len(blocks[Main]) <= 1
    /\ \A x \in Bodies : \A i \in DOMAIN blocks[x] : blocks[x][i].split
    /\ \A k \in 3..Len(stack) : IsCode(k) \/ stack[k].k = "join_task"
    /\ blocks[Main] # <<>> /\ Len(stack) >= 2 => stack[2].k = "join"
    /\ Len(stack) = 1 => \A x \in Bodies : blocks[x] = <<>>
    /\ \A x \in Bodies : Bare(x) /\ blocks[x] # <<>> =>
         Len(stack) >= 2 /\ stack[2].k = "await" /\ stack[2].t = x

Calm == mode # "panic" /\ style \in {"sync", "split"}

JInv ==
  /\ Lineage /\ Slotted /\ Placed /\ Finished /\ Standing /\ FreshOnTop /\ JoinsLast
  /\ Nested /\ Flat /\ Calm /\ JoinsOwn

--------------------------------------------------------------------------------
(* Types, and which slot is the innermost.                                  *)

LEMMA Types ==
  ASSUME IInv
  PROVE  /\ scopes \in Seq(Seq(Bodies)) /\ closed \in Seq(BOOLEAN) /\ Len(scopes) = Len(closed)
         /\ blocks \in [Coroutines -> Seq(BlockRecords)]
         /\ made \in Nat /\ opened \in Nat /\ MaxTasks \in Nat /\ MaxBlocks \in Nat
         /\ made <= MaxTasks /\ opened <= MaxBlocks
         /\ Bodies = 1..MaxTasks /\ Coroutines = 0..MaxTasks /\ Main = 0
         /\ Main \in Coroutines /\ Bodies \subseteq Coroutines
         /\ task \in [Bodies -> Records] /\ handle \in [Bodies -> Places]
         /\ from \in [Bodies -> Nat]
<1>1. MaxTasks \in Nat /\ MaxBlocks \in Nat
  BY TaskBounds
<1>2. Bodies \subseteq Coroutines /\ Main \in Coroutines
  BY <1>1 DEF Bodies, Coroutines, Main
<1>. QED  BY <1>1, <1>2 DEF IInv, Base, Bodies, Coroutines, Main

LEMMA BlockTypes ==
  ASSUME IInv, NEW x \in Coroutines
  PROVE  /\ Len(blocks[x]) \in Nat /\ DOMAIN blocks[x] = 1..Len(blocks[x])
         /\ \A i \in DOMAIN blocks[x] : /\ blocks[x][i].si \in Nat
                                        /\ blocks[x][i].id \in Nat \ {0}
                                        /\ blocks[x][i].split \in BOOLEAN
                                        /\ blocks[x][i].fresh \in BOOLEAN
         /\ blocks[x] = <<>> <=> Len(blocks[x]) = 0
<1>1. blocks[x] \in Seq(BlockRecords)
  BY Types
<1>2. \A i \in DOMAIN blocks[x] : blocks[x][i] \in BlockRecords
  BY <1>1
<1>3. Len(blocks[x]) \in Nat /\ DOMAIN blocks[x] = 1..Len(blocks[x])
  BY <1>1
<1>4. blocks[x] = <<>> <=> Len(blocks[x]) = 0
  BY <1>1
<1>. QED  BY <1>2, <1>3, <1>4 DEF BlockRecords

LEMMA LastBlock ==
  ASSUME IInv, NEW x \in Coroutines, Inside(x)
  PROVE  /\ Len(blocks[x]) \in DOMAIN blocks[x] /\ Len(blocks[x]) \in Nat \ {0}
         /\ Block(x) = blocks[x][Len(blocks[x])]
<1>1. Len(blocks[x]) \in Nat /\ DOMAIN blocks[x] = 1..Len(blocks[x]) /\ Len(blocks[x]) # 0
  BY BlockTypes DEF Inside
<1>2. Len(blocks[x]) \in DOMAIN blocks[x]
  BY <1>1
<1>3. Block(x) = blocks[x][Len(blocks[x])]
  BY DEF Block, Last
<1>. QED  BY <1>1, <1>2, <1>3

\* A block whose slot no other block's exceeds has the innermost open slot.
LEMMA InnermostIs ==
  ASSUME IInv, Slotted, NEW x \in Coroutines, Inside(x),
         \A y \in Coroutines : \A j \in DOMAIN blocks[y] : ~(blocks[y][j].si > Block(x).si)
  PROVE  innermost_open = Block(x).si
<1>1. /\ Len(blocks[x]) \in DOMAIN blocks[x] /\ Block(x) = blocks[x][Len(blocks[x])]
  BY LastBlock
<1>2. innermost_open \in OpenSlots
  BY OpenWhenInside
<1>3. Block(x).si \in OpenSlots
  BY <1>1 DEF Slotted
<1>4. OpenSlots \in SUBSET (1..Len(closed)) /\ Len(closed) \in Nat
  BY DEF IInv, Base, OpenSlots
<1>5. \A s \in OpenSlots : s <= innermost_open
  BY <1>3, <1>4, MaxFacts DEF innermost_open
<1>6. PICK y \in Coroutines : \E j \in DOMAIN blocks[y] : blocks[y][j].si = innermost_open
  BY <1>2 DEF Slotted
<1>7. ~(innermost_open > Block(x).si)
  BY <1>6
<1>8. Block(x).si <= innermost_open /\ innermost_open \in Nat /\ Block(x).si \in Nat
  <2>1. \A s \in OpenSlots : s \in Nat
    BY <1>4
  <2>. QED  BY <1>2, <1>3, <1>5, <2>1
<1>. QED  BY <1>7, <1>8

\* Nothing has opened a scope above a block that was open without a break.
LEMMA InnermostFresh ==
  ASSUME IInv, Slotted, FreshOnTop, NEW x \in Coroutines, Inside(x), Block(x).fresh
  PROVE  innermost_open = Block(x).si
<1>1. /\ Len(blocks[x]) \in DOMAIN blocks[x] /\ Block(x) = blocks[x][Len(blocks[x])]
      /\ DOMAIN blocks[x] = 1..Len(blocks[x]) /\ Len(blocks[x]) \in Nat
  BY LastBlock, BlockTypes
<1>2. ASSUME NEW y \in Coroutines, NEW j \in DOMAIN blocks[y], blocks[y][j].si > Block(x).si
      PROVE  FALSE
  <2>1. y = x /\ j > Len(blocks[x])
    BY <1>1, <1>2 DEF FreshOnTop
  <2>. QED  BY <1>1, <2>1
<1>. QED  BY <1>2, InnermostIs

\* With synchronous blocks it belongs to the topmost code.
LEMMA InnermostNested ==
  ASSUME IInv, Slotted, Nested, style = "sync", NEW x \in Coroutines, Inside(x),
         NEW c \in 1..Len(stack), stack[c] = Code(x), \A k \in (c + 1)..Len(stack) : ~IsCode(k)
  PROVE  innermost_open = Block(x).si
<1>1. /\ Len(blocks[x]) \in DOMAIN blocks[x] /\ Block(x) = blocks[x][Len(blocks[x])]
      /\ DOMAIN blocks[x] = 1..Len(blocks[x]) /\ Len(blocks[x]) \in Nat
  BY LastBlock, BlockTypes
<1>2. Len(stack) \in Nat /\ DOMAIN stack = 1..Len(stack)
  BY Frames
<1>3. ASSUME NEW y \in Coroutines, NEW j \in DOMAIN blocks[y], blocks[y][j].si > Block(x).si
      PROVE  FALSE
  <2>1. blocks[y] # <<>> /\ j \in Nat
    BY BlockTypes
  <2>2. PICK l \in 1..Len(stack) : stack[l] = Code(y)
    BY <1>2, <2>1 DEF Nested, OnStack
  <2>3. IsCode(l)
    BY <2>2 DEF IsCode, Code
  <2>4. l <= c
    BY <1>2, <2>3
  <2>5. blocks[y][j].si \in Nat /\ blocks[x][Len(blocks[x])].si \in Nat
    BY <1>1, BlockTypes
  <2>6. CASE l < c
    <3>1. blocks[y][j].si < blocks[x][Len(blocks[x])].si
      BY <1>1, <1>2, <2>2, <2>6 DEF Nested
    <3>. QED  BY <1>1, <1>3, <2>5, <3>1
  <2>7. CASE l = c
    <3>1. y = x
      BY <2>2, <2>7 DEF Code
    <3>2. j # Len(blocks[x])
      BY <1>1, <1>3, <2>5, <3>1
    <3>3. j < Len(blocks[x])
      BY <1>1, <3>1, <3>2
    <3>4. blocks[y][j].si < blocks[x][Len(blocks[x])].si
      BY <1>1, <1>2, <2>2, <2>7, <3>1, <3>3 DEF Nested
    <3>. QED  BY <1>1, <1>3, <2>5, <3>4
  <2>. QED  BY <1>2, <2>4, <2>6, <2>7
<1>. QED  BY <1>3, InnermostIs

--------------------------------------------------------------------------------
(* What a step does to the blocks and the frames.                           *)

SameBlock(x, i) ==
  /\ i \in DOMAIN blocks[x]
  /\ blocks'[x][i].si = blocks[x][i].si /\ blocks'[x][i].id = blocks[x][i].id
  /\ blocks'[x][i].split = blocks[x][i].split
  /\ blocks'[x][i].fresh => blocks[x][i].fresh
\* Blocks are left or only lose their freshness; none is left.
Fewer == \A x \in Coroutines : \A i \in DOMAIN blocks'[x] : SameBlock(x, i)
BlocksSame == Fewer /\ \A x \in Coroutines : DOMAIN blocks'[x] = DOMAIN blocks[x]
NoneFresh == \A x \in Coroutines : \A i \in DOMAIN blocks'[x] : ~blocks'[x][i].fresh
\* The scope table and everything spawned stay; a bare body may be started.
TableSame ==
  /\ BlocksSame /\ UNCHANGED <<scopes, closed, handle, from, opened, left>>
  /\ made' \in {made, made + 1}

LEMMA AgedBlocks ==
  ASSUME IInv, NEW x \in Coroutines, blocks' = Aged(x)
  PROVE  /\ BlocksSame /\ \A i \in DOMAIN blocks'[x] : ~blocks'[x][i].fresh
         /\ \A y \in Coroutines \ {x} : blocks'[y] = blocks[y]
<1>1. blocks \in [Coroutines -> Seq(BlockRecords)] /\ Base
  BY DEF IInv, Base
<1>2. /\ \A y \in Coroutines \ {x} : blocks'[y] = blocks[y]
      /\ \A y \in Coroutines : DOMAIN blocks'[y] = DOMAIN blocks[y]
  BY <1>1, AgedFacts
<1>3. blocks'[x] = [i \in DOMAIN blocks[x] |-> [blocks[x][i] EXCEPT !.fresh = FALSE]]
  BY <1>1 DEF Aged
<1>4. ASSUME NEW i \in DOMAIN blocks[x]
      PROVE  SameBlock(x, i) /\ ~blocks'[x][i].fresh
  <2>1. blocks[x][i] \in BlockRecords
    BY <1>1
  <2>2. blocks'[x][i] = [blocks[x][i] EXCEPT !.fresh = FALSE]
    BY <1>3
  <2>. QED  BY <2>1, <2>2 DEF SameBlock, BlockRecords
<1>5. Fewer
  <2>1. ASSUME NEW y \in Coroutines, NEW i \in DOMAIN blocks'[y]
        PROVE  SameBlock(y, i)
    <3>1. CASE y = x
      BY <1>2, <1>4, <3>1
    <3>2. CASE y # x
      BY <1>2, <3>2 DEF SameBlock
    <3>. QED  BY <3>1, <3>2
  <2>. QED  BY <2>1 DEF Fewer
<1>. QED  BY <1>2, <1>4, <1>5 DEF BlocksSame

LEMMA StillBlocks ==
  ASSUME blocks' = blocks
  PROVE  BlocksSame
<1>. QED  BY DEF BlocksSame, Fewer, SameBlock

LEMMA ShorterBlocks ==
  ASSUME IInv, NEW d \in Coroutines, blocks[d] # <<>>, blocks' = [blocks EXCEPT ![d] = Front(@)]
  PROVE  Fewer
<1>1. /\ \A y \in Coroutines \ {d} : blocks'[y] = blocks[y]
      /\ DOMAIN blocks[d] = 1..Len(blocks[d]) /\ Len(blocks[d]) \in Nat \ {0}
      /\ DOMAIN blocks'[d] = 1..(Len(blocks[d]) - 1)
      /\ \A i \in DOMAIN blocks'[d] : blocks'[d][i] = blocks[d][i]
  BY Shorter DEF IInv
<1>2. \A i \in DOMAIN blocks'[d] : i \in DOMAIN blocks[d]
  BY <1>1
<1>3. ASSUME NEW y \in Coroutines, NEW i \in DOMAIN blocks'[y]
      PROVE  SameBlock(y, i)
  <2>1. CASE y = d
    BY <1>1, <1>2, <2>1 DEF SameBlock
  <2>2. CASE y # d
    BY <1>1, <2>2 DEF SameBlock
  <2>. QED  BY <2>1, <2>2
<1>. QED  BY <1>3 DEF Fewer

\* A fresh block is on top: under a loop, or when the code on top waits, there
\* is none.
LEMMA StaleBlocks ==
  ASSUME IInv, FreshOnTop, Fewer,
         \/ ~IsCode(Len(stack))
         \/ \E x \in Coroutines : stack[Len(stack)] = Code(x) /\
              (wait[x] # Awake \/ \A i \in DOMAIN blocks'[x] : ~blocks'[x][i].fresh)
  PROVE  NoneFresh
<1>1. SUFFICES ASSUME NEW x \in Coroutines, NEW i \in DOMAIN blocks'[x], blocks'[x][i].fresh
               PROVE  FALSE
  BY DEF NoneFresh
<1>2. i \in DOMAIN blocks[x] /\ blocks[x][i].fresh
  BY <1>1 DEF Fewer, SameBlock
<1>3. stack[Len(stack)] = Code(x) /\ wait[x] = Awake
  BY <1>2 DEF FreshOnTop
<1>4. IsCode(Len(stack))
  BY <1>3 DEF IsCode, Code
<1>5. PICK y \in Coroutines : stack[Len(stack)] = Code(y) /\
              (wait[y] # Awake \/ \A j \in DOMAIN blocks'[y] : ~blocks'[y][j].fresh)
  BY <1>4
<1>6. y = x
  BY <1>3, <1>5 DEF Code
<1>. QED  BY <1>1, <1>3, <1>5, <1>6

\* The frames of the next stack above the first.
LEMMA FramePairs ==
  ASSUME IInv, DataStep, StackStep, NEW k \in 2..Len(stack')
  PROVE  /\ k - 1 \in 1..Len(stack) /\ Len(stack') \in Nat
         /\ stack'[k].k = "code" =>
              \/ k <= Len(stack) /\ stack'[k] = stack[k] /\ stack'[k - 1] = stack[k - 1]
              \/ k = Len(stack) + 1 /\ k = Len(stack') /\ NewCode(k)
         /\ stack'[k].k # "code" =>
              /\ stack'[k - 1] = stack[k - 1]
              /\ \/ k <= Len(stack) /\ ~IsCode(k) /\ SameLoop(stack[k], stack'[k])
                 \/ k = Len(stack) + 1 /\ k = Len(stack') /\ stack'[Len(stack')].k # "code"
<1>s. Len(stack') \in Nat /\ Len(stack) \in Nat \ {0}
  <2>1. stack' \in Seq(CodeFrames \union LoopFrames)
    BY DEF StackStep
  <2>. QED  BY <2>1, Frames
<1>m. PICK m \in 1..Len(stack) :
        /\ Len(stack') \in {m, m + 1, m + 2}
        /\ \A c \in 1..m : stack'[c] = stack[c]
        /\ Len(stack') # m => NewLoop(m)
        /\ Len(stack') = m + 2 => m + 1 = Len(stack) /\ NewCode(m + 2)
  BY DEF StackStep
<1>n. /\ m \in Nat \ {0} /\ m <= Len(stack) /\ k \in Nat
      /\ Len(stack') = m \/ Len(stack') = m + 1 \/ Len(stack') = m + 2
      /\ k <= m \/ k = m + 1 \/ k = m + 2
  BY <1>s, <1>m
<1>1. CASE k <= m
  <2>1. k \in 1..m /\ k - 1 \in 1..m /\ k <= Len(stack) /\ k - 1 \in 1..Len(stack)
    BY <1>s, <1>n, <1>1
  <2>2. stack'[k] = stack[k] /\ stack'[k - 1] = stack[k - 1]
    BY <1>m, <2>1
  <2>. QED  BY <1>s, <2>1, <2>2 DEF SameLoop, IsCode
<1>2. CASE k = m + 1
  <2>1. k - 1 = m /\ k - 1 \in 1..Len(stack) /\ k - 1 \in 1..m /\ Len(stack') # m
    BY <1>s, <1>n, <1>2
  <2>2. NewLoop(m) /\ stack'[k - 1] = stack[k - 1]
    BY <1>m, <2>1
  <2>3. stack'[k] \in LoopFrames
    BY <1>2, <2>2 DEF NewLoop
  <2>4. stack'[k].k # "code"
    BY <2>3 DEF LoopFrames
  <2>5. \/ m < Len(stack) /\ ~IsCode(m + 1) /\ SameLoop(stack[m + 1], stack'[m + 1])
        \/ m = Len(stack)
    BY <2>2 DEF NewLoop
  <2>6. m = Len(stack) => k = Len(stack')
    <3>1. m = Len(stack) => m + 1 # Len(stack)
      BY <1>s
    <3>2. Len(stack') = m + 2 => m + 1 = Len(stack)
      BY <1>m
    <3>. QED  BY <1>n, <1>2, <2>1, <3>1, <3>2
  <2>7. m < Len(stack) => k <= Len(stack)
    BY <1>s, <1>n, <1>2
  <2>. QED  BY <1>s, <1>2, <2>1, <2>2, <2>4, <2>5, <2>6, <2>7
<1>3. CASE k = m + 2
  <2>1. Len(stack') = m + 2 /\ k - 1 \in 1..Len(stack)
    <3>1. Len(stack') = m + 2
      BY <1>s, <1>n, <1>3
    <3>. QED  BY <1>s, <1>n, <1>m, <1>3, <3>1
  <2>2. m + 1 = Len(stack) /\ NewCode(k)
    BY <1>m, <1>3, <2>1
  <2>3. stack'[k].k = "code"
    BY <2>2 DEF NewCode, Code
  <2>. QED  BY <1>s, <1>n, <1>3, <2>1, <2>2, <2>3
<1>. QED  BY <1>n, <1>1, <1>2, <1>3

--------------------------------------------------------------------------------
(* Blocks, slots and tasks.                                                 *)

\* Bodies that were started, and their handles.
LEMMA BodyTypes ==
  ASSUME IInv
  PROVE  /\ 1..made \subseteq Bodies
         /\ \A t \in Bodies : t \in Nat \ {0} /\ t <= MaxTasks /\ from[t] \in Nat
         /\ \A t \in Bodies : t > made => from[t] = 0
<1>1. /\ made \in Nat /\ made <= MaxTasks /\ MaxTasks \in Nat /\ Bodies = 1..MaxTasks
      /\ from \in [Bodies -> Nat]
  BY Types
<1>. QED  BY <1>1 DEF IInv, Started

LEMMA TableKept ==
  ASSUME IInv, Lineage, Slotted, Placed, TableSame, made' \in 0..MaxTasks
  PROVE  Lineage' /\ Slotted' /\ Placed'
<1>0. /\ UNCHANGED <<scopes, closed, handle, from, opened, left>> /\ OpenSlots' = OpenSlots
      /\ \A x \in Coroutines : DOMAIN blocks'[x] = DOMAIN blocks[x]
      /\ \A x \in Coroutines : \A i \in DOMAIN blocks[x] :
           blocks'[x][i].si = blocks[x][i].si /\ blocks'[x][i].id = blocks[x][i].id
  <2>1. UNCHANGED <<scopes, closed, handle, from, opened, left>>
    BY DEF TableSame
  <2>2. OpenSlots' = OpenSlots
    BY <2>1 DEF OpenSlots
  <2>3. \A x \in Coroutines : DOMAIN blocks'[x] = DOMAIN blocks[x]
    BY DEF TableSame, BlocksSame
  <2>. QED  BY <2>1, <2>2, <2>3 DEF TableSame, BlocksSame, Fewer, SameBlock
<1>t. made \in Nat /\ made' \in Nat /\ made <= made' /\ Coroutines = 0..MaxTasks
      /\ made' <= MaxTasks /\ MaxTasks \in Nat /\ made' \in {made, made + 1}
  BY Types DEF TableSame
<1>b. /\ 1..made \subseteq Bodies
      /\ \A t \in Bodies : t \in Nat \ {0} /\ t <= MaxTasks /\ from[t] \in Nat
      /\ \A t \in Bodies : t > made => from[t] = 0
  BY BodyTypes
<1>n. \A t \in 1..made' : from[t] # 0 => t \in 1..made
  <2>1. \A t \in 1..made' : t \in 1..made \/ t > made
    BY <1>t
  <2>2. \A t \in 1..made' : t \in Bodies
    BY <1>t DEF Bodies
  <2>. QED  BY <1>b, <2>1, <2>2
<1>i. \A x \in Coroutines : \A i \in DOMAIN blocks[x] : blocks[x][i].id # 0 /\ x \in Nat
  BY <1>t, BlockTypes
<1>1. Lineage'
  <2>1. left' \subseteq 1..opened'
    BY <1>0 DEF Lineage
  <2>2. \A x \in Coroutines : \A i \in DOMAIN blocks'[x] :
          x <= made' /\ blocks'[x][i].id \in i..opened' /\ blocks'[x][i].id \notin left'
    <3>1. \A x \in Coroutines : x <= made => x <= made'
      BY <1>t
    <3>. QED  BY <1>0, <3>1 DEF Lineage
  <2>3. \A x, y \in Coroutines : \A i \in DOMAIN blocks'[x], j \in DOMAIN blocks'[y] :
          blocks'[x][i].id = blocks'[y][j].id => x = y /\ i = j
    BY <1>0 DEF Lineage
  <2>4. ASSUME NEW t \in 1..made', from'[t] # 0
        PROVE  \/ from'[t] \in left'
               \/ \E x \in 0..(t - 1) : \E i \in DOMAIN blocks'[x] : blocks'[x][i].id = from'[t]
    <3>1. t \in 1..made /\ from[t] # 0
      BY <1>0, <1>n, <2>4
    <3>2. \A x \in 0..(t - 1) : x \in Coroutines
      BY <1>t, <3>1
    <3>. QED  BY <1>0, <3>1, <3>2 DEF Lineage
  <2>. QED  BY <2>1, <2>2, <2>3, <2>4 DEF Lineage
<1>2. Slotted'
  BY <1>0 DEF Slotted
<1>3. Placed'
  <2>1. \A t \in Bodies : ~Bare(t)' => from'[t] # 0
    BY <1>0 DEF Placed, Bare
  <2>2. ASSUME NEW x \in Coroutines, NEW i \in DOMAIN blocks'[x], NEW t \in 1..made',
               from'[t] = blocks'[x][i].id
        PROVE  /\ handle'[t][1] = blocks'[x][i].si
               /\ At(handle[t][1], handle[t][2])'
               /\ scopes'[handle'[t][1]][handle'[t][2]] = t
    <3>1. i \in DOMAIN blocks[x] /\ from[t] = blocks[x][i].id /\ t \in 1..made
      BY <1>0, <1>n, <1>i, <2>2
    <3>. QED  BY <1>0, <3>1 DEF Placed, At
  <2>3. ASSUME NEW x \in Coroutines, NEW i \in DOMAIN blocks'[x],
               NEW ti \in DOMAIN scopes'[blocks'[x][i].si]
        PROVE  /\ from'[scopes'[blocks'[x][i].si][ti]] = blocks'[x][i].id
               /\ handle'[scopes'[blocks'[x][i].si][ti]] = <<blocks'[x][i].si, ti>>
    <3>1. /\ i \in DOMAIN blocks[x] /\ blocks'[x][i].si = blocks[x][i].si
          /\ blocks'[x][i].id = blocks[x][i].id
      BY <1>0
    <3>2. ti \in DOMAIN scopes[blocks[x][i].si]
      BY <1>0, <3>1
    <3>3. /\ from[scopes[blocks[x][i].si][ti]] = blocks[x][i].id
          /\ handle[scopes[blocks[x][i].si][ti]] = <<blocks[x][i].si, ti>>
      BY <3>1, <3>2 DEF Placed
    <3>. QED  BY <1>0, <3>1, <3>3
  <2>. QED  BY <2>1, <2>2, <2>3 DEF Placed
<1>. QED  BY <1>1, <1>2, <1>3

\* `ScopeBegin` and `ScopeBeginValue`: a slot and an identity of its own.
LEMMA OpenBlocks ==
  ASSUME IInv, NEW x \in Coroutines, NEW split \in BOOLEAN, Open(x, split)
  PROVE  /\ Len(blocks[x]) \in Nat /\ DOMAIN blocks[x] = 1..Len(blocks[x])
         /\ \A y \in Coroutines \ {x} : blocks'[y] = blocks[y]
         /\ blocks'[x] # <<>> /\ Len(blocks'[x]) = Len(blocks[x]) + 1
         /\ DOMAIN blocks'[x] = 1..(Len(blocks[x]) + 1)
         /\ \A i \in DOMAIN blocks[x] : blocks'[x][i] = blocks[x][i]
         /\ blocks'[x][Len(blocks[x]) + 1].si = Len(closed) + 1
         /\ blocks'[x][Len(blocks[x]) + 1].id = opened + 1
         /\ blocks'[x][Len(blocks[x]) + 1].split = split
<1>. DEFINE b == [split |-> split, si |-> Len(scopes) + 1, id |-> opened + 1, fresh |-> TRUE]
<1>1. /\ blocks \in [Coroutines -> Seq(BlockRecords)] /\ opened \in Nat
      /\ scopes \in Seq(Seq(Bodies)) /\ Len(scopes) = Len(closed)
  BY Types
<1>2. blocks' = [blocks EXCEPT ![x] = Append(@, b)]
  BY DEF Open
<1>3. b \in BlockRecords
  <2>1. Len(scopes) + 1 \in Nat /\ opened + 1 \in Nat \ {0}
    BY <1>1
  <2>. QED  BY <2>1 DEF BlockRecords
<1>4. b.si = Len(closed) + 1 /\ b.id = opened + 1 /\ b.split = split
  BY <1>1
<1>. HIDE DEF b
<1>5. blocks'[x] = Append(blocks[x], b) /\ \A y \in Coroutines \ {x} : blocks'[y] = blocks[y]
  BY <1>1, <1>2
<1>6. blocks[x] \in Seq(BlockRecords)
  BY <1>1
<1>7. Len(blocks[x]) \in Nat /\ DOMAIN blocks[x] = 1..Len(blocks[x])
  BY <1>6
<1>8. /\ Len(blocks'[x]) = Len(blocks[x]) + 1 /\ DOMAIN blocks'[x] = 1..(Len(blocks[x]) + 1)
      /\ blocks'[x][Len(blocks[x]) + 1] = b
      /\ \A i \in DOMAIN blocks[x] : blocks'[x][i] = blocks[x][i]
  BY <1>3, <1>5, <1>6, <1>7
<1>9. blocks'[x] # <<>>
  BY <1>7, <1>8
<1>. QED  BY <1>4, <1>5, <1>7, <1>8, <1>9

LEMMA OpenTable ==
  ASSUME IInv, NEW x \in Coroutines, NEW split \in BOOLEAN, Open(x, split)
  PROVE  /\ Len(closed) \in Nat /\ Len(scopes) = Len(closed)
         /\ scopes'[Len(closed) + 1] = <<>> /\ DOMAIN scopes' = 1..(Len(closed) + 1)
         /\ DOMAIN scopes = 1..Len(closed) /\ \A s \in 1..Len(closed) : scopes'[s] = scopes[s]
         /\ DOMAIN closed' = 1..(Len(closed) + 1) /\ DOMAIN closed = 1..Len(closed)
         /\ \A s \in 1..Len(closed) : closed'[s] = closed[s]
         /\ OpenSlots' = OpenSlots \union {Len(closed) + 1}
         /\ OpenSlots \subseteq 1..Len(closed)
<1>1. /\ scopes \in Seq(Seq(Bodies)) /\ closed \in Seq(BOOLEAN) /\ Len(scopes) = Len(closed)
      /\ scopes' = Append(scopes, <<>>) /\ closed' = Append(closed, FALSE)
  BY Types DEF Open
<1>2. Len(closed) \in Nat /\ DOMAIN scopes = 1..Len(closed) /\ DOMAIN closed = 1..Len(closed)
  BY <1>1
<1>3. /\ scopes'[Len(closed) + 1] = <<>> /\ DOMAIN scopes' = 1..(Len(closed) + 1)
      /\ \A s \in 1..Len(closed) : scopes'[s] = scopes[s]
  BY <1>1, <1>2
<1>4. /\ closed'[Len(closed) + 1] = FALSE /\ DOMAIN closed' = 1..(Len(closed) + 1)
      /\ \A s \in 1..Len(closed) : closed'[s] = closed[s]
  BY <1>1, <1>2
<1>5. OpenSlots \subseteq 1..Len(closed)
  BY <1>2 DEF OpenSlots
<1>6. ASSUME NEW s
      PROVE  s \in OpenSlots' <=> s \in OpenSlots \/ s = Len(closed) + 1
  <2>1. s \in 1..(Len(closed) + 1) <=> s \in 1..Len(closed) \/ s = Len(closed) + 1
    BY <1>2
  <2>2. Len(closed) + 1 \notin 1..Len(closed)
    BY <1>2
  <2>3. s \in OpenSlots' <=> s \in 1..(Len(closed) + 1) /\ ~closed'[s]
    BY <1>4 DEF OpenSlots
  <2>4. s \in OpenSlots <=> s \in 1..Len(closed) /\ ~closed[s]
    BY <1>2 DEF OpenSlots
  <2>. QED  BY <1>4, <2>1, <2>2, <2>3, <2>4, Zenon
<1>. QED  BY <1>1, <1>2, <1>3, <1>4, <1>5, <1>6

LEMMA TableOpened ==
  ASSUME IInv, Lineage, Slotted, Placed, NEW x \in Coroutines, x <= made,
         NEW split \in BOOLEAN, Open(x, split)
  PROVE  Lineage' /\ Slotted' /\ Placed'
<1>. DEFINE n == Len(blocks[x]) + 1
            top == Len(closed) + 1
            New(y, i) == y = x /\ i = n
            Old(y, i) == i \in DOMAIN blocks[y] /\ blocks'[y][i] = blocks[y][i]
<1>0. UNCHANGED <<handle, from, made, left>> /\ opened' = opened + 1 /\ opened \in Nat
  BY Types DEF Open, ghost
<1>b. ASSUME NEW y \in Coroutines, NEW i \in DOMAIN blocks'[y]
      PROVE  New(y, i) \/ Old(y, i)
  <2>1. CASE y = x
    <3>1. i \in 1..Len(blocks[x]) \/ i = n
      BY <2>1, OpenBlocks
    <3>. QED  BY <2>1, <3>1, OpenBlocks
  <2>2. CASE y # x
    BY <2>2, OpenBlocks
  <2>. QED  BY <2>1, <2>2
<1>c. /\ n \in DOMAIN blocks'[x] /\ blocks'[x][n].si = top /\ blocks'[x][n].id = opened + 1
      /\ n \in Nat \ {0}
  BY OpenBlocks
<1>d. ASSUME NEW y \in Coroutines, NEW i \in DOMAIN blocks[y]
      PROVE  i \in DOMAIN blocks'[y] /\ blocks'[y][i] = blocks[y][i]
  <2>1. CASE y = x
    <3>1. \A j \in 1..Len(blocks[x]) : j \in 1..(Len(blocks[x]) + 1)
      BY OpenBlocks
    <3>. QED  BY <2>1, <3>1, OpenBlocks
  <2>2. CASE y # x
    BY <2>2, OpenBlocks
  <2>. QED  BY <2>1, <2>2
<1>e. /\ Len(closed) \in Nat /\ top \in Nat /\ top \notin 1..Len(closed)
      /\ OpenSlots' = OpenSlots \union {top} /\ OpenSlots \subseteq 1..Len(closed)
      /\ scopes'[top] = <<>> /\ DOMAIN scopes = 1..Len(closed)
      /\ \A s \in 1..Len(closed) : scopes'[s] = scopes[s] /\ closed'[s] = closed[s]
      /\ DOMAIN closed' = 1..(Len(closed) + 1) /\ DOMAIN scopes' = 1..(Len(closed) + 1)
      /\ DOMAIN closed = 1..Len(closed) /\ 1..Len(closed) \subseteq 1..(Len(closed) + 1)
  <2>1. Len(closed) \in Nat /\ top \in Nat /\ top \notin 1..Len(closed)
        /\ 1..Len(closed) \subseteq 1..(Len(closed) + 1)
    BY OpenTable
  <2>. QED  BY <2>1, OpenTable
<1>f. \A y \in Coroutines : \A i \in DOMAIN blocks[y] :
        /\ blocks[y][i].id \in Nat /\ blocks[y][i].id <= opened /\ blocks[y][i].id # 0
        /\ blocks[y][i].si \in 1..Len(closed)
  <2>1. SUFFICES ASSUME NEW y \in Coroutines, NEW i \in DOMAIN blocks[y]
                 PROVE  /\ blocks[y][i].id \in Nat /\ blocks[y][i].id <= opened
                        /\ blocks[y][i].id # 0 /\ blocks[y][i].si \in 1..Len(closed)
    OBVIOUS
  <2>2. blocks[y][i].id \in Nat \ {0} /\ blocks[y][i].id \in i..opened /\ i \in Nat
    BY BlockTypes DEF Lineage
  <2>3. blocks[y][i].id <= opened
    BY <1>0, <2>2
  <2>. QED  BY <1>e, <2>2, <2>3 DEF Slotted
<1>g. \A t \in 1..made : from[t] # opened + 1
  <2>1. ASSUME NEW t \in 1..made, from[t] = opened + 1
        PROVE  FALSE
    <3>1. from[t] # 0
      BY <1>0, <2>1
    <3>2. from[t] \notin left
      BY <1>0, <2>1 DEF Lineage
    <3>3. PICK y \in 0..(t - 1) : \E i \in DOMAIN blocks[y] : blocks[y][i].id = from[t]
      BY <3>1, <3>2 DEF Lineage
    <3>4. y \in Coroutines
      BY Types
    <3>. QED  BY <1>0, <1>f, <2>1, <3>3, <3>4
  <2>. QED  BY <2>1
<1>. HIDE DEF n, top
<1>1. Lineage'
  <2>1. left' \subseteq 1..opened'
    <3>1. 1..opened \subseteq 1..(opened + 1)
      BY <1>0
    <3>. QED  BY <1>0, <3>1 DEF Lineage
  <2>2. ASSUME NEW y \in Coroutines, NEW i \in DOMAIN blocks'[y]
        PROVE  y <= made' /\ blocks'[y][i].id \in i..opened' /\ blocks'[y][i].id \notin left'
    <3>1. CASE Old(y, i)
      <4>1. y <= made /\ blocks[y][i].id \in i..opened /\ blocks[y][i].id \notin left
        BY <3>1 DEF Lineage
      <4>2. blocks[y][i].id \in i..(opened + 1)
        BY <1>0, <4>1
      <4>. QED  BY <1>0, <3>1, <4>1, <4>2
    <3>2. CASE New(y, i)
      <4>1. opened + 1 \notin left
        BY <1>0 DEF Lineage
      <4>2. n <= opened + 1
        <5>1. CASE Len(blocks[x]) = 0
          BY <1>0, <5>1 DEF n
        <5>2. CASE Len(blocks[x]) # 0
          <6>1. Len(blocks[x]) \in DOMAIN blocks[x] /\ Len(blocks[x]) \in Nat
            BY <5>2, OpenBlocks
          <6>2. blocks[x][Len(blocks[x])].id \in Len(blocks[x])..opened
            BY <6>1 DEF Lineage
          <6>. QED  BY <1>0, <6>1, <6>2 DEF n
        <5>. QED  BY <5>1, <5>2
      <4>3. opened + 1 \in n..(opened + 1)
        BY <1>0, <1>c, <4>2
      <4>. QED  BY <1>0, <1>c, <3>2, <4>1, <4>3
    <3>. QED  BY <1>b, <3>1, <3>2
  <2>3. ASSUME NEW y \in Coroutines, NEW z \in Coroutines,
               NEW i \in DOMAIN blocks'[y], NEW j \in DOMAIN blocks'[z],
               blocks'[y][i].id = blocks'[z][j].id
        PROVE  y = z /\ i = j
    <3>1. opened + 1 # 0 /\ \A v \in Nat : v <= opened => v # opened + 1
      BY <1>0
    <3>2. CASE Old(y, i) /\ Old(z, j)
      BY <2>3, <3>2 DEF Lineage
    <3>3. CASE New(y, i) /\ New(z, j)
      BY <3>3
    <3>4. CASE Old(y, i) /\ New(z, j)
      BY <1>c, <1>f, <2>3, <3>1, <3>4
    <3>5. CASE New(y, i) /\ Old(z, j)
      BY <1>c, <1>f, <2>3, <3>1, <3>5
    <3>. QED  BY <1>b, <3>2, <3>3, <3>4, <3>5
  <2>4. ASSUME NEW t \in 1..made', from'[t] # 0
        PROVE  \/ from'[t] \in left'
               \/ \E y \in 0..(t - 1) : \E i \in DOMAIN blocks'[y] : blocks'[y][i].id = from'[t]
    <3>1. t \in 1..made /\ from[t] # 0
      BY <1>0, <2>4
    <3>2. \A y \in 0..(t - 1) : y \in Coroutines
      BY <3>1, Types
    <3>3. CASE from[t] \in left
      BY <1>0, <3>3
    <3>4. CASE \E y \in 0..(t - 1) : \E i \in DOMAIN blocks[y] : blocks[y][i].id = from[t]
      BY <1>0, <1>d, <3>2, <3>4
    <3>. QED  BY <3>1, <3>3, <3>4 DEF Lineage
  <2>. QED  BY <2>1, <2>2, <2>3, <2>4 DEF Lineage
<1>2. Slotted'
  <2>1. ASSUME NEW y \in Coroutines, NEW i \in DOMAIN blocks'[y]
        PROVE  blocks'[y][i].si \in OpenSlots'
    BY <1>b, <1>c, <1>e DEF Slotted
  <2>2. ASSUME NEW y \in Coroutines, NEW z \in Coroutines,
               NEW i \in DOMAIN blocks'[y], NEW j \in DOMAIN blocks'[z],
               blocks'[y][i].si = blocks'[z][j].si
        PROVE  y = z /\ i = j
    <3>2. CASE Old(y, i) /\ Old(z, j)
      BY <2>2, <3>2 DEF Slotted
    <3>3. CASE New(y, i) /\ New(z, j)
      BY <3>3
    <3>4. CASE Old(y, i) /\ New(z, j)
      BY <1>c, <1>e, <1>f, <2>2, <3>4
    <3>5. CASE New(y, i) /\ Old(z, j)
      BY <1>c, <1>e, <1>f, <2>2, <3>5
    <3>. QED  BY <1>b, <3>2, <3>3, <3>4, <3>5
  <2>3. ASSUME NEW s \in OpenSlots'
        PROVE  \E y \in Coroutines : \E i \in DOMAIN blocks'[y] : blocks'[y][i].si = s
    <3>1. CASE s = top
      BY <1>c, <3>1
    <3>2. CASE s \in OpenSlots
      <4>1. PICK y \in Coroutines : \E i \in DOMAIN blocks[y] : blocks[y][i].si = s
        BY <3>2 DEF Slotted
      <4>. QED  BY <1>d, <4>1
    <3>. QED  BY <1>e, <3>1, <3>2
  <2>4. ASSUME NEW s \in DOMAIN closed', closed'[s]
        PROVE  scopes'[s] = <<>>
    <3>1. CASE s \in 1..Len(closed)
      BY <1>e, <2>4, <3>1 DEF Slotted
    <3>2. CASE s \notin 1..Len(closed)
      BY <1>e, <3>2 DEF top
    <3>. QED  BY <3>1, <3>2
  <2>. QED  BY <2>1, <2>2, <2>3, <2>4 DEF Slotted
<1>3. Placed'
  <2>1. \A t \in Bodies : ~Bare(t)' => from'[t] # 0
    BY <1>0 DEF Placed, Bare
  <2>2. ASSUME NEW y \in Coroutines, NEW i \in DOMAIN blocks'[y], NEW t \in 1..made',
               from'[t] = blocks'[y][i].id
        PROVE  /\ handle'[t][1] = blocks'[y][i].si
               /\ At(handle[t][1], handle[t][2])'
               /\ scopes'[handle'[t][1]][handle'[t][2]] = t
    <3>1. Old(y, i) /\ t \in 1..made
      BY <1>0, <1>b, <1>c, <1>g, <2>2
    <3>2. /\ handle[t][1] = blocks[y][i].si
          /\ At(handle[t][1], handle[t][2]) /\ scopes[handle[t][1]][handle[t][2]] = t
      BY <1>0, <2>2, <3>1 DEF Placed
    <3>. QED  BY <1>0, <1>e, <3>1, <3>2 DEF At
  <2>3. ASSUME NEW y \in Coroutines, NEW i \in DOMAIN blocks'[y],
               NEW ti \in DOMAIN scopes'[blocks'[y][i].si]
        PROVE  /\ from'[scopes'[blocks'[y][i].si][ti]] = blocks'[y][i].id
               /\ handle'[scopes'[blocks'[y][i].si][ti]] = <<blocks'[y][i].si, ti>>
    <3>1. CASE Old(y, i)
      <4>1. blocks[y][i].si \in 1..Len(closed)
        BY <1>f, <3>1
      <4>2. ti \in DOMAIN scopes[blocks[y][i].si]
        BY <1>e, <3>1, <4>1
      <4>3. /\ from[scopes[blocks[y][i].si][ti]] = blocks[y][i].id
            /\ handle[scopes[blocks[y][i].si][ti]] = <<blocks[y][i].si, ti>>
        BY <3>1, <4>2 DEF Placed
      <4>. QED  BY <1>0, <1>e, <3>1, <4>1, <4>3
    <3>2. CASE New(y, i)
      <4>1. ti \in DOMAIN <<>>
        BY <1>c, <1>e, <3>2
      <4>. QED  BY <4>1
    <3>. QED  BY <1>b, <3>1, <3>2
  <2>. QED  BY <2>1, <2>2, <2>3 DEF Placed
<1>. QED  BY <1>1, <1>2, <1>3

\* `Spawn`, when the innermost open scope is that of the spawner's block.
LEMMA SpawnTable ==
  ASSUME IInv, NEW x \in Coroutines, Spawn(x), innermost_open \in 1..Len(scopes)
  PROVE  /\ made' = made + 1 /\ made + 1 \in Bodies /\ UNCHANGED <<closed, opened, blocks, left>>
         /\ DOMAIN scopes' = DOMAIN scopes /\ innermost_open \in DOMAIN scopes
         /\ \A s \in DOMAIN scopes \ {innermost_open} : scopes'[s] = scopes[s]
         /\ Len(scopes[innermost_open]) \in Nat
         /\ DOMAIN scopes[innermost_open] = 1..Len(scopes[innermost_open])
         /\ DOMAIN scopes'[innermost_open] = 1..(Len(scopes[innermost_open]) + 1)
         /\ \A i \in DOMAIN scopes[innermost_open] :
              scopes'[innermost_open][i] = scopes[innermost_open][i]
         /\ scopes'[innermost_open][Len(scopes[innermost_open]) + 1] = made + 1
         /\ \A t \in Bodies \ {made + 1} : handle'[t] = handle[t] /\ from'[t] = from[t]
         /\ handle'[made + 1] = <<innermost_open, Len(scopes[innermost_open]) + 1>>
         /\ from'[made + 1] = Block(x).id
<1>. DEFINE si == innermost_open
<1>1. /\ scopes \in Seq(Seq(Bodies)) /\ handle \in [Bodies -> Places] /\ from \in [Bodies -> Nat]
      /\ made \in Nat /\ made < MaxTasks /\ MaxTasks \in Nat
  BY Types, TaskBounds DEF Spawn, IInv, Base
<1>2. /\ made' = made + 1 /\ scopes' = [scopes EXCEPT ![si] = Append(@, made + 1)]
      /\ handle' = [handle EXCEPT ![made + 1] = <<si, Len(scopes[si]) + 1>>]
      /\ from' = [from EXCEPT ![made + 1] = Block(x).id]
      /\ UNCHANGED <<closed, opened, blocks, left>>
  BY DEF Spawn, code
<1>3. made + 1 \in Bodies
  BY <1>1 DEF Bodies
<1>. HIDE DEF si
<1>4. si \in 1..Len(scopes)
  BY DEF si
<1>5. si \in DOMAIN scopes /\ scopes[si] \in Seq(Bodies)
  BY <1>1, <1>4
<1>6. DOMAIN scopes' = DOMAIN scopes /\ scopes'[si] = Append(scopes[si], made + 1)
      /\ \A s \in DOMAIN scopes \ {si} : scopes'[s] = scopes[s]
  BY <1>2, <1>5
<1>7. /\ Len(scopes[si]) \in Nat /\ DOMAIN scopes[si] = 1..Len(scopes[si])
      /\ DOMAIN scopes'[si] = 1..(Len(scopes[si]) + 1)
      /\ \A i \in DOMAIN scopes[si] : scopes'[si][i] = scopes[si][i]
      /\ scopes'[si][Len(scopes[si]) + 1] = made + 1
  BY <1>3, <1>5, <1>6
<1>8. /\ \A t \in Bodies \ {made + 1} : handle'[t] = handle[t] /\ from'[t] = from[t]
      /\ handle'[made + 1] = <<si, Len(scopes[si]) + 1>> /\ from'[made + 1] = Block(x).id
  BY <1>1, <1>2, <1>3
<1>. QED  BY <1>2, <1>3, <1>5, <1>6, <1>7, <1>8 DEF si

LEMMA TableSpawned ==
  ASSUME IInv, Lineage, Slotted, Placed, NEW x \in Coroutines, Spawn(x),
         innermost_open = Block(x).si
  PROVE  Lineage' /\ Slotted' /\ Placed'
<1>. DEFINE si == innermost_open
            p == Len(scopes[si]) + 1
            b == Len(blocks[x])
            u == made + 1
<1>0. Inside(x)
  BY DEF Spawn
<1>a. b \in DOMAIN blocks[x] /\ Block(x) = blocks[x][b]
  BY <1>0, LastBlock
<1>b. innermost_open \in 1..Len(scopes)
  BY <1>0, OpenWhenInside
<1>c. /\ made' = u /\ u \in Bodies /\ UNCHANGED <<closed, opened, blocks, left>>
      /\ OpenSlots' = OpenSlots
      /\ DOMAIN scopes' = DOMAIN scopes /\ si \in DOMAIN scopes
      /\ \A s \in DOMAIN scopes \ {si} : scopes'[s] = scopes[s]
      /\ DOMAIN scopes[si] \subseteq DOMAIN scopes'[si] /\ p \in DOMAIN scopes'[si]
      /\ \A i \in DOMAIN scopes'[si] : i \in DOMAIN scopes[si] \/ i = p
      /\ \A i \in DOMAIN scopes[si] : scopes'[si][i] = scopes[si][i]
      /\ scopes'[si][p] = u
      /\ \A t \in Bodies \ {u} : handle'[t] = handle[t] /\ from'[t] = from[t]
      /\ handle'[u] = <<si, p>> /\ from'[u] = blocks[x][b].id
  <2>1. UNCHANGED <<closed, opened, blocks, left>>
    BY <1>b, SpawnTable
  <2>2. OpenSlots' = OpenSlots
    BY <2>1 DEF OpenSlots
  <2>3. /\ DOMAIN scopes[si] \subseteq DOMAIN scopes'[si] /\ p \in DOMAIN scopes'[si]
        /\ \A i \in DOMAIN scopes'[si] : i \in DOMAIN scopes[si] \/ i = p
    <3>1. /\ Len(scopes[si]) \in Nat /\ DOMAIN scopes[si] = 1..Len(scopes[si])
          /\ DOMAIN scopes'[si] = 1..(Len(scopes[si]) + 1)
      BY <1>b, SpawnTable
    <3>. QED  BY <3>1
  <2>. QED  BY <1>a, <1>b, <2>1, <2>2, <2>3, SpawnTable
<1>d. /\ made \in Nat /\ x <= made /\ x \in Nat /\ 1..made \subseteq Bodies
      /\ \A t \in 1..made' : t \in 1..made \/ t = u
      /\ \A t \in 1..made : t # u /\ t \in Bodies
      /\ Coroutines = 0..MaxTasks
  <2>1. made \in Nat /\ x \in Nat /\ Coroutines = 0..MaxTasks /\ x <= made
    BY <1>a, Types DEF Lineage
  <2>2. 1..made \subseteq Bodies
    BY BodyTypes
  <2>. QED  BY <1>c, <2>1, <2>2
<1>e. \A y \in Coroutines : \A i \in DOMAIN blocks[y] :
        /\ blocks[y][i].id # 0 /\ blocks[y][i].si \in DOMAIN scopes
        /\ blocks[y][i].si = si => y = x /\ i = b
        /\ blocks[y][i].id = blocks[x][b].id => y = x /\ i = b
  <2>1. \A s \in OpenSlots : s \in DOMAIN scopes
    BY DEF OpenSlots, IInv, Base
  <2>. QED  BY <1>a, <2>1, BlockTypes DEF Slotted, Lineage
<1>f. \A s \in DOMAIN scopes : \A i \in DOMAIN scopes[s] : scopes[s][i] \in Bodies /\ scopes[s][i] # u
  <2>1. ASSUME NEW s \in DOMAIN scopes, NEW i \in DOMAIN scopes[s]
        PROVE  scopes[s][i] \in Bodies /\ scopes[s][i] # u
    <3>1. scopes \in Seq(Seq(Bodies))
      BY Types
    <3>2. scopes[s] \in Seq(Bodies)
      BY <3>1
    <3>3. scopes[s][i] \in Bodies /\ scopes[s][i] <= made
      BY <3>2 DEF IInv, Started
    <3>4. scopes[s][i] \in Nat
      BY <3>3, BodyTypes
    <3>. QED  BY <1>d, <3>3, <3>4
  <2>. QED  BY <2>1
<1>g. si = blocks[x][b].si
  BY <1>a
<1>h. blocks[x][b].id # 0 /\ blocks[x][b].id \notin left
  BY <1>a, <1>e DEF Lineage
<1>. HIDE DEF si, p, b, u
<1>1. Lineage'
  <2>1. left' \subseteq 1..opened'
    BY <1>c DEF Lineage
  <2>2. \A y \in Coroutines : \A i \in DOMAIN blocks'[y] :
          y <= made' /\ blocks'[y][i].id \in i..opened' /\ blocks'[y][i].id \notin left'
    <3>1. \A y \in Coroutines : y <= made => y <= made'
      BY <1>c, <1>d DEF u
    <3>. QED  BY <1>c, <3>1 DEF Lineage
  <2>3. \A y, z \in Coroutines : \A i \in DOMAIN blocks'[y], j \in DOMAIN blocks'[z] :
          blocks'[y][i].id = blocks'[z][j].id => y = z /\ i = j
    BY <1>c DEF Lineage
  <2>4. ASSUME NEW t \in 1..made', from'[t] # 0
        PROVE  \/ from'[t] \in left'
               \/ \E y \in 0..(t - 1) : \E i \in DOMAIN blocks'[y] : blocks'[y][i].id = from'[t]
    <3>1. CASE t = u
      <4>1. x \in 0..(t - 1)
        BY <1>d, <3>1 DEF u
      <4>. QED  BY <1>a, <1>c, <3>1, <4>1
    <3>2. CASE t \in 1..made
      <4>1. from'[t] = from[t]
        BY <1>c, <1>d, <3>2
      <4>. QED  BY <1>c, <2>4, <3>2, <4>1 DEF Lineage
    <3>. QED  BY <1>d, <3>1, <3>2
  <2>. QED  BY <2>1, <2>2, <2>3, <2>4 DEF Lineage
<1>2. Slotted'
  <2>1. ASSUME NEW s \in DOMAIN closed', closed'[s]
        PROVE  scopes'[s] = <<>>
    <3>1. s \in DOMAIN closed /\ closed[s] /\ scopes[s] = <<>>
      BY <1>c, <2>1 DEF Slotted
    <3>2. s # si
      <4>1. si \in OpenSlots
        BY <1>a, <1>g DEF Slotted
      <4>. QED  BY <3>1, <4>1 DEF OpenSlots
    <3>3. s \in DOMAIN scopes
      BY <3>1 DEF IInv, Base
    <3>. QED  BY <1>c, <3>1, <3>2, <3>3
  <2>. QED  BY <1>c, <2>1 DEF Slotted
<1>3. Placed'
  <2>1. \A t \in Bodies : ~Bare(t)' => from'[t] # 0
    <3>1. from'[u] # 0
      BY <1>c, <1>h
    <3>. QED  BY <1>c, <3>1 DEF Placed, Bare
  <2>2. ASSUME NEW y \in Coroutines, NEW i \in DOMAIN blocks'[y], NEW t \in 1..made',
               from'[t] = blocks'[y][i].id
        PROVE  /\ handle'[t][1] = blocks'[y][i].si
               /\ At(handle[t][1], handle[t][2])'
               /\ scopes'[handle'[t][1]][handle'[t][2]] = t
    <3>1. CASE t = u
      <4>1. y = x /\ i = b /\ blocks'[y][i].si = si
        BY <1>c, <1>e, <1>g, <2>2, <3>1
      <4>2. handle'[t][1] = si /\ handle'[t][2] = p
        BY <1>c, <3>1
      <4>. QED  BY <1>c, <3>1, <4>1, <4>2 DEF At
    <3>2. CASE t \in 1..made
      <4>1. handle'[t] = handle[t] /\ from'[t] = from[t]
        BY <1>c, <1>d, <3>2
      <4>2. i \in DOMAIN blocks[y] /\ from[t] = blocks[y][i].id
        BY <1>c, <2>2, <4>1
      <4>3. /\ handle[t][1] = blocks[y][i].si
            /\ At(handle[t][1], handle[t][2]) /\ scopes[handle[t][1]][handle[t][2]] = t
        BY <3>2, <4>2 DEF Placed
      <4>4. CASE handle[t][1] = si
        BY <1>c, <4>1, <4>3, <4>4 DEF At
      <4>5. CASE handle[t][1] # si
        BY <1>c, <4>1, <4>3, <4>5 DEF At
      <4>. QED  BY <4>4, <4>5
    <3>. QED  BY <1>d, <3>1, <3>2
  <2>3. ASSUME NEW y \in Coroutines, NEW i \in DOMAIN blocks'[y],
               NEW ti \in DOMAIN scopes'[blocks'[y][i].si]
        PROVE  /\ from'[scopes'[blocks'[y][i].si][ti]] = blocks'[y][i].id
               /\ handle'[scopes'[blocks'[y][i].si][ti]] = <<blocks'[y][i].si, ti>>
    <3>0. i \in DOMAIN blocks[y] /\ blocks'[y] = blocks[y] /\ blocks[y][i].si \in DOMAIN scopes
      BY <1>c, <1>e
    <3>1. ASSUME ti \in DOMAIN scopes[blocks[y][i].si],
                 scopes'[blocks[y][i].si][ti] = scopes[blocks[y][i].si][ti]
          PROVE  /\ from'[scopes'[blocks'[y][i].si][ti]] = blocks'[y][i].id
                 /\ handle'[scopes'[blocks'[y][i].si][ti]] = <<blocks'[y][i].si, ti>>
      <4>1. /\ from[scopes[blocks[y][i].si][ti]] = blocks[y][i].id
            /\ handle[scopes[blocks[y][i].si][ti]] = <<blocks[y][i].si, ti>>
        BY <3>0, <3>1 DEF Placed
      <4>2. scopes[blocks[y][i].si][ti] \in Bodies \ {u}
        BY <1>f, <3>0, <3>1
      <4>. QED  BY <1>c, <3>0, <3>1, <4>1, <4>2
    <3>2. CASE blocks[y][i].si # si
      BY <1>c, <3>0, <3>1, <3>2
    <3>3. CASE blocks[y][i].si = si /\ ti # p
      BY <1>c, <3>0, <3>1, <3>3
    <3>4. CASE blocks[y][i].si = si /\ ti = p
      <4>1. y = x /\ i = b
        BY <1>e, <3>0, <3>4
      <4>. QED  BY <1>c, <3>0, <3>4, <4>1
    <3>. QED  BY <3>2, <3>3, <3>4
  <2>. QED  BY <2>1, <2>2, <2>3 DEF Placed
<1>. QED  BY <1>1, <1>2, <1>3

\* `close_scope` at the slot of the block that is left.
LEMMA TableShut ==
  ASSUME IInv, Lineage, Slotted, Placed, NEW d \in Coroutines, Inside(d),
         close_scope(Block(d).si), blocks' = [blocks EXCEPT ![d] = Front(@)],
         left' = left \union {Block(d).id}, UNCHANGED <<handle, from, made, opened>>
  PROVE  Lineage' /\ Slotted' /\ Placed'
<1>. DEFINE b == Len(blocks[d])
            si == Block(d).si
<1>a. b \in DOMAIN blocks[d] /\ Block(d) = blocks[d][b] /\ si \in OpenSlots
  BY LastBlock DEF Slotted
<1>b. si \in 1..Len(scopes)
  BY <1>a DEF OpenSlots, IInv, Base
<1>c. /\ OpenSlots' = OpenSlots \ {si} /\ DOMAIN scopes' = DOMAIN closed'
      /\ \A s \in DOMAIN scopes' : s \in DOMAIN scopes /\ s \in DOMAIN closed
                                   /\ scopes'[s] = IF s = si THEN <<>> ELSE scopes[s]
  <2>1. /\ scopes' \in Seq(Seq(Bodies)) /\ closed' \in Seq(BOOLEAN)
        /\ Len(scopes') = Len(closed') /\ Len(scopes') <= Len(scopes)
        /\ OpenSlots' = OpenSlots \ {si}
        /\ \A s \in 1..Len(scopes') : scopes'[s] = IF s = si THEN <<>> ELSE scopes[s]
    BY <1>b, CloseFacts DEF IInv
  <2>2. /\ Len(scopes') \in Nat /\ DOMAIN scopes' = 1..Len(scopes')
        /\ DOMAIN closed' = 1..Len(scopes')
    BY <2>1
  <2>3. DOMAIN scopes = 1..Len(scopes) /\ DOMAIN closed = 1..Len(scopes) /\ Len(scopes) \in Nat
    BY Types
  <2>4. \A s \in 1..Len(scopes') : s \in 1..Len(scopes)
    BY <2>1, <2>2, <2>3
  <2>. QED  BY <2>1, <2>2, <2>3, <2>4
<1>d. /\ \A y \in Coroutines : \A i \in DOMAIN blocks'[y] :
           /\ i \in DOMAIN blocks[y] /\ blocks'[y][i] = blocks[y][i]
           /\ y = d => i # b
      /\ \A y \in Coroutines : \A i \in DOMAIN blocks[y] :
           (y = d /\ i = b) \/ (i \in DOMAIN blocks'[y] /\ blocks'[y][i] = blocks[y][i])
  <2>1. /\ \A y \in Coroutines \ {d} : blocks'[y] = blocks[y]
        /\ DOMAIN blocks[d] = 1..Len(blocks[d]) /\ Len(blocks[d]) \in Nat \ {0}
        /\ DOMAIN blocks'[d] = 1..(Len(blocks[d]) - 1)
        /\ \A i \in DOMAIN blocks'[d] : blocks'[d][i] = blocks[d][i]
    BY Shorter DEF IInv, Inside
  <2>2. /\ \A i \in DOMAIN blocks'[d] : i \in DOMAIN blocks[d] /\ i # b
        /\ \A i \in DOMAIN blocks[d] : i = b \/ i \in DOMAIN blocks'[d]
    BY <2>1
  <2>. QED  BY <2>1, <2>2
<1>e. /\ \A y \in Coroutines : \A i \in DOMAIN blocks'[y] : blocks[y][i].si # si
      /\ \A y \in Coroutines : \A i \in DOMAIN blocks'[y] : blocks[y][i].id # Block(d).id
  BY <1>a, <1>d DEF Slotted, Lineage
<1>f. \A y \in Coroutines : \A i \in DOMAIN blocks'[y] :
        /\ blocks'[y][i].si \in OpenSlots' /\ blocks'[y][i].si \in DOMAIN scopes'
        /\ blocks'[y][i].si \in DOMAIN scopes
        /\ scopes'[blocks'[y][i].si] = scopes[blocks[y][i].si]
  <2>1. ASSUME NEW y \in Coroutines, NEW i \in DOMAIN blocks'[y]
        PROVE  blocks'[y][i].si \in OpenSlots'
    BY <1>c, <1>d, <1>e DEF Slotted
  <2>2. OpenSlots' \subseteq DOMAIN scopes'
    BY <1>c DEF OpenSlots
  <2>. QED  BY <1>c, <1>d, <1>e, <2>1, <2>2
<1>. HIDE DEF b, si
<1>1. Lineage'
  <2>1. left' \subseteq 1..opened'
    <3>1. Block(d).id \in b..opened /\ Block(d).id \in Nat \ {0} /\ b \in Nat /\ opened \in Nat
      <4>1. Block(d).id \in b..opened /\ Block(d).id \in Nat \ {0}
        BY <1>a, BlockTypes DEF Lineage
      <4>. QED  BY <4>1, Types, LastBlock DEF b
    <3>2. Block(d).id \in 1..opened
      BY <3>1
    <3>. QED  BY <3>2 DEF Lineage
  <2>2. \A y \in Coroutines : \A i \in DOMAIN blocks'[y] :
          y <= made' /\ blocks'[y][i].id \in i..opened' /\ blocks'[y][i].id \notin left'
    BY <1>d, <1>e DEF Lineage
  <2>3. \A y, z \in Coroutines : \A i \in DOMAIN blocks'[y], j \in DOMAIN blocks'[z] :
          blocks'[y][i].id = blocks'[z][j].id => y = z /\ i = j
    BY <1>d DEF Lineage
  <2>4. ASSUME NEW t \in 1..made', from'[t] # 0
        PROVE  \/ from'[t] \in left'
               \/ \E y \in 0..(t - 1) : \E i \in DOMAIN blocks'[y] : blocks'[y][i].id = from'[t]
    <3>1. t \in 1..made /\ from[t] # 0
      BY <2>4
    <3>2. \A y \in 0..(t - 1) : y \in Coroutines
      BY <3>1, Types
    <3>3. CASE from[t] \in left
      BY <3>3
    <3>4. CASE \E y \in 0..(t - 1) : \E i \in DOMAIN blocks[y] : blocks[y][i].id = from[t]
      <4>1. PICK y \in 0..(t - 1) : \E i \in DOMAIN blocks[y] : blocks[y][i].id = from[t]
        BY <3>4
      <4>2. PICK i \in DOMAIN blocks[y] : blocks[y][i].id = from[t]
        BY <4>1
      <4>3. CASE y = d /\ i = b
        BY <1>a, <4>2, <4>3
      <4>4. CASE i \in DOMAIN blocks'[y] /\ blocks'[y][i] = blocks[y][i]
        BY <4>2, <4>4
      <4>. QED  BY <1>d, <3>2, <4>3, <4>4
    <3>. QED  BY <3>1, <3>3, <3>4 DEF Lineage
  <2>. QED  BY <2>1, <2>2, <2>3, <2>4 DEF Lineage
<1>2. Slotted'
  <2>1. \A y, z \in Coroutines : \A i \in DOMAIN blocks'[y], j \in DOMAIN blocks'[z] :
          blocks'[y][i].si = blocks'[z][j].si => y = z /\ i = j
    BY <1>d DEF Slotted
  <2>2. ASSUME NEW s \in OpenSlots'
        PROVE  \E y \in Coroutines : \E i \in DOMAIN blocks'[y] : blocks'[y][i].si = s
    <3>1. s \in OpenSlots /\ s # si
      BY <1>c
    <3>2. PICK y \in Coroutines : \E i \in DOMAIN blocks[y] : blocks[y][i].si = s
      BY <3>1 DEF Slotted
    <3>3. PICK i \in DOMAIN blocks[y] : blocks[y][i].si = s
      BY <3>2
    <3>4. ~(y = d /\ i = b)
      BY <1>a, <3>1, <3>3 DEF si
    <3>. QED  BY <1>d, <3>3, <3>4
  <2>3. ASSUME NEW s \in DOMAIN closed', closed'[s]
        PROVE  scopes'[s] = <<>>
    <3>1. s \in DOMAIN closed /\ s \in DOMAIN scopes' /\ s \notin OpenSlots'
      BY <1>c, <2>3 DEF OpenSlots
    <3>2. CASE s = si
      BY <1>c, <3>1, <3>2
    <3>3. CASE s # si
      <4>1. closed[s]
        BY <1>c, <3>1, <3>3 DEF OpenSlots
      <4>. QED  BY <1>c, <3>1, <3>3, <4>1 DEF Slotted
    <3>. QED  BY <3>2, <3>3
  <2>. QED  BY <1>f, <2>1, <2>2, <2>3 DEF Slotted
<1>3. Placed'
  <2>1. \A t \in Bodies : ~Bare(t)' => from'[t] # 0
    BY DEF Placed, Bare
  <2>2. ASSUME NEW y \in Coroutines, NEW i \in DOMAIN blocks'[y], NEW t \in 1..made',
               from'[t] = blocks'[y][i].id
        PROVE  /\ handle'[t][1] = blocks'[y][i].si
               /\ At(handle[t][1], handle[t][2])'
               /\ scopes'[handle'[t][1]][handle'[t][2]] = t
    <3>1. i \in DOMAIN blocks[y] /\ from[t] = blocks[y][i].id /\ blocks'[y][i] = blocks[y][i]
      BY <1>d, <2>2
    <3>2. /\ handle[t][1] = blocks[y][i].si
          /\ At(handle[t][1], handle[t][2]) /\ scopes[handle[t][1]][handle[t][2]] = t
      BY <3>1 DEF Placed
    <3>. QED  BY <1>f, <3>1, <3>2 DEF At
  <2>3. ASSUME NEW y \in Coroutines, NEW i \in DOMAIN blocks'[y],
               NEW ti \in DOMAIN scopes'[blocks'[y][i].si]
        PROVE  /\ from'[scopes'[blocks'[y][i].si][ti]] = blocks'[y][i].id
               /\ handle'[scopes'[blocks'[y][i].si][ti]] = <<blocks'[y][i].si, ti>>
    <3>1. i \in DOMAIN blocks[y] /\ blocks'[y][i] = blocks[y][i]
          /\ ti \in DOMAIN scopes[blocks[y][i].si]
      BY <1>d, <1>f
    <3>2. /\ from[scopes[blocks[y][i].si][ti]] = blocks[y][i].id
          /\ handle[scopes[blocks[y][i].si][ti]] = <<blocks[y][i].si, ti>>
      BY <3>1 DEF Placed
    <3>. QED  BY <1>f, <3>1, <3>2
  <2>. QED  BY <2>1, <2>2, <2>3 DEF Placed
<1>. QED  BY <1>1, <1>2, <1>3

\* The tasks of a block whose slot is drained are over.
LEMMA DrainedBlock ==
  ASSUME IInv, Placed, NEW d \in Coroutines, Inside(d), ScopeReady(Block(d).si),
         NEW t \in 1..made, from[t] = Block(d).id
  PROVE  Over(t)
<1>1. Len(blocks[d]) \in DOMAIN blocks[d] /\ Block(d) = blocks[d][Len(blocks[d])]
  BY LastBlock
<1>2. /\ handle[t][1] = Block(d).si /\ At(handle[t][1], handle[t][2])
      /\ scopes[handle[t][1]][handle[t][2]] = t
  BY <1>1 DEF Placed
<1>3. t \in InScope(Block(d).si) /\ Block(d).si \in DOMAIN scopes
  BY <1>2 DEF InScope, Range, At
<1>. QED  BY <1>3 DEF ScopeReady

\* What is in the table is in the place that its handle names.
LEMMA PlaceOf ==
  ASSUME IInv, Slotted, Placed, NEW si, NEW ti, At(si, ti)
  PROVE  handle[scopes[si][ti]] = <<si, ti>>
<1>1. si \in DOMAIN scopes /\ ti \in DOMAIN scopes[si] /\ DOMAIN scopes = DOMAIN closed
  BY DEF At, IInv, Base
<1>2. scopes[si] # <<>>
  BY <1>1
<1>3. si \in OpenSlots
  BY <1>1, <1>2 DEF Slotted, OpenSlots
<1>4. PICK x \in Coroutines : \E i \in DOMAIN blocks[x] : blocks[x][i].si = si
  BY <1>3 DEF Slotted
<1>5. PICK i \in DOMAIN blocks[x] : blocks[x][i].si = si
  BY <1>4
<1>6. handle[scopes[blocks[x][i].si][ti]] = <<blocks[x][i].si, ti>>
  BY <1>1, <1>5 DEF Placed
<1>. QED  BY <1>5, <1>6

\* A task that is not over is in the place that its handle names.
LEMMA OwnPlace ==
  ASSUME IInv, Lineage, Placed, JoinsOwn, NEW t \in 1..made, ~Bare(t), ~Over(t)
  PROVE  At(handle[t][1], handle[t][2]) /\ scopes[handle[t][1]][handle[t][2]] = t
<1>1. t \in Bodies /\ from[t] # 0
  BY BodyTypes DEF Placed
<1>2. from[t] \notin left
  BY DEF JoinsOwn
<1>3. PICK x \in 0..(t - 1) : \E i \in DOMAIN blocks[x] : blocks[x][i].id = from[t]
  BY <1>1, <1>2 DEF Lineage
<1>4. x \in Coroutines
  BY Types
<1>. QED  BY <1>3, <1>4 DEF Placed

--------------------------------------------------------------------------------
(* Blocks and the native stack.                                             *)

\* A loop was entered; the code that entered it was on top.
Entered == Len(stack') = Len(stack) + 1 /\ stack'[Len(stack')].k # "code"
EntersWell ==
  Entered =>
    /\ stack'[Len(stack')].k = "join" =>
         /\ Inside(stack[Len(stack)].x) /\ ~Block(stack[Len(stack)].x).split
         /\ stack'[Len(stack')].si = Block(stack[Len(stack)].x).si
    /\ style = "split" =>
         /\ Len(stack) >= 2 => stack'[Len(stack')].k = "join_task"
         /\ Len(stack) = 1 /\ blocks[Main] # <<>> => stack'[Len(stack')].k = "join"
\* The top level is back in its own code only when no body is inside a block.
EmptiesWell ==
  style = "split" /\ Len(stack') = 1 /\ Len(stack) # 1 => \A x \in Bodies : blocks'[x] = <<>>
\* Synchronous code does not leave its frame inside a block.
StaysOn ==
  style = "sync" => \A x \in Coroutines : blocks'[x] # <<>> => OnStack(x)' /\ wait'[x] = Awake
\* Code that was not on the stack comes on top; the poll of a task stands where
\* its handle says.
ComesOn ==
  \E u \in 1..made : stack'[Len(stack')] = Code(u) /\ \A i \in 1..Len(stack) : stack[i] # Code(u)
PollsWell ==
  ComesOn /\ stack'[Len(stack') - 1].at # Nowhere =>
    stack'[Len(stack') - 1].at = handle'[stack'[Len(stack')].x]

LEMMA FewerInside ==
  ASSUME IInv, IInv', Fewer, NEW x \in Coroutines
  PROVE  /\ blocks'[x] # <<>> => blocks[x] # <<>> /\ DOMAIN blocks[x] # {}
         /\ Len(blocks'[x]) <= Len(blocks[x])
<1>1. /\ Len(blocks[x]) \in Nat /\ DOMAIN blocks[x] = 1..Len(blocks[x])
      /\ blocks[x] = <<>> <=> Len(blocks[x]) = 0
  BY BlockTypes
<1>2. blocks'[x] \in Seq(BlockRecords)
  BY DEF IInv, Base
<1>3. Len(blocks'[x]) \in Nat /\ DOMAIN blocks'[x] = 1..Len(blocks'[x])
      /\ (blocks'[x] = <<>> <=> Len(blocks'[x]) = 0)
  BY <1>2
<1>4. \A i \in 1..Len(blocks'[x]) : i \in 1..Len(blocks[x])
  BY <1>1, <1>3 DEF Fewer, SameBlock
<1>5. Len(blocks'[x]) # 0 => Len(blocks'[x]) \in 1..Len(blocks'[x])
  BY <1>3
<1>6. Len(blocks'[x]) <= Len(blocks[x])
  BY <1>1, <1>3, <1>4, <1>5
<1>7. blocks'[x] # <<>> => Len(blocks[x]) # 0 /\ 1 \in DOMAIN blocks[x]
  BY <1>1, <1>3, <1>6
<1>. QED  BY <1>1, <1>6, <1>7

LEMMA SameInside ==
  ASSUME IInv, IInv', BlocksSame, NEW x \in Coroutines
  PROVE  /\ Len(blocks'[x]) = Len(blocks[x]) /\ (blocks'[x] = <<>> <=> blocks[x] = <<>>)
         /\ \A i \in DOMAIN blocks[x] : blocks'[x][i].si = blocks[x][i].si
                                        /\ blocks'[x][i].split = blocks[x][i].split
<1>1. blocks'[x] \in Seq(BlockRecords) /\ blocks[x] \in Seq(BlockRecords)
  BY DEF IInv, Base
<1>2. DOMAIN blocks'[x] = DOMAIN blocks[x]
  BY DEF BlocksSame
<1>3. Len(blocks'[x]) \in Nat /\ DOMAIN blocks'[x] = 1..Len(blocks'[x])
      /\ (blocks'[x] = <<>> <=> Len(blocks'[x]) = 0)
  BY <1>1
<1>4. Len(blocks[x]) \in Nat /\ DOMAIN blocks[x] = 1..Len(blocks[x])
      /\ (blocks[x] = <<>> <=> Len(blocks[x]) = 0)
  BY <1>1
<1>5. Len(blocks'[x]) = Len(blocks[x])
  <2>0. 1..Len(blocks'[x]) = 1..Len(blocks[x])
    BY <1>2, <1>3, <1>4
  <2>1. Len(blocks'[x]) # 0 => Len(blocks'[x]) \in 1..Len(blocks[x])
    <3>1. Len(blocks'[x]) # 0 => Len(blocks'[x]) \in 1..Len(blocks'[x])
      BY <1>3
    <3>. QED  BY <2>0, <3>1, Zenon
  <2>2. Len(blocks[x]) # 0 => Len(blocks[x]) \in 1..Len(blocks'[x])
    <3>1. Len(blocks[x]) # 0 => Len(blocks[x]) \in 1..Len(blocks[x])
      BY <1>4
    <3>. QED  BY <2>0, <3>1, Zenon
  <2>. QED  BY <1>3, <1>4, <2>1, <2>2
<1>. QED  BY <1>2, <1>3, <1>4, <1>5 DEF BlocksSame, Fewer, SameBlock

LEMMA JoinsLastKept ==
  ASSUME IInv, IInv', DataStep, StackStep, JoinsLast, EntersWell,
         \/ BlocksSame
         \/ /\ ~Entered
            /\ \E d \in Coroutines : /\ stack'[Len(stack')] = Code(d)
                                     /\ \A y \in Coroutines \ {d} : blocks'[y] = blocks[y]
  PROVE  JoinsLast'
<1>1. SUFFICES ASSUME NEW k \in 2..Len(stack'), stack'[k].k = "join"
               PROVE  LET y == stack'[k - 1].x
                      IN  /\ stack'[k].si = blocks'[y][Len(blocks'[y])].si
                          /\ ~blocks'[y][Len(blocks'[y])].split
  BY DEF JoinsLast
<1>. DEFINE y == stack'[k - 1].x
<1>0. k \in Nat /\ Len(stack') \in Nat /\ k - 1 \in 1..Len(stack) /\ k - 1 \in 1..Len(stack')
      /\ k <= Len(stack') /\ Len(stack) \in Nat
  BY FramePairs, Frames
<1>2. /\ stack'[k - 1] = stack[k - 1]
      /\ \/ k <= Len(stack) /\ ~IsCode(k) /\ SameLoop(stack[k], stack'[k])
         \/ k = Len(stack) + 1 /\ k = Len(stack') /\ stack'[Len(stack')].k # "code"
  BY <1>1, FramePairs
<1>3. stack'[k - 1].k = "code"
  BY <1>1 DEF IInv, Alternates, IsCode
<1>4. y \in Coroutines /\ stack'[k - 1] = Code(y) /\ stack[k - 1] = Code(y) /\ y = stack[k - 1].x
  <2>1. IsCode(k - 1)
    BY <1>2, <1>3 DEF IsCode
  <2>2. stack[k - 1] \in CodeFrames /\ stack[k - 1] = Code(stack[k - 1].x)
    BY <1>0, <2>1, Frames
  <2>. QED  BY <1>2, <2>2 DEF CodeFrames
<1>5. blocks[y] # <<>> => Len(blocks[y]) \in DOMAIN blocks[y]
  BY <1>4, LastBlock DEF Inside
<1>6. k <= Len(stack) => blocks[y] # <<>> /\ stack[k].si = blocks[y][Len(blocks[y])].si
                         /\ ~blocks[y][Len(blocks[y])].split /\ stack'[k].si = stack[k].si
  <2>1. ASSUME k <= Len(stack)
        PROVE  blocks[y] # <<>> /\ stack[k].si = blocks[y][Len(blocks[y])].si
                         /\ ~blocks[y][Len(blocks[y])].split /\ stack'[k].si = stack[k].si
    <3>1. k \in 2..Len(stack)
      BY <1>0, <2>1
    <3>2. SameLoop(stack[k], stack'[k])
      BY <1>0, <1>2, <2>1
    <3>3. stack[k].k = "join" /\ stack'[k].si = stack[k].si
      BY <1>1, <3>2 DEF SameLoop
    <3>. QED  BY <1>4, <3>1, <3>3 DEF JoinsLast, IInv, Joining
  <2>. QED  BY <2>1
<1>. HIDE DEF y
<1>7. CASE BlocksSame
  <2>1. /\ Len(blocks'[y]) = Len(blocks[y])
        /\ \A i \in DOMAIN blocks[y] : blocks'[y][i].si = blocks[y][i].si
                                       /\ blocks'[y][i].split = blocks[y][i].split
    BY <1>4, <1>7, SameInside
  <2>2. CASE k <= Len(stack)
    BY <1>5, <1>6, <2>1, <2>2 DEF y
  <2>3. CASE k = Len(stack) + 1 /\ k = Len(stack')
    <3>1. Entered /\ k - 1 = Len(stack)
      BY <1>0, <1>1, <2>3 DEF Entered
    <3>2. Inside(y) /\ ~Block(y).split /\ stack'[k].si = Block(y).si
      BY <1>1, <1>4, <2>3, <3>1 DEF EntersWell
    <3>3. Block(y) = blocks[y][Len(blocks[y])] /\ Len(blocks[y]) \in DOMAIN blocks[y]
      BY <1>4, <3>2, LastBlock
    <3>. QED  BY <2>1, <3>2, <3>3 DEF y
  <2>. QED  BY <1>2, <2>2, <2>3
<1>8. CASE /\ ~Entered
           /\ \E d \in Coroutines : /\ stack'[Len(stack')] = Code(d)
                                    /\ \A z \in Coroutines \ {d} : blocks'[z] = blocks[z]
  <2>1. k <= Len(stack)
    BY <1>2, <1>8 DEF Entered
  <2>2. PICK d \in Coroutines : /\ stack'[Len(stack')] = Code(d)
                                /\ \A z \in Coroutines \ {d} : blocks'[z] = blocks[z]
    BY <1>8
  <2>3. y # d
    <3>1. ASSUME y = d
          PROVE  FALSE
      <4>1. stack'[k - 1] = stack'[Len(stack')]
        BY <1>4, <2>2, <3>1
      <4>2. k - 1 \in DOMAIN stack' /\ Len(stack') \in DOMAIN stack'
        <5>1. stack' \in Seq(CodeFrames \union LoopFrames)
          BY DEF IInv, Base
        <5>2. DOMAIN stack' = 1..Len(stack')
          BY <5>1
        <5>. QED  BY <1>0, <5>2
      <4>3. k - 1 = Len(stack')
        BY <1>3, <4>1, <4>2 DEF IInv, NotReentered
      <4>. QED  BY <1>0, <4>3
    <3>. QED  BY <3>1
  <2>4. blocks'[y] = blocks[y]
    BY <1>4, <2>2, <2>3
  <2>. QED  BY <1>6, <2>1, <2>4 DEF y
<1>. QED  BY <1>7, <1>8

LEMMA StandingKept ==
  ASSUME IInv, IInv', DataStep, StackStep, Standing, PollsWell
  PROVE  Standing'
<1>1. SUFFICES ASSUME NEW k \in 2..Len(stack'), stack'[k].k = "code", stack'[k - 1].at # Nowhere
               PROVE  stack'[k - 1].at = handle'[stack'[k].x]
  BY DEF Standing, IsCode
<1>2. \/ k <= Len(stack) /\ stack'[k] = stack[k] /\ stack'[k - 1] = stack[k - 1]
      \/ k = Len(stack) + 1 /\ k = Len(stack') /\ NewCode(k)
  BY <1>1, FramePairs
<1>3. CASE k <= Len(stack) /\ stack'[k] = stack[k] /\ stack'[k - 1] = stack[k - 1]
  <2>1. k \in 2..Len(stack) /\ IsCode(k)
    BY <1>1, <1>3, Frames DEF IsCode
  <2>2. stack[k - 1].at = handle[stack[k].x]
    BY <1>1, <1>3, <2>1 DEF Standing
  <2>3. stack[k].x \in 1..made
    BY <2>1 DEF IInv, Alternates
  <2>4. handle'[stack[k].x] = handle[stack[k].x]
    <3>1. stack[k].x \in Bodies /\ stack[k].x <= made
      BY <2>3, BodyTypes, Types
    <3>. QED  BY <3>1 DEF DataStep, HandleStep
  <2>. QED  BY <1>3, <2>2, <2>4
<1>4. CASE k = Len(stack) + 1 /\ k = Len(stack') /\ NewCode(k)
  <2>1. ComesOn
    BY <1>4 DEF NewCode, ComesOn
  <2>. QED  BY <1>1, <1>4, <2>1 DEF PollsWell
<1>. QED  BY <1>2, <1>3, <1>4

LEMMA NextFrames ==
  ASSUME IInv'
  PROVE  /\ Len(stack') \in Nat \ {0} /\ DOMAIN stack' = 1..Len(stack')
         /\ stack'[1] = Code(Main) /\ stack'[1].k = "code"
         /\ Len(stack') >= 2 => stack'[2].k # "code"
<1>1. stack' \in Seq(CodeFrames \union LoopFrames) /\ stack' # <<>> /\ stack'[1] = Code(Main)
  BY DEF IInv, Base, Alternates
<1>2. Len(stack') \in Nat \ {0} /\ DOMAIN stack' = 1..Len(stack')
  BY <1>1
<1>3. stack'[1].k = "code"
  BY <1>1 DEF Code
<1>4. ASSUME Len(stack') >= 2
      PROVE  stack'[2].k # "code"
  <2>1. 2 \in 2..Len(stack') /\ 2 - 1 = 1
    BY <1>2, <1>4
  <2>. QED  BY <1>3, <2>1 DEF IInv, Alternates, IsCode
<1>. QED  BY <1>1, <1>2, <1>3, <1>4

LEMMA NestedKept ==
  ASSUME IInv, IInv', DataStep, StackStep, Nested, Fewer, StaysOn, style' = style
  PROVE  Nested'
<1>0. SUFFICES ASSUME style = "sync"
               PROVE  /\ \A x \in Coroutines : blocks'[x] # <<>> => OnStack(x)' /\ wait'[x] = Awake
                      /\ \A x \in Coroutines : \A i \in DOMAIN blocks'[x] : ~blocks'[x][i].split
                      /\ \A x, y \in Coroutines :
                           \A i \in DOMAIN blocks'[x], j \in DOMAIN blocks'[y] :
                           \A k, l \in DOMAIN stack' :
                             stack'[k] = Code(x) /\ stack'[l] = Code(y) /\ (k < l \/ (k = l /\ i < j))
                               => blocks'[x][i].si < blocks'[y][j].si
  BY DEF Nested
<1>1. \A x \in Coroutines : blocks'[x] # <<>> => OnStack(x)' /\ wait'[x] = Awake
  BY <1>0 DEF StaysOn
<1>2. \A x \in Coroutines : \A i \in DOMAIN blocks'[x] : ~blocks'[x][i].split
  BY <1>0 DEF Nested, Fewer, SameBlock
<1>3. ASSUME NEW x \in Coroutines, NEW i \in DOMAIN blocks'[x], NEW k \in DOMAIN stack',
             stack'[k] = Code(x)
      PROVE  i \in DOMAIN blocks[x] /\ k \in DOMAIN stack /\ stack[k] = Code(x)
             /\ blocks'[x][i].si = blocks[x][i].si
  <2>1. i \in DOMAIN blocks[x] /\ blocks'[x][i].si = blocks[x][i].si
    BY DEF Fewer, SameBlock
  <2>2. k \in 1..Len(stack') /\ stack'[k].k = "code" /\ k \in Nat
    BY <1>3, NextFrames DEF Code
  <2>3. CASE k <= Len(stack) /\ stack'[k] = stack[k]
    BY <1>3, <2>1, <2>2, <2>3, Frames
  <2>4. CASE NewCode(k)
    <3>1. \A c \in 1..Len(stack) : stack[c] # Code(x)
      BY <1>3, <2>4 DEF NewCode, Code
    <3>2. blocks[x] # <<>>
      BY <2>1, BlockTypes
    <3>. QED  BY <1>0, <3>1, <3>2 DEF Nested, OnStack
  <2>. QED  BY <2>2, <2>3, <2>4, CodeStep
<1>4. ASSUME NEW x \in Coroutines, NEW y \in Coroutines, NEW i \in DOMAIN blocks'[x],
             NEW j \in DOMAIN blocks'[y], NEW k \in DOMAIN stack', NEW l \in DOMAIN stack',
             stack'[k] = Code(x), stack'[l] = Code(y), k < l \/ (k = l /\ i < j)
      PROVE  blocks'[x][i].si < blocks'[y][j].si
  <2>1. i \in DOMAIN blocks[x] /\ k \in DOMAIN stack /\ stack[k] = Code(x)
        /\ blocks'[x][i].si = blocks[x][i].si
    BY <1>3, <1>4
  <2>2. j \in DOMAIN blocks[y] /\ l \in DOMAIN stack /\ stack[l] = Code(y)
        /\ blocks'[y][j].si = blocks[y][j].si
    BY <1>3, <1>4
  <2>. QED  BY <1>0, <1>4, <2>1, <2>2 DEF Nested
<1>. QED  BY <1>1, <1>2, <1>4

LEMMA FlatKept ==
  ASSUME IInv, IInv', DataStep, StackStep, Lineage, Flat, Fewer, EntersWell, EmptiesWell,
         style' = style
  PROVE  Flat'
<1>0. SUFFICES ASSUME style = "split"
               PROVE  /\ Len(blocks'[Main]) <= 1
                      /\ \A x \in Bodies : \A i \in DOMAIN blocks'[x] : blocks'[x][i].split
                      /\ \A k \in 3..Len(stack') : stack'[k].k = "code" \/ stack'[k].k = "join_task"
                      /\ blocks'[Main] # <<>> /\ Len(stack') >= 2 => stack'[2].k = "join"
                      /\ Len(stack') = 1 => \A x \in Bodies : blocks'[x] = <<>>
                      /\ \A x \in Bodies : handle'[x] = Nowhere /\ blocks'[x] # <<>> =>
                           Len(stack') >= 2 /\ stack'[2].k = "await" /\ stack'[2].t = x
  BY DEF Flat, IsCode, Bare
<1>t. /\ Len(stack) \in Nat \ {0} /\ Len(stack') \in Nat \ {0}
      /\ Main \in Coroutines /\ Bodies \subseteq Coroutines
      /\ Len(blocks[Main]) \in Nat /\ Len(blocks'[Main]) \in Nat
  <2>1. Main \in Coroutines /\ Bodies \subseteq Coroutines
    BY Types
  <2>2. blocks'[Main] \in Seq(BlockRecords) /\ blocks[Main] \in Seq(BlockRecords)
    BY <2>1 DEF IInv, Base
  <2>. QED  BY <2>1, <2>2, Frames, NextFrames
<1>u. Len(stack) \in Nat /\ Len(stack') \in Nat /\ Len(stack') # 0
  BY <1>t
<1>1. Len(blocks'[Main]) <= 1
  BY <1>0, <1>t, FewerInside DEF Flat
<1>2. \A x \in Bodies : \A i \in DOMAIN blocks'[x] : blocks'[x][i].split
  BY <1>0, <1>t DEF Flat, Fewer, SameBlock
<1>3. ASSUME NEW k \in 3..Len(stack'), stack'[k].k # "code"
      PROVE  stack'[k].k = "join_task"
  <2>1. k \in 2..Len(stack') /\ k \in Nat /\ k >= 3
    BY <1>t
  <2>2. \/ k <= Len(stack) /\ ~IsCode(k) /\ SameLoop(stack[k], stack'[k])
        \/ k = Len(stack) + 1 /\ k = Len(stack') /\ stack'[Len(stack')].k # "code"
    BY <1>3, <2>1, FramePairs
  <2>3. CASE k <= Len(stack) /\ ~IsCode(k) /\ SameLoop(stack[k], stack'[k])
    <3>1. k \in 3..Len(stack)
      BY <1>t, <2>1, <2>3
    <3>. QED  BY <1>0, <2>3, <3>1 DEF Flat, SameLoop
  <2>4. CASE k = Len(stack) + 1 /\ k = Len(stack') /\ stack'[Len(stack')].k # "code"
    <3>1. Entered /\ Len(stack) >= 2
      BY <1>t, <2>1, <2>4 DEF Entered
    <3>. QED  BY <1>0, <2>4, <3>1 DEF EntersWell
  <2>. QED  BY <2>2, <2>3, <2>4
<1>4. ASSUME Len(stack') >= 2
      PROVE  \/ Len(stack) >= 2 /\ SameLoop(stack[2], stack'[2])
             \/ Len(stack) = 1 /\ Entered /\ Len(stack') = 2
  <2>1. 2 \in 2..Len(stack') /\ stack'[2].k # "code"
    BY <1>t, <1>4, NextFrames
  <2>2. \/ 2 <= Len(stack) /\ ~IsCode(2) /\ SameLoop(stack[2], stack'[2])
        \/ 2 = Len(stack) + 1 /\ 2 = Len(stack') /\ stack'[Len(stack')].k # "code"
    BY <2>1, FramePairs
  <2>3. 2 = Len(stack) + 1 => Len(stack) = 1
    BY <1>u
  <2>4. 2 <= Len(stack) => Len(stack) >= 2
    BY <1>t
  <2>5. 2 = Len(stack) + 1 /\ 2 = Len(stack') => Len(stack') = Len(stack) + 1
    OBVIOUS
  <2>. QED  BY <2>2, <2>3, <2>4, <2>5 DEF Entered
<1>5. ASSUME blocks'[Main] # <<>>, Len(stack') >= 2
      PROVE  stack'[2].k = "join"
  <2>1. blocks[Main] # <<>>
    BY <1>t, <1>5, FewerInside
  <2>2. CASE Len(stack) >= 2 /\ SameLoop(stack[2], stack'[2])
    BY <1>0, <2>1, <2>2 DEF Flat, SameLoop
  <2>3. CASE Len(stack) = 1 /\ Entered /\ Len(stack') = 2
    BY <1>0, <2>1, <2>3 DEF EntersWell
  <2>. QED  BY <1>4, <1>5, <2>2, <2>3
<1>6. ASSUME Len(stack') = 1
      PROVE  \A x \in Bodies : blocks'[x] = <<>>
  <2>1. CASE Len(stack) # 1
    BY <1>0, <1>6, <2>1 DEF EmptiesWell
  <2>2. CASE Len(stack) = 1
    BY <1>0, <1>t, <2>2, FewerInside DEF Flat
  <2>. QED  BY <2>1, <2>2
<1>7. ASSUME NEW x \in Bodies, handle'[x] = Nowhere, blocks'[x] # <<>>
      PROVE  Len(stack') >= 2 /\ stack'[2].k = "await" /\ stack'[2].t = x
  <2>1. x \in Coroutines /\ blocks[x] # <<>> /\ DOMAIN blocks[x] # {}
    BY <1>t, <1>7, FewerInside
  <2>2. x <= made
    BY <2>1 DEF Lineage
  <2>3. Bare(x)
    BY <1>7, <2>2 DEF DataStep, HandleStep, Bare
  <2>4. Len(stack) >= 2 /\ stack[2].k = "await" /\ stack[2].t = x
    BY <1>0, <2>1, <2>3 DEF Flat
  <2>5. Len(stack') >= 2
    <3>1. Len(stack') # 1
      BY <1>6, <1>7
    <3>2. \A n \in Nat \ {0} : n # 1 => n >= 2
      OBVIOUS
    <3>3. Len(stack') \in Nat \ {0}
      BY <1>t
    <3>. QED  BY <3>1, <3>2, <3>3, Zenon
  <2>6. SameLoop(stack[2], stack'[2])
    BY <1>4, <1>t, <2>4, <2>5
  <2>. QED  BY <2>4, <2>5, <2>6 DEF SameLoop
<1>. QED  BY <1>1, <1>2, <1>3, <1>5, <1>6, <1>7

\* What ends a body, marks it or pushes it.
EndsWell(t) == blocks'[t] = <<>> /\ t <= made' /\ ~OnStack(t)' /\ ~DrivenBare(t)'
TaskStep ==
  \A t \in Bodies : /\ Over(t) => Over(t)'
                    /\ Over(t)' => Over(t) \/ EndsWell(t)
                    /\ task'[t].result \in {0, t}
                    /\ task'[t].polling => OnStack(t)' /\ ~Bare(t)'
                    /\ OnStack(t)' /\ ~OnStack(t) => ~Over(t)

LEMMA FinishedKept ==
  ASSUME IInv, IInv', DataStep, StackStep, Finished, Fewer, TaskStep
  PROVE  Finished'
<1>t. made \in Nat /\ made' \in Nat /\ made' >= made /\ Bodies \subseteq Coroutines
      /\ \A t \in Bodies : t \in Nat
  <2>1. made' \in {made, made + 1}
    BY DEF DataStep, HandleStep
  <2>. QED  BY <2>1, Types, BodyTypes
<1>1. ASSUME NEW t \in Bodies, Over(t)
      PROVE  EndsWell(t)
  <2>1. blocks[t] = <<>> /\ t <= made /\ ~OnStack(t) /\ ~DrivenBare(t)
    BY <1>1 DEF Finished
  <2>2. blocks'[t] = <<>> /\ t <= made'
    BY <1>t, <2>1, FewerInside
  <2>3. ~OnStack(t)'
    BY <1>1, <2>1 DEF TaskStep
  <2>4. ASSUME NEW k \in 1..Len(stack'), stack'[k].k = "await", stack'[k].t = t, handle'[t] = Nowhere
        PROVE  FALSE
    <3>1. \/ k <= Len(stack) /\ stack[k].k = "await" /\ stack[k].t = stack'[k].t
          \/ stack'[k].t > made
      BY <2>4, LoopStep
    <3>2. ~(t > made)
      BY <1>t, <2>1
    <3>3. k <= Len(stack) /\ stack[k].k = "await" /\ stack[k].t = t
      BY <2>4, <3>1, <3>2
    <3>4. k \in 1..Len(stack)
      BY <3>3, Frames, NextFrames
    <3>5. Bare(t)
      BY <2>1, <2>4 DEF DataStep, HandleStep, Bare
    <3>. QED  BY <2>1, <3>3, <3>4, <3>5 DEF DrivenBare
  <2>5. ~DrivenBare(t)'
    BY <2>4 DEF DrivenBare, Bare
  <2>. QED  BY <2>2, <2>3, <2>5 DEF EndsWell
<1>2. ASSUME NEW t \in Bodies
      PROVE  /\ Over(t)' => EndsWell(t)
             /\ task'[t].result \in {0, t}
             /\ task'[t].polling => OnStack(t)' /\ ~Bare(t)'
  BY <1>1 DEF TaskStep
<1>. QED  BY <1>2 DEF Finished, EndsWell

\* Nothing but the stack decides about the marks when no record changes.
LEMMA TaskStill ==
  ASSUME IInv, IInv', DataStep, StackStep, Finished, task' = task,
         \A t \in Bodies : OnStack(t) => OnStack(t)',
         \A t \in Bodies : OnStack(t)' /\ ~OnStack(t) => ~Over(t)
  PROVE  TaskStep
<1>1. \A t \in Bodies : Over(t)' <=> Over(t)
  BY DEF Over, Done
<1>2. ASSUME NEW t \in Bodies, task[t].polling
      PROVE  OnStack(t)' /\ ~Bare(t)'
  <2>1. OnStack(t) /\ ~Bare(t)
    BY <1>2 DEF Finished
  <2>2. t <= made
    BY <2>1, BodyTypes, Types DEF IInv, Started
  <2>. QED  BY <2>1, <2>2 DEF DataStep, HandleStep, Bare
<1>. QED  BY <1>1, <1>2 DEF TaskStep, Finished

LEMMA JoinsOwnKept ==
  ASSUME IInv, IInv', DataStep, Lineage, JoinsOwn, TaskStep, left' = left,
         made' = made + 1 => from'[made + 1] \notin left
  PROVE  JoinsOwn'
<1>1. SUFFICES ASSUME NEW t \in 1..made', from'[t] \in left
               PROVE  Over(t)'
  BY DEF JoinsOwn
<1>2. made \in Nat /\ made' \in {made, made + 1}
  BY Types DEF DataStep, HandleStep
<1>3. t \in 1..made
  <2>1. t \in 1..made \/ (made' = made + 1 /\ t = made + 1)
    BY <1>2
  <2>. QED  BY <1>1, <2>1
<1>4. t \in Bodies /\ t <= made
  BY <1>2, <1>3, BodyTypes
<1>5. from[t] \in left
  BY <1>1, <1>4 DEF DataStep, HandleStep
<1>6. Over(t)
  BY <1>3, <1>5 DEF JoinsOwn
<1>. QED  BY <1>4, <1>6 DEF TaskStep

--------------------------------------------------------------------------------
(* Steps that leave the scope table alone.                                  *)

LEMMA FreshStill ==
  ASSUME NoneFresh
  PROVE  FreshOnTop'
<1>. QED  BY DEF NoneFresh, FreshOnTop

LEMMA Combine ==
  ASSUME IInv, IInv', DataStep, StackStep, JInv, TableSame, EntersWell, EmptiesWell, StaysOn,
         PollsWell, TaskStep, FreshOnTop', style' = style, mode' # "panic"
  PROVE  JInv'
<1>0. BlocksSame /\ Fewer /\ left' = left /\ from' = from
  BY DEF TableSame, BlocksSame
<1>1. Lineage' /\ Slotted' /\ Placed'
  BY TableKept DEF JInv, DataStep, TypesStep
<1>2. Finished'
  BY <1>0, FinishedKept DEF JInv
<1>3. Standing'
  BY StandingKept DEF JInv
<1>4. JoinsLast'
  BY <1>0, JoinsLastKept DEF JInv
<1>5. Nested'
  BY <1>0, NestedKept DEF JInv
<1>6. Flat'
  BY <1>0, FlatKept DEF JInv
<1>7. made' = made + 1 => from'[made + 1] \notin left
  <2>1. ASSUME made' = made + 1
        PROVE  from[made + 1] = 0
    <3>1. made + 1 \in Bodies /\ made + 1 > made
      BY <2>1, Types DEF IInv, Base, Bodies
    <3>. QED  BY <3>1, BodyTypes
  <2>2. 0 \notin left
    BY Types DEF JInv, Lineage
  <2>. QED  BY <1>0, <2>1, <2>2
<1>8. JoinsOwn'
  BY <1>0, <1>7, JoinsOwnKept DEF JInv
<1>9. Calm'
  BY DEF JInv, Calm
<1>. QED  BY <1>1, <1>2, <1>3, <1>4, <1>5, <1>6, <1>8, <1>9 DEF JInv

\* The same code is on the stack after the step.
SameCode == \A x \in Coroutines : OnStack(x)' <=> OnStack(x)

LEMMA SameCodeFacts ==
  ASSUME IInv, IInv', DataStep, StackStep, Finished, SameCode
  PROVE  PollsWell /\ (task' = task => TaskStep)
<1>1. \A t \in Bodies : OnStack(t)' <=> OnStack(t)
  BY Types DEF SameCode
<1>2. task' = task => TaskStep
  BY <1>1, TaskStill
<1>3. ~ComesOn
  <2>1. ASSUME NEW u \in 1..made, stack'[Len(stack')] = Code(u),
               \A i \in 1..Len(stack) : stack[i] # Code(u)
        PROVE  FALSE
    <3>1. u \in Bodies /\ Len(stack') \in 1..Len(stack')
      BY BodyTypes, NextFrames
    <3>2. OnStack(u)' /\ ~OnStack(u)
      BY <2>1, <3>1 DEF OnStack
    <3>. QED  BY <1>1, <3>1, <3>2
  <2>. QED  BY <2>1 DEF ComesOn
<1>. QED  BY <1>2, <1>3 DEF PollsWell

LEMMA StaysCode ==
  ASSUME IInv, stack' = stack
  PROVE  SameCode /\ EntersWell /\ EmptiesWell
<1>1. Len(stack') # Len(stack) + 1
  <2>1. Len(stack) \in Nat /\ Len(stack') = Len(stack)
    BY Frames
  <2>2. \A n \in Nat : n # n + 1
    OBVIOUS
  <2>. QED  BY <2>1, <2>2, Zenon
<1>2. ~Entered
  BY <1>1 DEF Entered
<1>. QED  BY <1>2 DEF SameCode, OnStack, EntersWell, EmptiesWell

LEMMA EntersCode ==
  ASSUME IInv, NEW f \in LoopFrames, stack' = Append(stack, f)
  PROVE  /\ SameCode /\ EmptiesWell /\ Len(stack') = Len(stack) + 1 /\ stack'[Len(stack')] = f
         /\ stack'[Len(stack')].k # "code"
<1>1. stack \in Seq(CodeFrames \union LoopFrames) /\ Len(stack) \in Nat \ {0}
  BY Frames DEF IInv, Base
<1>2. /\ Len(stack') = Len(stack) + 1 /\ stack'[Len(stack) + 1] = f
      /\ \A i \in 1..Len(stack) : stack'[i] = stack[i]
  BY <1>1
<1>3. f.k # "code"
  BY DEF LoopFrames
<1>4. ASSUME NEW x \in Coroutines
      PROVE  OnStack(x)' <=> OnStack(x)
  <2>1. \A k \in 1..(Len(stack) + 1) : k \in 1..Len(stack) \/ k = Len(stack) + 1
    BY <1>1
  <2>2. \A k \in 1..Len(stack) : k \in 1..(Len(stack) + 1)
    BY <1>1
  <2>3. f # Code(x)
    BY <1>3 DEF Code
  <2>. QED  BY <1>2, <2>1, <2>2, <2>3 DEF OnStack
<1>5. EmptiesWell
  BY <1>1, <1>2 DEF EmptiesWell
<1>. QED  BY <1>2, <1>3, <1>4, <1>5 DEF SameCode

\* Everything below the loop on top stays; the loop goes or turns.
LEMMA LeavesCode ==
  ASSUME IInv, Looping, Pop
  PROVE  SameCode /\ EntersWell /\ Len(stack') = Len(stack) - 1
         /\ stack'[Len(stack) - 1] = Code(Driver) /\ Driver \in Coroutines
<1>. DEFINE n == Len(stack)
<1>1. stack \in Seq(CodeFrames \union LoopFrames) /\ n \in Nat /\ n >= 2 /\ n - 1 \in 1..n
      /\ ~IsCode(n) /\ stack[n - 1] = Code(Driver) /\ Driver \in Coroutines
  <2>1. stack \in Seq(CodeFrames \union LoopFrames) /\ n \in Nat
    BY Frames DEF IInv, Base
  <2>2. n - 1 \in 1..n /\ IsCode(n - 1) /\ Driver = stack[n - 1].x
    BY LoopOnTop
  <2>3. stack[n - 1] = Code(Driver)
    BY <2>2, Frames
  <2>. QED  BY <2>1, <2>3, LoopOnTop
<1>2. stack' = SubSeq(stack, 1, n - 1)
  BY DEF Pop, Front
<1>. HIDE DEF n
<1>3. Len(stack') = n - 1 /\ \A i \in 1..(n - 1) : stack'[i] = stack[i]
  <2>1. n - 1 \in 0..Len(stack)
    BY <1>1 DEF n
  <2>. QED  BY <1>1, <1>2, <2>1, Cut
<1>4. ASSUME NEW x \in Coroutines
      PROVE  OnStack(x)' <=> OnStack(x)
  <2>1. \A k \in 1..n : k \in 1..(n - 1) \/ k = n
    BY <1>1
  <2>2. \A k \in 1..(n - 1) : k \in 1..n
    BY <1>1
  <2>3. stack[n] # Code(x)
    BY <1>1 DEF IsCode, Code
  <2>. QED  BY <1>3, <2>1, <2>2, <2>3 DEF OnStack, n
<1>5. ~Entered
  BY <1>1, <1>3 DEF Entered, n
<1>6. stack'[n - 1] = Code(Driver)
  <2>1. n - 1 \in 1..(n - 1)
    BY <1>1
  <2>. QED  BY <1>1, <1>3, <2>1
<1>. QED  BY <1>1, <1>3, <1>4, <1>5, <1>6 DEF SameCode, EntersWell, n

LEMMA TurnsCode ==
  ASSUME IInv, Looping, NEW g \in LoopFrames, SetLoop(g)
  PROVE  SameCode /\ EntersWell /\ EmptiesWell
<1>. DEFINE n == Len(stack)
<1>1. stack \in Seq(CodeFrames \union LoopFrames) /\ n \in Nat /\ n >= 2 /\ ~IsCode(n)
  BY Frames, LoopOnTop DEF IInv, Base
<1>2. stack' = Append(SubSeq(stack, 1, n - 1), g)
  BY DEF SetLoop, Front
<1>. HIDE DEF n
<1>3. Len(stack') = n /\ stack'[n] = g /\ \A i \in 1..(n - 1) : stack'[i] = stack[i]
  <2>1. n - 1 \in 0..Len(stack)
    BY <1>1 DEF n
  <2>2. /\ SubSeq(stack, 1, n - 1) \in Seq(CodeFrames \union LoopFrames)
        /\ Len(SubSeq(stack, 1, n - 1)) = n - 1
        /\ \A i \in 1..(n - 1) : SubSeq(stack, 1, n - 1)[i] = stack[i]
    BY <1>1, <2>1, Cut
  <2>. DEFINE s == SubSeq(stack, 1, n - 1)
  <2>3. s \in Seq(CodeFrames \union LoopFrames) /\ Len(s) = n - 1 /\ stack' = Append(s, g)
        /\ \A i \in 1..(n - 1) : s[i] = stack[i]
    BY <1>2, <2>2
  <2>. HIDE DEF s
  <2>4. /\ Len(Append(s, g)) = Len(s) + 1 /\ Append(s, g)[Len(s) + 1] = g
        /\ \A i \in 1..Len(s) : Append(s, g)[i] = s[i]
    BY <2>3, OnTop
  <2>5. (n - 1) + 1 = n
    BY <1>1
  <2>. QED  BY <2>3, <2>4, <2>5
<1>4. ASSUME NEW x \in Coroutines
      PROVE  OnStack(x)' <=> OnStack(x)
  <2>1. \A k \in 1..n : k \in 1..(n - 1) \/ k = n
    BY <1>1
  <2>2. \A k \in 1..(n - 1) : k \in 1..n
    BY <1>1
  <2>3. stack[n] # Code(x) /\ g # Code(x)
    BY <1>1 DEF IsCode, Code, LoopFrames
  <2>. QED  BY <1>3, <2>1, <2>2, <2>3 DEF OnStack, n
<1>5. ~Entered /\ EmptiesWell
  BY <1>1, <1>3 DEF Entered, EmptiesWell, n
<1>. QED  BY <1>4, <1>5 DEF SameCode, EntersWell

\* With blocks of async fns: while a body is inside a block, so is a future that
\* the top level drives, or the top level joins a block with a task that is not
\* over.
LEMMA Anchor ==
  ASSUME IInv, JInv, style = "split", Len(stack) >= 2, NEW y \in Bodies, blocks[y] # <<>>
  PROVE  \/ stack[2].k = "await" /\ stack[2].t \in Bodies /\ Bare(stack[2].t)
              /\ blocks[stack[2].t] # <<>>
         \/ /\ stack[2].k = "join" /\ Inside(Main)
            /\ \E z \in 1..made : from[z] = Block(Main).id /\ ~Over(z)
<1>. DEFINE S == {x \in Bodies : blocks[x] # <<>>}
<1>1. S \in SUBSET Nat /\ S # {}
  BY BodyTypes
<1>2. PICK z \in S : \A x \in S : z <= x
  BY <1>1, LeastNat
<1>3. z \in Bodies /\ blocks[z] # <<>> /\ z \in Nat \ {0}
  BY BodyTypes
<1>4. CASE Bare(z)
  BY <1>3, <1>4 DEF JInv, Flat
<1>5. CASE ~Bare(z)
  <2>1. z \in Coroutines /\ DOMAIN blocks[z] # {}
    <3>1. z \in Coroutines
      BY <1>3, Types
    <3>2. Len(blocks[z]) \in Nat /\ DOMAIN blocks[z] = 1..Len(blocks[z]) /\ Len(blocks[z]) # 0
      BY <1>3, <3>1, BlockTypes
    <3>3. 1 \in DOMAIN blocks[z]
      BY <3>2
    <3>. QED  BY <3>1, <3>3
  <2>2. z \in 1..made
    <3>1. z <= made /\ made \in Nat
      BY <2>1, Types DEF JInv, Lineage
    <3>. QED  BY <1>3, <3>1
  <2>3. ~Over(z) /\ from[z] # 0
    BY <1>3, <1>5 DEF JInv, Finished, Placed
  <2>4. from[z] \notin left
    BY <2>2, <2>3 DEF JInv, JoinsOwn
  <2>5. PICK x \in 0..(z - 1) : \E i \in DOMAIN blocks[x] : blocks[x][i].id = from[z]
    BY <2>2, <2>3, <2>4 DEF JInv, Lineage
  <2>6. PICK i \in DOMAIN blocks[x] : blocks[x][i].id = from[z]
    BY <2>5
  <2>7. x \in Coroutines /\ x \in Nat /\ x < z /\ blocks[x] # <<>>
    <3>1. x \in Coroutines /\ x \in Nat /\ x < z
      BY <1>3, Types
    <3>. QED  BY <2>6, <3>1, BlockTypes
  <2>8. x = Main
    <3>1. x \notin S
      BY <1>2, <1>3, <2>7
    <3>2. x \notin Bodies
      BY <2>7, <3>1
    <3>. QED  BY <2>7, <3>2, Types
  <2>9. Inside(Main) /\ Len(blocks[Main]) <= 1
    BY <2>7, <2>8 DEF Inside, JInv, Flat
  <2>10. Block(Main).id = from[z]
    <3>1. Block(Main) = blocks[Main][Len(blocks[Main])] /\ Len(blocks[Main]) \in Nat \ {0}
          /\ DOMAIN blocks[Main] = 1..Len(blocks[Main])
      BY <2>7, <2>8, <2>9, LastBlock, BlockTypes
    <3>2. i = Len(blocks[Main])
      BY <2>6, <2>8, <2>9, <3>1
    <3>. QED  BY <2>6, <2>8, <3>1, <3>2
  <2>11. stack[2].k = "join"
    BY <2>9 DEF Inside, JInv, Flat
  <2>. QED  BY <2>2, <2>3, <2>9, <2>10, <2>11
<1>. QED  BY <1>4, <1>5

\* When no body is inside a block, that of the top level is the innermost.
LEMMA InnermostMain ==
  ASSUME IInv, Slotted, Inside(Main), Len(blocks[Main]) <= 1, \A y \in Bodies : blocks[y] = <<>>
  PROVE  innermost_open = Block(Main).si
<1>1. Main \in Coroutines /\ \A y \in Coroutines : y = Main \/ y \in Bodies
  BY Types
<1>2. Block(Main) = blocks[Main][Len(blocks[Main])] /\ Len(blocks[Main]) \in Nat \ {0}
      /\ DOMAIN blocks[Main] = 1..Len(blocks[Main])
  BY <1>1, LastBlock, BlockTypes
<1>3. ASSUME NEW y \in Coroutines, NEW j \in DOMAIN blocks[y]
      PROVE  ~(blocks[y][j].si > Block(Main).si)
  <2>1. blocks[y] # <<>>
    BY BlockTypes
  <2>2. y = Main /\ j = Len(blocks[Main])
    <3>1. y = Main
      BY <1>1, <2>1
    <3>. QED  BY <1>2, <3>1
  <2>3. Block(Main).si \in Nat
    BY <1>1, <1>2, <2>2, BlockTypes
  <2>. QED  BY <1>2, <2>2, <2>3
<1>. QED  BY <1>1, <1>3, InnermostIs

Context ==
  Careful /\ IInv /\ IInv' /\ DataStep /\ StackStep /\ JInv
Kept == style' = style /\ mode' # "panic"
WaitsWell == style = "sync" => \A x \in Coroutines : blocks[x] # <<>> => wait'[x] = Awake

LEMMA StaysOnBy ==
  ASSUME Context, TableSame, SameCode, WaitsWell
  PROVE  StaysOn
<1>1. SUFFICES ASSUME style = "sync", NEW x \in Coroutines, blocks'[x] # <<>>
               PROVE  OnStack(x)' /\ wait'[x] = Awake
  BY DEF StaysOn
<1>2. blocks[x] # <<>>
  BY <1>1, SameInside DEF Context, TableSame
<1>. QED  BY <1>1, <1>2 DEF Context, JInv, Nested, SameCode, WaitsWell

LEMMA StillKeeps ==
  ASSUME Context, TableSame, Kept, stack' = stack, task' = task, WaitsWell, FreshOnTop'
  PROVE  JInv'
<1>1. SameCode /\ EntersWell /\ EmptiesWell
  BY StaysCode DEF Context
<1>2. PollsWell /\ TaskStep
  BY <1>1, SameCodeFacts DEF Context, JInv
<1>3. StaysOn
  BY <1>1, StaysOnBy
<1>. QED  BY <1>1, <1>2, <1>3, Combine DEF Context, Kept

LEMMA EnterKeeps ==
  ASSUME Context, TableSame, Kept, NEW x \in Coroutines, Running(x), NEW f \in LoopFrames,
         stack' = Append(stack, f), task' = task, WaitsWell, NoneFresh,
         f.k = "join" => Inside(x) /\ ~Block(x).split /\ f.si = Block(x).si,
         style = "split" => IF x = Main THEN Inside(Main) => f.k = "join" ELSE f.k = "join_task"
  PROVE  JInv'
<1>0. stack[Len(stack)] = Code(x) /\ stack[Len(stack)].x = x
      /\ (x # Main => Len(stack) >= 3) /\ Len(stack) \in Nat \ {0}
  BY CodeOnTop, Frames DEF Context
<1>1. /\ SameCode /\ EmptiesWell /\ Len(stack') = Len(stack) + 1 /\ stack'[Len(stack')] = f
      /\ stack'[Len(stack')].k # "code"
  BY EntersCode DEF Context
<1>2. PollsWell /\ TaskStep
  BY <1>1, SameCodeFacts DEF Context, JInv
<1>3. StaysOn
  BY <1>1, StaysOnBy
<1>4. Len(stack) >= 2 => x # Main
  <2>1. ASSUME Len(stack) >= 2, x = Main
        PROVE  FALSE
    <3>1. stack[1] = Code(Main) /\ 1 \in DOMAIN stack /\ Len(stack) \in DOMAIN stack
      BY <1>0, Frames DEF Context, IInv, Alternates
    <3>2. stack[1].k = "code" /\ stack[1] = stack[Len(stack)]
      BY <1>0, <2>1, <3>1 DEF Code
    <3>3. Len(stack) = 1
      BY <3>1, <3>2 DEF Context, IInv, NotReentered
    <3>. QED  BY <2>1, <3>3
  <2>. QED  BY <2>1
<1>5. Len(stack) = 1 => x = Main
  BY <1>0
<1>6. EntersWell
  <2>1. ASSUME style = "split"
        PROVE  /\ Len(stack) >= 2 => f.k = "join_task"
               /\ Len(stack) = 1 /\ blocks[Main] # <<>> => f.k = "join"
    BY <1>4, <1>5, <2>1 DEF Inside
  <2>. QED  BY <1>0, <1>1, <2>1 DEF EntersWell
<1>7. FreshOnTop'
  BY FreshStill
<1>. QED  BY <1>1, <1>2, <1>3, <1>6, <1>7, Combine DEF Context, Kept

LEMMA LoopFresh ==
  ASSUME Context, Looping, Fewer
  PROVE  NoneFresh /\ FreshOnTop'
<1>1. ~IsCode(Len(stack))
  BY LoopOnTop DEF Context
<1>2. NoneFresh
  BY <1>1, StaleBlocks DEF Context, JInv
<1>. QED  BY <1>2, FreshStill

LEMMA TurnKeeps ==
  ASSUME Context, TableSame, Kept, Looping, NEW g \in LoopFrames, SetLoop(g),
         task' = task, wait' = wait
  PROVE  JInv'
<1>1. SameCode /\ EntersWell /\ EmptiesWell
  BY TurnsCode DEF Context
<1>2. PollsWell /\ TaskStep
  BY <1>1, SameCodeFacts DEF Context, JInv
<1>3. WaitsWell
  BY DEF Context, JInv, Nested, WaitsWell
<1>4. StaysOn
  BY <1>1, <1>3, StaysOnBy
<1>5. FreshOnTop'
  BY LoopFresh DEF TableSame, BlocksSame
<1>. QED  BY <1>1, <1>2, <1>4, <1>5, Combine DEF Context, Kept

\* A drive that ends lets the top level go on only when no body is inside a
\* block: neither its target, nor any other.
LEMMA LeaveKeeps ==
  ASSUME Context, TableSame, Kept, Looping, Pop, task' = task, wait' = wait,
         Loop.k # "join", Loop.k = "await" => ~Bare(Loop.t)
  PROVE  JInv'
<1>1. SameCode /\ EntersWell /\ Len(stack') = Len(stack) - 1
  BY LeavesCode DEF Context
<1>2. PollsWell /\ TaskStep
  BY <1>1, SameCodeFacts DEF Context, JInv
<1>3. WaitsWell
  BY DEF Context, JInv, Nested, WaitsWell
<1>4. StaysOn
  BY <1>1, <1>3, StaysOnBy
<1>5. FreshOnTop'
  BY LoopFresh DEF TableSame, BlocksSame
<1>6. EmptiesWell
  <2>1. SUFFICES ASSUME style = "split", Len(stack') = 1, NEW y \in Bodies, blocks'[y] # <<>>
                 PROVE  FALSE
    BY DEF EmptiesWell
  <2>2. Len(stack) = 2 /\ Len(stack) >= 2
    <3>1. Len(stack) \in Nat /\ Len(stack) - 1 = 1
      BY <1>1, <2>1, Frames DEF Context
    <3>2. \A n \in Nat : n - 1 = 1 => n = 2 /\ n >= 2
      OBVIOUS
    <3>. QED  BY <3>1, <3>2, Zenon
  <2>3. Loop = stack[2]
    BY <2>2, LoopOnTop DEF Context
  <2>4. blocks[y] # <<>>
    BY <2>1, SameInside, Types DEF Context, TableSame
  <2>. QED  BY <2>1, <2>2, <2>3, <2>4, Anchor DEF Context
<1>. QED  BY <1>1, <1>2, <1>4, <1>5, <1>6, Combine DEF Context, Kept

--------------------------------------------------------------------------------
(* Awaits and the ends of blocks.                                           *)

LEMMA KindOfBlock ==
  ASSUME IInv, JInv, NEW x \in Coroutines
  PROVE  /\ style = "sync" /\ Inside(x) => Sync(x) /\ ~Block(x).split
         /\ style = "split" /\ Inside(x) => (x = Main <=> ~Block(x).split)
         /\ style = "split" /\ Sync(x) => x = Main
         /\ style \in {"sync", "split"}
<1>1. ASSUME Inside(x)
      PROVE  /\ style = "sync" => ~Block(x).split
             /\ style = "split" => (x = Main <=> ~Block(x).split)
  <2>1. Len(blocks[x]) \in DOMAIN blocks[x] /\ Block(x) = blocks[x][Len(blocks[x])]
    BY <1>1, LastBlock
  <2>2. style = "sync" => ~Block(x).split
    BY <2>1 DEF JInv, Nested
  <2>3. x = Main => ~Block(x).split
    BY <2>1 DEF IInv, Alternates
  <2>4. style = "split" /\ x # Main => Block(x).split
    <3>1. x # Main => x \in Bodies
      BY Types
    <3>. QED  BY <2>1, <3>1 DEF JInv, Flat
  <2>. QED  BY <2>2, <2>3, <2>4
<1>. QED  BY <1>1 DEF Sync, JInv, Calm

LEMMA MainAlone ==
  ASSUME IInv, Running(Main)
  PROVE  Len(stack) = 1
<1>1. Main \in Coroutines /\ Len(stack) \in Nat \ {0} /\ DOMAIN stack = 1..Len(stack)
  BY Types, Frames
<1>2. stack[Len(stack)] = Code(Main) /\ stack[1] = Code(Main)
  BY <1>1, CodeOnTop DEF IInv, Alternates
<1>3. 1 \in DOMAIN stack /\ Len(stack) \in DOMAIN stack /\ stack[1].k = "code"
  BY <1>1, <1>2 DEF Code
<1>. QED  BY <1>2, <1>3 DEF IInv, NotReentered

LEMMA FrameTypes ==
  ASSUME IInv
  PROVE  /\ \A t \in Coroutines : \A how \in {"await", "join_task", "sleep"} :
              Drive(t, how) \in LoopFrames /\ Drive(t, how).k = how
         /\ \A si \in Nat : Join(si) \in LoopFrames /\ Join(si).k = "join" /\ Join(si).si = si
<1>1. Nowhere \in Places /\ Main \in Coroutines /\ 0 \in Nat /\ FALSE \in BOOLEAN
  BY Types DEF Nowhere, Places
<1>. QED  BY <1>1 DEF Drive, Join, LoopFrames

LEMMA AgedTable ==
  ASSUME Context, NEW x \in Coroutines, Running(x), blocks' = Aged(x),
         UNCHANGED <<scopes, closed, handle, from, opened, left>>, made' \in {made, made + 1}
  PROVE  TableSame /\ NoneFresh /\ FreshOnTop'
<1>1. BlocksSame /\ \A i \in DOMAIN blocks'[x] : ~blocks'[x][i].fresh
  BY AgedBlocks DEF Context
<1>2. TableSame
  BY <1>1 DEF TableSame
<1>3. stack[Len(stack)] = Code(x)
  BY CodeOnTop DEF Context
<1>4. NoneFresh
  BY <1>1, <1>3, StaleBlocks DEF Context, JInv, BlocksSame
<1>. QED  BY <1>2, <1>4, FreshStill

\* Only a body outside every synchronous block parks itself.
LEMMA WaitsBy ==
  ASSUME Context, NEW x \in Coroutines, ~Sync(x),
         \A y \in Coroutines \ {x} : wait'[y] = wait[y]
  PROVE  WaitsWell
<1>1. style = "sync" => ~Inside(x)
  BY KindOfBlock DEF Context
<1>. QED  BY <1>1 DEF WaitsWell, Inside, Context, JInv, Nested

LEMMA WaitsStill ==
  ASSUME Context, wait' = wait
  PROVE  WaitsWell
<1>. QED  BY DEF Context, JInv, Nested, WaitsWell

LEMMA NapKeeps ==
  ASSUME Context, NEW x \in Coroutines, Nap(x)
  PROVE  JInv'
<1>0. Careful /\ IInv /\ JInv
  BY DEF Context
<1>1. /\ Running(x) /\ blocks' = Aged(x) /\ task' = task /\ mode = "running"
      /\ UNCHANGED <<scopes, closed, handle, from, opened, left, made>> /\ Kept
  BY DEF Nap, InCode, Running, Push, ghost, Kept
<1>2. TableSame /\ NoneFresh /\ FreshOnTop'
  BY <1>1, AgedTable
<1>3. CASE Sync(x)
  <2>. DEFINE f == Drive(Main, "sleep")
  <2>1. stack' = Append(stack, f) /\ wait' = wait /\ MayDrive
    BY <1>3 DEF Nap, Push
  <2>2. f \in LoopFrames /\ f.k = "sleep"
    BY <1>0, FrameTypes, Types
  <2>3. style = "split" => x = Main /\ ~Inside(Main)
    BY <1>0, <1>3, <2>1, KindOfBlock DEF MayDrive, Uniform, Careful
  <2>4. WaitsWell
    BY <2>1, WaitsStill
  <2>. HIDE DEF f
  <2>. QED  BY <1>1, <1>2, <2>1, <2>2, <2>3, <2>4, EnterKeeps
<1>4. CASE ~Sync(x)
  <2>1. stack' = stack /\ wait' = [wait EXCEPT ![x] = AtTimer]
    BY <1>4 DEF Nap
  <2>2. WaitsWell
    <3>1. \A y \in Coroutines \ {x} : wait'[y] = wait[y]
      BY <1>0, <2>1 DEF IInv, Base
    <3>. QED  BY <1>4, <3>1, WaitsBy
  <2>. QED  BY <1>1, <1>2, <2>1, <2>2, StillKeeps
<1>. QED  BY <1>3, <1>4

LEMMA AwaitKeeps ==
  ASSUME Context, NEW x \in Coroutines, NEW t \in Named(x), NEW how \in {"await", "join_task"},
         Await(x, t, how)
  PROVE  JInv'
<1>0. Careful /\ IInv /\ JInv
  BY DEF Context
<1>1. /\ Running(x) /\ blocks' = Aged(x) /\ task' = task /\ mode = "running"
      /\ UNCHANGED <<scopes, closed, handle, from, opened, left, made>> /\ Kept
  BY DEF Await, InCode, Running, Push, ghost, sched, Kept
<1>2. TableSame /\ NoneFresh /\ FreshOnTop'
  BY <1>1, AgedTable
<1>3. CASE Sync(x) \/ how = "join_task"
  <2>. DEFINE f == Drive(t, how)
  <2>1. stack' = Append(stack, f) /\ wait' = wait /\ (Sync(x) => MayDrive)
    BY <1>3 DEF Await, Push
  <2>2. f \in LoopFrames /\ f.k = how
    <3>1. t \in Coroutines
      BY <1>0, BodyTypes, Types DEF Named
    <3>. QED  BY <1>0, <3>1, FrameTypes
  <2>3. style = "split" => IF x = Main THEN ~Inside(Main) ELSE how = "join_task"
    <3>1. x = Main => Sync(x)
      BY DEF Sync
    <3>. QED  BY <1>0, <1>3, <2>1, <3>1, KindOfBlock DEF MayDrive, Uniform, Careful
  <2>4. WaitsWell
    BY <2>1, WaitsStill
  <2>. HIDE DEF f
  <2>. QED  BY <1>1, <1>2, <2>1, <2>2, <2>3, <2>4, EnterKeeps
<1>4. CASE ~(Sync(x) \/ how = "join_task")
  <2>1. stack' = stack /\ wait' = [wait EXCEPT ![x] = t]
    BY <1>4 DEF Await
  <2>2. WaitsWell
    <3>1. \A y \in Coroutines \ {x} : wait'[y] = wait[y]
      BY <1>0, <2>1 DEF IInv, Base
    <3>. QED  BY <1>4, <3>1, WaitsBy
  <2>. QED  BY <1>1, <1>2, <2>1, <2>2, StillKeeps
<1>. QED  BY <1>3, <1>4

LEMMA AwaitBareKeeps ==
  ASSUME Context, NEW x \in Coroutines, AwaitBare(x)
  PROVE  JInv'
<1>0. Careful /\ IInv /\ JInv
  BY DEF Context
<1>1. /\ Running(x) /\ blocks' = Aged(x) /\ task' = task /\ mode = "running"
      /\ UNCHANGED <<scopes, closed, handle, from, opened, left>> /\ made' = made + 1 /\ Kept
      /\ wait' = wait /\ Sync(x) /\ MayDrive /\ made < MaxTasks
  BY DEF AwaitBare, InCode, Running, Push, sched, Kept
<1>2. TableSame /\ NoneFresh /\ FreshOnTop'
  BY <1>1, AgedTable
<1>. DEFINE f == Drive(made + 1, "await")
<1>3. stack' = Append(stack, f)
  BY DEF AwaitBare, Push
<1>4. f \in LoopFrames /\ f.k = "await"
  <2>1. made + 1 \in Coroutines
    BY <1>0, <1>1, Types
  <2>. QED  BY <1>0, <2>1, FrameTypes
<1>5. style = "split" => x = Main /\ ~Inside(Main)
  BY <1>0, <1>1, KindOfBlock DEF MayDrive, Uniform, Careful
<1>6. WaitsWell
  BY <1>1, WaitsStill
<1>. HIDE DEF f
<1>. QED  BY <1>1, <1>2, <1>3, <1>4, <1>5, <1>6, EnterKeeps

\* The end of a synchronous block joins the scope of that block.
LEMMA EndBlockKeeps ==
  ASSUME Context, NEW x \in Coroutines, EndBlock(x)
  PROVE  JInv'
<1>0. Careful /\ IInv /\ JInv /\ Slotted /\ Nested
  BY DEF Context, JInv
<1>1. /\ Running(x) /\ Inside(x) /\ blocks' = Aged(x) /\ task' = task /\ mode = "running"
      /\ UNCHANGED <<scopes, closed, handle, from, opened, left, made>> /\ Kept
  BY DEF EndBlock, InCode, Running, Push, ghost, sched, used, Kept
<1>2. TableSame /\ NoneFresh /\ FreshOnTop'
  BY <1>1, AgedTable
<1>k. /\ style = "sync" => Sync(x) /\ ~Block(x).split
      /\ style = "split" => (x = Main <=> ~Block(x).split)
      /\ style \in {"sync", "split"}
  BY <1>0, <1>1, KindOfBlock
<1>3. CASE Block(x).split
  <2>1. stack' = stack /\ wait' = [wait EXCEPT ![x] = AtJoin]
    BY <1>3 DEF EndBlock
  <2>2. style # "sync"
    BY <1>3, <1>k
  <2>3. WaitsWell
    BY <2>2 DEF WaitsWell
  <2>. QED  BY <1>1, <1>2, <2>1, <2>3, StillKeeps
<1>4. CASE ~Block(x).split
  <2>. DEFINE f == Join(innermost_open)
  <2>1. stack' = Append(stack, f) /\ wait' = wait
    BY <1>4 DEF EndBlock, Push
  <2>2. innermost_open = Block(x).si
    <3>1. CASE style = "sync"
      <4>1. Len(stack) \in 1..Len(stack) /\ stack[Len(stack)] = Code(x)
            /\ \A k \in (Len(stack) + 1)..Len(stack) : FALSE
        BY <1>0, <1>1, Frames, CodeOnTop
      <4>2. PICK c \in 1..Len(stack) : stack[c] = Code(x) /\ \A k \in (c + 1)..Len(stack) : ~IsCode(k)
        BY <4>1
      <4>. QED  BY <1>0, <1>1, <3>1, <4>2, InnermostNested
    <3>2. CASE style = "split"
      <4>1. x = Main
        BY <1>4, <1>k, <3>2
      <4>2. Len(stack) = 1
        BY <1>0, <1>1, <4>1, MainAlone
      <4>3. Len(blocks[Main]) <= 1 /\ \A y \in Bodies : blocks[y] = <<>>
        BY <1>0, <3>2, <4>2 DEF JInv, Flat
      <4>. QED  BY <1>0, <1>1, <4>1, <4>3, InnermostMain
    <3>. QED  BY <1>k, <3>1, <3>2
  <2>3. f \in LoopFrames /\ f.k = "join" /\ f.si = Block(x).si
    <3>1. innermost_open \in Nat
      <4>1. innermost_open \in 1..Len(scopes)
        BY <1>0, <1>1, OpenWhenInside
      <4>. QED  BY <4>1
    <3>. QED  BY <1>0, <2>2, <3>1, FrameTypes
  <2>4. style = "split" => x = Main
    BY <1>4, <1>k
  <2>5. WaitsWell
    BY <2>1, WaitsStill
  <2>. HIDE DEF f
  <2>. QED  BY <1>1, <1>2, <1>4, <2>1, <2>3, <2>4, <2>5, EnterKeeps
<1>. QED  BY <1>3, <1>4

--------------------------------------------------------------------------------
(* Resumptions, and the loops between two polls.                            *)

LEMMA StillTable ==
  ASSUME UNCHANGED <<scopes, closed, handle, from, opened, left, made, blocks>>
  PROVE  TableSame
<1>. QED  BY StillBlocks DEF TableSame

LEMMA FreshSame ==
  ASSUME Context, UNCHANGED <<blocks, wait, stack>>
  PROVE  FreshOnTop'
<1>. QED  BY DEF Context, JInv, FreshOnTop

LEMMA ResumeAwaitKeeps ==
  ASSUME Context, NEW x \in Coroutines, ResumeAwait(x)
  PROVE  JInv'
<1>1. /\ Running(x) /\ wait[x] # Awake /\ wait' = [wait EXCEPT ![x] = Awake]
      /\ UNCHANGED <<scopes, closed, handle, from, opened, left, made, blocks>>
      /\ stack' = stack /\ task' = task /\ Kept
  <2>1. wait[x] # Awake
    <3>1. \A t \in Bodies : t # 0
      BY BodyTypes DEF Context
    <3>. QED  BY <3>1 DEF ResumeAwait, AtTimer, Awake
  <2>. QED  BY <2>1 DEF ResumeAwait, Running, ghost, sched, used, Kept
<1>2. TableSame /\ Fewer
  BY <1>1, StillTable DEF TableSame, BlocksSame
<1>3. stack[Len(stack)] = Code(x)
  BY <1>1, CodeOnTop DEF Context
<1>4. FreshOnTop'
  BY <1>1, <1>2, <1>3, StaleBlocks, FreshStill DEF Context, JInv
<1>5. WaitsWell
  <2>1. \A y \in Coroutines : wait'[y] = Awake \/ wait'[y] = wait[y]
    BY <1>1 DEF Context, IInv, Base
  <2>. QED  BY <2>1 DEF WaitsWell, Context, JInv, Nested
<1>. QED  BY <1>1, <1>2, <1>4, <1>5, StillKeeps

LEMMA AbortKeeps ==
  ASSUME Context, mode' # "panic", style' = style,
         UNCHANGED <<scopes, closed, handle, from, opened, left, made, blocks, wait, stack, task>>
  PROVE  JInv'
<1>1. TableSame /\ Kept
  BY StillTable DEF Kept
<1>. QED  BY <1>1, FreshSame, WaitsStill, StillKeeps

LEMMA LoopStill ==
  ASSUME Context, Looping,
         UNCHANGED <<scopes, closed, handle, from, opened, left, made, blocks>>
  PROVE  TableSame /\ FreshOnTop'
<1>1. TableSame
  BY StillTable
<1>. QED  BY <1>1, LoopFresh DEF TableSame, BlocksSame

LEMMA LoopKinds ==
  ASSUME Context, Looping
  PROVE  Loop \in LoopFrames /\ Loop.k \in {"join", "sleep", "await", "join_task"}
<1>1. Loop \in LoopFrames
  BY LoopOnTop DEF Context
<1>. QED  BY <1>1 DEF LoopFrames

LEMMA DriveReadyKeeps ==
  ASSUME Context, DriveReady
  PROVE  JInv'
<1>1. /\ Looping /\ Pop /\ Ripe
      /\ UNCHANGED <<scopes, closed, handle, from, opened, left, made, blocks, wait, task>>
      /\ Kept
  BY DEF DriveReady, AtTop, Looping, Kept, sched, code, used, ghost
<1>2. Loop.k # "join" /\ (Loop.k = "await" => ~Bare(Loop.t))
  BY <1>1 DEF Ripe
<1>. QED  BY <1>1, <1>2, StillTable, LeaveKeeps

LEMMA DriveCancelledKeeps ==
  ASSUME Context, DriveCancelled
  PROVE  JInv'
<1>1. /\ Looping /\ GivesUp /\ style' = style
      /\ UNCHANGED <<scopes, closed, handle, from, opened, left, made, blocks, wait, task>>
  BY DEF DriveCancelled, AtTop, sched, code, used, ghost
<1>2. CASE Loop.k = "await"
  BY <1>1, <1>2, AbortKeeps DEF DriveCancelled
<1>3. CASE Loop.k # "await"
  <2>1. Pop /\ Loop.k # "join" /\ Kept
    BY <1>1, <1>3 DEF DriveCancelled, GivesUp, Kept, Looping
  <2>. QED  BY <1>1, <1>3, <2>1, StillTable, LeaveKeeps
<1>. QED  BY <1>2, <1>3

LEMMA BeginRoundKeeps ==
  ASSUME Context, BeginRound
  PROVE  JInv'
<1>. DEFINE g == [Loop EXCEPT !.at = <<1, 1>>, !.prog = FALSE]
<1>1. /\ Looping /\ SetLoop(g) /\ Kept
      /\ UNCHANGED <<scopes, closed, handle, from, opened, left, made, blocks, wait, task>>
  BY DEF BeginRound, AtTop, Looping, Kept, sched, code, used, ghost
<1>2. g \in LoopFrames
  BY <1>1, LoopKinds DEF LoopFrames, Places
<1>. HIDE DEF g
<1>. QED  BY <1>1, <1>2, StillTable, TurnKeeps

LEMMA RoundAgainKeeps ==
  ASSUME Context, RoundAgain
  PROVE  JInv'
<1>. DEFINE g == [Loop EXCEPT !.at = Nowhere]
<1>1. /\ Looping /\ style' = style /\ mode = "running"
      /\ UNCHANGED <<scopes, closed, handle, from, opened, left, made, blocks, wait, task>>
  BY DEF RoundAgain, RoundOver, Looping, code, used, ghost
<1>2. g \in LoopFrames
  BY <1>1, LoopKinds DEF LoopFrames, Places, Nowhere
<1>3. \/ SetLoop(g) /\ mode' = mode
      \/ stack' = stack /\ mode' = "E0010"
  BY DEF RoundAgain
<1>. HIDE DEF g
<1>4. CASE SetLoop(g) /\ mode' = mode
  BY <1>1, <1>2, <1>4, StillTable, TurnKeeps DEF Kept
<1>5. CASE stack' = stack /\ mode' = "E0010"
  BY <1>1, <1>5, AbortKeeps
<1>. QED  BY <1>3, <1>4, <1>5

--------------------------------------------------------------------------------
(* Polls.                                                                   *)

\* Code of a body that is not over comes on top of the loop that polls it.
LEMMA PolledKeeps ==
  ASSUME Context, Looping, NEW u \in 1..made, ~Over(u), Kept, wait' = wait,
         UNCHANGED <<scopes, closed, handle, from, opened, left, made, blocks>>,
         Len(stack') = Len(stack) + 1, stack'[Len(stack) + 1] = Code(u),
         \A i \in 1..(Len(stack) - 1) : stack'[i] = stack[i], stack'[Len(stack)] \in LoopFrames,
         stack'[Len(stack)].at # Nowhere => stack'[Len(stack)].at = handle[u],
         \A t \in Bodies : /\ Over(t)' <=> Over(t)
                           /\ task'[t].result = task[t].result
                           /\ task'[t].polling => task[t].polling \/ (t = u /\ ~Bare(u))
  PROVE  JInv'
<1>. DEFINE n == Len(stack)
<1>0. n \in Nat /\ n >= 2 /\ ~IsCode(n) /\ n + 1 \in 1..(n + 1) /\ (n + 1) - 1 = n
      /\ u \in Bodies /\ u \in Coroutines
  <2>1. n \in Nat /\ n >= 2 /\ ~IsCode(n)
    BY Frames, LoopOnTop DEF Context
  <2>2. u \in Bodies /\ u \in Coroutines
    BY BodyTypes, Types DEF Context
  <2>. QED  BY <2>1, <2>2
<1>n. Len(stack') = n + 1 /\ stack'[n + 1] = Code(u)
  OBVIOUS
<1>a. n = Len(stack)
  OBVIOUS
<1>. HIDE DEF n
<1>1. ASSUME NEW x \in Coroutines
      PROVE  OnStack(x)' <=> OnStack(x) \/ x = u
  <2>1. stack[n] # Code(x) /\ stack'[n] # Code(x)
    BY <1>0, <1>a DEF IsCode, Code, LoopFrames
  <2>2. /\ \A k \in 1..(n + 1) : k \in 1..(n - 1) \/ k = n \/ k = n + 1
        /\ \A k \in 1..n : k \in 1..(n - 1) \/ k = n
        /\ \A k \in 1..(n - 1) : k \in 1..n /\ k \in 1..(n + 1)
    BY <1>0
  <2>3. OnStack(x) <=> \E k \in 1..(n - 1) : stack[k] = Code(x)
    BY <1>a, <2>1, <2>2 DEF OnStack
  <2>4. OnStack(x)' <=> (\E k \in 1..(n - 1) : stack'[k] = Code(x)) \/ stack'[n + 1] = Code(x)
    BY <1>0, <1>n, <2>1, <2>2 DEF OnStack
  <2>5. Code(u) = Code(x) <=> x = u
    BY DEF Code
  <2>. QED  BY <1>a, <1>n, <2>3, <2>4, <2>5
<1>2. TableSame /\ FreshOnTop'
  BY LoopStill
<1>3. EntersWell /\ EmptiesWell
  <2>1. ~Entered
    BY <1>n DEF Entered, Code
  <2>2. Len(stack') # 1
    BY <1>0, <1>n
  <2>. QED  BY <2>1, <2>2 DEF EntersWell, EmptiesWell
<1>4. PollsWell
  <2>1. stack'[Len(stack') - 1] = stack'[n] /\ stack'[Len(stack')].x = u
    BY <1>0, <1>n DEF Code
  <2>. QED  BY <1>a, <2>1 DEF PollsWell
<1>5. StaysOn
  BY <1>1 DEF StaysOn, Context, JInv, Nested
<1>6. TaskStep
  <2>1. SUFFICES ASSUME NEW t \in Bodies
                 PROVE  /\ task'[t].result \in {0, t}
                        /\ task'[t].polling => OnStack(t)' /\ ~Bare(t)'
                        /\ OnStack(t)' /\ ~OnStack(t) => ~Over(t)
    BY DEF TaskStep
  <2>2. t \in Coroutines
    BY Types DEF Context
  <2>3. task[t].polling => OnStack(t) /\ ~Bare(t)
    BY DEF Context, JInv, Finished
  <2>4. task[t].result \in {0, t}
    BY DEF Context, JInv, Finished
  <2>. QED  BY <1>1, <2>2, <2>3, <2>4 DEF Bare
<1>. QED  BY <1>2, <1>3, <1>4, <1>5, <1>6, Combine DEF Context, Kept

LEMMA DriveBareKeeps ==
  ASSUME Context, DriveBare
  PROVE  JInv'
<1>1. /\ Looping /\ Loop.at = Nowhere /\ Loop.k = "await" /\ Bare(Loop.t) /\ Kept /\ task' = task
      /\ UNCHANGED <<scopes, closed, handle, from, opened, left, made, blocks>> /\ wait' = wait
      /\ stack' = Append(stack, Code(Loop.t))
  BY DEF DriveBare, AtTop, Looping, Kept, sched, code, used, ghost
<1>2. /\ Loop = stack[Len(stack)] /\ Loop \in LoopFrames /\ Loop.t <= made /\ Loop.t # Main
      /\ Len(stack) \in Nat /\ Len(stack) >= 2
  BY <1>1, LoopOnTop, Frames DEF Context
<1>3. Loop.t \in Coroutines /\ Loop.t \in 1..made
  <2>1. Loop.t \in Coroutines
    BY <1>2 DEF LoopFrames
  <2>. QED  BY <1>2, <2>1, Types DEF Context
<1>4. PICK u \in 1..made : u = Loop.t /\ u \in Bodies
  BY <1>3, BodyTypes DEF Context
<1>5. ~Over(u)
  <2>1. Len(stack) \in 1..Len(stack)
    BY <1>2
  <2>2. DrivenBare(u)
    BY <1>1, <1>2, <1>4, <2>1 DEF DrivenBare
  <2>. QED  BY <1>4, <2>2 DEF Context, JInv, Finished
<1>6. /\ Len(stack') = Len(stack) + 1 /\ stack'[Len(stack) + 1] = Code(u)
      /\ \A i \in 1..Len(stack) : stack'[i] = stack[i]
  <2>1. stack \in Seq(CodeFrames \union LoopFrames)
    BY DEF Context, IInv, Base
  <2>. QED  BY <1>1, <1>4, <2>1
<1>7. /\ \A i \in 1..(Len(stack) - 1) : stack'[i] = stack[i]
      /\ stack'[Len(stack)] \in LoopFrames /\ stack'[Len(stack)].at = Nowhere
  <2>1. Len(stack) \in 1..Len(stack) /\ \A i \in 1..(Len(stack) - 1) : i \in 1..Len(stack)
    BY <1>2
  <2>. QED  BY <1>1, <1>2, <1>6, <2>1
<1>8. \A t \in Bodies : Over(t)' <=> Over(t)
  BY <1>1 DEF Over, Done
<1>. QED  BY <1>1, <1>5, <1>6, <1>7, <1>8, PolledKeeps

LEMMA RoundPollKeeps ==
  ASSUME Context, RoundPoll
  PROVE  JInv'
<1>. DEFINE p == First(Due(Loop.at))
            t == scopes[p[1]][p[2]]
            g == [Loop EXCEPT !.at = p]
<1>1. /\ Looping /\ Due(Loop.at) # {} /\ Kept
      /\ UNCHANGED <<scopes, closed, handle, from, opened, left, made, blocks>> /\ wait' = wait
      /\ task' = [task EXCEPT ![t].polling = TRUE]
      /\ stack' = Append(Append(Front(stack), g), Code(t))
  BY DEF RoundPoll, Looping, Kept, code, used, ghost
<1>2. p \in Places /\ At(p[1], p[2]) /\ Pollable(t) /\ t \in Bodies
  BY <1>1, FirstDue DEF Context
<1>3. handle[t] = <<p[1], p[2]>> /\ <<p[1], p[2]>> = p
  <2>1. <<p[1], p[2]>> = p
    BY <1>2 DEF Places
  <2>. QED  BY <1>2, <2>1, PlaceOf DEF Context, JInv
<1>4. t <= made /\ ~Bare(t)
  BY <1>2 DEF At, Context, IInv, Started
<1>5. g \in LoopFrames /\ g.at = p
  <2>1. Loop \in LoopFrames
    BY <1>1, LoopKinds
  <2>. QED  BY <1>2, <2>1 DEF LoopFrames
<1>. HIDE DEF p, g
<1>6. PICK u \in 1..made : u = t /\ u \in Bodies
  <2>1. t \in 1..made
    BY <1>2, <1>4, BodyTypes, Types DEF Context
  <2>. QED  BY <1>2, <2>1
<1>7. ~Over(u) /\ handle[u] = p /\ ~Bare(u)
  BY <1>2, <1>3, <1>4, <1>6 DEF Pollable, Over
<1>8. task' = [task EXCEPT ![u].polling = TRUE] /\ task \in [Bodies -> Records]
  BY <1>1, <1>6, Types DEF Context
<1>9. stack' = Append(Append(SubSeq(stack, 1, Len(stack) - 1), g), Code(u))
  BY <1>1, <1>6 DEF Front
<1>. HIDE DEF t
<1>10. ASSUME NEW v \in Bodies
       PROVE  /\ Over(v)' <=> Over(v)
              /\ task'[v].result = task[v].result
              /\ task'[v].polling => task[v].polling \/ (v = u /\ ~Bare(u))
  <2>1. CASE v = u
    <3>1. task[v] \in Records /\ task'[v] = [task[v] EXCEPT !.polling = TRUE]
      BY <1>8, <2>1
    <3>2. task'[v].result = task[v].result /\ task'[v].cancelled = task[v].cancelled
      BY <3>1 DEF Records
    <3>. QED  BY <1>7, <2>1, <3>2 DEF Over, Done
  <2>2. CASE v # u
    <3>1. task'[v] = task[v]
      BY <1>8, <2>2
    <3>. QED  BY <3>1 DEF Over, Done
  <2>. QED  BY <2>1, <2>2
<1>11. /\ Len(stack') = Len(stack) + 1 /\ stack'[Len(stack) + 1] = Code(u)
       /\ stack'[Len(stack)] = g
       /\ \A i \in 1..(Len(stack) - 1) : stack'[i] = stack[i]
  <2>. DEFINE F == CodeFrames \union LoopFrames
              s == SubSeq(stack, 1, Len(stack) - 1)
              m == Len(stack) - 1
  <2>1. stack \in Seq(F) /\ Len(stack) \in Nat /\ Len(stack) >= 2
    BY <1>1, Frames, LoopOnTop DEF Context, IInv, Base
  <2>2. m \in 0..Len(stack) /\ m + 1 = Len(stack) /\ m \in Nat
    BY <2>1
  <2>3. s \in Seq(F) /\ Len(s) = m /\ \A i \in 1..m : s[i] = stack[i]
    BY <2>1, <2>2, Cut
  <2>4. g \in F /\ Code(u) \in F
    <3>1. u \in Coroutines
      BY <1>6, Types DEF Context
    <3>. QED  BY <1>5, <3>1 DEF Code, CodeFrames
  <2>5. stack' = Append(Append(s, g), Code(u))
    BY <1>9
  <2>. HIDE DEF F, s, m
  <2>6. /\ Append(s, g) \in Seq(F) /\ Len(Append(s, g)) = m + 1 /\ Append(s, g)[m + 1] = g
        /\ \A i \in 1..m : Append(s, g)[i] = s[i]
    BY <2>3, <2>4, OnTop
  <2>. DEFINE r == Append(s, g)
  <2>7. r \in Seq(F) /\ Len(r) = m + 1 /\ r[m + 1] = g /\ \A i \in 1..m : r[i] = s[i]
    BY <2>6
  <2>. HIDE DEF r
  <2>8. /\ Len(Append(r, Code(u))) = (m + 1) + 1 /\ Append(r, Code(u))[(m + 1) + 1] = Code(u)
        /\ \A i \in 1..(m + 1) : Append(r, Code(u))[i] = r[i]
    BY <2>4, <2>7, OnTop
  <2>9. stack' = Append(r, Code(u))
    BY <2>5 DEF r
  <2>10. m + 1 \in 1..(m + 1) /\ \A i \in 1..m : i \in 1..(m + 1)
    BY <2>2
  <2>11. m = Len(stack) - 1
    BY DEF m
  <2>. QED  BY <2>2, <2>3, <2>7, <2>8, <2>9, <2>10, <2>11
<1>12. stack'[Len(stack)] \in LoopFrames
       /\ (stack'[Len(stack)].at # Nowhere => stack'[Len(stack)].at = handle[u])
  BY <1>5, <1>7, <1>11
<1>13. ~Over(u)
  BY <1>7
<1>. QED  BY <1>1, <1>10, <1>11, <1>12, <1>13, PolledKeeps

--------------------------------------------------------------------------------
(* The end of a poll.                                                       *)

\* A poll gives its result to the body that was polled: the place where the
\* round stands still holds it.
LEMMA BackFacts ==
  ASSUME Context, NEW x \in Bodies, Running(x), NEW result \in {0, x}, Back(x, result)
  PROVE  /\ mode' = mode /\ Len(stack) >= 3 /\ x \in 1..made /\ ~Over(x)
         /\ \A t \in Bodies \ {x} : task'[t] = task[t]
         /\ task'[x].result = result /\ task'[x].cancelled = task[x].cancelled
         /\ ~task'[x].polling
         /\ \/ Len(stack') = Len(stack) - 1 /\ stack'[Len(stack) - 1] \in LoopFrames
            \/ Len(stack') = Len(stack) - 2
         /\ \A i \in 1..(Len(stack) - 2) : stack'[i] = stack[i]
         /\ Bare(x) => stack[Len(stack) - 1].k = "await" /\ stack[Len(stack) - 1].t = x
         /\ result = x /\ Bare(x) => Len(stack') = Len(stack) - 2
         /\ Len(stack') = Len(stack) - 2 => result = x /\ Bare(x)
<1>. DEFINE n == Len(stack)
            F == CodeFrames \union LoopFrames
            s == SubSeq(stack, 1, n - 2)
<1>0. x \in Coroutines /\ x # Main /\ x # 0 /\ IInv /\ JInv
  BY Types, BodyTypes DEF Context, Main
<1>1. /\ n >= 3 /\ n \in Nat /\ n - 1 \in 1..n /\ stack[n - 1] \in LoopFrames
      /\ Under = stack[n - 1] /\ x \in 1..made /\ PollOf(n) /\ stack[n] = Code(x)
      /\ IsCode(n) /\ stack[n].x = x
  <2>1. n >= 3 /\ n - 1 \in 1..n /\ stack[n - 1] \in LoopFrames /\ x \in 1..made /\ PollOf(n)
    BY <1>0, CodeOnTop
  <2>. QED  BY <1>0, <2>1, CodeOnTop, Frames DEF Under
<1>2. ~Over(x)
  <2>1. OnStack(x)
    BY <1>1, Frames DEF OnStack
  <2>. QED  BY <1>0, <2>1 DEF JInv, Finished
<1>3. \/ Under.at = Nowhere /\ Under.k = "await" /\ Under.t = x /\ Bare(x)
      \/ Under.at # Nowhere /\ ~Bare(x)
  BY <1>1 DEF PollOf
<1>4. task \in [Bodies -> Records] /\ task[x] \in Records
  BY <1>0, Types
<1>s. s \in Seq(F) /\ Len(s) = n - 2 /\ \A i \in 1..(n - 2) : s[i] = stack[i]
  <2>1. stack \in Seq(F) /\ n - 2 \in 0..Len(stack)
    BY <1>0, <1>1 DEF IInv, Base
  <2>. QED  BY <2>1, Cut
<1>r. ASSUME NEW g \in LoopFrames, stack' = Append(s, g)
      PROVE  Len(stack') = n - 1 /\ stack'[n - 1] = g /\ \A i \in 1..(n - 2) : stack'[i] = stack[i]
  <2>1. g \in F
    OBVIOUS
  <2>. HIDE DEF s, F, n
  <2>2. /\ Len(Append(s, g)) = Len(s) + 1 /\ Append(s, g)[Len(s) + 1] = g
        /\ \A i \in 1..Len(s) : Append(s, g)[i] = s[i]
    BY <1>s, <2>1, OnTop
  <2>3. (n - 2) + 1 = n - 1
    BY <1>1
  <2>. QED  BY <1>r, <1>s, <2>2, <2>3
<1>5. CASE Under.at = Nowhere
  <2>1. /\ stack' = IF result # 0 THEN s ELSE Append(s, [Under EXCEPT !.at = <<1, 1>>, !.prog = FALSE])
        /\ task' = [task EXCEPT ![x].result = result] /\ mode' = mode
    BY <1>5 DEF Back
  <2>2. Bare(x) /\ stack[n - 1].k = "await" /\ stack[n - 1].t = x
    BY <1>1, <1>3, <1>5
  <2>3. /\ \A t \in Bodies \ {x} : task'[t] = task[t]
        /\ task'[x].result = result /\ task'[x].cancelled = task[x].cancelled
        /\ task'[x].polling = task[x].polling
    <3>1. task'[x] = [task[x] EXCEPT !.result = result]
      BY <1>4, <2>1
    <3>. QED  BY <1>4, <2>1, <3>1 DEF Records
  <2>4. ~task[x].polling
    BY <1>0, <2>2 DEF JInv, Finished
  <2>5. CASE result = x
    <3>1. stack' = s
      BY <1>0, <2>1, <2>5
    <3>2. Len(stack') = n - 2 /\ \A i \in 1..(n - 2) : stack'[i] = stack[i]
      BY <1>s, <3>1
    <3>. QED  BY <1>1, <1>2, <2>1, <2>2, <2>3, <2>4, <2>5, <3>2
  <2>6. CASE result = 0
    <3>. DEFINE g == [Under EXCEPT !.at = <<1, 1>>, !.prog = FALSE]
    <3>1. g \in LoopFrames
      BY <1>1 DEF LoopFrames, Places
    <3>2. stack' = Append(s, g)
      BY <2>1, <2>6
    <3>. HIDE DEF g
    <3>3. Len(stack') = n - 1 /\ stack'[n - 1] = g /\ \A i \in 1..(n - 2) : stack'[i] = stack[i]
      BY <1>r, <3>1, <3>2
    <3>4. n - 1 # n - 2
      BY <1>1
    <3>. QED  BY <1>0, <1>1, <1>2, <2>1, <2>2, <2>3, <2>4, <2>6, <3>1, <3>3, <3>4
  <2>. QED  BY <2>5, <2>6
<1>6. CASE Under.at # Nowhere
  <2>1. ~Bare(x)
    BY <1>3, <1>6
  <2>2. Under.at = handle[x]
    <3>1. n \in 2..n
      BY <1>1
    <3>. QED  BY <1>0, <1>1, <1>6, <3>1 DEF JInv, Standing
  <2>3. At(Under.at[1], Under.at[2]) /\ scopes[Under.at[1]][Under.at[2]] = x
    BY <1>0, <1>1, <1>2, <2>1, <2>2, OwnPlace DEF JInv
  <2>. DEFINE g == [Under EXCEPT !.at = Next_place(@), !.prog = @ \/ result # 0]
  <2>4. /\ task' = [task EXCEPT ![x].polling = FALSE,
                                ![x].result = IF result # 0 THEN result ELSE @]
        /\ stack' = Append(s, g) /\ mode' = mode
    BY <1>6, <2>3 DEF Back
  <2>5. g \in LoopFrames
    <3>1. Next_place(Under.at) \in Places
      <4>1. Under.at \in Nat \X Nat
        BY <1>1 DEF LoopFrames, Places
      <4>. QED  BY <4>1 DEF Next_place, Places
    <3>2. (Under.prog \/ result # 0) \in BOOLEAN
      OBVIOUS
    <3>. QED  BY <1>1, <3>1, <3>2 DEF LoopFrames
  <2>. HIDE DEF g
  <2>6. Len(stack') = n - 1 /\ stack'[n - 1] = g /\ \A i \in 1..(n - 2) : stack'[i] = stack[i]
    BY <1>r, <2>4, <2>5
  <2>7. task[x].result = 0
    BY <1>2 DEF Over, Done
  <2>8. /\ \A t \in Bodies \ {x} : task'[t] = task[t]
        /\ task'[x].result = result /\ task'[x].cancelled = task[x].cancelled
        /\ ~task'[x].polling
    <3>. DEFINE r == IF result # 0 THEN result ELSE task[x].result
    <3>1. r = result
      BY <2>7
    <3>2. task'[x] = [task[x] EXCEPT !.polling = FALSE, !.result = r]
      BY <1>4, <2>4
    <3>. HIDE DEF r
    <3>. QED  BY <1>4, <2>4, <3>1, <3>2 DEF Records
  <2>9. n - 1 # n - 2
    BY <1>1
  <2>. QED  BY <1>1, <1>2, <2>1, <2>4, <2>5, <2>6, <2>8, <2>9
<1>. QED  BY <1>5, <1>6

LEMMA BackKeeps ==
  ASSUME Context, NEW x \in Bodies, Running(x), NEW result \in {0, x}, Back(x, result),
         UNCHANGED <<scopes, closed, handle, from, opened, left, made, blocks>>, wait' = wait,
         style' = style, result = x => blocks[x] = <<>>, wait[x] # Awake \/ blocks[x] = <<>>
  PROVE  JInv'
<1>. DEFINE n == Len(stack)
<1>0. x \in Coroutines /\ x # 0 /\ IInv /\ JInv /\ mode' = mode /\ mode = "running"
      /\ n \in Nat /\ n >= 3 /\ stack[n] = Code(x) /\ IsCode(n) /\ ~IsCode(n - 1)
      /\ DOMAIN stack = 1..n
  BY BackFacts, CodeOnTop, Frames, Types, BodyTypes DEF Context, Running, Main
<1>a. n = Len(stack)
  OBVIOUS
<1>f. /\ \/ Len(stack') = n - 1 /\ stack'[n - 1] \in LoopFrames
         \/ Len(stack') = n - 2
      /\ \A i \in 1..(n - 2) : stack'[i] = stack[i]
  BY BackFacts
<1>. HIDE DEF n
<1>1. ASSUME NEW y \in Coroutines
      PROVE  OnStack(y)' <=> OnStack(y) /\ y # x
  <2>1. stack[n - 1] # Code(y)
    BY <1>0 DEF IsCode, Code
  <2>2. Len(stack') = n - 1 => stack'[n - 1] # Code(y)
    <3>1. \A g \in LoopFrames : g # Code(y)
      BY DEF LoopFrames, Code
    <3>2. n - 1 # n - 2
      BY <1>0
    <3>. QED  BY <1>f, <3>1, <3>2
  <2>3. /\ \A k \in 1..n : k \in 1..(n - 2) \/ k = n - 1 \/ k = n
        /\ \A k \in 1..(n - 1) : k \in 1..(n - 2) \/ k = n - 1
        /\ \A k \in 1..(n - 2) : k \in 1..n /\ k \in 1..(n - 1) /\ k # n
        /\ n \in 1..n
    BY <1>0
  <2>4. OnStack(y)' <=> \E k \in 1..(n - 2) : stack[k] = Code(y)
    <3>1. CASE Len(stack') = n - 1
      BY <1>f, <2>2, <2>3, <3>1 DEF OnStack
    <3>2. CASE Len(stack') = n - 2
      BY <1>f, <3>2 DEF OnStack
    <3>. QED  BY <1>f, <3>1, <3>2
  <2>5. OnStack(y) <=> (\E k \in 1..(n - 2) : stack[k] = Code(y)) \/ stack[n] = Code(y)
    BY <1>a, <2>1, <2>3 DEF OnStack
  <2>6. stack[n] = Code(y) <=> y = x
    BY <1>0 DEF Code
  <2>7. \A k \in 1..(n - 2) : stack[k] # Code(x)
    <3>1. ASSUME NEW k \in 1..(n - 2), stack[k] = Code(x)
          PROVE  FALSE
      <4>1. k \in DOMAIN stack /\ n \in DOMAIN stack /\ k # n
        BY <1>0, <2>3
      <4>2. stack[k].k = "code" /\ stack[k] = stack[n]
        BY <1>0, <3>1 DEF Code
      <4>. QED  BY <1>0, <4>1, <4>2 DEF IInv, NotReentered
    <3>. QED  BY <3>1
  <2>. QED  BY <2>4, <2>5, <2>6, <2>7
<1>2. TableSame /\ Fewer
  BY StillTable DEF TableSame, BlocksSame
<1>3. FreshOnTop'
  <2>1. blocks[x] = <<>> => \A i \in DOMAIN blocks'[x] : ~blocks'[x][i].fresh
    OBVIOUS
  <2>2. NoneFresh
    BY <1>0, <1>2, <1>a, <2>1, StaleBlocks DEF JInv
  <2>. QED  BY <2>2, FreshStill
<1>4. EntersWell
  <2>1. Len(stack') # Len(stack) + 1
    <3>1. \A k \in Nat : k - 1 # k + 1 /\ k - 2 # k + 1
      OBVIOUS
    <3>2. Len(stack') = n - 1 \/ Len(stack') = n - 2
      BY <1>f
    <3>. QED  BY <1>0, <1>a, <3>1, <3>2, Zenon
  <2>. QED  BY <2>1 DEF EntersWell, Entered
<1>5. EmptiesWell
  <2>1. SUFFICES ASSUME style = "split", Len(stack') = 1, NEW y \in Bodies, blocks'[y] # <<>>
                 PROVE  FALSE
    BY DEF EmptiesWell
  <2>2. Len(stack') = n - 2 /\ n = 3 /\ n - 1 = 2
    BY <1>0, <1>f, <2>1
  <2>3. result = x /\ Bare(x) /\ stack[2].k = "await" /\ stack[2].t = x
    BY <1>a, <2>2, BackFacts
  <2>4. blocks[y] # <<>> /\ blocks[x] = <<>> /\ Len(stack) >= 2
    BY <1>0, <1>a, <2>1, <2>3
  <2>. QED  BY <1>0, <2>1, <2>3, <2>4, Anchor
<1>6. PollsWell
  <2>1. ~ComesOn
    <3>1. ASSUME NEW u \in 1..made, stack'[Len(stack')] = Code(u),
                 \A i \in 1..Len(stack) : stack[i] # Code(u)
          PROVE  FALSE
      <4>1. u \in Coroutines /\ Len(stack') \in 1..Len(stack')
        BY <1>0, BodyTypes, Types, NextFrames DEF Context
      <4>2. OnStack(u)' /\ ~OnStack(u)
        BY <3>1, <4>1 DEF OnStack
      <4>. QED  BY <1>1, <4>1, <4>2
    <3>. QED  BY <3>1 DEF ComesOn
  <2>. QED  BY <2>1 DEF PollsWell
<1>7. StaysOn
  <2>1. SUFFICES ASSUME style = "sync", NEW y \in Coroutines, blocks[y] # <<>>
                 PROVE  OnStack(y)' /\ wait[y] = Awake
    BY DEF StaysOn
  <2>2. OnStack(y) /\ wait[y] = Awake
    BY <1>0, <2>1 DEF JInv, Nested
  <2>3. y # x
    BY <2>1, <2>2
  <2>. QED  BY <1>1, <2>2, <2>3
<1>8. TaskStep
  <2>b. Bodies \subseteq Coroutines
    BY <1>0, Types
  <2>1. ASSUME NEW t \in Bodies \ {x}
        PROVE  /\ Over(t) <=> Over(t)'
               /\ task'[t].result \in {0, t}
               /\ task'[t].polling => OnStack(t)' /\ ~Bare(t)'
               /\ OnStack(t)' /\ ~OnStack(t) => ~Over(t)
    <3>1. task'[t] = task[t]
      BY BackFacts
    <3>2. task[t].result \in {0, t} /\ (task[t].polling => OnStack(t) /\ ~Bare(t))
      BY <1>0 DEF JInv, Finished
    <3>. QED  BY <1>1, <2>b, <3>1, <3>2 DEF Over, Done, Bare
  <2>2. ~Over(x) /\ task'[x].result \in {0, x} /\ ~task'[x].polling
    BY BackFacts
  <2>3. ASSUME Over(x)'
        PROVE  EndsWell(x)
    <3>1. result = x
      BY <1>0, <2>2, <2>3, BackFacts DEF Over, Done
    <3>2. blocks'[x] = <<>> /\ x <= made' /\ ~OnStack(x)'
      <4>1. x \in 1..made
        BY BackFacts
      <4>2. x <= made
        BY <4>1, Types, <1>0
      <4>. QED  BY <1>0, <1>1, <3>1, <4>2
    <3>3. ~DrivenBare(x)'
      <4>1. ASSUME NEW k \in 1..Len(stack'), stack'[k].k = "await", stack'[k].t = x, Bare(x)
            PROVE  FALSE
        <5>1. Len(stack') = n - 2 /\ stack[n - 1].k = "await" /\ stack[n - 1].t = x
          BY <1>a, <3>1, <4>1, BackFacts
        <5>2. k \in 1..(n - 2) /\ k \in 1..n /\ n - 1 \in 1..n /\ k # n - 1
          BY <1>0, <5>1
        <5>3. stack[k].k = "await" /\ stack[k].t = x
          BY <1>f, <4>1, <5>2
        <5>. QED  BY <1>0, <4>1, <5>1, <5>2, <5>3 DEF IInv, Bares
      <4>. QED  BY <4>1 DEF DrivenBare, Bare
    <3>. QED  BY <3>2, <3>3 DEF EndsWell
  <2>4. OnStack(x)
    <3>1. n \in 1..Len(stack)
      BY <1>0, <1>a
    <3>. QED  BY <1>0, <3>1 DEF OnStack
  <2>. QED  BY <2>1, <2>2, <2>3, <2>4 DEF TaskStep
<1>. QED  BY <1>0, <1>2, <1>3, <1>4, <1>5, <1>6, <1>7, <1>8, Combine DEF Context

LEMMA ReturnKeeps ==
  ASSUME Context, NEW x \in Coroutines, Return(x)
  PROVE  JInv'
<1>1. /\ Running(x) /\ blocks[x] = <<>> /\ style' = style /\ wait' = wait
      /\ UNCHANGED <<scopes, closed, handle, from, opened, left, made, blocks>>
  <2>1. Running(x) /\ blocks[x] = <<>> /\ left' = left \union Mine(x)
    BY DEF Return, InCode, Inside, Context, Careful
  <2>2. Mine(x) = {}
    BY <2>1 DEF Mine
  <2>. QED  BY <2>1, <2>2 DEF Return, code, used
<1>2. CASE x = Main
  <2>1. mode' = "ended" /\ UNCHANGED <<task, stack>>
    BY <1>2 DEF Return
  <2>. QED  BY <1>1, <2>1, AbortKeeps
<1>3. CASE x # Main
  <2>0. Back(x, x)
    BY <1>3 DEF Return
  <2>1. x \in Bodies /\ Back(x, x) /\ x \in {0, x}
    BY <1>3, <2>0, Types DEF Context
  <2>. QED  BY <1>1, <2>1, BackKeeps
<1>. QED  BY <1>2, <1>3

LEMMA SuspendKeeps ==
  ASSUME Context, NEW x \in Coroutines, Suspend(x)
  PROVE  JInv'
<1>1. /\ Running(x) /\ wait[x] # Awake /\ style' = style /\ wait' = wait /\ Back(x, 0)
      /\ UNCHANGED <<scopes, closed, handle, from, opened, left, made, blocks>>
  BY DEF Suspend, code, used, ghost
<1>2. x # Main
  BY <1>1 DEF Context, IInv, Alternates
<1>3. x \in Bodies /\ 0 \in {0, x} /\ x # 0
  BY <1>2, Types DEF Context, Main
<1>. QED  BY <1>1, <1>3, BackKeeps

--------------------------------------------------------------------------------
(* Cancellation, spawning, and the blocks themselves.                       *)

\* The handles a program can name lead to their own tasks.
LEMMA NamedPlace ==
  ASSUME Context, NEW x \in Coroutines, Running(x), NEW t \in Named(x)
  PROVE  t \in 1..made /\ t \in Bodies /\ ~Bare(t) /\ scopes[handle[t][1]][handle[t][2]] = t
<1>1. IInv /\ JInv /\ t \in 1..made /\ from[t] # 0
      /\ (from[t] \in Mine(x) \/ (x # Main /\ from[t] = from[x]))
  BY DEF Named, Context
<1>2. t \in Bodies /\ ~Bare(t)
  BY <1>1, BodyTypes DEF IInv, Started
<1>3. \E y \in Coroutines : \E i \in DOMAIN blocks[y] : blocks[y][i].id = from[t]
  <2>1. CASE from[t] \in Mine(x)
    BY <2>1 DEF Mine
  <2>2. CASE x # Main /\ from[t] = from[x]
    <3>1. x \in 1..made /\ stack[Len(stack)] = Code(x) /\ Len(stack) \in 1..Len(stack)
      BY <1>1, <2>2, CodeOnTop, Frames
    <3>2. x \in Bodies /\ OnStack(x)
      BY <1>1, <3>1, BodyTypes DEF OnStack
    <3>3. ~Over(x)
      BY <1>1, <3>2 DEF JInv, Finished
    <3>4. from[x] \notin left
      BY <1>1, <3>1, <3>3 DEF JInv, JoinsOwn
    <3>5. PICK y \in 0..(x - 1) : \E i \in DOMAIN blocks[y] : blocks[y][i].id = from[x]
      BY <1>1, <2>2, <3>1, <3>4 DEF JInv, Lineage
    <3>6. y \in Coroutines
      BY <1>1, Types
    <3>. QED  BY <2>2, <3>5, <3>6
  <2>. QED  BY <1>1, <2>1, <2>2
<1>. QED  BY <1>1, <1>2, <1>3 DEF JInv, Placed

LEMMA CancelKeeps ==
  ASSUME Context, NEW x \in Coroutines, NEW t \in Named(x), cancel_task(x, t)
  PROVE  JInv'
<1>0. IInv /\ JInv /\ Careful
  BY DEF Context
<1>1. /\ Running(x) /\ Kept /\ ~Busy(t)
      /\ UNCHANGED <<scopes, closed, handle, from, opened, left, made, blocks>>
      /\ wait' = wait /\ stack' = stack
      /\ ~Over(scopes[handle[t][1]][handle[t][2]])
      /\ task' = [task EXCEPT ![scopes[handle[t][1]][handle[t][2]]].cancelled = TRUE]
  BY <1>0 DEF cancel_task, InCode, Running, Kept, Careful, code, ghost
<1>2. t \in 1..made /\ t \in Bodies /\ ~Bare(t) /\ scopes[handle[t][1]][handle[t][2]] = t
  BY <1>1, NamedPlace
<1>3. task' = [task EXCEPT ![t].cancelled = TRUE] /\ task \in [Bodies -> Records]
  BY <1>0, <1>1, <1>2, Types
<1>4. blocks[t] = <<>> /\ ~task[t].polling
  BY <1>1 DEF Busy
<1>5. ~OnStack(t)
  <2>1. ASSUME NEW k \in 1..Len(stack), stack[k] = Code(t)
        PROVE  FALSE
    <3>1. IsCode(k) /\ stack[k].x = t
      BY <2>1 DEF IsCode, Code
    <3>2. k # 1
      <4>1. stack[1].x = Main
        BY <1>0 DEF IInv, Alternates, Code
      <4>2. t # Main
        BY <1>0, <1>2, BodyTypes DEF Main
      <4>. QED  BY <3>1, <4>1, <4>2
    <3>3. k \in 2..Len(stack)
      BY <1>0, <3>2, Frames
    <3>4. PollOf(k)
      BY <1>0, <3>1, <3>3 DEF IInv, Polls
    <3>. QED  BY <1>2, <1>4, <3>1, <3>4 DEF PollOf
  <2>. QED  BY <2>1 DEF OnStack
<1>6. SameCode /\ EntersWell /\ EmptiesWell
  BY <1>0, <1>1, StaysCode
<1>7. PollsWell
  BY <1>6, SameCodeFacts DEF Context, JInv
<1>8. TaskStep
  <2>b. Bodies \subseteq Coroutines
    BY <1>0, Types
  <2>1. ASSUME NEW v \in Bodies, v # t
        PROVE  task'[v] = task[v]
    BY <1>3, <2>1
  <2>2. task'[t].cancelled /\ task'[t].result = task[t].result /\ task'[t].polling = task[t].polling
    <3>1. task'[t] = [task[t] EXCEPT !.cancelled = TRUE] /\ task[t] \in Records
      BY <1>2, <1>3
    <3>. QED  BY <3>1 DEF Records
  <2>3. EndsWell(t)
    <3>1. t <= made'
      BY <1>0, <1>1, <1>2, Types
    <3>2. ~OnStack(t)'
      BY <1>5, <1>6, <1>2, <2>b DEF SameCode
    <3>3. ~DrivenBare(t)'
      BY <1>1, <1>2 DEF DrivenBare, Bare
    <3>. QED  BY <1>1, <1>4, <3>1, <3>2, <3>3 DEF EndsWell
  <2>4. \A v \in Bodies : OnStack(v)' <=> OnStack(v)
    BY <1>6, <2>b DEF SameCode
  <2>5. \A v \in Bodies : /\ task[v].result \in {0, v}
                          /\ task[v].polling => OnStack(v) /\ ~Bare(v)
    BY <1>0 DEF JInv, Finished
  <2>6. ASSUME NEW v \in Bodies
        PROVE  /\ Over(v) => Over(v)'
               /\ Over(v)' => Over(v) \/ EndsWell(v)
               /\ task'[v].result \in {0, v}
               /\ task'[v].polling => OnStack(v)' /\ ~Bare(v)'
               /\ OnStack(v)' /\ ~OnStack(v) => ~Over(v)
    <3>1. CASE v = t
      BY <1>1, <2>2, <2>3, <2>4, <2>5, <3>1 DEF Over, Done, Bare
    <3>2. CASE v # t
      BY <1>1, <2>1, <2>4, <2>5, <3>2 DEF Over, Done, Bare
    <3>. QED  BY <3>1, <3>2
  <2>. QED  BY <2>6 DEF TaskStep
<1>9. TableSame /\ WaitsWell /\ FreshOnTop'
  BY <1>1, StillTable, WaitsStill, FreshSame
<1>10. StaysOn
  BY <1>6, <1>9, StaysOnBy
<1>. QED  BY <1>1, <1>6, <1>7, <1>8, <1>9, <1>10, Combine DEF Context, Kept

\* Steps that change the table.
LEMMA CombineTable ==
  ASSUME Context, Kept, Lineage', Slotted', Placed', FreshOnTop', JoinsOwn', Fewer, SameCode,
         EntersWell, EmptiesWell, StaysOn, task' = task,
         \/ BlocksSame
         \/ /\ ~Entered
            /\ \E d \in Coroutines : /\ stack'[Len(stack')] = Code(d)
                                     /\ \A y \in Coroutines \ {d} : blocks'[y] = blocks[y]
  PROVE  JInv'
<1>1. PollsWell /\ TaskStep
  BY SameCodeFacts DEF Context, JInv
<1>2. Finished'
  BY <1>1, FinishedKept DEF Context, JInv
<1>3. Standing'
  BY <1>1, StandingKept DEF Context, JInv
<1>4. JoinsLast'
  BY JoinsLastKept DEF Context, JInv
<1>5. Nested' /\ Flat'
  BY NestedKept, FlatKept DEF Context, JInv, Kept
<1>6. Calm'
  BY DEF Context, JInv, Calm, Kept
<1>. QED  BY <1>2, <1>3, <1>4, <1>5, <1>6 DEF JInv

\* A task is spawned in the block that its spawner is inside.
LEMMA SpawnKeeps ==
  ASSUME Context, NEW x \in Coroutines, Spawn(x)
  PROVE  JInv'
<1>0. IInv /\ JInv /\ Careful /\ Slotted /\ FreshOnTop /\ Nested /\ Lineage /\ Placed
  BY DEF Context, JInv
<1>1. /\ Running(x) /\ Inside(x) /\ Kept /\ task' = task /\ stack' = stack /\ wait' = wait
      /\ blocks' = blocks /\ left' = left /\ (Block(x).fresh \/ style = "sync")
  BY <1>0 DEF Spawn, InCode, Running, Kept, Careful, Uniform, code
<1>2. innermost_open = Block(x).si
  <2>1. CASE Block(x).fresh
    BY <1>0, <1>1, <2>1, InnermostFresh
  <2>2. CASE style = "sync"
    <3>1. Len(stack) \in 1..Len(stack) /\ stack[Len(stack)] = Code(x)
          /\ \A k \in (Len(stack) + 1)..Len(stack) : FALSE
      BY <1>0, <1>1, Frames, CodeOnTop
    <3>2. PICK c \in 1..Len(stack) : stack[c] = Code(x) /\ \A k \in (c + 1)..Len(stack) : ~IsCode(k)
      BY <3>1
    <3>. QED  BY <1>0, <1>1, <2>2, <3>2, InnermostNested
  <2>. QED  BY <1>1, <2>1, <2>2
<1>3. Lineage' /\ Slotted' /\ Placed'
  BY <1>0, <1>2, TableSpawned
<1>4. SameCode /\ EntersWell /\ EmptiesWell
  BY <1>0, <1>1, StaysCode
<1>5. BlocksSame /\ Fewer
  BY <1>1, StillBlocks DEF BlocksSame
<1>6. FreshOnTop'
  BY <1>1, FreshSame
<1>7. StaysOn
  BY <1>0, <1>1, <1>4 DEF StaysOn, SameCode, Nested
<1>8. JoinsOwn'
  <2>1. TaskStep
    BY <1>0, <1>1, <1>4, SameCodeFacts DEF Context, JInv
  <2>2. from'[made + 1] = Block(x).id
    BY <1>0, <1>1, OpenWhenInside, SpawnTable
  <2>3. Block(x).id \notin left
    BY <1>0, <1>1, LastBlock DEF Lineage
  <2>. QED  BY <1>1, <2>1, <2>2, <2>3, JoinsOwnKept DEF Context, JInv
<1>. QED  BY <1>1, <1>3, <1>4, <1>5, <1>6, <1>7, <1>8, CombineTable

\* A block is left when its own slot is drained, and that slot is closed.
LEMMA ShutKeeps ==
  ASSUME Context, Kept, NEW d \in Coroutines, Inside(d), ScopeReady(Block(d).si),
         close_scope(Block(d).si), blocks' = [blocks EXCEPT ![d] = Front(@)],
         left' = left \union {Block(d).id}, UNCHANGED <<handle, from, made, opened>>,
         task' = task, wait'[d] = Awake, \A y \in Coroutines \ {d} : wait'[y] = wait[y],
         SameCode, ~Entered, EmptiesWell, stack'[Len(stack')] = Code(d), NoneFresh
  PROVE  JInv'
<1>0. IInv /\ IInv' /\ JInv /\ Lineage /\ Slotted /\ Placed
  BY DEF Context, JInv
<1>1. Lineage' /\ Slotted' /\ Placed'
  BY <1>0, TableShut
<1>2. Fewer /\ \A y \in Coroutines \ {d} : blocks'[y] = blocks[y]
  BY <1>0, ShorterBlocks, Shorter DEF IInv, Inside
<1>3. JoinsOwn'
  <2>1. SUFFICES ASSUME NEW t \in 1..made, from[t] \in left'
                 PROVE  Over(t)
    BY DEF JoinsOwn, Over, Done
  <2>2. CASE from[t] \in left
    BY <1>0, <2>2 DEF JInv, JoinsOwn
  <2>3. CASE from[t] = Block(d).id
    BY <1>0, <2>3, DrainedBlock
  <2>. QED  BY <2>1, <2>2, <2>3
<1>4. EntersWell
  BY DEF EntersWell
<1>5. FreshOnTop'
  BY FreshStill
<1>6. StaysOn
  <2>1. SUFFICES ASSUME style = "sync", NEW y \in Coroutines, blocks'[y] # <<>>
                 PROVE  OnStack(y)' /\ wait'[y] = Awake
    BY DEF StaysOn
  <2>2. blocks[y] # <<>>
    BY <1>0, <1>2, <2>1, FewerInside
  <2>3. OnStack(y) /\ wait[y] = Awake
    BY <1>0, <2>1, <2>2 DEF JInv, Nested
  <2>. QED  BY <2>3 DEF SameCode
<1>. QED  BY <1>1, <1>2, <1>3, <1>4, <1>5, <1>6, CombineTable

\* ScopeEndAt: the index that was captured is that of the block's own slot.
LEMMA ResumeJoinKeeps ==
  ASSUME Context, NEW x \in Coroutines, ResumeJoin(x)
  PROVE  JInv'
<1>0. IInv /\ JInv
  BY DEF Context
<1>1. Running(x) /\ wait[x] = AtJoin /\ wait[x] # Awake /\ Fires(x)
  BY DEF ResumeJoin, AtJoin, Awake
<1>2. Inside(x) /\ ScopeReady(Block(x).si)
  BY <1>0, <1>1, LeavesInside DEF Fires, AtJoin, AtTimer
<1>3. Block(x).si \in DOMAIN scopes
  <2>1. Block(x).si \in OpenSlots
    BY <1>0, <1>2, LastBlock DEF JInv, Slotted
  <2>. QED  BY <1>0, <2>1 DEF OpenSlots, IInv, Base
<1>4. /\ close_scope(Block(x).si) /\ blocks' = [blocks EXCEPT ![x] = Front(@)]
      /\ left' = left \union {Block(x).id} /\ wait' = [wait EXCEPT ![x] = Awake]
      /\ UNCHANGED <<handle, from, made, opened>> /\ task' = task /\ stack' = stack /\ Kept
  BY <1>3 DEF ResumeJoin, Kept, Running, used
<1>5. wait'[x] = Awake /\ \A y \in Coroutines \ {x} : wait'[y] = wait[y]
  BY <1>0, <1>4 DEF IInv, Base
<1>6. SameCode /\ EmptiesWell /\ ~Entered
  <2>1. SameCode /\ EmptiesWell
    BY <1>0, <1>4, StaysCode
  <2>2. stack'[Len(stack')].k = "code"
    <3>1. stack'[Len(stack')] = Code(x)
      BY <1>0, <1>1, <1>4, CodeOnTop
    <3>. QED  BY <3>1 DEF Code
  <2>. QED  BY <2>1, <2>2 DEF Entered
<1>7. stack'[Len(stack')] = Code(x) /\ stack[Len(stack)] = Code(x)
  BY <1>0, <1>1, <1>4, CodeOnTop
<1>8. NoneFresh
  <2>1. Fewer
    BY <1>0, <1>2, <1>4, ShorterBlocks DEF Inside
  <2>. QED  BY <1>0, <1>1, <1>7, <2>1, StaleBlocks DEF JInv
<1>. QED  BY <1>2, <1>4, <1>5, <1>6, <1>7, <1>8, ShutKeeps

\* ScopeEnd: the scope that was joined is there, it is that of the block which
\* ends, and it is the innermost.
LEMMA ScopeEndKeeps ==
  ASSUME Context, ScopeEnd
  PROVE  JInv'
<1>. DEFINE d == Driver
            n == Len(stack)
<1>0. IInv /\ JInv /\ Slotted /\ Nested /\ Placed
  BY DEF Context, JInv
<1>1. Looping /\ Loop.k = "join" /\ (Drained \/ Lost)
  BY DEF ScopeEnd, RoundOver, Drained, Lost
<1>2. /\ Loop = stack[n] /\ ~IsCode(n) /\ n \in Nat /\ n >= 2 /\ n - 1 \in 1..n /\ IsCode(n - 1)
      /\ d = stack[n - 1].x /\ d \in Coroutines /\ stack[n - 1] = Code(d)
      /\ Inside(d) /\ wait[d] = Awake
  <2>1. n - 1 \in 1..n /\ IsCode(n - 1) /\ d = stack[n - 1].x
    BY <1>0, <1>1, LoopOnTop
  <2>2. stack[n - 1] = Code(d)
    BY <1>0, <2>1, Frames
  <2>. QED  BY <1>0, <1>1, <2>1, <2>2, LoopOnTop, JoinTop, Frames
<1>3. Loop.si = Block(d).si /\ ~Block(d).split
  <2>1. n \in 2..n
    BY <1>2
  <2>2. stack[n].k = "join"
    BY <1>1, <1>2
  <2>3. Block(d) = blocks[d][Len(blocks[d])]
    BY <1>0, <1>2, LastBlock
  <2>. QED  BY <1>0, <1>2, <2>1, <2>2, <2>3 DEF JInv, JoinsLast
<1>4. Block(d).si \in DOMAIN scopes
  <2>1. Block(d).si \in OpenSlots
    BY <1>0, <1>2, LastBlock DEF JInv, Slotted
  <2>. QED  BY <1>0, <2>1 DEF OpenSlots, IInv, Base
<1>5. ScopeReady(Block(d).si) /\ ~Lost
  BY <1>1, <1>3, <1>4 DEF Drained, Lost
<1>6. /\ close_scope(innermost_open) /\ Pop /\ left' = left \union {Block(d).id}
      /\ blocks' = [blocks EXCEPT ![d] = Front(@)] /\ Kept /\ wait' = wait /\ task' = task
      /\ UNCHANGED <<handle, from, made, opened>>
  BY <1>1, <1>5 DEF ScopeEnd, Kept, Looping, used
<1>7. SameCode /\ EntersWell /\ Len(stack') = n - 1 /\ stack'[n - 1] = Code(d)
  BY <1>0, <1>1, <1>6, LeavesCode
<1>. HIDE DEF d
<1>k. /\ style = "split" => (d = Main <=> ~Block(d).split)
      /\ style \in {"sync", "split"}
  BY <1>0, <1>2, KindOfBlock
<1>8. ASSUME style = "split"
      PROVE  d = Main /\ n = 2 /\ \A y \in Bodies : blocks[y] = <<>>
  <2>1. d = Main
    BY <1>3, <1>8, <1>k
  <2>2. n = 2
    <3>1. ~(n \in 3..n)
      BY <1>0, <1>1, <1>2, <1>8 DEF JInv, Flat
    <3>2. \A k \in Nat : k >= 2 /\ ~(k \in 3..k) => k = 2
      OBVIOUS
    <3>. HIDE DEF n
    <3>. QED  BY <1>2, <3>1, <3>2
  <2>3. ASSUME NEW y \in Bodies, blocks[y] # <<>>
        PROVE  FALSE
    <3>1. Len(stack) >= 2 /\ stack[2].k = "join"
      BY <1>1, <1>2, <2>2
    <3>2. PICK z \in 1..made : from[z] = Block(Main).id /\ ~Over(z)
      BY <1>0, <1>8, <2>3, <3>1, Anchor
    <3>. QED  BY <1>0, <1>2, <1>5, <2>1, <3>2, DrainedBlock
  <2>. QED  BY <2>1, <2>2, <2>3
<1>9. innermost_open = Block(d).si
  <2>1. CASE style = "sync"
    <3>1. \A k \in ((n - 1) + 1)..Len(stack) : ~IsCode(k)
      <4>1. \A k \in ((n - 1) + 1)..Len(stack) : k = n
        BY <1>2
      <4>. QED  BY <1>2, <4>1
    <3>2. PICK c \in 1..Len(stack) : stack[c] = Code(d) /\ \A k \in (c + 1)..Len(stack) : ~IsCode(k)
      BY <1>2, <3>1
    <3>. QED  BY <1>0, <1>2, <2>1, <3>2, InnermostNested
  <2>2. CASE style = "split"
    <3>1. d = Main /\ Inside(Main) /\ Len(blocks[Main]) <= 1 /\ \A y \in Bodies : blocks[y] = <<>>
      BY <1>0, <1>2, <1>8, <2>2 DEF JInv, Flat
    <3>. QED  BY <1>0, <3>1, InnermostMain
  <2>. QED  BY <1>k, <2>1, <2>2
<1>10. Fewer /\ \A y \in Coroutines \ {d} : blocks'[y] = blocks[y]
  BY <1>0, <1>2, <1>6, ShorterBlocks, Shorter DEF IInv, Inside
<1>11. NoneFresh
  BY <1>0, <1>2, <1>10, StaleBlocks DEF JInv
<1>12. EmptiesWell
  <2>1. ASSUME style = "split", NEW y \in Bodies
        PROVE  blocks'[y] = <<>>
    <3>1. y \in Coroutines /\ y # d
      BY <1>0, <1>8, <2>1, Types, BodyTypes DEF Main
    <3>. QED  BY <1>8, <1>10, <2>1, <3>1
  <2>. QED  BY <2>1 DEF EmptiesWell
<1>13. ~Entered /\ stack'[Len(stack')] = Code(d)
  <2>1. stack'[Len(stack')] = Code(d)
    BY <1>7
  <2>. QED  BY <2>1 DEF Entered, Code
<1>. QED  BY <1>2, <1>5, <1>6, <1>7, <1>9, <1>11, <1>12, <1>13, ShutKeeps

\* A block that is opened is new, on top of the table, or it was there before.
NewBlock(x, y, i) == y = x /\ i = Len(blocks[x]) + 1
OldBlock(y, i) == i \in DOMAIN blocks[y] /\ blocks'[y][i] = blocks[y][i]
LEMMA OpenEach ==
  ASSUME IInv, Slotted, NEW x \in Coroutines, NEW split \in BOOLEAN, Open(x, split),
         NEW y \in Coroutines, NEW i \in DOMAIN blocks'[y]
  PROVE  /\ i \in Nat /\ Len(blocks[x]) \in Nat /\ Len(closed) \in Nat
         /\ \/ NewBlock(x, y, i) /\ blocks'[y][i].si = Len(closed) + 1 /\ blocks'[y][i].split = split
            \/ /\ OldBlock(y, i) /\ blocks'[y][i].si \in 1..Len(closed)
               /\ y = x => i < Len(blocks[x]) + 1
<1>1. Len(blocks[x]) \in Nat /\ Len(closed) \in Nat /\ DOMAIN blocks[x] = 1..Len(blocks[x])
  BY OpenBlocks, OpenTable
<1>2. CASE y = x
  <2>1. i \in 1..(Len(blocks[x]) + 1)
    BY <1>2, OpenBlocks
  <2>2. CASE i = Len(blocks[x]) + 1
    BY <1>1, <1>2, <2>1, <2>2, OpenBlocks DEF NewBlock
  <2>3. CASE i # Len(blocks[x]) + 1
    <3>1. i \in 1..Len(blocks[x]) /\ i \in Nat /\ i < Len(blocks[x]) + 1
      BY <1>1, <2>1, <2>3
    <3>2. OldBlock(y, i)
      BY <1>1, <1>2, <3>1, OpenBlocks DEF OldBlock
    <3>3. blocks[y][i].si \in 1..Len(closed)
      BY <3>2, OpenTable DEF OldBlock, Slotted
    <3>. QED  BY <1>1, <3>1, <3>2, <3>3 DEF OldBlock
  <2>. QED  BY <2>2, <2>3
<1>3. CASE y # x
  <2>1. blocks'[y] = blocks[y]
    BY <1>3, OpenBlocks
  <2>2. OldBlock(y, i)
    BY <2>1 DEF OldBlock
  <2>3. i \in Nat
    BY <2>2, BlockTypes DEF OldBlock
  <2>4. blocks[y][i].si \in 1..Len(closed)
    BY <2>2, OpenTable DEF OldBlock, Slotted
  <2>. QED  BY <1>1, <1>3, <2>2, <2>3, <2>4 DEF OldBlock
<1>. QED  BY <1>2, <1>3

\* Careful programs open one kind of block in their tasks; that of the top level
\* is synchronous.
LEMMA OpenKind ==
  ASSUME Context, NEW x \in Coroutines, NEW split \in BOOLEAN, Open(x, split)
  PROVE  /\ style = "sync" => ~split
         /\ style = "split" => IF x = Main THEN ~split /\ ~Inside(Main) ELSE split
<1>1. split => ~Sync(x)
  BY DEF Open
<1>2. split = Uniform("split") \/ (x = Main /\ ~Inside(Main))
  BY DEF Open, Context, Careful
<1>3. Uniform("split") <=> style = "split"
  BY DEF Context, Careful, Uniform
<1>4. x = Main => Sync(x)
  BY DEF Sync
<1>. QED  BY <1>1, <1>2, <1>3, <1>4

LEMMA OpenNested ==
  ASSUME Context, NEW x \in Coroutines, NEW split \in BOOLEAN, Open(x, split)
  PROVE  Nested'
<1>0. IInv /\ Slotted /\ Nested /\ NotReentered
  BY DEF Context, JInv, IInv
<1>1. Running(x) /\ wait[x] = Awake /\ stack' = stack /\ wait' = wait /\ style' = style
  BY DEF Open, InCode
<1>2. /\ stack[Len(stack)] = Code(x) /\ Len(stack) \in 1..Len(stack) /\ DOMAIN stack = 1..Len(stack)
      /\ Len(stack) \in Nat
  BY <1>0, <1>1, CodeOnTop, Frames
<1>3. SUFFICES ASSUME style = "sync"
               PROVE  /\ \A y \in Coroutines : blocks'[y] # <<>> => OnStack(y) /\ wait[y] = Awake
                      /\ \A y \in Coroutines : \A i \in DOMAIN blocks'[y] : ~blocks'[y][i].split
                      /\ \A y, z \in Coroutines : \A i \in DOMAIN blocks'[y], j \in DOMAIN blocks'[z] :
                           \A k, l \in DOMAIN stack :
                             stack[k] = Code(y) /\ stack[l] = Code(z) /\ (k < l \/ (k = l /\ i < j)) =>
                               blocks'[y][i].si < blocks'[z][j].si
  BY <1>1 DEF Nested, OnStack
<1>4. ASSUME NEW y \in Coroutines, blocks'[y] # <<>>
      PROVE  OnStack(y) /\ wait[y] = Awake
  <2>1. CASE y = x
    BY <1>1, <1>2, <2>1 DEF OnStack
  <2>2. CASE y # x
    <3>1. blocks[y] # <<>>
      BY <1>0, <1>4, <2>2, OpenBlocks
    <3>. QED  BY <1>0, <1>3, <3>1 DEF Nested
  <2>. QED  BY <2>1, <2>2
<1>5. ASSUME NEW y \in Coroutines, NEW i \in DOMAIN blocks'[y]
      PROVE  ~blocks'[y][i].split
  <2>1. ~split
    BY <1>3, OpenKind
  <2>2. blocks'[y][i].split = split \/ OldBlock(y, i)
    BY <1>0, <1>5, OpenEach
  <2>. QED  BY <1>0, <1>3, <2>1, <2>2 DEF Nested, OldBlock
<1>6. ASSUME NEW k \in DOMAIN stack, stack[k] = Code(x)
      PROVE  k = Len(stack)
  BY <1>0, <1>2, <1>6 DEF NotReentered, Code
<1>7. ASSUME NEW y \in Coroutines, NEW z \in Coroutines, NEW i \in DOMAIN blocks'[y],
             NEW j \in DOMAIN blocks'[z], NEW k \in DOMAIN stack, NEW l \in DOMAIN stack,
             stack[k] = Code(y), stack[l] = Code(z), k < l \/ (k = l /\ i < j)
      PROVE  blocks'[y][i].si < blocks'[z][j].si
  <2>1. k \in Nat /\ l \in Nat /\ k <= Len(stack) /\ l <= Len(stack)
    BY <1>2
  <2>2. /\ i \in Nat /\ Len(blocks[x]) \in Nat /\ Len(closed) \in Nat
        /\ \/ NewBlock(x, y, i) /\ blocks'[y][i].si = Len(closed) + 1
           \/ /\ OldBlock(y, i) /\ blocks'[y][i].si \in 1..Len(closed)
              /\ y = x => i < Len(blocks[x]) + 1
    BY <1>0, OpenEach
  <2>3. /\ j \in Nat
        /\ \/ NewBlock(x, z, j) /\ blocks'[z][j].si = Len(closed) + 1
           \/ /\ OldBlock(z, j) /\ blocks'[z][j].si \in 1..Len(closed)
              /\ z = x => j < Len(blocks[x]) + 1
    BY <1>0, OpenEach
  <2>4. CASE NewBlock(x, y, i)
    <3>1. y = x /\ i = Len(blocks[x]) + 1 /\ k = Len(stack)
      BY <1>6, <1>7, <2>4 DEF NewBlock
    <3>2. k = l /\ i < j
      BY <1>2, <1>7, <2>1, <3>1
    <3>3. z = x
      BY <1>7, <3>1, <3>2 DEF Code
    <3>4. j = Len(blocks[x]) + 1 \/ j < Len(blocks[x]) + 1
      BY <2>3, <3>3 DEF NewBlock
    <3>. QED  BY <2>2, <2>3, <3>1, <3>2, <3>4
  <2>5. CASE OldBlock(y, i) /\ blocks'[y][i].si \in 1..Len(closed) /\ ~NewBlock(x, z, j)
    <3>1. OldBlock(z, j)
      BY <2>3, <2>5
    <3>2. blocks[y][i].si < blocks[z][j].si
      BY <1>0, <1>3, <1>7, <2>5, <3>1 DEF Nested, OldBlock
    <3>. QED  BY <2>5, <3>1, <3>2 DEF OldBlock
  <2>6. CASE blocks'[y][i].si \in 1..Len(closed) /\ NewBlock(x, z, j)
    <3>1. blocks'[z][j].si = Len(closed) + 1
      <4>1. ~(z = x /\ j < Len(blocks[x]) + 1)
        BY <2>2, <2>6 DEF NewBlock
      <4>. QED  BY <2>3, <2>6, <4>1 DEF NewBlock
    <3>. QED  BY <2>2, <2>6, <3>1
  <2>. QED  BY <2>2, <2>4, <2>5, <2>6
<1>. QED  BY <1>4, <1>5, <1>7

LEMMA OpenFlat ==
  ASSUME Context, NEW x \in Coroutines, NEW split \in BOOLEAN, Open(x, split)
  PROVE  Flat'
<1>0. IInv /\ Slotted /\ Flat
  BY DEF Context, JInv
<1>1. Running(x) /\ stack' = stack /\ style' = style /\ handle' = handle
  BY DEF Open, InCode
<1>2. SUFFICES ASSUME style = "split"
               PROVE  /\ Len(blocks'[Main]) <= 1
                      /\ \A y \in Bodies : \A i \in DOMAIN blocks'[y] : blocks'[y][i].split
                      /\ blocks'[Main] # <<>> /\ Len(stack) >= 2 => stack[2].k = "join"
                      /\ Len(stack) = 1 => \A y \in Bodies : blocks'[y] = <<>>
                      /\ \A y \in Bodies : Bare(y) /\ blocks'[y] # <<>> =>
                           Len(stack) >= 2 /\ stack[2].k = "await" /\ stack[2].t = y
  BY <1>0, <1>1 DEF Flat, IsCode, Bare
<1>3. /\ Main \in Coroutines /\ Bodies \subseteq Coroutines /\ Len(stack) \in Nat
      /\ \A y \in Bodies : y # Main
      /\ \A y \in Coroutines \ {x} : blocks'[y] = blocks[y]
  <2>1. \A y \in Bodies : y # Main
    BY <1>0, BodyTypes DEF Main
  <2>. QED  BY <1>0, <2>1, Types, Frames, OpenBlocks
<1>4. IF x = Main THEN ~split /\ ~Inside(Main) ELSE split
  BY <1>2, OpenKind
<1>5. Len(blocks'[Main]) <= 1
  <2>1. CASE x = Main
    <3>1. Len(blocks[Main]) = 0
      BY <1>0, <1>3, <1>4, <2>1, BlockTypes DEF Inside
    <3>2. Len(blocks'[Main]) = Len(blocks[Main]) + 1
      BY <1>0, <2>1, OpenBlocks
    <3>. QED  BY <3>1, <3>2
  <2>2. CASE x # Main
    BY <1>0, <1>2, <1>3, <2>2 DEF Flat
  <2>. QED  BY <2>1, <2>2
<1>6. ASSUME NEW y \in Bodies, NEW i \in DOMAIN blocks'[y]
      PROVE  blocks'[y][i].split
  <2>1. (NewBlock(x, y, i) /\ blocks'[y][i].split = split) \/ OldBlock(y, i)
    BY <1>0, <1>3, <1>6, OpenEach
  <2>2. CASE NewBlock(x, y, i) /\ blocks'[y][i].split = split
    BY <1>3, <1>4, <2>2 DEF NewBlock
  <2>3. CASE OldBlock(y, i)
    BY <1>0, <1>2, <2>3 DEF OldBlock, Flat
  <2>. QED  BY <2>1, <2>2, <2>3
<1>7. ASSUME blocks'[Main] # <<>>, Len(stack) >= 2
      PROVE  stack[2].k = "join"
  <2>1. x # Main
    <3>1. x = Main => Len(stack) = 1
      BY <1>0, <1>1, MainAlone
    <3>2. \A n \in Nat : n >= 2 => n # 1
      OBVIOUS
    <3>3. Len(stack) # 1
      BY <1>3, <1>7, <3>2
    <3>. QED  BY <3>1, <3>3
  <2>. QED  BY <1>0, <1>2, <1>3, <1>7, <2>1 DEF Flat
<1>8. ASSUME Len(stack) = 1, NEW y \in Bodies
      PROVE  blocks'[y] = <<>>
  <2>1. x = Main
    <3>1. x # Main => Len(stack) >= 3
      BY <1>0, <1>1, CodeOnTop
    <3>. QED  BY <1>8, <3>1
  <2>. QED  BY <1>0, <1>2, <1>3, <1>8, <2>1 DEF Flat
<1>9. ASSUME NEW y \in Bodies, Bare(y), blocks'[y] # <<>>
      PROVE  Len(stack) >= 2 /\ stack[2].k = "await" /\ stack[2].t = y
  <2>1. CASE y # x
    BY <1>0, <1>2, <1>3, <1>9, <2>1 DEF Flat
  <2>2. CASE y = x
    <3>1. /\ Len(stack) >= 3 /\ ~IsCode(Len(stack) - 1) /\ PollOf(Len(stack))
          /\ stack[Len(stack)].x = x
      BY <1>0, <1>1, <1>3, <2>2, CodeOnTop
    <3>2. stack[Len(stack) - 1].k = "await" /\ stack[Len(stack) - 1].t = x
      BY <1>9, <2>2, <3>1 DEF PollOf
    <3>3. Len(stack) - 1 \notin 3..Len(stack)
      BY <1>0, <1>2, <3>1, <3>2 DEF Flat
    <3>4. \A n \in Nat : n >= 3 /\ n - 1 \notin 3..n => n - 1 = 2 /\ n >= 2
      OBVIOUS
    <3>5. Len(stack) - 1 = 2 /\ Len(stack) >= 2
      BY <1>3, <3>1, <3>3, <3>4
    <3>. QED  BY <2>2, <3>2, <3>5
  <2>. QED  BY <2>1, <2>2
<1>. QED  BY <1>5, <1>6, <1>7, <1>8, <1>9

LEMMA OpenFresh ==
  ASSUME Context, NEW x \in Coroutines, NEW split \in BOOLEAN, Open(x, split)
  PROVE  FreshOnTop'
<1>0. IInv /\ Slotted /\ FreshOnTop
  BY DEF Context, JInv
<1>1. Running(x) /\ wait[x] = Awake /\ stack' = stack /\ wait' = wait
  BY DEF Open, InCode
<1>2. stack[Len(stack)] = Code(x)
  BY <1>0, <1>1, CodeOnTop
<1>3. SUFFICES ASSUME NEW y \in Coroutines, NEW i \in DOMAIN blocks'[y], blocks'[y][i].fresh
               PROVE  /\ stack[Len(stack)] = Code(y) /\ wait[y] = Awake
                      /\ \A z \in Coroutines : \A j \in DOMAIN blocks'[z] :
                           blocks'[z][j].si > blocks'[y][i].si => z = y /\ j > i
  BY <1>1 DEF FreshOnTop
<1>4. y = x
  <2>1. NewBlock(x, y, i) \/ OldBlock(y, i)
    BY <1>0, OpenEach
  <2>2. CASE OldBlock(y, i)
    <3>1. stack[Len(stack)] = Code(y)
      BY <1>0, <1>3, <2>2 DEF OldBlock, FreshOnTop
    <3>. QED  BY <1>2, <3>1 DEF Code
  <2>. QED  BY <2>1, <2>2 DEF NewBlock
<1>5. ASSUME NEW z \in Coroutines, NEW j \in DOMAIN blocks'[z], blocks'[z][j].si > blocks'[y][i].si
      PROVE  z = y /\ j > i
  <2>1. /\ i \in Nat /\ Len(blocks[x]) \in Nat /\ Len(closed) \in Nat
        /\ \/ NewBlock(x, y, i) /\ blocks'[y][i].si = Len(closed) + 1
           \/ /\ OldBlock(y, i) /\ blocks'[y][i].si \in 1..Len(closed)
              /\ y = x => i < Len(blocks[x]) + 1
    BY <1>0, <1>3, OpenEach
  <2>2. /\ j \in Nat
        /\ \/ NewBlock(x, z, j) /\ blocks'[z][j].si = Len(closed) + 1
           \/ OldBlock(z, j) /\ blocks'[z][j].si \in 1..Len(closed)
    BY <1>0, OpenEach
  <2>3. OldBlock(y, i) /\ i < Len(blocks[x]) + 1
    <3>1. blocks'[y][i].si # Len(closed) + 1
      BY <1>5, <2>1, <2>2
    <3>. QED  BY <1>4, <2>1, <3>1
  <2>4. CASE NewBlock(x, z, j)
    BY <1>4, <2>1, <2>2, <2>3, <2>4 DEF NewBlock
  <2>5. CASE OldBlock(z, j)
    BY <1>0, <1>3, <1>5, <2>3, <2>5 DEF OldBlock, FreshOnTop
  <2>. QED  BY <2>2, <2>4, <2>5
<1>. QED  BY <1>1, <1>2, <1>4, <1>5

LEMMA OpenKeeps ==
  ASSUME Context, NEW x \in Coroutines, NEW split \in BOOLEAN, Open(x, split)
  PROVE  JInv'
<1>0. IInv /\ IInv' /\ JInv /\ Lineage /\ Slotted /\ Placed /\ Finished
  BY DEF Context, JInv
<1>1. /\ Running(x) /\ stack' = stack /\ task' = task /\ handle' = handle /\ style' = style
      /\ mode' = mode /\ made' = made /\ left' = left
  BY DEF Open, InCode, ghost
<1>2. x <= made /\ stack[Len(stack)] = Code(x) /\ Len(stack) \in 1..Len(stack)
  <2>1. CASE x = Main
    BY <1>0, <1>1, <2>1, Types, CodeOnTop, Frames
  <2>2. CASE x # Main
    <3>1. x \in 1..made
      BY <1>0, <1>1, <2>2, CodeOnTop
    <3>. QED  BY <1>0, <1>1, <3>1, Types, CodeOnTop, Frames
  <2>. QED  BY <2>1, <2>2
<1>3. Lineage' /\ Slotted' /\ Placed'
  BY <1>0, <1>2, TableOpened
<1>4. SameCode /\ EntersWell
  BY <1>0, <1>1, StaysCode
<1>5. PollsWell /\ TaskStep
  BY <1>0, <1>1, <1>4, SameCodeFacts DEF Context
<1>6. Finished'
  <2>1. ASSUME NEW t \in Bodies, Over(t)
        PROVE  blocks'[t] = <<>>
    <3>1. blocks[t] = <<>> /\ ~OnStack(t) /\ t \in Coroutines
      BY <1>0, <2>1, Types DEF Finished
    <3>2. t # x
      BY <1>2, <3>1 DEF OnStack
    <3>. QED  BY <1>0, <3>1, <3>2, OpenBlocks
  <2>. QED  BY <1>0, <1>1, <2>1 DEF Finished, Over, Done, OnStack, DrivenBare, Bare
<1>7. Standing'
  BY <1>0, <1>5, StandingKept DEF Context, JInv
<1>8. JoinsLast'
  <2>1. ~Entered
    <3>1. stack'[Len(stack')] = Code(x)
      BY <1>1, <1>2
    <3>. QED  BY <3>1 DEF Entered, Code
  <2>2. stack'[Len(stack')] = Code(x) /\ \A y \in Coroutines \ {x} : blocks'[y] = blocks[y]
    BY <1>0, <1>1, <1>2, OpenBlocks
  <2>. QED  BY <1>0, <1>4, <2>1, <2>2, JoinsLastKept DEF Context, JInv
<1>9. JoinsOwn'
  <2>1. made' # made + 1
    BY <1>0, <1>1, Types
  <2>. QED  BY <1>0, <1>1, <1>5, <2>1, JoinsOwnKept DEF Context, JInv
<1>10. Calm'
  BY <1>0, <1>1 DEF JInv, Calm
<1>. QED  BY <1>3, <1>6, <1>7, <1>8, <1>9, <1>10, OpenNested, OpenFlat, OpenFresh DEF JInv

--------------------------------------------------------------------------------
(* The theorems.                                                            *)

LEMMA JInit ==
  ASSUME Init
  PROVE  JInv
<1>1. /\ made = 0 /\ opened = 0 /\ left = {} /\ closed = <<>> /\ scopes = <<>>
      /\ stack = <<Code(Main)>> /\ mode = "running" /\ style \in Styles
      /\ blocks = [x \in Coroutines |-> <<>>]
      /\ task = [t \in Bodies |-> [result |-> 0, cancelled |-> FALSE, polling |-> FALSE]]
      /\ handle = [t \in Bodies |-> Nowhere]
  BY DEF Init
<1>2. Bodies \subseteq Coroutines /\ Main \in Coroutines /\ Main \notin Bodies
  BY TaskBounds DEF Bodies, Coroutines, Main
<1>3. \A x \in Coroutines : blocks[x] = <<>> /\ DOMAIN blocks[x] = {} /\ Len(blocks[x]) = 0
  BY <1>1
<1>4. Len(stack) = 1 /\ DOMAIN stack = 1..1 /\ OpenSlots = {} /\ 1..made = {}
  BY <1>1 DEF OpenSlots
<1>5. \A t \in Bodies : /\ ~Over(t) /\ Bare(t) /\ task[t].result = 0 /\ ~task[t].polling
                        /\ blocks[t] = <<>>
  BY <1>1, <1>2, <1>3 DEF Over, Done, Bare
<1>6. Lineage /\ Placed
  BY <1>1, <1>3, <1>4, <1>5 DEF Lineage, Placed
<1>7. Slotted
  BY <1>1, <1>3, <1>4 DEF Slotted
<1>8. Finished
  BY <1>5 DEF Finished
<1>9. Standing /\ JoinsLast
  <2>1. 2..Len(stack) = {}
    BY <1>4
  <2>. QED  BY <2>1 DEF Standing, JoinsLast
<1>10. FreshOnTop /\ Nested
  BY <1>3 DEF FreshOnTop, Nested
<1>11. Flat
  <2>1. 3..Len(stack) = {} /\ ~(Len(stack) >= 2)
    BY <1>4
  <2>. QED  BY <1>2, <1>3, <2>1 DEF Flat
<1>12. Calm
  BY <1>1, TaskBounds DEF Calm
<1>13. JoinsOwn
  BY <1>4 DEF JoinsOwn
<1>. QED  BY <1>6, <1>7, <1>8, <1>9, <1>10, <1>11, <1>12, <1>13 DEF JInv

LEMMA StepContext ==
  ASSUME Careful, IInv, JInv, Next
  PROVE  Context
<1>1. IInv'
  BY NextKeeps
<1>2. DataStep
  BY TypesSteps, TableSteps, HandleSteps, MainSteps DEF DataStep
<1>3. StackStep
  BY StackSteps
<1>. QED  BY <1>1, <1>2, <1>3 DEF Context

LEMMA JNext ==
  ASSUME Careful, IInv, JInv, Next
  PROVE  JInv'
<1>1. Context
  BY StepContext
<1>2. ASSUME NEW x \in Coroutines, Body(x)
      PROVE  JInv'
  <2>1. ASSUME ResumeCancelled(x)
        PROVE  JInv'
    <3>1. /\ mode' # "panic" /\ style' = style
          /\ UNCHANGED <<scopes, closed, handle, from, opened, left, made, blocks, wait, stack, task>>
      BY <2>1 DEF ResumeCancelled, sched, code, used, ghost
    <3>. QED  BY <1>1, <3>1, AbortKeeps
  <2>2. ASSUME NEW t \in Named(x), cancel_task(x, t)
        PROVE  JInv'
    BY <1>1, <2>2, CancelKeeps
  <2>3. ASSUME NEW t \in Named(x), NEW how \in {"await", "join_task"}, Await(x, t, how)
        PROVE  JInv'
    BY <1>1, <2>3, AwaitKeeps
  <2>4. ASSUME NEW split \in BOOLEAN, Open(x, split)
        PROVE  JInv'
    BY <1>1, <2>4, OpenKeeps
  <2>. QED  BY <1>1, <1>2, <2>1, <2>2, <2>3, <2>4, SpawnKeeps, NapKeeps, AwaitBareKeeps, EndBlockKeeps,
               ReturnKeeps, ResumeAwaitKeeps, ResumeJoinKeeps, SuspendKeeps DEF Body
<1>3. ASSUME Scheduler
      PROVE  JInv'
  BY <1>1, <1>3, DriveReadyKeeps, DriveCancelledKeeps, DriveBareKeeps, BeginRoundKeeps,
     RoundPollKeeps, ScopeEndKeeps, RoundAgainKeeps DEF Scheduler
<1>4. ASSUME Exited
      PROVE  JInv'
  <2>1. /\ mode' # "panic" /\ style' = style
        /\ UNCHANGED <<scopes, closed, handle, from, opened, left, made, blocks, wait, stack, task>>
    BY <1>4 DEF Exited, vars, sched, code, used, ghost, JInv, Calm
  <2>. QED  BY <1>1, <2>1, AbortKeeps
<1>. QED  BY <1>2, <1>3, <1>4 DEF Next

LEMMA JStutter ==
  ASSUME JInv, UNCHANGED vars
  PROVE  JInv'
<1>1. UNCHANGED <<scopes, closed, handle, from, opened, left, made, blocks, wait, stack, task,
                  mode, style>>
  BY DEF vars, sched, code, used, ghost
<1>2. Lineage' /\ Slotted' /\ Placed'
  BY <1>1 DEF JInv, Lineage, Slotted, Placed, OpenSlots, Bare, At
<1>3. Finished'
  BY <1>1 DEF JInv, Finished, Over, Done, OnStack, DrivenBare, Bare
<1>4. Standing' /\ FreshOnTop' /\ JoinsLast'
  BY <1>1 DEF JInv, Standing, IsCode, FreshOnTop, JoinsLast
<1>5. Nested'
  BY <1>1 DEF JInv, Nested, OnStack
<1>6. Flat' /\ Calm'
  BY <1>1 DEF JInv, Flat, IsCode, Bare, Calm
<1>7. JoinsOwn'
  BY <1>1 DEF JInv, JoinsOwn, Over, Done
<1>. QED  BY <1>2, <1>3, <1>4, <1>5, <1>6, <1>7 DEF JInv

\* The inductive invariant behind the theorems below.
THEOREM JoinInvariance == Careful => (Spec => []JInv)
<1>. SUFFICES ASSUME Careful PROVE Spec => []JInv
  OBVIOUS
<1>1. Init => JInv
  BY JInit
<1>2. IInv /\ JInv /\ [Next]_vars => JInv'
  BY JNext, JStutter
<1>. QED  BY <1>1, <1>2, Invariance, PTL DEF Spec

\* "every block joins all of its tasks before it returns" (docs/Concurrency.md):
\* for every program without careless habits, `ScopeEnd` and `ScopeEndAt` go
\* past the end of a block only when each task spawned in it has a result or
\* was cancelled, however blocks, drives and rounds nest on the native stack.
THEOREM BlocksJoinTheirOwn == Careful => (Spec => []JoinsOwn)
<1>. SUFFICES ASSUME Careful PROVE Spec => []JoinsOwn
  OBVIOUS
<1>1. JInv => JoinsOwn
  BY DEF JInv
<1>. QED  BY <1>1, JoinInvariance, PTL

\* One slot for each block.
LEMMA SlotsMatch ==
  ASSUME IInv, Lineage, Slotted,
         NEW inside, inside = {p \in Coroutines \X (1..MaxBlocks) : p[2] \in DOMAIN blocks[p[1]]}
  PROVE  /\ {blocks[p[1]][p[2]].si : p \in inside} = OpenSlots
         /\ Cardinality(inside) = Cardinality(OpenSlots)
<1>. DEFINE f == [p \in inside |-> blocks[p[1]][p[2]].si]
<1>1. ASSUME NEW p \in inside
      PROVE  p[1] \in Coroutines /\ p[2] \in DOMAIN blocks[p[1]] /\ p = <<p[1], p[2]>>
  BY <1>1
<1>2. ASSUME NEW p \in inside
      PROVE  blocks[p[1]][p[2]].si \in OpenSlots
  BY <1>1, <1>2 DEF Slotted
<1>3. ASSUME NEW s \in OpenSlots
      PROVE  \E p \in inside : blocks[p[1]][p[2]].si = s
  <2>1. PICK x \in Coroutines : \E i \in DOMAIN blocks[x] : blocks[x][i].si = s
    BY <1>3 DEF Slotted
  <2>2. PICK i \in DOMAIN blocks[x] : blocks[x][i].si = s
    BY <2>1
  <2>3. i \in 1..MaxBlocks
    <3>1. i \in Nat /\ i >= 1
      BY <2>2, BlockTypes
    <3>2. blocks[x][i].id \in i..opened
      BY <2>2 DEF Lineage
    <3>. QED  BY <3>1, <3>2, Types
  <2>4. <<x, i>> \in inside /\ <<x, i>>[1] = x /\ <<x, i>>[2] = i
    BY <2>2, <2>3
  <2>. QED  BY <2>2, <2>4
<1>4. f \in [inside -> OpenSlots] /\ \A p \in inside : f[p] = blocks[p[1]][p[2]].si
  BY <1>2
<1>. HIDE DEF f
<1>5. f \in Injection(inside, OpenSlots)
  <2>1. ASSUME NEW p \in inside, NEW q \in inside, f[p] = f[q]
        PROVE  p = q
    <3>1. p[1] = q[1] /\ p[2] = q[2]
      BY <1>1, <1>4, <2>1 DEF Slotted
    <3>. QED  BY <1>1, <3>1
  <2>. QED  BY <1>4, <2>1 DEF Injection, IsInjective
<1>6. f \in Surjection(inside, OpenSlots)
  BY <1>3, <1>4 DEF Surjection
<1>7. IsFiniteSet(OpenSlots)
  BY SlotsFinite DEF IInv
<1>8. Cardinality(inside) = Cardinality(OpenSlots)
  BY <1>5, <1>6, <1>7, FS_Injection
<1>9. {blocks[p[1]][p[2]].si : p \in inside} = OpenSlots
  BY <1>2, <1>3
<1>. QED  BY <1>8, <1>9

LEMMA ExactFacts ==
  ASSUME IInv, JInv, TypeOK
  PROVE  ScopesExact
<1>. DEFINE inside == {p \in Coroutines \X (1..MaxBlocks) : p[2] \in DOMAIN blocks[p[1]]}
<1>1. mode # "panic" /\ Lineage /\ Slotted /\ Placed /\ Finished
  BY DEF JInv, Calm
<1>2. /\ {blocks[p[1]][p[2]].si : p \in inside} = OpenSlots
      /\ Cardinality(inside) = Cardinality(OpenSlots)
  <2>1. PICK I : I = inside
    OBVIOUS
  <2>. QED  BY <1>1, <2>1, SlotsMatch
<1>3. ASSUME NEW p \in inside, NEW t \in 1..made, from[t] = blocks[p[1]][p[2]].id
      PROVE  /\ At(handle[t][1], handle[t][2]) /\ scopes[handle[t][1]][handle[t][2]] = t
             /\ task[t].result \in {0, t}
  <2>1. p[1] \in Coroutines /\ p[2] \in DOMAIN blocks[p[1]]
    BY <1>3
  <2>2. At(handle[t][1], handle[t][2]) /\ scopes[handle[t][1]][handle[t][2]] = t
    BY <1>1, <1>3, <2>1 DEF Placed
  <2>3. t \in Bodies
    BY BodyTypes
  <2>. QED  BY <1>1, <2>2, <2>3 DEF Finished
<1>. QED  BY <1>1, <1>2, <1>3 DEF ScopesExact

\* The scope table of scheduler.rs is exact for every program without careless
\* habits: its open slots are the blocks programs are inside, one each, no join
\* or round finds its index out of range, and while a block is open the handle
\* of each of its tasks, a pair of indices, names that task.
THEOREM ScopesAreExact == Careful => (Spec => []ScopesExact)
<1>. SUFFICES ASSUME Careful PROVE Spec => []ScopesExact
  OBVIOUS
<1>1. IInv /\ JInv /\ TypeOK => ScopesExact
  BY ExactFacts
<1>. QED  BY <1>1, Invariance, JoinInvariance, TypesAreKept, PTL
================================================================================
