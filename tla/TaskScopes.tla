----------------------------- MODULE TaskScopes -----------------------------
(***************************************************************************)
(* Structured concurrency on one scheduler (crates/noeta-vm, scheduler.rs  *)
(* and the scope instructions of dispatch.rs): the stack of scopes with    *)
(* its tombstones, tasks polled in rounds, the join of a block, the drive  *)
(* of an await, handles, cancellation, and the native stack that grows     *)
(* when a poll starts a join of its own.                                   *)
(*                                                                         *)
(* A body is any sequence of the steps a program can take.  Blocks come in *)
(* the two forms the lowering produces: the one of synchronous code, ended *)
(* by ScopeEnd on the innermost scope, and the one of an async fn, split   *)
(* into states and closed at the index it captured.                        *)
(***************************************************************************)
EXTENDS Integers, Sequences, FiniteSets, SequencesExt, FiniteSetsExt

CONSTANTS
    MaxTasks,   \* bound on the bodies started, spawned or awaited bare
    MaxBlocks,  \* bound on the concurrent blocks opened
    MaxWaits,   \* bound on the awaits, of timers and of tasks
    MaxCancels, \* bound on the cancellations asked for
    Styles,     \* the kinds of block programs may open in their tasks
    Careless    \* what programs may do that the scheduler does not guard against

Habits == {"mixes block kinds", "spawns late", "waits above tasks",
           "leaves tasks behind", "cancels a busy task", "returns early"}

ASSUME TaskBounds ==
    /\ {MaxTasks, MaxBlocks} \subseteq Nat \ {0}
    /\ {MaxWaits, MaxCancels} \subseteq Nat
    /\ Styles \subseteq {"sync", "split"} /\ Styles # {}
    /\ Careless \subseteq Habits

Main == 0
Bodies == 1..MaxTasks
Coroutines == 0..MaxTasks
Nowhere == <<0, 0>>
\* Where a coroutine is parked: nowhere, at a timer, at the join of its block,
\* or at the handle of a body.
Awake == 0
AtTimer == -1
AtJoin == -2

VARIABLES
    scopes,     \* sched.scopes: the tasks of every slot, in spawn order
    closed,     \* sched.scope_closed: the tombstones
    task,       \* result, cancelled and polling of the Task records
    handle,     \* the (scope, task) pair the handle of a body carries
    blocks,     \* the concurrent blocks a coroutine is inside, outermost first
    wait,       \* the suspension point a coroutine is parked at
    timers,     \* coroutines with a timer registered in the executor
    stack,      \* native frames: code, and the join and drive loops under it
    mode,       \* "running", "ended", or the abort that ended the run
    style,      \* the kind of block this program opens in its tasks
    made, opened, waits, cancels,  \* how much of each bound is used
    from,       \* ghost: the block each body was spawned in
    left,       \* ghost: blocks the program has run past the end of
    nested      \* ghost: some poll has run a loop of its own

sched == <<scopes, closed, task, handle, timers>>
code == <<blocks, wait>>
used == <<made, opened, waits, cancels>>
ghost == <<from, left, nested>>
vars == <<sched, code, stack, mode, style, used, ghost>>

----------------------------------------------------------------------------
(* The scope table.                                                        *)

Done(t) == task[t].result # 0
Over(t) == Done(t) \/ task[t].cancelled
At(si, ti) == si \in DOMAIN scopes /\ ti \in DOMAIN scopes[si]
InScope(si) == Range(scopes[si])

\* The highest slot that is not a tombstone.
OpenSlots == {si \in DOMAIN closed : ~closed[si]}
innermost_open == Max(OpenSlots)

\* Tombstone a slot, then drop the trailing tombstones.
Keep(flags) == LET up == {i \in DOMAIN flags : ~flags[i]}
               IN  IF up = {} THEN 0 ELSE Max(up)
\* Mutants: the slot on top is popped; a closed slot is dropped at once.
close_top(si) ==
    /\ scopes' = Front(scopes)
    /\ closed' = Front(closed)
close_compact(si) ==
    /\ scopes' = RemoveAt(scopes, si)
    /\ closed' = RemoveAt(closed, si)
close_scope(si) ==
    LET flags == [closed EXCEPT ![si] = TRUE]
    IN  /\ closed' = SubSeq(flags, 1, Keep(flags))
        /\ scopes' = SubSeq([scopes EXCEPT ![si] = <<>>], 1, Keep(flags))

\* ScopeReady: an index out of range reads ready.
ScopeReady(si) == si \in DOMAIN scopes => \A t \in InScope(si) : Over(t)

\* Polling a handle reads the task at its place; no task there reads as unit.
HandleReady(t) ==
    LET si == handle[t][1]  ti == handle[t][2]
    IN  At(si, ti) => Done(scopes[si][ti])
HandleCancelled(t) ==
    LET si == handle[t][1]  ti == handle[t][2]
    IN  At(si, ti) /\ task[scopes[si][ti]].cancelled /\ ~Done(scopes[si][ti])

\* The first task at or after a place of the table that a round would poll.
Before(p, q) == p[1] < q[1] \/ (p[1] = q[1] /\ p[2] <= q[2])
\* Mutant: the polling test is missing.
PollableNested(t) == ~Done(t) /\ ~task[t].cancelled
Pollable(t) == ~Done(t) /\ ~task[t].cancelled /\ ~task[t].polling
Due(at) ==
    {p \in UNION {{si} \X DOMAIN scopes[si] : si \in DOMAIN scopes} :
        Before(at, p) /\ Pollable(scopes[p[1]][p[2]])}
First(places) == CHOOSE p \in places : \A q \in places : Before(p, q)

----------------------------------------------------------------------------
(* The native stack.  A loop frame is a join of scope si or a drive of     *)
(* body t; at is Nowhere while the loop is at its top, else the place its  *)
(* round has reached.                                                      *)

Code(x) == [k |-> "code", x |-> x]
Join(si) == [k |-> "join", t |-> Main, si |-> si, at |-> Nowhere, prog |-> FALSE]
Drive(t, how) == [k |-> how, t |-> t, si |-> 0, at |-> Nowhere, prog |-> FALSE]
Running(x) == mode = "running" /\ Last(stack) = Code(x)
InCode(x) == Running(x) /\ wait[x] = Awake
Pop == stack' = Front(stack)
Push(loop) ==
    /\ stack' = Append(stack, loop)
    /\ nested' = (nested \/ Len(stack) > 1)
    /\ UNCHANGED <<from, left>>
Under == stack[Len(stack) - 1]

Inside(x) == blocks[x] # <<>>
Block(x) == Last(blocks[x])
\* Synchronous code: the top level, or a function called from a task.
Sync(x) == x = Main \/ (Inside(x) /\ ~Block(x).split)
Uniform(kind) == style = kind /\ "mixes block kinds" \notin Careless
\* Once control has left a body, others may have opened scopes above its own.
Aged(x) == [blocks EXCEPT ![x] = [i \in DOMAIN @ |-> [@[i] EXCEPT !.fresh = FALSE]]]

\* The tasks x can name: those of its own blocks, and its siblings.
Mine(x) == {blocks[x][i].id : i \in DOMAIN blocks[x]}
Named(x) == {t \in 1..made : from[t] # 0
                /\ (from[t] \in Mine(x) \/ (x # Main /\ from[t] = from[x]))} \ {x}

Init ==
    /\ scopes = <<>> /\ closed = <<>> /\ timers = {}
    /\ task = [t \in Bodies |-> [result |-> 0, cancelled |-> FALSE, polling |-> FALSE]]
    /\ handle = [t \in Bodies |-> Nowhere]
    /\ blocks = [x \in Coroutines |-> <<>>]
    /\ wait = [x \in Coroutines |-> Awake]
    /\ stack = <<Code(Main)>>
    /\ mode = "running"
    /\ style \in Styles
    /\ made = 0 /\ opened = 0 /\ waits = 0 /\ cancels = 0
    /\ from = [t \in Bodies |-> 0]
    /\ left = {}
    /\ nested = FALSE

----------------------------------------------------------------------------
(* Steps of the body on top of the stack.                                  *)

\* ScopeBegin and ScopeBeginValue.
Open(x, split) ==
    /\ InCode(x)
    /\ opened < MaxBlocks
    /\ split => ~Sync(x)
    /\ \/ "mixes block kinds" \in Careless
       \/ split = Uniform("split")
       \/ x = Main /\ ~Inside(Main)
    /\ scopes' = Append(scopes, <<>>)
    /\ closed' = Append(closed, FALSE)
    /\ opened' = opened + 1
    /\ blocks' = [blocks EXCEPT ![x] = Append(@,
           [split |-> split, si |-> Len(scopes) + 1, id |-> opened + 1, fresh |-> TRUE])]
    /\ UNCHANGED <<task, handle, timers, wait, stack, mode, style, made, waits, cancels, ghost>>

\* Spawn: the task joins the innermost open scope.
Spawn(x) ==
    /\ InCode(x) /\ Inside(x) /\ made < MaxTasks
    /\ Block(x).fresh \/ Uniform("sync") \/ "spawns late" \in Careless
    /\ LET t == made + 1
           si == innermost_open
       IN  /\ made' = t
           /\ scopes' = [scopes EXCEPT ![si] = Append(@, t)]
           /\ handle' = [handle EXCEPT ![t] = <<si, Len(scopes[si]) + 1>>]
           /\ from' = [from EXCEPT ![t] = Block(x).id]
    /\ UNCHANGED <<closed, task, timers, code, stack, mode, style, opened, waits, cancels,
                   left, nested>>

\* May synchronous code drive an await?  When it does so inside its block, tasks
\* that suspend may have opened blocks above it by the end of the await, and
\* ScopeEnd takes the innermost one.  The scheduler does not guard against it;
\* a program is safe that has awaited all tasks of the block before its end.
MayDrive == Uniform("sync") \/ ~Inside(Main) \/ "waits above tasks" \in Careless
Pending(x) == {t \in Named(x) : from[t] \in Mine(x) /\ ~Over(t)}
Owes(x) == Inside(x) /\ Sync(x) /\ ~Block(x).fresh /\ ~Uniform("sync") /\ Pending(x) # {}

\* An await of a timer: a poll state in an async fn, a drive elsewhere.
Nap(x) ==
    /\ InCode(x) /\ waits < MaxWaits
    /\ Sync(x) => MayDrive
    /\ waits' = waits + 1
    /\ timers' = timers \union {x}
    /\ blocks' = Aged(x)
    /\ IF Sync(x) THEN Push(Drive(Main, "sleep")) /\ UNCHANGED wait
                  ELSE /\ wait' = [wait EXCEPT ![x] = AtTimer]
                       /\ UNCHANGED <<stack, ghost>>
    /\ UNCHANGED <<scopes, closed, task, handle, mode, style, made, opened, cancels>>

\* An await of a handle, and h.join(), which drives wherever it is called.
Await(x, t, how) ==
    /\ InCode(x) /\ t \in Named(x)
    /\ waits < MaxWaits \/ (Owes(x) /\ t \in Pending(x))
    /\ Sync(x) => MayDrive
    /\ waits' = IF waits < MaxWaits THEN waits + 1 ELSE waits
    /\ blocks' = Aged(x)
    /\ IF Sync(x) \/ how = "join_task"
       THEN Push(Drive(t, how)) /\ UNCHANGED wait
       ELSE /\ wait' = [wait EXCEPT ![x] = t]
            /\ UNCHANGED <<stack, ghost>>
    /\ UNCHANGED <<sched, mode, style, made, opened, cancels>>

\* A synchronous await of a future nobody spawned: the drive polls it itself.
AwaitBare(x) ==
    /\ InCode(x) /\ Sync(x) /\ MayDrive /\ made < MaxTasks
    /\ made' = made + 1
    /\ blocks' = Aged(x)
    /\ Push(Drive(made + 1, "await"))
    /\ UNCHANGED <<sched, wait, mode, style, opened, waits, cancels>>

\* h.cancel(), or a race that is decided.  A finished task is left alone.  The
\* code takes any other for "parked between polls"; one whose poll is under way
\* goes on and may still return, and one inside a block leaves its scope open.
Busy(t) == blocks[t] # <<>> \/ task[t].polling
cancel_task(x, t) ==
    /\ InCode(x) /\ t \in Named(x) /\ cancels < MaxCancels
    /\ Busy(t) => "cancels a busy task" \in Careless
    /\ LET si == handle[t][1]  ti == handle[t][2]
       IN  /\ At(si, ti) /\ ~Over(scopes[si][ti])
           /\ task' = [task EXCEPT ![scopes[si][ti]].cancelled = TRUE]
    /\ cancels' = cancels + 1
    /\ UNCHANGED <<scopes, closed, handle, timers, code, stack, mode, style, made, opened,
                   waits, ghost>>

\* The end of a block: synchronous code joins the innermost scope, an async
\* fn goes to its join state.
EndBlock(x) ==
    /\ InCode(x) /\ Inside(x)
    /\ Owes(x) => "leaves tasks behind" \in Careless
    /\ blocks' = Aged(x)
    /\ IF Block(x).split THEN /\ wait' = [wait EXCEPT ![x] = AtJoin]
                              /\ UNCHANGED <<stack, ghost>>
                         ELSE Push(Join(innermost_open)) /\ UNCHANGED wait
    /\ UNCHANGED <<sched, mode, style, used>>

----------------------------------------------------------------------------
(* A poll ends: the step returns to the loop frame under it.               *)

Bare(t) == handle[t] = Nowhere
Loop == Last(stack)
SetLoop(f) == stack' = Append(Front(stack), f)
Next_place(p) == <<p[1], p[2] + 1>>

\* Back in the round: the record of the task is looked up by index again.
\* u is the task now in the place the round polled.
Back(x, result) ==
    IF Under.at = Nowhere
    THEN /\ stack' = IF result # 0 THEN SubSeq(stack, 1, Len(stack) - 2)
                     ELSE Append(SubSeq(stack, 1, Len(stack) - 2),
                                 [Under EXCEPT !.at = <<1, 1>>, !.prog = FALSE])
         /\ task' = [task EXCEPT ![x].result = result]
         /\ UNCHANGED mode
    ELSE LET si == Under.at[1]  ti == Under.at[2]
         IN  IF At(si, ti)
             THEN /\ task' = [task EXCEPT ![scopes[si][ti]].polling = FALSE,
                                          ![scopes[si][ti]].result =
                                              IF result # 0 THEN result ELSE @]
                  /\ stack' = Append(SubSeq(stack, 1, Len(stack) - 2),
                                [Under EXCEPT !.at = Next_place(@),
                                              !.prog = @ \/ result # 0])
                  /\ UNCHANGED mode
             ELSE /\ mode' = "panic"
                  /\ UNCHANGED <<task, stack>>

\* The body returns its value.  A return inside a block skips the end of it, so
\* the block's scope stays open and nobody joins its tasks.
Return(x) ==
    /\ InCode(x)
    /\ Inside(x) => x # Main /\ "returns early" \in Careless
    /\ IF x = Main THEN mode' = "ended" /\ UNCHANGED <<task, stack>>
                    ELSE Back(x, x)
    /\ left' = left \union Mine(x)
    /\ UNCHANGED <<scopes, closed, handle, timers, code, style, used, from, nested>>

\* The states a step resumes in: a timer, a handle, the join of a block.
Fires(x) ==
    IF wait[x] = AtTimer THEN x \notin timers
    ELSE IF wait[x] = AtJoin THEN ScopeReady(Block(x).si)
    ELSE HandleReady(wait[x])
AwaitsCancelled(x) == wait[x] \in Bodies /\ HandleCancelled(wait[x])

ResumeAwait(x) ==
    /\ Running(x) /\ wait[x] \in {AtTimer} \union Bodies /\ Fires(x)
    /\ wait' = [wait EXCEPT ![x] = Awake]
    /\ UNCHANGED <<sched, blocks, stack, mode, style, used, ghost>>

\* ScopeEndAt, at the index captured when the block was opened.
ResumeJoin(x) ==
    /\ Running(x) /\ wait[x] = AtJoin /\ Fires(x)
    /\ IF Block(x).si \in DOMAIN scopes THEN close_scope(Block(x).si)
                                        ELSE UNCHANGED <<scopes, closed>>
    /\ left' = left \union {Block(x).id}
    /\ blocks' = [blocks EXCEPT ![x] = Front(@)]
    /\ wait' = [wait EXCEPT ![x] = Awake]
    /\ UNCHANGED <<task, handle, timers, stack, mode, style, used, from, nested>>

\* PollFuture on a cancelled handle aborts the run.
ResumeCancelled(x) ==
    /\ Running(x) /\ AwaitsCancelled(x)
    /\ mode' = "E0056"
    /\ UNCHANGED <<sched, code, stack, style, used, ghost>>

Suspend(x) ==
    /\ Running(x) /\ wait[x] # Awake /\ ~Fires(x) /\ ~AwaitsCancelled(x)
    /\ Back(x, 0)
    /\ UNCHANGED <<scopes, closed, handle, timers, code, style, used, ghost>>

----------------------------------------------------------------------------
(* The loops of join_scope and drive_future_outcome.                       *)

Looping == mode = "running" /\ Loop.k # "code"
AtTop == Looping /\ Loop.at = Nowhere
Driver == Under.x

\* Top of the loop: a drive polls its target first, then both run a round.
Ripe == CASE Loop.k = "join" -> FALSE
          [] Loop.k = "sleep" -> Driver \notin timers
          [] OTHER -> ~Bare(Loop.t) /\ HandleReady(Loop.t)
GivesUp == Loop.k \in {"await", "join_task"} /\ ~Bare(Loop.t) /\ HandleCancelled(Loop.t)

DriveReady ==
    /\ AtTop /\ Ripe
    /\ Pop
    /\ UNCHANGED <<sched, code, mode, style, used, ghost>>

\* await of a cancelled task aborts; join_task reports Err(Cancelled).
DriveCancelled ==
    /\ AtTop /\ GivesUp
    /\ IF Loop.k = "await" THEN mode' = "E0056" /\ UNCHANGED stack
                            ELSE Pop /\ UNCHANGED mode
    /\ UNCHANGED <<sched, code, style, used, ghost>>

DriveBare ==
    /\ AtTop /\ Loop.k = "await" /\ Bare(Loop.t)
    /\ stack' = Append(stack, Code(Loop.t))
    /\ UNCHANGED <<sched, code, mode, style, used, ghost>>

BeginRound ==
    /\ AtTop /\ ~Ripe /\ ~GivesUp
    /\ Loop.k = "await" => ~Bare(Loop.t)
    /\ SetLoop([Loop EXCEPT !.at = <<1, 1>>, !.prog = FALSE])
    /\ UNCHANGED <<sched, code, mode, style, used, ghost>>

\* One poll of poll_all_scopes_round.
RoundPoll ==
    /\ Looping /\ Loop.at # Nowhere /\ Due(Loop.at) # {}
    /\ LET p == First(Due(Loop.at))
           t == scopes[p[1]][p[2]]
       IN  /\ task' = [task EXCEPT ![t].polling = TRUE]
           /\ stack' = Append(Append(Front(stack), [Loop EXCEPT !.at = p]), Code(t))
    /\ UNCHANGED <<scopes, closed, handle, timers, code, mode, style, used, ghost>>

\* The end of a round: ScopeEnd closes the innermost scope when the joined
\* one is drained; else progress, a timer to advance to, or a deadlock.
RoundOver == Looping /\ Loop.at # Nowhere /\ Due(Loop.at) = {}
Drained == Loop.k = "join" /\ Loop.si \in DOMAIN scopes /\ ScopeReady(Loop.si)
Lost == Loop.k = "join" /\ Loop.si \notin DOMAIN scopes

ScopeEnd ==
    /\ RoundOver /\ (Drained \/ Lost)
    /\ IF Lost
       THEN /\ mode' = "panic"
            /\ UNCHANGED <<scopes, closed, stack, blocks, left>>
       ELSE /\ close_scope(innermost_open)
            /\ Pop
            /\ left' = left \union {Block(Driver).id}
            /\ blocks' = [blocks EXCEPT ![Driver] = Front(@)]
            /\ UNCHANGED mode
    /\ UNCHANGED <<task, handle, timers, wait, style, used, from, nested>>

\* Mutant: a round in which nothing completed is taken for a deadlock.
RoundAgain_hasty ==
    /\ RoundOver /\ ~Drained /\ ~Lost
    /\ IF Loop.prog THEN /\ SetLoop([Loop EXCEPT !.at = Nowhere])
                         /\ UNCHANGED <<timers, mode>>
                    ELSE /\ mode' = "E0010"
                         /\ UNCHANGED <<timers, stack>>
    /\ UNCHANGED <<scopes, closed, task, handle, code, style, used, ghost>>
\* Mutant: the clock never moves.
RoundAgain_frozen ==
    /\ RoundOver /\ ~Drained /\ ~Lost
    /\ IF Loop.prog \/ timers # {}
       THEN /\ SetLoop([Loop EXCEPT !.at = Nowhere])
            /\ UNCHANGED <<timers, mode>>
       ELSE /\ mode' = "E0010"
            /\ UNCHANGED <<timers, stack>>
    /\ UNCHANGED <<scopes, closed, task, handle, code, style, used, ghost>>
RoundAgain ==
    /\ RoundOver /\ ~Drained /\ ~Lost
    /\ \/ /\ Loop.prog
          /\ SetLoop([Loop EXCEPT !.at = Nowhere])
          /\ UNCHANGED <<timers, mode>>
       \/ /\ ~Loop.prog
          /\ \E x \in timers : timers' = timers \ {x}
          /\ SetLoop([Loop EXCEPT !.at = Nowhere])
          /\ UNCHANGED mode
       \/ /\ ~Loop.prog /\ timers = {}
          /\ mode' = "E0010"
          /\ UNCHANGED <<timers, stack>>
    /\ UNCHANGED <<scopes, closed, task, handle, code, style, used, ghost>>

\* The run is over: the process exits.
Exited == mode # "running" /\ UNCHANGED vars

Body(x) ==
    \/ \E split \in BOOLEAN : Open(x, split)
    \/ Spawn(x) \/ Nap(x) \/ AwaitBare(x) \/ EndBlock(x) \/ Return(x)
    \/ \E t \in Named(x) : \/ cancel_task(x, t)
                            \/ \E how \in {"await", "join_task"} : Await(x, t, how)
    \/ ResumeAwait(x) \/ ResumeJoin(x) \/ ResumeCancelled(x) \/ Suspend(x)
Scheduler ==
    \/ DriveReady \/ DriveCancelled \/ DriveBare \/ BeginRound \/ RoundPoll
    \/ ScopeEnd \/ RoundAgain

Next == (\E x \in Coroutines : Running(x) /\ Body(x)) \/ Scheduler \/ Exited

\* The interpreter is one thread that never stops between two steps.
Fairness == WF_vars(Next)
Spec == Init /\ [][Next]_vars /\ Fairness

----------------------------------------------------------------------------
(* Properties.                                                             *)

TypeOK ==
    /\ Len(scopes) = Len(closed)
    /\ closed # <<>> => ~Last(closed)
    /\ \A si \in DOMAIN scopes : InScope(si) \subseteq Bodies
    /\ \A t \in Bodies : /\ task[t].result \in Coroutines
                         /\ {task[t].cancelled, task[t].polling} \subseteq BOOLEAN
    /\ wait \in [Coroutines -> {Awake, AtTimer, AtJoin} \union Bodies]
    /\ timers \subseteq Coroutines
    /\ mode \in {"running", "ended", "E0010", "E0056", "panic"}

\* "every block joins all of its tasks before it returns": past the end of a
\* block each of its tasks has a result or was cancelled.
JoinsOwn ==
    \A t \in 1..made : from[t] \in left => Over(t)

\* A task cancelled inside its block is not polled again: nobody is going to
\* end that block, and its scope stays until another ScopeEnd takes it.
Abandoned == \E t \in Bodies : task[t].cancelled /\ Inside(t)

\* No round or join ever finds its index out of range. And unless a task was
\* cancelled inside its block, the open slots of the table are the blocks
\* programs are inside, one each, whatever the order in which sibling blocks
\* are closed, and a handle, a pair of indices, still names its own task while
\* the task's block is open, with what that task returned: neither tombstones
\* nor trimming move a task another body holds a handle to.
ScopesExact ==
    LET inside == {p \in Coroutines \X (1..MaxBlocks) : p[2] \in DOMAIN blocks[p[1]]}
        block(p) == blocks[p[1]][p[2]]
    IN  /\ TypeOK
        /\ mode # "panic"
        /\ Abandoned \/
              /\ {block(p).si : p \in inside} = OpenSlots
              /\ Cardinality(inside) = Cardinality(OpenSlots)
              /\ \A p \in inside : \A t \in 1..made : from[t] = block(p).id =>
                     /\ At(handle[t][1], handle[t][2])
                     /\ scopes[handle[t][1]][handle[t][2]] = t
                     /\ task[t].result \in {0, t}

\* No step is entered while it is executing: rounds nested in a poll skip
\* the tasks whose polls they run inside.
NotReentered ==
    \A i, j \in DOMAIN stack : stack[i].k = "code" /\ stack[i] = stack[j] => i = j

\* What a coroutine waits for: the bodies it cannot go on without.
Unfinished(T) == {t \in T : ~Over(t)}
Tasks(si) == IF si \in DOMAIN scopes THEN InScope(si) ELSE {}
LoopsOf(x) == {stack[i + 1] : i \in {j \in 1..Len(stack) - 1 : stack[j] = Code(x)}}
WaitsFor(x) ==
    Unfinished(
        (UNION {CASE f.k = "join" -> Tasks(f.si)
                  [] f.k \in {"await", "join_task"} -> {f.t}
                  [] OTHER -> {} : f \in LoopsOf(x)})
        \union (IF wait[x] = AtJoin THEN Tasks(Block(x).si)
                ELSE {wait[x]} \intersect Bodies))

\* E0010 "async deadlock" ends the run only when some coroutines really wait
\* for one another.
DeadlockHonest ==
    mode = "E0010" =>
        \E D \in SUBSET Coroutines :
            D # {} /\ \A x \in D : WaitsFor(x) \intersect D # {}

\* It is so in runs where no poll runs a loop of its own and nothing is
\* cancelled.
DeadlockHonestFlat == ~nested /\ cancels = 0 => DeadlockHonest

\* Every run comes to its end or to an abort: no loop spins for ever.
Ends == <>(mode # "running")
=============================================================================
