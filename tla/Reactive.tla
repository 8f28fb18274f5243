------------------------------ MODULE Reactive ------------------------------
(***************************************************************************)
(* The reactive graph (crates/noeta-reactive) and the engine that drives   *)
(* it (crates/noeta-stdlib/src/reactive.rs): signals, lazy computeds,      *)
(* eager effects, the owner tree, the flush loop, the read gates of the    *)
(* VM and one view that pushes diffs.                                      *)
(*                                                                         *)
(* The graph is one record, g, the code's Inner; its operators are named   *)
(* after the methods of Inner and map a graph to a graph.  What a body     *)
(* computes is abstracted: a running body takes any sequence of the steps  *)
(* a program can take (read, set, create, dispose) and then returns or     *)
(* aborts.  Values are abstracted to one bit, whether the value a node     *)
(* holds was computed from what its sources hold now (the ghost stale).    *)
(* The vectors of the code are sets where their order decides nothing: the *)
(* edges, the child lists and the registry.  The free list is one too, so  *)
(* which of several freed slots is used next is left open.                 *)
(***************************************************************************)
EXTENDS Integers, Sequences, FiniteSets, SequencesExt, Functions

CONSTANTS
    MaxNodes,   \* bound on the slots of the node table
    MaxMade,    \* bound on the nodes created, so on how often slots are reused
    MaxDup,     \* bound on the entries one slot may have in the queue
    MaxSteps,   \* MAX_FLUSH_STEPS: effect runs allowed in one flush
    MaxBound,   \* bound on the bindings of the view
    Careless    \* what programs may do that the graph does not guard against

ASSUME ReactiveBounds ==
    /\ {MaxNodes, MaxMade, MaxDup, MaxSteps} \subseteq Nat \ {0}
    /\ MaxBound \in Nat
    /\ Careless \subseteq {"takes down a running node", "unexposes a dead binding"}

Slots == 1..MaxNodes
NoOwner == 0
NodeKind == {"Signal", "Computed", "Effect"}

VARIABLES
    g,          \* Inner: the node table, free list, computing stack, queue
    round,      \* entries of the current flush round not yet taken
    steps,      \* effects run by the current flush
    base,       \* depth of the computing stack when the flush began
    aborted,    \* an effect body of the current flush aborted
    gate,       \* the VM may read a cell inline, past the graph
    effects,    \* the hot-swap registry of root effects
    view,       \* the view: exposed nodes, and which of them are dirty
    call,       \* the view method in progress at top level
    deps,       \* ghost: the nodes each node read in its last run
    stale,      \* ghost: nodes whose run is out of date, or still to come
    dropped,    \* ghost: nodes whose run an abort or an overflow cut short
    overtaken,  \* ghost: nodes whose run a set made during it left behind
    made,       \* nodes created so far
    watched,    \* ghost: bindings whose slot still holds the node exposed
    behind,     \* ghost: of these, the ones changed since the last push
    lapsed      \* ghost: of these, the ones changed during a call, after it
                \* had read them

flush == <<round, steps, base, aborted>>
ghost == <<made, deps, stale, dropped, overtaken, watched, behind, lapsed>>
vars == <<g, flush, gate, effects, view, call, ghost>>

----------------------------------------------------------------------------
(* The methods of Inner.                                                   *)

Live(h) == {n \in Slots : h.live[n]}
LiveOf(h, k) == {n \in Live(h) : h.kind[n] = k}
Computing(h) == Range(h.computing)
NoIdle == [op |-> "none", taken |-> {}, left |-> {}, again |-> {}]
Empty == [n \in Slots |-> 0]

\* What can be reached from a set of slots by steps of next: the least set
\* that holds them and that no step leaves.
Closure(next, from) ==
    {c \in Slots : \A S \in SUBSET Slots :
        from \subseteq S /\ (\A m \in S : next[m] \subseteq S) => c \in S}

\* Whatever node is computing depends on source from now on.
record_dependency(h, source) ==
    IF h.computing = <<>> \/ Last(h.computing) = source
    THEN h
    ELSE [h EXCEPT !.sources[Last(h.computing)] = @ \union {source},
                   !.subs[source] = @ \union {Last(h.computing)}]

\* A new node, in a freed slot when there is one, owned by what is computing.
FreshSlots(h) == IF h.free # {} THEN h.free ELSE {h.len + 1} \intersect Slots
alloc(h, k, n) ==
    [h EXCEPT !.free = @ \ {n},
              !.len = IF h.free # {} THEN @ ELSE @ + 1,
              !.kind[n] = k, !.live[n] = TRUE, !.dirty[n] = (k # "Signal"),
              !.queued[n] = (k = "Effect"),
              !.sources[n] = {}, !.subs[n] = {},
              !.owner[n] = NoOwner, !.owned[n] = {},
              !.dirtyComputeds = IF k = "Computed" THEN @ + 1 ELSE @,
              !.queue[n] = IF k = "Effect" THEN @ + 1 ELSE @]
adopt(h, n) ==
    IF h.computing = <<>> THEN h
    ELSE LET o == Last(h.computing)
         IN  [h EXCEPT !.owner[n] = o, !.owned[o] = @ \union {n}]

\* The live nodes of the subtrees under n; n is not one of them.
Children(h) == [m \in Slots |-> {c \in h.owned[m] : h.live[c]}]
Subtrees(h, n) == Closure(Children(h), Children(h)[n])

\* Detach, settle the dirty count and free the slots of a set of nodes.
unhook_and_free(h, D) ==
    LET gone == {c \in D : h.kind[c] = "Computed" /\ h.dirty[c]}
        edge(from, to) == [n \in Slots |->
            IF n \in D THEN {} ELSE from[n] \ {d \in D : n \in to[d]}]
    IN  [h EXCEPT !.sources = edge(h.sources, h.subs),
                  !.subs = edge(h.subs, h.sources),
                  !.dirtyComputeds = @ - Cardinality(gone),
                  !.live = [n \in Slots |-> @[n] /\ n \notin D],
                  !.dirty = [n \in Slots |-> @[n] /\ n \notin D],
                  !.queued = [n \in Slots |-> @[n] /\ n \notin D],
                  !.owner = [n \in Slots |-> IF n \in D THEN NoOwner ELSE @[n]],
                  !.free = @ \union D]

\* Subtree nodes give up their child lists before they are unhooked.
dispose_owned(h, n) ==
    LET doomed == Subtrees(h, n)
        emptied == [h EXCEPT !.owned =
            [m \in Slots |-> IF m = n \/ m \in doomed THEN {} ELSE @[m]]]
    IN  unhook_and_free(emptied, doomed)

\* Mutant: the owner keeps the node in its list.
dispose_listed(h, n) ==
    IF ~h.live[n] THEN h ELSE unhook_and_free(dispose_owned(h, n), {n})

\* Dispose a node and its subtree; a dead slot is left alone.
dispose(h, n) ==
    IF ~h.live[n] THEN h
    ELSE LET o == h.owner[n]
             detached == IF o # NoOwner /\ h.live[o]
                         THEN [h EXCEPT !.owned[o] = @ \ {n}] ELSE h
         IN  unhook_and_free(dispose_owned(detached, n), {n})

\* dispose of each node of N in turn: one that went with an earlier one is
\* dead by then and left alone, and the order changes nothing.
dispose_each(h, N) ==
    LET roots == N \intersect Live(h)
        doomed == roots \union UNION {Subtrees(h, n) : n \in roots}
        detached == [h EXCEPT !.owned =
            [m \in Slots |-> IF m \in doomed THEN {} ELSE @[m] \ roots]]
    IN  unhook_and_free(detached, doomed)

\* Start a run: children and old edges go, the node is what computes now.
begin_compute(h, n) ==
    LET k == dispose_owned(h, n)
    IN  [k EXCEPT !.sources[n] = {},
                  !.subs = [m \in Slots |-> IF m \in k.sources[n] THEN @[m] \ {n} ELSE @[m]],
                  !.computing = Append(@, n)]

\* End a run: the node is clean whatever happened meanwhile.
end_compute(h, n) ==
    [h EXCEPT !.computing = Front(@), !.dirty[n] = FALSE,
              !.dirtyComputeds = IF h.kind[n] = "Computed" /\ h.dirty[n] THEN @ - 1 ELSE @]

\* Mutant: only the direct subscribers of n.
ReachedDirectly(h, n) ==
    {n} \union {c \in h.subs[n] : h.kind[c] = "Computed" /\ ~h.dirty[c]}

\* The clean computeds a change of n reaches, through clean computeds only.
Reached(h, n) ==
    LET memos == [m \in Slots |->
            {c \in h.subs[m] : h.kind[c] = "Computed" /\ ~h.dirty[c]}]
    IN  Closure(memos, {n})

\* Mutants: the dirty flag, still set while the effect runs, stands for the
\* queued flag; the walk does not log the memos it reaches.
mark_dirty_once(h, n) ==
    LET hit == Reached(h, n)
        memos == {c \in hit : h.kind[c] = "Computed" /\ ~h.dirty[c]}
        woken == {e \in Slots : h.kind[e] = "Effect" /\ ~h.dirty[e]
                                /\ \E m \in hit : e \in h.subs[m]}
    IN  [h EXCEPT !.dirty = [m \in Slots |-> @[m] \/ m \in memos \/ m \in woken],
                  !.dirtyComputeds = @ + Cardinality(memos),
                  !.changed = @ \union memos,
                  !.queued = [m \in Slots |-> @[m] \/ m \in woken],
                  !.queue = [m \in Slots |-> IF m \in woken THEN @[m] + 1 ELSE @[m]]]
mark_dirty_unlogged(h, n) ==
    LET hit == Reached(h, n)
        memos == {c \in hit : h.kind[c] = "Computed" /\ ~h.dirty[c]}
        woken == {e \in Slots : h.kind[e] = "Effect" /\ ~h.queued[e]
                                /\ \E m \in hit : e \in h.subs[m]}
    IN  [h EXCEPT !.dirty = [m \in Slots |-> @[m] \/ m \in memos \/ m \in woken],
                  !.dirtyComputeds = @ + Cardinality(memos),
                  !.queued = [m \in Slots |-> @[m] \/ m \in woken],
                  !.queue = [m \in Slots |-> IF m \in woken THEN @[m] + 1 ELSE @[m]]]

\* Dirty them, log them for the views, and queue the effects they wake.
mark_dirty_subscribers(h, n) ==
    LET hit == Reached(h, n)
        memos == {c \in hit : h.kind[c] = "Computed" /\ ~h.dirty[c]}
        woken == {e \in Slots : h.kind[e] = "Effect" /\ ~h.queued[e]
                                /\ \E m \in hit : e \in h.subs[m]}
    IN  [h EXCEPT !.dirty = [m \in Slots |-> @[m] \/ m \in memos \/ m \in woken],
                  !.dirtyComputeds = @ + Cardinality(memos),
                  !.changed = @ \union memos,
                  !.queued = [m \in Slots |-> @[m] \/ m \in woken],
                  !.queue = [m \in Slots |-> IF m \in woken THEN @[m] + 1 ELSE @[m]]]
touch(h, n) == mark_dirty_subscribers([h EXCEPT !.changed = @ \union {n}], n)

----------------------------------------------------------------------------
(* The engine: who runs, the gates, and the bookkeeping of the ghosts.     *)

\* Mutant: dirty memos do not close the gate.
GatesOpenOnMemos(h) == ~h.flushing /\ h.computing = <<>>

\* sync_gates: an inline read is allowed only when nothing tracks reads and
\* no memo is out of date.
GatesOpen(h) == ~h.flushing /\ h.computing = <<>> /\ h.dirtyComputeds = 0

Queued(h) == {n \in Slots : h.queue[n] > 0}
InRound == {n \in Slots : round[n] > 0}
InBody == Len(g.computing) > (IF g.flushing THEN base ELSE 0)
AtTop == g.computing = <<>> /\ ~g.flushing /\ call.op = "none"
UserRuns == InBody \/ AtTop
Looping == g.flushing /\ ~InBody

\* May a step take the nodes D down?  Not under a running body, unless
\* programs are that careless.
MayTakeDown(D) ==
    "takes down a running node" \in Careless \/ D \intersect Computing(g) = {}

\* May the effects queued in h wait for a flush?  The one that takes them runs
\* above the bodies it interrupts, and a rerun takes the effect's nodes down.
Interrupted == {g.computing[i] : i \in 1..(IF g.flushing THEN base ELSE Len(g.computing))}
MayQueue(h) ==
    "takes down a running node" \in Careless
        \/ \A e \in Queued(h) : Subtrees(h, e) \intersect Interrupted = {}

\* The nodes whose value was computed, at any remove, from what s held; and
\* the running ones whose value will be computed from what n returns.
Dependents(s) == Closure([m \in Slots |-> {n \in Slots : m \in deps[n]}], {s})
Waiting(n) == Dependents(n) \intersect Computing(g)

\* What the ghosts forget when a step takes g to h: the nodes that died, the
\* last run of a node whose body starts, and what a node read whose run was
\* lost.  d is deps with what the step reads.
Forget(d, h, started, lost) ==
    LET dead == Live(g) \ Live(h)
        out == dead \union started
    IN  /\ deps' = [n \in Slots |-> IF n \in out \union lost THEN {} ELSE d[n] \ dead]
        /\ stale' = stale \ out
        /\ dropped' = (dropped \ out) \union lost
        /\ overtaken' = overtaken \ out
        /\ watched' = watched \ dead
        /\ behind' = behind \ dead
        /\ lapsed' = lapsed \ dead
        /\ UNCHANGED made
ReadBy(n) == [m \in Slots |-> IF g.computing # <<>> /\ m = Last(g.computing)
                              THEN deps[m] \union {n} ELSE deps[m]]

\* drive_flush, unless a flush is on its way and will take what was queued.
StartFlush(h) ==
    /\ MayQueue(h)
    /\ IF g.flushing THEN g' = h /\ UNCHANGED flush
       ELSE /\ g' = [h EXCEPT !.flushing = TRUE]
            /\ base' = Len(g.computing)
            /\ UNCHANGED <<round, steps, aborted>>

\* Unwind the running bodies above a depth: each ends its run, clean, with
\* the value it had.
Frames(h, depth) == {h.computing[i] : i \in (depth + 1)..Len(h.computing)}
CutMemos(depth) == {n \in Frames(g, depth) : g.kind[n] = "Computed"}
Unwind(h, depth) ==
    LET cut == Frames(h, depth)
        settled == {n \in cut : h.kind[n] = "Computed" /\ h.dirty[n]}
    IN  [h EXCEPT !.computing = SubSeq(@, 1, depth),
                  !.dirty = [n \in Slots |-> @[n] /\ n \notin cut],
                  !.dirtyComputeds = @ - Cardinality(settled)]

Init ==
    /\ g = [kind |-> [n \in Slots |-> "Signal"],
            live |-> [n \in Slots |-> FALSE], dirty |-> [n \in Slots |-> FALSE],
            queued |-> [n \in Slots |-> FALSE],
            sources |-> [n \in Slots |-> {}], subs |-> [n \in Slots |-> {}],
            owner |-> [n \in Slots |-> NoOwner], owned |-> [n \in Slots |-> {}],
            free |-> {}, len |-> 0, computing |-> <<>>, dirtyComputeds |-> 0,
            queue |-> Empty, changed |-> {}, flushing |-> FALSE]
    /\ round = Empty /\ steps = 0 /\ base = 0 /\ aborted = FALSE
    /\ gate = TRUE
    /\ effects = {}
    /\ view = [bound |-> {}, dirty |-> {}]
    /\ call = NoIdle
    /\ deps = [n \in Slots |-> {}]
    /\ stale = {} /\ dropped = {} /\ overtaken = {}
    /\ watched = {} /\ behind = {} /\ lapsed = {} /\ made = 0

----------------------------------------------------------------------------
(* Steps of a program, at top level or in a running body.                  *)

\* signal, computed, effect, and the root signal of a foreign source.  A flush
\* that starts in a memo's body also takes the entries an overflow left.
Create(k, root, n) ==
    LET h == IF root THEN alloc(g, k, n) ELSE adopt(alloc(g, k, n), n)
    IN  /\ UserRuns
        /\ n \in FreshSlots(g) /\ made < MaxMade
        /\ made' = made + 1
        /\ root => k = "Signal"
        /\ k = "Effect" => g.queue[n] < MaxDup
        /\ IF k = "Effect" THEN StartFlush(h) ELSE g' = h /\ UNCHANGED flush
        /\ gate' = IF k = "Computed" THEN GatesOpen(h) ELSE gate
        /\ effects' = IF k = "Effect" /\ g.computing = <<>>
                      THEN effects \union {n} ELSE effects
        /\ deps' = [deps EXCEPT ![n] = {}]
        /\ stale' = IF k = "Signal" THEN stale \ {n} ELSE stale \union {n}
        /\ dropped' = dropped \ {n}
        /\ overtaken' = overtaken \ {n}
        /\ UNCHANGED <<view, call, watched, behind, lapsed>>

\* get: inline when the gate is open, else through the graph, where a dirty
\* computed runs first.
ReadValue(n) ==
    LET h == IF gate THEN g ELSE record_dependency(g, n)
        reader == IF g.computing = <<>> THEN {} ELSE Waiting(Last(g.computing))
    IN  /\ gate \/ ~g.dirty[n]
        /\ g' = h
        /\ gate' = IF g.kind[n] = "Computed" /\ ~gate THEN GatesOpen(h) ELSE gate
        /\ deps' = ReadBy(n)
        /\ stale' = IF n \in stale THEN stale \union reader ELSE stale
        /\ dropped' = IF n \in dropped THEN dropped \union reader ELSE dropped
        /\ overtaken' = IF n \in overtaken THEN overtaken \union reader ELSE overtaken
        /\ UNCHANGED <<made, watched, behind, lapsed>>
Recompute(n) ==
    LET h == begin_compute(record_dependency(g, n), n)
    IN  /\ ~gate /\ g.dirty[n]
        /\ MayTakeDown(Subtrees(g, n))
        /\ g' = h
        /\ gate' = GatesOpen(h)
        /\ Forget(ReadBy(n), h, {n}, {})
Read(n) ==
    /\ UserRuns
    /\ n \in Live(g) \ (LiveOf(g, "Effect") \union Computing(g))
    /\ ReadValue(n) \/ Recompute(n)
    /\ UNCHANGED <<flush, effects, view, call>>

\* set, update and a foreign source's wake, from any body: a memo's too, and
\* what it has read so far may be what is set.
Set(s) ==
    LET h == touch(g, s)
        out == Dependents(s)
        cut == {c \in out \intersect Computing(g) : g.kind[c] = "Computed"}
    IN  /\ UserRuns
        /\ s \in LiveOf(g, "Signal")
        /\ \A n \in Slots : h.queue[n] <= MaxDup
        /\ StartFlush(h)
        /\ gate' = GatesOpen(h)
        /\ stale' = stale \union (out \ {s})
        /\ overtaken' = overtaken \union UNION {Waiting(c) : c \in cut}
        /\ behind' = behind \union (out \intersect watched)
        /\ lapsed' = lapsed \ h.changed
        /\ call' = [call EXCEPT !.again = @ \union (out \intersect (call.taken \ call.left))]
        /\ UNCHANGED <<effects, view, deps, dropped, made, watched>>

\* An effect handle's dispose.
Dispose(e) ==
    /\ UserRuns
    /\ e \in LiveOf(g, "Effect")
    /\ MayTakeDown(Subtrees(g, e) \union {e})
    /\ g' = dispose(g, e)
    /\ effects' = effects \ {e}
    /\ gate' = GatesOpen(g')
    /\ Forget(deps, g', {}, {})
    /\ UNCHANGED <<flush, view, call>>

\* The body of the running node returns.
Return ==
    LET n == Last(g.computing)
        isEffectRun == g.flushing /\ Len(g.computing) = base + 1
        h == end_compute(g, n)
    IN  /\ InBody
        /\ g' = h
        /\ steps' = IF isEffectRun THEN steps + 1 ELSE steps
        /\ gate' = IF isEffectRun THEN gate ELSE GatesOpen(h)
        /\ UNCHANGED <<round, base, aborted, effects, view, call, ghost>>

\* It aborts: every body down to the flush, or to top level, unwinds.
Abort ==
    LET depth == IF g.flushing THEN base ELSE 0
        h == Unwind(g, depth)
    IN  /\ InBody
        /\ g' = h
        /\ aborted' = g.flushing
        /\ steps' = IF g.flushing THEN steps + 1 ELSE steps
        /\ gate' = IF g.flushing THEN gate ELSE GatesOpen(h)
        /\ call' = IF g.flushing THEN call ELSE NoIdle
        /\ stale' = stale \union CutMemos(depth)
        /\ dropped' = dropped \union CutMemos(depth)
        /\ UNCHANGED <<round, base, effects, view, deps, overtaken, made, watched, behind, lapsed>>

----------------------------------------------------------------------------
(* The flush loop.                                                         *)

\* Swap the queue out; it is taken in ascending order of the slots.
FlushRound ==
    /\ Looping /\ steps <= MaxSteps
    /\ InRound = {} /\ Queued(g) # {}
    /\ round' = g.queue
    /\ g' = [g EXCEPT !.queue = Empty]
    /\ UNCHANGED <<steps, base, aborted, gate, effects, view, call, ghost>>

\* Take the next entry: skip a dead slot, run an effect, or, once a body has
\* aborted, begin and end the effect's run without running it.
Take(e) ==
    LET h == begin_compute([g EXCEPT !.queued[e] = FALSE], e)
        isEffect == e \in LiveOf(g, "Effect")
    IN  /\ round' = [round EXCEPT ![e] = @ - 1]
        /\ \/ ~isEffect /\ UNCHANGED <<g, steps, gate, ghost>>
           \/ /\ isEffect /\ ~aborted
              /\ g' = h /\ gate' = GatesOpen(h)
              /\ Forget(deps, h, {e}, {})
              /\ UNCHANGED steps
           \/ /\ isEffect /\ aborted
              /\ g' = end_compute(h, e)
              /\ steps' = steps + 1
              /\ Forget(deps, h, {}, {e})
              /\ UNCHANGED gate
FlushTake ==
    /\ Looping /\ steps <= MaxSteps
    /\ \E e \in InRound : (\A m \in InRound : e <= m) /\ Take(e)
    /\ UNCHANGED <<base, aborted, effects, view, call>>

\* The queue is empty or the step bound is passed: drive_flush marks the
\* view's changed bindings; an error unwinds the bodies below the flush.
FlushDone ==
    LET overflow == steps > MaxSteps
        depth == IF aborted \/ overflow THEN 0 ELSE base
        h == [Unwind(g, depth) EXCEPT !.flushing = FALSE, !.changed = {}]
    IN  /\ Looping
        /\ overflow \/ (InRound = {} /\ Queued(g) = {})
        /\ g' = h
        /\ gate' = GatesOpen(h)
        /\ view' = [view EXCEPT !.dirty = @ \union (g.changed \intersect view.bound)]
        /\ call' = IF aborted \/ overflow THEN NoIdle ELSE call
        /\ stale' = stale \union CutMemos(depth)
        /\ dropped' = dropped \union CutMemos(depth)
                           \union (InRound \intersect LiveOf(g, "Effect"))
        /\ round' = Empty /\ steps' = 0 /\ base' = 0 /\ aborted' = FALSE
        /\ UNCHANGED <<effects, deps, overtaken, made, watched, behind, lapsed>>

----------------------------------------------------------------------------
(* The view's methods, called at top level, and the hot-swap hooks.        *)

\* expose(n), snapshot and diff all read the bindings they take, one after
\* the other, before they change the view.
StartCall(op, taken) ==
    /\ AtTop
    /\ taken # {}
    /\ call' = [op |-> op, taken |-> taken, left |-> taken, again |-> {}]
    /\ UNCHANGED <<g, flush, gate, effects, view, ghost>>
Expose(n) ==
    /\ n \in Live(g) \ LiveOf(g, "Effect")
    /\ Cardinality(view.bound \union {n}) <= MaxBound
    /\ StartCall("expose", {n})
Snapshot == StartCall("snapshot", view.bound)
Diff == StartCall("diff", view.dirty)

\* binding_value_json: a dead binding is skipped, a dirty computed runs.
CallRead(n) ==
    LET memo == n \in LiveOf(g, "Computed")
    IN  /\ n \in call.left
        /\ g.computing = <<>> /\ ~g.flushing
        /\ call' = [call EXCEPT !.left = @ \ {n}]
        /\ IF memo /\ g.dirty[n]
           THEN g' = begin_compute(g, n) /\ Forget(deps, g', {n}, {})
           ELSE UNCHANGED <<g, ghost>>
        /\ gate' = IF memo THEN GatesOpen(g') ELSE gate
        /\ UNCHANGED <<flush, effects, view>>

\* The taken bindings, and only those, are clean and have a new baseline: the
\* value the call read, though it may have changed again meanwhile.
EndCall ==
    LET done == IF call.op = "snapshot" THEN call.taken \intersect Live(g) ELSE call.taken
        missed == call.again \intersect watched'
    IN  /\ call.op # "none" /\ call.left = {}
        /\ g.computing = <<>> /\ ~g.flushing
        /\ view' = [bound |-> IF call.op = "expose" THEN view.bound \union call.taken
                                                    ELSE view.bound,
                    dirty |-> view.dirty \ done]
        /\ watched' = IF call.op = "expose" THEN watched \union call.taken ELSE watched
        /\ behind' = (behind \ done) \union missed
        /\ lapsed' = (lapsed \ done) \union missed
        /\ call' = NoIdle
        /\ UNCHANGED <<g, flush, gate, effects, deps, stale, dropped, overtaken, made>>

\* unexpose: the binding goes and its node is disposed; the gates wait.
Unexpose(n) ==
    /\ UserRuns
    /\ n \in view.bound
    /\ n \in watched \/ ~g.live[n] \/ "unexposes a dead binding" \in Careless
    /\ MayTakeDown(Subtrees(g, n) \union {n})
    /\ view' = [bound |-> view.bound \ {n}, dirty |-> view.dirty \ {n}]
    /\ g' = dispose(g, n)
    /\ Forget(deps, g', {}, {})
    /\ UNCHANGED <<flush, gate, effects, call>>

\* hotswap_dispose_effects, then hotswap_dispose_handles of the signals and
\* computeds H that the new top level binds again.
HotSwap(H) ==
    /\ AtTop
    /\ g' = dispose_each(dispose_each(g, effects), H)
    /\ effects' = {}
    /\ gate' = GatesOpen(g')
    /\ Forget(deps, g', {}, {})
    /\ UNCHANGED <<flush, view, call>>

Next ==
    \/ \E k \in NodeKind, root \in BOOLEAN, n \in Slots : Create(k, root, n)
    \/ \E n \in Slots : Read(n)
    \/ \E n \in Slots : Set(n)
    \/ \E n \in Slots : Dispose(n)
    \/ Return
    \/ Abort
    \/ FlushRound
    \/ FlushTake
    \/ FlushDone
    \/ \E n \in Slots : Expose(n)
    \/ Snapshot
    \/ Diff
    \/ \E n \in Slots : CallRead(n)
    \/ EndCall
    \/ \E n \in Slots : Unexpose(n)
    \/ \E H \in SUBSET (Live(g) \ LiveOf(g, "Effect")) : HotSwap(H)

Spec == Init /\ [][Next]_vars

----------------------------------------------------------------------------
(* Properties.                                                             *)

\* Inner.
Graph ==
    [kind : [Slots -> NodeKind],
     live : [Slots -> BOOLEAN], dirty : [Slots -> BOOLEAN], queued : [Slots -> BOOLEAN],
     sources : [Slots -> SUBSET Slots], subs : [Slots -> SUBSET Slots],
     owner : [Slots -> Slots \union {NoOwner}], owned : [Slots -> SUBSET Slots],
     free : SUBSET Slots, len : 0..MaxNodes, computing : Seq(Slots),
     dirtyComputeds : 0..MaxNodes, queue : [Slots -> 0..MaxDup],
     changed : SUBSET Slots, flushing : BOOLEAN]

\* Every variable keeps its type (Inner, ReactiveExt and ViewState).
TypeOK ==
    /\ g \in Graph
    /\ round \in [Slots -> 0..MaxDup]
    /\ steps \in 0..(MaxSteps + 1) /\ base \in 0..Len(g.computing)
    /\ aborted \in BOOLEAN /\ gate \in BOOLEAN
    /\ effects \subseteq Slots
    /\ view \in [bound : SUBSET Slots, dirty : SUBSET Slots] /\ view.dirty \subseteq view.bound
    /\ call \in [op : {"none", "expose", "snapshot", "diff"},
                 taken : SUBSET Slots, left : SUBSET Slots, again : SUBSET Slots]
    /\ made \in 0..MaxMade
    /\ deps \in [Slots -> SUBSET Slots]
    /\ \A S \in {stale, dropped, overtaken, watched, behind, lapsed} : S \subseteq Slots

\* A clean memo is never older than what it was computed from, whatever order
\* reads, sets, disposals and nested runs came in (begin_compute, end_compute,
\* mark_dirty_subscribers).  Two cases are known and excepted, with what reads
\* their outcome: an abort or an overflow cut its run short, and end_compute
\* called it clean though a set made during its run changed what it had read.
FreshMemo ==
    \A c \in LiveOf(g, "Computed") :
        ~g.dirty[c] /\ c \in stale => c \in dropped \union overtaken

\* An effect that has not run since something it read changed has an entry
\* that the flush will still take: no wake-up is lost to the queued flag, to
\* the sorting of rounds or to a slot that changed hands (flush_loop).  Except
\* the entries a failed flush drops, and an effect that read a memo while the
\* memo's own body changed what the memo had read.
RerunOwed ==
    \A e \in LiveOf(g, "Effect") :
        e \in stale \ (dropped \union overtaken) => e \in Queued(g) \union InRound

\* Sources and subscribers mirror each other, and no edge ends at a disposed
\* node (unhook_and_free: "no dangling subscription can fire").
EdgesMirror ==
    \A m, n \in Slots :
        /\ m \in g.sources[n] <=> n \in g.subs[m]
        /\ m \in g.sources[n] => g.live[m] /\ g.live[n]

\* Every owned node is listed once, by a live owner, and a list holds no node
\* that died or moved on (adopt, dispose, dispose_owned).
OwnerTree ==
    \A n, c \in Slots :
        /\ c \in g.owned[n] <=> g.owner[c] = n
        /\ c \in g.owned[n] => g.live[c] /\ g.live[n]

\* A slot is on the free list exactly when its node is dead, so no two nodes
\* are ever put in one slot (alloc, unhook_and_free).
FreeExact == Live(g) \subseteq 1..g.len /\ g.free = (1..g.len) \ Live(g)

\* When the VM may read a cell inline no read needs recording and no memo is
\* dirty; the count behind the gate is the number of dirty computeds
\* (sync_gates, dirty_computeds).
GateSound ==
    /\ g.dirtyComputeds = Cardinality({c \in LiveOf(g, "Computed") : g.dirty[c]})
    /\ gate /\ UserRuns => ~g.flushing /\ g.computing = <<>> /\ g.dirtyComputeds = 0

\* The hot-swap registry holds exactly the live effects without an owner; "a
\* stale entry over a reused slot would misfire" (reactive_ctx_dispatch).
RegistryExact ==
    effects = {e \in LiveOf(g, "Effect") : g.owner[e] = NoOwner}

\* The graph is whole between any two steps, through reruns, disposals, aborts
\* and slot reuse: edges, owners, free list and registry name each other's live
\* nodes and no other.  It fails when programs are Careless, who take down a
\* running node or unexpose a binding whose slot was reused.
GraphExact == TypeOK /\ EdgesMirror /\ OwnerTree /\ FreeExact /\ RegistryExact

\* A binding whose value changed since its last push is dirty, or in the log
\* that the running flush will distribute: no patch is lost
\* (distribute_changes, drain_changed_into, the diff).  Excepted are the ones
\* that changed in the call that pushed them, after it had read them, until
\* they change again: their mark goes with the others; and a memo overtaken in
\* its own run.
NoMissedPatch == behind \ (lapsed \union overtaken) \subseteq view.dirty \union g.changed

\* "dirt added by a reentrant set during our own serialization stays for the
\* next diff": the same without the exception for the call.  Fails: a computed
\* that the call runs sets a signal whose binding the call has read already, and
\* the mark the set leaves is removed with that binding's.
ReentrantDirtStays == behind \ overtaken \subseteq view.dirty \union g.changed

\* A flush runs an effect only if an entry for it is due: the queued flag
\* "dedupes multiple dirtying edges into one run" (Node::queued, flush_loop).
RunsAreDue ==
    [][\A e \in Slots : Looping /\ g'.computing = Append(g.computing, e) => g.queued[e]]_vars
=============================================================================
