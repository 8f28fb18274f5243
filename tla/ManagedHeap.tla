----------------------------- MODULE ManagedHeap -------------------------------
(***************************************************************************)
(* A program running on the reference-counted heap, seen from its VM        *)
(* (noeta-vm/src/lifecycle.rs, gc.rs): the operations that allocate, alias, *)
(* store and drop references, mid-run collections at safepoints, and the    *)
(* teardown at exit with its destructors and final collections.            *)
(*                                                                         *)
(* `root[r]` is a counted reference the VM holds: a register, a global, an  *)
(* arena or handle entry, or a message in the buffer of a local channel.  A *)
(* setting says which collector runs, whether the program reaches a mid-run *)
(* trigger, what its destructors do, which kinds of objects it allocates,   *)
(* in order, and which places are channel buffer entries.                  *)
(***************************************************************************)
EXTENDS CycleCollector

CONSTANTS
  Slots,            \* how many references the VM holds at most
  Settings          \* records [mode, midRun, unlinks, kinds, buffer]

ASSUME SettingsAssumption ==
  /\ Slots \in Nat
  /\ \A s \in Settings : /\ s.mode \in Modes
                         /\ s.midRun \in BOOLEAN
                         /\ s.unlinks \in BOOLEAN
                         /\ s.kinds \in Seq(DOMAIN Arity)
                         /\ Len(s.kinds) <= MaxObj
                         /\ s.buffer \subseteq 1..Slots

VARIABLES
  setting,          \* chosen once
  heap,             \* see module Heap
  root,             \* the references the VM holds
  allocated,        \* how many objects were allocated so far
  phase             \* "run" or "done"

vars == <<setting, heap, root, allocated, phase>>

RootSet == 1..Slots
Held(r) == root[r] # Nil

\* The place the next reference goes to: the lowest free one.
Vacant(r) == ~Held(r) /\ \A q \in RootSet : q < r => Held(q)

\* The objects the VM holds a reference to.
Rooted == {root[r] : r \in RootSet} \ {Nil}

Init ==
  /\ setting \in Settings
  /\ heap = EmptyHeap(setting.kinds, setting.mode)
  /\ root = [r \in RootSet |-> Nil]
  /\ allocated = 0
  /\ phase = "run"

--------------------------------------------------------------------------------
(* Destructor-aware release. *)

RECURSIVE release_value(_, _)

\* `self.f = none`, for every field: what a destructor that unlinks does.
ClearFields(h, o) ==
  FoldLeft(LAMBDA g, i :
             LET old == g.slots[o][i]
                 cleared == replace_slot(g, o, i, Nil)
             IN IF old = Nil THEN cleared ELSE release_value(cleared, old),
           h, [i \in 1..Len(h.slots[o]) |-> i])

\* The body runs with the instance retained.
run_destructor(h, o) ==
  LET entered == [inc_ref(h, o) EXCEPT !.ran[o] = @ + 1]
  IN release(IF setting.unlinks THEN ClearFields(entered, o) ELSE entered, o)

\* Mutant: only an object's own destructor is looked for.
OwnDestructorOnly(h, o) == FALSE

\* The checker's destruct-reachable types: if the program declares a destructor
\* at all, any list, map, class instance or closure may hold an object that has
\* one.  A tuple and a bound method have no shape and are in no arm of the
\* match: what they hold is never walked.
subtree_owns_destructor(h, o) ==
  h.kind[o] \in {"node", "resource"} /\ \E p \in Obj : has_destructor(h, p)

\* Container before contained: own destructor, children, own box.
release_value(h, o) ==
  IF h.rc[o] > 1 \/ ~(has_destructor(h, o) \/ subtree_owns_destructor(h, o))
  THEN release(h, o)
  ELSE LET ended == IF has_destructor(h, o) THEN run_destructor(h, o) ELSE h
       IN free_shallow(FoldLeft(LAMBDA g, c : release_value(g, c),
                                ended, children(ended, o)), o)

--------------------------------------------------------------------------------
(* Reclaiming what a collection found. *)

\* Newest first, the order destructors of a cycle run in.
NewestFirst(S) ==
  SelectSeq([i \in 1..MaxObj |-> MaxObj + 1 - i], LAMBDA o : o \in S)

\* Mutant: the release path stays in Trace mode.
KeepTraceMode(h, mode) == h

\* The collector mode the reclaim found, put back.
RestoreMode(h, mode) == [h EXCEPT !.mode = mode]

\* Pin, destruct, release references to survivors, free.  The release path is
\* in Trace mode meanwhile, so nothing is buffered.
reclaim_cycle_garbage(g) ==
  LET dead == g.fresh \cup g.already_destructed
      pinned == FoldLeft(inc_ref, [g.heap EXCEPT !.mode = "Trace"], NewestFirst(dead))
      destructed ==
        FoldLeft(LAMBDA h, o : IF has_destructor(h, o) THEN run_destructor(h, o) ELSE h,
                 pinned, NewestFirst(g.fresh))
      External(h, o) == SelectSeq(children(h, o), LAMBDA c : c \notin dead)
      detached ==
        IF g.release_external
        THEN FoldLeft(LAMBDA h, o : FoldLeft(LAMBDA k, c : release_value(k, c),
                                             h, External(h, o)),
                      destructed, NewestFirst(g.fresh))
        ELSE destructed
      freed == FoldLeft(free_shallow, detached, NewestFirst(dead))
  IN RestoreMode(freed, g.heap.mode)

--------------------------------------------------------------------------------
(* The program. *)

\* A constructor: the new object's one reference goes to r.
Alloc(r) ==
  /\ phase = "run" /\ Vacant(r) /\ allocated < Len(setting.kinds)
  /\ heap' = alloc(heap, allocated + 1)
  /\ root' = [root EXCEPT ![r] = allocated + 1]
  /\ allocated' = allocated + 1
  /\ UNCHANGED <<setting, phase>>

\* Alias the object held in r.
Copy(r, q) ==
  /\ phase = "run" /\ Held(r) /\ Vacant(q)
  /\ heap' = inc_ref(heap, root[r])
  /\ root' = [root EXCEPT ![q] = root[r]]
  /\ UNCHANGED <<setting, allocated, phase>>

\* Read field i of the object in r.
Load(r, i, q) ==
  /\ phase = "run" /\ Held(r) /\ Vacant(q)
  /\ i \in DOMAIN heap.slots[root[r]]
  /\ heap.slots[root[r]][i] # Nil
  /\ LET v == heap.slots[root[r]][i]
     IN heap' = inc_ref(heap, v) /\ root' = [root EXCEPT ![q] = v]
  /\ UNCHANGED <<setting, allocated, phase>>

\* set_field_fast on a class: swap the slot in place, release the old value.
\* The receiver's reference moves into the destination, here the same place; the
\* form that keeps both references is this followed by Copy.  A tuple is filled
\* once, with older objects, before anything else refers to it.
SetField(r, i, q) ==
  /\ phase = "run" /\ Held(r)
  /\ i \in DOMAIN heap.slots[root[r]]
  /\ heap.kind[root[r]] = "tuple" => /\ heap.slots[root[r]][i] = Nil
                                     /\ heap.rc[root[r]] = 1
                                     /\ root[q] < root[r]
  /\ LET old == heap.slots[root[r]][i]
         stored == replace_slot(heap, root[r], i, root[q])
     IN heap' = IF old = Nil THEN stored ELSE release_value(stored, old)
  /\ UNCHANGED <<setting, root, allocated, phase>>

\* Op::Drop at the last use of a reference.
Drop(r) ==
  /\ phase = "run" /\ Held(r)
  /\ heap' = release_value(heap, root[r])
  /\ root' = [root EXCEPT ![r] = Nil]
  /\ UNCHANGED <<setting, allocated, phase>>

\* maybe_safepoint_gc: the trigger has fired.  The trace marks from the roots
\* the VM could enumerate, which need not be all it holds.
SafepointTrace(seen) ==
  /\ phase = "run" /\ setting.midRun /\ setting.mode = "Trace"
  /\ heap' = reclaim_cycle_garbage(
               collect_trace_safepoint(heap, {root[r] : r \in seen} \ {Nil}))
  /\ UNCHANGED <<setting, root, allocated, phase>>

SafepointTrial ==
  /\ phase = "run" /\ setting.midRun /\ setting.mode = "TrialDeletion"
  /\ heap' = reclaim_cycle_garbage(collect_trial_deletion_safepoint(heap))
  /\ UNCHANGED <<setting, root, allocated, phase>>

\* Release the references in the given places, running destructors.
DropPlaces(h, places) ==
  FoldLeft(LAMBDA g, r : IF Held(r) THEN release_value(g, root[r]) ELSE g, h, places)

\* The undrained messages in order, then the globals in reverse.
DropRoots(h) ==
  LET inOrder == [r \in RootSet |-> r]
      Buffer(r) == r \in setting.buffer
      Global(r) == ~Buffer(r)
  IN DropPlaces(h, SelectSeq(inOrder, Buffer) \o Reverse(SelectSeq(inOrder, Global)))

\* What the trace at exit marks from: globals, arena, handles and traced
\* futures.  The messages still in a channel's buffer are not among them.
ExitRoots == {root[r] : r \in RootSet \ setting.buffer} \ {Nil}

\* Vm::teardown: the trace runs before and after the references go, trial
\* deletion only after.
TeardownTrace ==
  /\ phase = "run" /\ setting.mode = "Trace"
  /\ heap' = LET swept == reclaim_cycle_garbage(collect_trace(heap, ExitRoots))
             IN reclaim_cycle_garbage(collect_trace(DropRoots(swept), {}))
  /\ root' = [r \in RootSet |-> Nil]
  /\ phase' = "done"
  /\ UNCHANGED <<setting, allocated>>

TeardownTrial ==
  /\ phase = "run" /\ setting.mode = "TrialDeletion"
  /\ heap' = reclaim_cycle_garbage(collect_trial_deletion(DropRoots(heap)))
  /\ root' = [r \in RootSet |-> Nil]
  /\ phase' = "done"
  /\ UNCHANGED <<setting, allocated>>

Next ==
  \/ \E r \in RootSet : Alloc(r) \/ Drop(r)
  \/ \E r, q \in RootSet : Copy(r, q)
  \/ \E r, q \in RootSet, i \in {1, 2} : Load(r, i, q) \/ SetField(r, i, q)
  \/ \E seen \in SUBSET RootSet : SafepointTrace(seen)
  \/ SafepointTrial
  \/ TeardownTrace
  \/ TeardownTrial

Spec == Init /\ [][Next]_vars

--------------------------------------------------------------------------------
(* Properties. *)

\* The heap record is well-formed between operations, and the release path is
\* in the collector mode of the run: a reclaim puts back the mode it replaced.
TypeOK ==
  /\ heap.live \subseteq 1..allocated
  /\ heap.rc \in [Obj -> Int]
  /\ heap.color \in [Obj -> Colors]
  /\ heap.buffered \subseteq Obj
  /\ heap.candidates \in Seq(Obj)
  /\ heap.mode = setting.mode
  /\ root \in [RootSet -> Obj \cup {Nil}]
  /\ phase \in {"run", "done"}

\* Nothing the program can still reach has been freed, and no operation ever
\* touched or freed a box that was gone: whatever the collectors reclaimed was
\* garbage, also when the safepoint missed a root, and what the exit released
\* was still there.  It fails in three settings, which the passing run leaves
\* out: trial deletion mid-run with two candidates, trial deletion with
\* destructors that unlink, and the trace with an undrained message at exit.
ReachableKept ==
  /\ ReachableFrom(heap, Rooted) \subseteq heap.live
  /\ ~heap.fault

\* The objects that are not dead.  A dead box may stay allocated, black, while
\* the candidate buffer names it.
Standing(h) == {o \in h.live : ~(o \in h.buffered /\ h.color[o] = "Black")}

\* At every operation boundary the count of an object is the number of
\* references the VM and other objects hold to it, and never zero: release,
\* trial deletion, restoration and reclaim leave no surplus and no deficit.
\* The candidate buffer names each buffered box once, and no freed box.
CountsExact ==
  /\ \A o \in Standing(heap) :
       /\ heap.rc[o] = InEdges(heap, Standing(heap), o)
                       + Cardinality({r \in RootSet : root[r] = o})
       /\ heap.rc[o] > 0
  /\ Range(heap.candidates) = heap.buffered
  /\ Len(heap.candidates) = Cardinality(heap.buffered)
  /\ heap.buffered \subseteq heap.live

\* A destructor runs at most once, and no later than the step the object dies
\* in.  The one way a `destruct` block is skipped is a tuple (or a bound method)
\* that dies in the same step and held the object, directly or not:
\* release_value frees a tuple without looking inside.
DestructedOnce ==
  [][LET dead == Standing(heap) \ Standing(heap')
     IN \A o \in 1..allocated :
          /\ heap'.ran[o] <= 1
          /\ has_destructor(heap, o) /\ o \in dead =>
               \/ heap'.ran[o] = 1
               \/ \E t \in dead :
                    heap.kind[t] = "tuple" /\ o \in ReachableFrom(heap, {t})]_vars

\* After teardown no box is left, whatever cycles the program tied.
ResidencyZero == phase = "done" => heap.live = {}

\* What a mid-run trace may keep of the garbage: what is tied, by references
\* among garbage followed in either direction, to a destructor.
Tied(h, garbage) ==
  {o \in garbage :
     \E C \in SUBSET garbage :
       /\ o \in C
       /\ \E d \in C : has_destructor(h, d)
       /\ \A S \in (SUBSET C) \ {{}, C} :
            \E s \in S, t \in C \ S : \/ t \in Range(children(h, s))
                                      \/ s \in Range(children(h, t))}

\* A mid-run trace that saw every root leaves exactly what the program can
\* reach and the dead components a destructor keeps for the exit; no mid-run
\* collection runs a destructor.
SafepointExact ==
  [][/\ SafepointTrial \/ (\E seen \in SUBSET RootSet : SafepointTrace(seen))
          => heap'.ran = heap.ran
     /\ SafepointTrace(RootSet) =>
          LET reachable == ReachableFrom(heap, Rooted)
              garbage == {o \in heap.live \ reachable : can_be_cyclic(heap, o)}
          IN heap'.live = ReachableFrom(heap, reachable \cup Tied(heap, garbage))]_vars
================================================================================
