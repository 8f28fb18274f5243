--------------------------------- MODULE Heap ----------------------------------
(***************************************************************************)
(* The reference-counted heap of one isolate (noeta-value/src/heap.rs) as   *)
(* operators from heaps to heaps.  Everything here runs on one thread and   *)
(* to completion, so an operation is a function; the release cascade is the *)
(* recursion of the code.                                                  *)
(*                                                                         *)
(* Objects are numbered in creation order, which is the header's `seq`.  A  *)
(* heap is a record of                                                     *)
(*   live      the allocated boxes          kind   what each object is     *)
(*   rc        reference counts             slots  the child references    *)
(*   color     collector colours            buffered, candidates           *)
(*   mode      the collector the release path feeds                        *)
(*   ran       how often each destructor ran                               *)
(*   fault     whether freed memory was touched or freed again             *)
(***************************************************************************)
EXTENDS Integers, Sequences, FiniteSets, SequencesExt

CONSTANT MaxObj         \* bound on the objects a program allocates

ASSUME MaxObjAssumption == MaxObj \in Nat \ {0}

Obj == 1..MaxObj
Nil == 0                \* an immediate: no heap identity

Colors == {"Black", "Gray", "White", "Purple"}
Modes == {"Trace", "TrialDeletion"}

\* A leaf owns plain data; a node is a list, a map, a class instance or a
\* closure with two child references; a tuple, or a bound method, has two as well;
\* a resource is a class instance with a `destruct` block.
Arity == [leaf |-> 0, node |-> 2, tuple |-> 2, resource |-> 1]

\* Payload::can_be_cyclic: what the collectors see at all.
can_be_cyclic(h, o) == Arity[h.kind[o]] > 0

\* Whether the VM has a destructor for the object's shape.
has_destructor(h, o) == h.kind[o] = "resource"

children(h, o) == SelectSeq(h.slots[o], LAMBDA c : c # Nil)

\* Every access to an object's header dereferences its box.
Touch(h, o) == [h EXCEPT !.fault = @ \/ o \notin h.live]

set_color(h, o, c) == [Touch(h, o) EXCEPT !.color[o] = c]

inc_ref(h, o) == [Touch(h, o) EXCEPT !.rc[o] = @ + 1]
dec_ref(h, o) == [Touch(h, o) EXCEPT !.rc[o] = @ - 1]

\* An empty heap for a program that allocates objects of the given kinds.
EmptyHeap(kinds, mode) ==
  [live |-> {}, rc |-> [o \in Obj |-> 0], color |-> [o \in Obj |-> "Black"],
   kind |-> [o \in Obj |-> IF o <= Len(kinds) THEN kinds[o] ELSE "leaf"],
   slots |-> [o \in Obj |-> <<>>], buffered |-> {}, candidates |-> <<>>,
   mode |-> mode, ran |-> [o \in Obj |-> 0], fault |-> FALSE]

\* alloc_with: a fresh box owning one reference.
alloc(h, o) ==
  [h EXCEPT !.live = @ \cup {o}, !.rc[o] = 1,
            !.slots[o] = [i \in 1..Arity[h.kind[o]] |-> Nil]]

\* Drop the box: Box::from_raw, registry_remove, live_dec.
dealloc(h, o) == [Touch(h, o) EXCEPT !.live = @ \ {o}]

\* The registry of the backup trace: filled in Trace mode, emptied by dealloc.
live_objects(h) == {o \in h.live : can_be_cyclic(h, o)}

possible_root(h, o) ==
  IF h.color[o] = "Purple"
  THEN Touch(h, o)
  ELSE [set_color(h, o, "Purple") EXCEPT
          !.buffered = @ \cup {o},
          !.candidates = IF o \in h.buffered THEN @ ELSE Append(@, o)]

\* The deferral point: a buffered object keeps its box for the collector.
free_shallow(h, o) ==
  IF h.mode = "TrialDeletion" /\ o \in h.buffered
  THEN set_color(h, o, "Black")
  ELSE dealloc(h, o)

RECURSIVE release(_, _)

\* Release the references a dead object held, in order.
release_children(h, cs) == FoldLeft(LAMBDA g, c : release(g, c), h, cs)

\* Trace mode: the box goes first, then what it owned.
free(h, o) == release_children(dealloc(h, o), children(h, o))

release(h, o) ==
  LET d == dec_ref(h, o)
      last == d.rc[o] = 0
  IN CASE last /\ h.mode = "Trace" -> free(d, o)
       [] last /\ h.mode = "TrialDeletion" ->
            free_shallow(release_children(d, children(d, o)), o)
       [] ~last /\ h.mode = "TrialDeletion" /\ can_be_cyclic(h, o) ->
            possible_root(d, o)
       [] OTHER -> d

\* Swap a slot; the new occupant is retained, the old one is the caller's.
replace_slot(h, o, i, v) ==
  LET g == IF v = Nil THEN Touch(h, o) ELSE inc_ref(Touch(h, o), v)
  IN [g EXCEPT !.slots[o][i] = v]

--------------------------------------------------------------------------------
\* What the roots can reach through child references, the reference notion
\* every collection is compared with.
RECURSIVE ReachableFrom(_, _)
ReachableFrom(h, S) ==
  LET T == S \cup UNION {Range(children(h, o)) : o \in S}
  IN IF T = S THEN S ELSE ReachableFrom(h, T)

\* The references to o held in the slots of the objects in S.
InEdges(h, S, o) ==
  Cardinality({e \in S \X {1, 2} : e[2] <= Len(h.slots[e[1]]) /\ h.slots[e[1]][e[2]] = o})
================================================================================
