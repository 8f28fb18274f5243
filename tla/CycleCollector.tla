---------------------------- MODULE CycleCollector -----------------------------
(***************************************************************************)
(* The two cycle collectors of noeta-gc/src/lib.rs, each in its exit and in *)
(* its safepoint form.  A collection identifies garbage and hands it back   *)
(* for the VM to reclaim: its result is the heap it leaves behind, the      *)
(* `fresh` members, the members whose destructor already ran, and whether   *)
(* references to surviving values are still to be released.                *)
(***************************************************************************)
EXTENDS Heap

Garbage(h, fresh, destructed, external) ==
  [heap |-> h, fresh |-> fresh, already_destructed |-> destructed,
   release_external |-> external]

--------------------------------------------------------------------------------
(* The trace. *)

RECURSIVE mark(_, _)
mark(h, s) ==
  IF h.color[s] = "Gray"
  THEN h
  ELSE FoldLeft(LAMBDA g, c : mark(g, c), set_color(h, s, "Gray"), children(h, s))

Marked(h, roots) == FoldLeft(LAMBDA g, r : mark(g, r), h, SetToSeq(roots))

Unmarked(h) == {o \in live_objects(h) : h.color[o] # "Gray"}

\* Survivors go back to black.
ResetColors(h) ==
  [h EXCEPT !.color = [o \in Obj |-> IF o \in live_objects(h) /\ @[o] = "Gray"
                                     THEN "Black" ELSE @[o]]]

\* Mutant: the balance is not checked.
BalanceUnchecked(h, garbage) == {}

\* The members whose count is not the number of references from other members.
refcount_anomalies(h, garbage) ==
  {o \in garbage : h.rc[o] # InEdges(h, garbage, o)}

collect_trace(h, roots) ==
  LET m == Marked(h, roots)
  IN Garbage(ResetColors(m), Unmarked(m), {}, TRUE)

\* The members weakly connected to o within garbage.
RECURSIVE Component(_, _, _)
Component(h, garbage, S) ==
  LET touching == {o \in garbage : \E s \in S : \/ o \in Range(children(h, s))
                                                \/ s \in Range(children(h, o))}
  IN IF touching \subseteq S THEN S ELSE Component(h, garbage, S \cup touching)

weakly_connected_components(h, garbage) ==
  {Component(h, garbage, {o}) : o \in garbage}

\* Mutant: defer only the members that have a destructor themselves.
DeferOnlyMembers(h, garbage) == {o \in garbage : has_destructor(h, o)}

\* Components with a destructor wait for the exit collection.
Deferred(h, garbage) ==
  UNION {C \in weakly_connected_components(h, garbage) :
            \E o \in C : has_destructor(h, o)}

\* A set whose counts do not balance hides a missed root: give up.
collect_trace_safepoint(h, roots) ==
  LET m == Marked(h, roots)
      garbage == Unmarked(m)
      r == ResetColors(m)
  IN IF refcount_anomalies(r, garbage) # {}
     THEN Garbage(r, {}, {}, FALSE)
     ELSE Garbage(r, garbage \ Deferred(r, garbage), {}, TRUE)

--------------------------------------------------------------------------------
(* Trial deletion. *)

RECURSIVE mark_gray(_, _)
mark_gray(h, s) ==
  IF h.color[s] = "Gray"
  THEN h
  ELSE FoldLeft(LAMBDA g, c : mark_gray(dec_ref(g, c), c),
                set_color(h, s, "Gray"), children(h, s))

RECURSIVE scan_black(_, _)
scan_black(h, s) ==
  FoldLeft(LAMBDA g, c : LET i == inc_ref(g, c)
                         IN IF i.color[c] = "Black" THEN i ELSE scan_black(i, c),
           set_color(h, s, "Black"), children(h, s))

RECURSIVE scan(_, _)
scan(h, s) ==
  CASE h.color[s] # "Gray" -> h
    [] h.color[s] = "Gray" /\ h.rc[s] > 0 -> scan_black(h, s)
    [] OTHER -> FoldLeft(LAMBDA g, c : scan(g, c), set_color(h, s, "White"), children(h, s))

\* The white objects reachable from s, recoloured black: <<heap, members>>.
RECURSIVE gather_white(_, _)
gather_white(acc, s) ==
  IF acc[1].color[s] # "White"
  THEN acc
  ELSE FoldLeft(LAMBDA a, c : gather_white(a, c),
                <<set_color(acc[1], s, "Black"), acc[2] \cup {s}>>,
                children(acc[1], s))

\* Consume the candidate buffer.  A candidate that is not purple when its turn
\* comes is taken for one whose deallocation was deferred.
MarkRoots(h) ==
  FoldLeft(LAMBDA a, s :
             LET u == [Touch(a.heap, s) EXCEPT !.buffered = @ \ {s}]
             IN IF u.color[s] = "Purple"
                THEN [a EXCEPT !.heap = mark_gray(u, s), !.gray = Append(@, s)]
                ELSE [a EXCEPT !.heap = u, !.deferred = @ \cup {s}],
           [heap |-> [h EXCEPT !.candidates = <<>>], gray |-> <<>>, deferred |-> {}],
           h.candidates)

\* Mark, scan and gather: the heap, the white members, the deferred boxes.
TrialDelete(h) ==
  LET a == MarkRoots(h)
      scanned == FoldLeft(LAMBDA g, s : scan(g, s), a.heap, a.gray)
      white == FoldLeft(LAMBDA w, s : gather_white(w, s), <<scanned, {}>>, a.gray)
  IN [heap |-> white[1], white |-> white[2], deferred |-> a.deferred \ white[2]]

collect_trial_deletion(h) ==
  LET t == TrialDelete(h)
  IN Garbage(t.heap, t.white, t.deferred, FALSE)

\* Mutants: buffer the members without undoing; undo without buffering.
RebufferOnly(h, members) == FoldLeft(possible_root, h, SetToSeq(members))
UndoOnly(h, members) ==
  FoldLeft(LAMBDA g, m : FoldLeft(inc_ref, g, children(g, m)), h, SetToSeq(members))

\* Undo the trial decrements of the kept members and buffer them again.
Restore(h, members) ==
  LET ms == SetToSeq(members)
      counted == FoldLeft(LAMBDA g, m : FoldLeft(inc_ref, g, children(g, m)), h, ms)
  IN FoldLeft(possible_root, counted, ms)

collect_trial_deletion_safepoint(h) ==
  LET t == TrialDelete(h)
      kept == Deferred(t.heap, t.white)
  IN Garbage(Restore(t.heap, kept), t.white \ kept, t.deferred, FALSE)
================================================================================
