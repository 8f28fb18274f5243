----------------------------- MODULE MCManagedHeap -----------------------------
(***************************************************************************)
(* Settings for checking ManagedHeap.                                      *)
(***************************************************************************)
EXTENDS ManagedHeap

Traced(kinds) ==
  [mode |-> "Trace", midRun |-> TRUE, unlinks |-> TRUE, kinds |-> kinds, buffer |-> {}]
Tried(midRun, kinds) ==
  [mode |-> "TrialDeletion", midRun |-> midRun, unlinks |-> FALSE, kinds |-> kinds,
   buffer |-> {1}]

\* The default collector, mid-run and at exit, with destructors that unlink;
\* trial deletion at exit, with an undrained message; trial deletion mid-run with
\* a single candidate.
Collected == {Traced(<<"node", "resource", "resource">>),
              Traced(<<"node", "node", "leaf">>),
              Traced(<<"node", "node", "resource">>),
              Traced(<<"node", "resource", "tuple">>),
              Tried(FALSE, <<"node", "node", "leaf">>),
              Tried(FALSE, <<"node", "resource", "resource">>),
              Tried(FALSE, <<"node", "resource", "tuple">>),
              Tried(TRUE, <<"node", "leaf">>),
              Tried(TRUE, <<"resource">>)}

\* Trial deletion mid-run with two objects that can both be candidates.
TrialMidRun == {Tried(TRUE, <<"node", "node">>)}

\* The trace at exit, with a message left in a channel's buffer.
Undrained == {[Traced(<<"node", "node">>) EXCEPT !.buffer = {1}]}
================================================================================
