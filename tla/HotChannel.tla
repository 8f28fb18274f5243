----------------------------- MODULE HotChannel -----------------------------
(***************************************************************************)
(* The hot-reload mailbox (crates/noeta-vm, hotswap.rs): a queue of swap   *)
(* plans that one watcher deposits into and every worker drains from its   *)
(* own cursor, and the reclaiming of the plans all of them have passed.    *)
(*                                                                         *)
(* Every operation holds the queue's lock from its first to its last       *)
(* access, so each is one step.  A plan is kept as whether it still holds  *)
(* its payload; a cursor is the number of plans its consumer has taken.    *)
(***************************************************************************)
EXTENDS Integers, Sequences, FiniteSets, FiniteSetsExt, SequencesExt

CONSTANTS
    Workers,    \* the worker isolates a process may have
    MaxPlans    \* bound on the edits deposited

ASSUME QueueBounds ==
    /\ IsFiniteSet(Workers) /\ Workers # {}
    /\ MaxPlans \in Nat

\* The cursor of a consumer that is gone: it holds nothing back.
RETIRED == MaxPlans + 1

VARIABLES
    plans,      \* PlanQueue.plans: does each generation hold its payload
    cursors,    \* PlanQueue.cursors, one per declared consumer
    slot,       \* the cursor a worker has claimed, 0 before it registers
    reclaimed,  \* PlanQueue.reclaimed: the tombstoned prefix
    hole        \* ghost: a consumer met a tombstone it had not passed

queue == <<plans, cursors, slot, reclaimed, hole>>

Claimed == {slot[w] : w \in Workers} \ {0}

\* HotChannel::new(consumers).
QueueInit(consumers) ==
    /\ plans = <<>>
    /\ cursors = [k \in 1..consumers |-> 0]
    /\ slot = [w \in Workers |-> 0]
    /\ reclaimed = 0
    /\ hole = FALSE

deposit ==
    /\ plans' = Append(plans, TRUE)
    /\ UNCHANGED <<cursors, slot, reclaimed, hole>>

\* The cursors are handed out in order.
register(w) ==
    /\ slot' = [slot EXCEPT ![w] = Cardinality(Claimed) + 1]
    /\ UNCHANGED <<plans, cursors, reclaimed, hole>>

\* Retiring does not collect: the next drain of a live consumer does.
retire(w) ==
    /\ cursors' = IF slot[w] = 0 THEN cursors ELSE [cursors EXCEPT ![slot[w]] = RETIRED]
    /\ UNCHANGED <<plans, slot, reclaimed, hole>>

\* Tombstone everything below the slowest of the cursors cs.
\* Mutant: only consumers that have registered are waited for.
collect_claimed(cs) ==
    LET frontier == Min({cs[k] : k \in Claimed} \union {Len(plans)})
    IN  /\ plans' = [i \in DOMAIN plans |-> plans[i] /\ i > frontier]
        /\ reclaimed' = Max({reclaimed, frontier})
collect(cs) ==
    LET frontier == Min(Range(cs) \union {Len(plans)})
    IN  /\ plans' = [i \in DOMAIN plans |-> plans[i] /\ i > frontier]
        /\ reclaimed' = Max({reclaimed, frontier})

Pending(w) == (cursors[slot[w]] + 1)..Len(plans)
drain(w) ==
    LET advanced == [cursors EXCEPT ![slot[w]] = Len(plans)]
    IN  /\ Pending(w) # {}
        /\ hole' = (hole \/ \E i \in Pending(w) : ~plans[i])
        /\ cursors' = advanced
        /\ collect(advanced)
        /\ UNCHANGED slot
=============================================================================
