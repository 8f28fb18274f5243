---------------------------- MODULE ReactiveProof ----------------------------
(***************************************************************************)
(* The reactive graph is whole and up to date between any two steps, for   *)
(* any number of nodes, flush steps and bindings, and for every program    *)
(* that does not take down a running node or unexpose a binding whose slot *)
(* was reused.                                                             *)
(*                                                                         *)
(* The walks of the code (subtree, dirty marks) are least closed sets, so  *)
(* what they reach is argued with the sets they cannot leave.              *)
(***************************************************************************)
EXTENDS Reactive, FiniteSetTheorems, TLAPS

(* Parts of the invariant that speak of a graph alone.                     *)

\* The edges mirror each other between live nodes; effects are not read and
\* signals read nothing.
Mirror(h) ==
    \A m, n \in Slots :
        /\ m \in h.sources[n] <=> n \in h.subs[m]
        /\ m \in h.sources[n] =>
             h.live[m] /\ h.live[n] /\ h.kind[m] # "Effect" /\ h.kind[n] # "Signal"

\* The child lists and the owners say the same, of live nodes only.
Tree(h) ==
    \A n, c \in Slots :
        /\ c \in h.owned[n] <=> h.owner[c] = n
        /\ c \in h.owned[n] => h.live[c] /\ h.live[n]

\* Nothing owns itself at any remove: every set of nodes has one whose owner
\* is outside.
Rooted(h) == \A S \in SUBSET Slots : S # {} => \E c \in S : h.owner[c] \notin S

Freed(h) == Live(h) \subseteq 1..h.len /\ h.free = (1..h.len) \ Live(h)

DirtyMemos(h) == {c \in Slots : h.live[c] /\ h.kind[c] = "Computed" /\ h.dirty[c]}
Counted(h) == h.dirtyComputeds = Cardinality(DirtyMemos(h))

\* A dead slot carries no mark.
Unmarked(h) == \A n \in Slots : ~h.live[n] => ~h.dirty[n] /\ ~h.queued[n]

Whole(h) ==
    Mirror(h) /\ Tree(h) /\ Rooted(h) /\ Freed(h) /\ Counted(h) /\ Unmarked(h)

(* Parts that relate the graph to the engine and the ghosts.               *)

\* What runs: live nodes, each once, memos except for the effect that the
\* flush runs; a memo is dirty until its run ends.
Running ==
    /\ base \in Nat /\ base <= Len(g.computing)
    /\ \A i \in 1..Len(g.computing) :
        /\ g.live[g.computing[i]]
        /\ g.kind[g.computing[i]] = IF g.flushing /\ i = base + 1 THEN "Effect" ELSE "Computed"
        /\ g.kind[g.computing[i]] = "Computed" => g.dirty[g.computing[i]]
    /\ \A i, j \in 1..Len(g.computing) : g.computing[i] = g.computing[j] => i = j

\* Between flushes nothing of a flush is left, and an abort leaves no body.
Flushing ==
    /\ ~g.flushing => base = 0 /\ steps = 0 /\ ~aborted /\ round = Empty /\ g.changed = {}
    /\ aborted => Len(g.computing) = base
    /\ g.flushing /\ Len(g.computing) > base => steps <= MaxSteps

Owed == Queued(g) \union InRound

\* A flush inside a memo has no entry above a node that is running.
Nested ==
    g.flushing => \A e \in Owed : \A i \in 1..base : g.computing[i] \notin Subtrees(g, e)

Gates ==
    gate => \/ g.flushing /\ Len(g.computing) = base
            \/ ~g.flushing /\ g.computing = <<>> /\ g.dirtyComputeds = 0

\* A view method has refreshed the bindings it is done with, and the node it
\* exposes is safe because it is the first that runs.
Calling ==
    /\ call.op = "none" => call.taken = {} /\ call.left = {}
    /\ call.op # "none" => (g.flushing => base > 0)
    /\ \A x \in call.taken \ call.left :
        /\ x \in watched \/ call.op = "expose"
        /\ g.kind[x] = "Computed" /\ g.dirty[x]
        => x \in Computing(g) \union call.again
    /\ call.op = "expose" =>
        /\ call.left \subseteq call.taken
        /\ \A x, y \in call.taken : x = y
        /\ \A x \in call.taken :
            /\ g.live[x] /\ g.kind[x] # "Effect"
            /\ g.computing # <<>> => g.computing[1] = x

Watching ==
    /\ behind \subseteq watched /\ watched \subseteq view.bound
    /\ \A x \in watched :
        /\ g.live[x] /\ g.kind[x] # "Effect"
        /\ g.kind[x] = "Computed" /\ g.dirty[x] => x \in view.dirty \union g.changed \union lapsed

\* What a body read is what the graph recorded.
Recorded == deps = g.sources

\* m runs because n, which runs below it, reads it.
Waits(n, m) ==
    \E i \in 1..Len(g.computing) - 1 : g.computing[i] = n /\ g.computing[i + 1] = m

\* n will run again before its value counts.
Due(n) ==
    IF g.kind[n] = "Computed" THEN g.dirty[n] /\ n \notin Computing(g)
                              ELSE n \in Owed \union dropped

\* Whatever reads a memo that is dirty or was overtaken will run again, or was
\* overtaken with it, or waits for what the memo's run returns.
Downstream ==
    \A m, n \in Slots :
        n \in g.subs[m] /\ g.kind[m] = "Computed" /\ (g.dirty[m] \/ m \in overtaken) =>
            n \in overtaken \/ Due(n) \/ (Waits(n, m) /\ m \notin overtaken)

\* The queued flag stands for an entry.
Wakes == \A e \in LiveOf(g, "Effect") : g.queued[e] => e \in Owed \union dropped

Fresh ==
    /\ \A c \in LiveOf(g, "Computed") :
        (~g.dirty[c] \/ c \in Computing(g)) /\ c \in stale => c \in dropped \union overtaken
    /\ \A c \in LiveOf(g, "Signal") : c \notin stale /\ ~g.dirty[c]

IInv ==
    /\ TypeOK /\ Whole(g) /\ Running /\ Flushing /\ Nested /\ Gates
    /\ RegistryExact /\ Calling /\ Watching /\ Recorded /\ Downstream /\ Wakes
    /\ Fresh /\ RerunOwed /\ NoMissedPatch

Careful == Careless = {}

(***************************************************************************)
(* Walks.                                                                  *)
(***************************************************************************)

LEMMA ClosureFacts ==
    ASSUME NEW next \in [Slots -> SUBSET Slots], NEW from \in SUBSET Slots
    PROVE  /\ Closure(next, from) \in SUBSET Slots
           /\ from \subseteq Closure(next, from)
           /\ \A m \in Closure(next, from) : next[m] \subseteq Closure(next, from)
           /\ \A S \in SUBSET Slots :
                from \subseteq S /\ (\A m \in S : next[m] \subseteq S)
                    => Closure(next, from) \subseteq S
BY DEF Closure

\* A graph of any counts: what the operators of the graph map to each other.
Raw ==
    [kind : [Slots -> NodeKind],
     live : [Slots -> BOOLEAN], dirty : [Slots -> BOOLEAN], queued : [Slots -> BOOLEAN],
     sources : [Slots -> SUBSET Slots], subs : [Slots -> SUBSET Slots],
     owner : [Slots -> Slots \union {NoOwner}], owned : [Slots -> SUBSET Slots],
     free : SUBSET Slots, len : 0..MaxNodes, computing : Seq(Slots),
     dirtyComputeds : Int, queue : [Slots -> Nat],
     changed : SUBSET Slots, flushing : BOOLEAN]

LEMMA SlotsFacts ==
    /\ MaxNodes \in Nat /\ MaxMade \in Nat /\ MaxDup \in Nat /\ MaxSteps \in Nat
    /\ MaxNodes > 0 /\ MaxDup > 0
    /\ IsFiniteSet(Slots) /\ Cardinality(Slots) = MaxNodes
    /\ NoOwner \notin Slots
<1>1. /\ MaxNodes \in Nat /\ MaxMade \in Nat /\ MaxDup \in Nat /\ MaxSteps \in Nat
      /\ MaxNodes > 0 /\ MaxDup > 0
  <2>1. {MaxNodes, MaxMade, MaxDup, MaxSteps} \subseteq Nat \ {0}
    BY ReactiveBounds, Zenon
  <2>2. MaxNodes \in Nat \ {0} /\ MaxMade \in Nat \ {0} /\ MaxDup \in Nat \ {0}
        /\ MaxSteps \in Nat \ {0}
    BY <2>1, Zenon
  <2> QED BY <2>2
<1>2. IsFiniteSet(Slots) /\ Cardinality(Slots) = MaxNodes
  BY <1>1, FS_Interval DEF Slots
<1> QED BY <1>1, <1>2 DEF Slots, NoOwner

LEMMA GraphIsRaw == ASSUME NEW h \in Graph PROVE h \in Raw
BY SlotsFacts DEF Graph, Raw

LEMMA RawIsGraph ==
    ASSUME NEW h \in Raw, h.dirtyComputeds \in 0..MaxNodes, h.queue \in [Slots -> 0..MaxDup]
    PROVE  h \in Graph
BY DEF Graph, Raw

LEMMA DirtyMemosBounded ==
    ASSUME NEW h \in Raw, Counted(h)
    PROVE  /\ IsFiniteSet(DirtyMemos(h)) /\ h.dirtyComputeds \in 0..MaxNodes
<1>1. DirtyMemos(h) \subseteq Slots
  BY DEF DirtyMemos
<1>2. IsFiniteSet(DirtyMemos(h)) /\ Cardinality(DirtyMemos(h)) <= Cardinality(Slots)
  BY <1>1, FS_Subset, SlotsFacts
<1>3. Cardinality(DirtyMemos(h)) \in Nat
  BY <1>2, FS_CardinalityType
<1> QED BY <1>2, <1>3, SlotsFacts DEF Counted

LEMMA SubtreesFacts ==
    ASSUME NEW h \in Raw, Tree(h), NEW n \in Slots
    PROVE  /\ Subtrees(h, n) \in SUBSET Slots
           /\ h.owned[n] \subseteq Subtrees(h, n)
           /\ \A m \in Subtrees(h, n) : h.owned[m] \subseteq Subtrees(h, n)
           /\ \A m \in Subtrees(h, n) : h.live[m] /\ h.owner[m] \in Subtrees(h, n) \union {n}
           /\ Rooted(h) => n \notin Subtrees(h, n)
           /\ \A S \in SUBSET Slots :
                h.owned[n] \subseteq S /\ (\A m \in S : h.owned[m] \subseteq S)
                    => Subtrees(h, n) \subseteq S
<1> DEFINE D == Subtrees(h, n)
<1>1. Children(h) = h.owned /\ h.owned \in [Slots -> SUBSET Slots]
  <2>1. h.owned \in [Slots -> SUBSET Slots]
    BY DEF Raw
  <2>2. \A m \in Slots : {c \in h.owned[m] : h.live[c]} = h.owned[m]
    BY <2>1 DEF Tree
  <2> QED BY <2>1, <2>2 DEF Children
<1>2. D = Closure(h.owned, h.owned[n])
  BY <1>1 DEF Subtrees
<1>3. /\ D \in SUBSET Slots
      /\ h.owned[n] \subseteq D
      /\ \A m \in D : h.owned[m] \subseteq D
      /\ \A S \in SUBSET Slots :
            h.owned[n] \subseteq S /\ (\A m \in S : h.owned[m] \subseteq S) => D \subseteq S
  <2>1. h.owned[n] \in SUBSET Slots
    BY <1>1
  <2> HIDE DEF D
  <2> QED BY <1>1, <1>2, <2>1, ClosureFacts
<1>4. ASSUME NEW m \in D PROVE h.owner[m] \in D \union {n}
  <2> HIDE DEF D
  <2>1. SUFFICES ASSUME h.owner[m] \notin D \union {n} PROVE FALSE
    OBVIOUS
  <2>2. D \ {m} \in SUBSET Slots
    BY <1>3
  <2>3. h.owned[n] \subseteq D \ {m}
    BY <1>3, <2>1 DEF Tree
  <2>4. \A x \in D \ {m} : h.owned[x] \subseteq D \ {m}
    BY <1>3, <2>1 DEF Tree
  <2>5. D \subseteq D \ {m}
    BY <1>3, <2>2, <2>3, <2>4
  <2> QED BY <2>5
<1>5. ASSUME NEW m \in D PROVE h.live[m]
  <2> HIDE DEF D
  <2> DEFINE p == h.owner[m]
  <2>1. p \in Slots /\ m \in Slots
    BY <1>3, <1>4
  <2>2. m \in h.owned[p]
    BY <2>1 DEF Tree
  <2> QED BY <2>1, <2>2 DEF Tree
<1>6. Rooted(h) => n \notin D
  <2> HIDE DEF D
  <2>1. SUFFICES ASSUME Rooted(h), n \in D PROVE FALSE
    OBVIOUS
  <2>2. PICK c \in D : h.owner[c] \notin D
    BY <1>3, <2>1 DEF Rooted
  <2> QED BY <1>4, <2>1, <2>2
<1> HIDE DEF D
<1>7. /\ D \in SUBSET Slots
      /\ h.owned[n] \subseteq D
      /\ \A m \in D : h.owned[m] \subseteq D
      /\ \A m \in D : h.live[m] /\ h.owner[m] \in D \union {n}
      /\ Rooted(h) => n \notin D
      /\ \A S \in SUBSET Slots :
            h.owned[n] \subseteq S /\ (\A m \in S : h.owned[m] \subseteq S) => D \subseteq S
  BY <1>3, <1>4, <1>5, <1>6
<1> QED BY <1>7 DEF D

(***************************************************************************)
(* Disposal takes a set of nodes out of the graph.                         *)
(***************************************************************************)

\* k is h without the nodes D.
Pruned(h, k, D) ==
    /\ k \in Raw
    /\ k.kind = h.kind /\ k.len = h.len /\ k.computing = h.computing
    /\ k.queue = h.queue /\ k.changed = h.changed /\ k.flushing = h.flushing
    /\ k.free = h.free \union D
    /\ \A n \in Slots :
        /\ k.live[n] = (h.live[n] /\ n \notin D)
        /\ k.dirty[n] = (h.dirty[n] /\ n \notin D)
        /\ k.queued[n] = (h.queued[n] /\ n \notin D)
        /\ k.owner[n] = IF n \in D THEN NoOwner ELSE h.owner[n]
        /\ k.sources[n] = IF n \in D THEN {} ELSE h.sources[n] \ D
        /\ k.subs[n] = IF n \in D THEN {} ELSE h.subs[n] \ D
        /\ k.owned[n] = IF n \in D THEN {} ELSE h.owned[n] \ D

\* D is live and leaves no child behind.
Doomed(h, D) ==
    /\ D \in SUBSET Slots /\ D \subseteq Live(h)
    /\ \A m \in D : h.owned[m] \subseteq D

\* What unhook_and_free returns, field by field.
Unhooked(h, k, D) ==
    /\ k \in Raw
    /\ k.kind = h.kind /\ k.len = h.len /\ k.computing = h.computing
    /\ k.queue = h.queue /\ k.changed = h.changed /\ k.flushing = h.flushing
    /\ k.free = h.free \union D /\ k.owned = h.owned
    /\ k.dirtyComputeds =
         h.dirtyComputeds
         - Cardinality({c \in D : h.kind[c] = "Computed" /\ h.dirty[c]})
    /\ \A n \in Slots :
         /\ k.live[n] = (h.live[n] /\ n \notin D)
         /\ k.dirty[n] = (h.dirty[n] /\ n \notin D)
         /\ k.queued[n] = (h.queued[n] /\ n \notin D)
         /\ k.owner[n] = IF n \in D THEN NoOwner ELSE h.owner[n]
         /\ k.sources[n] = IF n \in D THEN {} ELSE h.sources[n] \ {d \in D : n \in h.subs[d]}
         /\ k.subs[n] = IF n \in D THEN {} ELSE h.subs[n] \ {d \in D : n \in h.sources[d]}

LEMMA UnhookFields ==
    ASSUME NEW h \in Raw, NEW D \in SUBSET Slots
    PROVE  Unhooked(h, unhook_and_free(h, D), D)
<1> DEFINE k == unhook_and_free(h, D)
<1>0. k = unhook_and_free(h, D)
  OBVIOUS
<1> HIDE DEF k
<1> DEFINE gone == {c \in D : h.kind[c] = "Computed" /\ h.dirty[c]}
           src == [n \in Slots |-> IF n \in D THEN {} ELSE h.sources[n] \ {d \in D : n \in h.subs[d]}]
           sub == [n \in Slots |-> IF n \in D THEN {} ELSE h.subs[n] \ {d \in D : n \in h.sources[d]}]
           lv == [n \in Slots |-> h.live[n] /\ n \notin D]
           dt == [n \in Slots |-> h.dirty[n] /\ n \notin D]
           qd == [n \in Slots |-> h.queued[n] /\ n \notin D]
           ow == [n \in Slots |-> IF n \in D THEN NoOwner ELSE h.owner[n]]
           fr == h.free \union D
           dc == h.dirtyComputeds - Cardinality(gone)
<1>1. k = [h EXCEPT !.sources = src, !.subs = sub, !.dirtyComputeds = dc, !.live = lv,
                    !.dirty = dt, !.queued = qd, !.owner = ow, !.free = fr]
  BY <1>0 DEF unhook_and_free
<1>2. /\ src \in [Slots -> SUBSET Slots] /\ sub \in [Slots -> SUBSET Slots]
      /\ lv \in [Slots -> BOOLEAN] /\ dt \in [Slots -> BOOLEAN] /\ qd \in [Slots -> BOOLEAN]
      /\ ow \in [Slots -> Slots \union {NoOwner}] /\ fr \in SUBSET Slots
  BY DEF Raw
<1>3. dc \in Int
  <2>1. gone \subseteq Slots
    OBVIOUS
  <2>2. IsFiniteSet(gone)
    BY <2>1, FS_Subset, SlotsFacts
  <2>3. Cardinality(gone) \in Nat
    BY <2>2, FS_CardinalityType
  <2>4. h.dirtyComputeds \in Int
    BY DEF Raw
  <2> QED BY <2>3, <2>4
<1>4. /\ \A n \in Slots : /\ lv[n] = (h.live[n] /\ n \notin D)
                          /\ dt[n] = (h.dirty[n] /\ n \notin D)
                          /\ qd[n] = (h.queued[n] /\ n \notin D)
                          /\ ow[n] = IF n \in D THEN NoOwner ELSE h.owner[n]
      /\ \A n \in Slots :
            /\ src[n] = IF n \in D THEN {} ELSE h.sources[n] \ {d \in D : n \in h.subs[d]}
            /\ sub[n] = IF n \in D THEN {} ELSE h.subs[n] \ {d \in D : n \in h.sources[d]}
      /\ dc = h.dirtyComputeds - Cardinality({c \in D : h.kind[c] = "Computed" /\ h.dirty[c]})
      /\ fr = h.free \union D
  OBVIOUS
<1> HIDE DEF gone, src, sub, lv, dt, qd, ow, fr, dc
<1>5. /\ k \in Raw
      /\ k.kind = h.kind /\ k.len = h.len /\ k.computing = h.computing
      /\ k.queue = h.queue /\ k.changed = h.changed /\ k.flushing = h.flushing
      /\ k.owned = h.owned /\ k.free = fr /\ k.dirtyComputeds = dc
      /\ k.live = lv /\ k.dirty = dt /\ k.queued = qd /\ k.owner = ow
      /\ k.sources = src /\ k.subs = sub
  BY <1>1, <1>2, <1>3 DEF Raw
<1>6. Unhooked(h, k, D)
  BY <1>4, <1>5, Zenon DEF Unhooked
<1> QED BY <1>0, <1>6

LEMMA UnhookCounted ==
    ASSUME NEW h \in Raw, NEW D \in SUBSET Slots, Unmarked(h), Counted(h)
    PROVE  Counted(unhook_and_free(h, D)) /\ Unmarked(unhook_and_free(h, D))
<1> DEFINE k == unhook_and_free(h, D)
           gone == {c \in D : h.kind[c] = "Computed" /\ h.dirty[c]}
<1>0. Unhooked(h, k, D)
  BY UnhookFields
<1> HIDE DEF k
<1>1. /\ k.kind = h.kind
      /\ k.dirtyComputeds = h.dirtyComputeds - Cardinality(gone)
      /\ \A n \in Slots :
            /\ k.live[n] = (h.live[n] /\ n \notin D)
            /\ k.dirty[n] = (h.dirty[n] /\ n \notin D)
            /\ k.queued[n] = (h.queued[n] /\ n \notin D)
  BY <1>0 DEF Unhooked
<1>2. DirtyMemos(k) = DirtyMemos(h) \ gone
  BY <1>1 DEF DirtyMemos
<1>3. gone = DirtyMemos(h) \intersect gone
  BY DEF DirtyMemos, Unmarked
<1>4. IsFiniteSet(DirtyMemos(h))
  BY DirtyMemosBounded
<1>5. Cardinality(DirtyMemos(k)) = Cardinality(DirtyMemos(h)) - Cardinality(gone)
  <2> HIDE DEF gone
  <2> QED BY <1>2, <1>3, <1>4, FS_Difference
<1>6. Counted(k)
  BY <1>1, <1>5 DEF Counted
<1>7. Unmarked(k)
  BY <1>1 DEF Unmarked
<1> QED BY <1>6, <1>7 DEF k

LEMMA PrunedWhole ==
    ASSUME NEW h \in Raw, Whole(h), NEW D, Doomed(h, D), NEW k, Pruned(h, k, D), Counted(k)
    PROVE  Whole(k)
<1>1. Mirror(k)
  <2>1. ASSUME NEW m \in Slots, NEW n \in Slots
        PROVE  /\ m \in k.sources[n] <=> n \in k.subs[m]
               /\ m \in k.sources[n] =>
                    k.live[m] /\ k.live[n] /\ k.kind[m] # "Effect" /\ k.kind[n] # "Signal"
    <3>1. m \in h.sources[n] <=> n \in h.subs[m]
      BY DEF Whole, Mirror
    <3>2. m \in h.sources[n] =>
            h.live[m] /\ h.live[n] /\ h.kind[m] # "Effect" /\ h.kind[n] # "Signal"
      BY DEF Whole, Mirror
    <3>3. /\ k.sources[n] = IF n \in D THEN {} ELSE h.sources[n] \ D
          /\ k.subs[m] = IF m \in D THEN {} ELSE h.subs[m] \ D
          /\ k.live[n] = (h.live[n] /\ n \notin D)
          /\ k.live[m] = (h.live[m] /\ m \notin D)
          /\ k.kind = h.kind
      BY DEF Pruned
    <3> QED BY <3>1, <3>2, <3>3
  <2> QED BY <2>1 DEF Mirror
<1>2. Tree(k)
  <2>1. ASSUME NEW n \in Slots, NEW c \in Slots
        PROVE  /\ c \in k.owned[n] <=> k.owner[c] = n
               /\ c \in k.owned[n] => k.live[c] /\ k.live[n]
    <3>1. c \in h.owned[n] <=> h.owner[c] = n
      BY DEF Whole, Tree
    <3>2. c \in h.owned[n] => h.live[c] /\ h.live[n]
      BY DEF Whole, Tree
    <3>3. n \in D /\ c \in h.owned[n] => c \in D
      BY DEF Doomed
    <3>4. /\ k.owned[n] = IF n \in D THEN {} ELSE h.owned[n] \ D
          /\ k.owner[c] = IF c \in D THEN NoOwner ELSE h.owner[c]
          /\ k.live[n] = (h.live[n] /\ n \notin D)
          /\ k.live[c] = (h.live[c] /\ c \notin D)
      BY DEF Pruned
    <3> QED BY <3>1, <3>2, <3>3, <3>4, SlotsFacts
  <2> QED BY <2>1 DEF Tree
<1>3. Rooted(k)
  <2> SUFFICES ASSUME NEW S \in SUBSET Slots, S # {} PROVE \E c \in S : k.owner[c] \notin S
    BY DEF Rooted
  <2>1. PICK c \in S : h.owner[c] \notin S
    BY DEF Whole, Rooted
  <2>2. k.owner[c] = IF c \in D THEN NoOwner ELSE h.owner[c]
    BY DEF Pruned
  <2> QED BY <2>1, <2>2, SlotsFacts
<1>4. Freed(k)
  <2>1. Live(k) = Live(h) \ D
    BY DEF Live, Pruned
  <2>2. D \subseteq Live(h)
    BY DEF Doomed
  <2>3. Live(h) \subseteq 1..h.len /\ h.free = (1..h.len) \ Live(h)
    BY DEF Whole, Freed
  <2>4. k.free = h.free \union D /\ k.len = h.len
    BY DEF Pruned
  <2> QED BY <2>1, <2>2, <2>3, <2>4, Zenon DEF Freed
<1>5. Unmarked(k)
  BY DEF Whole, Unmarked, Pruned
<1> QED BY <1>1, <1>2, <1>3, <1>4, <1>5 DEF Whole

LEMMA PrunedTwice ==
    ASSUME NEW h \in Raw, NEW k, NEW l, NEW D \in SUBSET Slots, NEW E \in SUBSET Slots,
           Pruned(h, k, D), Pruned(k, l, E)
    PROVE  Pruned(h, l, D \union E)
<1>1. /\ l \in Raw
      /\ l.kind = h.kind /\ l.len = h.len /\ l.computing = h.computing
      /\ l.queue = h.queue /\ l.changed = h.changed /\ l.flushing = h.flushing
      /\ l.free = h.free \union (D \union E)
  BY Zenon DEF Pruned
<1>2. ASSUME NEW n \in Slots
      PROVE  /\ l.live[n] = (h.live[n] /\ n \notin D \union E)
             /\ l.dirty[n] = (h.dirty[n] /\ n \notin D \union E)
             /\ l.queued[n] = (h.queued[n] /\ n \notin D \union E)
             /\ l.owner[n] = IF n \in D \union E THEN NoOwner ELSE h.owner[n]
  <2>1. /\ l.live[n] = (k.live[n] /\ n \notin E)
        /\ l.dirty[n] = (k.dirty[n] /\ n \notin E)
        /\ l.queued[n] = (k.queued[n] /\ n \notin E)
        /\ l.owner[n] = IF n \in E THEN NoOwner ELSE k.owner[n]
    BY DEF Pruned
  <2>2. /\ k.live[n] = (h.live[n] /\ n \notin D)
        /\ k.dirty[n] = (h.dirty[n] /\ n \notin D)
        /\ k.queued[n] = (h.queued[n] /\ n \notin D)
        /\ k.owner[n] = IF n \in D THEN NoOwner ELSE h.owner[n]
    BY DEF Pruned
  <2> QED BY <2>1, <2>2, Zenon
<1>3. ASSUME NEW n \in Slots
      PROVE  /\ l.sources[n] = IF n \in D \union E THEN {} ELSE h.sources[n] \ (D \union E)
             /\ l.subs[n] = IF n \in D \union E THEN {} ELSE h.subs[n] \ (D \union E)
             /\ l.owned[n] = IF n \in D \union E THEN {} ELSE h.owned[n] \ (D \union E)
  <2>1. /\ l.sources[n] = IF n \in E THEN {} ELSE k.sources[n] \ E
        /\ l.subs[n] = IF n \in E THEN {} ELSE k.subs[n] \ E
        /\ l.owned[n] = IF n \in E THEN {} ELSE k.owned[n] \ E
    BY DEF Pruned
  <2>2. /\ k.sources[n] = IF n \in D THEN {} ELSE h.sources[n] \ D
        /\ k.subs[n] = IF n \in D THEN {} ELSE h.subs[n] \ D
        /\ k.owned[n] = IF n \in D THEN {} ELSE h.owned[n] \ D
    BY DEF Pruned
  <2>3. /\ \A S : (S \ D) \ E = S \ (D \union E)
        /\ {} \ E = {}
    OBVIOUS
  <2> QED BY <2>1, <2>2, <2>3
<1> QED BY <1>1, <1>2, <1>3 DEF Pruned

\* No edge of k ends in D.
Severed(h, k, D) ==
    \A n \in Slots : /\ k.sources[n] = IF n \in D THEN {} ELSE h.sources[n] \ D
                     /\ k.subs[n] = IF n \in D THEN {} ELSE h.subs[n] \ D

LEMMA UnhookEdges ==
    ASSUME NEW h \in Raw, Mirror(h), NEW D \in SUBSET Slots, NEW k, Unhooked(h, k, D)
    PROVE  Mirror(k) /\ Severed(h, k, D)
<1>1. ASSUME NEW n \in Slots
      PROVE  /\ k.sources[n] = IF n \in D THEN {} ELSE h.sources[n] \ D
             /\ k.subs[n] = IF n \in D THEN {} ELSE h.subs[n] \ D
  <2>1. h.sources[n] \in SUBSET Slots /\ h.subs[n] \in SUBSET Slots
    BY DEF Raw
  <2>2. \A d \in D : n \in h.subs[d] <=> d \in h.sources[n]
    BY DEF Mirror
  <2>3. \A d \in D : n \in h.sources[d] <=> d \in h.subs[n]
    BY DEF Mirror
  <2>4. h.sources[n] \ {d \in D : n \in h.subs[d]} = h.sources[n] \ D
    BY <2>1, <2>2
  <2>5. h.subs[n] \ {d \in D : n \in h.sources[d]} = h.subs[n] \ D
    BY <2>1, <2>3
  <2>6. /\ k.sources[n] = IF n \in D THEN {} ELSE h.sources[n] \ {d \in D : n \in h.subs[d]}
        /\ k.subs[n] = IF n \in D THEN {} ELSE h.subs[n] \ {d \in D : n \in h.sources[d]}
    BY DEF Unhooked
  <2> QED BY <2>4, <2>5, <2>6
<1>2. ASSUME NEW m \in Slots, NEW n \in Slots
      PROVE  /\ m \in k.sources[n] <=> n \in k.subs[m]
             /\ m \in k.sources[n] =>
                  k.live[m] /\ k.live[n] /\ k.kind[m] # "Effect" /\ k.kind[n] # "Signal"
  <2>1. m \in h.sources[n] <=> n \in h.subs[m]
    BY DEF Mirror
  <2>2. m \in h.sources[n] =>
          h.live[m] /\ h.live[n] /\ h.kind[m] # "Effect" /\ h.kind[n] # "Signal"
    BY DEF Mirror
  <2>3. /\ k.live[n] = (h.live[n] /\ n \notin D)
        /\ k.live[m] = (h.live[m] /\ m \notin D)
        /\ k.kind = h.kind
    BY DEF Unhooked
  <2> QED BY <1>1, <2>1, <2>2, <2>3
<1> QED BY <1>1, <1>2 DEF Mirror, Severed

\* Another child list in the record changes nothing else.
LEMMA OwnedFields ==
    ASSUME NEW h \in Raw, NEW O \in [Slots -> SUBSET Slots], NEW e, e = [h EXCEPT !.owned = O]
    PROVE  /\ e \in Raw
           /\ e.kind = h.kind /\ e.len = h.len /\ e.computing = h.computing
           /\ e.queue = h.queue /\ e.changed = h.changed /\ e.flushing = h.flushing
           /\ e.free = h.free /\ e.dirtyComputeds = h.dirtyComputeds
           /\ e.live = h.live /\ e.dirty = h.dirty /\ e.queued = h.queued
           /\ e.owner = h.owner /\ e.sources = h.sources /\ e.subs = h.subs
           /\ e.owned = O
BY DEF Raw

LEMMA OwnedKeeps ==
    ASSUME NEW h \in Raw, NEW O \in [Slots -> SUBSET Slots], NEW e, e = [h EXCEPT !.owned = O]
    PROVE  /\ Mirror(h) => Mirror(e)
           /\ Unmarked(h) => Unmarked(e)
           /\ Counted(h) => Counted(e)
<1>1. /\ e.kind = h.kind /\ e.dirtyComputeds = h.dirtyComputeds
      /\ e.live = h.live /\ e.dirty = h.dirty /\ e.queued = h.queued
      /\ e.sources = h.sources /\ e.subs = h.subs
  BY OwnedFields
<1> QED BY <1>1, Zenon DEF Mirror, Unmarked, Counted, DirtyMemos

\* Emptying the child lists and unhooking prunes the graph.
LEMMA UnhookPrunes ==
    ASSUME NEW h \in Raw, Whole(h), NEW D \in SUBSET Slots,
           NEW O \in [Slots -> SUBSET Slots],
           \A n \in Slots : O[n] = IF n \in D THEN {} ELSE h.owned[n] \ D
    PROVE  /\ Pruned(h, unhook_and_free([h EXCEPT !.owned = O], D), D)
           /\ Counted(unhook_and_free([h EXCEPT !.owned = O], D))
<1> DEFINE e == [h EXCEPT !.owned = O]
           k == unhook_and_free(e, D)
<1>1. e = [h EXCEPT !.owned = O]
  OBVIOUS
<1> HIDE DEF e
<1>2. /\ e \in Raw
      /\ e.kind = h.kind /\ e.len = h.len /\ e.computing = h.computing
      /\ e.queue = h.queue /\ e.changed = h.changed /\ e.flushing = h.flushing
      /\ e.free = h.free
      /\ e.live = h.live /\ e.dirty = h.dirty /\ e.queued = h.queued
      /\ e.owner = h.owner /\ e.sources = h.sources /\ e.subs = h.subs
      /\ e.owned = O
  BY <1>1, OwnedFields
<1>3. Mirror(e) /\ Unmarked(e) /\ Counted(e)
  BY <1>1, OwnedKeeps DEF Whole
<1>4. Unhooked(e, k, D)
  BY <1>2, UnhookFields
<1>5. Counted(k)
  BY <1>2, <1>3, UnhookCounted
<1> HIDE DEF k
<1>6. \A n \in Slots : /\ k.sources[n] = IF n \in D THEN {} ELSE h.sources[n] \ D
                       /\ k.subs[n] = IF n \in D THEN {} ELSE h.subs[n] \ D
  <2>1. \A n \in Slots : /\ k.sources[n] = IF n \in D THEN {} ELSE e.sources[n] \ D
                         /\ k.subs[n] = IF n \in D THEN {} ELSE e.subs[n] \ D
    <3>1. e \in Raw
      BY <1>2
    <3>2. Severed(e, k, D)
      BY <3>1, <1>3, <1>4, UnhookEdges
    <3> QED BY <3>2 DEF Severed
  <2>2. e.sources = h.sources /\ e.subs = h.subs
    BY <1>2
  <2> QED BY <2>1, <2>2, Zenon
<1>7. /\ k \in Raw
      /\ k.kind = h.kind /\ k.len = h.len /\ k.computing = h.computing
      /\ k.queue = h.queue /\ k.changed = h.changed /\ k.flushing = h.flushing
      /\ k.free = h.free \union D /\ k.owned = O
  BY <1>2, <1>4 DEF Unhooked
<1>8. \A n \in Slots :
        /\ k.live[n] = (h.live[n] /\ n \notin D)
        /\ k.dirty[n] = (h.dirty[n] /\ n \notin D)
        /\ k.queued[n] = (h.queued[n] /\ n \notin D)
        /\ k.owner[n] = IF n \in D THEN NoOwner ELSE h.owner[n]
  BY <1>2, <1>4 DEF Unhooked
<1>9. Pruned(h, k, D)
  BY <1>6, <1>7, <1>8 DEF Pruned
<1> QED BY <1>5, <1>9 DEF k, e

LEMMA SubtreesDoomed ==
    ASSUME NEW h \in Raw, Whole(h), NEW n \in Slots
    PROVE  /\ Doomed(h, Subtrees(h, n))
           /\ n \notin Subtrees(h, n)
           /\ h.live[n] => Doomed(h, Subtrees(h, n) \union {n})
           /\ h.owned[n] \subseteq Subtrees(h, n)
           /\ \A m \in Subtrees(h, n) : h.owner[m] \in Subtrees(h, n) \union {n}
<1> DEFINE D == Subtrees(h, n)
<1>1. /\ D \in SUBSET Slots
      /\ h.owned[n] \subseteq D
      /\ \A m \in D : h.owned[m] \subseteq D
      /\ \A m \in D : h.live[m] /\ h.owner[m] \in D \union {n}
      /\ n \notin D
  BY SubtreesFacts DEF Whole
<1> HIDE DEF D
<1>2. /\ Doomed(h, D) /\ n \notin D
      /\ h.live[n] => Doomed(h, D \union {n})
      /\ h.owned[n] \subseteq D
      /\ \A m \in D : h.owner[m] \in D \union {n}
  BY <1>1 DEF Doomed, Live
<1> QED BY <1>2 DEF D

LEMMA DisposeOwnedPrunes ==
    ASSUME NEW h \in Raw, Whole(h), NEW n \in Slots
    PROVE  /\ Pruned(h, dispose_owned(h, n), Subtrees(h, n))
           /\ Whole(dispose_owned(h, n))
<1> DEFINE D == Subtrees(h, n)
           O == [m \in Slots |-> IF m = n \/ m \in D THEN {} ELSE h.owned[m]]
<1>1. dispose_owned(h, n) = unhook_and_free([h EXCEPT !.owned = O], D)
  BY DEF dispose_owned
<1>2. Doomed(h, D) /\ h.owned[n] \subseteq D /\ n \notin D
  BY SubtreesDoomed
<1>2a. \A m \in D : h.owner[m] \in D \union {n}
  BY SubtreesDoomed
<1>3. O \in [Slots -> SUBSET Slots]
  BY DEF Raw
<1>4. \A m \in Slots : O[m] = IF m \in D THEN {} ELSE h.owned[m] \ D
  <2> HIDE DEF D
  <2>1. TAKE m \in Slots
  <2>2. O[m] = IF m = n \/ m \in D THEN {} ELSE h.owned[m]
    OBVIOUS
  <2> HIDE DEF O
  <2>3. CASE m \in D \/ m = n
    BY <1>2, <2>2, <2>3
  <2>4. CASE m \notin D /\ m # n
    <3>1. \A c \in h.owned[m] : c \notin D
      <4>1. \A c \in h.owned[m] : c \in Slots /\ h.owner[c] = m
        BY DEF Whole, Tree, Raw
      <4> QED BY <1>2a, <2>4, <4>1
    <3> QED BY <2>2, <2>4, <3>1
  <2> QED BY <2>3, <2>4
<1> HIDE DEF D, O
<1>5. D \in SUBSET Slots
  BY <1>2 DEF Doomed
<1>6. Pruned(h, dispose_owned(h, n), D) /\ Counted(dispose_owned(h, n))
  BY <1>1, <1>3, <1>4, <1>5, UnhookPrunes
<1>7. Whole(dispose_owned(h, n))
  BY <1>2, <1>6, PrunedWhole
<1> QED BY <1>6, <1>7 DEF D

LEMMA DisposePrunes ==
    ASSUME NEW h \in Raw, Whole(h), NEW n \in Slots, h.live[n]
    PROVE  /\ Pruned(h, dispose(h, n), Subtrees(h, n) \union {n})
           /\ Whole(dispose(h, n))
<1> DEFINE D == Subtrees(h, n)
           o == h.owner[n]
           O1 == IF o # NoOwner /\ h.live[o] THEN [h.owned EXCEPT ![o] = @ \ {n}] ELSE h.owned
           detached == [h EXCEPT !.owned = O1]
           O2 == [m \in Slots |-> IF m = n \/ m \in D THEN {} ELSE O1[m]]
           e == [h EXCEPT !.owned = O2]
           k1 == unhook_and_free(e, D)
           k == unhook_and_free(k1, {n})
<1>1. /\ Doomed(h, D) /\ Doomed(h, D \union {n}) /\ D \in SUBSET Slots
      /\ h.owned[n] \subseteq D /\ n \notin D
  BY SubtreesDoomed DEF Doomed
<1>2. \A m \in D : h.owner[m] \in D \union {n}
  BY SubtreesDoomed
<1>3. h.owned \in [Slots -> SUBSET Slots] /\ o \in Slots \union {NoOwner}
  BY DEF Raw
<1>4. o # NoOwner => h.live[o] /\ n \in h.owned[o] /\ o \notin D /\ o # n
  <2> SUFFICES ASSUME o # NoOwner PROVE h.live[o] /\ n \in h.owned[o] /\ o \notin D /\ o # n
    OBVIOUS
  <2>1. o \in Slots
    BY <1>3
  <2>2. n \in h.owned[o] /\ h.live[o]
    BY <2>1 DEF Whole, Tree
  <2>3. o \notin D
    BY <1>1, <2>2 DEF Doomed
  <2>4. o # n
    <3>1. PICK c \in {n} : h.owner[c] \notin {n}
      BY DEF Whole, Rooted
    <3> QED BY <3>1
  <2> QED BY <2>2, <2>3, <2>4
<1>5. \A m \in Slots : O1[m] = IF m = o THEN h.owned[m] \ {n} ELSE h.owned[m]
  BY <1>3, <1>4, SlotsFacts
<1>6. O1 \in [Slots -> SUBSET Slots]
  BY <1>3
<1>7. \A m \in Slots : O1[m] = h.owned[m] \ {n}
  <2>1. \A m \in Slots : m # o => n \notin h.owned[m]
    BY DEF Whole, Tree
  <2> HIDE DEF O1
  <2> QED BY <1>5, <2>1
<1> HIDE DEF O1, D
<1>8. detached \in Raw /\ detached.live = h.live /\ detached.owned = O1
  BY <1>6, OwnedFields
<1>9. Subtrees(detached, n) = D
  <2> DEFINE A == Subtrees(detached, n)
  <2>1. Children(detached) = O1
    <3>1. \A m \in Slots : {c \in O1[m] : h.live[c]} = O1[m]
      BY <1>3, <1>7 DEF Whole, Tree
    <3> QED BY <1>6, <1>8, <3>1 DEF Children
  <2>2. A = Closure(O1, O1[n])
    BY <2>1 DEF Subtrees
  <2> HIDE DEF A
  <2>3. O1[n] \in SUBSET Slots
    BY <1>6
  <2>4. /\ A \in SUBSET Slots
        /\ O1[n] \subseteq A
        /\ \A m \in A : O1[m] \subseteq A
        /\ \A S \in SUBSET Slots :
             O1[n] \subseteq S /\ (\A m \in S : O1[m] \subseteq S) => A \subseteq S
    BY <1>6, <2>2, <2>3, ClosureFacts
  <2>5. A \subseteq D
    <3>1. O1[n] \subseteq D
      BY <1>1, <1>7
    <3>2. \A m \in D : O1[m] \subseteq D
      BY <1>1, <1>7 DEF Doomed
    <3> QED BY <1>1, <2>4, <3>1, <3>2
  <2>6. \A m \in A \union {n} : h.owned[m] \subseteq A
    <3>1. TAKE m \in A \union {n}
    <3>2. m # o
      BY <1>1, <1>3, <1>4, <2>5, SlotsFacts
    <3>3. m \in Slots
      BY <2>4
    <3>4. O1[m] = h.owned[m]
      BY <1>5, <3>2, <3>3
    <3> QED BY <2>4, <3>4
  <2>7. D \subseteq A
    <3>1. \A S \in SUBSET Slots :
            h.owned[n] \subseteq S /\ (\A m \in S : h.owned[m] \subseteq S) => D \subseteq S
      BY SubtreesFacts DEF D, Whole
    <3> QED BY <2>4, <2>6, <3>1
  <2>8. A = D
    BY <2>5, <2>7
  <2> QED BY <2>8 DEF A
<1>10. dispose(h, n) = k
  <2>1. detached = IF o # NoOwner /\ h.live[o] THEN [h EXCEPT !.owned[o] = @ \ {n}] ELSE h
    BY DEF O1, Raw
  <2>2. [detached EXCEPT !.owned =
            [m \in Slots |-> IF m = n \/ m \in D THEN {} ELSE @[m]]] = e
    BY <1>8 DEF Raw
  <2>3. dispose_owned(detached, n) = k1
    <3> HIDE DEF detached, e
    <3> QED BY <1>9, <2>2 DEF dispose_owned
  <2>4. dispose(h, n) = unhook_and_free(dispose_owned(detached, n), {n})
    <3> HIDE DEF k1
    <3> QED BY <2>1 DEF dispose
  <2> QED BY <2>3, <2>4
<1>11. O2 \in [Slots -> SUBSET Slots]
  BY <1>6
<1>12. \A m \in Slots : O2[m] = IF m \in D \union {n} THEN {} ELSE h.owned[m] \ (D \union {n})
  <2>1. TAKE m \in Slots
  <2>2. CASE m \in D \union {n}
    BY <2>2
  <2>3. CASE m \notin D \union {n}
    <3>1. \A c \in h.owned[m] : c \notin D
      <4>1. \A c \in h.owned[m] : c \in Slots /\ h.owner[c] = m
        BY <1>3 DEF Whole, Tree
      <4> QED BY <1>2, <2>3, <4>1
    <3>2. O2[m] = h.owned[m] \ {n}
      BY <1>7, <2>3
    <3> QED BY <2>3, <3>1, <3>2
  <2> QED BY <2>2, <2>3
<1>13. e = [h EXCEPT !.owned = O2]
  OBVIOUS
<1> HIDE DEF e, O2, detached, o
<1>14. /\ e \in Raw
       /\ e.kind = h.kind /\ e.len = h.len /\ e.computing = h.computing
       /\ e.queue = h.queue /\ e.changed = h.changed /\ e.flushing = h.flushing
       /\ e.free = h.free
       /\ e.live = h.live /\ e.dirty = h.dirty /\ e.queued = h.queued
       /\ e.owner = h.owner /\ e.sources = h.sources /\ e.subs = h.subs
       /\ e.owned = O2
  BY <1>11, <1>13, OwnedFields
<1>15. Mirror(e) /\ Unmarked(e) /\ Counted(e)
  BY <1>11, <1>13, OwnedKeeps DEF Whole
<1>16. Unhooked(e, k1, D) /\ Counted(k1) /\ Unmarked(k1)
  BY <1>1, <1>14, <1>15, UnhookFields, UnhookCounted
<1> HIDE DEF k1
<1>17. k1 \in Raw /\ Mirror(k1)
  <2>1. e \in Raw
    BY <1>14
  <2> QED BY <2>1, <1>1, <1>15, <1>16, UnhookEdges DEF Unhooked
<1>18. Unhooked(k1, k, {n}) /\ Counted(k)
  <2>1. {n} \in SUBSET Slots
    OBVIOUS
  <2> QED BY <2>1, <1>16, <1>17, UnhookFields, UnhookCounted
<1> HIDE DEF k
<1>19. \A m \in Slots : /\ k1.sources[m] = IF m \in D THEN {} ELSE h.sources[m] \ D
                        /\ k1.subs[m] = IF m \in D THEN {} ELSE h.subs[m] \ D
  <2>1. e \in Raw /\ e.sources = h.sources /\ e.subs = h.subs
    BY <1>14
  <2>2. \A m \in Slots : /\ k1.sources[m] = IF m \in D THEN {} ELSE e.sources[m] \ D
                         /\ k1.subs[m] = IF m \in D THEN {} ELSE e.subs[m] \ D
    <3>1. Severed(e, k1, D)
      BY <2>1, <1>1, <1>15, <1>16, UnhookEdges
    <3> QED BY <3>1 DEF Severed
  <2> QED BY <2>1, <2>2, Zenon
<1>20. \A m \in Slots : /\ k.sources[m] = IF m \in {n} THEN {} ELSE k1.sources[m] \ {n}
                        /\ k.subs[m] = IF m \in {n} THEN {} ELSE k1.subs[m] \ {n}
  <2>1. {n} \in SUBSET Slots
    OBVIOUS
  <2>2. Severed(k1, k, {n})
    BY <2>1, <1>17, <1>18, UnhookEdges
  <2> QED BY <2>2 DEF Severed
<1>21. Pruned(h, k, D \union {n})
  <2>1. /\ k \in Raw
        /\ k.kind = h.kind /\ k.len = h.len /\ k.computing = h.computing
        /\ k.queue = h.queue /\ k.changed = h.changed /\ k.flushing = h.flushing
        /\ k.free = (h.free \union D) \union {n} /\ k.owned = O2
    BY <1>14, <1>16, <1>18 DEF Unhooked
  <2>2. ASSUME NEW m \in Slots
        PROVE  /\ k.live[m] = (h.live[m] /\ m \notin D \union {n})
               /\ k.dirty[m] = (h.dirty[m] /\ m \notin D \union {n})
               /\ k.queued[m] = (h.queued[m] /\ m \notin D \union {n})
               /\ k.owner[m] = IF m \in D \union {n} THEN NoOwner ELSE h.owner[m]
    <3>1. /\ k1.live[m] = (h.live[m] /\ m \notin D)
          /\ k1.dirty[m] = (h.dirty[m] /\ m \notin D)
          /\ k1.queued[m] = (h.queued[m] /\ m \notin D)
          /\ k1.owner[m] = IF m \in D THEN NoOwner ELSE h.owner[m]
      BY <1>14, <1>16, ZenonT(40) DEF Unhooked
    <3>2. /\ k.live[m] = (k1.live[m] /\ m \notin {n})
          /\ k.dirty[m] = (k1.dirty[m] /\ m \notin {n})
          /\ k.queued[m] = (k1.queued[m] /\ m \notin {n})
          /\ k.owner[m] = IF m \in {n} THEN NoOwner ELSE k1.owner[m]
      BY <1>18 DEF Unhooked
    <3> QED BY <3>1, <3>2, Zenon
  <2>3. ASSUME NEW m \in Slots
        PROVE  /\ k.sources[m] = IF m \in D \union {n} THEN {} ELSE h.sources[m] \ (D \union {n})
               /\ k.subs[m] = IF m \in D \union {n} THEN {} ELSE h.subs[m] \ (D \union {n})
    <3>1. /\ \A S : (S \ D) \ {n} = S \ (D \union {n})
          /\ {} \ {n} = {}
      OBVIOUS
    <3> QED BY <1>19, <1>20, <3>1
  <2>4. k.free = h.free \union (D \union {n})
    BY <2>1, Zenon
  <2> QED BY <1>12, <2>1, <2>2, <2>3, <2>4 DEF Pruned
<1>22. Whole(k)
  BY <1>1, <1>18, <1>21, PrunedWhole
<1> QED BY <1>10, <1>21, <1>22 DEF D

\* The nodes that go when those of N are disposed of.
DoomedBy(h, N) ==
    (N \intersect Live(h)) \union UNION {Subtrees(h, n) : n \in N \intersect Live(h)}

LEMMA DisposeEachPrunes ==
    ASSUME NEW h \in Raw, Whole(h), NEW N \in SUBSET Slots
    PROVE  /\ Doomed(h, DoomedBy(h, N))
           /\ Pruned(h, dispose_each(h, N), DoomedBy(h, N))
           /\ Whole(dispose_each(h, N))
           /\ \A m \in DoomedBy(h, N) : m \in N \/ h.owner[m] # NoOwner
<1> DEFINE roots == N \intersect Live(h)
           D == DoomedBy(h, N)
           O == [m \in Slots |-> IF m \in D THEN {} ELSE h.owned[m] \ roots]
<1>1. dispose_each(h, N) = unhook_and_free([h EXCEPT !.owned = O], D)
  BY DEF dispose_each, DoomedBy
<1>2. \A n \in roots : /\ Doomed(h, Subtrees(h, n)) /\ h.owned[n] \subseteq Subtrees(h, n)
                       /\ \A m \in Subtrees(h, n) : h.owner[m] \in Subtrees(h, n) \union {n}
  BY SubtreesDoomed
<1>3. roots \in SUBSET Slots /\ roots \subseteq Live(h)
  BY DEF Live
<1>4. \A m \in D : m \in roots \/ \E n \in roots : m \in Subtrees(h, n)
  BY DEF DoomedBy
<1>5. /\ roots \subseteq D
      /\ \A n \in roots : Subtrees(h, n) \subseteq D
  BY DEF DoomedBy
<1> HIDE DEF D, roots
<1>6. \A m \in D : m \in roots \/ (h.owner[m] \in D /\ h.owner[m] \in Slots)
  BY <1>2, <1>3, <1>4, <1>5 DEF Doomed
<1>7. Doomed(h, D)
  <2>1. D \in SUBSET Slots /\ D \subseteq Live(h)
    BY <1>2, <1>3, <1>4 DEF Doomed
  <2>2. ASSUME NEW m \in D PROVE h.owned[m] \subseteq D
    <3>1. CASE m \in roots
      BY <1>2, <1>5, <3>1
    <3>2. CASE \E n \in roots : m \in Subtrees(h, n)
      BY <1>2, <1>5, <3>2 DEF Doomed
    <3> QED BY <1>4, <3>1, <3>2
  <2> QED BY <2>1, <2>2 DEF Doomed
<1>8. O \in [Slots -> SUBSET Slots]
  BY DEF Raw
<1>9. \A m \in Slots : O[m] = IF m \in D THEN {} ELSE h.owned[m] \ D
  <2>1. TAKE m \in Slots
  <2>2. CASE m \in D
    BY <2>2
  <2>3. CASE m \notin D
    <3>1. \A c \in h.owned[m] : c \in Slots /\ h.owner[c] = m
      BY DEF Whole, Tree, Raw
    <3>2. \A c \in h.owned[m] : c \in D => c \in roots
      BY <1>6, <2>3, <3>1
    <3>3. h.owned[m] \ roots = h.owned[m] \ D
      BY <1>5, <3>2
    <3> QED BY <2>3, <3>3
  <2> QED BY <2>2, <2>3
<1> HIDE DEF O
<1>10. Pruned(h, dispose_each(h, N), D) /\ Counted(dispose_each(h, N))
  <2>1. D \in SUBSET Slots
    BY <1>7 DEF Doomed
  <2> QED BY <1>1, <1>8, <1>9, <2>1, UnhookPrunes
<1>11. Whole(dispose_each(h, N))
  BY <1>7, <1>10, PrunedWhole
<1>12. \A m \in D : m \in N \/ h.owner[m] # NoOwner
  BY <1>6, SlotsFacts DEF roots
<1> QED BY <1>7, <1>10, <1>11, <1>12 DEF D

(***************************************************************************)
(* The stack of running nodes.                                             *)
(***************************************************************************)

LEMMA StackFacts ==
    ASSUME NEW s \in Seq(Slots)
    PROVE  /\ Len(s) \in Nat
           /\ \A i \in 1..Len(s) : s[i] \in Slots
           /\ s = <<>> <=> Len(s) = 0
           /\ s # <<>> => Last(s) = s[Len(s)] /\ Last(s) \in Slots
           /\ Range(s) = {s[i] : i \in 1..Len(s)}
<1>1. s # <<>> => Len(s) \in 1..Len(s)
  OBVIOUS
<1> QED BY <1>1 DEF Last, Range

LEMMA CutFacts ==
    ASSUME NEW s \in Seq(Slots), NEW d \in 0..Len(s)
    PROVE  /\ SubSeq(s, 1, d) \in Seq(Slots) /\ Len(SubSeq(s, 1, d)) = d
           /\ \A i \in 1..d : SubSeq(s, 1, d)[i] = s[i]
<1>1. Len(s) \in Nat
  OBVIOUS
<1>2. \A i \in 1..d : s[i] \in Slots
  BY <1>1
<1> QED BY <1>1, <1>2

LEMMA FrontFacts ==
    ASSUME NEW s \in Seq(Slots), s # <<>>
    PROVE  /\ Front(s) \in Seq(Slots) /\ Len(Front(s)) = Len(s) - 1
           /\ \A i \in 1..(Len(s) - 1) : Front(s)[i] = s[i]
<1>1. Len(s) \in Nat /\ Len(s) # 0
  OBVIOUS
<1>2. Len(s) - 1 \in 0..Len(s)
  BY <1>1
<1>3. Front(s) = SubSeq(s, 1, Len(s) - 1)
  BY DEF Front
<1> QED BY <1>2, <1>3, CutFacts

LEMMA PushFacts ==
    ASSUME NEW s \in Seq(Slots), NEW n \in Slots
    PROVE  /\ Append(s, n) \in Seq(Slots) /\ Len(Append(s, n)) = Len(s) + 1
           /\ Append(s, n)[Len(s) + 1] = n
           /\ \A i \in 1..Len(s) : Append(s, n)[i] = s[i]
           /\ Range(Append(s, n)) = Range(s) \union {n}
<1>1. /\ Append(s, n) \in Seq(Slots) /\ Len(Append(s, n)) = Len(s) + 1
      /\ Append(s, n)[Len(s) + 1] = n
      /\ \A i \in 1..Len(s) : Append(s, n)[i] = s[i]
  OBVIOUS
<1>2. Len(s) \in Nat
  OBVIOUS
<1>3. Range(Append(s, n)) = {Append(s, n)[i] : i \in 1..Len(s) + 1}
  BY <1>1, StackFacts
<1>4. Range(s) = {s[i] : i \in 1..Len(s)}
  BY StackFacts
<1>5. Range(Append(s, n)) = Range(s) \union {n}
  <2> DEFINE t == Append(s, n)
  <2> HIDE DEF t
  <2>1. /\ t[Len(s) + 1] = n
        /\ \A i \in 1..Len(s) : t[i] = s[i]
        /\ Range(t) = {t[i] : i \in 1..Len(s) + 1}
    BY <1>1, <1>3 DEF t
  <2>2. 1..Len(s) + 1 = (1..Len(s)) \union {Len(s) + 1}
    BY <1>2
  <2>3. Range(t) = Range(s) \union {n}
    BY <1>4, <2>1, <2>2
  <2> QED BY <2>3 DEF t
<1> QED BY <1>1, <1>5

(***************************************************************************)
(* The other methods of Inner.                                             *)
(***************************************************************************)

\* All parts of Whole but the edges depend on these fields only.
LEMMA SameShape ==
    ASSUME NEW h, NEW k, Whole(h), Mirror(k),
           k.kind = h.kind, k.len = h.len, k.free = h.free,
           k.dirtyComputeds = h.dirtyComputeds,
           k.live = h.live, k.dirty = h.dirty, k.queued = h.queued,
           k.owner = h.owner, k.owned = h.owned
    PROVE  Whole(k)
<1>1. Tree(k)
  BY DEF Tree, Whole
<1>2. Rooted(k)
  BY DEF Rooted, Whole
<1>3. Unmarked(k)
  BY DEF Unmarked, Whole
<1>4. Live(k) = Live(h) /\ DirtyMemos(k) = DirtyMemos(h)
  BY DEF Live, DirtyMemos
<1>5. Freed(k)
  BY <1>4 DEF Freed, Whole
<1>6. Counted(k)
  BY <1>4 DEF Counted, Whole
<1> QED BY <1>1, <1>2, <1>3, <1>5, <1>6 DEF Whole

\* begin_compute: the subtrees under n go, and with them what n read.
Begun(h, k, n) ==
    /\ k \in Raw /\ Whole(k)
    /\ k.kind = h.kind /\ k.len = h.len /\ k.queue = h.queue
    /\ k.changed = h.changed /\ k.flushing = h.flushing
    /\ k.computing = Append(h.computing, n)
    /\ \A m \in Slots :
        /\ k.live[m] = (h.live[m] /\ m \notin Subtrees(h, n))
        /\ k.dirty[m] = (h.dirty[m] /\ m \notin Subtrees(h, n))
        /\ k.queued[m] = (h.queued[m] /\ m \notin Subtrees(h, n))
        /\ k.owner[m] = IF m \in Subtrees(h, n) THEN NoOwner ELSE h.owner[m]
        /\ k.sources[m] = IF m \in Subtrees(h, n) \union {n} THEN {}
                          ELSE h.sources[m] \ Subtrees(h, n)
        /\ k.subs[m] = IF m \in Subtrees(h, n) THEN {}
                       ELSE h.subs[m] \ (Subtrees(h, n) \union {n})
        /\ k.owned[m] \subseteq h.owned[m]

LEMMA BeginFacts ==
    ASSUME NEW h \in Raw, Whole(h), NEW n \in Slots
    PROVE  Begun(h, begin_compute(h, n), n)
<1> DEFINE D == Subtrees(h, n)
           p == dispose_owned(h, n)
           src == [p.sources EXCEPT ![n] = {}]
           sub == [m \in Slots |-> IF m \in p.sources[n] THEN p.subs[m] \ {n} ELSE p.subs[m]]
           cmp == Append(p.computing, n)
           k == [p EXCEPT !.sources = src, !.subs = sub, !.computing = cmp]
<1>1. Pruned(h, p, D) /\ Whole(p)
  BY DisposeOwnedPrunes
<1>2. n \notin D
  BY SubtreesDoomed
<1>3. begin_compute(h, n) = k
  <2>1. p \in Raw
    BY <1>1 DEF Pruned
  <2>2. [p EXCEPT !.sources[n] = {}, !.subs = sub, !.computing = cmp] = k
    BY <2>1 DEF Raw
  <2> QED BY <2>2 DEF begin_compute
<1> HIDE DEF p, D
<1>4. p \in Raw
  BY <1>1 DEF Pruned
<1>5. /\ src \in [Slots -> SUBSET Slots] /\ sub \in [Slots -> SUBSET Slots]
      /\ \A m \in Slots : src[m] = IF m = n THEN {} ELSE p.sources[m]
      /\ \A m \in Slots : sub[m] = p.subs[m] \ {n}
  <2>1. p.sources \in [Slots -> SUBSET Slots] /\ p.subs \in [Slots -> SUBSET Slots]
    BY <1>4 DEF Raw
  <2>2. \A m \in Slots : m \in p.sources[n] <=> n \in p.subs[m]
    BY <1>1 DEF Whole, Mirror
  <2> QED BY <2>1, <2>2
<1>6. cmp \in Seq(Slots)
  BY <1>4, PushFacts DEF Raw
<1> HIDE DEF src, sub, cmp
<1>7. /\ k \in Raw
      /\ k.kind = p.kind /\ k.len = p.len /\ k.queue = p.queue
      /\ k.changed = p.changed /\ k.flushing = p.flushing /\ k.free = p.free
      /\ k.computing = cmp /\ k.dirtyComputeds = p.dirtyComputeds
      /\ k.live = p.live /\ k.dirty = p.dirty /\ k.queued = p.queued
      /\ k.owner = p.owner /\ k.owned = p.owned /\ k.sources = src /\ k.subs = sub
  BY <1>4, <1>5, <1>6 DEF Raw
<1> HIDE DEF k
<1>8. Mirror(k)
  <2>1. ASSUME NEW m \in Slots, NEW x \in Slots
        PROVE  /\ m \in k.sources[x] <=> x \in k.subs[m]
               /\ m \in k.sources[x] =>
                    k.live[m] /\ k.live[x] /\ k.kind[m] # "Effect" /\ k.kind[x] # "Signal"
    <3>1. /\ m \in p.sources[x] <=> x \in p.subs[m]
          /\ m \in p.sources[x] =>
                p.live[m] /\ p.live[x] /\ p.kind[m] # "Effect" /\ p.kind[x] # "Signal"
      BY <1>1 DEF Whole, Mirror
    <3> QED BY <1>5, <1>7, <3>1
  <2> QED BY <2>1 DEF Mirror
<1>9. Whole(k)
  BY <1>1, <1>7, <1>8, SameShape
<1>10. /\ k.kind = h.kind /\ k.len = h.len /\ k.queue = h.queue
       /\ k.changed = h.changed /\ k.flushing = h.flushing
       /\ k.computing = Append(h.computing, n)
  BY <1>1, <1>7 DEF Pruned, cmp
<1>11. ASSUME NEW m \in Slots
       PROVE  /\ k.live[m] = (h.live[m] /\ m \notin D)
              /\ k.dirty[m] = (h.dirty[m] /\ m \notin D)
              /\ k.queued[m] = (h.queued[m] /\ m \notin D)
              /\ k.owner[m] = IF m \in D THEN NoOwner ELSE h.owner[m]
              /\ k.sources[m] = IF m \in D \union {n} THEN {} ELSE h.sources[m] \ D
              /\ k.subs[m] = IF m \in D THEN {} ELSE h.subs[m] \ (D \union {n})
              /\ k.owned[m] \subseteq h.owned[m]
  <2>1. /\ p.live[m] = (h.live[m] /\ m \notin D)
        /\ p.dirty[m] = (h.dirty[m] /\ m \notin D)
        /\ p.queued[m] = (h.queued[m] /\ m \notin D)
        /\ p.owner[m] = IF m \in D THEN NoOwner ELSE h.owner[m]
    BY <1>1 DEF Pruned
  <2>2. /\ p.sources[m] = IF m \in D THEN {} ELSE h.sources[m] \ D
        /\ p.subs[m] = IF m \in D THEN {} ELSE h.subs[m] \ D
        /\ p.owned[m] = IF m \in D THEN {} ELSE h.owned[m] \ D
    BY <1>1 DEF Pruned
  <2>3. /\ k.live[m] = (h.live[m] /\ m \notin D)
        /\ k.dirty[m] = (h.dirty[m] /\ m \notin D)
        /\ k.queued[m] = (h.queued[m] /\ m \notin D)
        /\ k.owner[m] = IF m \in D THEN NoOwner ELSE h.owner[m]
    BY <1>7, <2>1, Zenon
  <2>4. k.sources[m] = IF m \in D \union {n} THEN {} ELSE h.sources[m] \ D
    BY <1>5, <1>7, <2>2
  <2>5. k.subs[m] = IF m \in D THEN {} ELSE h.subs[m] \ (D \union {n})
    BY <1>5, <1>7, <2>2
  <2>6. k.owned[m] \subseteq h.owned[m]
    BY <1>7, <2>2
  <2> QED BY <2>3, <2>4, <2>5, <2>6
<1>12. Begun(h, k, n)
  BY <1>7, <1>9, <1>10, <1>11 DEF Begun, D
<1> QED BY <1>3, <1>12

\* record_dependency: one more edge, from s to what is computing.
Linked(h, k, s) ==
    /\ k \in Raw
    /\ k.kind = h.kind /\ k.len = h.len /\ k.queue = h.queue /\ k.free = h.free
    /\ k.changed = h.changed /\ k.flushing = h.flushing /\ k.computing = h.computing
    /\ k.dirtyComputeds = h.dirtyComputeds
    /\ k.live = h.live /\ k.dirty = h.dirty /\ k.queued = h.queued
    /\ k.owner = h.owner /\ k.owned = h.owned
    /\ \A m \in Slots :
        /\ k.sources[m] = IF h.computing # <<>> /\ m = Last(h.computing)
                          THEN h.sources[m] \union {s} ELSE h.sources[m]
        /\ k.subs[m] = IF h.computing # <<>> /\ m = s
                       THEN h.subs[m] \union {Last(h.computing)} ELSE h.subs[m]

LEMMA RecordFacts ==
    ASSUME NEW h \in Raw, NEW s \in Slots,
           h.computing # <<>> => Last(h.computing) # s
    PROVE  Linked(h, record_dependency(h, s), s)
<1>1. CASE h.computing = <<>>
  <2>1. record_dependency(h, s) = h
    BY <1>1 DEF record_dependency
  <2> QED BY <1>1, <2>1 DEF Linked
<1>2. CASE h.computing # <<>>
  <2> DEFINE r == Last(h.computing)
             k == [h EXCEPT !.sources[r] = @ \union {s}, !.subs[s] = @ \union {r}]
  <2>1. record_dependency(h, s) = k /\ r # s
    BY <1>2 DEF record_dependency
  <2>2. r \in Slots
    BY <1>2, StackFacts DEF Raw
  <2> HIDE DEF r
  <2>3. /\ k \in Raw
        /\ k.kind = h.kind /\ k.len = h.len /\ k.queue = h.queue /\ k.free = h.free
        /\ k.changed = h.changed /\ k.flushing = h.flushing /\ k.computing = h.computing
        /\ k.dirtyComputeds = h.dirtyComputeds
        /\ k.live = h.live /\ k.dirty = h.dirty /\ k.queued = h.queued
        /\ k.owner = h.owner /\ k.owned = h.owned
        /\ k.sources = [h.sources EXCEPT ![r] = @ \union {s}]
        /\ k.subs = [h.subs EXCEPT ![s] = @ \union {r}]
    BY <2>2 DEF Raw
  <2> HIDE DEF k
  <2>4. h.sources \in [Slots -> SUBSET Slots] /\ h.subs \in [Slots -> SUBSET Slots]
    BY DEF Raw
  <2>5. \A m \in Slots : /\ k.sources[m] = IF m = r THEN h.sources[m] \union {s} ELSE h.sources[m]
                         /\ k.subs[m] = IF m = s THEN h.subs[m] \union {r} ELSE h.subs[m]
    BY <2>2, <2>3, <2>4
  <2>6. Linked(h, k, s)
    BY <1>2, <2>3, <2>5 DEF Linked, r
  <2> QED BY <2>1, <2>6
<1> QED BY <1>1, <1>2

LEMMA LinkedWhole ==
    ASSUME NEW h \in Raw, Whole(h), NEW s \in Slots, NEW k, Linked(h, k, s),
           h.live[s], h.kind[s] # "Effect",
           h.computing # <<>> =>
               h.live[Last(h.computing)] /\ h.kind[Last(h.computing)] # "Signal"
    PROVE  Whole(k)
<1>1. /\ k.kind = h.kind /\ k.len = h.len /\ k.free = h.free
      /\ k.dirtyComputeds = h.dirtyComputeds
      /\ k.live = h.live /\ k.dirty = h.dirty /\ k.queued = h.queued
      /\ k.owner = h.owner /\ k.owned = h.owned
  BY DEF Linked
<1>4. Mirror(k)
  <2>1. ASSUME NEW m \in Slots, NEW x \in Slots
        PROVE  /\ m \in k.sources[x] <=> x \in k.subs[m]
               /\ m \in k.sources[x] =>
                    k.live[m] /\ k.live[x] /\ k.kind[m] # "Effect" /\ k.kind[x] # "Signal"
    <3>1. /\ m \in h.sources[x] <=> x \in h.subs[m]
          /\ m \in h.sources[x] =>
                h.live[m] /\ h.live[x] /\ h.kind[m] # "Effect" /\ h.kind[x] # "Signal"
      BY DEF Whole, Mirror
    <3>2. /\ k.sources[x] = IF h.computing # <<>> /\ x = Last(h.computing)
                            THEN h.sources[x] \union {s} ELSE h.sources[x]
          /\ k.subs[m] = IF h.computing # <<>> /\ m = s
                         THEN h.subs[m] \union {Last(h.computing)} ELSE h.subs[m]
      BY DEF Linked
    <3> QED BY <1>1, <3>1, <3>2
  <2> QED BY <2>1 DEF Mirror
<1> QED BY <1>1, <1>4, SameShape

\* end_compute and Unwind: the bodies above depth are off the stack and clean.
Unwound(h, k, depth) ==
    /\ k \in Raw /\ Whole(k)
    /\ k.kind = h.kind /\ k.len = h.len /\ k.queue = h.queue
    /\ k.changed = h.changed /\ k.flushing = h.flushing /\ k.free = h.free
    /\ k.live = h.live /\ k.queued = h.queued
    /\ k.owner = h.owner /\ k.owned = h.owned
    /\ k.sources = h.sources /\ k.subs = h.subs
    /\ k.computing \in Seq(Slots) /\ Len(k.computing) = depth
    /\ \A i \in 1..depth : k.computing[i] = h.computing[i]
    /\ \A m \in Slots : k.dirty[m] = (h.dirty[m] /\ m \notin Frames(h, depth))

LEMMA SettleFacts ==
    ASSUME NEW h \in Raw, Whole(h), NEW depth \in 0..Len(h.computing), NEW k,
           NEW cmp \in Seq(Slots), Len(cmp) = depth,
           \A i \in 1..depth : cmp[i] = h.computing[i],
           NEW dt \in [Slots -> BOOLEAN],
           \A m \in Slots : dt[m] = (h.dirty[m] /\ m \notin Frames(h, depth)),
           NEW settled,
           settled = {n \in Frames(h, depth) : h.kind[n] = "Computed" /\ h.dirty[n]},
           NEW dc, dc = h.dirtyComputeds - Cardinality(settled),
           k = [h EXCEPT !.computing = cmp, !.dirty = dt, !.dirtyComputeds = dc]
    PROVE  Unwound(h, k, depth)
<1> DEFINE cut == Frames(h, depth)
<1>1. cut \subseteq Slots
  <2>1. h.computing \in Seq(Slots) /\ Len(h.computing) \in Nat
    BY DEF Raw
  <2>2. \A i \in (depth + 1)..Len(h.computing) : h.computing[i] \in Slots
    BY <2>1
  <2> QED BY <2>2 DEF Frames
<1>2. settled \subseteq Slots
  BY <1>1
<1>3. Cardinality(settled) \in Nat
  BY <1>2, FS_Subset, FS_CardinalityType, SlotsFacts
<1>4. dc \in Int
  <2>1. h.dirtyComputeds \in Int
    BY DEF Raw
  <2> QED BY <1>3, <2>1
<1>5. \A m \in Slots : dt[m] = (h.dirty[m] /\ m \notin cut)
  OBVIOUS
<1> HIDE DEF cut
<1>6. /\ k \in Raw
      /\ k.kind = h.kind /\ k.len = h.len /\ k.queue = h.queue
      /\ k.changed = h.changed /\ k.flushing = h.flushing /\ k.free = h.free
      /\ k.live = h.live /\ k.queued = h.queued
      /\ k.owner = h.owner /\ k.owned = h.owned
      /\ k.sources = h.sources /\ k.subs = h.subs
      /\ k.computing = cmp /\ k.dirty = dt
      /\ k.dirtyComputeds = dc
  BY <1>4 DEF Raw
<1>7. Counted(k)
  <2>1. DirtyMemos(k) = DirtyMemos(h) \ settled
    BY <1>5, <1>6 DEF DirtyMemos, cut
  <2>2. DirtyMemos(h) \intersect settled = settled
    BY <1>1 DEF DirtyMemos, cut, Whole, Unmarked
  <2>3. IsFiniteSet(DirtyMemos(h)) /\ Counted(h)
    BY DirtyMemosBounded DEF Whole
  <2>4. Cardinality(DirtyMemos(k)) = Cardinality(DirtyMemos(h)) - Cardinality(settled)
    <3>1. Cardinality(DirtyMemos(h) \ settled)
          = Cardinality(DirtyMemos(h)) - Cardinality(DirtyMemos(h) \intersect settled)
      BY <2>3, FS_Difference, Zenon
    <3> QED BY <2>1, <2>2, <3>1, Zenon
  <2> QED BY <1>6, <2>3, <2>4 DEF Counted
<1>8. Whole(k)
  <2>1. Mirror(k)
    BY <1>6 DEF Whole, Mirror
  <2>2. Tree(k)
    BY <1>6 DEF Whole, Tree
  <2>3. Rooted(k)
    BY <1>6 DEF Whole, Rooted
  <2>4. Freed(k)
    <3>1. Live(k) = Live(h)
      BY <1>6 DEF Live
    <3> QED BY <1>6, <3>1 DEF Whole, Freed
  <2>5. Unmarked(k)
    BY <1>5, <1>6 DEF Whole, Unmarked
  <2> QED BY <1>7, <2>1, <2>2, <2>3, <2>4, <2>5 DEF Whole
<1> QED BY <1>5, <1>6, <1>8 DEF Unwound, cut

LEMMA UnwindFacts ==
    ASSUME NEW h \in Raw, Whole(h), NEW depth \in 0..Len(h.computing)
    PROVE  Unwound(h, Unwind(h, depth), depth)
<1> DEFINE cmp == SubSeq(h.computing, 1, depth)
           dt == [n \in Slots |-> h.dirty[n] /\ n \notin Frames(h, depth)]
           settled == {n \in Frames(h, depth) : h.kind[n] = "Computed" /\ h.dirty[n]}
           dc == h.dirtyComputeds - Cardinality(settled)
<1>1. Unwind(h, depth) = [h EXCEPT !.computing = cmp, !.dirty = dt, !.dirtyComputeds = dc]
  BY DEF Unwind
<1>2. h.computing \in Seq(Slots)
  BY DEF Raw
<1>3. cmp \in Seq(Slots) /\ Len(cmp) = depth /\ \A i \in 1..depth : cmp[i] = h.computing[i]
  BY <1>2, CutFacts
<1>4. /\ dt \in [Slots -> BOOLEAN]
      /\ \A m \in Slots : dt[m] = (h.dirty[m] /\ m \notin Frames(h, depth))
  OBVIOUS
<1>5. /\ settled = {n \in Frames(h, depth) : h.kind[n] = "Computed" /\ h.dirty[n]}
      /\ dc = h.dirtyComputeds - Cardinality(settled)
  OBVIOUS
<1> HIDE DEF cmp, dt, settled, dc
<1> QED BY <1>1, <1>3, <1>4, <1>5, SettleFacts

LEMMA EndFacts ==
    ASSUME NEW h \in Raw, Whole(h), h.computing # <<>>
    PROVE  Unwound(h, end_compute(h, Last(h.computing)), Len(h.computing) - 1)
<1> DEFINE n == Last(h.computing)
           depth == Len(h.computing) - 1
           cmp == Front(h.computing)
           dt == [h.dirty EXCEPT ![n] = FALSE]
           settled == {x \in Frames(h, depth) : h.kind[x] = "Computed" /\ h.dirty[x]}
           dc == h.dirtyComputeds - Cardinality(settled)
<1>1. h.computing \in Seq(Slots) /\ Len(h.computing) \in Nat /\ Len(h.computing) # 0
  BY DEF Raw
<1>2. n \in Slots /\ n = h.computing[Len(h.computing)]
  BY <1>1, StackFacts
<1>3. Frames(h, depth) = {n}
  <2>1. (depth + 1)..Len(h.computing) = {Len(h.computing)}
    BY <1>1
  <2> QED BY <1>2, <2>1 DEF Frames
<1>4. cmp \in Seq(Slots) /\ Len(cmp) = depth /\ \A i \in 1..depth : cmp[i] = h.computing[i]
  BY <1>1, FrontFacts
<1>5. h.dirty \in [Slots -> BOOLEAN] /\ h.dirtyComputeds \in Int
  BY DEF Raw
<1>6. /\ dt \in [Slots -> BOOLEAN]
      /\ \A m \in Slots : dt[m] = (h.dirty[m] /\ m \notin Frames(h, depth))
  BY <1>2, <1>3, <1>5
<1>7. Cardinality(settled) = IF h.kind[n] = "Computed" /\ h.dirty[n] THEN 1 ELSE 0
  <2>1. CASE h.kind[n] = "Computed" /\ h.dirty[n]
    <3>1. settled = {n}
      BY <1>3, <2>1
    <3> QED BY <2>1, <3>1, FS_Singleton
  <2>2. CASE ~(h.kind[n] = "Computed" /\ h.dirty[n])
    <3>1. settled = {}
      BY <1>3, <2>2
    <3> QED BY <2>2, <3>1, FS_EmptySet
  <2> QED BY <2>1, <2>2
<1> HIDE DEF settled
<1>8. end_compute(h, n) = [h EXCEPT !.computing = cmp, !.dirty = dt, !.dirtyComputeds = dc]
  <2>1. (IF h.kind[n] = "Computed" /\ h.dirty[n] THEN h.dirtyComputeds - 1 ELSE h.dirtyComputeds)
        = dc
    BY <1>5, <1>7
  <2> HIDE DEF n, dc
  <2> QED BY <2>1 DEF end_compute, Raw
<1>9. depth \in 0..Len(h.computing)
  BY <1>1
<1>10. /\ settled = {x \in Frames(h, depth) : h.kind[x] = "Computed" /\ h.dirty[x]}
       /\ dc = h.dirtyComputeds - Cardinality(settled)
  BY DEF settled
<1> HIDE DEF cmp, dt, n, dc, depth
<1>11. Unwound(h, end_compute(h, n), depth)
  BY <1>4, <1>6, <1>8, <1>9, <1>10, SettleFacts
<1> QED BY <1>11 DEF n, depth

\* alloc and adopt: a live node n of kind kk, owned by o.
Grown(h, k, kk, n, o) ==
    /\ k \in Raw
    /\ k.changed = h.changed /\ k.flushing = h.flushing /\ k.computing = h.computing
    /\ k.sources = h.sources /\ k.subs = h.subs
    /\ k.kind = [h.kind EXCEPT ![n] = kk]
    /\ k.live = [h.live EXCEPT ![n] = TRUE]
    /\ k.dirty = [h.dirty EXCEPT ![n] = (kk # "Signal")]
    /\ k.queued = [h.queued EXCEPT ![n] = (kk = "Effect")]
    /\ k.owner = [h.owner EXCEPT ![n] = o]
    /\ \A m \in Slots : k.owned[m] = IF m = o THEN h.owned[m] \union {n} ELSE h.owned[m]
    /\ k.queue = [h.queue EXCEPT ![n] = IF kk = "Effect" THEN @ + 1 ELSE @]
    /\ k.free = h.free \ {n}
    /\ k.len = (IF h.free # {} THEN h.len ELSE h.len + 1)
    /\ k.dirtyComputeds =
         (IF kk = "Computed" THEN h.dirtyComputeds + 1 ELSE h.dirtyComputeds)

\* A fresh slot is dead and nothing mentions it.
LEMMA FreshFacts ==
    ASSUME NEW h \in Raw, Whole(h), NEW n \in FreshSlots(h)
    PROVE  /\ n \in Slots /\ ~h.live[n] /\ ~h.dirty[n]
           /\ h.sources[n] = {} /\ h.subs[n] = {} /\ h.owned[n] = {} /\ h.owner[n] = NoOwner
           /\ \A m \in Slots : n \notin h.sources[m] /\ n \notin h.subs[m] /\ n \notin h.owned[m]
           /\ \A m \in Slots : h.owner[m] # n
           /\ h.free # {} => n \in 1..h.len
           /\ h.free = {} => n = h.len + 1
<1>1. n \in Slots
  BY DEF FreshSlots, Raw
<1>2. ~h.live[n]
  <2>1. h.len \in Nat /\ Live(h) \subseteq 1..h.len /\ h.free = (1..h.len) \ Live(h)
    BY DEF Raw, Whole, Freed
  <2>2. CASE h.free # {}
    BY <1>1, <2>1, <2>2 DEF FreshSlots, Live
  <2>3. CASE h.free = {}
    <3>1. n = h.len + 1
      BY <2>3 DEF FreshSlots
    <3> QED BY <1>1, <2>1, <3>1 DEF Live
  <2> QED BY <2>2, <2>3
<1>3. ~h.dirty[n]
  BY <1>1, <1>2 DEF Whole, Unmarked
<1>4. /\ h.sources \in [Slots -> SUBSET Slots] /\ h.subs \in [Slots -> SUBSET Slots]
      /\ h.owned \in [Slots -> SUBSET Slots] /\ h.owner \in [Slots -> Slots \union {NoOwner}]
  BY DEF Raw
<1>5. /\ \A m \in Slots : m \notin h.sources[n] /\ m \notin h.subs[n]
      /\ \A m \in Slots : n \notin h.sources[m] /\ n \notin h.subs[m]
  BY <1>1, <1>2 DEF Whole, Mirror
<1>6. /\ \A m \in Slots : m \notin h.owned[n] /\ n \notin h.owned[m]
      /\ \A m \in Slots : h.owner[m] # n /\ h.owner[n] # m
  BY <1>1, <1>2 DEF Whole, Tree
<1>7. h.free # {} => n \in 1..h.len
  BY DEF FreshSlots, Whole, Freed
<1>8. h.free = {} => n = h.len + 1
  BY DEF FreshSlots
<1> QED BY <1>1, <1>2, <1>3, <1>4, <1>5, <1>6, <1>7, <1>8

LEMMA BornWhole ==
    ASSUME NEW h \in Raw, Whole(h), NEW kk \in NodeKind, NEW n \in FreshSlots(h),
           NEW o, o = NoOwner \/ (o \in Slots /\ h.live[o]), NEW k, Grown(h, k, kk, n, o)
    PROVE  Whole(k)
<1>1. /\ n \in Slots /\ ~h.live[n] /\ ~h.dirty[n]
      /\ h.sources[n] = {} /\ h.subs[n] = {} /\ h.owned[n] = {} /\ h.owner[n] = NoOwner
      /\ \A m \in Slots : n \notin h.sources[m] /\ n \notin h.subs[m] /\ n \notin h.owned[m]
      /\ \A m \in Slots : h.owner[m] # n
  BY FreshFacts
<1>2. /\ h.kind \in [Slots -> NodeKind] /\ h.live \in [Slots -> BOOLEAN]
      /\ h.dirty \in [Slots -> BOOLEAN] /\ h.owner \in [Slots -> Slots \union {NoOwner}]
      /\ h.queued \in [Slots -> BOOLEAN]
  BY DEF Raw
<1>3. \A m \in Slots :
        /\ k.kind[m] = IF m = n THEN kk ELSE h.kind[m]
        /\ k.live[m] = IF m = n THEN TRUE ELSE h.live[m]
        /\ k.dirty[m] = IF m = n THEN (kk # "Signal") ELSE h.dirty[m]
        /\ k.owner[m] = IF m = n THEN o ELSE h.owner[m]
        /\ m # n => k.queued[m] = h.queued[m]
  BY <1>1, <1>2 DEF Grown
<1>3a. /\ k.sources = h.sources /\ k.subs = h.subs
       /\ \A m \in Slots : k.owned[m] = IF m = o THEN h.owned[m] \union {n} ELSE h.owned[m]
       /\ k.free = h.free \ {n}
       /\ k.len = (IF h.free # {} THEN h.len ELSE h.len + 1)
       /\ k.dirtyComputeds =
            (IF kk = "Computed" THEN h.dirtyComputeds + 1 ELSE h.dirtyComputeds)
  BY DEF Grown
<1>4. Mirror(k)
  <2>1. ASSUME NEW m \in Slots, NEW x \in Slots
        PROVE  /\ m \in k.sources[x] <=> x \in k.subs[m]
               /\ m \in k.sources[x] =>
                    k.live[m] /\ k.live[x] /\ k.kind[m] # "Effect" /\ k.kind[x] # "Signal"
    <3>1. /\ m \in h.sources[x] <=> x \in h.subs[m]
          /\ m \in h.sources[x] =>
                h.live[m] /\ h.live[x] /\ h.kind[m] # "Effect" /\ h.kind[x] # "Signal"
      BY DEF Whole, Mirror
    <3> QED BY <1>1, <1>3, <1>3a, <3>1
  <2> QED BY <2>1 DEF Mirror
<1>5. Tree(k)
  <2>1. ASSUME NEW m \in Slots, NEW c \in Slots
        PROVE  /\ c \in k.owned[m] <=> k.owner[c] = m
               /\ c \in k.owned[m] => k.live[c] /\ k.live[m]
    <3>1. /\ c \in h.owned[m] <=> h.owner[c] = m
          /\ c \in h.owned[m] => h.live[c] /\ h.live[m]
      BY DEF Whole, Tree
    <3>2. k.owned[m] = IF m = o THEN h.owned[m] \union {n} ELSE h.owned[m]
      BY <1>3a
    <3>3. /\ k.owner[c] = IF c = n THEN o ELSE h.owner[c]
          /\ k.live[c] = IF c = n THEN TRUE ELSE h.live[c]
          /\ k.live[m] = IF m = n THEN TRUE ELSE h.live[m]
      BY <1>3
    <3>4. c = n => c \notin h.owned[m]
      BY <1>1
    <3>5. NoOwner # m
      BY SlotsFacts
    <3> QED BY <3>1, <3>2, <3>3, <3>4, <3>5, Zenon
  <2> QED BY <2>1 DEF Tree
<1>6. Rooted(k)
  <2> SUFFICES ASSUME NEW S \in SUBSET Slots, S # {} PROVE \E c \in S : k.owner[c] \notin S
    BY DEF Rooted
  <2>1. CASE S = {n}
    <3>1. o # n
      BY <1>1, SlotsFacts, Zenon
    <3>2. k.owner[n] = o
      BY <1>1, <1>3
    <3> QED BY <2>1, <3>1, <3>2
  <2>2. CASE S # {n}
    <3>1. S \ {n} \in SUBSET Slots /\ S \ {n} # {}
      BY <2>2
    <3>2. PICK c \in S \ {n} : h.owner[c] \notin S \ {n}
      BY <3>1 DEF Whole, Rooted
    <3>3. k.owner[c] = h.owner[c] /\ h.owner[c] # n
      BY <1>1, <1>3, <3>2
    <3> QED BY <3>2, <3>3
  <2> QED BY <2>1, <2>2
<1>7. Freed(k)
  <2>1. Live(k) = Live(h) \union {n}
    BY <1>1, <1>3 DEF Live
  <2>2. h.len \in Nat /\ Live(h) \subseteq 1..h.len /\ h.free = (1..h.len) \ Live(h)
    BY DEF Raw, Whole, Freed
  <2>3. CASE h.free # {}
    <3>1. n \in 1..h.len /\ k.len = h.len /\ k.free = h.free \ {n}
      BY <1>3a, <2>3, FreshFacts
    <3> QED BY <2>1, <2>2, <3>1 DEF Freed
  <2>4. CASE h.free = {}
    <3>1. n = h.len + 1 /\ k.len = h.len + 1 /\ k.free = h.free \ {n}
      BY <1>3a, <2>4, FreshFacts
    <3>2. 1..k.len = (1..h.len) \union {n}
      BY <2>2, <3>1
    <3> QED BY <2>1, <2>2, <2>4, <3>1, <3>2 DEF Freed
  <2> QED BY <2>3, <2>4
<1>8. Counted(k)
  <2>1. IsFiniteSet(DirtyMemos(h)) /\ Counted(h)
    BY DirtyMemosBounded DEF Whole
  <2>2. n \notin DirtyMemos(h)
    BY <1>1 DEF DirtyMemos
  <2>3. CASE kk = "Computed"
    <3>1. DirtyMemos(k) = DirtyMemos(h) \union {n}
      BY <1>1, <1>3, <2>3, ZenonT(40) DEF DirtyMemos
    <3>2. Cardinality(DirtyMemos(h) \union {n}) = Cardinality(DirtyMemos(h)) + 1
      BY <2>1, <2>2, FS_AddElement
    <3> QED BY <1>3a, <2>1, <2>3, <3>1, <3>2 DEF Counted
  <2>4. CASE kk # "Computed"
    <3>1. DirtyMemos(k) = DirtyMemos(h)
      BY <1>1, <1>3, <2>4, ZenonT(40) DEF DirtyMemos
    <3> QED BY <1>3a, <2>1, <2>4, <3>1 DEF Counted
  <2> QED BY <2>3, <2>4
<1>9. Unmarked(k)
  BY <1>1, <1>3 DEF Whole, Unmarked
<1> QED BY <1>4, <1>5, <1>6, <1>7, <1>8, <1>9 DEF Whole

LEMMA AllocFields ==
    ASSUME NEW h \in Raw, Whole(h), NEW kk \in NodeKind, NEW n \in FreshSlots(h)
    PROVE  Grown(h, alloc(h, kk, n), kk, n, NoOwner) /\ alloc(h, kk, n).owned = h.owned
<1> DEFINE k == alloc(h, kk, n)
<1> DEFINE fr == h.free \ {n}
           ln == IF h.free # {} THEN h.len ELSE h.len + 1
           kd == [h.kind EXCEPT ![n] = kk]
           lv == [h.live EXCEPT ![n] = TRUE]
           dt == [h.dirty EXCEPT ![n] = (kk # "Signal")]
           qd == [h.queued EXCEPT ![n] = (kk = "Effect")]
           dc == IF kk = "Computed" THEN h.dirtyComputeds + 1 ELSE h.dirtyComputeds
           qu == [h.queue EXCEPT ![n] = IF kk = "Effect" THEN @ + 1 ELSE @]
<1>1. /\ n \in Slots
      /\ h.sources[n] = {} /\ h.subs[n] = {} /\ h.owned[n] = {} /\ h.owner[n] = NoOwner
      /\ h.free = {} => n = h.len + 1
  BY FreshFacts
<1>2. h.len \in Nat /\ h.len \in 0..MaxNodes /\ h.dirtyComputeds \in Int
  BY DEF Raw
<1>3. ln \in 0..MaxNodes
  BY <1>1, <1>2, SlotsFacts DEF Slots
<1>4. dc \in Int
  BY <1>2
<1>5. /\ kd \in [Slots -> NodeKind] /\ lv \in [Slots -> BOOLEAN] /\ dt \in [Slots -> BOOLEAN]
      /\ qd \in [Slots -> BOOLEAN] /\ fr \in SUBSET Slots
  BY <1>1 DEF Raw
<1>6. qu \in [Slots -> Nat]
  <2>1. h.queue \in [Slots -> Nat]
    BY DEF Raw
  <2> QED BY <1>1, <2>1
<1>7. /\ [h.sources EXCEPT ![n] = {}] = h.sources /\ [h.subs EXCEPT ![n] = {}] = h.subs
      /\ [h.owner EXCEPT ![n] = NoOwner] = h.owner /\ [h.owned EXCEPT ![n] = {}] = h.owned
  <2>1. /\ h.sources \in [Slots -> SUBSET Slots] /\ h.subs \in [Slots -> SUBSET Slots]
        /\ h.owned \in [Slots -> SUBSET Slots] /\ h.owner \in [Slots -> Slots \union {NoOwner}]
    BY DEF Raw
  <2> QED BY <1>1, <2>1
<1>8. k = [h EXCEPT !.free = fr, !.len = ln, !.kind = kd, !.live = lv, !.dirty = dt,
                    !.queued = qd, !.sources = [h.sources EXCEPT ![n] = {}],
                    !.subs = [h.subs EXCEPT ![n] = {}],
                    !.owner = [h.owner EXCEPT ![n] = NoOwner],
                    !.owned = [h.owned EXCEPT ![n] = {}],
                    !.dirtyComputeds = dc, !.queue = qu]
  BY DEF alloc, Raw
<1> HIDE DEF fr, ln, kd, lv, dt, qd, dc, qu
<1>9. k = [h EXCEPT !.free = fr, !.len = ln, !.kind = kd, !.live = lv, !.dirty = dt,
                    !.queued = qd, !.sources = h.sources, !.subs = h.subs, !.owner = h.owner,
                    !.owned = h.owned, !.dirtyComputeds = dc, !.queue = qu]
  BY <1>7, <1>8, Zenon
<1> HIDE DEF k
<1>10. k = [h EXCEPT !.free = fr, !.len = ln, !.kind = kd, !.live = lv, !.dirty = dt,
                     !.queued = qd, !.dirtyComputeds = dc, !.queue = qu]
  BY <1>9 DEF Raw
<1>11. /\ k.changed = h.changed /\ k.flushing = h.flushing /\ k.computing = h.computing
       /\ k.sources = h.sources /\ k.subs = h.subs /\ k.kind = kd /\ k.live = lv
       /\ k.dirty = dt /\ k.queued = qd /\ k.owner = h.owner /\ k.owned = h.owned
       /\ k.queue = qu /\ k.free = fr /\ k.len = ln /\ k.dirtyComputeds = dc
  BY <1>10 DEF Raw
<1>12. k \in Raw
  BY <1>3, <1>4, <1>5, <1>6, <1>10 DEF Raw
<1>13. \A m \in Slots : m # NoOwner
  BY SlotsFacts
<1>14. Grown(h, k, kk, n, NoOwner)
  BY <1>7, <1>11, <1>12, <1>13 DEF Grown, fr, ln, kd, lv, dt, qd, dc, qu
<1> QED BY <1>11, <1>14 DEF k

\* The owner of a node made now.
Maker(h, root) == IF root \/ h.computing = <<>> THEN NoOwner ELSE Last(h.computing)
MadeGraph(h, kk, root, n) == IF root THEN alloc(h, kk, n) ELSE adopt(alloc(h, kk, n), n)

LEMMA BirthFacts ==
    ASSUME NEW h \in Raw, Whole(h), NEW kk \in NodeKind, NEW n \in FreshSlots(h),
           NEW root \in BOOLEAN, h.computing # <<>> => h.live[Last(h.computing)]
    PROVE  /\ Grown(h, MadeGraph(h, kk, root, n), kk, n, Maker(h, root))
           /\ Whole(MadeGraph(h, kk, root, n))
<1> DEFINE a == alloc(h, kk, n)
           k == MadeGraph(h, kk, root, n)
           o == Maker(h, root)
<1>1. a = alloc(h, kk, n) /\ Grown(h, a, kk, n, NoOwner) /\ a.owned = h.owned
  BY AllocFields
<1> HIDE DEF a
<1>2. a \in Raw /\ a.computing = h.computing /\ a.owner = h.owner
  <2>1. a \in Raw /\ a.computing = h.computing /\ a.owner = [h.owner EXCEPT ![n] = NoOwner]
    BY <1>1 DEF Grown
  <2>2. [h.owner EXCEPT ![n] = NoOwner] = h.owner
    <3>1. h.owner \in [Slots -> Slots \union {NoOwner}]
      BY DEF Raw
    <3>2. n \in Slots /\ h.owner[n] = NoOwner
      BY FreshFacts
    <3> QED BY <3>1, <3>2
  <2> QED BY <2>1, <2>2
<1>3. n \in Slots /\ h.owner[n] = NoOwner
  BY FreshFacts
<1>4. /\ h.owner \in [Slots -> Slots \union {NoOwner}] /\ h.owned \in [Slots -> SUBSET Slots]
      /\ h.computing \in Seq(Slots)
  BY DEF Raw
<1>5. o = NoOwner \/ (o \in Slots /\ h.live[o])
  BY <1>4, StackFacts DEF Maker
<1>6. Grown(h, k, kk, n, o)
  <2>1. CASE root \/ h.computing = <<>>
    <3>1. k = a /\ o = NoOwner
      BY <1>1, <1>2, <2>1 DEF MadeGraph, adopt, Maker
    <3> HIDE DEF k, o
    <3> QED BY <1>1, <3>1
  <2>2. CASE ~root /\ h.computing # <<>>
    <3>1. o = Last(h.computing) /\ o \in Slots
      BY <1>4, <2>2, StackFacts DEF Maker
    <3>2. k = [a EXCEPT !.owner[n] = o, !.owned[o] = @ \union {n}]
      BY <1>1, <1>2, <2>2 DEF MadeGraph, adopt, Maker
    <3> DEFINE ow == [a.owner EXCEPT ![n] = o]
               od == [a.owned EXCEPT ![o] = @ \union {n}]
    <3>3. k = [a EXCEPT !.owner = ow, !.owned = od]
      BY <1>2, <3>2 DEF Raw
    <3>4. ow \in [Slots -> Slots \union {NoOwner}] /\ od \in [Slots -> SUBSET Slots]
      BY <1>1, <1>2, <1>3, <1>4, <3>1
    <3>5. \A m \in Slots : od[m] = IF m = o THEN h.owned[m] \union {n} ELSE h.owned[m]
      BY <1>1, <1>4, <3>1
    <3>6. ow = [h.owner EXCEPT ![n] = o]
      BY <1>2
    <3> HIDE DEF k, o, ow, od
    <3>7. /\ k \in Raw
          /\ k.changed = a.changed /\ k.flushing = a.flushing /\ k.computing = a.computing
          /\ k.sources = a.sources /\ k.subs = a.subs /\ k.kind = a.kind /\ k.live = a.live
          /\ k.dirty = a.dirty /\ k.queued = a.queued /\ k.owner = ow /\ k.owned = od
          /\ k.queue = a.queue /\ k.free = a.free /\ k.len = a.len
          /\ k.dirtyComputeds = a.dirtyComputeds
      BY <1>2, <3>3, <3>4 DEF Raw
    <3> QED BY <1>1, <3>5, <3>6, <3>7 DEF Grown
  <2> QED BY <2>1, <2>2
<1> HIDE DEF k, o
<1>7. Whole(k)
  BY <1>5, <1>6, BornWhole
<1> QED BY <1>6, <1>7 DEF k, o

\* set: the memos that become dirty, and the effects that get an entry.
NewlyDirty(h, s) == {c \in Reached(h, s) : h.kind[c] = "Computed" /\ ~h.dirty[c]}
Woken(h, s) == {e \in Slots : h.kind[e] = "Effect" /\ ~h.queued[e]
                              /\ \E m \in Reached(h, s) : e \in h.subs[m]}
Touched(h, k, s) ==
    /\ k \in Raw /\ Whole(k)
    /\ k.kind = h.kind /\ k.len = h.len /\ k.flushing = h.flushing /\ k.free = h.free
    /\ k.computing = h.computing /\ k.live = h.live
    /\ k.owner = h.owner /\ k.owned = h.owned /\ k.sources = h.sources /\ k.subs = h.subs
    /\ k.changed = h.changed \union {s} \union NewlyDirty(h, s)
    /\ \A m \in Slots :
        /\ k.dirty[m] = (h.dirty[m] \/ m \in NewlyDirty(h, s) \/ m \in Woken(h, s))
        /\ k.queued[m] = (h.queued[m] \/ m \in Woken(h, s))
        /\ k.queue[m] = IF m \in Woken(h, s) THEN h.queue[m] + 1 ELSE h.queue[m]

\* The walk stops only at what is marked already.
LEMMA ReachedFacts ==
    ASSUME NEW h \in Raw, Whole(h), NEW s \in Slots, h.kind[s] = "Signal"
    PROVE  /\ NewlyDirty(h, s) \in SUBSET Slots /\ Woken(h, s) \in SUBSET Slots
           /\ \A c \in NewlyDirty(h, s) : h.live[c] /\ h.kind[c] = "Computed" /\ ~h.dirty[c]
           /\ \A e \in Woken(h, s) : h.live[e] /\ h.kind[e] = "Effect" /\ ~h.queued[e]
           /\ \A m \in NewlyDirty(h, s) \union {s} : \A c \in h.subs[m] :
                /\ h.kind[c] = "Computed" => h.dirty[c] \/ c \in NewlyDirty(h, s)
                /\ h.kind[c] = "Effect" => h.queued[c] \/ c \in Woken(h, s)
           /\ \A S \in SUBSET Slots :
                s \in S /\ (\A m \in S : h.subs[m] \subseteq S) => NewlyDirty(h, s) \subseteq S
<1> DEFINE next == [m \in Slots |-> {c \in h.subs[m] : h.kind[c] = "Computed" /\ ~h.dirty[c]}]
           R == Reached(h, s)
<1>1. h.subs \in [Slots -> SUBSET Slots]
  BY DEF Raw
<1>2. next \in [Slots -> SUBSET Slots]
  BY <1>1
<1>3. R = Closure(next, {s})
  BY DEF Reached
<1>4. \A m \in Slots : next[m] = {c \in h.subs[m] : h.kind[c] = "Computed" /\ ~h.dirty[c]}
  OBVIOUS
<1> HIDE DEF next, R
<1>5. /\ R \in SUBSET Slots /\ s \in R
      /\ \A m \in R : next[m] \subseteq R
      /\ \A S \in SUBSET Slots : {s} \subseteq S /\ (\A m \in S : next[m] \subseteq S) => R \subseteq S
  <2>1. {s} \in SUBSET Slots
    OBVIOUS
  <2>2. {s} \subseteq R
    BY <1>2, <1>3, <2>1, ClosureFacts
  <2> QED BY <1>2, <1>3, <2>1, <2>2, ClosureFacts
<1>6. \A m \in R : m = s \/ (h.live[m] /\ h.kind[m] = "Computed" /\ ~h.dirty[m])
  <2> DEFINE S == {s} \union {m \in Slots : h.live[m] /\ h.kind[m] = "Computed" /\ ~h.dirty[m]}
  <2>1. S \in SUBSET Slots /\ {s} \subseteq S
    OBVIOUS
  <2>2. \A m \in S : next[m] \subseteq S
    <3>1. \A m \in Slots : \A c \in h.subs[m] : c \in Slots /\ h.live[c]
      BY <1>1 DEF Whole, Mirror
    <3> QED BY <1>4, <2>1, <3>1
  <2>3. R \subseteq S
    <3> HIDE DEF S
    <3> QED BY <1>5, <2>1, <2>2
  <2> QED BY <2>3
<1>7. /\ NewlyDirty(h, s) = R \ {s}
  BY <1>6 DEF NewlyDirty, R
<1>8. \A e \in Woken(h, s) : h.live[e] /\ h.kind[e] = "Effect" /\ ~h.queued[e]
  <2>1. \A m \in R : \A c \in h.subs[m] : h.live[c]
    BY <1>1, <1>5 DEF Whole, Mirror
  <2> QED BY <2>1 DEF Woken, R
<1>9. ASSUME NEW m \in R, NEW c \in h.subs[m]
      PROVE  /\ h.kind[c] = "Computed" => h.dirty[c] \/ c \in NewlyDirty(h, s)
             /\ h.kind[c] = "Effect" => h.queued[c] \/ c \in Woken(h, s)
  <2>1. m \in Slots /\ c \in Slots
    BY <1>1, <1>5
  <2>2. h.kind[c] = "Computed" /\ ~h.dirty[c] => c \in NewlyDirty(h, s)
    <3>1. h.kind[c] = "Computed" /\ ~h.dirty[c] => c \in R
      BY <1>4, <1>5, <2>1
    <3> QED BY <3>1 DEF NewlyDirty, R
  <2>3. h.kind[c] = "Effect" /\ ~h.queued[c] => c \in Woken(h, s)
    BY <2>1 DEF Woken, R
  <2> QED BY <2>2, <2>3
<1>10. \A m \in NewlyDirty(h, s) \union {s} : m \in R
  BY <1>5, <1>7
<1>11. NewlyDirty(h, s) \in SUBSET Slots /\ Woken(h, s) \in SUBSET Slots
  BY <1>5, <1>7 DEF Woken
<1>12. \A c \in NewlyDirty(h, s) : h.live[c] /\ h.kind[c] = "Computed" /\ ~h.dirty[c]
  BY <1>6, <1>7
<1>13. ASSUME NEW S \in SUBSET Slots, s \in S, \A m \in S : h.subs[m] \subseteq S
       PROVE  NewlyDirty(h, s) \subseteq S
  <2>1. \A m \in S : next[m] \subseteq S
    BY <1>4, <1>13
  <2> QED BY <1>5, <1>7, <1>13, <2>1
<1> QED BY <1>8, <1>9, <1>10, <1>11, <1>12, <1>13

LEMMA TouchFacts ==
    ASSUME NEW h \in Raw, Whole(h), NEW s \in Slots, h.kind[s] = "Signal"
    PROVE  Touched(h, touch(h, s), s)
<1> DEFINE N == NewlyDirty(h, s)
           W == Woken(h, s)
           dt == [m \in Slots |-> h.dirty[m] \/ m \in N \/ m \in W]
           dc == h.dirtyComputeds + Cardinality(N)
           ch == (h.changed \union {s}) \union N
           qd == [m \in Slots |-> h.queued[m] \/ m \in W]
           qu == [m \in Slots |-> IF m \in W THEN h.queue[m] + 1 ELSE h.queue[m]]
           c0 == h.changed \union {s}
           e == [h EXCEPT !.changed = c0]
           k == touch(h, s)
<1>1. e.kind = h.kind /\ e.dirty = h.dirty /\ e.subs = h.subs /\ e.queued = h.queued
      /\ e.queue = h.queue /\ e.dirtyComputeds = h.dirtyComputeds /\ e.changed = c0
  BY DEF Raw
<1>2. NewlyDirty(e, s) = N /\ Woken(e, s) = W
  <2>1. Reached(e, s) = Reached(h, s)
    BY <1>1 DEF Reached
  <2> HIDE DEF e
  <2> QED BY <1>1, <2>1 DEF NewlyDirty, Woken
<1>3. k = mark_dirty_subscribers(e, s)
  BY DEF touch
<1>4. k = [e EXCEPT !.dirty = [m \in Slots |-> @[m] \/ m \in NewlyDirty(e, s) \/ m \in Woken(e, s)],
                    !.dirtyComputeds = @ + Cardinality(NewlyDirty(e, s)),
                    !.changed = @ \union NewlyDirty(e, s),
                    !.queued = [m \in Slots |-> @[m] \/ m \in Woken(e, s)],
                    !.queue = [m \in Slots |-> IF m \in Woken(e, s) THEN @[m] + 1 ELSE @[m]]]
  <2> HIDE DEF k, e
  <2> QED BY <1>3 DEF mark_dirty_subscribers, NewlyDirty, Woken
<1>5. k = [e EXCEPT !.dirty = dt, !.dirtyComputeds = dc, !.changed = ch, !.queued = qd, !.queue = qu]
  <2> HIDE DEF k, e, N, W
  <2> QED BY <1>1, <1>2, <1>4
<1>6. /\ N \in SUBSET Slots /\ W \in SUBSET Slots
      /\ \A c \in N : h.live[c] /\ h.kind[c] = "Computed" /\ ~h.dirty[c]
      /\ \A x \in W : h.live[x] /\ h.kind[x] = "Effect" /\ ~h.queued[x]
  BY ReachedFacts
<1> HIDE DEF N, W
<1>7. IsFiniteSet(N) /\ Cardinality(N) \in Nat
  BY <1>6, FS_Subset, FS_CardinalityType, SlotsFacts
<1>8. h.dirtyComputeds \in Int /\ h.queue \in [Slots -> Nat] /\ h.changed \in SUBSET Slots
      /\ h.dirty \in [Slots -> BOOLEAN] /\ h.queued \in [Slots -> BOOLEAN]
  BY DEF Raw
<1>9. dc \in Int
  BY <1>7, <1>8
<1>10. dt \in [Slots -> BOOLEAN] /\ qd \in [Slots -> BOOLEAN] /\ ch \in SUBSET Slots
  BY <1>6, <1>8
<1>11. qu \in [Slots -> Nat]
  BY <1>8
<1>12. \A m \in Slots : /\ dt[m] = (h.dirty[m] \/ m \in N \/ m \in W)
                        /\ qd[m] = (h.queued[m] \/ m \in W)
                        /\ qu[m] = IF m \in W THEN h.queue[m] + 1 ELSE h.queue[m]
  OBVIOUS
<1> HIDE DEF k, dt, dc, qd, qu, ch, c0
<1>13. k = [h EXCEPT !.dirty = dt, !.dirtyComputeds = dc, !.changed = ch, !.queued = qd, !.queue = qu]
  BY <1>5 DEF Raw
<1> HIDE DEF e
<1>14. /\ k \in Raw
       /\ k.kind = h.kind /\ k.len = h.len /\ k.flushing = h.flushing /\ k.free = h.free
       /\ k.computing = h.computing /\ k.live = h.live
       /\ k.owner = h.owner /\ k.owned = h.owned /\ k.sources = h.sources /\ k.subs = h.subs
       /\ k.dirty = dt /\ k.dirtyComputeds = dc /\ k.changed = ch /\ k.queued = qd /\ k.queue = qu
  BY <1>9, <1>10, <1>11, <1>13 DEF Raw
<1>15. Counted(k)
  <2>1. DirtyMemos(k) = DirtyMemos(h) \union N
    <3>1. ASSUME NEW m \in Slots
          PROVE  (k.live[m] /\ k.kind[m] = "Computed" /\ k.dirty[m]) <=>
                 ((h.live[m] /\ h.kind[m] = "Computed" /\ h.dirty[m]) \/ m \in N)
      BY <1>6, <1>12, <1>14
    <3> QED BY <1>6, <3>1 DEF DirtyMemos
  <2>2. DirtyMemos(h) \intersect N = {}
    BY <1>6 DEF DirtyMemos
  <2>3. IsFiniteSet(DirtyMemos(h)) /\ Counted(h)
    BY DirtyMemosBounded DEF Whole
  <2>4. Cardinality(DirtyMemos(h) \union N) = Cardinality(DirtyMemos(h)) + Cardinality(N)
    <3>1. Cardinality(DirtyMemos(h) \union N)
          = Cardinality(DirtyMemos(h)) + Cardinality(N) - Cardinality(DirtyMemos(h) \intersect N)
      BY <1>7, <2>3, FS_Union, Zenon
    <3>2. Cardinality(DirtyMemos(h) \intersect N) = 0
      BY <2>2, FS_EmptySet
    <3>3. Cardinality(DirtyMemos(h)) \in Nat
      BY <2>3, FS_CardinalityType
    <3> QED BY <1>7, <3>1, <3>2, <3>3
  <2> QED BY <1>14, <2>1, <2>3, <2>4 DEF Counted, dc
<1>16. Whole(k)
  <2>1. Mirror(k)
    BY <1>14 DEF Whole, Mirror
  <2>2. Tree(k)
    BY <1>14 DEF Whole, Tree
  <2>3. Rooted(k)
    BY <1>14 DEF Whole, Rooted
  <2>4. Freed(k)
    <3>1. Live(k) = Live(h)
      BY <1>14 DEF Live
    <3> QED BY <1>14, <3>1 DEF Whole, Freed
  <2>5. Unmarked(k)
    BY <1>6, <1>12, <1>14 DEF Whole, Unmarked
  <2> QED BY <1>15, <2>1, <2>2, <2>3, <2>4, <2>5 DEF Whole
<1>17. Touched(h, k, s)
  BY <1>12, <1>14, <1>16 DEF Touched, N, W, ch
<1> QED BY <1>17 DEF k

\* Fewer children, smaller subtrees.
LEMMA SubtreesShrink ==
    ASSUME NEW h \in Raw, Tree(h), NEW k \in Raw, Tree(k),
           \A m \in Slots : k.owned[m] \subseteq h.owned[m], NEW n \in Slots
    PROVE  Subtrees(k, n) \subseteq Subtrees(h, n)
<1> DEFINE D == Subtrees(h, n)
           E == Subtrees(k, n)
<1>1. /\ D \in SUBSET Slots /\ h.owned[n] \subseteq D
      /\ \A m \in D : h.owned[m] \subseteq D
  BY SubtreesFacts
<1>2. \A S \in SUBSET Slots :
        k.owned[n] \subseteq S /\ (\A m \in S : k.owned[m] \subseteq S) => E \subseteq S
  BY SubtreesFacts
<1> HIDE DEF D, E
<1>3. k.owned[n] \subseteq D /\ (\A m \in D : k.owned[m] \subseteq D)
  BY <1>1
<1>4. E \subseteq D
  BY <1>1, <1>2, <1>3
<1> QED BY <1>4 DEF D, E


(***************************************************************************)
(* The invariant holds at first and every step keeps it.                   *)
(***************************************************************************)

LEMMA TypeFacts ==
    ASSUME TypeOK
    PROVE  /\ g \in Raw
           /\ g.computing \in Seq(Slots) /\ Len(g.computing) \in Nat
           /\ \A i \in 1..Len(g.computing) : g.computing[i] \in Slots
           /\ g.computing = <<>> <=> Len(g.computing) = 0
           /\ Computing(g) = {g.computing[i] : i \in 1..Len(g.computing)}
           /\ base \in Nat /\ base <= Len(g.computing)
<1>1. g \in Raw
  BY GraphIsRaw DEF TypeOK
<1>2. g.computing \in Seq(Slots)
  BY <1>1 DEF Raw
<1>3. Len(g.computing) \in Nat
  BY <1>2, StackFacts
<1>4. base \in Nat /\ base <= Len(g.computing)
  BY <1>3 DEF TypeOK
<1> QED BY <1>1, <1>2, <1>3, <1>4, StackFacts DEF Computing

LEMMA InitHolds == Init => IInv
<1> SUFFICES ASSUME Init PROVE IInv
  OBVIOUS
<1>1. g \in Graph
  BY SlotsFacts DEF Init, Graph, NodeKind, Empty
<1>2. /\ Live(g) = {} /\ g.len = 0 /\ g.free = {} /\ g.computing = <<>>
      /\ ~g.flushing /\ g.dirtyComputeds = 0 /\ g.changed = {} /\ g.queue = Empty
  BY DEF Init, Live
<1>3. \A n \in Slots :
        /\ ~g.live[n] /\ ~g.dirty[n] /\ ~g.queued[n] /\ g.sources[n] = {} /\ g.subs[n] = {}
        /\ g.owner[n] = NoOwner /\ g.owned[n] = {}
  BY DEF Init
<1>4. Len(g.computing) = 0
  BY <1>2
<1>5. TypeOK
  <2>1. Empty \in [Slots -> 0..MaxDup] /\ 0 \in 0..MaxMade /\ 0 \in 0..(MaxSteps + 1)
    BY SlotsFacts DEF Empty
  <2>2. base \in 0..Len(g.computing)
    BY <1>4 DEF Init
  <2>3. view \in [bound : SUBSET Slots, dirty : SUBSET Slots] /\ view.dirty \subseteq view.bound
    BY DEF Init
  <2>4. call \in [op : {"none", "expose", "snapshot", "diff"},
                  taken : SUBSET Slots, left : SUBSET Slots, again : SUBSET Slots]
    BY DEF Init, NoIdle
  <2> QED BY <1>1, <2>1, <2>2, <2>3, <2>4 DEF Init, TypeOK
<1>6. Whole(g)
  <2>1. Mirror(g) /\ Tree(g) /\ Unmarked(g)
    BY <1>3, SlotsFacts DEF Mirror, Tree, Unmarked
  <2>2. Rooted(g)
    BY <1>3, SlotsFacts DEF Rooted
  <2>3. Freed(g)
    BY <1>2 DEF Freed
  <2>4. Counted(g)
    <3>1. DirtyMemos(g) = {}
      BY <1>3 DEF DirtyMemos
    <3> QED BY <1>2, <3>1, FS_EmptySet DEF Counted
  <2> QED BY <2>1, <2>2, <2>3, <2>4 DEF Whole
<1>7. Running /\ Flushing /\ Nested /\ Gates
  BY <1>2, <1>4 DEF Init, Running, Flushing, Nested, Gates
<1>8. RegistryExact
  BY <1>2 DEF Init, RegistryExact, LiveOf
<1>9. Calling /\ Watching
  BY DEF Init, Calling, Watching, NoIdle
<1>10. Recorded
  BY DEF Init, Recorded
<1>11. Downstream
  BY <1>3 DEF Downstream
<1>12. Wakes /\ Fresh /\ RerunOwed
  BY <1>2 DEF Wakes, Fresh, RerunOwed, LiveOf
<1>13. NoMissedPatch
  BY DEF Init, NoMissedPatch
<1> QED BY <1>5, <1>6, <1>7, <1>8, <1>9, <1>10, <1>11, <1>12, <1>13 DEF IInv

\* Whatever a whole graph counts, its counts are in bounds.
LEMMA WholeIsGraph ==
    ASSUME NEW h \in Raw, Whole(h), h.queue \in [Slots -> 0..MaxDup]
    PROVE  h \in Graph
BY DirtyMemosBounded, RawIsGraph DEF Whole

\* A step that takes down nodes D none of which runs.
LEMMA PruneKeeps ==
    ASSUME IInv, UserRuns, NEW D, Doomed(g, D), D \intersect Computing(g) = {},
           Pruned(g, g', D), Whole(g'), Forget(deps, g', {}, {}),
           UNCHANGED flush, UNCHANGED call,
           gate' \in BOOLEAN, gate' => gate \/ GatesOpen(g'),
           effects' = effects \ D,
           view' \in [bound : SUBSET Slots, dirty : SUBSET Slots],
           NEW X, X \intersect Live(g') = {},
           view'.bound = view.bound \ X, view'.dirty = view.dirty \ X
    PROVE  IInv'
<1> USE DEF IInv
<1>t. /\ g \in Raw
      /\ g.computing \in Seq(Slots) /\ Len(g.computing) \in Nat
      /\ \A i \in 1..Len(g.computing) : g.computing[i] \in Slots
      /\ g.computing = <<>> <=> Len(g.computing) = 0
      /\ Computing(g) = {g.computing[i] : i \in 1..Len(g.computing)}
      /\ base \in Nat /\ base <= Len(g.computing)
  BY TypeFacts
<1>u. round' = round /\ steps' = steps /\ base' = base /\ aborted' = aborted /\ call' = call
  BY DEF flush
<1>d. D \in SUBSET Slots /\ \A d \in D : g.live[d]
  BY DEF Doomed, Live
<1>p. /\ g' \in Raw
      /\ g'.kind = g.kind /\ g'.len = g.len /\ g'.computing = g.computing
      /\ g'.queue = g.queue /\ g'.changed = g.changed /\ g'.flushing = g.flushing
  BY DEF Pruned
<1>q. \A n \in Slots :
        /\ g'.live[n] <=> (g.live[n] /\ n \notin D)
        /\ g'.dirty[n] <=> (g.dirty[n] /\ n \notin D)
        /\ g'.queued[n] <=> (g.queued[n] /\ n \notin D)
  <2> SUFFICES ASSUME NEW n \in Slots
               PROVE  /\ g'.live[n] <=> (g.live[n] /\ n \notin D)
                      /\ g'.dirty[n] <=> (g.dirty[n] /\ n \notin D)
                      /\ g'.queued[n] <=> (g.queued[n] /\ n \notin D)
    OBVIOUS
  <2>1. /\ g'.live[n] = (g.live[n] /\ n \notin D)
        /\ g'.dirty[n] = (g.dirty[n] /\ n \notin D)
        /\ g'.queued[n] = (g.queued[n] /\ n \notin D)
    BY DEF Pruned
  <2> QED BY <2>1, Zenon
<1>e. \A n \in Slots :
        /\ g'.owner[n] = IF n \in D THEN NoOwner ELSE g.owner[n]
        /\ g'.sources[n] = IF n \in D THEN {} ELSE g.sources[n] \ D
        /\ g'.subs[n] = IF n \in D THEN {} ELSE g.subs[n] \ D
        /\ g'.owned[n] \subseteq g.owned[n]
  BY DEF Pruned
<1>f. Live(g) \ Live(g') = D
  BY <1>d, <1>q DEF Live
<1>g. /\ deps' = [n \in Slots |-> IF n \in D THEN {} ELSE deps[n] \ D]
      /\ stale' = stale \ D /\ dropped' = dropped \ D /\ overtaken' = overtaken \ D
      /\ watched' = watched \ D /\ behind' = behind \ D /\ lapsed' = lapsed \ D /\ made' = made
  BY <1>f DEF Forget
<1>i. Computing(g') = Computing(g) /\ Queued(g') = Queued(g) /\ InRound' = InRound
  BY <1>p, <1>u DEF Computing, Queued, InRound
<1>o. \A i \in 1..Len(g.computing) : g.computing[i] \in Slots \ D
  BY <1>t
<1>ty. TypeOK'
  <2>1. g' \in Graph
    BY <1>p, WholeIsGraph DEF TypeOK, Graph
  <2>2. deps' \in [Slots -> SUBSET Slots]
    BY <1>g DEF TypeOK
  <2>3. view'.dirty \subseteq view'.bound
    BY DEF TypeOK
  <2>4. base' \in 0..Len(g'.computing)
    BY <1>p, <1>u DEF TypeOK
  <2>5. effects' \subseteq Slots /\ \A S \in {stale', dropped', overtaken', watched', behind', lapsed'} : S \subseteq Slots
    BY <1>g DEF TypeOK
  <2>6. round' \in [Slots -> 0..MaxDup] /\ steps' \in 0..(MaxSteps + 1) /\ aborted' \in BOOLEAN
    BY <1>u DEF TypeOK
  <2>7. call' \in [op : {"none", "expose", "snapshot", "diff"},
                   taken : SUBSET Slots, left : SUBSET Slots, again : SUBSET Slots] /\ made' \in 0..MaxMade
    BY <1>u, <1>g DEF TypeOK
  <2> QED BY <2>1, <2>2, <2>3, <2>4, <2>5, <2>6, <2>7 DEF TypeOK
<1>run. Running'
  BY <1>p, <1>q, <1>o, <1>u DEF Running
<1>fl. Flushing'
  BY <1>p, <1>u DEF Flushing
<1>ne. Nested'
  <2>1. \A e \in Slots : Subtrees(g', e) \subseteq Subtrees(g, e)
    BY <1>t, <1>p, <1>e, SubtreesShrink DEF Whole
  <2>2. Owed' = Owed /\ Owed \subseteq Slots
    BY <1>i DEF Owed, Queued, InRound
  <2> QED BY <1>p, <1>u, <2>1, <2>2 DEF Nested
<1>ga. Gates'
  <2>1. g.dirtyComputeds = 0 => g'.dirtyComputeds = 0
    <3>1. Counted(g) /\ Counted(g')
      BY DEF Whole
    <3>2. IsFiniteSet(DirtyMemos(g)) /\ IsFiniteSet(DirtyMemos(g'))
      BY <1>t, <1>p, <3>1, DirtyMemosBounded
    <3>3. DirtyMemos(g') \subseteq DirtyMemos(g)
      BY <1>p, <1>q DEF DirtyMemos
    <3>4. Cardinality(DirtyMemos(g)) = 0 => DirtyMemos(g) = {}
      BY <3>2, FS_EmptySet
    <3>5. Cardinality({}) = 0
      BY FS_EmptySet
    <3> QED BY <3>1, <3>3, <3>4, <3>5 DEF Counted
  <2> QED BY <1>p, <1>u, <2>1 DEF Gates, GatesOpen
<1>re. RegistryExact'
  <2>1. \A x \in Slots :
          x \in {e \in LiveOf(g', "Effect") : g'.owner[e] = NoOwner} <=>
            x \in {e \in LiveOf(g, "Effect") : g.owner[e] = NoOwner} /\ x \notin D
    BY <1>p, <1>q, <1>e DEF LiveOf, Live
  <2>2. /\ {e \in LiveOf(g', "Effect") : g'.owner[e] = NoOwner} \subseteq Slots
        /\ {e \in LiveOf(g, "Effect") : g.owner[e] = NoOwner} \subseteq Slots
    BY DEF LiveOf, Live
  <2>3. {e \in LiveOf(g', "Effect") : g'.owner[e] = NoOwner} =
          {e \in LiveOf(g, "Effect") : g.owner[e] = NoOwner} \ D
    BY <2>1, <2>2
  <2> QED BY <2>3 DEF RegistryExact
<1>ca. Calling'
  <2>1. call.op = "expose" => g.computing # <<>>
    BY <1>t DEF UserRuns, InBody, AtTop
  <2>2. call.op = "expose" =>
          \A x \in call.taken :
            /\ g'.live[x] /\ g'.kind[x] # "Effect"
            /\ g'.computing # <<>> => g'.computing[1] = x
    BY <1>t, <1>p, <1>q, <1>o, <2>1 DEF Calling, TypeOK
  <2>3. \A x \in call.taken : x \in Slots
    BY DEF TypeOK
  <2>4. /\ call.op = "none" => call.taken = {} /\ call.left = {}
        /\ call.op # "none" => (g'.flushing => base' > 0)
        /\ call.op = "expose" => call.left \subseteq call.taken /\ \A x, y \in call.taken : x = y
    BY <1>p, <1>u DEF Calling
  <2>5. \A x \in call.taken \ call.left :
          /\ x \in watched' \/ call.op = "expose"
          /\ g'.kind[x] = "Computed" /\ g'.dirty[x]
          => x \in Computing(g') \union call.again
    BY <1>p, <1>q, <1>g, <1>i, <2>3 DEF Calling
  <2> QED BY <1>u, <2>2, <2>4, <2>5 DEF Calling
<1>li. \A x \in watched' : x \in Slots /\ x \notin D /\ x \in watched /\ g'.live[x] /\ x \notin X
  BY <1>g, <1>q DEF Watching, TypeOK, Live
<1>wa. Watching'
  BY <1>g, <1>li, <1>p, <1>q DEF Watching
<1>rc. Recorded'
  <2>1. g'.sources \in [Slots -> SUBSET Slots]
    BY <1>p DEF Raw
  <2>2. \A n \in Slots : deps'[n] = g'.sources[n]
    BY <1>g, <1>e DEF Recorded
  <2>3. deps' = [n \in Slots |-> deps'[n]]
    BY <1>g
  <2> QED BY <2>1, <2>2, <2>3 DEF Recorded
<1>do. Downstream'
  <2> SUFFICES ASSUME NEW m \in Slots, NEW n \in Slots, n \in g'.subs[m],
                      g'.kind[m] = "Computed", g'.dirty[m] \/ m \in overtaken'
               PROVE  n \in overtaken' \/ Due(n)' \/ (Waits(n, m)' /\ m \notin overtaken')
    BY DEF Downstream
  <2>1. n \in g.subs[m] /\ n \notin D /\ m \notin D
    BY <1>e
  <2>2. Waits(n, m)' <=> Waits(n, m)
    BY <1>p DEF Waits
  <2>3. Owed' = Owed
    BY <1>i DEF Owed
  <2>4. Due(n) => Due(n)'
    BY <1>p, <1>q, <1>g, <1>i, <2>1, <2>3 DEF Due
  <2>5. n \in overtaken \/ Due(n) \/ (Waits(n, m) /\ m \notin overtaken)
    BY <1>p, <1>q, <1>g, <2>1 DEF Downstream
  <2> QED BY <1>g, <2>1, <2>2, <2>4, <2>5
<1>wk. Wakes'
  BY <1>p, <1>q, <1>g, <1>i DEF Wakes, LiveOf, Live, Owed
<1>fr. Fresh'
  BY <1>p, <1>q, <1>g, <1>i DEF Fresh, LiveOf, Live
<1>ro. RerunOwed'
  BY <1>p, <1>q, <1>g, <1>i DEF RerunOwed, LiveOf, Live
<1>nm. NoMissedPatch'
  BY <1>g, <1>p, <1>li DEF NoMissedPatch, Watching
<1> QED BY <1>ty, <1>run, <1>fl, <1>ne, <1>ga, <1>re, <1>ca, <1>wa, <1>rc, <1>do, <1>wk, <1>fr,
           <1>ro, <1>nm

LEMMA DisposeKeeps ==
    ASSUME Careful, IInv, NEW e \in Slots, Dispose(e)
    PROVE  IInv'
<1> DEFINE D == Subtrees(g, e) \union {e}
<1>1. g \in Raw /\ Whole(g) /\ g.live[e] /\ g.kind[e] = "Effect"
  BY TypeFacts DEF IInv, Dispose, LiveOf, Live
<1>2. Doomed(g, D) /\ \A m \in Subtrees(g, e) : g.owner[m] \in Subtrees(g, e) \union {e}
  BY <1>1, SubtreesDoomed
<1>3. Pruned(g, g', D) /\ Whole(g')
  BY <1>1, DisposePrunes DEF Dispose
<1>4. D \intersect Computing(g) = {}
  BY DEF Dispose, MayTakeDown, Careful
<1>5. effects' = effects \ D
  <2>1. Subtrees(g, e) \intersect effects = {}
    BY <1>2, SlotsFacts DEF RegistryExact, IInv, Doomed
  <2> QED BY <2>1 DEF Dispose
<1>6. view' = view /\ view \in [bound : SUBSET Slots, dirty : SUBSET Slots]
  BY DEF Dispose, IInv, TypeOK
<1>7. gate' = GatesOpen(g') /\ gate' \in BOOLEAN
  BY DEF Dispose, GatesOpen
<1>8. UserRuns /\ Forget(deps, g', {}, {}) /\ UNCHANGED flush /\ UNCHANGED call
  BY DEF Dispose
<1> HIDE DEF D
<1>9. {} \intersect Live(g') = {} /\ view'.bound = view.bound \ {} /\ view'.dirty = view.dirty \ {}
  BY <1>6
<1> QED BY <1>2, <1>3, <1>4, <1>5, <1>6, <1>7, <1>8, <1>9, PruneKeeps

LEMMA UnexposeKeeps ==
    ASSUME Careful, IInv, NEW n \in Slots, Unexpose(n)
    PROVE  IInv'
<1> DEFINE D == IF g.live[n] THEN Subtrees(g, n) \union {n} ELSE {}
<1>1. g \in Raw /\ Whole(g)
  BY TypeFacts DEF IInv
<1>2. /\ Doomed(g, D) /\ Pruned(g, g', D) /\ Whole(g')
      /\ \A m \in D : m # n => g.owner[m] \in Slots
  <2>1. CASE g.live[n]
    <3>1. /\ Doomed(g, D) /\ \A m \in Subtrees(g, n) : g.owner[m] \in Subtrees(g, n) \union {n}
          /\ Subtrees(g, n) \subseteq Slots
      BY <1>1, <2>1, SubtreesDoomed DEF Doomed
    <3>2. Pruned(g, g', D) /\ Whole(g')
      BY <1>1, <2>1, DisposePrunes DEF Unexpose
    <3> QED BY <3>1, <3>2
  <2>2. CASE ~g.live[n]
    <3>1. D = {} /\ g' = g
      BY <2>2 DEF Unexpose, dispose
    <3>2. Doomed(g, {})
      BY DEF Doomed
    <3>3. Pruned(g, g, {})
      <4>1. /\ g.live \in [Slots -> BOOLEAN] /\ g.dirty \in [Slots -> BOOLEAN]
            /\ g.queued \in [Slots -> BOOLEAN]
            /\ g.sources \in [Slots -> SUBSET Slots] /\ g.subs \in [Slots -> SUBSET Slots]
            /\ g.owned \in [Slots -> SUBSET Slots] /\ g.free \in SUBSET Slots
        BY <1>1 DEF Raw
      <4>2. \A m \in Slots :
              /\ g.live[m] = (g.live[m] /\ m \notin {})
              /\ g.dirty[m] = (g.dirty[m] /\ m \notin {})
              /\ g.queued[m] = (g.queued[m] /\ m \notin {})
        BY <4>1
      <4>3. \A m \in Slots :
              /\ g.sources[m] = g.sources[m] \ {}
              /\ g.subs[m] = g.subs[m] \ {}
              /\ g.owned[m] = g.owned[m] \ {}
        BY <4>1
      <4> QED BY <1>1, <4>1, <4>2, <4>3 DEF Pruned
    <3> QED BY <1>1, <3>1, <3>2, <3>3
  <2> QED BY <2>1, <2>2
<1>3. D \intersect Computing(g) = {}
  BY DEF Unexpose, MayTakeDown, Careful
<1>4. effects' = effects \ D
  <2>1. g.live[n] => g.kind[n] # "Effect"
    BY DEF Unexpose, Careful, IInv, Watching
  <2>2. D \intersect effects = {}
    BY <1>2, <2>1, SlotsFacts DEF RegistryExact, IInv, LiveOf, Live
  <2> QED BY <2>2 DEF Unexpose
<1>5. view \in [bound : SUBSET Slots, dirty : SUBSET Slots]
  BY DEF IInv, TypeOK
<1>6. /\ view' \in [bound : SUBSET Slots, dirty : SUBSET Slots]
      /\ view'.bound = view.bound \ {n} /\ view'.dirty = view.dirty \ {n}
  BY <1>5 DEF Unexpose
<1>7. {n} \intersect Live(g') = {}
  <2>1. g'.live[n] = (g.live[n] /\ n \notin D)
    BY <1>2 DEF Pruned
  <2> QED BY <2>1 DEF Live
<1>8. gate' = gate /\ gate' \in BOOLEAN
  BY DEF Unexpose, IInv, TypeOK
<1>9. UserRuns /\ Forget(deps, g', {}, {}) /\ UNCHANGED flush /\ UNCHANGED call
  BY DEF Unexpose
<1> HIDE DEF D
<1> QED BY <1>2, <1>3, <1>4, <1>6, <1>7, <1>8, <1>9, PruneKeeps

LEMMA HotSwapKeeps ==
    ASSUME IInv, NEW H \in SUBSET Slots, HotSwap(H)
    PROVE  IInv'
<1> DEFINE k == dispose_each(g, effects)
           D == DoomedBy(g, effects)
           E == DoomedBy(k, H)
<1>1. g \in Raw /\ Whole(g) /\ effects \in SUBSET Slots
  BY TypeFacts DEF IInv, TypeOK
<1>2. Doomed(g, D) /\ Pruned(g, k, D) /\ Whole(k)
  BY <1>1, DisposeEachPrunes
<1>3. k \in Raw
  BY <1>2 DEF Pruned
<1>4. g' = dispose_each(k, H)
  BY DEF HotSwap
<1> HIDE DEF k
<1>5. Doomed(k, E) /\ Pruned(k, g', E) /\ Whole(g')
  BY <1>3, <1>2, <1>4, DisposeEachPrunes
<1>6. D \in SUBSET Slots /\ E \in SUBSET Slots
  BY <1>2, <1>5 DEF Doomed
<1>7. Pruned(g, g', D \union E)
  <2> HIDE DEF D, E
  <2> QED BY <1>1, <1>2, <1>5, <1>6, PrunedTwice
<1>8. Doomed(g, D \union E)
  <2> HIDE DEF D, E
  <2>1. \A n \in Slots : /\ k.live[n] = (g.live[n] /\ n \notin D)
                        /\ k.owned[n] = IF n \in D THEN {} ELSE g.owned[n] \ D
    BY <1>2 DEF Pruned
  <2>2. E \subseteq Live(g)
    BY <1>5, <1>6, <2>1 DEF Doomed, Live
  <2>3. \A m \in E : g.owned[m] \subseteq D \union E
    BY <1>5, <1>6, <2>1 DEF Doomed, Live
  <2> QED BY <1>2, <1>6, <2>2, <2>3 DEF Doomed
<1>9. g.computing = <<>> /\ UserRuns
  BY DEF HotSwap, AtTop, UserRuns
<1>10. Computing(g) = {}
  BY <1>9, TypeFacts DEF IInv
<1>11. effects' = effects \ (D \union E)
  <2>1. effects \subseteq D
    BY DEF IInv, RegistryExact, LiveOf, DoomedBy
  <2> QED BY <2>1 DEF HotSwap
<1>12. view' = view /\ view \in [bound : SUBSET Slots, dirty : SUBSET Slots]
  BY DEF HotSwap, IInv, TypeOK
<1>13. gate' = GatesOpen(g') /\ gate' \in BOOLEAN
  BY DEF HotSwap, GatesOpen
<1>14. Forget(deps, g', {}, {}) /\ UNCHANGED flush /\ UNCHANGED call
  BY DEF HotSwap
<1> DEFINE F == D \union E
<1>15. /\ Doomed(g, F) /\ Pruned(g, g', F) /\ effects' = effects \ F
       /\ F \intersect Computing(g) = {}
  BY <1>7, <1>8, <1>10, <1>11
<1> HIDE DEF D, E, F
<1>16. {} \intersect Live(g') = {} /\ view'.bound = view.bound \ {} /\ view'.dirty = view.dirty \ {}
  BY <1>12
<1> QED BY <1>5, <1>9, <1>12, <1>13, <1>14, <1>15, <1>16, PruneKeeps

\* A step that leaves the graph alone.
LEMMA QuietKeeps ==
    ASSUME IInv, g' = g, UNCHANGED flush, effects' = effects, deps' = deps,
           stale' = stale, dropped' = dropped, overtaken' = overtaken, made' = made,
           gate' \in BOOLEAN, gate' => gate \/ GatesOpen(g),
           call' \in [op : {"none", "expose", "snapshot", "diff"},
                      taken : SUBSET Slots, left : SUBSET Slots, again : SUBSET Slots], Calling',
           view' \in [bound : SUBSET Slots, dirty : SUBSET Slots],
           view'.dirty \subseteq view'.bound,
           watched' \subseteq Slots, behind' \subseteq Slots, lapsed' \subseteq Slots,
           Watching', NoMissedPatch'
    PROVE  IInv'
<1> USE DEF IInv
<1>1. round' = round /\ steps' = steps /\ base' = base /\ aborted' = aborted
  BY DEF flush
<1>2. TypeOK'
  <2>1. \A S \in {stale', dropped', overtaken', watched', behind', lapsed'} : S \subseteq Slots
    BY DEF TypeOK
  <2> QED BY <1>1, <2>1 DEF TypeOK
<1>3. InRound' = InRound /\ Owed' = Owed
  BY <1>1 DEF InRound, Owed, Queued
<1>4. Running' /\ Flushing' /\ Nested'
  BY <1>1, <1>3 DEF Running, Flushing, Nested
<1>5. Gates'
  BY <1>1 DEF Gates, GatesOpen
<1>6. RegistryExact' /\ Recorded' /\ Fresh'
  BY DEF RegistryExact, Recorded, Fresh
<1>7. Downstream'
  <2>1. \A m, n \in Slots : Waits(n, m)' <=> Waits(n, m)
    BY DEF Waits
  <2>2. \A n \in Slots : Due(n)' <=> Due(n)
    BY <1>3 DEF Due
  <2> QED BY <2>1, <2>2 DEF Downstream
<1>8. Wakes' /\ RerunOwed'
  BY <1>3 DEF Wakes, RerunOwed
<1> QED BY <1>2, <1>4, <1>5, <1>6, <1>7, <1>8

LEMMA StartCallKeeps ==
    ASSUME IInv, NEW op \in {"expose", "snapshot", "diff"}, NEW taken \in SUBSET Slots,
           op = "expose" => \E n \in Live(g) \ LiveOf(g, "Effect") : taken = {n},
           StartCall(op, taken)
    PROVE  IInv'
<1>1. /\ g' = g /\ UNCHANGED flush /\ gate' = gate /\ effects' = effects /\ view' = view
      /\ deps' = deps /\ stale' = stale /\ dropped' = dropped /\ made' = made
      /\ watched' = watched /\ behind' = behind /\ overtaken' = overtaken /\ lapsed' = lapsed
      /\ call' = [op |-> op, taken |-> taken, left |-> taken, again |-> {}]
  BY DEF StartCall, ghost
<1>2. g.computing = <<>> /\ ~g.flushing
  BY DEF StartCall, AtTop
<1>3. call'.op = op /\ call'.taken = taken /\ call'.left = taken
  BY <1>1
<1>4. call' \in [op : {"none", "expose", "snapshot", "diff"},
                 taken : SUBSET Slots, left : SUBSET Slots, again : SUBSET Slots]
  BY <1>1
<1>5. Calling'
  <2>1. op # "none" /\ taken \ taken = {}
    OBVIOUS
  <2>2. op = "expose" => /\ \A x, y \in taken : x = y
                         /\ \A x \in taken : g.live[x] /\ g.kind[x] # "Effect"
    BY DEF Live, LiveOf
  <2> QED BY <1>1, <1>2, <1>3, <2>1, <2>2 DEF Calling
<1>6. /\ view \in [bound : SUBSET Slots, dirty : SUBSET Slots] /\ view.dirty \subseteq view.bound
      /\ gate \in BOOLEAN /\ watched \subseteq Slots /\ behind \subseteq Slots /\ lapsed \subseteq Slots
  BY DEF IInv, TypeOK
<1>7. Watching' /\ NoMissedPatch'
  BY <1>1 DEF IInv, Watching, NoMissedPatch
<1> QED BY <1>1, <1>4, <1>5, <1>6, <1>7, QuietKeeps

LEMMA EndCallKeeps ==
    ASSUME IInv, EndCall
    PROVE  IInv'
<1> DEFINE done == IF call.op = "snapshot" THEN call.taken \intersect Live(g) ELSE call.taken
<1>1. /\ g' = g /\ UNCHANGED flush /\ gate' = gate /\ effects' = effects
      /\ deps' = deps /\ stale' = stale /\ dropped' = dropped /\ overtaken' = overtaken
      /\ made' = made
      /\ call.op # "none" /\ call.left = {} /\ g.computing = <<>> /\ ~g.flushing
      /\ watched' = IF call.op = "expose" THEN watched \union call.taken ELSE watched
      /\ behind' = (behind \ done) \union (call.again \intersect watched')
      /\ lapsed' = (lapsed \ done) \union (call.again \intersect watched')
      /\ call' = NoIdle
  BY DEF EndCall
<1>2. /\ view'.bound = IF call.op = "expose" THEN view.bound \union call.taken ELSE view.bound
      /\ view'.dirty = view.dirty \ done
  BY DEF EndCall
<1>3. /\ view.bound \subseteq Slots /\ view.dirty \subseteq view.bound
      /\ gate \in BOOLEAN /\ watched \subseteq Slots /\ behind \subseteq Slots /\ lapsed \subseteq Slots
      /\ call.taken \subseteq Slots
  BY DEF IInv, TypeOK
<1>4. view' \in [bound : SUBSET Slots, dirty : SUBSET Slots] /\ view'.dirty \subseteq view'.bound
  BY <1>2, <1>3 DEF EndCall
<1>5. call' \in [op : {"none", "expose", "snapshot", "diff"},
                 taken : SUBSET Slots, left : SUBSET Slots, again : SUBSET Slots] /\ Calling'
  BY <1>1 DEF NoIdle, Calling
<1>6. Computing(g) = {}
  BY <1>1, TypeFacts DEF IInv
<1>7. done \subseteq call.taken /\ (call.op = "expose" => done = call.taken)
  OBVIOUS
<1> HIDE DEF done
<1>8. Watching'
  <2>1. \A x \in watched' : g.live[x] /\ g.kind[x] # "Effect"
    BY <1>1 DEF IInv, Watching, Calling
  <2>2. \A x \in watched' \intersect call.taken :
          g.kind[x] = "Computed" /\ g.dirty[x] => x \in lapsed'
    BY <1>1, <1>6 DEF IInv, Calling
  <2>3. \A x \in watched' :
          g.kind[x] = "Computed" /\ g.dirty[x] => x \in view'.dirty \union g.changed \union lapsed'
    BY <1>1, <1>2, <1>7, <2>2 DEF IInv, Watching
  <2>4. behind' \subseteq watched' /\ watched' \subseteq view'.bound
    BY <1>1, <1>2 DEF IInv, Watching
  <2> QED BY <1>1, <2>1, <2>3, <2>4 DEF Watching
<1>9. NoMissedPatch'
  BY <1>1, <1>2 DEF IInv, NoMissedPatch
<1>10. watched' \subseteq Slots /\ behind' \subseteq Slots /\ lapsed' \subseteq Slots
  BY <1>1, <1>3
<1> QED BY <1>1, <1>3, <1>4, <1>5, <1>8, <1>9, <1>10, QuietKeeps

LEMMA CallReadCleanKeeps ==
    ASSUME IInv, NEW n \in Slots, CallRead(n), ~(n \in LiveOf(g, "Computed") /\ g.dirty[n])
    PROVE  IInv'
<1>1. /\ g' = g /\ UNCHANGED flush /\ effects' = effects /\ view' = view
      /\ deps' = deps /\ stale' = stale /\ dropped' = dropped /\ made' = made
      /\ watched' = watched /\ behind' = behind /\ overtaken' = overtaken /\ lapsed' = lapsed
      /\ n \in call.left /\ g.computing = <<>> /\ ~g.flushing
      /\ call' = [call EXCEPT !.left = @ \ {n}]
  BY DEF CallRead, ghost
<1>2. gate' = gate \/ gate' = GatesOpen(g)
  BY <1>1 DEF CallRead
<1>3. gate' \in BOOLEAN
  BY <1>2 DEF IInv, TypeOK, GatesOpen
<1>4. /\ call \in [op : {"none", "expose", "snapshot", "diff"},
                   taken : SUBSET Slots, left : SUBSET Slots, again : SUBSET Slots]
      /\ view \in [bound : SUBSET Slots, dirty : SUBSET Slots] /\ view.dirty \subseteq view.bound
      /\ watched \subseteq Slots /\ behind \subseteq Slots /\ lapsed \subseteq Slots
  BY DEF IInv, TypeOK
<1>5. /\ call' \in [op : {"none", "expose", "snapshot", "diff"},
                    taken : SUBSET Slots, left : SUBSET Slots, again : SUBSET Slots]
      /\ call'.op = call.op /\ call'.taken = call.taken /\ call'.left = call.left \ {n}
      /\ call'.again = call.again
  BY <1>1, <1>4
<1>6. Calling'
  <2>1. n \in watched \/ call.op = "expose" => ~(g.kind[n] = "Computed" /\ g.dirty[n])
    BY <1>1 DEF IInv, Watching, Calling, LiveOf, Live
  <2> QED BY <1>1, <1>5, <2>1 DEF IInv, Calling
<1>7. Watching' /\ NoMissedPatch'
  BY <1>1 DEF IInv, Watching, NoMissedPatch
<1> QED BY <1>1, <1>2, <1>3, <1>4, <1>5, <1>6, <1>7, QuietKeeps

\* What every step that ends runs, down to a depth, does to the graph.
Cut(h, k, depth) ==
    /\ k \in Raw /\ Whole(k)
    /\ k.kind = h.kind /\ k.queue = h.queue
    /\ k.live = h.live /\ k.queued = h.queued
    /\ k.owner = h.owner /\ k.owned = h.owned
    /\ k.sources = h.sources /\ k.subs = h.subs
    /\ k.computing \in Seq(Slots) /\ Len(k.computing) = depth
    /\ \A i \in 1..depth : k.computing[i] = h.computing[i]
    /\ \A m \in Slots : k.dirty[m] = (h.dirty[m] /\ m \notin Frames(h, depth))

\* Ended runs are clean; an entry may be traded for a mark that it was dropped.
LEMMA CutKeeps ==
    ASSUME IInv, NEW depth \in 0..Len(g.computing), Cut(g, g', depth),
           effects' = effects, deps' = deps, overtaken' = overtaken, dropped \subseteq dropped',
           Owed \intersect LiveOf(g, "Effect") \subseteq Owed' \union dropped',
           stale \subseteq stale', stale' \subseteq stale \union CutMemos(depth),
           CutMemos(depth) \intersect stale' \subseteq dropped' \union overtaken
    PROVE  /\ g' \in Graph /\ Whole(g') /\ RegistryExact' /\ Recorded' /\ Downstream'
           /\ Wakes' /\ Fresh' /\ RerunOwed'
           /\ \A i \in 1..depth : g'.computing[i] = g.computing[i] /\ g'.dirty[g.computing[i]] = g.dirty[g.computing[i]]
           /\ \A x \in Slots : g'.dirty[x] => g.dirty[x] /\ x \notin Frames(g, depth)
           /\ \A x \in Computing(g) : x \notin Frames(g, depth) => x \in Computing(g')
<1> USE DEF IInv
<1>t. /\ g \in Raw
      /\ g.computing \in Seq(Slots) /\ Len(g.computing) \in Nat
      /\ \A i \in 1..Len(g.computing) : g.computing[i] \in Slots
      /\ Computing(g) = {g.computing[i] : i \in 1..Len(g.computing)}
  BY TypeFacts
<1>p. /\ g' \in Raw /\ Whole(g')
      /\ g'.kind = g.kind /\ g'.queue = g.queue
      /\ g'.live = g.live /\ g'.queued = g.queued
      /\ g'.owner = g.owner /\ g'.owned = g.owned
      /\ g'.sources = g.sources /\ g'.subs = g.subs
      /\ g'.computing \in Seq(Slots) /\ Len(g'.computing) = depth
      /\ \A i \in 1..depth : g'.computing[i] = g.computing[i]
  BY DEF Cut
<1>q. \A m \in Slots : g'.dirty[m] <=> (g.dirty[m] /\ m \notin Frames(g, depth))
  <2> SUFFICES ASSUME NEW m \in Slots
               PROVE  g'.dirty[m] <=> (g.dirty[m] /\ m \notin Frames(g, depth))
    OBVIOUS
  <2>1. g'.dirty[m] = (g.dirty[m] /\ m \notin Frames(g, depth))
    BY DEF Cut
  <2> QED BY <2>1, Zenon
<1>r. g.dirty \in [Slots -> BOOLEAN] /\ g'.dirty \in [Slots -> BOOLEAN]
  BY <1>t, <1>p DEF Raw
<1>n. depth \in Nat /\ depth <= Len(g.computing)
  BY <1>t
<1>f. \A i \in 1..depth : g.computing[i] \in Slots /\ g.computing[i] \notin Frames(g, depth)
  BY <1>t, <1>n DEF Frames, Running
<1>g. \A i \in 1..Len(g.computing) : g.computing[i] \notin Frames(g, depth) => i \in 1..depth
  BY <1>t, <1>n DEF Frames
<1>1. g' \in Graph
  BY <1>p, WholeIsGraph DEF TypeOK, Graph
<1>2. RegistryExact' /\ Recorded'
  BY <1>p DEF RegistryExact, Recorded, LiveOf, Live
<1>c. Computing(g') = {g'.computing[i] : i \in 1..Len(g'.computing)}
  BY <1>p, StackFacts DEF Computing
<1>3. \A x \in Computing(g) : x \notin Frames(g, depth) => x \in Computing(g')
  BY <1>t, <1>p, <1>g, <1>c
<1>4. \A x \in Computing(g') : x \in Computing(g) /\ x \notin Frames(g, depth)
  BY <1>t, <1>p, <1>n, <1>f, <1>c
<1>5. Downstream'
  <2> SUFFICES ASSUME NEW m \in Slots, NEW n \in Slots, n \in g.subs[m],
                      g.kind[m] = "Computed", g'.dirty[m] \/ m \in overtaken
               PROVE  n \in overtaken \/ Due(n)' \/ (Waits(n, m)' /\ m \notin overtaken)
    BY <1>p DEF Downstream
  <2>1. n \in overtaken \/ Due(n) \/ (Waits(n, m) /\ m \notin overtaken)
    BY <1>q DEF Downstream
  <2>2. ASSUME Waits(n, m), m \notin overtaken PROVE Waits(n, m)'
    <3>0. m \notin Frames(g, depth)
      BY <1>q, <2>2
    <3>1. PICK i \in 1..Len(g.computing) - 1 : g.computing[i] = n /\ g.computing[i + 1] = m
      BY <2>2 DEF Waits
    <3>2. i \in 1..Len(g.computing) /\ i + 1 \in 1..Len(g.computing)
      BY <1>t
    <3>3. i + 1 \in 1..depth
      BY <1>g, <3>0, <3>1, <3>2
    <3>4. i \in 1..depth /\ i \in 1..Len(g'.computing) - 1
      BY <1>n, <1>p, <3>2, <3>3
    <3> QED BY <1>p, <3>1, <3>3, <3>4 DEF Waits
  <2>3. Due(n) => Due(n)'
    <3>1. g.live[n] /\ g.kind[n] # "Signal" /\ g.kind[n] \in NodeKind
      BY <1>t DEF Whole, Mirror, Raw
    <3>2. CASE g.kind[n] = "Computed"
      <4>1. n \in Frames(g, depth) => n \in Computing(g)
        BY <1>t, <1>n DEF Frames
      <4> QED BY <1>p, <1>q, <1>4, <3>2, <4>1 DEF Due
    <3>3. CASE g.kind[n] # "Computed"
      <4>1. n \in LiveOf(g, "Effect")
        BY <3>1, <3>3 DEF LiveOf, Live, NodeKind
      <4> QED BY <1>p, <3>3, <4>1 DEF Due
    <3> QED BY <3>2, <3>3
  <2> QED BY <2>1, <2>2, <2>3
<1>6. Wakes'
  BY <1>p DEF Wakes, LiveOf, Live
<1>7. Fresh'
  <2>1. ASSUME NEW c \in LiveOf(g, "Computed"), ~g'.dirty[c] \/ c \in Computing(g'), c \in stale'
        PROVE  c \in dropped' \union overtaken
    <3>1. c \in Slots /\ g.kind[c] = "Computed"
      BY DEF LiveOf, Live
    <3>2. CASE c \in CutMemos(depth)
      BY <2>1, <3>2
    <3>3. CASE c \notin CutMemos(depth)
      BY <1>q, <1>4, <2>1, <3>1, <3>3 DEF Fresh, CutMemos
    <3> QED BY <3>2, <3>3
  <2>2. \A c \in LiveOf(g, "Signal") : c \notin stale' /\ ~g'.dirty[c]
    BY <1>q DEF Fresh, CutMemos, LiveOf, Live
  <2>3. LiveOf(g', "Computed") = LiveOf(g, "Computed") /\ LiveOf(g', "Signal") = LiveOf(g, "Signal")
    BY <1>p DEF LiveOf, Live
  <2> QED BY <2>1, <2>2, <2>3 DEF Fresh
<1>8. RerunOwed'
  <2>1. LiveOf(g', "Effect") = LiveOf(g, "Effect")
    BY <1>p DEF LiveOf, Live
  <2>2. \A e \in LiveOf(g, "Effect") : e \notin CutMemos(depth)
    BY DEF LiveOf, CutMemos
  <2>3. \A e \in LiveOf(g, "Effect") : e \in stale' /\ e \notin dropped' \union overtaken => e \in Owed'
    BY <2>2 DEF RerunOwed, Owed
  <2> QED BY <2>1, <2>3 DEF RerunOwed, Owed
<1>9. \A i \in 1..depth : g'.computing[i] = g.computing[i] /\ g'.dirty[g.computing[i]] = g.dirty[g.computing[i]]
  BY <1>p, <1>q, <1>r, <1>f
<1> QED BY <1>p, <1>q, <1>1, <1>2, <1>3, <1>5, <1>6, <1>7, <1>8, <1>9

LEMMA UnwoundIsCut ==
    ASSUME NEW h, NEW k, NEW depth, Unwound(h, k, depth)
    PROVE  Cut(h, k, depth)
BY DEF Unwound, Cut

LEMMA ReturnKeeps ==
    ASSUME IInv, Return
    PROVE  IInv'
<1> USE DEF IInv
<1> DEFINE depth == Len(g.computing) - 1
           n == Last(g.computing)
           isEffectRun == g.flushing /\ Len(g.computing) = base + 1
<1>t. /\ g \in Raw
      /\ g.computing \in Seq(Slots) /\ Len(g.computing) \in Nat
      /\ \A i \in 1..Len(g.computing) : g.computing[i] \in Slots
      /\ g.computing = <<>> <=> Len(g.computing) = 0
      /\ Computing(g) = {g.computing[i] : i \in 1..Len(g.computing)}
      /\ base \in Nat /\ base <= Len(g.computing)
  BY TypeFacts
<1>i. /\ Len(g.computing) > base /\ ~aborted
      /\ g.flushing => steps <= MaxSteps
  BY <1>t DEF Return, InBody, Flushing
<1>n. g.computing # <<>> /\ depth \in Nat /\ depth \in 0..Len(g.computing) /\ base <= depth
  BY <1>t, <1>i
<1>a. /\ g' = end_compute(g, n)
      /\ steps' = IF isEffectRun THEN steps + 1 ELSE steps
      /\ gate' = IF isEffectRun THEN gate ELSE GatesOpen(g')
      /\ round' = round /\ base' = base /\ aborted' = aborted /\ effects' = effects
      /\ view' = view /\ call' = call /\ deps' = deps /\ stale' = stale /\ dropped' = dropped
      /\ watched' = watched /\ behind' = behind /\ overtaken' = overtaken /\ lapsed' = lapsed /\ made' = made
  BY DEF Return, ghost
<1>u. Unwound(g, g', depth)
  BY <1>t, <1>n, <1>a, EndFacts
<1>c. Cut(g, g', depth)
  BY <1>u, UnwoundIsCut
<1>f. Frames(g, depth) = {n} /\ n \in Slots /\ n \in Computing(g)
  <2>1. (depth + 1)..Len(g.computing) = {Len(g.computing)} /\ Len(g.computing) \in 1..Len(g.computing)
    BY <1>t, <1>n
  <2>2. n = g.computing[Len(g.computing)]
    BY <1>t, <1>n, StackFacts
  <2> QED BY <1>t, <2>1, <2>2 DEF Frames
<1>p. /\ g'.kind = g.kind /\ g'.queue = g.queue /\ g'.changed = g.changed
      /\ g'.flushing = g.flushing /\ g'.live = g.live /\ g'.owned = g.owned
      /\ Len(g'.computing) = depth
  BY <1>u DEF Unwound
<1>o. Owed' = Owed
  BY <1>a, <1>p DEF Owed, Queued, InRound
<1>m. CutMemos(depth) \intersect stale \subseteq dropped \union overtaken
  <2>1. CutMemos(depth) \subseteq {n}
    BY <1>f DEF CutMemos
  <2>2. n \in CutMemos(depth) => n \in LiveOf(g, "Computed")
    BY <1>f, <1>t DEF CutMemos, LiveOf, Live, Running
  <2> QED BY <1>f, <2>1, <2>2 DEF Fresh
<1> HIDE DEF depth, n
<1>k. /\ g' \in Graph /\ Whole(g') /\ RegistryExact' /\ Recorded' /\ Downstream'
      /\ Wakes' /\ Fresh' /\ RerunOwed'
      /\ \A i \in 1..depth : g'.computing[i] = g.computing[i] /\ g'.dirty[g.computing[i]] = g.dirty[g.computing[i]]
      /\ \A x \in Slots : g'.dirty[x] => g.dirty[x] /\ x \notin Frames(g, depth)
      /\ \A x \in Computing(g) : x \notin Frames(g, depth) => x \in Computing(g')
  BY <1>n, <1>c, <1>a, <1>o, <1>m, CutKeeps
<1>s. isEffectRun => depth = base
  BY <1>t, <1>n DEF depth
<1>ty. TypeOK'
  <2>1. steps' \in 0..(MaxSteps + 1)
    BY <1>a, <1>i, SlotsFacts DEF TypeOK
  <2>2. gate' \in BOOLEAN
    BY <1>a DEF TypeOK, GatesOpen
  <2>3. base' \in 0..Len(g'.computing)
    BY <1>t, <1>a, <1>p, <1>n
  <2> QED BY <1>a, <1>k, <2>1, <2>2, <2>3 DEF TypeOK
<1>run. Running'
  <2>1. \A i \in 1..depth : i \in 1..Len(g.computing)
    BY <1>t, <1>n
  <2> QED BY <1>t, <1>a, <1>p, <1>n, <1>k, <2>1 DEF Running
<1>fl. Flushing'
  <2>1. g.flushing /\ depth > base => steps' <= MaxSteps
    BY <1>a, <1>i, <1>s, <1>t, <1>n
  <2> QED BY <1>a, <1>i, <1>p, <2>1 DEF Flushing
<1>ne. Nested'
  <2>1. \A e \in Slots : Subtrees(g', e) = Subtrees(g, e)
    BY <1>p DEF Subtrees, Children
  <2>2. Owed \subseteq Slots
    BY DEF Owed, Queued, InRound
  <2>3. \A i \in 1..base : i \in 1..depth
    BY <1>t, <1>n
  <2> QED BY <1>a, <1>p, <1>o, <1>k, <2>1, <2>2, <2>3 DEF Nested
<1>ga. Gates'
  <2>1. isEffectRun => ~gate
    BY <1>i, <1>t DEF Gates
  <2> QED BY <1>a, <2>1 DEF Gates, GatesOpen
<1>ca. Calling'
  <2>1. call.op # "none" => (g'.flushing => base' > 0)
    BY <1>a, <1>p DEF Calling
  <2>2. \A x \in call.taken \ call.left :
          /\ x \in watched \/ call.op = "expose"
          /\ g'.kind[x] = "Computed" /\ g'.dirty[x]
          => x \in Computing(g') \union call.again
    BY <1>p, <1>k DEF Calling, TypeOK
  <2>3. g'.computing # <<>> => g.computing # <<>> /\ g'.computing[1] = g.computing[1]
    <3>1. g'.computing # <<>> => depth # 0
      BY <1>u, <1>p, StackFacts DEF Unwound
    <3>2. depth # 0 => 1 \in 1..depth
      BY <1>n
    <3> QED BY <1>n, <1>k, <3>1, <3>2
  <2>4. call.op = "expose" =>
          \A x \in call.taken :
            /\ g'.live[x] /\ g'.kind[x] # "Effect"
            /\ g'.computing # <<>> => g'.computing[1] = x
    BY <1>p, <2>3 DEF Calling
  <2> QED BY <1>a, <2>1, <2>2, <2>4 DEF Calling
<1>wa. Watching' /\ NoMissedPatch'
  BY <1>a, <1>p, <1>k DEF Watching, NoMissedPatch, TypeOK
<1> QED BY <1>ty, <1>k, <1>run, <1>fl, <1>ne, <1>ga, <1>ca, <1>wa

LEMMA AbortKeeps ==
    ASSUME IInv, Abort
    PROVE  IInv'
<1> USE DEF IInv
<1> DEFINE depth == IF g.flushing THEN base ELSE 0
<1>t. /\ g \in Raw
      /\ g.computing \in Seq(Slots) /\ Len(g.computing) \in Nat
      /\ \A i \in 1..Len(g.computing) : g.computing[i] \in Slots
      /\ Computing(g) = {g.computing[i] : i \in 1..Len(g.computing)}
      /\ base \in Nat /\ base <= Len(g.computing)
  BY TypeFacts
<1>i. /\ Len(g.computing) > base /\ ~aborted
      /\ g.flushing => steps <= MaxSteps
  BY <1>t DEF Abort, InBody, Flushing
<1>n. depth \in Nat /\ depth \in 0..Len(g.computing) /\ depth = base
  BY <1>t DEF Flushing
<1>a. /\ g' = Unwind(g, depth)
      /\ steps' = IF g.flushing THEN steps + 1 ELSE steps
      /\ aborted' = g.flushing
      /\ gate' = IF g.flushing THEN gate ELSE GatesOpen(g')
      /\ call' = IF g.flushing THEN call ELSE NoIdle
      /\ round' = round /\ base' = base /\ effects' = effects
      /\ view' = view /\ deps' = deps
      /\ stale' = stale \union CutMemos(depth) /\ dropped' = dropped \union CutMemos(depth)
      /\ watched' = watched /\ behind' = behind /\ overtaken' = overtaken /\ lapsed' = lapsed /\ made' = made
  BY DEF Abort
<1>u. Unwound(g, g', depth)
  BY <1>t, <1>n, <1>a, UnwindFacts
<1>c. Cut(g, g', depth)
  BY <1>u, UnwoundIsCut
<1>p. /\ g'.kind = g.kind /\ g'.queue = g.queue /\ g'.changed = g.changed
      /\ g'.flushing = g.flushing /\ g'.live = g.live /\ g'.owned = g.owned
      /\ Len(g'.computing) = depth
  BY <1>u DEF Unwound
<1>o. Owed' = Owed
  BY <1>a, <1>p DEF Owed, Queued, InRound
<1> HIDE DEF depth
<1>k. /\ g' \in Graph /\ Whole(g') /\ RegistryExact' /\ Recorded' /\ Downstream'
      /\ Wakes' /\ Fresh' /\ RerunOwed'
      /\ \A i \in 1..depth : g'.computing[i] = g.computing[i] /\ g'.dirty[g.computing[i]] = g.dirty[g.computing[i]]
      /\ \A x \in Slots : g'.dirty[x] => g.dirty[x] /\ x \notin Frames(g, depth)
      /\ \A x \in Computing(g) : x \notin Frames(g, depth) => x \in Computing(g')
  BY <1>n, <1>c, <1>a, <1>o, CutKeeps
<1>m. CutMemos(depth) \subseteq Slots
  BY <1>t, <1>n DEF CutMemos, Frames
<1>ty. TypeOK'
  <2>1. steps' \in 0..(MaxSteps + 1)
    BY <1>a, <1>i, SlotsFacts DEF TypeOK
  <2>2. gate' \in BOOLEAN /\ aborted' \in BOOLEAN
    BY <1>a, <1>t DEF TypeOK, GatesOpen, Raw
  <2>3. base' \in 0..Len(g'.computing)
    BY <1>t, <1>a, <1>p, <1>n
  <2>4. call' \in [op : {"none", "expose", "snapshot", "diff"},
                   taken : SUBSET Slots, left : SUBSET Slots, again : SUBSET Slots]
    BY <1>a DEF TypeOK, NoIdle
  <2>5. \A S \in {stale', dropped', overtaken', watched', behind', lapsed'} : S \subseteq Slots
    BY <1>a, <1>m DEF TypeOK
  <2> QED BY <1>a, <1>k, <2>1, <2>2, <2>3, <2>4, <2>5 DEF TypeOK
<1>run. Running'
  <2>1. \A i \in 1..depth : i \in 1..Len(g.computing) /\ i # base + 1
    BY <1>t, <1>n
  <2>2. \A i \in 1..depth : /\ g.live[g.computing[i]] /\ g.kind[g.computing[i]] = "Computed"
                          /\ g.dirty[g.computing[i]]
    BY <2>1 DEF Running
  <2>3. \A i, j \in 1..depth : g.computing[i] = g.computing[j] => i = j
    BY <2>1 DEF Running
  <2>4. base' \in Nat /\ base' <= Len(g'.computing) /\ base' = base
    BY <1>t, <1>a, <1>p, <1>n
  <2> QED BY <1>p, <1>k, <2>1, <2>2, <2>3, <2>4, SMTT(60) DEF Running
<1>fl. Flushing'
  BY <1>a, <1>p, <1>n, <1>t DEF Flushing
<1>ne. Nested'
  <2>1. \A e \in Slots : Subtrees(g', e) = Subtrees(g, e)
    BY <1>p DEF Subtrees, Children
  <2>2. Owed \subseteq Slots
    BY DEF Owed, Queued, InRound
  <2> QED BY <1>a, <1>p, <1>o, <1>k, <1>n, <2>1, <2>2 DEF Nested
<1>ga. Gates'
  <2>1. g.flushing => ~gate
    BY <1>i, <1>t DEF Gates
  <2> QED BY <1>a, <2>1 DEF Gates, GatesOpen
<1>ca. Calling'
  <2>1. CASE ~g.flushing
    BY <1>a, <2>1 DEF Calling, NoIdle
  <2>2. CASE g.flushing
    <3>0. call' = call
      BY <1>a, <2>2
    <3>1. call.op # "none" => (g'.flushing => base' > 0)
      BY <1>a, <1>p DEF Calling
    <3>2. \A x \in call.taken \ call.left :
            /\ x \in watched \/ call.op = "expose"
            /\ g'.kind[x] = "Computed" /\ g'.dirty[x]
            => x \in Computing(g') \union call.again
      BY <1>p, <1>k DEF Calling, TypeOK
    <3>3. g'.computing # <<>> => g.computing # <<>> /\ g'.computing[1] = g.computing[1]
      <4>1. g'.computing # <<>> => depth # 0
        BY <1>u, <1>p, StackFacts DEF Unwound
      <4>2. depth # 0 => 1 \in 1..depth
        BY <1>n
      <4>3. g.computing # <<>>
        BY <1>i, <1>t
      <4> QED BY <4>3, <1>k, <4>1, <4>2
    <3>4. call.op = "expose" =>
            \A x \in call.taken :
              /\ g'.live[x] /\ g'.kind[x] # "Effect"
              /\ g'.computing # <<>> => g'.computing[1] = x
      BY <1>p, <3>3 DEF Calling
    <3> QED BY <3>0, <1>a, <3>1, <3>2, <3>4 DEF Calling
  <2> QED BY <2>1, <2>2
<1>wa. Watching' /\ NoMissedPatch'
  BY <1>a, <1>p, <1>k DEF Watching, NoMissedPatch, TypeOK
<1> QED BY <1>ty, <1>k, <1>run, <1>fl, <1>ne, <1>ga, <1>ca, <1>wa

LEMMA FlushDoneKeeps ==
    ASSUME IInv, FlushDone
    PROVE  IInv'
<1> USE DEF IInv
<1> DEFINE failed == aborted \/ steps > MaxSteps
           depth == IF failed THEN 0 ELSE base
           k == Unwind(g, depth)
<1>t. /\ g \in Raw
      /\ g.computing \in Seq(Slots) /\ Len(g.computing) \in Nat
      /\ \A i \in 1..Len(g.computing) : g.computing[i] \in Slots
      /\ Computing(g) = {g.computing[i] : i \in 1..Len(g.computing)}
      /\ base \in Nat /\ base <= Len(g.computing)
  BY TypeFacts
<1>i. g.flushing /\ Len(g.computing) = base
  BY <1>t DEF FlushDone, Looping, InBody
<1>n. depth \in Nat /\ depth \in 0..Len(g.computing) /\ (~failed => depth = Len(g.computing))
  BY <1>t, <1>i
<1>a. /\ g' = [k EXCEPT !.flushing = FALSE, !.changed = {}]
      /\ gate' = GatesOpen(g')
      /\ view' = [view EXCEPT !.dirty = @ \union (g.changed \intersect view.bound)]
      /\ call' = IF failed THEN NoIdle ELSE call
      /\ stale' = stale \union CutMemos(depth)
      /\ dropped' = dropped \union CutMemos(depth) \union (InRound \intersect LiveOf(g, "Effect"))
      /\ round' = Empty /\ steps' = 0 /\ base' = 0 /\ aborted' = FALSE
      /\ effects' = effects /\ deps' = deps /\ made' = made
      /\ watched' = watched /\ behind' = behind /\ overtaken' = overtaken /\ lapsed' = lapsed
  BY DEF FlushDone
<1>u. Unwound(g, k, depth)
  BY <1>t, <1>n, UnwindFacts
<1> HIDE DEF k, depth, failed
<1>v. /\ k \in Raw /\ Whole(k)
      /\ k.kind = g.kind /\ k.queue = g.queue
      /\ k.live = g.live /\ k.queued = g.queued
      /\ k.owner = g.owner /\ k.owned = g.owned
      /\ k.sources = g.sources /\ k.subs = g.subs
      /\ k.computing \in Seq(Slots) /\ Len(k.computing) = depth
      /\ \A i \in 1..depth : k.computing[i] = g.computing[i]
      /\ \A m \in Slots : k.dirty[m] = (g.dirty[m] /\ m \notin Frames(g, depth))
  BY <1>u DEF Unwound
<1>w. /\ g' \in Raw /\ g'.flushing = FALSE /\ g'.changed = {}
      /\ g'.kind = k.kind /\ g'.len = k.len /\ g'.free = k.free /\ g'.queue = k.queue
      /\ g'.dirtyComputeds = k.dirtyComputeds
      /\ g'.live = k.live /\ g'.dirty = k.dirty /\ g'.queued = k.queued
      /\ g'.owner = k.owner /\ g'.owned = k.owned
      /\ g'.sources = k.sources /\ g'.subs = k.subs /\ g'.computing = k.computing
  BY <1>a, <1>v DEF Raw
<1>x. Whole(g')
  <2>1. Mirror(k) => Mirror(g')
    BY <1>w DEF Mirror
  <2> QED BY <1>v, <1>w, <2>1, SameShape DEF Whole
<1>c. Cut(g, g', depth)
  BY <1>v, <1>w, <1>x DEF Cut
<1>p. /\ g'.kind = g.kind /\ g'.live = g.live /\ Len(g'.computing) = depth
      /\ g'.computing \in Seq(Slots) /\ g'.queue = g.queue
  BY <1>v, <1>w
<1>o. Owed \intersect LiveOf(g, "Effect") \subseteq Owed' \union dropped'
  BY <1>a, <1>p DEF Owed, Queued
<1>k. /\ g' \in Graph /\ Whole(g') /\ RegistryExact' /\ Recorded' /\ Downstream'
      /\ Wakes' /\ Fresh' /\ RerunOwed'
      /\ \A i \in 1..depth : g'.computing[i] = g.computing[i] /\ g'.dirty[g.computing[i]] = g.dirty[g.computing[i]]
      /\ \A x \in Slots : g'.dirty[x] => g.dirty[x] /\ x \notin Frames(g, depth)
      /\ \A x \in Computing(g) : x \notin Frames(g, depth) => x \in Computing(g')
  BY <1>n, <1>c, <1>a, <1>o, CutKeeps
<1>m. CutMemos(depth) \subseteq Slots
  BY <1>t, <1>n DEF CutMemos, Frames
<1>vw. /\ view' \in [bound : SUBSET Slots, dirty : SUBSET Slots] /\ view'.dirty \subseteq view'.bound
       /\ view'.bound = view.bound
       /\ view'.dirty = view.dirty \union (g.changed \intersect view.bound)
  BY <1>a DEF TypeOK
<1>ty. TypeOK'
  <2>1. steps' \in 0..(MaxSteps + 1) /\ round' \in [Slots -> 0..MaxDup]
    BY <1>a, SlotsFacts DEF Empty
  <2>2. gate' \in BOOLEAN /\ aborted' \in BOOLEAN
    BY <1>a DEF GatesOpen
  <2>3. base' \in 0..Len(g'.computing)
    BY <1>a, <1>p, <1>n
  <2>4. call' \in [op : {"none", "expose", "snapshot", "diff"},
                   taken : SUBSET Slots, left : SUBSET Slots, again : SUBSET Slots]
    BY <1>a DEF TypeOK, NoIdle
  <2>5. \A S \in {stale', dropped', overtaken', watched', behind', lapsed'} : S \subseteq Slots
    BY <1>a, <1>m DEF TypeOK, LiveOf, Live
  <2> QED BY <1>a, <1>k, <1>vw, <2>1, <2>2, <2>3, <2>4, <2>5 DEF TypeOK
<1>run. Running'
  <2>1. \A i \in 1..depth : i \in 1..Len(g.computing) /\ i # base + 1
    BY <1>t, <1>n, <1>i
  <2>2. \A i \in 1..depth : /\ g.live[g.computing[i]] /\ g.kind[g.computing[i]] = "Computed"
                          /\ g.dirty[g.computing[i]]
    BY <2>1 DEF Running
  <2>3. \A i, j \in 1..depth : g.computing[i] = g.computing[j] => i = j
    BY <2>1 DEF Running
  <2>4. base' \in Nat /\ base' <= Len(g'.computing)
    BY <1>a, <1>p, <1>n
  <2>5. \A i \in 1..Len(g'.computing) :
          /\ g'.live[g'.computing[i]] /\ g'.kind[g'.computing[i]] = "Computed"
          /\ g'.dirty[g'.computing[i]]
    BY <1>p, <1>k, <2>2
  <2>6. \A i, j \in 1..Len(g'.computing) : g'.computing[i] = g'.computing[j] => i = j
    BY <1>p, <1>k, <2>3
  <2> QED BY <1>w, <2>4, <2>5, <2>6 DEF Running
<1>fl. Flushing' /\ Nested' /\ Gates'
  BY <1>a, <1>w DEF Flushing, Nested, Gates, GatesOpen
<1>ca. Calling'
  <2>1. CASE failed
    BY <1>a, <2>1 DEF Calling, NoIdle
  <2>2. CASE ~failed
    <3>0. call' = call
      BY <1>a, <2>2
    <3>2. \A x \in call.taken \ call.left :
            /\ x \in watched \/ call.op = "expose"
            /\ g'.kind[x] = "Computed" /\ g'.dirty[x]
            => x \in Computing(g') \union call.again
      BY <1>p, <1>k DEF Calling, TypeOK
    <3>3. g'.computing # <<>> => g.computing # <<>> /\ g'.computing[1] = g.computing[1]
      <4>1. g'.computing # <<>> => depth # 0
        BY <1>p, StackFacts
      <4>2. depth # 0 => 1 \in 1..depth /\ Len(g.computing) # 0
        BY <1>n
      <4>3. Len(g.computing) # 0 => g.computing # <<>>
        OBVIOUS
      <4> QED BY <4>3, <1>k, <4>1, <4>2
    <3>4. call.op = "expose" =>
            \A x \in call.taken :
              /\ g'.live[x] /\ g'.kind[x] # "Effect"
              /\ g'.computing # <<>> => g'.computing[1] = x
      BY <1>p, <3>3 DEF Calling
    <3> QED BY <3>0, <1>a, <1>w, <3>2, <3>4 DEF Calling
  <2> QED BY <2>1, <2>2
<1>wa. Watching' /\ NoMissedPatch'
  <2>1. Watching'
    BY <1>a, <1>p, <1>k, <1>vw DEF Watching, TypeOK
  <2>2. NoMissedPatch'
    BY <1>a, <1>vw DEF NoMissedPatch, Watching
  <2> QED BY <2>1, <2>2
<1> QED BY <1>ty, <1>k, <1>run, <1>fl, <1>ca, <1>wa

\* Entries move from the queue to the round.
LEMMA FlushRoundKeeps ==
    ASSUME IInv, FlushRound
    PROVE  IInv'
<1> USE DEF IInv
<1>t. g \in Raw
  BY TypeFacts
<1>a. /\ round' = g.queue /\ g' = [g EXCEPT !.queue = Empty]
      /\ steps' = steps /\ base' = base /\ aborted' = aborted /\ gate' = gate
      /\ effects' = effects /\ view' = view /\ call' = call
      /\ deps' = deps /\ stale' = stale /\ dropped' = dropped /\ made' = made
      /\ watched' = watched /\ behind' = behind /\ overtaken' = overtaken /\ lapsed' = lapsed
      /\ g.flushing /\ InRound = {}
  BY DEF FlushRound, Looping, ghost
<1>w. /\ g' \in Raw /\ g'.queue = Empty /\ g'.flushing = g.flushing /\ g'.changed = g.changed
      /\ g'.kind = g.kind /\ g'.len = g.len /\ g'.free = g.free
      /\ g'.dirtyComputeds = g.dirtyComputeds
      /\ g'.live = g.live /\ g'.dirty = g.dirty /\ g'.queued = g.queued
      /\ g'.owner = g.owner /\ g'.owned = g.owned
      /\ g'.sources = g.sources /\ g'.subs = g.subs /\ g'.computing = g.computing
  <2>1. Empty \in [Slots -> Nat]
    BY DEF Empty
  <2> QED BY <1>t, <1>a, <2>1 DEF Raw
<1>x. Whole(g')
  <2>1. Mirror(g) => Mirror(g')
    BY <1>w DEF Mirror
  <2> QED BY <1>w, <2>1, SameShape DEF Whole
<1>o. Owed' = Owed
  <2>1. Queued(g') = {}
    BY <1>w DEF Queued, Empty
  <2>2. InRound' = Queued(g)
    BY <1>a DEF InRound, Queued
  <2> QED BY <1>a, <2>1, <2>2 DEF Owed
<1>ty. TypeOK'
  <2>1. Empty \in [Slots -> 0..MaxDup]
    BY SlotsFacts DEF Empty
  <2>2. g' \in Graph
    BY <1>w, <1>x, <2>1, WholeIsGraph
  <2>3. round' \in [Slots -> 0..MaxDup]
    BY <1>a DEF TypeOK, Graph
  <2> QED BY <1>a, <1>w, <2>2, <2>3 DEF TypeOK
<1>c. /\ Computing(g') = Computing(g) /\ \A kk : LiveOf(g', kk) = LiveOf(g, kk)
      /\ \A n \in Slots : Subtrees(g', n) = Subtrees(g, n)
  BY <1>w DEF Computing, LiveOf, Live, Subtrees, Children
<1>1. Running' /\ Flushing' /\ Gates'
  BY <1>a, <1>w DEF Running, Flushing, Gates
<1>2. Nested'
  <2>1. Owed \subseteq Slots
    BY DEF Owed, Queued, InRound
  <2> QED BY <1>a, <1>w, <1>c, <1>o, <2>1 DEF Nested
<1>3. RegistryExact' /\ Recorded'
  BY <1>a, <1>w, <1>c DEF RegistryExact, Recorded
<1>4. Calling'
  BY <1>a, <1>w, <1>c DEF Calling
<1>5. Watching' /\ NoMissedPatch'
  BY <1>a, <1>w DEF Watching, NoMissedPatch
<1>6. Downstream'
  <2>1. \A m, n \in Slots : Waits(n, m)' <=> Waits(n, m)
    BY <1>w DEF Waits
  <2>2. \A n \in Slots : Due(n)' <=> Due(n)
    BY <1>a, <1>w, <1>c, <1>o DEF Due
  <2> QED BY <1>a, <1>w, <2>1, <2>2 DEF Downstream
<1>7. Wakes' /\ Fresh'
  BY <1>a, <1>w, <1>c, <1>o DEF Wakes, Fresh
<1>8. RerunOwed'
  <2>1. Queued(g') \union InRound' = Queued(g) \union InRound
    BY <1>o DEF Owed
  <2> QED BY <1>a, <1>c, <2>1 DEF RerunOwed
<1> QED BY <1>ty, <1>x, <1>1, <1>2, <1>3, <1>4, <1>5, <1>6, <1>7, <1>8

\* k is h with the run of n started: D went down with its last run, and
\* readers, the node that waits for it or none, read it.
Entered(h, k, n, D, readers) ==
    /\ k \in Raw /\ Whole(k)
    /\ k.kind = h.kind /\ k.queue = h.queue /\ k.changed = h.changed /\ k.flushing = h.flushing
    /\ k.computing = Append(h.computing, n)
    /\ \A m \in Slots :
        /\ k.live[m] = (h.live[m] /\ m \notin D)
        /\ k.dirty[m] = (h.dirty[m] /\ m \notin D)
        /\ k.queued[m] => h.queued[m]
        /\ k.owner[m] = IF m \in D THEN NoOwner ELSE h.owner[m]
        /\ k.sources[m] = IF m \in D \union {n} THEN {}
                          ELSE (IF m \in readers THEN h.sources[m] \union {n} ELSE h.sources[m]) \ D
        /\ k.subs[m] = IF m \in D THEN {}
                       ELSE (IF m = n THEN h.subs[m] \union readers ELSE h.subs[m]) \ (D \union {n})
        /\ k.owned[m] \subseteq h.owned[m]

\* What the ghosts make of it.
Noted(n, D, readers) ==
    /\ deps' = [m \in Slots |-> IF m \in D \union {n} THEN {}
                  ELSE (IF m \in readers THEN deps[m] \union {n} ELSE deps[m]) \ D]
    /\ stale' = stale \ (D \union {n}) /\ dropped' = dropped \ (D \union {n})
    /\ overtaken' = overtaken \ (D \union {n})
    /\ watched' = watched \ D /\ behind' = behind \ D /\ lapsed' = lapsed \ D /\ made' = made

LEMMA BeginKeeps ==
    ASSUME IInv, NEW n \in Slots, NEW D \in SUBSET Slots, NEW readers \in SUBSET Slots,
           g.live[n], n \notin Computing(g), n \notin D, D \intersect Computing(g) = {},
           D \subseteq Live(g), \A d \in D : g.owner[d] # NoOwner,
           \A r \in readers : g.computing # <<>> /\ r = g.computing[Len(g.computing)],
           g.kind[n] = IF g.flushing /\ Len(g.computing) = base THEN "Effect" ELSE "Computed",
           g.kind[n] = "Computed" => g.dirty[n],
           Entered(g, g', n, D, readers), g.kind[n] = "Effect" => ~g'.queued[n],
           Noted(n, D, readers),
           steps' = steps, base' = base, aborted' = aborted, ~aborted,
           g.flushing => steps <= MaxSteps, effects' = effects, view' = view,
           gate' = GatesOpen(g'), round' \in [Slots -> 0..MaxDup],
           Owed' \subseteq Owed, Owed \ {n} \subseteq Owed', ~g.flushing => round' = round,
           call' \in [op : {"none", "expose", "snapshot", "diff"},
                      taken : SUBSET Slots, left : SUBSET Slots, again : SUBSET Slots], Calling'
    PROVE  IInv'
<1> USE DEF IInv
<1>t. /\ g \in Raw
      /\ g.computing \in Seq(Slots) /\ Len(g.computing) \in Nat
      /\ \A i \in 1..Len(g.computing) : g.computing[i] \in Slots
      /\ g.computing = <<>> <=> Len(g.computing) = 0
      /\ Computing(g) = {g.computing[i] : i \in 1..Len(g.computing)}
      /\ base \in Nat /\ base <= Len(g.computing)
  BY TypeFacts
<1>p. /\ g' \in Raw /\ Whole(g')
      /\ g'.kind = g.kind /\ g'.queue = g.queue /\ g'.changed = g.changed
      /\ g'.flushing = g.flushing /\ g'.computing = Append(g.computing, n)
  BY DEF Entered
<1>c. /\ Len(g'.computing) = Len(g.computing) + 1
      /\ g'.computing[Len(g.computing) + 1] = n
      /\ \A i \in 1..Len(g.computing) : g'.computing[i] = g.computing[i]
      /\ Computing(g') = Computing(g) \union {n}
  BY <1>t, <1>p, PushFacts DEF Computing
<1>q. \A m \in Slots :
        /\ g'.live[m] <=> (g.live[m] /\ m \notin D)
        /\ g'.dirty[m] <=> (g.dirty[m] /\ m \notin D)
        /\ g'.queued[m] => g.queued[m]
  <2> SUFFICES ASSUME NEW m \in Slots
               PROVE  /\ g'.live[m] <=> (g.live[m] /\ m \notin D)
                      /\ g'.dirty[m] <=> (g.dirty[m] /\ m \notin D)
                      /\ g'.queued[m] => g.queued[m]
    OBVIOUS
  <2>1. /\ g'.live[m] = (g.live[m] /\ m \notin D)
        /\ g'.dirty[m] = (g.dirty[m] /\ m \notin D)
        /\ g'.queued[m] => g.queued[m]
    BY DEF Entered
  <2> QED BY <2>1, Zenon
<1>e. \A m \in Slots :
        /\ g'.owner[m] = IF m \in D THEN NoOwner ELSE g.owner[m]
        /\ g'.sources[m] = IF m \in D \union {n} THEN {}
                           ELSE (IF m \in readers THEN g.sources[m] \union {n} ELSE g.sources[m]) \ D
        /\ g'.subs[m] = IF m \in D THEN {}
                        ELSE (IF m = n THEN g.subs[m] \union readers ELSE g.subs[m]) \ (D \union {n})
        /\ g'.owned[m] \subseteq g.owned[m]
  BY DEF Entered
<1>g. /\ deps' = [m \in Slots |-> IF m \in D \union {n} THEN {}
                    ELSE (IF m \in readers THEN deps[m] \union {n} ELSE deps[m]) \ D]
      /\ stale' = stale \ (D \union {n}) /\ dropped' = dropped \ (D \union {n})
      /\ overtaken' = overtaken \ (D \union {n})
      /\ watched' = watched \ D /\ behind' = behind \ D /\ lapsed' = lapsed \ D /\ made' = made
  BY DEF Noted
<1>o. \A i \in 1..Len(g.computing) : g.computing[i] \in Slots \ D /\ g.computing[i] # n
  BY <1>t
<1>ty. TypeOK'
  <2>1. g' \in Graph
    BY <1>p, WholeIsGraph DEF TypeOK, Graph
  <2>2. deps' \in [Slots -> SUBSET Slots]
    BY <1>g DEF TypeOK
  <2>3. base' \in 0..Len(g'.computing) /\ gate' \in BOOLEAN
    BY <1>t, <1>c DEF GatesOpen
  <2>4. \A S \in {stale', dropped', overtaken', watched', behind', lapsed'} : S \subseteq Slots
    BY <1>g DEF TypeOK
  <2> QED BY <1>g, <2>1, <2>2, <2>3, <2>4 DEF TypeOK
<1>run. Running'
  <2>1. base' \in Nat /\ base' <= Len(g'.computing)
    BY <1>t, <1>c
  <2>2. ASSUME NEW i \in 1..Len(g'.computing)
        PROVE  /\ g'.live[g'.computing[i]]
               /\ g'.kind[g'.computing[i]] =
                    IF g'.flushing /\ i = base' + 1 THEN "Effect" ELSE "Computed"
               /\ g'.kind[g'.computing[i]] = "Computed" => g'.dirty[g'.computing[i]]
    <3>1. CASE i \in 1..Len(g.computing)
      <4>1. /\ g.live[g.computing[i]]
            /\ g.kind[g.computing[i]] = IF g.flushing /\ i = base + 1 THEN "Effect" ELSE "Computed"
            /\ g.kind[g.computing[i]] = "Computed" => g.dirty[g.computing[i]]
        BY <3>1 DEF Running
      <4>2. g'.computing[i] = g.computing[i] /\ g.computing[i] \in Slots \ D
        BY <1>c, <1>o, <3>1
      <4>3. g'.live[g.computing[i]] /\ (g.dirty[g.computing[i]] => g'.dirty[g.computing[i]])
        BY <1>q, <4>1, <4>2
      <4> QED BY <1>p, <4>1, <4>2, <4>3
    <3>2. CASE i = Len(g.computing) + 1
      <4>1. g'.computing[i] = n
        BY <1>c, <3>2
      <4>2. i = base + 1 <=> Len(g.computing) = base
        BY <1>t, <3>2
      <4> QED BY <1>p, <1>q, <4>1, <4>2
    <3> QED BY <1>t, <1>c, <3>1, <3>2
  <2>3. ASSUME NEW i \in 1..Len(g'.computing), NEW j \in 1..Len(g'.computing),
               g'.computing[i] = g'.computing[j]
        PROVE  i = j
    <3>1. i \in 1..Len(g.computing) \/ i = Len(g.computing) + 1
      BY <1>t, <1>c
    <3>2. j \in 1..Len(g.computing) \/ j = Len(g.computing) + 1
      BY <1>t, <1>c
    <3> QED BY <1>c, <1>o, <2>3, <3>1, <3>2, SMTT(20) DEF Running
  <2> QED BY <2>1, <2>2, <2>3 DEF Running
<1>fl. Flushing'
  BY <1>p DEF Flushing
<1>ne. Nested'
  <2>1. \A x \in Slots : Subtrees(g', x) \subseteq Subtrees(g, x)
    BY <1>t, <1>p, <1>e, SubtreesShrink DEF Whole
  <2>2. Owed \subseteq Slots
    BY DEF Owed, Queued, InRound
  <2>3. \A i \in 1..base : i \in 1..Len(g.computing)
    BY <1>t
  <2> QED BY <1>p, <1>c, <2>1, <2>2, <2>3 DEF Nested
<1>ga. Gates'
  BY DEF Gates, GatesOpen
<1>re. RegistryExact'
  <2>1. \A x \in Slots :
          x \in {y \in LiveOf(g', "Effect") : g'.owner[y] = NoOwner} <=>
            x \in {y \in LiveOf(g, "Effect") : g.owner[y] = NoOwner}
    BY <1>p, <1>q, <1>e DEF LiveOf, Live
  <2>2. /\ {y \in LiveOf(g', "Effect") : g'.owner[y] = NoOwner} \subseteq Slots
        /\ {y \in LiveOf(g, "Effect") : g.owner[y] = NoOwner} \subseteq Slots
    BY DEF LiveOf, Live
  <2>3. {y \in LiveOf(g', "Effect") : g'.owner[y] = NoOwner} =
          {y \in LiveOf(g, "Effect") : g.owner[y] = NoOwner}
    BY <2>1, <2>2
  <2> QED BY <2>3 DEF RegistryExact
<1>li. \A x \in watched' : x \in Slots /\ x \notin D /\ x \in watched /\ g'.live[x]
  BY <1>g, <1>q DEF Watching, TypeOK
<1>wa. Watching'
  BY <1>g, <1>li, <1>p, <1>q DEF Watching
<1>nm. NoMissedPatch'
  <2>1. n \in behind /\ n \notin lapsed => n \in view.dirty \union g.changed
    BY DEF Watching
  <2> QED BY <1>g, <1>p, <2>1 DEF NoMissedPatch
<1>rc. Recorded'
  <2>1. g'.sources \in [Slots -> SUBSET Slots]
    BY <1>p DEF Raw
  <2>2. \A m \in Slots : deps'[m] = g'.sources[m]
    BY <1>g, <1>e DEF Recorded
  <2>3. deps' = [m \in Slots |-> deps'[m]]
    BY <1>g
  <2> QED BY <2>1, <2>2, <2>3 DEF Recorded
<1>do. Downstream'
  <2> SUFFICES ASSUME NEW m \in Slots, NEW r \in Slots, r \in g'.subs[m],
                      g'.kind[m] = "Computed", g'.dirty[m] \/ m \in overtaken'
               PROVE  r \in overtaken' \/ Due(r)' \/ (Waits(r, m)' /\ m \notin overtaken')
    BY DEF Downstream
  <2>1. r \notin D /\ m \notin D /\ r # n /\ (r \in g.subs[m] \/ (m = n /\ r \in readers))
    BY <1>e, ZenonT(40)
  <2>2. CASE r \in g.subs[m]
    <3>1. r \in overtaken \/ Due(r) \/ (Waits(r, m) /\ m \notin overtaken)
      BY <1>p, <1>q, <1>g, <2>2 DEF Downstream
    <3>2. Waits(r, m) => Waits(r, m)'
      <4>1. \A i \in 1..Len(g.computing) - 1 :
              /\ i \in 1..Len(g'.computing) - 1
              /\ i \in 1..Len(g.computing) /\ i + 1 \in 1..Len(g.computing)
        BY <1>t, <1>c
      <4> QED BY <1>c, <4>1 DEF Waits
    <3>3. Due(r) => Due(r)'
      BY <1>p, <1>q, <1>c, <1>g, <2>1 DEF Due
    <3> QED BY <1>g, <2>1, <3>1, <3>2, <3>3
  <2>3. CASE m = n /\ r \in readers
    <3>1. g.computing # <<>> /\ r = g.computing[Len(g.computing)]
      BY <2>3
    <3>2. /\ Len(g.computing) \in 1..Len(g.computing)
          /\ Len(g.computing) \in 1..Len(g'.computing) - 1
      BY <1>t, <1>c, <3>1
    <3>3. Waits(r, m)'
      BY <1>c, <2>3, <3>1, <3>2 DEF Waits
    <3> QED BY <1>g, <2>3, <3>3
  <2> QED BY <2>1, <2>2, <2>3
<1>wk. Wakes'
  BY <1>p, <1>q, <1>g DEF Wakes, LiveOf, Live
<1>fr. Fresh'
  BY <1>p, <1>q, <1>g, <1>c DEF Fresh, LiveOf, Live
<1>ro. RerunOwed'
  BY <1>p, <1>q, <1>g DEF RerunOwed, LiveOf, Live, Owed
<1> QED BY <1>p, <1>ty, <1>run, <1>fl, <1>ne, <1>ga, <1>re, <1>wa, <1>rc, <1>do, <1>wk, <1>fr,
           <1>ro, <1>nm

\* A node that runs once a node below it read it.
LEMMA RecomputeKeeps ==
    ASSUME Careful, IInv, UserRuns, NEW n \in Slots,
           n \in Live(g) \ (LiveOf(g, "Effect") \union Computing(g)), Recompute(n),
           UNCHANGED flush, effects' = effects, view' = view, call' = call
    PROVE  IInv'
<1> USE DEF IInv
<1> DEFINE D == Subtrees(g, n)
           h == record_dependency(g, n)
           readers == IF g.computing = <<>> THEN {} ELSE {Last(g.computing)}
<1>t. /\ g \in Raw
      /\ g.computing \in Seq(Slots) /\ Len(g.computing) \in Nat
      /\ \A i \in 1..Len(g.computing) : g.computing[i] \in Slots
      /\ g.computing = <<>> <=> Len(g.computing) = 0
      /\ Computing(g) = {g.computing[i] : i \in 1..Len(g.computing)}
      /\ base \in Nat /\ base <= Len(g.computing)
  BY TypeFacts
<1>u. round' = round /\ steps' = steps /\ base' = base /\ aborted' = aborted
  BY DEF flush
<1>k. g.live[n] /\ n \notin Computing(g) /\ g.kind[n] = "Computed" /\ g.dirty[n]
  <2>1. g.kind[n] \in NodeKind
    BY <1>t DEF Raw
  <2> QED BY <2>1 DEF Recompute, Live, LiveOf, Fresh, NodeKind
<1>b. (g.flushing => Len(g.computing) > base) /\ ~aborted /\ (g.flushing => steps <= MaxSteps)
  BY <1>t DEF UserRuns, InBody, AtTop, Flushing
<1>l. g.computing # <<>> =>
        /\ Last(g.computing) = g.computing[Len(g.computing)] /\ Len(g.computing) \in 1..Len(g.computing)
        /\ Last(g.computing) \in Slots /\ Last(g.computing) \in Computing(g)
        /\ g.live[Last(g.computing)] /\ g.kind[Last(g.computing)] # "Signal"
  BY <1>t, StackFacts DEF Running
<1>1. Linked(g, h, n)
  BY <1>t, <1>l, <1>k, RecordFacts
<1>2. Whole(h)
  BY <1>t, <1>1, <1>l, <1>k, LinkedWhole
<1>3. g' = begin_compute(h, n)
  BY DEF Recompute
<1> HIDE DEF h
<1>4. /\ h \in Raw
      /\ h.kind = g.kind /\ h.len = g.len /\ h.queue = g.queue
      /\ h.changed = g.changed /\ h.flushing = g.flushing /\ h.computing = g.computing
      /\ h.live = g.live /\ h.dirty = g.dirty /\ h.queued = g.queued
      /\ h.owner = g.owner /\ h.owned = g.owned
  BY <1>1 DEF Linked
<1>5. \A m \in Slots :
        /\ h.sources[m] = IF m \in readers THEN g.sources[m] \union {n} ELSE g.sources[m]
        /\ h.subs[m] = IF m = n THEN g.subs[m] \union readers ELSE g.subs[m]
  <2>1. g.subs \in [Slots -> SUBSET Slots] /\ g.sources \in [Slots -> SUBSET Slots]
    BY <1>t DEF Raw
  <2>2. \A m \in Slots :
        /\ h.sources[m] = IF g.computing # <<>> /\ m = Last(g.computing)
                          THEN g.sources[m] \union {n} ELSE g.sources[m]
        /\ h.subs[m] = IF g.computing # <<>> /\ m = n
                       THEN g.subs[m] \union {Last(g.computing)} ELSE g.subs[m]
    BY <1>1 DEF Linked
  <2> QED BY <2>1, <2>2
<1>6. Begun(h, g', n)
  BY <1>4, <1>2, <1>3, BeginFacts
<1>7. Subtrees(h, n) = D
  BY <1>4 DEF Subtrees, Children
<1>8. /\ Doomed(g, D) /\ n \notin D
      /\ \A m \in D : g.owner[m] \in D \union {n}
  BY <1>t, SubtreesDoomed
<1>d. /\ D \in SUBSET Slots /\ D \subseteq Live(g) /\ D \intersect Computing(g) = {}
      /\ \A d \in D : g.owner[d] # NoOwner
  BY <1>8, SlotsFacts DEF Doomed, Recompute, MayTakeDown, Careful
<1> HIDE DEF D
<1>r. readers \in SUBSET Slots /\ \A r \in readers : g.computing # <<>> /\ r = g.computing[Len(g.computing)]
  BY <1>l
<1> HIDE DEF readers
<1>9. Entered(g, g', n, D, readers)
  <2>1. /\ g' \in Raw /\ Whole(g') /\ g'.kind = g.kind /\ g'.queue = g.queue
        /\ g'.changed = g.changed /\ g'.flushing = g.flushing
        /\ g'.computing = Append(g.computing, n)
    BY <1>6, <1>4 DEF Begun
  <2>2. \A m \in Slots :
          /\ g'.live[m] = (g.live[m] /\ m \notin D)
          /\ g'.dirty[m] = (g.dirty[m] /\ m \notin D)
          /\ g'.queued[m] = (g.queued[m] /\ m \notin D)
          /\ g'.owner[m] = IF m \in D THEN NoOwner ELSE g.owner[m]
          /\ g'.owned[m] \subseteq g.owned[m]
          /\ g'.sources[m] = IF m \in D \union {n} THEN {} ELSE h.sources[m] \ D
          /\ g'.subs[m] = IF m \in D THEN {} ELSE h.subs[m] \ (D \union {n})
    BY <1>6, <1>4, <1>7, ZenonT(40) DEF Begun
  <2>3. \A m \in Slots : g'.queued[m] => g.queued[m]
    BY <2>2, Zenon
  <2> QED BY <2>1, <2>2, <2>3, <1>5 DEF Entered
<1>10. Live(g) \ Live(g') = D
  <2>1. \A m \in Slots : g'.live[m] = (g.live[m] /\ m \notin D)
    BY <1>9 DEF Entered
  <2> QED BY <2>1, <1>d DEF Live
<1>11. Noted(n, D, readers)
  <2>1. /\ deps' = [m \in Slots |-> IF m \in (D \union {n}) \union {} THEN {} ELSE ReadBy(n)[m] \ D]
        /\ stale' = stale \ (D \union {n}) /\ dropped' = (dropped \ (D \union {n})) \union {}
        /\ overtaken' = overtaken \ (D \union {n})
        /\ watched' = watched \ D /\ behind' = behind \ D /\ lapsed' = lapsed \ D /\ made' = made
    BY <1>10, <1>3 DEF Recompute, Forget, h
  <2>2. \A m \in Slots : ReadBy(n)[m] = IF m \in readers THEN deps[m] \union {n} ELSE deps[m]
    BY DEF ReadBy, readers
  <2> QED BY <2>1, <2>2 DEF Noted
<1>12. Computing(g') = Computing(g) \union {n}
       /\ (g.computing # <<>> => g'.computing[1] = g.computing[1])
  <2>1. g'.computing = Append(g.computing, n)
    BY <1>9 DEF Entered
  <2>2. g.computing # <<>> => 1 \in 1..Len(g.computing)
    BY <1>l, <1>t
  <2> QED BY <1>t, <2>1, <2>2, PushFacts DEF Computing
<1>13. Calling'
  <2>q. /\ g'.kind = g.kind /\ g'.flushing = g.flushing
        /\ \A m \in Slots : g'.live[m] = (g.live[m] /\ m \notin D) /\ g'.dirty[m] = (g.dirty[m] /\ m \notin D)
    BY <1>9 DEF Entered
  <2>1. call.op = "expose" => g.computing # <<>> /\ g.computing[1] \in Computing(g)
    <3>1. call.op = "expose" => g.computing # <<>>
      BY <1>t DEF UserRuns, InBody, AtTop
    <3>2. g.computing # <<>> => 1 \in 1..Len(g.computing)
      BY <1>t
    <3> QED BY <1>t, <3>1, <3>2
  <2>2. call.op = "expose" =>
          \A x \in call.taken :
            /\ g'.live[x] /\ g'.kind[x] # "Effect"
            /\ g'.computing # <<>> => g'.computing[1] = x
    BY <1>d, <1>12, <2>q, <2>1, ZenonT(40) DEF Calling, TypeOK
  <2>3. \A x \in call.taken : x \in Slots
    BY DEF TypeOK
  <2>4. /\ call.op = "none" => call.taken = {} /\ call.left = {}
        /\ call.op # "none" => (g'.flushing => base' > 0)
        /\ call.op = "expose" => call.left \subseteq call.taken /\ \A x, y \in call.taken : x = y
    BY <1>u, <2>q DEF Calling
  <2>5. \A x \in call.taken \ call.left :
          /\ x \in watched' \/ call.op = "expose"
          /\ g'.kind[x] = "Computed" /\ g'.dirty[x]
          => x \in Computing(g') \union call.again
    BY <1>11, <1>12, <2>3, <2>q DEF Calling, Noted
  <2> QED BY <2>2, <2>4, <2>5 DEF Calling
<1>14. /\ gate' = GatesOpen(g') /\ round' \in [Slots -> 0..MaxDup]
       /\ call' \in [op : {"none", "expose", "snapshot", "diff"},
                     taken : SUBSET Slots, left : SUBSET Slots, again : SUBSET Slots]
  BY <1>u, <1>3 DEF Recompute, TypeOK, h
<1>15. Owed' = Owed
  <2>1. g'.queue = g.queue
    BY <1>9 DEF Entered
  <2> QED BY <1>u, <2>1 DEF Owed, Queued, InRound
<1>16. g.kind[n] = IF g.flushing /\ Len(g.computing) = base THEN "Effect" ELSE "Computed"
  BY <1>k, <1>b, <1>t
<1>17. Owed' \subseteq Owed /\ Owed \ {n} \subseteq Owed'
  BY <1>15
<1>18. g.kind[n] # "Effect"
  BY <1>k
<1> QED BY <1>k, <1>8, <1>d, <1>r, <1>16, <1>18, <1>9, <1>11, <1>u, <1>b, <1>14, <1>17, <1>13, BeginKeeps

\* A node that a view method refreshes.
LEMMA CallReadDirtyKeeps ==
    ASSUME IInv, NEW n \in Slots, CallRead(n), n \in LiveOf(g, "Computed"), g.dirty[n]
    PROVE  IInv'
<1> USE DEF IInv
<1> DEFINE D == Subtrees(g, n)
<1>t. g \in Raw /\ g.computing \in Seq(Slots)
  BY TypeFacts
<1>1. /\ n \in call.left /\ g.computing = <<>> /\ ~g.flushing
      /\ call' = [call EXCEPT !.left = @ \ {n}]
      /\ g' = begin_compute(g, n) /\ gate' = GatesOpen(g')
      /\ Forget(deps, g', {n}, {})
      /\ round' = round /\ steps' = steps /\ base' = base /\ aborted' = aborted
      /\ effects' = effects /\ view' = view
  BY DEF CallRead, flush
<1>2. g.live[n] /\ g.kind[n] = "Computed" /\ Computing(g) = {} /\ Len(g.computing) = 0
  BY <1>1, TypeFacts DEF LiveOf, Live
<1>6. Begun(g, g', n)
  BY <1>t, <1>1, BeginFacts
<1>8. /\ Doomed(g, D) /\ n \notin D
      /\ \A m \in D : g.owner[m] \in D \union {n}
  BY <1>t, SubtreesDoomed
<1>d. /\ D \in SUBSET Slots /\ D \subseteq Live(g) /\ D \intersect Computing(g) = {}
      /\ \A d \in D : g.owner[d] # NoOwner
  BY <1>2, <1>8, SlotsFacts DEF Doomed
<1>9. Entered(g, g', n, D, {})
  <2>1. /\ g' \in Raw /\ Whole(g') /\ g'.kind = g.kind /\ g'.queue = g.queue
        /\ g'.changed = g.changed /\ g'.flushing = g.flushing
        /\ g'.computing = Append(g.computing, n)
    BY <1>6 DEF Begun
  <2>2. \A m \in Slots :
          /\ g'.live[m] = (g.live[m] /\ m \notin D)
          /\ g'.dirty[m] = (g.dirty[m] /\ m \notin D)
          /\ g'.queued[m] = (g.queued[m] /\ m \notin D)
          /\ g'.owner[m] = IF m \in D THEN NoOwner ELSE g.owner[m]
          /\ g'.owned[m] \subseteq g.owned[m]
          /\ g'.sources[m] = IF m \in D \union {n} THEN {} ELSE g.sources[m] \ D
          /\ g'.subs[m] = IF m \in D THEN {} ELSE g.subs[m] \ (D \union {n})
    BY <1>6 DEF Begun
  <2> HIDE DEF D
  <2>3. \A m \in Slots : g'.queued[m] => g.queued[m]
    BY <2>2, Zenon
  <2>4. \A m \in Slots : g.subs[m] \union {} = g.subs[m]
    BY <1>t DEF Raw
  <2> QED BY <2>1, <2>2, <2>3, <2>4 DEF Entered
<1> HIDE DEF D
<1>10. Live(g) \ Live(g') = D
  <2>1. \A m \in Slots : g'.live[m] = (g.live[m] /\ m \notin D)
    BY <1>9 DEF Entered
  <2> QED BY <2>1, <1>d DEF Live
<1>11. Noted(n, D, {})
  <2>1. /\ deps' = [m \in Slots |-> IF m \in (D \union {n}) \union {} THEN {} ELSE deps[m] \ D]
        /\ stale' = stale \ (D \union {n}) /\ dropped' = (dropped \ (D \union {n})) \union {}
        /\ overtaken' = overtaken \ (D \union {n})
        /\ watched' = watched \ D /\ behind' = behind \ D /\ lapsed' = lapsed \ D /\ made' = made
    BY <1>1, <1>10 DEF Forget
  <2> QED BY <2>1 DEF Noted
<1>12. Computing(g') = {n} /\ g'.computing[1] = n
  <2>1. g'.computing = Append(g.computing, n)
    BY <1>9 DEF Entered
  <2> QED BY <1>t, <1>2, <2>1, PushFacts DEF Computing
<1>14. /\ gate' = GatesOpen(g') /\ round' \in [Slots -> 0..MaxDup] /\ ~aborted
       /\ call' \in [op : {"none", "expose", "snapshot", "diff"},
                     taken : SUBSET Slots, left : SUBSET Slots, again : SUBSET Slots]
       /\ call'.op = call.op /\ call'.taken = call.taken /\ call'.left = call.left \ {n}
       /\ call'.again = call.again
  BY <1>1 DEF TypeOK, Flushing
<1>13. Calling'
  <2>q. /\ g'.kind = g.kind /\ g'.flushing = g.flushing
        /\ \A m \in Slots : g'.live[m] = (g.live[m] /\ m \notin D) /\ g'.dirty[m] = (g.dirty[m] /\ m \notin D)
    BY <1>9 DEF Entered
  <2>2. call.op = "expose" =>
          \A x \in call.taken :
            /\ g'.live[x] /\ g'.kind[x] # "Effect"
            /\ g'.computing # <<>> => g'.computing[1] = x
    <3>1. call.op = "expose" => n \in call.taken /\ \A x \in call.taken : x = n
      BY <1>1 DEF Calling
    <3>2. g'.live[n] /\ g'.kind[n] # "Effect"
      BY <1>2, <1>8, <2>q
    <3> QED BY <1>12, <3>1, <3>2
  <2>3. \A x \in call.taken : x \in Slots
    BY DEF TypeOK
  <2>4. /\ call.op # "none" /\ ~g'.flushing
        /\ call.op = "expose" => call.left \subseteq call.taken /\ \A x, y \in call.taken : x = y
    BY <1>1, <2>q DEF Calling
  <2>5. \A x \in call.taken \ call'.left :
          /\ x \in watched' \/ call.op = "expose"
          /\ g'.kind[x] = "Computed" /\ g'.dirty[x]
          => x \in Computing(g') \union call.again
    <3> SUFFICES ASSUME NEW x \in call.taken \ call'.left, x # n,
                        x \in watched' \/ call.op = "expose",
                        g'.kind[x] = "Computed", g'.dirty[x]
                 PROVE  x \in call.again
      BY <1>12
    <3>1. x \in call.taken \ call.left
      BY <1>14
    <3>2. x \in watched \/ call.op = "expose"
      BY <1>11 DEF Noted
    <3>3. g.kind[x] = "Computed" /\ g.dirty[x]
      BY <2>3, <2>q
    <3> QED BY <1>2, <3>1, <3>2, <3>3 DEF Calling
  <2> QED BY <1>14, <2>2, <2>4, <2>5 DEF Calling
<1>15. Owed' = Owed
  <2>1. g'.queue = g.queue
    BY <1>9 DEF Entered
  <2> QED BY <1>1, <2>1 DEF Owed, Queued, InRound
<1>16. g.kind[n] = IF g.flushing /\ Len(g.computing) = base THEN "Effect" ELSE "Computed"
  BY <1>1, <1>2
<1>17. Owed' \subseteq Owed /\ Owed \ {n} \subseteq Owed'
  BY <1>15
<1>18. g.kind[n] # "Effect" /\ n \notin Computing(g)
  BY <1>2
<1> QED BY <1>2, <1>8, <1>d, <1>16, <1>18, <1>9, <1>11, <1>1, <1>14, <1>17, <1>13, BeginKeeps

\* k is h without the queued flag of e.
Unqueued(h, k, e) ==
    /\ k \in Raw /\ Whole(k)
    /\ k.kind = h.kind /\ k.len = h.len /\ k.queue = h.queue
    /\ k.changed = h.changed /\ k.flushing = h.flushing /\ k.computing = h.computing
    /\ k.live = h.live /\ k.dirty = h.dirty
    /\ k.owner = h.owner /\ k.owned = h.owned /\ k.sources = h.sources /\ k.subs = h.subs
    /\ ~k.queued[e] /\ \A m \in Slots : k.queued[m] => h.queued[m]

LEMMA UnqueuedWhole ==
    ASSUME NEW h \in Raw, Whole(h), NEW e \in Slots
    PROVE  Unqueued(h, [h EXCEPT !.queued[e] = FALSE], e)
<1> DEFINE k == [h EXCEPT !.queued[e] = FALSE]
<1>1. h.queued \in [Slots -> BOOLEAN]
  BY DEF Raw
<1>2. /\ k \in Raw
      /\ k.kind = h.kind /\ k.len = h.len /\ k.queue = h.queue /\ k.free = h.free
      /\ k.changed = h.changed /\ k.flushing = h.flushing /\ k.computing = h.computing
      /\ k.live = h.live /\ k.dirty = h.dirty /\ k.dirtyComputeds = h.dirtyComputeds
      /\ k.owner = h.owner /\ k.owned = h.owned /\ k.sources = h.sources /\ k.subs = h.subs
      /\ k.queued = [h.queued EXCEPT ![e] = FALSE]
  BY <1>1 DEF Raw
<1> HIDE DEF k
<1>3. ~k.queued[e] /\ \A m \in Slots : k.queued[m] => h.queued[m]
  BY <1>1, <1>2
<1>4. Mirror(k) /\ Tree(k) /\ Rooted(k)
  BY <1>2 DEF Whole, Mirror, Tree, Rooted
<1>5. Freed(k) /\ Counted(k)
  <2>1. Live(k) = Live(h) /\ DirtyMemos(k) = DirtyMemos(h)
    BY <1>2 DEF Live, DirtyMemos
  <2> QED BY <1>2, <2>1 DEF Whole, Freed, Counted
<1>6. Unmarked(k)
  BY <1>2, <1>3 DEF Whole, Unmarked
<1>7. Unqueued(h, k, e)
  BY <1>2, <1>3, <1>4, <1>5, <1>6 DEF Whole, Unqueued
<1> QED BY <1>7 DEF k

\* The entry that a flush takes stands for a node whose subtree holds none of
\* the bodies the flush runs under.
LEMMA EntryFacts ==
    ASSUME IInv, Looping, NEW e \in InRound, round' = [round EXCEPT ![e] = @ - 1]
    PROVE  /\ e \in Slots /\ g.flushing /\ Len(g.computing) = base
           /\ Subtrees(g, e) \intersect Computing(g) = {}
           /\ round' \in [Slots -> 0..MaxDup]
           /\ \A x \in Slots : (x \in InRound' => x \in InRound) /\ (x \in InRound /\ x # e => x \in InRound')
<1> USE DEF IInv
<1>1. e \in Slots /\ round[e] > 0
  BY DEF InRound
<1>2. g.flushing /\ Len(g.computing) = base
  BY TypeFacts DEF Looping, InBody
<1>3. Subtrees(g, e) \intersect Computing(g) = {}
  <2>1. Computing(g) = {g.computing[i] : i \in 1..Len(g.computing)}
    BY TypeFacts
  <2>2. \A i \in 1..base : g.computing[i] \notin Subtrees(g, e)
    BY <1>2 DEF Nested, Owed
  <2> QED BY <1>2, <2>1, <2>2
<1>4. round \in [Slots -> 0..MaxDup]
  BY DEF TypeOK
<1>5. round' \in [Slots -> 0..MaxDup]
  BY <1>1, <1>4, SlotsFacts
<1>6. \A x \in Slots : (x \in InRound' => x \in InRound) /\ (x \in InRound /\ x # e => x \in InRound')
  BY <1>1, <1>4 DEF InRound
<1> QED BY <1>1, <1>2, <1>3, <1>5, <1>6

\* An entry for a dead slot, or for one that holds something else by now.
LEMMA TakeNoneKeeps ==
    ASSUME IInv, Looping, NEW e \in InRound, e \notin LiveOf(g, "Effect"),
           round' = [round EXCEPT ![e] = @ - 1], UNCHANGED <<g, steps, gate, ghost>>,
           UNCHANGED <<base, aborted, effects, view, call>>
    PROVE  IInv'
<1> USE DEF IInv
<1>1. /\ e \in Slots /\ g.flushing /\ Len(g.computing) = base
      /\ round' \in [Slots -> 0..MaxDup]
      /\ \A x \in Slots : (x \in InRound' => x \in InRound) /\ (x \in InRound /\ x # e => x \in InRound')
  BY EntryFacts
<1>2. /\ g' = g /\ steps' = steps /\ gate' = gate /\ base' = base /\ aborted' = aborted
      /\ effects' = effects /\ view' = view /\ call' = call
      /\ deps' = deps /\ stale' = stale /\ dropped' = dropped /\ made' = made
      /\ watched' = watched /\ behind' = behind /\ overtaken' = overtaken /\ lapsed' = lapsed
  BY DEF ghost
<1>3. Owed' \subseteq Owed /\ Owed \ {e} \subseteq Owed' /\ Owed \subseteq Slots
  BY <1>1, <1>2 DEF Owed, Queued, InRound
<1>4. TypeOK'
  BY <1>1, <1>2 DEF TypeOK
<1>5. Whole(g') /\ Running' /\ Gates' /\ RegistryExact' /\ Recorded' /\ Fresh' /\ NoMissedPatch'
  BY <1>2 DEF Running, Gates, RegistryExact, Recorded, Fresh, NoMissedPatch
<1>6. Calling' /\ Watching'
  BY <1>2 DEF Calling, Watching
<1>7. Flushing' /\ Nested'
  BY <1>1, <1>2, <1>3 DEF Flushing, Nested
<1>8. Downstream'
  <2>1. \A m, n \in Slots : Waits(n, m)' <=> Waits(n, m)
    BY <1>2 DEF Waits
  <2>2. \A m, n \in Slots : n \in g.subs[m] => n # e \/ g.kind[n] = "Computed"
    <3>1. \A n \in Slots : g.kind[n] \in {"Signal", "Computed", "Effect"}
      BY DEF TypeOK, Graph, NodeKind
    <3> QED BY <3>1 DEF Whole, Mirror, LiveOf, Live
  <2>3. \A n \in Slots : n # e \/ g.kind[n] = "Computed" => (Due(n) => Due(n)')
    BY <1>2, <1>3 DEF Due
  <2> QED BY <1>2, <2>1, <2>2, <2>3 DEF Downstream
<1>9. Wakes' /\ RerunOwed'
  <2>1. Owed' = Queued(g') \union InRound' /\ Owed = Queued(g) \union InRound
    BY DEF Owed
  <2> QED BY <1>2, <1>3, <2>1 DEF Wakes, RerunOwed
<1> QED BY <1>4, <1>5, <1>6, <1>7, <1>8, <1>9

LEMMA TakeRunKeeps ==
    ASSUME IInv, Looping, steps <= MaxSteps, NEW e \in InRound, e \in LiveOf(g, "Effect"), ~aborted,
           Take(e), UNCHANGED <<base, aborted, effects, view, call>>
    PROVE  IInv'
<1> USE DEF IInv
<1> DEFINE D == Subtrees(g, e)
           h == [g EXCEPT !.queued[e] = FALSE]
<1>t. g \in Raw /\ g.computing \in Seq(Slots) /\ Len(g.computing) \in Nat
      /\ Computing(g) = {g.computing[i] : i \in 1..Len(g.computing)}
  BY TypeFacts
<1>1. /\ e \in Slots /\ g.flushing /\ Len(g.computing) = base
      /\ D \intersect Computing(g) = {}
      /\ round' \in [Slots -> 0..MaxDup]
      /\ \A x \in Slots : (x \in InRound' => x \in InRound) /\ (x \in InRound /\ x # e => x \in InRound')
  BY EntryFacts DEF Take
<1>2. g.live[e] /\ g.kind[e] = "Effect"
  BY DEF LiveOf, Live
<1>3. e \notin Computing(g)
  <2>1. \A i \in 1..Len(g.computing) : g.kind[g.computing[i]] = "Computed"
    <3>1. \A i \in 1..Len(g.computing) : i # base + 1
      BY <1>t, <1>1
    <3> QED BY <3>1 DEF Running
  <2> QED BY <1>t, <1>2, <2>1
<1>5. /\ h = [g EXCEPT !.queued[e] = FALSE] /\ g' = begin_compute(h, e)
      /\ gate' = GatesOpen(g') /\ Forget(deps, g', {e}, {}) /\ steps' = steps
  BY DEF Take
<1>0. Unqueued(g, h, e)
  BY <1>t, <1>1, UnqueuedWhole
<1> HIDE DEF h
<1>4. /\ h \in Raw /\ Whole(h)
      /\ h.kind = g.kind /\ h.len = g.len /\ h.queue = g.queue
      /\ h.changed = g.changed /\ h.flushing = g.flushing /\ h.computing = g.computing
      /\ h.live = g.live /\ h.dirty = g.dirty
      /\ h.owner = g.owner /\ h.owned = g.owned /\ h.sources = g.sources /\ h.subs = g.subs
      /\ ~h.queued[e] /\ \A m \in Slots : h.queued[m] => g.queued[m]
  BY <1>0 DEF Unqueued
<1>6. Begun(h, g', e)
  BY <1>1, <1>4, <1>5, BeginFacts
<1>7. Subtrees(h, e) = D
  BY <1>4 DEF Subtrees, Children
<1>8. /\ Doomed(g, D) /\ e \notin D
      /\ \A m \in D : g.owner[m] \in D \union {e}
  BY <1>t, <1>1, SubtreesDoomed
<1>d. /\ D \in SUBSET Slots /\ D \subseteq Live(g) /\ \A d \in D : g.owner[d] # NoOwner
  BY <1>1, <1>8, SlotsFacts DEF Doomed
<1> HIDE DEF D
<1>9. Entered(g, g', e, D, {}) /\ ~g'.queued[e]
  <2>1. /\ g' \in Raw /\ Whole(g') /\ g'.kind = g.kind /\ g'.queue = g.queue
        /\ g'.changed = g.changed /\ g'.flushing = g.flushing
        /\ g'.computing = Append(g.computing, e)
    BY <1>6, <1>4 DEF Begun
  <2>2. \A m \in Slots :
          /\ g'.live[m] = (g.live[m] /\ m \notin D)
          /\ g'.dirty[m] = (g.dirty[m] /\ m \notin D)
          /\ g'.queued[m] = (h.queued[m] /\ m \notin D)
          /\ g'.owner[m] = IF m \in D THEN NoOwner ELSE g.owner[m]
          /\ g'.owned[m] \subseteq g.owned[m]
          /\ g'.sources[m] = IF m \in D \union {e} THEN {} ELSE g.sources[m] \ D
          /\ g'.subs[m] = IF m \in D THEN {} ELSE g.subs[m] \ (D \union {e})
    BY <1>6, <1>4, <1>7, ZenonT(40) DEF Begun
  <2>3. (\A m \in Slots : g'.queued[m] => g.queued[m]) /\ ~g'.queued[e]
    BY <1>1, <1>4, <2>2, Zenon
  <2>4. \A m \in Slots : g.subs[m] \union {} = g.subs[m]
    BY <1>t DEF Raw
  <2> QED BY <2>1, <2>2, <2>3, <2>4 DEF Entered
<1>10. Live(g) \ Live(g') = D
  <2>1. \A m \in Slots : g'.live[m] = (g.live[m] /\ m \notin D)
    BY <1>9 DEF Entered
  <2> QED BY <2>1, <1>d DEF Live
<1>11. Noted(e, D, {})
  <2>1. /\ deps' = [m \in Slots |-> IF m \in (D \union {e}) \union {} THEN {} ELSE deps[m] \ D]
        /\ stale' = stale \ (D \union {e}) /\ dropped' = (dropped \ (D \union {e})) \union {}
        /\ overtaken' = overtaken \ (D \union {e})
        /\ watched' = watched \ D /\ behind' = behind \ D /\ lapsed' = lapsed \ D /\ made' = made
    BY <1>5, <1>10 DEF Forget
  <2> QED BY <2>1 DEF Noted
<1>12. /\ Computing(g') = Computing(g) \union {e}
       /\ g.computing # <<>> => g'.computing[1] = g.computing[1] /\ g.computing[1] \in Computing(g)
  <2>1. g'.computing = Append(g.computing, e)
    BY <1>9 DEF Entered
  <2>2. g.computing # <<>> => 1 \in 1..Len(g.computing)
    BY <1>t
  <2>3. g.computing # <<>> => g.computing[1] \in Computing(g)
    BY <1>t, <2>2
  <2>4. Computing(g') = Computing(g) \union {e}
    BY <1>1, <1>t, <2>1, PushFacts DEF Computing
  <2>5. g.computing # <<>> => g'.computing[1] = g.computing[1]
    BY <1>1, <1>t, <2>1, <2>2, PushFacts
  <2> QED BY <2>3, <2>4, <2>5
<1>13. Calling'
  <2>q. /\ g'.kind = g.kind /\ g'.flushing = g.flushing
        /\ \A m \in Slots : g'.live[m] = (g.live[m] /\ m \notin D) /\ g'.dirty[m] = (g.dirty[m] /\ m \notin D)
    BY <1>9 DEF Entered
  <2>1. call.op = "expose" => g.computing # <<>>
    BY <1>1 DEF Calling
  <2>2. call.op = "expose" =>
          \A x \in call.taken :
            /\ g'.live[x] /\ g'.kind[x] # "Effect"
            /\ g'.computing # <<>> => g'.computing[1] = x
    <3>1. call.op = "expose" =>
            \A x \in call.taken : x = g.computing[1] /\ x \in Slots /\ g.live[x] /\ g.kind[x] # "Effect"
      BY <2>1 DEF Calling, TypeOK
    <3>2. call.op = "expose" => g.computing[1] \notin D /\ g'.computing[1] = g.computing[1]
      BY <1>1, <1>12, <2>1
    <3> QED BY <2>q, <3>1, <3>2
  <2>3. \A x \in call.taken : x \in Slots
    BY DEF TypeOK
  <2>4. /\ call.op = "none" => call.taken = {} /\ call.left = {}
        /\ call.op # "none" => (g'.flushing => base' > 0)
        /\ call.op = "expose" => call.left \subseteq call.taken /\ \A x, y \in call.taken : x = y
    BY <2>q DEF Calling
  <2>5. \A x \in call.taken \ call.left :
          /\ x \in watched' \/ call.op = "expose"
          /\ g'.kind[x] = "Computed" /\ g'.dirty[x]
          => x \in Computing(g') \union call.again
    BY <1>11, <1>12, <2>3, <2>q DEF Calling, Noted
  <2> QED BY <2>2, <2>4, <2>5 DEF Calling
<1>14. /\ base' = base /\ aborted' = aborted /\ effects' = effects /\ view' = view
       /\ call' \in [op : {"none", "expose", "snapshot", "diff"},
                     taken : SUBSET Slots, left : SUBSET Slots, again : SUBSET Slots]
  BY DEF TypeOK
<1>15. Owed' \subseteq Owed /\ Owed \ {e} \subseteq Owed'
  <2>1. g'.queue = g.queue
    BY <1>9 DEF Entered
  <2> QED BY <1>1, <2>1 DEF Owed, Queued, InRound
<1>16. g.kind[e] = IF g.flushing /\ Len(g.computing) = base THEN "Effect" ELSE "Computed"
  BY <1>1, <1>2
<1>17. g.kind[e] # "Computed"
  BY <1>2
<1>18. gate' = GatesOpen(g') /\ steps' = steps
  BY <1>5
<1> QED BY <1>18, <1>1, <1>2, <1>3, <1>8, <1>d, <1>16, <1>17, <1>9, <1>11, <1>14, <1>15, <1>13, BeginKeeps

\* After an abort the flush begins and ends the runs of what it takes.
LEMMA TakeSkipKeeps ==
    ASSUME IInv, Looping, steps <= MaxSteps, NEW e \in InRound, e \in LiveOf(g, "Effect"), aborted,
           Take(e), UNCHANGED <<base, aborted, effects, view, call>>
    PROVE  IInv'
<1> USE DEF IInv
<1> DEFINE D == Subtrees(g, e)
           h == [g EXCEPT !.queued[e] = FALSE]
           k == begin_compute(h, e)
<1>t. /\ g \in Raw /\ g.computing \in Seq(Slots) /\ Len(g.computing) \in Nat
      /\ \A i \in 1..Len(g.computing) : g.computing[i] \in Slots
      /\ g.computing = <<>> <=> Len(g.computing) = 0
      /\ Computing(g) = {g.computing[i] : i \in 1..Len(g.computing)}
  BY TypeFacts
<1>1. /\ e \in Slots /\ g.flushing /\ Len(g.computing) = base
      /\ D \intersect Computing(g) = {}
      /\ round' \in [Slots -> 0..MaxDup]
      /\ \A x \in Slots : (x \in InRound' => x \in InRound) /\ (x \in InRound /\ x # e => x \in InRound')
  BY EntryFacts DEF Take
<1>2. g.live[e] /\ g.kind[e] = "Effect"
  BY DEF LiveOf, Live
<1>3. e \notin Computing(g)
  <2>1. \A i \in 1..Len(g.computing) : g.kind[g.computing[i]] = "Computed"
    <3>1. \A i \in 1..Len(g.computing) : i # base + 1
      BY <1>t, <1>1
    <3> QED BY <3>1 DEF Running
  <2> QED BY <1>t, <1>2, <2>1
<1>5. /\ g' = end_compute(k, e) /\ gate' = gate /\ steps' = steps + 1
      /\ Forget(deps, k, {}, {e})
  BY DEF Take
<1>u. base' = base /\ aborted' = aborted /\ effects' = effects /\ view' = view /\ call' = call
  OBVIOUS
<1>0. Unqueued(g, h, e)
  BY <1>t, <1>1, UnqueuedWhole
<1> HIDE DEF h
<1>4. /\ h \in Raw /\ Whole(h)
      /\ h.kind = g.kind /\ h.len = g.len /\ h.queue = g.queue
      /\ h.changed = g.changed /\ h.flushing = g.flushing /\ h.computing = g.computing
      /\ h.live = g.live /\ h.dirty = g.dirty
      /\ h.owner = g.owner /\ h.owned = g.owned /\ h.sources = g.sources /\ h.subs = g.subs
      /\ ~h.queued[e] /\ \A m \in Slots : h.queued[m] => g.queued[m]
  BY <1>0 DEF Unqueued
<1>6. Begun(h, k, e)
  BY <1>1, <1>4, BeginFacts
<1>7. Subtrees(h, e) = D
  BY <1>4 DEF Subtrees, Children
<1>8. /\ Doomed(g, D) /\ e \notin D
      /\ \A m \in D : g.owner[m] \in D \union {e}
  BY <1>t, <1>1, SubtreesDoomed
<1>d. /\ D \in SUBSET Slots /\ D \subseteq Live(g) /\ \A d \in D : g.owner[d] # NoOwner
  BY <1>1, <1>8, SlotsFacts DEF Doomed
<1> HIDE DEF D, k
<1>9. /\ k \in Raw /\ Whole(k) /\ k.kind = g.kind /\ k.queue = g.queue
      /\ k.changed = g.changed /\ k.flushing = g.flushing
      /\ k.computing = Append(g.computing, e)
      /\ \A m \in Slots :
          /\ k.live[m] = (g.live[m] /\ m \notin D)
          /\ k.dirty[m] = (g.dirty[m] /\ m \notin D)
          /\ k.queued[m] = (h.queued[m] /\ m \notin D)
          /\ k.owner[m] = IF m \in D THEN NoOwner ELSE g.owner[m]
          /\ k.owned[m] \subseteq g.owned[m]
          /\ k.sources[m] = IF m \in D \union {e} THEN {} ELSE g.sources[m] \ D
          /\ k.subs[m] = IF m \in D THEN {} ELSE g.subs[m] \ (D \union {e})
  BY <1>6, <1>4, <1>7, ZenonT(40) DEF Begun
<1>10. /\ k.computing \in Seq(Slots) /\ k.computing # <<>> /\ Last(k.computing) = e
       /\ Len(k.computing) - 1 = Len(g.computing)
       /\ k.computing[Len(g.computing) + 1] = e
       /\ \A i \in 1..Len(g.computing) : k.computing[i] = g.computing[i]
  <2>1. /\ Append(g.computing, e) \in Seq(Slots)
        /\ Len(Append(g.computing, e)) = Len(g.computing) + 1
        /\ Append(g.computing, e)[Len(g.computing) + 1] = e
        /\ \A i \in 1..Len(g.computing) : Append(g.computing, e)[i] = g.computing[i]
    BY <1>t, <1>1, PushFacts
  <2>2. k.computing \in Seq(Slots) /\ Len(k.computing) = Len(g.computing) + 1
    BY <1>9, <2>1
  <2>3. k.computing # <<>>
    BY <2>2, <1>t, StackFacts
  <2>4. Last(k.computing) = k.computing[Len(k.computing)]
    BY <2>2, <2>3, StackFacts
  <2>5. Len(k.computing) - 1 = Len(g.computing)
    BY <1>t, <2>2
  <2> QED BY <1>9, <2>1, <2>2, <2>3, <2>4, <2>5
<1>11. Unwound(k, g', Len(g.computing))
  BY <1>5, <1>9, <1>10, EndFacts
<1>12. Frames(k, Len(g.computing)) = {e}
  <2>1. (Len(g.computing) + 1)..Len(k.computing) = {Len(g.computing) + 1}
    <3>1. Len(k.computing) \in Nat
      BY <1>10, StackFacts
    <3> QED BY <1>t, <1>10, <3>1
  <2> QED BY <1>10, <2>1 DEF Frames
<1>p. /\ g' \in Raw /\ Whole(g') /\ g'.kind = g.kind /\ g'.queue = g.queue
      /\ g'.changed = g.changed /\ g'.flushing = g.flushing
      /\ g'.computing \in Seq(Slots) /\ Len(g'.computing) = Len(g.computing)
      /\ \A i \in 1..Len(g.computing) : g'.computing[i] = g.computing[i]
  BY <1>9, <1>10, <1>11 DEF Unwound
<1>q. \A m \in Slots :
        /\ g'.live[m] <=> (g.live[m] /\ m \notin D)
        /\ g'.dirty[m] <=> (g.dirty[m] /\ m \notin D /\ m # e)
        /\ g'.queued[m] => g.queued[m] /\ m # e
  <2> SUFFICES ASSUME NEW m \in Slots
               PROVE  /\ g'.live[m] <=> (g.live[m] /\ m \notin D)
                      /\ g'.dirty[m] <=> (g.dirty[m] /\ m \notin D /\ m # e)
                      /\ g'.queued[m] => g.queued[m] /\ m # e
    OBVIOUS
  <2>1. /\ g'.live[m] = k.live[m] /\ g'.queued[m] = k.queued[m]
        /\ g'.dirty[m] = (k.dirty[m] /\ m \notin {e})
    BY <1>11, <1>12 DEF Unwound
  <2>2. /\ k.live[m] = (g.live[m] /\ m \notin D)
        /\ k.dirty[m] = (g.dirty[m] /\ m \notin D)
        /\ k.queued[m] = (h.queued[m] /\ m \notin D)
    BY <1>9
  <2>3. h.queued[m] => g.queued[m] /\ m # e
    BY <1>4
  <2> QED BY <2>1, <2>2, <2>3, Zenon
<1>e. \A m \in Slots :
        /\ g'.owner[m] = IF m \in D THEN NoOwner ELSE g.owner[m]
        /\ g'.owned[m] \subseteq g.owned[m]
        /\ g'.sources[m] = IF m \in D \union {e} THEN {} ELSE g.sources[m] \ D
        /\ g'.subs[m] = IF m \in D THEN {} ELSE g.subs[m] \ (D \union {e})
  <2>1. /\ g'.owner = k.owner /\ g'.owned = k.owned
        /\ g'.sources = k.sources /\ g'.subs = k.subs
    BY <1>11 DEF Unwound
  <2> QED BY <1>9, <2>1, ZenonT(40)
<1>13. Live(g) \ Live(k) = D
  BY <1>9, <1>d DEF Live
<1>g. /\ deps' = [m \in Slots |-> IF m \in D \union {e} THEN {} ELSE deps[m] \ D]
      /\ stale' = stale \ D /\ dropped' = (dropped \ D) \union {e}
      /\ overtaken' = overtaken \ D
      /\ watched' = watched \ D /\ behind' = behind \ D /\ lapsed' = lapsed \ D /\ made' = made
  BY <1>5, <1>13 DEF Forget
<1>c. Computing(g') = Computing(g)
  <2>1. Computing(g') = {g'.computing[i] : i \in 1..Len(g'.computing)}
    BY <1>p, StackFacts DEF Computing
  <2> QED BY <1>t, <1>p, <2>1
<1>o. \A i \in 1..Len(g.computing) : g.computing[i] \in Slots \ D /\ g.computing[i] # e
  BY <1>t, <1>1, <1>3
<1>ow. Owed' \subseteq Owed /\ Owed \ {e} \subseteq Owed' /\ Owed \subseteq Slots
  BY <1>1, <1>p DEF Owed, Queued, InRound
<1>ty. TypeOK'
  <2>1. g' \in Graph
    BY <1>p, WholeIsGraph DEF TypeOK, Graph
  <2>2. deps' \in [Slots -> SUBSET Slots]
    BY <1>g DEF TypeOK
  <2>3. base' \in 0..Len(g'.computing) /\ gate' \in BOOLEAN
    BY <1>p, <1>u, <1>5 DEF TypeOK
  <2>4. \A S \in {stale', dropped', overtaken', watched', behind', lapsed'} : S \subseteq Slots
    BY <1>1, <1>g DEF TypeOK
  <2>5. steps' \in 0..(MaxSteps + 1)
    BY <1>5, SlotsFacts DEF TypeOK
  <2> QED BY <1>g, <1>u, <1>1, <2>1, <2>2, <2>3, <2>4, <2>5 DEF TypeOK
<1>run. Running'
  <2>1. base' \in Nat /\ base' <= Len(g'.computing)
    BY <1>t, <1>1, <1>p, <1>u
  <2>2. ASSUME NEW i \in 1..Len(g.computing)
        PROVE  /\ g'.computing[i] = g.computing[i] /\ g'.live[g.computing[i]]
               /\ g.kind[g.computing[i]] =
                    IF g.flushing /\ i = base + 1 THEN "Effect" ELSE "Computed"
               /\ g.kind[g.computing[i]] = "Computed" => g'.dirty[g.computing[i]]
    <3>1. /\ g.live[g.computing[i]]
          /\ g.kind[g.computing[i]] = IF g.flushing /\ i = base + 1 THEN "Effect" ELSE "Computed"
          /\ g.kind[g.computing[i]] = "Computed" => g.dirty[g.computing[i]]
      BY DEF Running
    <3>2. /\ g'.live[g.computing[i]]
          /\ g.dirty[g.computing[i]] => g'.dirty[g.computing[i]]
      BY <1>q, <1>o, <3>1
    <3> QED BY <1>p, <3>1, <3>2
  <2>3. \A i, j \in 1..Len(g.computing) : g.computing[i] = g.computing[j] => i = j
    BY DEF Running
  <2> QED BY <1>p, <1>u, <2>1, <2>2, <2>3 DEF Running
<1>fl. Flushing'
  BY <1>p, <1>u, <1>1 DEF Flushing
<1>ne. Nested'
  <2>1. \A x \in Slots : Subtrees(g', x) \subseteq Subtrees(g, x)
    BY <1>t, <1>p, <1>e, SubtreesShrink DEF Whole
  <2> QED BY <1>p, <1>u, <1>1, <1>ow, <2>1 DEF Nested
<1>ga. Gates'
  BY <1>1, <1>p, <1>u, <1>5 DEF Gates
<1>re. RegistryExact'
  <2>1. \A x \in Slots :
          x \in {y \in LiveOf(g', "Effect") : g'.owner[y] = NoOwner} <=>
            x \in {y \in LiveOf(g, "Effect") : g.owner[y] = NoOwner}
    BY <1>p, <1>q, <1>e, <1>d DEF LiveOf, Live
  <2>2. /\ {y \in LiveOf(g', "Effect") : g'.owner[y] = NoOwner} \subseteq Slots
        /\ {y \in LiveOf(g, "Effect") : g.owner[y] = NoOwner} \subseteq Slots
    BY DEF LiveOf, Live
  <2>3. {y \in LiveOf(g', "Effect") : g'.owner[y] = NoOwner} =
          {y \in LiveOf(g, "Effect") : g.owner[y] = NoOwner}
    BY <2>1, <2>2
  <2> QED BY <1>u, <2>3 DEF RegistryExact
<1>ca. Calling'
  <2>1. call.op = "expose" => g.computing # <<>> /\ 1 \in 1..Len(g.computing)
    BY <1>1, <1>t DEF Calling
  <2>2. call.op = "expose" =>
          \A x \in call.taken :
            /\ g'.live[x] /\ g'.kind[x] # "Effect"
            /\ g'.computing # <<>> => g'.computing[1] = x
    <3>1. call.op = "expose" =>
            \A x \in call.taken : x = g.computing[1] /\ x \in Slots /\ g.live[x] /\ g.kind[x] # "Effect"
      BY <2>1 DEF Calling, TypeOK
    <3>2. call.op = "expose" => g.computing[1] \notin D /\ g'.computing[1] = g.computing[1]
      BY <1>o, <1>p, <2>1
    <3> QED BY <1>p, <1>q, <3>1, <3>2
  <2>3. \A x \in call.taken : x \in Slots
    BY DEF TypeOK
  <2>4. /\ call.op = "none" => call.taken = {} /\ call.left = {}
        /\ call.op # "none" => (g'.flushing => base' > 0)
        /\ call.op = "expose" => call.left \subseteq call.taken /\ \A x, y \in call.taken : x = y
    BY <1>p, <1>u DEF Calling
  <2>5. \A x \in call.taken \ call.left :
          /\ x \in watched' \/ call.op = "expose"
          /\ g'.kind[x] = "Computed" /\ g'.dirty[x]
          => x \in Computing(g') \union call.again
    BY <1>g, <1>c, <1>p, <1>q, <2>3 DEF Calling
  <2> QED BY <1>u, <2>2, <2>4, <2>5 DEF Calling
<1>li. \A x \in watched' : x \in Slots /\ x \notin D /\ x \in watched /\ g'.live[x]
  BY <1>g, <1>q DEF Watching, TypeOK
<1>wa. Watching'
  BY <1>g, <1>u, <1>li, <1>p, <1>q DEF Watching
<1>nm. NoMissedPatch'
  BY <1>g, <1>u, <1>p DEF NoMissedPatch
<1>rc. Recorded'
  <2>1. g'.sources \in [Slots -> SUBSET Slots]
    BY <1>p DEF Raw
  <2>2. \A m \in Slots : deps'[m] = g'.sources[m]
    BY <1>g, <1>e DEF Recorded
  <2>3. deps' = [m \in Slots |-> deps'[m]]
    BY <1>g
  <2> QED BY <2>1, <2>2, <2>3 DEF Recorded
<1>do. Downstream'
  <2> SUFFICES ASSUME NEW m \in Slots, NEW r \in Slots, r \in g'.subs[m],
                      g'.kind[m] = "Computed", g'.dirty[m] \/ m \in overtaken'
               PROVE  r \in overtaken' \/ Due(r)' \/ (Waits(r, m)' /\ m \notin overtaken')
    BY DEF Downstream
  <2>1. r \notin D /\ m \notin D /\ r # e /\ r \in g.subs[m]
    BY <1>e
  <2>2. r \in overtaken \/ Due(r) \/ (Waits(r, m) /\ m \notin overtaken)
    BY <1>p, <1>q, <1>g, <2>1 DEF Downstream
  <2>3. Waits(r, m) => Waits(r, m)'
    <3>1. \A i \in 1..Len(g.computing) - 1 :
            i \in 1..Len(g.computing) /\ i + 1 \in 1..Len(g.computing)
      BY <1>t
    <3> QED BY <1>p, <3>1 DEF Waits
  <2>4. Due(r) => Due(r)'
    BY <1>p, <1>q, <1>c, <1>g, <1>ow, <2>1 DEF Due
  <2> QED BY <1>g, <2>1, <2>2, <2>3, <2>4
<1>wk. Wakes'
  BY <1>p, <1>q, <1>g, <1>ow DEF Wakes, LiveOf, Live
<1>fr. Fresh'
  BY <1>2, <1>p, <1>q, <1>g, <1>c DEF Fresh, LiveOf, Live
<1>ro. RerunOwed'
  BY <1>p, <1>q, <1>g, <1>ow DEF RerunOwed, LiveOf, Live, Owed
<1> QED BY <1>p, <1>ty, <1>run, <1>fl, <1>ne, <1>ga, <1>re, <1>ca, <1>wa, <1>rc, <1>do, <1>wk,
           <1>fr, <1>ro, <1>nm

LEMMA FlushTakeKeeps ==
    ASSUME IInv, FlushTake
    PROVE  IInv'
<1>1. Looping /\ steps <= MaxSteps /\ UNCHANGED <<base, aborted, effects, view, call>>
  BY DEF FlushTake
<1>2. PICK e \in InRound : Take(e)
  BY DEF FlushTake
<1>3. CASE e \notin LiveOf(g, "Effect")
  <2>1. round' = [round EXCEPT ![e] = @ - 1] /\ UNCHANGED <<g, steps, gate, ghost>>
    BY <1>2, <1>3 DEF Take
  <2> QED BY <1>1, <1>3, <2>1, TakeNoneKeeps
<1>4. CASE e \in LiveOf(g, "Effect") /\ ~aborted
  BY <1>1, <1>2, <1>4, TakeRunKeeps
<1>5. CASE e \in LiveOf(g, "Effect") /\ aborted
  BY <1>1, <1>2, <1>5, TakeSkipKeeps
<1> QED BY <1>3, <1>4, <1>5

\* A read that runs nothing.
\* What depends on a node is what its subscribers reach.
LEMMA DependentsFacts ==
    ASSUME IInv, NEW s \in Slots
    PROVE  /\ Dependents(s) \in SUBSET Slots /\ s \in Dependents(s)
           /\ \A m \in Dependents(s) : g.subs[m] \subseteq Dependents(s)
           /\ \A S \in SUBSET Slots :
                s \in S /\ (\A m \in S : g.subs[m] \subseteq S) => Dependents(s) \subseteq S
<1> DEFINE next == [m \in Slots |-> {x \in Slots : m \in deps[x]}]
           Dep == Dependents(s)
<1>1. next \in [Slots -> SUBSET Slots] /\ {s} \in SUBSET Slots
  OBVIOUS
<1>2. \A m \in Slots : next[m] = g.subs[m]
  <2>1. g.subs \in [Slots -> SUBSET Slots]
    BY DEF IInv, TypeOK, Graph
  <2>2. \A m, x \in Slots : m \in deps[x] <=> x \in g.subs[m]
    BY DEF IInv, Recorded, Whole, Mirror
  <2> QED BY <2>1, <2>2
<1>3. Dep = Closure(next, {s})
  BY DEF Dependents
<1> HIDE DEF next, Dep
<1>4. /\ Dep \in SUBSET Slots /\ {s} \subseteq Dep
      /\ \A m \in Dep : next[m] \subseteq Dep
      /\ \A S \in SUBSET Slots : {s} \subseteq S /\ (\A m \in S : next[m] \subseteq S) => Dep \subseteq S
  BY <1>1, <1>3, ClosureFacts
<1>5. \A m \in Dep : g.subs[m] \subseteq Dep
  BY <1>2, <1>4
<1>6. ASSUME NEW S \in SUBSET Slots, s \in S, \A m \in S : g.subs[m] \subseteq S
      PROVE  Dep \subseteq S
  <2>1. {s} \subseteq S /\ \A m \in S : next[m] \subseteq S
    BY <1>2, <1>6
  <2> QED BY <1>4, <2>1
<1> QED BY <1>4, <1>5, <1>6 DEF Dep

\* The bodies that wait for a running one; what runs and reads one of them is
\* another.
LEMMA WaitingFacts ==
    ASSUME IInv, NEW c \in Computing(g)
    PROVE  /\ c \in Slots /\ c \in Waiting(c) /\ Waiting(c) \subseteq Computing(g)
           /\ \A m \in Waiting(c) : m \in Slots /\ g.live[m] /\ g.kind[m] # "Signal"
           /\ \A m \in Waiting(c), x \in Computing(g) : x \in g.subs[m] => x \in Waiting(c)
<1>1. \A m \in Computing(g) : m \in Slots /\ g.live[m] /\ g.kind[m] # "Signal"
  <2>1. /\ \A i \in 1..Len(g.computing) : g.computing[i] \in Slots
        /\ Computing(g) = {g.computing[i] : i \in 1..Len(g.computing)}
    BY TypeFacts DEF IInv
  <2>2. \A i \in 1..Len(g.computing) :
          g.live[g.computing[i]] /\ g.kind[g.computing[i]] # "Signal"
    BY DEF IInv, Running
  <2> QED BY <2>1, <2>2
<1>2. c \in Slots
  BY <1>1
<1>3. /\ c \in Dependents(c)
      /\ \A m \in Dependents(c) : g.subs[m] \subseteq Dependents(c)
  BY <1>2, DependentsFacts
<1> QED BY <1>1, <1>2, <1>3 DEF Waiting

LEMMA ReadValueKeeps ==
    ASSUME IInv, UserRuns, NEW n \in Slots,
           n \in Live(g) \ (LiveOf(g, "Effect") \union Computing(g)), ReadValue(n),
           UNCHANGED flush, effects' = effects, view' = view, call' = call
    PROVE  IInv'
<1> USE DEF IInv
<1> DEFINE reader == IF g.computing = <<>> THEN {} ELSE Waiting(Last(g.computing))
<1>t. /\ g \in Raw
      /\ g.computing \in Seq(Slots) /\ Len(g.computing) \in Nat
      /\ \A i \in 1..Len(g.computing) : g.computing[i] \in Slots
      /\ g.computing = <<>> <=> Len(g.computing) = 0
      /\ Computing(g) = {g.computing[i] : i \in 1..Len(g.computing)}
      /\ base \in Nat /\ base <= Len(g.computing)
  BY TypeFacts
<1>u. round' = round /\ steps' = steps /\ base' = base /\ aborted' = aborted
  BY DEF flush
<1>gs. /\ deps' = ReadBy(n)
       /\ stale' = IF n \in stale THEN stale \union reader ELSE stale
       /\ dropped' = IF n \in dropped THEN dropped \union reader ELSE dropped
       /\ overtaken' = IF n \in overtaken THEN overtaken \union reader ELSE overtaken
       /\ made' = made /\ watched' = watched /\ behind' = behind /\ lapsed' = lapsed
  BY DEF ReadValue
<1>1. CASE gate
  <2>1. g.computing = <<>>
    BY <1>1, <1>t DEF Gates, UserRuns, InBody, AtTop
  <2>2. g' = g /\ gate' = gate
    BY <1>1 DEF ReadValue
  <2>3. deps' = deps
    <3>1. ReadBy(n) = [m \in Slots |-> deps[m]]
      BY <2>1 DEF ReadBy
    <3> QED BY <1>gs, <3>1 DEF TypeOK
  <2>4. stale' = stale /\ dropped' = dropped /\ overtaken' = overtaken
    BY <1>gs, <2>1
  <2>5. /\ view \in [bound : SUBSET Slots, dirty : SUBSET Slots] /\ view.dirty \subseteq view.bound
        /\ gate \in BOOLEAN /\ watched \subseteq Slots /\ behind \subseteq Slots /\ lapsed \subseteq Slots
        /\ call \in [op : {"none", "expose", "snapshot", "diff"},
                     taken : SUBSET Slots, left : SUBSET Slots, again : SUBSET Slots]
    BY DEF TypeOK
  <2>6. Watching' /\ NoMissedPatch'
    BY <1>gs, <2>2, <2>4 DEF Watching, NoMissedPatch
  <2>7. Calling'
    BY <1>gs, <1>u, <2>2 DEF Calling
  <2> QED BY <1>gs, <2>2, <2>3, <2>4, <2>5, <2>6, <2>7, QuietKeeps
<1>2. CASE ~gate
  <2>k. g.live[n] /\ g.kind[n] # "Effect" /\ n \notin Computing(g) /\ ~g.dirty[n]
    BY <1>2 DEF ReadValue, Live, LiveOf
  <2>l. g.computing # <<>> =>
          /\ Last(g.computing) \in Slots /\ Last(g.computing) \in Computing(g)
          /\ g.live[Last(g.computing)] /\ g.kind[Last(g.computing)] # "Signal"
    <3>1. g.computing # <<>> =>
            Last(g.computing) = g.computing[Len(g.computing)] /\ Len(g.computing) \in 1..Len(g.computing)
      BY <1>t, StackFacts
    <3> QED BY <1>t, <3>1 DEF Running
  <2>1. g' = record_dependency(g, n) /\ (gate' = GatesOpen(g') \/ gate' = gate)
    BY <1>2 DEF ReadValue
  <2>2. Linked(g, g', n)
    BY <1>t, <2>k, <2>l, <2>1, RecordFacts
  <2>3. Whole(g')
    BY <1>t, <2>k, <2>l, <2>2, LinkedWhole
  <2>p. /\ g' \in Raw
        /\ g'.kind = g.kind /\ g'.queue = g.queue /\ g'.changed = g.changed
        /\ g'.flushing = g.flushing /\ g'.computing = g.computing
        /\ g'.dirtyComputeds = g.dirtyComputeds
        /\ g'.live = g.live /\ g'.dirty = g.dirty /\ g'.queued = g.queued
        /\ g'.owner = g.owner /\ g'.owned = g.owned
    BY <2>2 DEF Linked
  <2>e. \A m \in Slots :
          /\ g'.sources[m] = IF g.computing # <<>> /\ m = Last(g.computing)
                             THEN g.sources[m] \union {n} ELSE g.sources[m]
          /\ \A x \in g'.subs[m] : x \in g.subs[m] \/ m = n
    BY <2>2 DEF Linked
  <2>c. /\ Computing(g') = Computing(g) /\ \A kk : LiveOf(g', kk) = LiveOf(g, kk)
        /\ \A x \in Slots : Subtrees(g', x) = Subtrees(g, x)
    BY <2>p DEF Computing, LiveOf, Live, Subtrees, Children
  <2>o. Queued(g') = Queued(g) /\ InRound' = InRound /\ Owed' = Owed /\ Owed \subseteq Slots
    BY <1>u, <2>p DEF Owed, Queued, InRound
  <2>r. /\ reader \subseteq Computing(g) /\ reader \subseteq Slots
        /\ \A x \in reader : g.live[x] /\ g.kind[x] # "Signal"
        /\ g.computing # <<>> => Last(g.computing) \in reader
        /\ \A m \in reader, x \in Computing(g) : x \in g.subs[m] => x \in reader
    BY <2>l, WaitingFacts
  <2>s. n \in stale => n \in dropped \union overtaken
    <3>1. g.kind[n] \in NodeKind
      BY <1>t DEF Raw
    <3>2. n \in LiveOf(g, "Computed") \/ n \in LiveOf(g, "Signal")
      BY <2>k, <3>1 DEF LiveOf, Live, NodeKind
    <3> QED BY <2>k, <3>2 DEF Fresh
  <2> HIDE DEF reader
  <2>ty. TypeOK'
    <3>1. g' \in Graph
      BY <2>p, <2>3, WholeIsGraph DEF TypeOK, Graph
    <3>2. deps' \in [Slots -> SUBSET Slots]
      BY <1>gs DEF TypeOK, ReadBy
    <3>3. gate' \in BOOLEAN
      BY <2>1 DEF GatesOpen, TypeOK
    <3>4. \A S \in {stale', dropped', overtaken', watched', behind', lapsed'} : S \subseteq Slots
      BY <1>gs, <2>r DEF TypeOK
    <3> QED BY <1>u, <1>gs, <2>p, <3>1, <3>2, <3>3, <3>4 DEF TypeOK
  <2>4. Running' /\ Flushing' /\ Nested'
    BY <1>u, <2>p, <2>c, <2>o DEF Running, Flushing, Nested
  <2>5. Gates'
    BY <1>2, <2>1, <2>p, <1>u DEF Gates, GatesOpen
  <2>6. RegistryExact'
    BY <2>c, <2>p DEF RegistryExact
  <2>7. Calling'
    BY <1>u, <1>gs, <2>p, <2>c DEF Calling
  <2>8. Watching' /\ NoMissedPatch'
    BY <1>gs, <2>p DEF Watching, NoMissedPatch
  <2>9. Recorded'
    <3>1. g'.sources \in [Slots -> SUBSET Slots]
      BY <2>p DEF Raw
    <3>2. \A m \in Slots : deps'[m] = g'.sources[m]
      BY <1>gs, <2>e DEF Recorded, ReadBy
    <3>3. deps' = [m \in Slots |-> deps'[m]]
      BY <1>gs DEF ReadBy
    <3> QED BY <3>1, <3>2, <3>3 DEF Recorded
  <2>10. Downstream'
    <3>1. \A m, x \in Slots : Waits(x, m)' <=> Waits(x, m)
      BY <2>p DEF Waits
    <3>2. overtaken \subseteq overtaken' /\ \A x \in Slots : Due(x) => Due(x)'
      BY <1>gs, <2>p, <2>c, <2>o DEF Due
    <3>3. ASSUME NEW m \in Slots, NEW x \in Slots, x \in g'.subs[m], g.kind[m] = "Computed",
                 g.dirty[m] \/ m \in overtaken'
          PROVE  x \in overtaken' \/ Due(x)' \/ (Waits(x, m) /\ m \notin overtaken')
      <4>1. CASE m = n
        <5>1. n \in overtaken
          BY <1>gs, <2>k, <2>r, <3>3, <4>1
        <5>2. CASE x \in g.subs[n]
          <6>1. x \in overtaken \/ Due(x)
            BY <3>3, <4>1, <5>1, <5>2 DEF Downstream
          <6> QED BY <3>2, <6>1
        <5>3. CASE x \notin g.subs[n]
          <6>1. n \in g'.sources[x] /\ n \notin g.sources[x]
            BY <2>3, <3>3, <4>1, <5>3 DEF Whole, Mirror
          <6>2. g.computing # <<>> /\ x = Last(g.computing)
            BY <2>e, <6>1
          <6> QED BY <1>gs, <2>r, <5>1, <6>2
        <5> QED BY <5>2, <5>3
      <4>2. CASE m # n
        <5>1. x \in g.subs[m]
          BY <2>e, <3>3, <4>2
        <5>2. m \in Computing(g) => g.dirty[m]
          BY <1>t, <3>3 DEF Running
        <5>3. g.dirty[m] \/ m \in overtaken
          BY <1>gs, <2>r, <3>3, <5>2
        <5>4. x \in overtaken \/ Due(x) \/ (Waits(x, m) /\ m \notin overtaken)
          BY <3>3, <5>1, <5>3 DEF Downstream
        <5>5. ASSUME Waits(x, m), m \notin overtaken, m \in overtaken' PROVE x \in overtaken'
          <6>1. x \in Computing(g)
            <7>1. \A i \in 1..Len(g.computing) - 1 : i \in 1..Len(g.computing)
              BY <1>t
            <7> QED BY <1>t, <5>5, <7>1 DEF Waits
          <6>2. n \in overtaken /\ m \in reader
            BY <1>gs, <5>5
          <6> QED BY <1>gs, <2>r, <5>1, <6>1, <6>2
        <5> QED BY <3>2, <5>4, <5>5
      <4> QED BY <4>1, <4>2
    <3> QED BY <2>p, <3>1, <3>3 DEF Downstream
  <2>11. Wakes'
    BY <1>gs, <2>p, <2>c, <2>o DEF Wakes
  <2>12. Fresh'
    BY <1>gs, <2>p, <2>c, <2>s, <2>r DEF Fresh, LiveOf, Live
  <2>13. RerunOwed'
    BY <1>gs, <2>c, <2>o, <2>s DEF RerunOwed
  <2> QED BY <2>3, <2>ty, <2>4, <2>5, <2>6, <2>7, <2>8, <2>9, <2>10, <2>11, <2>12, <2>13
<1> QED BY <1>1, <1>2

LEMMA ReadKeeps ==
    ASSUME Careful, IInv, NEW n \in Slots, Read(n)
    PROVE  IInv'
<1>1. /\ UserRuns /\ n \in Live(g) \ (LiveOf(g, "Effect") \union Computing(g))
      /\ UNCHANGED flush /\ effects' = effects /\ view' = view /\ call' = call
  BY DEF Read
<1>2. ReadValue(n) \/ Recompute(n)
  BY DEF Read
<1> QED BY <1>1, <1>2, ReadValueKeeps, RecomputeKeeps

\* Starting a flush changes the flushing flag alone.
LEMMA StartedWhole ==
    ASSUME NEW h \in Raw, Whole(h), NEW k, k = [h EXCEPT !.flushing = TRUE]
    PROVE  /\ k \in Raw /\ Whole(k) /\ k.flushing = TRUE
           /\ k.kind = h.kind /\ k.queue = h.queue /\ k.changed = h.changed
           /\ k.computing = h.computing /\ k.dirtyComputeds = h.dirtyComputeds
           /\ k.live = h.live /\ k.dirty = h.dirty /\ k.queued = h.queued
           /\ k.owner = h.owner /\ k.owned = h.owned /\ k.sources = h.sources /\ k.subs = h.subs
<1>1. /\ k \in Raw /\ k.flushing = TRUE
      /\ k.kind = h.kind /\ k.queue = h.queue /\ k.changed = h.changed /\ k.len = h.len
      /\ k.free = h.free
      /\ k.computing = h.computing /\ k.dirtyComputeds = h.dirtyComputeds
      /\ k.live = h.live /\ k.dirty = h.dirty /\ k.queued = h.queued
      /\ k.owner = h.owner /\ k.owned = h.owned /\ k.sources = h.sources /\ k.subs = h.subs
  BY DEF Raw
<1>2. Mirror(k)
  BY <1>1 DEF Whole, Mirror
<1> QED BY <1>1, <1>2, SameShape

\* What StartFlush does with a whole graph h.
Started(h, k) ==
    /\ k \in Raw /\ Whole(k)
    /\ k.kind = h.kind /\ k.queue = h.queue /\ k.changed = h.changed
    /\ k.computing = h.computing /\ k.dirtyComputeds = h.dirtyComputeds
    /\ k.live = h.live /\ k.dirty = h.dirty /\ k.queued = h.queued
    /\ k.owner = h.owner /\ k.owned = h.owned /\ k.sources = h.sources /\ k.subs = h.subs

LEMMA StartFlushFacts ==
    ASSUME NEW h \in Raw, Whole(h), h.flushing = g.flushing, StartFlush(h)
    PROVE  /\ Started(h, g') /\ g'.flushing
           /\ round' = round /\ steps' = steps /\ aborted' = aborted
           /\ base' = IF g.flushing THEN base ELSE Len(g.computing)
           /\ Careful => \A e \in Queued(g') : \A i \in 1..base' :
                g.computing[i] \notin Subtrees(g', e)
<1>m. ASSUME Started(h, g'), base' = IF g.flushing THEN base ELSE Len(g.computing), Careful
      PROVE  \A e \in Queued(g') : \A i \in 1..base' : g.computing[i] \notin Subtrees(g', e)
  <2>1. Queued(g') = Queued(h) /\ \A e \in Queued(h) : Subtrees(g', e) = Subtrees(h, e)
    BY <1>m DEF Started, Queued, Subtrees, Children
  <2>2. \A e \in Queued(h) : Subtrees(h, e) \intersect Interrupted = {}
    BY <1>m DEF StartFlush, MayQueue, Careful
  <2>3. \A i \in 1..base' : g.computing[i] \in Interrupted
    BY <1>m DEF Interrupted
  <2> QED BY <2>1, <2>2, <2>3
<1>1. CASE g.flushing
  BY <1>1, <1>m DEF StartFlush, flush, Started
<1>2. CASE ~g.flushing
  <2>1. /\ g' = [h EXCEPT !.flushing = TRUE] /\ base' = Len(g.computing)
        /\ round' = round /\ steps' = steps /\ aborted' = aborted
    BY <1>2 DEF StartFlush
  <2>2. Started(h, g') /\ g'.flushing
    BY <2>1, StartedWhole DEF Started
  <2> QED BY <1>2, <1>m, <2>1, <2>2
<1> QED BY <1>1, <1>2

LEMMA CreateKeeps ==
    ASSUME Careful, IInv, NEW kk \in NodeKind, NEW root \in BOOLEAN, NEW n \in Slots,
           Create(kk, root, n)
    PROVE  IInv'
<1> USE DEF IInv
<1> DEFINE h == MadeGraph(g, kk, root, n)
           o == Maker(g, root)
<1>t. /\ g \in Raw
      /\ g.computing \in Seq(Slots) /\ Len(g.computing) \in Nat
      /\ \A i \in 1..Len(g.computing) : g.computing[i] \in Slots
      /\ g.computing = <<>> <=> Len(g.computing) = 0
      /\ Computing(g) = {g.computing[i] : i \in 1..Len(g.computing)}
      /\ base \in Nat /\ base <= Len(g.computing)
  BY TypeFacts
<1>a. /\ UserRuns /\ n \in FreshSlots(g) /\ made < MaxMade /\ made' = made + 1
      /\ root => kk = "Signal"
      /\ kk = "Effect" => g.queue[n] < MaxDup
      /\ gate' = IF kk = "Computed" THEN GatesOpen(h) ELSE gate
      /\ effects' = IF kk = "Effect" /\ g.computing = <<>> THEN effects \union {n} ELSE effects
      /\ deps' = [deps EXCEPT ![n] = {}]
      /\ stale' = IF kk = "Signal" THEN stale \ {n} ELSE stale \union {n}
      /\ dropped' = dropped \ {n} /\ overtaken' = overtaken \ {n}
      /\ view' = view /\ call' = call /\ watched' = watched /\ behind' = behind /\ lapsed' = lapsed
  BY DEF Create, MadeGraph
<1>b. IF kk = "Effect" THEN StartFlush(h) ELSE g' = h /\ UNCHANGED flush
  BY DEF Create, MadeGraph
<1>l. g.computing # <<>> =>
        /\ Last(g.computing) \in Slots /\ Last(g.computing) \in Computing(g)
        /\ g.live[Last(g.computing)]
  <2>1. g.computing # <<>> =>
          Last(g.computing) = g.computing[Len(g.computing)] /\ Len(g.computing) \in 1..Len(g.computing)
    BY <1>t, StackFacts
  <2> QED BY <1>t, <2>1 DEF Running
<1>f. /\ ~g.live[n] /\ ~g.dirty[n]
      /\ g.sources[n] = {} /\ g.subs[n] = {} /\ g.owned[n] = {}
      /\ \A m \in Slots : n \notin g.sources[m] /\ n \notin g.subs[m]
  BY <1>t, <1>a, FreshFacts
<1>1. Grown(g, h, kk, n, o) /\ Whole(h)
  BY <1>t, <1>a, <1>l, BirthFacts
<1>m. o = NoOwner <=> root \/ g.computing = <<>>
  BY <1>l, SlotsFacts DEF Maker
<1> HIDE DEF h, o
<1>2. /\ h \in Raw /\ h.changed = g.changed /\ h.flushing = g.flushing
      /\ h.computing = g.computing
      /\ h.sources = g.sources /\ h.subs = g.subs
      /\ h.kind = [g.kind EXCEPT ![n] = kk]
      /\ h.live = [g.live EXCEPT ![n] = TRUE]
      /\ h.dirty = [g.dirty EXCEPT ![n] = (kk # "Signal")]
      /\ h.queued = [g.queued EXCEPT ![n] = (kk = "Effect")]
      /\ h.owner = [g.owner EXCEPT ![n] = o]
      /\ \A m \in Slots : h.owned[m] = IF m = o THEN g.owned[m] \union {n} ELSE g.owned[m]
      /\ h.queue = [g.queue EXCEPT ![n] = IF kk = "Effect" THEN @ + 1 ELSE @]
      /\ h.dirtyComputeds =
           (IF kk = "Computed" THEN g.dirtyComputeds + 1 ELSE g.dirtyComputeds)
  BY <1>1 DEF Grown
<1>3. /\ Started(h, g') /\ round' = round /\ steps' = steps /\ aborted' = aborted
      /\ g'.flushing <=> (g.flushing \/ kk = "Effect")
      /\ base' = IF ~g.flushing /\ kk = "Effect" THEN Len(g.computing) ELSE base
      /\ kk = "Effect" => \A e \in Queued(g') : \A i \in 1..base' :
           g.computing[i] \notin Subtrees(g', e)
  <2>1. CASE kk = "Effect"
    BY <1>b, <1>1, <1>2, <2>1, StartFlushFacts
  <2>2. CASE kk # "Effect"
    BY <1>b, <1>1, <1>2, <2>2 DEF Started, flush
  <2> QED BY <2>1, <2>2
<1>p. /\ g' \in Raw /\ Whole(g') /\ g'.changed = g.changed /\ g'.computing = g.computing
      /\ g'.sources = g.sources /\ g'.subs = g.subs /\ g'.dirtyComputeds = h.dirtyComputeds
      /\ g'.queue = h.queue
      /\ \A m \in Slots : g'.owned[m] \subseteq g.owned[m] \union {n}
      /\ g'.owned[n] = {}
  <2>1. o # n
    BY <1>l, <1>f, SlotsFacts DEF Maker, o
  <2> QED BY <1>2, <1>3, <1>f, <2>1, ZenonT(40) DEF Started
<1>q. /\ g'.kind[n] = kk /\ g'.live[n] /\ (g'.dirty[n] <=> kk # "Signal")
      /\ (g'.queued[n] <=> kk = "Effect") /\ g'.owner[n] = o
      /\ \A m \in Slots : m # n =>
           /\ g'.kind[m] = g.kind[m] /\ g'.live[m] = g.live[m] /\ g'.dirty[m] = g.dirty[m]
           /\ g'.queued[m] = g.queued[m] /\ g'.owner[m] = g.owner[m]
  <2>1. /\ g'.kind = [g.kind EXCEPT ![n] = kk]
        /\ g'.live = [g.live EXCEPT ![n] = TRUE]
        /\ g'.dirty = [g.dirty EXCEPT ![n] = (kk # "Signal")]
        /\ g'.queued = [g.queued EXCEPT ![n] = (kk = "Effect")]
        /\ g'.owner = [g.owner EXCEPT ![n] = o]
    BY <1>2, <1>3 DEF Started
  <2>2. /\ DOMAIN g.kind = Slots /\ DOMAIN g.live = Slots /\ DOMAIN g.dirty = Slots
        /\ DOMAIN g.queued = Slots /\ DOMAIN g.owner = Slots
    BY <1>t DEF Raw
  <2> QED BY <2>1, <2>2
<1>r. /\ g'.queue \in [Slots -> 0..MaxDup]
      /\ \A m \in Slots : m # n => g'.queue[m] = g.queue[m]
      /\ g'.queue[n] >= g.queue[n] /\ (kk = "Effect" => g'.queue[n] > 0)
  <2>1. g.queue \in [Slots -> 0..MaxDup]
    BY DEF TypeOK, Graph
  <2>2. g'.queue = [g.queue EXCEPT ![n] = IF kk = "Effect" THEN @ + 1 ELSE @]
    BY <1>p, <1>2
  <2> QED BY <1>a, <2>1, <2>2, SlotsFacts
<1>o. /\ Owed \subseteq Owed' /\ Owed' \subseteq Owed \union {n} /\ Owed' \subseteq Slots
      /\ (kk = "Effect" => n \in Owed')
      /\ (kk # "Effect" => Owed' = Owed)
  <2>1. InRound' = InRound
    BY <1>3 DEF InRound
  <2>2. g.queue \in [Slots -> 0..MaxDup]
    BY DEF TypeOK, Graph
  <2>3. Queued(g) \subseteq Queued(g') /\ Queued(g') \subseteq Queued(g) \union {n}
    BY <1>r, <2>2, SlotsFacts DEF Queued
  <2>4. kk = "Effect" => n \in Queued(g')
    BY <1>r DEF Queued
  <2>5. kk # "Effect" => Queued(g') = Queued(g)
    <3>1. kk # "Effect" => g'.queue = g.queue
      BY <1>p, <1>2, <2>2
    <3> QED BY <3>1 DEF Queued
  <2> QED BY <2>1, <2>3, <2>4, <2>5 DEF Owed, Queued, InRound
<1>c. /\ Computing(g') = Computing(g) /\ n \notin Computing(g)
      /\ \A i \in 1..Len(g.computing) : g.computing[i] # n
  BY <1>p, <1>f, <1>t DEF Computing, Running
<1>ty. TypeOK'
  <2>1. g' \in Graph
    BY <1>p, <1>r, WholeIsGraph
  <2>2. deps' \in [Slots -> SUBSET Slots]
    BY <1>a DEF TypeOK
  <2>3. base' \in 0..Len(g'.computing)
    BY <1>p, <1>3, <1>t
  <2>6. gate' \in BOOLEAN
    BY <1>a DEF TypeOK, GatesOpen
  <2>4. \A S \in {stale', dropped', overtaken', watched', behind', lapsed'} : S \subseteq Slots
    BY <1>a DEF TypeOK
  <2>5. made' \in 0..MaxMade /\ effects' \subseteq Slots
    BY <1>a, SlotsFacts DEF TypeOK
  <2> QED BY <1>a, <1>3, <2>1, <2>2, <2>3, <2>4, <2>5, <2>6 DEF TypeOK
<1>run. Running'
  <2>1. base' \in Nat /\ base' <= Len(g'.computing)
    BY <1>p, <1>3, <1>t
  <2>2. ASSUME NEW i \in 1..Len(g.computing)
        PROVE  /\ g'.live[g.computing[i]]
               /\ g'.kind[g.computing[i]] =
                    IF g'.flushing /\ i = base' + 1 THEN "Effect" ELSE "Computed"
               /\ g'.kind[g.computing[i]] = "Computed" => g'.dirty[g.computing[i]]
    <3>1. /\ g.live[g.computing[i]]
          /\ g.kind[g.computing[i]] = IF g.flushing /\ i = base + 1 THEN "Effect" ELSE "Computed"
          /\ g.kind[g.computing[i]] = "Computed" => g.dirty[g.computing[i]]
      BY DEF Running
    <3>2. /\ g'.live[g.computing[i]] = g.live[g.computing[i]]
          /\ g'.kind[g.computing[i]] = g.kind[g.computing[i]]
          /\ g'.dirty[g.computing[i]] = g.dirty[g.computing[i]]
      BY <1>q, <1>c, <1>t
    <3>3. CASE ~g.flushing /\ kk = "Effect"
      <4>1. i # base' + 1
        BY <1>3, <1>t, <3>3
      <4> QED BY <3>1, <3>2, <3>3, <4>1
    <3>4. CASE ~(~g.flushing /\ kk = "Effect")
      <4>1. (g'.flushing <=> g.flushing) /\ base' = base
        BY <1>3, <3>4
      <4> QED BY <3>1, <3>2, <4>1
    <3> QED BY <3>3, <3>4
  <2>3. \A i, j \in 1..Len(g.computing) : g.computing[i] = g.computing[j] => i = j
    BY DEF Running
  <2>4. Len(g'.computing) = Len(g.computing) /\ \A i \in 1..Len(g.computing) : g'.computing[i] = g.computing[i]
    BY <1>p
  <2> QED BY <2>1, <2>2, <2>3, <2>4 DEF Running
<1>fl. Flushing'
  BY <1>p, <1>3, <1>t DEF Flushing
<1>ne. Nested'
  <2>0. SUFFICES ASSUME g'.flushing, NEW e \in Owed', NEW i \in 1..base'
                 PROVE  g.computing[i] \notin Subtrees(g', e)
    BY <1>p DEF Nested
  <2>1. i \in 1..Len(g.computing) /\ e \in Slots
    BY <1>3, <1>t, <1>o
  <2>2. Tree(g) /\ Tree(g')
    BY <1>p DEF Whole
  <2>3. CASE e = n
    <3>1. Subtrees(g', n) \subseteq {}
      <4>1. \A S \in SUBSET Slots :
              g'.owned[n] \subseteq S /\ (\A m \in S : g'.owned[m] \subseteq S) => Subtrees(g', n) \subseteq S
        BY <1>p, <2>2, SubtreesFacts
      <4>2. {} \in SUBSET Slots /\ g'.owned[n] \subseteq {} /\ \A m \in {} : g'.owned[m] \subseteq {}
        BY <1>p
      <4> QED BY <4>1, <4>2
    <3> QED BY <2>3, <3>1
  <2>4. CASE e # n
    <3>1. e \in Owed
      BY <1>o, <2>4
    <3>2. CASE ~g.flushing
      <4>1. InRound = {} /\ InRound' = {}
        BY <1>3, <3>2 DEF Flushing, InRound, Empty
      <4>2. e \in Queued(g') /\ kk = "Effect"
        BY <1>3, <2>0, <3>2, <4>1 DEF Owed
      <4> QED BY <1>3, <4>2
    <3>3. CASE g.flushing
      <4>0. g.computing[i] \notin Subtrees(g, e)
        BY <1>3, <2>0, <3>1, <3>3 DEF Nested
      <4>1. /\ Subtrees(g, e) \in SUBSET Slots
            /\ g.owned[e] \subseteq Subtrees(g, e)
            /\ \A m \in Subtrees(g, e) : g.owned[m] \subseteq Subtrees(g, e)
        BY <1>t, <2>1, <2>2, SubtreesFacts
      <4>2. \A S \in SUBSET Slots :
              g'.owned[e] \subseteq S /\ (\A m \in S : g'.owned[m] \subseteq S) => Subtrees(g', e) \subseteq S
        BY <1>p, <2>1, <2>2, SubtreesFacts
      <4> DEFINE S == Subtrees(g, e) \union {n}
      <4>3. S \in SUBSET Slots /\ g'.owned[e] \subseteq S /\ \A m \in S : g'.owned[m] \subseteq S
        BY <1>p, <2>1, <4>1
      <4> HIDE DEF S
      <4>4. Subtrees(g', e) \subseteq S
        BY <4>2, <4>3
      <4>5. Subtrees(g', e) \subseteq Subtrees(g, e) \union {n}
        BY <4>4 DEF S
      <4> QED BY <1>c, <2>1, <4>0, <4>5
    <3> QED BY <3>2, <3>3
  <2> QED BY <2>3, <2>4
<1>ga. Gates'
  <2>1. gate => g.computing = <<>> /\ ~g.flushing /\ g.dirtyComputeds = 0
    BY <1>a, <1>t DEF Gates, UserRuns, InBody, AtTop
  <2>2. CASE kk = "Computed"
    <3>1. g'.flushing <=> g.flushing
      BY <1>3, <2>2
    <3> QED BY <1>a, <1>p, <1>2, <2>2, <3>1 DEF Gates, GatesOpen
  <2>3. CASE kk = "Effect"
    <3>1. gate => Len(g'.computing) = base' /\ g'.flushing
      BY <1>3, <1>p, <2>1, <2>3
    <3> QED BY <1>a, <2>3, <3>1 DEF Gates
  <2>4. CASE kk = "Signal"
    <3>1. gate => ~g'.flushing /\ g'.computing = <<>> /\ g'.dirtyComputeds = 0
      BY <1>3, <1>p, <1>2, <2>1, <2>4
    <3> QED BY <1>a, <2>4, <3>1 DEF Gates
  <2> QED BY <2>2, <2>3, <2>4 DEF NodeKind
<1>re. RegistryExact'
  <2>1. \A x \in Slots :
          x \in {y \in LiveOf(g', "Effect") : g'.owner[y] = NoOwner} <=> x \in effects'
    <3> SUFFICES ASSUME NEW x \in Slots
                 PROVE  x \in {y \in LiveOf(g', "Effect") : g'.owner[y] = NoOwner} <=> x \in effects'
      OBVIOUS
    <3>1. CASE x = n
      <4>1. n \notin effects
        BY <1>f DEF RegistryExact, LiveOf, Live
      <4> QED BY <1>a, <1>q, <1>m, <3>1, <4>1 DEF LiveOf, Live
    <3>2. CASE x # n
      BY <1>a, <1>q, <3>2 DEF RegistryExact, LiveOf, Live
    <3> QED BY <3>1, <3>2
  <2>2. {y \in LiveOf(g', "Effect") : g'.owner[y] = NoOwner} \subseteq Slots /\ effects' \subseteq Slots
    BY <1>ty DEF LiveOf, Live, TypeOK
  <2>3. {y \in LiveOf(g', "Effect") : g'.owner[y] = NoOwner} = effects'
    BY <2>1, <2>2
  <2> QED BY <2>3 DEF RegistryExact
<1>ca. Calling'
  <2>1. call.op # "none" => (g'.flushing => base' > 0)
    <3>1. call.op # "none" => Len(g.computing) > 0
      BY <1>a, <1>t DEF UserRuns, InBody, AtTop
    <3> QED BY <1>3, <3>1 DEF Calling
  <2>2. \A x \in call.taken : x \in watched \/ call.op = "expose" => x \in Slots /\ x # n
    BY <1>f DEF Calling, Watching, TypeOK
  <2>3. \A x \in call.taken \ call.left :
          /\ x \in watched' \/ call.op = "expose"
          /\ g'.kind[x] = "Computed" /\ g'.dirty[x]
          => x \in Computing(g') \union call.again
    BY <1>a, <1>q, <1>c, <2>2 DEF Calling
  <2>4. call.op = "expose" =>
          \A x \in call.taken :
            /\ g'.live[x] /\ g'.kind[x] # "Effect"
            /\ g'.computing # <<>> => g'.computing[1] = x
    BY <1>p, <1>q, <2>2 DEF Calling
  <2>5. /\ call.op = "none" => call.taken = {} /\ call.left = {}
        /\ call.op = "expose" => call.left \subseteq call.taken /\ \A x, y \in call.taken : x = y
    BY DEF Calling
  <2> QED BY <1>a, <2>1, <2>3, <2>4, <2>5 DEF Calling
<1>wa. Watching' /\ NoMissedPatch'
  <2>1. \A x \in watched : x # n /\ x \in Slots
    BY <1>f DEF Watching, TypeOK
  <2> QED BY <1>a, <1>p, <1>q, <2>1 DEF Watching, NoMissedPatch
<1>rc. Recorded'
  <2>1. g.sources \in [Slots -> SUBSET Slots]
    BY <1>t DEF Raw
  <2>2. [g.sources EXCEPT ![n] = {}] = g.sources
    BY <1>f, <2>1
  <2> QED BY <1>a, <1>p, <2>2 DEF Recorded
<1>do. Downstream'
  <2> SUFFICES ASSUME NEW m \in Slots, NEW x \in Slots, x \in g.subs[m],
                      g'.kind[m] = "Computed", g'.dirty[m] \/ m \in overtaken'
               PROVE  x \in overtaken' \/ Due(x)' \/ (Waits(x, m)' /\ m \notin overtaken')
    BY <1>p DEF Downstream
  <2>1. m # n /\ x # n
    BY <1>f
  <2>2. Waits(x, m)' <=> Waits(x, m)
    BY <1>p DEF Waits
  <2>3. Due(x) => Due(x)'
    BY <1>a, <1>q, <1>c, <1>o, <2>1 DEF Due
  <2>4. x \in overtaken \/ Due(x) \/ (Waits(x, m) /\ m \notin overtaken)
    BY <1>a, <1>q, <2>1 DEF Downstream
  <2> QED BY <1>a, <2>1, <2>2, <2>3, <2>4
<1>wk. Wakes'
  BY <1>a, <1>q, <1>o DEF Wakes, LiveOf, Live
<1>fr. Fresh'
  BY <1>a, <1>q, <1>c DEF Fresh, LiveOf, Live
<1>ro. RerunOwed'
  <2>1. Queued(g') \union InRound' = Owed' /\ Queued(g) \union InRound = Owed
    BY DEF Owed
  <2> QED BY <1>a, <1>q, <1>o, <2>1 DEF RerunOwed, LiveOf, Live
<1> QED BY <1>p, <1>ty, <1>run, <1>fl, <1>ne, <1>ga, <1>re, <1>ca, <1>wa, <1>rc, <1>do, <1>wk,
           <1>fr, <1>ro

LEMMA SetKeeps ==
    ASSUME Careful, IInv, NEW s \in Slots, Set(s)
    PROVE  IInv'
<1> USE DEF IInv
<1> DEFINE h == touch(g, s)
           N == NewlyDirty(g, s)
           W == Woken(g, s)
           Dep == Dependents(s)
           cut == {c \in Dep \intersect Computing(g) : g.kind[c] = "Computed"}
           late == UNION {Waiting(c) : c \in cut}
<1>t. /\ g \in Raw
      /\ g.computing \in Seq(Slots) /\ Len(g.computing) \in Nat
      /\ \A i \in 1..Len(g.computing) : g.computing[i] \in Slots
      /\ g.computing = <<>> <=> Len(g.computing) = 0
      /\ Computing(g) = {g.computing[i] : i \in 1..Len(g.computing)}
      /\ base \in Nat /\ base <= Len(g.computing)
  BY TypeFacts
<1>a. /\ UserRuns
      /\ \A m \in Slots : h.queue[m] <= MaxDup
      /\ StartFlush(h) /\ gate' = GatesOpen(h)
      /\ stale' = stale \union (Dep \ {s})
      /\ overtaken' = overtaken \union late
      /\ behind' = behind \union (Dep \intersect watched)
      /\ lapsed' = lapsed \ h.changed
      /\ call' = [call EXCEPT !.again = @ \union (Dep \intersect (call.taken \ call.left))]
      /\ effects' = effects /\ view' = view /\ deps' = deps
      /\ dropped' = dropped /\ made' = made /\ watched' = watched
  BY DEF Set
<1>s. g.live[s] /\ g.kind[s] = "Signal"
  BY DEF Set, LiveOf, Live
<1>1. Touched(g, h, s)
  BY <1>t, <1>s, TouchFacts
<1>2. /\ N \in SUBSET Slots /\ W \in SUBSET Slots
      /\ \A c \in N : g.live[c] /\ g.kind[c] = "Computed" /\ ~g.dirty[c]
      /\ \A e \in W : g.live[e] /\ g.kind[e] = "Effect" /\ ~g.queued[e]
      /\ \A m \in N \union {s} : \A c \in g.subs[m] :
           /\ g.kind[c] = "Computed" => g.dirty[c] \/ c \in N
           /\ g.kind[c] = "Effect" => g.queued[c] \/ c \in W
      /\ \A S \in SUBSET Slots :
           s \in S /\ (\A m \in S : g.subs[m] \subseteq S) => N \subseteq S
  BY <1>t, <1>s, ReachedFacts
<1>d. /\ Dep \in SUBSET Slots /\ s \in Dep
      /\ \A m \in Dep : g.subs[m] \subseteq Dep
      /\ \A S \in SUBSET Slots :
           s \in S /\ (\A m \in S : g.subs[m] \subseteq S) => Dep \subseteq S
  BY DependentsFacts
<1>l. /\ cut \subseteq late /\ late \subseteq Computing(g)
      /\ \A m \in late : m \in Slots /\ g.live[m] /\ g.kind[m] # "Signal"
      /\ \A m \in late, x \in Computing(g) : x \in g.subs[m] => x \in late
  BY WaitingFacts
<1>w. \A m \in Computing(g) :
        /\ m \in Slots /\ g.kind[m] # "Signal" /\ (g.kind[m] = "Computed" => g.dirty[m])
        /\ g.kind[m] = "Computed" /\ m \in Dep => m \in late
  <2>1. \A m \in Computing(g) :
          m \in Slots /\ g.kind[m] # "Signal" /\ (g.kind[m] = "Computed" => g.dirty[m])
    BY <1>t DEF Running
  <2> QED BY <1>l, <2>1
<1> HIDE DEF h, N, W, Dep, cut, late
<1>nd. N \subseteq Dep
  BY <1>2, <1>d
<1>3. /\ h \in Raw /\ Whole(h)
      /\ h.kind = g.kind /\ h.flushing = g.flushing
      /\ h.computing = g.computing /\ h.live = g.live
      /\ h.owner = g.owner /\ h.owned = g.owned /\ h.sources = g.sources /\ h.subs = g.subs
      /\ h.changed = g.changed \union {s} \union N
      /\ \A m \in Slots :
          /\ h.dirty[m] = (g.dirty[m] \/ m \in N \/ m \in W)
          /\ h.queued[m] = (g.queued[m] \/ m \in W)
          /\ h.queue[m] = IF m \in W THEN g.queue[m] + 1 ELSE g.queue[m]
  BY <1>1 DEF Touched, N, W
<1>4. /\ Started(h, g') /\ g'.flushing
      /\ round' = round /\ steps' = steps /\ aborted' = aborted
      /\ base' = IF g.flushing THEN base ELSE Len(g.computing)
      /\ \A e \in Queued(g') : \A i \in 1..base' : g.computing[i] \notin Subtrees(g', e)
  BY <1>3, <1>a, StartFlushFacts
<1>p. /\ g' \in Raw /\ Whole(g') /\ g'.kind = g.kind /\ g'.computing = g.computing
      /\ g'.live = g.live /\ g'.owner = g.owner /\ g'.owned = g.owned
      /\ g'.sources = g.sources /\ g'.subs = g.subs
      /\ g'.changed = g.changed \union {s} \union N /\ g'.queue = h.queue
      /\ g'.changed = h.changed
  BY <1>3, <1>4 DEF Started
<1>q. \A m \in Slots :
        /\ g'.dirty[m] <=> (g.dirty[m] \/ m \in N \/ m \in W)
        /\ g'.queued[m] <=> (g.queued[m] \/ m \in W)
  <2> SUFFICES ASSUME NEW m \in Slots
               PROVE  /\ g'.dirty[m] <=> (g.dirty[m] \/ m \in N \/ m \in W)
                      /\ g'.queued[m] <=> (g.queued[m] \/ m \in W)
    OBVIOUS
  <2>1. g'.dirty = h.dirty /\ g'.queued = h.queued
    BY <1>4 DEF Started
  <2>2. /\ h.dirty[m] = (g.dirty[m] \/ m \in N \/ m \in W)
        /\ h.queued[m] = (g.queued[m] \/ m \in W)
    BY <1>3
  <2> QED BY <2>1, <2>2, Zenon
<1>r. /\ g'.queue \in [Slots -> 0..MaxDup]
      /\ \A m \in Slots : (g.queue[m] > 0 => g'.queue[m] > 0) /\ (m \in W => g'.queue[m] > 0)
  <2>1. g.queue \in [Slots -> 0..MaxDup] /\ h.queue \in [Slots -> Nat]
    BY <1>3 DEF TypeOK, Graph, Raw
  <2>2. \A m \in Slots : h.queue[m] \in 0..MaxDup
    BY <1>a, <2>1, SlotsFacts
  <2>3. h.queue \in [Slots -> 0..MaxDup]
    BY <2>1, <2>2
  <2>4. \A m \in Slots : (g.queue[m] > 0 => h.queue[m] > 0) /\ (m \in W => h.queue[m] > 0)
    BY <1>3, <2>1, SlotsFacts
  <2> QED BY <1>p, <2>3, <2>4
<1>i. InRound' = InRound
  BY <1>4 DEF InRound
<1>o. Owed \subseteq Owed' /\ W \subseteq Owed' /\ Owed' \subseteq Slots
  BY <1>r, <1>2, <1>i DEF Owed, Queued, InRound
<1>c. /\ Computing(g') = Computing(g) /\ \A kk : LiveOf(g', kk) = LiveOf(g, kk)
  BY <1>p DEF Computing, LiveOf, Live
<1>k. \A x \in Slots : g.kind[x] \in {"Signal", "Computed", "Effect"}
  BY <1>t DEF Raw, NodeKind
<1>due. /\ overtaken \subseteq overtaken' /\ late \subseteq overtaken'
        /\ \A x \in Slots : Due(x) => Due(x)'
        /\ \A x \in Slots : g.kind[x] = "Computed" =>
             (Due(x)' <=> g'.dirty[x] /\ x \notin Computing(g))
        /\ \A x \in Slots : g.kind[x] # "Computed" => (Due(x)' <=> x \in Owed' \union dropped)
  <2>1. overtaken \subseteq overtaken' /\ late \subseteq overtaken'
    BY <1>a
  <2>2. \A x \in Slots : g.kind[x] = "Computed" =>
             (Due(x)' <=> g'.dirty[x] /\ x \notin Computing(g))
    BY <1>p, <1>c DEF Due
  <2>3. \A x \in Slots : g.kind[x] # "Computed" => (Due(x)' <=> x \in Owed' \union dropped)
    BY <1>p, <1>a DEF Due
  <2>4. ASSUME NEW x \in Slots, Due(x) PROVE Due(x)'
    <3>1. CASE g.kind[x] = "Computed"
      BY <1>q, <2>2, <2>4, <3>1 DEF Due
    <3>2. CASE g.kind[x] # "Computed"
      BY <1>o, <2>3, <2>4, <3>2 DEF Due
    <3> QED BY <3>1, <3>2
  <2> QED BY <2>1, <2>2, <2>3, <2>4
<1>x. \A m, x \in Slots : Waits(x, m) => x \in Computing(g) /\ m \in Computing(g)
  <2>1. \A i \in 1..Len(g.computing) - 1 : i \in 1..Len(g.computing) /\ i + 1 \in 1..Len(g.computing)
    BY <1>t
  <2> QED BY <1>t, <2>1 DEF Waits
<1>dir. \* what reads the signal, a dirty memo or an overtaken one
       ASSUME NEW m \in Slots, NEW x \in Slots, x \in g.subs[m],
              m = s \/ (g.kind[m] = "Computed" /\ (g'.dirty[m] \/ m \in overtaken'))
       PROVE  x \in overtaken' \/ Due(x)' \/ (Waits(x, m) /\ m \notin overtaken')
  <2>1. g.live[x] /\ (g.kind[x] = "Computed" \/ g.kind[x] = "Effect")
    BY <1>k, <1>dir DEF Whole, Mirror
  <2>2. CASE m \in N \union {s}
    <3>0. x \in Dep
      BY <1>d, <1>nd, <1>dir, <2>2
    <3>1. /\ g.kind[x] = "Computed" => g.dirty[x] \/ x \in N
          /\ g.kind[x] = "Effect" => g.queued[x] \/ x \in W
      BY <1>2, <1>dir, <2>2
    <3>2. CASE g.kind[x] = "Effect"
      <4>1. g.queued[x] => x \in Owed \union dropped
        BY <2>1, <3>2 DEF Wakes, LiveOf, Live
      <4> QED BY <1>o, <1>due, <3>1, <3>2, <4>1
    <3>3. CASE g.kind[x] = "Computed"
      <4>1. g'.dirty[x]
        BY <1>q, <3>1, <3>3
      <4>2. x \in Computing(g) => x \in overtaken'
        BY <1>w, <1>due, <3>0, <3>3
      <4> QED BY <1>due, <3>3, <4>1, <4>2
    <3> QED BY <2>1, <3>2, <3>3
  <2>3. CASE m \notin N \union {s}
    <3>1. g.kind[m] = "Computed" /\ (g.dirty[m] \/ m \in overtaken)
      <4>1. g.kind[m] = "Computed" /\ m \notin W
        BY <1>2, <1>dir, <2>3
      <4>2. m \in late => g.dirty[m]
        BY <1>l, <1>w, <4>1
      <4> QED BY <1>a, <1>q, <1>dir, <2>3, <4>1, <4>2
    <3>2. x \in overtaken \/ Due(x) \/ (Waits(x, m) /\ m \notin overtaken)
      BY <1>dir, <3>1 DEF Downstream
    <3>3. ASSUME Waits(x, m), m \notin overtaken, m \in overtaken' PROVE x \in overtaken'
      <4>1. m \in late /\ x \in Computing(g)
        BY <1>a, <1>x, <3>3
      <4> QED BY <1>l, <1>due, <1>dir, <4>1
    <3> QED BY <1>due, <3>2, <3>3
  <2> QED BY <2>2, <2>3
<1>dep. \A x \in Dep :
          /\ x \in Slots
          /\ x = s \/ (g.kind[x] # "Signal" /\ (x \in overtaken' \/ Due(x)'))
  <2> DEFINE S == {x \in Slots : x = s \/ (g.kind[x] # "Signal" /\ (x \in overtaken' \/ Due(x)'))}
  <2>1. S \in SUBSET Slots /\ s \in S
    OBVIOUS
  <2>2. ASSUME NEW m \in S, NEW x \in g.subs[m] PROVE x \in S
    <3>1. m \in Slots /\ x \in Slots
      BY <1>t DEF Raw
    <3>2. g.kind[m] # "Effect" /\ g.kind[x] # "Signal"
      BY <3>1 DEF Whole, Mirror
    <3>3. CASE m = s
      <4>1. ~Waits(x, m)
        BY <1>s, <1>w, <1>x, <3>1, <3>3
      <4>2. x \in overtaken' \/ Due(x)'
        BY <1>dir, <3>1, <3>3, <4>1
      <4> QED BY <3>1, <3>2, <4>2
    <3>4. CASE m # s
      <4>1. g.kind[m] = "Computed" /\ (m \in overtaken' \/ Due(m)')
        BY <1>k, <3>1, <3>2, <3>4
      <4>2. m \in overtaken' \/ (g'.dirty[m] /\ m \notin Computing(g))
        BY <1>due, <3>1, <4>1
      <4>3. x \in overtaken' \/ Due(x)'
        BY <1>dir, <1>x, <3>1, <4>1, <4>2
      <4> QED BY <3>1, <3>2, <4>3
    <3> QED BY <3>3, <3>4
  <2> HIDE DEF S
  <2>3. Dep \subseteq S
    BY <1>d, <2>1, <2>2
  <2> QED BY <2>3 DEF S
<1>cl. /\ call' \in [op : {"none", "expose", "snapshot", "diff"},
                    taken : SUBSET Slots, left : SUBSET Slots, again : SUBSET Slots]
       /\ call'.op = call.op /\ call'.taken = call.taken /\ call'.left = call.left
       /\ call'.again = call.again \union (Dep \intersect (call.taken \ call.left))
  BY <1>a, <1>d DEF TypeOK
<1>ty. TypeOK'
  <2>1. g' \in Graph
    BY <1>p, <1>r, WholeIsGraph
  <2>2. base' \in 0..Len(g'.computing) /\ gate' \in BOOLEAN
    BY <1>p, <1>4, <1>t, <1>a DEF GatesOpen
  <2>3. \A S \in {stale', dropped', overtaken', watched', behind', lapsed'} : S \subseteq Slots
    BY <1>a, <1>d, <1>l DEF TypeOK
  <2> QED BY <1>a, <1>4, <1>cl, <2>1, <2>2, <2>3 DEF TypeOK
<1>run. Running'
  <2>1. base' \in Nat /\ base' <= Len(g'.computing)
    BY <1>p, <1>4, <1>t
  <2>2. ASSUME NEW i \in 1..Len(g.computing)
        PROVE  /\ g'.live[g.computing[i]]
               /\ g'.kind[g.computing[i]] =
                    IF g'.flushing /\ i = base' + 1 THEN "Effect" ELSE "Computed"
               /\ g'.kind[g.computing[i]] = "Computed" => g'.dirty[g.computing[i]]
    <3>1. /\ g.live[g.computing[i]]
          /\ g.kind[g.computing[i]] = IF g.flushing /\ i = base + 1 THEN "Effect" ELSE "Computed"
          /\ g.kind[g.computing[i]] = "Computed" => g.dirty[g.computing[i]]
      BY DEF Running
    <3>2. /\ g'.live[g.computing[i]] = g.live[g.computing[i]]
          /\ g'.kind[g.computing[i]] = g.kind[g.computing[i]]
          /\ g.dirty[g.computing[i]] => g'.dirty[g.computing[i]]
      BY <1>p, <1>q, <1>t
    <3>3. CASE ~g.flushing
      <4>1. i # base' + 1
        BY <1>4, <1>t, <3>3
      <4> QED BY <3>1, <3>2, <3>3, <4>1
    <3>4. CASE g.flushing
      <4>1. g'.flushing /\ base' = base
        BY <1>4, <3>4
      <4> QED BY <3>1, <3>2, <3>4, <4>1
    <3> QED BY <3>3, <3>4
  <2>3. \A i, j \in 1..Len(g.computing) : g.computing[i] = g.computing[j] => i = j
    BY DEF Running
  <2>4. Len(g'.computing) = Len(g.computing) /\ \A i \in 1..Len(g.computing) : g'.computing[i] = g.computing[i]
    BY <1>p
  <2> QED BY <2>1, <2>2, <2>3, <2>4 DEF Running
<1>fl. Flushing'
  BY <1>p, <1>4, <1>t DEF Flushing
<1>ne. Nested'
  <2>0. SUFFICES ASSUME NEW e \in Owed', NEW i \in 1..base'
                 PROVE  g.computing[i] \notin Subtrees(g', e)
    BY <1>p DEF Nested
  <2>1. CASE e \in Queued(g')
    BY <1>4, <2>1
  <2>2. CASE e \in InRound
    <3>1. g.flushing
      BY <2>2 DEF Flushing, InRound, Empty
    <3>2. Subtrees(g', e) = Subtrees(g, e)
      BY <1>p DEF Subtrees, Children
    <3> QED BY <1>4, <2>2, <3>1, <3>2 DEF Nested, Owed
  <2> QED BY <1>i, <2>1, <2>2 DEF Owed
<1>ga. Gates'
  <2>1. gate' => g.computing = <<>> /\ ~g.flushing
    BY <1>a, <1>3 DEF GatesOpen
  <2>2. gate' => Len(g'.computing) = base'
    BY <1>p, <1>4, <2>1
  <2> QED BY <1>4, <2>2 DEF Gates
<1>re. RegistryExact' /\ Recorded'
  BY <1>a, <1>p, <1>c DEF RegistryExact, Recorded
<1>ca. Calling'
  <2>1. call.op # "none" => (g'.flushing => base' > 0)
    <3>1. call.op # "none" => Len(g.computing) > 0
      BY <1>a, <1>t DEF UserRuns, InBody, AtTop
    <3> QED BY <1>4, <3>1 DEF Calling
  <2>2. ASSUME NEW x \in call.taken \ call.left, x \in watched \/ call.op = "expose",
               g.kind[x] = "Computed", g'.dirty[x]
        PROVE  x \in Computing(g) \union call'.again
    <3>1. x \in Slots
      BY DEF TypeOK
    <3>2. CASE g.dirty[x]
      BY <1>cl, <2>2, <3>2 DEF Calling
    <3>3. CASE ~g.dirty[x]
      <4>1. x \in N
        BY <1>q, <1>2, <2>2, <3>1, <3>3
      <4> QED BY <1>nd, <1>cl, <4>1
    <3> QED BY <3>2, <3>3
  <2>3. call.op = "expose" =>
          /\ call.left \subseteq call.taken
          /\ \A x, y \in call.taken : x = y
          /\ \A x \in call.taken :
            /\ g'.live[x] /\ g'.kind[x] # "Effect"
            /\ g'.computing # <<>> => g'.computing[1] = x
    BY <1>p DEF Calling
  <2>4. call.op = "none" => call.taken = {} /\ call.left = {}
    BY DEF Calling
  <2> QED BY <1>a, <1>p, <1>c, <1>cl, <2>1, <2>2, <2>3, <2>4 DEF Calling
<1>wa. Watching'
  <2>1. watched \subseteq Slots
    BY DEF TypeOK
  <2>2. ASSUME NEW x \in watched, g.kind[x] = "Computed", g'.dirty[x]
        PROVE  x \in view.dirty \union g'.changed \union lapsed'
    <3>1. CASE g.dirty[x]
      <4>1. x \in view.dirty \union g.changed \union lapsed
        BY <2>2, <3>1 DEF Watching
      <4> QED BY <1>a, <1>p, <4>1
    <3>2. CASE ~g.dirty[x]
      BY <1>q, <1>2, <1>p, <2>1, <2>2, <3>2
    <3> QED BY <3>1, <3>2
  <2>3. behind' \subseteq watched
    BY <1>a DEF Watching
  <2> QED BY <1>a, <1>p, <2>2, <2>3 DEF Watching
<1>nm. NoMissedPatch'
  <2> SUFFICES ASSUME NEW x \in behind', x \notin lapsed', x \notin overtaken'
               PROVE  x \in view.dirty \union g'.changed
    BY <1>a DEF NoMissedPatch
  <2>1. CASE x \in behind
    <3>1. x \in lapsed => x \in g'.changed
      BY <1>a, <1>p
    <3>2. x \notin lapsed => x \in view.dirty \union g.changed
      BY <1>due, <2>1 DEF NoMissedPatch
    <3> QED BY <1>p, <3>1, <3>2
  <2>2. CASE x \in Dep \intersect watched
    <3>1. x \in Slots /\ g.kind[x] # "Effect"
      BY <1>d, <2>2 DEF Watching
    <3>2. CASE x = s
      BY <1>p, <3>2
    <3>3. CASE x # s
      <4>1. g.kind[x] = "Computed" /\ Due(x)'
        BY <1>dep, <1>k, <2>2, <3>1, <3>3
      <4>2. g'.dirty[x]
        BY <1>due, <3>1, <4>1
      <4> QED BY <1>wa, <1>a, <1>p, <2>2, <4>1, <4>2 DEF Watching
    <3> QED BY <3>2, <3>3
  <2> QED BY <1>a, <2>1, <2>2
<1>do. Downstream'
  <2>1. \A m, x \in Slots : Waits(x, m)' <=> Waits(x, m)
    BY <1>p DEF Waits
  <2>2. \A m, x \in Slots :
          x \in g'.subs[m] /\ g'.kind[m] = "Computed" /\ (g'.dirty[m] \/ m \in overtaken') =>
            x \in overtaken' \/ Due(x)' \/ (Waits(x, m)' /\ m \notin overtaken')
    BY <1>p, <1>dir, <2>1
  <2> QED BY <2>2 DEF Downstream
<1>wk. Wakes'
  BY <1>a, <1>c, <1>q, <1>o, <1>2 DEF Wakes, LiveOf, Live
<1>fr. Fresh'
  <2>1. ASSUME NEW c \in LiveOf(g, "Computed"), ~g'.dirty[c] \/ c \in Computing(g), c \in stale'
        PROVE  c \in dropped' \union overtaken'
    <3>1. c \in Slots /\ g.kind[c] = "Computed"
      BY DEF LiveOf, Live
    <3>2. ~g.dirty[c] \/ c \in Computing(g)
      BY <1>q, <2>1, <3>1
    <3>3. CASE c \in stale
      BY <1>a, <1>due, <2>1, <3>2, <3>3 DEF Fresh
    <3>4. CASE c \in Dep \ {s}
      BY <1>dep, <1>due, <2>1, <3>1, <3>4
    <3> QED BY <1>a, <2>1, <3>3, <3>4
  <2>2. ASSUME NEW c \in LiveOf(g, "Signal") PROVE c \notin stale' /\ ~g'.dirty[c]
    <3>1. c \in Slots /\ g.kind[c] = "Signal"
      BY DEF LiveOf, Live
    <3>2. c \notin Dep \ {s}
      BY <1>dep, <3>1
    <3>3. ~g'.dirty[c]
      BY <1>q, <1>2, <3>1 DEF Fresh
    <3> QED BY <1>a, <3>2, <3>3 DEF Fresh
  <2> QED BY <1>c, <2>1, <2>2 DEF Fresh
<1>ro. RerunOwed'
  <2>1. ASSUME NEW e \in LiveOf(g, "Effect"), e \in stale', e \notin dropped', e \notin overtaken'
        PROVE  e \in Owed'
    <3>1. e \in Slots /\ g.kind[e] = "Effect"
      BY DEF LiveOf, Live
    <3>2. CASE e \in stale
      BY <1>a, <1>o, <1>due, <2>1, <3>2 DEF RerunOwed, Owed
    <3>3. CASE e \in Dep \ {s}
      BY <1>a, <1>dep, <1>due, <2>1, <3>1, <3>3
    <3> QED BY <1>a, <2>1, <3>2, <3>3
  <2> QED BY <1>c, <2>1 DEF RerunOwed, Owed
<1> QED BY <1>p, <1>ty, <1>run, <1>fl, <1>ne, <1>ga, <1>re, <1>ca, <1>wa, <1>do, <1>wk,
           <1>fr, <1>ro, <1>nm

LEMMA StepKeeps ==
    ASSUME Careful, IInv, [Next]_vars
    PROVE  IInv'
<1>1. CASE \E k \in NodeKind, root \in BOOLEAN, n \in Slots : Create(k, root, n)
  BY <1>1, CreateKeeps
<1>2. CASE \E n \in Slots : Read(n)
  BY <1>2, ReadKeeps
<1>3. CASE \E n \in Slots : Set(n)
  BY <1>3, SetKeeps
<1>4. CASE \E n \in Slots : Dispose(n)
  BY <1>4, DisposeKeeps
<1>5. CASE Return
  BY <1>5, ReturnKeeps
<1>6. CASE Abort
  BY <1>6, AbortKeeps
<1>7. CASE FlushRound
  BY <1>7, FlushRoundKeeps
<1>8. CASE FlushTake
  BY <1>8, FlushTakeKeeps
<1>9. CASE FlushDone
  BY <1>9, FlushDoneKeeps
<1>10. CASE \E n \in Slots : Expose(n)
  <2>1. PICK n \in Slots : Expose(n)
    BY <1>10
  <2>2. n \in Live(g) \ LiveOf(g, "Effect") /\ StartCall("expose", {n})
    BY <2>1 DEF Expose
  <2>3. {n} \in SUBSET Slots /\ "expose" \in {"expose", "snapshot", "diff"}
    OBVIOUS
  <2>4. "expose" = "expose" => \E m \in Live(g) \ LiveOf(g, "Effect") : {n} = {m}
    BY <2>2
  <2> QED BY <2>2, <2>3, <2>4, StartCallKeeps
<1>11. CASE Snapshot
  <2>1. view.bound \in SUBSET Slots
    BY DEF IInv, TypeOK
  <2> QED BY <1>11, <2>1, StartCallKeeps DEF Snapshot
<1>12. CASE Diff
  <2>1. view.dirty \in SUBSET Slots
    BY DEF IInv, TypeOK
  <2> QED BY <1>12, <2>1, StartCallKeeps DEF Diff
<1>13. CASE \E n \in Slots : CallRead(n)
  BY <1>13, CallReadCleanKeeps, CallReadDirtyKeeps
<1>14. CASE EndCall
  BY <1>14, EndCallKeeps
<1>15. CASE \E n \in Slots : Unexpose(n)
  BY <1>15, UnexposeKeeps
<1>16. CASE \E H \in SUBSET (Live(g) \ LiveOf(g, "Effect")) : HotSwap(H)
  <2>1. PICK H \in SUBSET (Live(g) \ LiveOf(g, "Effect")) : HotSwap(H)
    BY <1>16
  <2>2. H \in SUBSET Slots
    BY DEF Live
  <2> QED BY <2>1, <2>2, HotSwapKeeps
<1>17. CASE UNCHANGED vars
  <2>1. /\ g' = g /\ UNCHANGED flush /\ gate' = gate /\ effects' = effects /\ view' = view
        /\ call' = call /\ deps' = deps /\ stale' = stale /\ dropped' = dropped /\ made' = made
        /\ watched' = watched /\ behind' = behind /\ overtaken' = overtaken /\ lapsed' = lapsed
    BY <1>17 DEF vars, ghost
  <2>2. base' = base
    BY <2>1 DEF flush
  <2>3. Calling' /\ Watching' /\ NoMissedPatch'
    BY <2>1, <2>2 DEF IInv, Calling, Watching, NoMissedPatch
  <2>4. /\ view \in [bound : SUBSET Slots, dirty : SUBSET Slots] /\ view.dirty \subseteq view.bound
        /\ gate \in BOOLEAN /\ watched \subseteq Slots /\ behind \subseteq Slots /\ lapsed \subseteq Slots
        /\ call \in [op : {"none", "expose", "snapshot", "diff"},
                     taken : SUBSET Slots, left : SUBSET Slots, again : SUBSET Slots]
    BY DEF IInv, TypeOK
  <2> QED BY <2>1, <2>3, <2>4, QuietKeeps
<1> QED BY <1>1, <1>2, <1>3, <1>4, <1>5, <1>6, <1>7, <1>8, <1>9, <1>10, <1>11, <1>12, <1>13, <1>14,
           <1>15, <1>16, <1>17 DEF Next

LEMMA Invariance == Careful => (Spec => []IInv)
<1> SUFFICES ASSUME Careful PROVE Spec => []IInv
  OBVIOUS
<1>1. Init => IInv
  BY InitHolds
<1>2. IInv /\ [Next]_vars => IInv'
  BY StepKeeps
<1> QED BY <1>1, <1>2, PTL DEF Spec

(***************************************************************************)
(* What the invariant says of the program.                                 *)
(***************************************************************************)

\* Through reruns, disposals, aborts and the reuse of slots the edges, the
\* owner tree, the free list and the hot-swap registry name each other's live
\* nodes and no other (alloc, adopt, dispose, unhook_and_free), as long as the
\* program is Careful: the code does not stop one that takes down a running
\* node, or unexposes a binding whose slot was reused, and then it fails.
THEOREM GraphIsWhole == Careful => (Spec => []GraphExact)
<1> SUFFICES ASSUME Careful PROVE Spec => []GraphExact
  OBVIOUS
<1>1. Spec => []IInv
  BY Invariance
<1>2. ASSUME IInv PROVE GraphExact
  <2>1. TypeOK /\ Mirror(g) /\ Tree(g) /\ Freed(g) /\ RegistryExact
    BY <1>2 DEF IInv, Whole
  <2>2. EdgesMirror
    BY <2>1 DEF Mirror, EdgesMirror
  <2>3. OwnerTree
    BY <2>1 DEF Tree, OwnerTree
  <2>4. FreeExact
    BY <2>1 DEF Freed, FreeExact
  <2> QED BY <2>1, <2>2, <2>3, <2>4 DEF GraphExact
<1> QED BY <1>1, <1>2, PTL

\* In a Careful program a memo that is not marked dirty holds what its sources
\* give now, with two exceptions: an abort or an overflow cut its run short
\* (dropped), or a set during its run changed what it had read (overtaken);
\* and what read such a memo (begin_compute, end_compute,
\* mark_dirty_subscribers).
THEOREM MemosAreFresh == Careful => (Spec => []FreshMemo)
<1> SUFFICES ASSUME Careful PROVE Spec => []FreshMemo
  OBVIOUS
<1>1. Spec => []IInv
  BY Invariance
<1>2. IInv => FreshMemo
  BY DEF IInv, Fresh, FreshMemo
<1> QED BY <1>1, <1>2, PTL

\* In a Careful program an effect that has not run since something it read
\* changed still has an entry: the queued flag, the rounds and the reuse of
\* slots lose no wake-up (flush_loop, mark_dirty_subscribers).  The entries
\* that a failed flush throws away (dropped) and the readers of a memo that a
\* set in its own run left behind (overtaken) are not covered.
THEOREM RerunsAreOwed == Careful => (Spec => []RerunOwed)
<1> SUFFICES ASSUME Careful PROVE Spec => []RerunOwed
  OBVIOUS
<1>1. Spec => []IInv
  BY Invariance
<1>2. IInv => RerunOwed
  BY DEF IInv
<1> QED BY <1>1, <1>2, PTL

\* While the VM may read a cell inline nothing tracks reads and no memo is
\* dirty, and the count behind the gate is exact (sync_gates).
THEOREM GatesAreSound == Careful => (Spec => []GateSound)
<1> SUFFICES ASSUME Careful PROVE Spec => []GateSound
  OBVIOUS
<1>1. Spec => []IInv
  BY Invariance
<1>2. ASSUME IInv PROVE GateSound
  <2>1. DirtyMemos(g) = {c \in LiveOf(g, "Computed") : g.dirty[c]}
    BY DEF DirtyMemos, LiveOf, Live
  <2>2. g.dirtyComputeds = Cardinality(DirtyMemos(g))
    BY <1>2 DEF IInv, Whole, Counted
  <2>3. ASSUME gate, UserRuns
        PROVE  ~g.flushing /\ g.computing = <<>> /\ g.dirtyComputeds = 0
    <3>1. \/ g.flushing /\ Len(g.computing) = base
          \/ ~g.flushing /\ g.computing = <<>> /\ g.dirtyComputeds = 0
      BY <1>2, <2>3 DEF IInv, Gates
    <3>2. ~(g.flushing /\ Len(g.computing) = base)
      <4>1. SUFFICES ASSUME g.flushing, Len(g.computing) = base PROVE FALSE
        OBVIOUS
      <4>2. base \in Nat
        BY <1>2 DEF IInv, Running
      <4>3. ~InBody
        BY <4>1, <4>2 DEF InBody
      <4> QED BY <2>3, <4>1, <4>3 DEF UserRuns, AtTop
    <3> QED BY <3>1, <3>2
  <2> QED BY <2>1, <2>2, <2>3 DEF GateSound
<1> QED BY <1>1, <1>2, PTL

\* In a Careful program a binding whose value changed since its last push is
\* marked, or in the log that the running flush distributes, through nested
\* runs, aborts and view calls that overlap a flush (distribute_changes, diff).
\* A change made in the call that pushes the binding, after the call has read
\* it (lapsed), and a memo that a set in its own run left behind (overtaken)
\* are not covered.
THEOREM PatchesAreNotMissed == Careful => (Spec => []NoMissedPatch)
<1> SUFFICES ASSUME Careful PROVE Spec => []NoMissedPatch
  OBVIOUS
<1>1. Spec => []IInv
  BY Invariance
<1>2. IInv => NoMissedPatch
  BY DEF IInv
<1> QED BY <1>1, <1>2, PTL
=============================================================================
