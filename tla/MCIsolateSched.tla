---------------------------- MODULE MCIsolateSched -----------------------------
(***************************************************************************)
(* Small programs for checking IsolateSched: the bodies of the root and of  *)
(* its workers.  A run considers every program of one set; each program is  *)
(* the shortest in which its question arises.                              *)
(***************************************************************************)
EXTENDS IsolateSched, TLC

\* A rendezvous channel and a buffered one.
Capacities == "a" :> 0 @@ "b" :> 1

Program(main, w1, w2) == "main" :> main @@ "w1" :> w1 @@ "w2" :> w2

\* One worker hands a message to the other; the root joins one, cancels it
\* when it is long done, and joins the rest.
HandOver ==
  Program(<<Spawn("w1"), Spawn("w2"), Join("w1"), Cancel("w1"), ScopeEnd>>,
          <<Send("a")>>,
          <<Recv("a")>>)

\* The root sends once and closes; the worker takes the message.
SendAndClose(c) ==
  Program(<<Spawn("w1"), Send(c), Close(c), ScopeEnd>>,
          <<Recv(c)>>,
          <<>>)

\* Cancelling a worker that joins, together with the worker it spawned.
CancelTree ==
  Program(<<Spawn("w1"), Cancel("w1"), ScopeEnd>>,
          <<Spawn("w2"), ScopeEnd>>,
          <<Recv("a")>>)

\* A producer and a consumer; the harvest of the producer closes the channel.
Pipeline ==
  Program(<<Spawn("w1"), Spawn("w2"), ScopeEnd>>,
          <<Send("b")>>,
          <<Recv("b"), Recv("b")>>)

\* Everybody waits for somebody else to speak first.
Deadlock3 ==
  Program(<<Spawn("w1"), Spawn("w2"), Recv("a"), ScopeEnd>>,
          <<Recv("a")>>,
          <<Recv("a")>>)

\* A worker's send races the root's close and may fail; its sibling reads.
CloseRace ==
  Program(<<Spawn("w1"), Spawn("w2"), Close("b"), ScopeEnd>>,
          <<Send("b")>>,
          <<Recv("b")>>)

\* The same after a send, whose wake makes the joining worker look again: the
\* request may come between its look and its snapshot.
CancelLooking ==
  Program(<<Spawn("w1"), Send("b"), Cancel("w1"), ScopeEnd>>,
          <<Spawn("w2"), ScopeEnd>>,
          <<Recv("a")>>)

\* A worker fails after spawning one of its own.
FailedParent ==
  Program(<<Close("b"), Spawn("w1"), ScopeEnd>>,
          <<Spawn("w2"), Send("b"), ScopeEnd>>,
          <<Recv("a")>>)

\* A worker sends on a channel the root already closed; its sibling waits for
\* a message nobody will send.
FailedSibling ==
  Program(<<Close("b"), Spawn("w1"), Spawn("w2"), ScopeEnd>>,
          <<Send("b")>>,
          <<Recv("a")>>)

\* Programs in which everybody must get through, by wakes alone.
Completing == {HandOver, SendAndClose("a"), CancelTree}

\* Programs that stall, fail, are cancelled, or race an automatic close.
Stalling == {Pipeline, Deadlock3, SendAndClose("b"), CloseRace, CancelLooking,
             FailedParent}

Both == Completing \cup Stalling
OnlyFailedSibling == {FailedSibling}
================================================================================
