---------------------------- MODULE ChannelPromise -----------------------------
(***************************************************************************)
(* What a channel promises its users (docs/Concurrency.md, "Channels"):     *)
(* every sender's messages leave in the order they were sent, each exactly  *)
(* once; at most `Capacity` wait in the buffer; a buffered send is complete *)
(* when its message is in the buffer, a rendezvous send (capacity 0) once a *)
(* receiver took it; nothing enters a closed channel.  Polls, phases,       *)
(* marshalling and threads are not mentioned: SharedChannel implements this *)
(* specification.                                                          *)
(***************************************************************************)
EXTENDS Naturals, Sequences

CONSTANTS Senders, Capacity

VARIABLES
  buf,     \* messages waiting, oldest first
  shut,    \* the channel is closed
  done,    \* done[s]: how many of s's sends completed
  out      \* messages handed to receivers

vars == <<buf, shut, done, out>>

Buffered == {buf[i] : i \in DOMAIN buf}
Upcoming(s) == <<s, done[s] + 1>>
Room == IF Capacity = 0 THEN Len(buf) = 0 ELSE Len(buf) < Capacity

Init ==
  /\ buf = <<>>
  /\ shut = FALSE
  /\ done = [s \in Senders |-> 0]
  /\ out = {}

Offer(s) ==
  /\ ~shut
  /\ Room
  /\ Upcoming(s) \notin Buffered \cup out
  /\ buf' = Append(buf, Upcoming(s))
  /\ done' = IF Capacity = 0 THEN done ELSE [done EXCEPT ![s] = @ + 1]
  /\ UNCHANGED <<shut, out>>

Hand ==
  /\ buf # <<>>
  /\ out' = out \cup {Head(buf)}
  /\ buf' = Tail(buf)
  /\ UNCHANGED <<shut, done>>

Complete(s) ==
  /\ Capacity = 0
  /\ Upcoming(s) \in out
  /\ done' = [done EXCEPT ![s] = @ + 1]
  /\ UNCHANGED <<buf, shut, out>>

Shut ==
  /\ shut' = TRUE
  /\ UNCHANGED <<buf, done, out>>

Next ==
  \/ \E s \in Senders : Offer(s) \/ Complete(s)
  \/ Hand
  \/ Shut

Spec == Init /\ [][Next]_vars
================================================================================
