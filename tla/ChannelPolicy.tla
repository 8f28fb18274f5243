----------------------------- MODULE ChannelPolicy -----------------------------
(***************************************************************************)
(* The value-neutral channel rules both backends share                     *)
(* (crates/noeta-ext-abi/src/channel.rs): given a channel's scalar state    *)
(* and the phase of one send, which move a poll performs.  Capacity 0 is a  *)
(* rendezvous channel, whose buffer is a one-slot handoff.                  *)
(***************************************************************************)
EXTENDS Naturals

SendPhase == {"Fresh", "Deposited"}
SendAction == {"Closed", "DeliverBuffered", "Deposit", "Complete", "Park"}
RecvAction == {"Deliver", "ClosedEmpty", "Park"}

\* Mutant: a close completes a deposited send.
PollRendezvousEager(len, closed, phase) ==
  CASE phase = "Fresh" /\ closed               -> "Closed"
    [] phase = "Fresh" /\ ~closed /\ len = 0   -> "Deposit"
    [] phase = "Deposited" /\ (len = 0 \/ closed) -> "Complete"
    [] OTHER                                   -> "Park"

\* A rendezvous send.  Once deposited, a close no longer fails it.
PollRendezvous(len, closed, phase) ==
  CASE phase = "Fresh" /\ closed               -> "Closed"
    [] phase = "Fresh" /\ ~closed /\ len = 0   -> "Deposit"
    [] phase = "Deposited" /\ len = 0          -> "Complete"
    [] OTHER                                   -> "Park"

PollSend(capacity, len, closed, phase) ==
  CASE capacity = 0   -> PollRendezvous(len, closed, phase)
    [] capacity > 0 /\ closed -> "Closed"
    [] capacity > 0 /\ ~closed /\ len < capacity -> "DeliverBuffered"
    [] OTHER          -> "Park"

PollRecv(len, closed) ==
  CASE len > 0            -> "Deliver"
    [] len = 0 /\ closed  -> "ClosedEmpty"
    [] OTHER              -> "Park"

\* `try_push`'s own test, repeated under the lock.
HasRoom(capacity, len) == IF capacity = 0 THEN len = 0 ELSE len < capacity
================================================================================
