---------------------------- MODULE MCServeFleet ----------------------------
(* Small fleets for checking ServeFleet: one worker with two clients, two   *)
(* workers that compete for one, and with hot reload one worker with a      *)
(* client and two that take the swaps together.                             *)
EXTENDS ServeFleet

Fleet(m, f, cs, n) == [mode |-> m, fleet |-> f, conns |-> cs, saves |-> n]
One == {"w1"}
Two == {"w1", "w2"}
HotPair == {Fleet("hot", Two, {}, 2)}
PlainOne == {Fleet("plain", One, {"c1", "c2"}, 0)}
Small == PlainOne \union HotPair \union
         {Fleet("plain", Two, {"c1"}, 0), Fleet("hot", One, {"c1"}, 2)}
=============================================================================
