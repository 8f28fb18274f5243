----------------------------- MODULE ServeFleet -----------------------------
(***************************************************************************)
(* `noeta serve`: the accept, dispatch and reply loop of every worker      *)
(* isolate (crates/noeta-stdlib, serve.rs), the executor it sleeps in and  *)
(* the shared wake (crates/noeta-host-real), the SIGINT drain, and in hot  *)
(* mode the watcher that deposits swaps for the whole fleet                *)
(* (crates/noeta-cli, watch.rs and cmd/serve.rs).                          *)
(*                                                                         *)
(* Workers share the listener, the wake, the shutdown flag and the mailbox *)
(* and nothing else; a step of a worker reads or writes at most one of     *)
(* those.  Connections are model values; a request is one handler that     *)
(* waits at most once, and a stream waits as often as its client speaks.   *)
(***************************************************************************)
EXTENDS HotChannel

CONSTANTS
    Conns,      \* the connections clients may open
    NoConn,     \* no connection
    Idle,       \* an accept that waits
    Scenarios,  \* how many workers, clients and saves, and is NOETA_HOT set
    MaxHangups  \* bound on the clients that go away before their reply

ASSUME FleetBounds ==
    /\ IsFiniteSet(Conns)
    /\ NoConn \notin Conns /\ Idle \notin Conns /\ NoConn # Idle
    /\ Scenarios # {}
    /\ \A s \in Scenarios : /\ s.mode \in {"plain", "hot"}
                            /\ s.fleet \subseteq Workers /\ s.fleet # {}
                            /\ s.conns \subseteq Conns
                            /\ s.saves \in 0..MaxPlans
    /\ MaxHangups \in Nat

VARIABLES
    mode,       \* how the process was started, or "restarted"
    fleet,      \* the workers of the process
    fate,       \* what became of every connection
    gone,       \* connections whose client hung up
    pc,         \* where in its loop a worker is
    closing, exiting,   \* the flags of the drain
    held,       \* accept_future is set
    acc,        \* the accept in the executor: none, waiting or a connection
    flight,     \* in_flight
    at,         \* the index the reap has reached, 1 outside it
    job,        \* the connection and purpose of the IO being driven
    progressed, \* of the current iteration
    active,     \* http.server.active_requests
    applied,    \* Vm::applied_swaps
    hot_gen,
    waiters, permit, woken,     \* the shared Notify
    shutdown,   \* SHUTDOWN
    rouser,     \* the thread that is about to wake the fleet
    error,      \* HotChannel::error
    saves       \* the edits still to come

local == <<pc, closing, exiting, held, acc, flight, at, job, progressed, active, applied, hot_gen>>
notify == <<waiters, permit, woken>>
world == <<fate, gone>>
process == <<mode, fleet, shutdown, rouser, error, saves>>
vars == <<queue, local, notify, world, process>>

NoJob == [c |-> NoConn, for |-> "nothing"]
Over == {"over", "ended"}
Life(w) == {i \in DOMAIN flight[w] : flight[w][i].life = "http"}
Sockets(w) == DOMAIN flight[w] \ Life(w)

FleetInit ==
    /\ \E s \in Scenarios :
          /\ mode = s.mode /\ fleet = s.fleet
          /\ fate = [c \in s.conns |-> "new"]
          /\ QueueInit(Cardinality(s.fleet))
          /\ saves = s.saves
    /\ gone = {}
    /\ pc = [w \in Workers |-> IF w \in fleet THEN "boot" ELSE "ended"]
    /\ closing = [w \in Workers |-> FALSE] /\ exiting = [w \in Workers |-> FALSE]
    /\ held = [w \in Workers |-> FALSE] /\ acc = [w \in Workers |-> NoConn]
    /\ flight = [w \in Workers |-> <<>>] /\ at = [w \in Workers |-> 1]
    /\ job = [w \in Workers |-> NoJob]
    /\ progressed = [w \in Workers |-> FALSE]
    /\ active = [w \in Workers |-> 0]
    /\ applied = [w \in Workers |-> 0] /\ hot_gen = [w \in Workers |-> 0]
    /\ waiters = {} /\ permit = FALSE /\ woken = [w \in Workers |-> "no"]
    /\ shutdown = FALSE /\ rouser = "idle"
    /\ error = FALSE

----------------------------------------------------------------------------
(* Clients and the kernel.                                                 *)

HangUp(c) ==
    /\ fate[c] = "taken" /\ c \notin gone /\ Cardinality(gone) < MaxHangups
    /\ gone' = gone \union {c}
    /\ UNCHANGED <<queue, local, notify, fate, process>>

\* A worker's runtime makes progress only while the worker blocks in it: in an
\* IO it drives, or in a join loop (all, race, map_bounded) of the handler or
\* session it is polling, which sleeps in the same executor.
Reached(w) == pc[w] = "reap" /\ at[w] \in DOMAIN flight[w]
Here(w) == flight[w][at[w]]
Handling(w) == Reached(w) /\ Here(w).ready
Driving(w) == pc[w] = "driving" \/ (pc[w] = "tell" /\ Sockets(w) # {}) \/ Handling(w)
Pumping(w) == pc[w] = "parked" \/ Driving(w)

\* A client connects and sends its request: an accept that waits takes it off
\* the backlog the workers share, and reads it.  A connection that breaks
\* before its request is complete is dropped inside the accept, which goes on
\* waiting: no part of the program sees it.
AcceptReady(w, c) ==
    /\ Pumping(w) /\ acc[w] = Idle /\ fate[c] = "new"
    /\ acc' = [acc EXCEPT ![w] = c]
    /\ fate' = [fate EXCEPT ![c] = "taken"]
    /\ UNCHANGED <<queue, pc, closing, exiting, held, flight, at, job, progressed, active,
                   applied, hot_gen, notify, gone, process>>

\* What a handler or a session waits for arrives.
WorkReady(w, i) ==
    /\ Pumping(w) /\ i \in DOMAIN flight[w] /\ ~flight[w][i].ready
    /\ flight' = [flight EXCEPT ![w][i].ready = TRUE]
    /\ UNCHANGED <<queue, pc, closing, exiting, held, acc, at, job, progressed, active,
                   applied, hot_gen, notify, world, process>>

----------------------------------------------------------------------------
(* One iteration of the serve loop.                                        *)

\* Compile, claim the cursor of this consumer, bind.
Boot(w) ==
    /\ pc[w] = "boot"
    /\ IF mode = "hot" THEN register(w) ELSE UNCHANGED queue
    /\ pc' = [pc EXCEPT ![w] = "top"]
    /\ UNCHANGED <<closing, exiting, held, acc, flight, at, job, progressed, active, applied,
                   hot_gen, notify, world, process>>

\* The shutdown flag, then one accept while the listener is open, which is
\* polled.  Cancelling the accept is a no-op: its future is no task handle,
\* so the executor keeps it.
Accepted(w) == held[w] /\ acc[w] \in Conns
Top(w) ==
    /\ pc[w] = "top"
    /\ LET closes == closing[w] \/ shutdown
       IN  /\ closing' = [closing EXCEPT ![w] = closes]
           /\ held' = [held EXCEPT ![w] = ~closes]
           /\ acc' = [acc EXCEPT ![w] = IF ~closes /\ ~held[w] THEN Idle ELSE @]
           /\ pc' = [pc EXCEPT ![w] = IF ~closes /\ Accepted(w) THEN "accept" ELSE "reap"]
    /\ UNCHANGED <<queue, exiting, flight, at, job, progressed, active, applied, hot_gen, notify,
                   world, process>>

\* A connection came: its handler, which is the code of this moment, is called
\* and goes in flight; a synchronous one is ready at once.
Entry(w, c, ready) == [c |-> c, life |-> "http", ready |-> ready, ws |-> FALSE,
                       code |-> applied[w], gen |-> 0, told |-> FALSE]
Take(w) ==
    /\ pc[w] = "accept"
    /\ held' = [held EXCEPT ![w] = FALSE]
    /\ acc' = [acc EXCEPT ![w] = NoConn]
    /\ progressed' = [progressed EXCEPT ![w] = TRUE]

Dispatch(w, ready) ==
    /\ Take(w)
    /\ active' = [active EXCEPT ![w] = @ + 1]
    /\ flight' = [flight EXCEPT ![w] = Append(@, Entry(w, acc[w], ready))]
    /\ pc' = [pc EXCEPT ![w] = "reap"]
    /\ UNCHANGED <<queue, closing, exiting, at, job, applied, hot_gen, notify, world, process>>

\* begin_exit: the program's own drain.
begin_exit(w, exits) ==
    /\ exiting' = [exiting EXCEPT ![w] = @ \/ exits]
    /\ closing' = [closing EXCEPT ![w] = @ \/ exits]

\* The call itself aborts: a 500, or a 503 and the drain, with no entry made.
DispatchAborts(w, exits) ==
    /\ Take(w)
    /\ begin_exit(w, exits)
    /\ job' = [job EXCEPT ![w] = [c |-> acc[w], for |-> "abort"]]
    /\ pc' = [pc EXCEPT ![w] = "driving"]
    /\ UNCHANGED <<queue, at, flight, active, applied, hot_gen, notify, world, process>>

\* The reap, entry by entry.
ReapPending(w) ==
    /\ Reached(w) /\ ~Here(w).ready
    /\ at' = [at EXCEPT ![w] = @ + 1]
    /\ UNCHANGED <<queue, pc, closing, exiting, held, acc, flight, job, progressed, active,
                   applied, hot_gen, notify, world, process>>

\* A handler returned or aborted: the metrics end, then the reply is driven,
\* or the handshake of an upgrade; an exit starts the drain first.
Drive(w, for) ==
    /\ job' = [job EXCEPT ![w] = [c |-> Here(w).c, for |-> for]]
    /\ pc' = [pc EXCEPT ![w] = "driving"]
\* Mutant: an upgrade leaves the request counted.
ReapHandler_counted(w, for, exits) ==
    /\ Reached(w) /\ Here(w).ready /\ Here(w).life = "http"
    /\ exits => for = "reply"
    /\ begin_exit(w, exits)
    /\ held' = [held EXCEPT ![w] = @ /\ ~exits]
    /\ active' = [active EXCEPT ![w] = IF for = "reply" THEN @ - 1 ELSE @]
    /\ Drive(w, for)
    /\ UNCHANGED <<queue, acc, flight, at, progressed, applied, hot_gen, notify, world, process>>
ReapHandler(w, for, exits) ==
    /\ Reached(w) /\ Here(w).ready /\ Here(w).life = "http"
    /\ exits => for = "reply"
    /\ begin_exit(w, exits)
    /\ held' = [held EXCEPT ![w] = @ /\ ~exits]
    /\ active' = [active EXCEPT ![w] = @ - 1]
    /\ Drive(w, for)
    /\ UNCHANGED <<queue, acc, flight, at, progressed, applied, hot_gen, notify, world, process>>

\* A session is polled: it goes on waiting, or ends and its stream is closed.
ReapSession(w) ==
    /\ Reached(w) /\ Here(w).ready /\ Here(w).life # "http"
    /\ flight' = [flight EXCEPT ![w][at[w]] = [@ EXCEPT !.life = "live", !.ready = FALSE]]
    /\ at' = [at EXCEPT ![w] = @ + 1]
    /\ UNCHANGED <<queue, pc, closing, exiting, held, acc, job, progressed, active, applied,
                   hot_gen, notify, world, process>>
EndSession(w, exits) ==
    /\ Reached(w) /\ Here(w).ready /\ Here(w).life # "http"
    /\ begin_exit(w, exits)
    /\ held' = [held EXCEPT ![w] = @ /\ ~exits]
    /\ Drive(w, "close")
    /\ UNCHANGED <<queue, acc, flight, at, progressed, active, applied, hot_gen, notify, world,
                   process>>

\* The driven IO completes.  A reply or a close takes the entry out.
Settle(w, what) ==
    /\ fate' = [fate EXCEPT ![job[w].c] = what]
    /\ job' = [job EXCEPT ![w] = NoJob]
    /\ pc' = [pc EXCEPT ![w] = "reap"]
Driven(w) ==
    /\ pc[w] = "driving" /\ job[w].for \in {"abort", "reply", "close"}
    /\ Settle(w, IF job[w].for = "close" THEN "closed" ELSE "replied")
    /\ IF job[w].for = "abort"
       THEN UNCHANGED <<flight, progressed>>
       ELSE /\ flight' = [flight EXCEPT ![w] = RemoveAt(@, at[w])]
            /\ progressed' = [progressed EXCEPT ![w] = TRUE]
    /\ UNCHANGED <<queue, closing, exiting, held, acc, at, active, applied, hot_gen, notify,
                   gone, process>>
\* The handshake of a websocket, or the head of an event stream, is out: the
\* session is called and the entry lives again, on the code of the handler that
\* made the session.  The call only makes a future, which the reap polls when
\* it comes round again.
Upgraded(w, ws) ==
    /\ pc[w] = "driving" /\ job[w].for = "upgrade"
    /\ Settle(w, "stream")
    /\ flight' = [flight EXCEPT ![w][at[w]] =
                      [@ EXCEPT !.life = "opened", !.ws = ws, !.gen = applied[w]]]
    /\ at' = [at EXCEPT ![w] = @ + 1]
    /\ UNCHANGED <<queue, closing, exiting, held, acc, progressed, active, applied, hot_gen,
                   notify, gone, process>>
\* The session's call aborts: the stream is closed at once.
UpgradeAborts(w, exits) ==
    /\ pc[w] = "driving" /\ job[w].for = "upgrade"
    /\ begin_exit(w, exits)
    /\ held' = [held EXCEPT ![w] = @ /\ ~exits]
    /\ job' = [job EXCEPT ![w].for = "close"]
    /\ UNCHANGED <<queue, pc, acc, flight, at, progressed, active, applied, hot_gen, notify,
                   world, process>>

\* Writing to a client that is gone fails, and the failure is propagated out
\* of the serve loop: the worker's run ends with everything it had in flight,
\* and nothing ends the metrics of those requests.
Lost(w) == {job[w].c, acc[w]} \union {flight[w][i].c : i \in DOMAIN flight[w]}
Leave(w) ==
    /\ pc' = [pc EXCEPT ![w] = "over"]
    /\ fate' = [c \in DOMAIN fate |-> IF c \in Lost(w) /\ fate[c] \in {"taken", "stream"}
                                THEN "dropped" ELSE fate[c]]
    /\ acc' = [acc EXCEPT ![w] = NoConn]
    /\ held' = [held EXCEPT ![w] = FALSE]
    /\ job' = [job EXCEPT ![w] = NoJob]
    /\ flight' = [flight EXCEPT ![w] = <<>>]
    /\ at' = [at EXCEPT ![w] = 1] /\ progressed' = [progressed EXCEPT ![w] = FALSE]
DriveFails(w) ==
    /\ pc[w] = "driving" /\ job[w].for # "close" /\ job[w].c \in gone
    /\ Leave(w)
    /\ UNCHANGED <<queue, closing, exiting, active, applied, hot_gen, notify, gone, process>>

\* After the reap: the drain is complete, or the tasks advance.
Reaped(w) == pc[w] = "reap" /\ at[w] > Len(flight[w])
Drained(w) == closing[w] /\ flight[w] = <<>> /\ ~held[w]
Finish(w) ==
    /\ Reaped(w) /\ Drained(w)
    /\ Leave(w)
    /\ UNCHANGED <<queue, closing, exiting, active, applied, hot_gen, notify, gone, process>>

\* advance_tasks: drain the mailbox and apply what was pending, in order; a
\* plan that fails counts as applied.
NothingPending(w) == mode # "hot" \/ Pending(w) = {}
\* Mutant: the drain gives up when another worker is at it.
Tasks_try(w) ==
    /\ Reaped(w) /\ ~Drained(w)
    /\ pc' = [pc EXCEPT ![w] = "tell"] /\ at' = [at EXCEPT ![w] = 1]
    /\ IF NothingPending(w) \/ \E v \in Workers \ {w} : Reaped(v) /\ ~NothingPending(v)
       THEN UNCHANGED <<queue, applied>>
       ELSE /\ drain(w)
            /\ applied' = [applied EXCEPT ![w] = @ + Cardinality(Pending(w))]
    /\ UNCHANGED <<closing, exiting, held, acc, flight, job, progressed, active, hot_gen, notify,
                   world, process>>
Tasks(w) ==
    /\ Reaped(w) /\ ~Drained(w)
    /\ pc' = [pc EXCEPT ![w] = "tell"] /\ at' = [at EXCEPT ![w] = 1]
    /\ IF NothingPending(w)
       THEN UNCHANGED <<queue, applied>>
       ELSE /\ drain(w)
            /\ applied' = [applied EXCEPT ![w] = @ + Cardinality(Pending(w))]
    /\ UNCHANGED <<closing, exiting, held, acc, flight, job, progressed, active, hot_gen, notify,
                   world, process>>

\* The join loop of a handler calls advance_tasks too: it applies the swaps
\* there and then, long before the next broadcast.
HandlerTasks(w) ==
    /\ Handling(w) /\ ~NothingPending(w)
    /\ drain(w)
    /\ applied' = [applied EXCEPT ![w] = @ + Cardinality(Pending(w))]
    /\ UNCHANGED <<pc, closing, exiting, held, acc, flight, at, job, progressed, active, hot_gen,
                   notify, world, process>>

\* hot_broadcast: websockets are told of a swap and closed, and of an error;
\* event streams are not.
swap_count(w) == applied[w]
\* Mutant: a session that has something to read is passed over.
Audience_idle(w) == {i \in Sockets(w) : flight[w][i].ws /\ ~flight[w][i].ready}
Audience(w) == {i \in Sockets(w) : flight[w][i].ws}
Tell(w) ==
    /\ pc[w] = "tell"
    /\ LET landed == swap_count(w) # hot_gen[w]
       IN  /\ hot_gen' = [hot_gen EXCEPT ![w] = swap_count(w)]
           /\ flight' = [flight EXCEPT ![w] = [i \in DOMAIN flight[w] |->
                  [flight[w][i] EXCEPT !.told =
                      flight[w][i].told \/ (landed /\ i \in Audience(w))]]]
           /\ progressed' = [progressed EXCEPT ![w] = @ \/ landed \/ error]
    /\ error' = FALSE
    /\ pc' = [pc EXCEPT ![w] = "park"]
    /\ UNCHANGED <<queue, closing, exiting, held, acc, at, job, active, applied, notify, world,
                   mode, fleet, shutdown, rouser, saves>>

----------------------------------------------------------------------------
(* The executor's advance, and the wake it sleeps on.                      *)

\* The executor knows of finished IO only, not of a session yet to be polled.
WorkDone(w) ==
    acc[w] \in Conns \/ \E i \in DOMAIN flight[w] : flight[w][i].ready /\ flight[w][i].life # "opened"
\* The result of an accept nobody polls any more is harvested and forgotten.
Harvest(w) ==
    IF acc[w] \in Conns /\ ~held[w]
    THEN /\ acc' = [acc EXCEPT ![w] = NoConn]
         /\ fate' = [fate EXCEPT ![acc[w]] = "dropped"]
    ELSE UNCHANGED <<acc, fate>>

\* No need to sleep: there was progress, or work is done, or a stored permit.
Awake(w) ==
    /\ pc[w] = "park" /\ (progressed[w] \/ WorkDone(w) \/ permit)
    /\ pc' = [pc EXCEPT ![w] = "top"]
    /\ IF progressed[w] THEN UNCHANGED <<acc, fate, permit>>
       ELSE IF WorkDone(w) THEN Harvest(w) /\ UNCHANGED permit
       ELSE permit' = FALSE /\ UNCHANGED <<acc, fate>>
    /\ progressed' = [progressed EXCEPT ![w] = FALSE]
    /\ UNCHANGED <<queue, closing, exiting, held, flight, at, job, active, applied, hot_gen,
                   waiters, woken, gone, process>>

Park(w) ==
    /\ pc[w] = "park" /\ ~progressed[w] /\ ~WorkDone(w) /\ ~permit
    /\ pc' = [pc EXCEPT ![w] = "parked"]
    /\ waiters' = waiters \union {w}
    /\ UNCHANGED <<queue, closing, exiting, held, acc, flight, at, job, progressed, active,
                   applied, hot_gen, permit, woken, world, process>>

UnparkWoken(w) ==
    /\ pc[w] = "parked" /\ woken[w] # "no"
    /\ pc' = [pc EXCEPT ![w] = "top"]
    /\ woken' = [woken EXCEPT ![w] = "no"]
    /\ UNCHANGED <<queue, closing, exiting, held, acc, flight, at, job, progressed, active,
                   applied, hot_gen, waiters, permit, world, process>>

\* Notify::notify_one, on the workers that would then be waiting.  A worker
\* that drives an IO sleeps on the same wake; there it only ends that sleep.
GiveOne(ws, wk) ==
    \/ /\ ws = {} /\ permit' = TRUE
       /\ waiters' = ws /\ woken' = wk
    \/ /\ \E v \in fleet : Driving(v)
       /\ waiters' = ws /\ woken' = wk
       /\ UNCHANGED permit
    \/ \E v \in ws : /\ waiters' = ws \ {v}
                     /\ woken' = [wk EXCEPT ![v] = "one"]
                     /\ UNCHANGED permit

\* The drive of an IO takes the stored permit.
Absorb(w) ==
    /\ Driving(w) /\ permit
    /\ permit' = FALSE
    /\ UNCHANGED <<queue, local, waiters, woken, world, process>>

\* Any finished work ends the sleep; a wake received but not used for that is
\* passed on if it was a permit.
\* Mutant: the sleep is on the accept alone.
UnparkWork_accept(w) ==
    /\ pc[w] = "parked" /\ acc[w] \in Conns
    /\ pc' = [pc EXCEPT ![w] = "top"]
    /\ Harvest(w)
    /\ waiters' = waiters \ {w}
    /\ woken' = [woken EXCEPT ![w] = "no"]
    /\ UNCHANGED <<queue, closing, exiting, held, flight, at, job, progressed, active, applied,
                   hot_gen, permit, gone, process>>
UnparkWork(w) ==
    /\ pc[w] = "parked" /\ WorkDone(w)
    /\ pc' = [pc EXCEPT ![w] = "top"]
    /\ Harvest(w)
    /\ LET ws == waiters \ {w}
           wk == [woken EXCEPT ![w] = "no"]
       IN  IF woken[w] = "one" THEN GiveOne(ws, wk)
           ELSE waiters' = ws /\ woken' = wk /\ UNCHANGED permit
    /\ UNCHANGED <<queue, closing, exiting, held, flight, at, job, progressed, active, applied,
                   hot_gen, gone, process>>

\* The run is over: its cursor is retired.
Retire(w) ==
    /\ pc[w] = "over"
    /\ IF mode = "hot" THEN retire(w) ELSE UNCHANGED queue
    /\ pc' = [pc EXCEPT ![w] = "ended"]
    /\ UNCHANGED <<closing, exiting, held, acc, flight, at, job, progressed, active, applied,
                   hot_gen, notify, world, process>>

----------------------------------------------------------------------------
(* The signal thread and the watcher.                                      *)

\* Ctrl-C: the flag, then the wake.  Only a plain server installs the handler.
Sigint ==
    /\ mode = "plain" /\ ~shutdown /\ rouser = "idle"
    /\ shutdown' = TRUE
    /\ rouser' = "waiters"
    /\ UNCHANGED <<queue, local, notify, world, mode, fleet, error, saves>>

\* A save that checks and can be swapped: deposit, clear the error, wake.
EditSwaps ==
    /\ mode = "hot" /\ rouser = "idle" /\ saves > 0
    /\ saves' = saves - 1
    /\ deposit
    /\ rouser' = "clear"
    /\ UNCHANGED <<local, notify, world, mode, fleet, shutdown, error>>
ClearError ==
    /\ rouser = "clear"
    /\ error' = FALSE
    /\ rouser' = "waiters"
    /\ UNCHANGED <<queue, local, notify, world, mode, fleet, shutdown, saves>>

\* A save that does not check: the diagnostics, then the wake.
EditFails ==
    /\ mode = "hot" /\ rouser = "idle" /\ saves > 0
    /\ saves' = saves - 1
    /\ error' = TRUE
    /\ rouser' = "waiters"
    /\ UNCHANGED <<queue, local, notify, world, mode, fleet, shutdown>>

\* A save the live process cannot absorb: it exits there and then.
Restart ==
    /\ mode = "hot" /\ rouser = "idle"
    /\ mode' = "restarted"
    /\ pc' = [w \in Workers |-> "ended"]
    /\ fate' = [c \in DOMAIN fate |-> IF fate[c] \in {"taken", "stream"}
                                THEN "dropped" ELSE fate[c]]
    /\ flight' = [w \in Workers |-> <<>>]
    /\ job' = [w \in Workers |-> NoJob]
    /\ acc' = [w \in Workers |-> NoConn]
    /\ held' = [w \in Workers |-> FALSE]
    /\ active' = [w \in Workers |-> 0]
    /\ UNCHANGED <<queue, closing, exiting, at, progressed, applied, hot_gen, notify, gone,
                   fleet, shutdown, rouser, error, saves>>

\* wake_all: notify_waiters, then notify_one.
NotifyWaiters ==
    /\ rouser = "waiters"
    /\ woken' = [w \in Workers |-> IF w \in waiters THEN "all" ELSE woken[w]]
    /\ waiters' = {}
    /\ rouser' = "one"
    /\ UNCHANGED <<queue, local, permit, world, mode, fleet, shutdown, error, saves>>
NotifyOne ==
    /\ rouser = "one"
    /\ GiveOne(waiters, woken)
    /\ rouser' = "idle"
    /\ UNCHANGED <<queue, local, world, mode, fleet, shutdown, error, saves>>

\* The kinds of stream an upgrade opens, websockets and event streams.  Only the
\* broadcast tells them apart, and a plain server never has one to make.
Streams == IF mode = "plain" THEN {TRUE} ELSE BOOLEAN

----------------------------------------------------------------------------
Worker(w) ==
    \/ Boot(w) \/ Top(w)
    \/ \E b \in BOOLEAN : Dispatch(w, b) \/ DispatchAborts(w, b)
    \/ ReapPending(w) \/ ReapSession(w)
    \/ \E exits \in BOOLEAN :
          \/ \E for \in {"reply", "upgrade"} : ReapHandler(w, for, exits)
          \/ EndSession(w, exits) \/ UpgradeAborts(w, exits)
    \/ Driven(w) \/ (\E ws \in Streams : Upgraded(w, ws)) \/ DriveFails(w) \/ Finish(w)
    \/ Tasks(w) \/ HandlerTasks(w) \/ Tell(w)
    \/ Awake(w) \/ Park(w) \/ UnparkWoken(w) \/ UnparkWork(w) \/ Retire(w)
Rouser == ClearError \/ NotifyWaiters \/ NotifyOne
Editor == Sigint \/ EditSwaps \/ EditFails \/ Restart
Client == \E c \in DOMAIN fate : HangUp(c)
Kernel(w) == \/ Absorb(w)
             \/ \E c \in DOMAIN fate : AcceptReady(w, c)
             \/ \E i \in 1..Cardinality(Conns) : WorkReady(w, i)

Next ==
    \/ \E w \in fleet : Worker(w) \/ Kernel(w)
    \/ Rouser \/ Editor \/ Client

\* Threads run, and what a request handler waits for arrives and stays until
\* the worker's runtime next polls (hence strong fairness: the runtime is not
\* always polling).  Nobody has to connect, speak on a socket, edit or press
\* Ctrl-C.
HandlerReady(w) == \E i \in Life(w) : WorkReady(w, i)
Fairness ==
    /\ \A w \in Workers : WF_vars(Worker(w)) /\ SF_vars(HandlerReady(w))
    /\ WF_vars(Rouser)
Spec == FleetInit /\ [][Next]_vars /\ Fairness

----------------------------------------------------------------------------
(* Properties.                                                             *)

TypeOK ==
    /\ plans \in Seq(BOOLEAN) /\ \A k \in DOMAIN cursors : cursors[k] \in 0..RETIRED
    /\ fate \in [DOMAIN fate -> {"new", "taken", "replied", "stream", "closed", "dropped"}]
    /\ acc \in [Workers -> Conns \union {NoConn, Idle}]
    /\ woken \in [Workers -> {"no", "all", "one"}] /\ waiters \subseteq Workers
    /\ rouser \in {"idle", "clear", "waiters", "one"}

\* Every connection a worker took is in exactly one place of one worker, and
\* is answered at most once, by that worker; while the loop runs, the gauge of
\* active requests counts exactly the handlers in flight whose answer is still
\* to come, and a loop that has ended leaves it raised only where a client broke
\* its connection: then the requests that were in flight stay counted for ever.
Places(c) ==
    {<<w, "accept">> : w \in {v \in Workers : acc[v] = c}}
    \union {<<w, "called">> : w \in {v \in Workers : job[v] = [c |-> c, for |-> "abort"]}}
    \union UNION {{<<w, i>> : i \in {j \in DOMAIN flight[w] : flight[w][j].c = c}} : w \in Workers}
Ended(w) == pc[w] = "driving" /\ job[w].for # "abort" /\ Here(w).life = "http"
ServeExact ==
    /\ TypeOK
    /\ \A c \in DOMAIN fate : Cardinality(Places(c)) = (IF fate[c] \in {"taken", "stream"} THEN 1 ELSE 0)
    /\ \A w \in Workers :
          IF pc[w] \in Over THEN active[w] = 0 \/ (active[w] > 0 /\ gone # {})
          ELSE active[w] = Cardinality(Life(w)) - (IF Ended(w) THEN 1 ELSE 0)

\* No consumer that still runs, or has yet to register, has a plan reclaimed
\* before it took it, and every worker has applied as many plans as its cursor
\* is past: none skipped, none twice.
QueueExact ==
    /\ ~hole
    /\ \A i \in DOMAIN plans : ~plans[i] => \A k \in DOMAIN cursors : cursors[k] >= i
    /\ \A w \in Workers : slot[w] # 0 /\ cursors[slot[w]] # RETIRED =>
           applied[w] = cursors[slot[w]]

\* A websocket that was open when a swap was applied, in the serve loop or in a
\* handler's own join loop, has been told to reload before the serve loop
\* sleeps.  It says nothing of a session that is opened after the swap by a
\* handler that was called before it: see SessionsCurrent.
ReloadTold ==
    \A w \in Workers : pc[w] = "parked" =>
        \A i \in Sockets(w) :
            flight[w][i].ws /\ flight[w][i].gen < applied[w] => flight[w][i].told

\* One wake is enough: a worker the wake reached applies all that had been
\* deposited, and after Ctrl-C ends, unless a client keeps a socket open.
Roused ==
    \A w \in Workers :
        /\ \A n \in 1..MaxPlans :
              (woken[w] # "no" /\ Len(plans) >= n) ~> (applied[w] >= n \/ pc[w] \in Over)
        /\ (woken[w] # "no" /\ shutdown) ~> (pc[w] \in Over \/ Sockets(w) # {})

\* A request that was accepted is answered, unless a drain had begun, a
\* client broke its connection or the process was restarted.
Excused == shutdown \/ gone # {} \/ mode = "restarted" \/ \E w \in Workers : exiting[w]
In(c, fates) == c \in DOMAIN fate /\ fate[c] \in fates
AcceptedAnswered ==
    \A c \in Conns : In(c, {"taken"}) ~> (In(c, {"replied", "stream", "closed"}) \/ Excused)

\* "Swaps apply immediately even when the server is idle": a deposited plan
\* reaches every worker.
SwapReachesAll ==
    \A w \in Workers : \A n \in 1..MaxPlans :
        (Len(plans) >= n) ~> (applied[w] >= n \/ pc[w] \in Over)

\* "every live websocket session ... a session is old code with old bindings":
\* no session runs older code than its worker without having been told.  Fails:
\* the handler was called before the swap and upgrades after the broadcast, so
\* the session it made is old code and nobody tells it until the next swap.
SessionsCurrent ==
    \A w \in Workers : pc[w] = "parked" =>
        \A i \in Sockets(w) :
            flight[w][i].ws /\ flight[w][i].code < applied[w] => flight[w][i].told

\* "Both are ordinary in-flight handlers to the serve loop": a session that was
\* opened is started, whether or not anything else happens on the server.
SessionStarts ==
    \A w \in Workers :
        (\E i \in DOMAIN flight[w] : flight[w][i].life = "opened")
            ~> (\A i \in DOMAIN flight[w] : flight[w][i].life # "opened")

\* "finishes the requests already in flight": Ctrl-C drops no request that
\* was accepted.
DrainDropsNothing ==
    mode = "plain" /\ gone = {} /\ (\A w \in Workers : ~exiting[w]) =>
        \A c \in DOMAIN fate : fate[c] # "dropped"
=============================================================================
