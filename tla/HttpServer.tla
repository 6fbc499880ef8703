----------------------------- MODULE HttpServer -----------------------------
(***************************************************************************)
(* The threaded HTTP server around its connections: serveNative and its    *)
(* accept loops in src/src/serve.zig, requestShutdown of app.zig.          *)
(*                                                                         *)
(* The main thread binds the listener, starts the extra accept threads,    *)
(* runs an accept loop itself, joins the others, waits for the connections *)
(* to drain and closes the listener.  What a connection does meanwhile is  *)
(* HttpConnection's; here it is a detached thread that ends.               *)
(***************************************************************************)
EXTENDS Integers, FiniteSets

CONSTANTS
    Extra,           \* accept threads besides main
    Main,
    Conns,           \* TCP connections of clients
    NoConn,
    Stoppers,        \* calls of requestShutdown, each on a thread of its own
    MaxConnections,  \* max_connections
    MaxErrors        \* bound: accept(2) errors and failed thread spawns

ASSUME ServerAssumption ==
    /\ IsFiniteSet(Extra) /\ Main \notin Extra
    /\ IsFiniteSet(Conns) /\ NoConn \notin Conns
    /\ MaxConnections \in Nat /\ MaxErrors \in Nat

Acceptors == Extra \cup {Main}

VARIABLES
    main,      \* where serveNative is
    listener,  \* the socket, and whether listener_fd shows it
    shut,      \* shutdown(2) was called on the listener
    flag,      \* shutdown_flag
    stop,      \* where each requestShutdown is
    at,        \* where each accept loop is
    hold,      \* the connection an accept loop has in hand
    conn,      \* what became of each connection
    active,    \* active_connections
    errors,    \* accept(2) errors and failed spawns so far
    stray      \* shutdown(2) hit a descriptor that was no longer the listener

vars == <<main, listener, shut, flag, stop, at, hold, conn, active, errors, stray>>

MainSteps == {"bind", "publish", "spawn", "loop", "join", "drain", "unpublish",
              "close", "returned", "failed"}
LoopSteps == {"off", "check", "poll", "recheck", "accept", "sleep", "count",
              "start", "refuse", "ended"}
ConnStates == {"away", "queued", "taken", "served", "ended", "dropped", "left"}

TypeOK ==
    /\ main \in MainSteps /\ listener \in {"none", "bound", "published", "closed"}
    /\ shut \in BOOLEAN /\ flag \in BOOLEAN /\ stray \in BOOLEAN
    /\ stop \in [Stoppers -> {"idle", "flagged", "holding", "done"}]
    /\ at \in [Acceptors -> LoopSteps] /\ hold \in [Acceptors -> Conns \cup {NoConn}]
    /\ conn \in [Conns -> ConnStates]
    /\ active \in Nat /\ errors \in 0..MaxErrors

Init ==
    /\ main = "bind" /\ listener = "none" /\ shut = FALSE /\ flag = FALSE
    /\ stop = [s \in Stoppers |-> "idle"]
    /\ at = [a \in Acceptors |-> "off"] /\ hold = [a \in Acceptors |-> NoConn]
    /\ conn = [c \in Conns |-> "away"]
    /\ active = 0 /\ errors = 0 /\ stray = FALSE

Queued == {c \in Conns : conn[c] = "queued"}
Error  == errors < MaxErrors /\ errors' = errors + 1

-----------------------------------------------------------------------------
(***************************************************************************)
(* serveNative.                                                            *)
(***************************************************************************)
Bind ==
    /\ main = "bind"
    /\ main' = "publish" /\ listener' = "bound"
    /\ UNCHANGED <<shut, flag, stop, at, hold, conn, active, errors, stray>>

Publish ==
    /\ main = "publish"
    /\ main' = "spawn" /\ listener' = "published"
    /\ UNCHANGED <<shut, flag, stop, at, hold, conn, active, errors, stray>>

SpawnAcceptor(a) ==
    /\ main = "spawn" /\ at[a] = "off"
    /\ at' = [at EXCEPT ![a] = "check"]
    /\ UNCHANGED <<main, listener, shut, flag, stop, hold, conn, active, errors, stray>>

\* An accept thread cannot be spawned: serveNative returns the error, and its
\* frame, listener and counter are gone under the threads already running.
\* Nothing is said of what happens then.
SpawnFails ==
    /\ main = "spawn" /\ \E a \in Extra : at[a] = "off"
    /\ Error
    /\ main' = "failed" /\ listener' = "closed"
    /\ UNCHANGED <<shut, flag, stop, at, hold, conn, active, stray>>

EnterLoop ==
    /\ main = "spawn" /\ \A a \in Extra : at[a] # "off"
    /\ main' = "loop" /\ at' = [at EXCEPT ![Main] = "check"]
    /\ UNCHANGED <<listener, shut, flag, stop, hold, conn, active, errors, stray>>

LeaveLoop ==
    /\ main = "loop" /\ at[Main] = "ended"
    /\ main' = "join"
    /\ UNCHANGED <<listener, shut, flag, stop, at, hold, conn, active, errors, stray>>

\* (Faulty variant: main does not join the other accept threads.)
JoinNone ==
    /\ main = "join"
    /\ main' = "drain"
    /\ UNCHANGED <<listener, shut, flag, stop, at, hold, conn, active, errors, stray>>
Join ==
    /\ main = "join" /\ \A a \in Extra : at[a] = "ended"
    /\ main' = "drain"
    /\ UNCHANGED <<listener, shut, flag, stop, at, hold, conn, active, errors, stray>>

Drain ==
    /\ main = "drain" /\ active = 0
    /\ main' = "unpublish"
    /\ UNCHANGED <<listener, shut, flag, stop, at, hold, conn, active, errors, stray>>

Unpublish ==
    /\ main = "unpublish"
    /\ main' = "close" /\ listener' = "bound"
    /\ UNCHANGED <<shut, flag, stop, at, hold, conn, active, errors, stray>>

CloseListener ==
    /\ main = "close"
    /\ main' = "returned" /\ listener' = "closed"
    /\ UNCHANGED <<shut, flag, stop, at, hold, conn, active, errors, stray>>

MainStep == \/ Bind \/ Publish \/ SpawnFails \/ EnterLoop \/ LeaveLoop \/ Join
            \/ Drain \/ Unpublish \/ CloseListener
            \/ \E a \in Extra : SpawnAcceptor(a)

-----------------------------------------------------------------------------
(***************************************************************************)
(* App.requestShutdown: set the flag, load listener_fd, shut that down.    *)
(***************************************************************************)
SetFlag(s) ==
    /\ stop[s] = "idle"
    /\ stop' = [stop EXCEPT ![s] = "flagged"] /\ flag' = TRUE
    /\ UNCHANGED <<main, listener, shut, at, hold, conn, active, errors, stray>>

LoadFd(s) ==
    /\ stop[s] = "flagged"
    /\ stop' = [stop EXCEPT ![s] = IF listener = "published" THEN "holding" ELSE "done"]
    /\ UNCHANGED <<main, listener, shut, flag, at, hold, conn, active, errors, stray>>

ShutDown(s) ==
    /\ stop[s] = "holding"
    /\ stop' = [stop EXCEPT ![s] = "done"]
    /\ shut' = TRUE /\ stray' = (stray \/ listener = "closed")
    /\ UNCHANGED <<main, listener, flag, at, hold, conn, active, errors>>

-----------------------------------------------------------------------------
(***************************************************************************)
(* Clients.                                                                *)
(***************************************************************************)
Connect(c) ==
    /\ conn[c] = "away" /\ listener \in {"bound", "published"} /\ ~shut
    /\ conn' = [conn EXCEPT ![c] = "queued"]
    /\ UNCHANGED <<main, listener, shut, flag, stop, at, hold, active, errors, stray>>

\* A client gives up in the queue: accept(2) reports ECONNABORTED or nothing.
Leave(c) ==
    /\ conn[c] = "queued"
    /\ conn' = [conn EXCEPT ![c] = "left"]
    /\ UNCHANGED <<main, listener, shut, flag, stop, at, hold, active, errors, stray>>

-----------------------------------------------------------------------------
(***************************************************************************)
(* acceptLoop, run by every accept thread and by main.                     *)
(***************************************************************************)
Goto(a, step) == at' = [at EXCEPT ![a] = step]
LoopUnchanged == UNCHANGED <<main, listener, shut, flag, stop, stray>>

\* The loop condition, and the load of listener_fd.
\* (Faulty variant: the flag is not looked at.)
CheckBlind(a) ==
    /\ at[a] = "check"
    /\ Goto(a, IF listener # "published" THEN "ended" ELSE "poll")
    /\ LoopUnchanged /\ UNCHANGED <<hold, conn, active, errors>>
Check(a) ==
    /\ at[a] = "check"
    /\ Goto(a, IF flag \/ listener # "published" THEN "ended" ELSE "poll")
    /\ LoopUnchanged /\ UNCHANGED <<hold, conn, active, errors>>

\* waitAcceptReady: ready at once, or back to the flag after accept_poll_ms.
Poll(a) ==
    /\ at[a] = "poll"
    /\ Goto(a, IF Queued # {} \/ shut THEN "recheck" ELSE "check")
    /\ LoopUnchanged /\ UNCHANGED <<hold, conn, active, errors>>

Recheck(a) ==
    /\ at[a] = "recheck"
    /\ Goto(a, IF flag THEN "ended" ELSE "accept")
    /\ LoopUnchanged /\ UNCHANGED <<hold, conn, active, errors>>

Accept(a, c) ==
    /\ at[a] = "accept" /\ ~shut /\ c \in Queued
    /\ Goto(a, "count") /\ hold' = [hold EXCEPT ![a] = c]
    /\ conn' = [conn EXCEPT ![c] = "taken"]
    /\ LoopUnchanged /\ UNCHANGED <<active, errors>>

\* EAGAIN: another thread took it, or its client left.
AcceptNothing(a) ==
    /\ at[a] = "accept" /\ ~shut /\ Queued = {}
    /\ Goto(a, "check")
    /\ LoopUnchanged /\ UNCHANGED <<hold, conn, active, errors>>

\* (Faulty variant: any hard error ends the loop.)
AcceptFailsEnds(a) ==
    /\ at[a] = "accept"
    /\ IF shut THEN UNCHANGED errors ELSE Error
    /\ Goto(a, "ended")
    /\ LoopUnchanged /\ UNCHANGED <<hold, conn, active>>

\* A hard error, of the system or of a listener that is shut down: the flag ends
\* the loop, else it backs off.
AcceptFails(a) ==
    /\ at[a] = "accept"
    /\ IF shut THEN UNCHANGED errors ELSE Error
    /\ Goto(a, IF flag THEN "ended" ELSE "sleep")
    /\ LoopUnchanged /\ UNCHANGED <<hold, conn, active>>

WakeUp(a) ==
    /\ at[a] = "sleep"
    /\ Goto(a, "check")
    /\ LoopUnchanged /\ UNCHANGED <<hold, conn, active, errors>>

\* active_connections.fetchAdd, whose old value decides.
\* (Faulty variant: one too many is let in.)
CountOver(a) ==
    /\ at[a] = "count"
    /\ active' = active + 1
    /\ Goto(a, IF active > MaxConnections THEN "refuse" ELSE "start")
    /\ LoopUnchanged /\ UNCHANGED <<hold, conn, errors>>
Count(a) ==
    /\ at[a] = "count"
    /\ active' = active + 1
    /\ Goto(a, IF active >= MaxConnections THEN "refuse" ELSE "start")
    /\ LoopUnchanged /\ UNCHANGED <<hold, conn, errors>>

StartThread(a) ==
    /\ at[a] = "start"
    /\ Goto(a, "check") /\ hold' = [hold EXCEPT ![a] = NoConn]
    /\ conn' = [conn EXCEPT ![hold[a]] = "served"]
    /\ LoopUnchanged /\ UNCHANGED <<active, errors>>

\* (Faulty variant: the count is given back here and again on the way out.)
StartFailsTwice(a) ==
    /\ at[a] = "start" /\ Error
    /\ Goto(a, "refuse") /\ active' = active - 1
    /\ LoopUnchanged /\ UNCHANGED <<hold, conn>>
StartFails(a) ==
    /\ at[a] = "start" /\ Error
    /\ Goto(a, "refuse")
    /\ LoopUnchanged /\ UNCHANGED <<hold, conn, active>>

\* Give the count back and close the socket.
\* (Faulty variant: the count is kept.)
RefuseCounted(a) ==
    /\ at[a] = "refuse"
    /\ active' = active
    /\ Goto(a, "check") /\ hold' = [hold EXCEPT ![a] = NoConn]
    /\ conn' = [conn EXCEPT ![hold[a]] = "dropped"]
    /\ LoopUnchanged /\ UNCHANGED errors
Refuse(a) ==
    /\ at[a] = "refuse"
    /\ active' = active - 1
    /\ Goto(a, "check") /\ hold' = [hold EXCEPT ![a] = NoConn]
    /\ conn' = [conn EXCEPT ![hold[a]] = "dropped"]
    /\ LoopUnchanged /\ UNCHANGED errors

\* connectionThread: handleConnection ended, with or without an error.
EndConnection(c) ==
    /\ conn[c] = "served"
    /\ conn' = [conn EXCEPT ![c] = "ended"]
    /\ active' = active - 1
    /\ LoopUnchanged /\ UNCHANGED <<at, hold, errors>>

-----------------------------------------------------------------------------
LoopStep(a) ==
    \/ Check(a) \/ Poll(a) \/ Recheck(a)
    \/ \E c \in Conns : Accept(a, c)
    \/ AcceptNothing(a) \/ AcceptFails(a) \/ WakeUp(a)
    \/ Count(a) \/ StartThread(a) \/ StartFails(a) \/ Refuse(a)

Running == main # "failed"

Next ==
    /\ Running
    /\ \/ MainStep
       \/ \E a \in Acceptors : LoopStep(a)
       \/ \E s \in Stoppers : SetFlag(s) \/ LoadFd(s) \/ ShutDown(s)
       \/ \E c \in Conns : Connect(c) \/ Leave(c) \/ EndConnection(c)

Spec == Init /\ [][Next]_vars

\* Threads run, and a connection thread ends: HttpConnection shows that it does,
\* unless its handler never returns (a live WebSocket, a blocking handler).
Fairness ==
    /\ WF_vars(Running /\ MainStep)
    /\ \A a \in Acceptors : WF_vars(Running /\ LoopStep(a))
    /\ \A c \in Conns : WF_vars(Running /\ EndConnection(c))
FairSpec == Spec /\ Fairness

-----------------------------------------------------------------------------
(* Properties.                                                             *)

\* app.zig:203: max_connections bounds the connection threads, however many
\* accept loops compete for the last slot and whatever they give back.
Serving == {c \in Conns : conn[c] = "served"}
ConnectionsBounded == Cardinality(Serving) <= MaxConnections

\* The counter the drain waits for is what is out: no path of an accept loop or a
\* connection thread loses or invents a count.
Counting == {a \in Acceptors : at[a] \in {"start", "refuse"}}
CountExact == active = Cardinality(Serving) + Cardinality(Counting)

\* When serveNative returns, no accept loop and no connection thread is left to use
\* its frame, and the listener is closed.
DrainedBeforeReturn ==
    main = "returned" =>
        /\ Serving = {} /\ listener = "closed"
        /\ \A a \in Acceptors : at[a] = "ended" /\ hold[a] = NoConn

\* A requested shutdown is obeyed: serveNative returns (or failed to start).
ShutdownReturns == flag ~> main \in {"returned", "failed"}

\* A client in the queue is taken or leaves, unless the server stops.
ClientsTaken ==
    \A c \in Conns : conn[c] = "queued" ~> (conn[c] # "queued" \/ flag \/ ~Running)

\* app.zig:412-413 "The listener socket is closed so accept() returns ...  Safe to
\* call from a signal handler or a separate thread": shutdown(2) reaches the
\* listener and nothing else.
StopHitsListener == ~stray
=============================================================================
