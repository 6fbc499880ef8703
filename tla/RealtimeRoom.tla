---------------------------- MODULE RealtimeRoom ----------------------------
(***************************************************************************)
(* The Durable Objects of src/deploy/worker/realtime_object.mjs, one per    *)
(* room: sockets with their attachments, presence rows in the object's own *)
(* storage, and the handling of a message, which waits for the application *)
(* in the middle (line 94).  While it waits the object takes other events. *)
(*                                                                         *)
(* A connection is known by its id, which the gateway makes unique.  In what *)
(* order the runtime lists the sockets of a room is not specified, and a   *)
(* loop that a throw ends may have reached any of them.                    *)
(***************************************************************************)
EXTENDS Integers, Sequences

CONSTANTS
    Clients, Rooms,
    Identities,    \* the logical identities an application gives
    Actions,       \* lists of actions the application's message handler returns
    MaxMessages    \* bound: client -> messages it sends

ASSUME RoomAssumption == MaxMessages \in [Clients -> Nat]

VARIABLES
    sock,       \* per client: state of its socket, and the attachment
    presence,   \* per room: the connection ids in akamata_presence
    count,      \* per client: messages its room got from it
    calls,      \* messages whose webSocketMessage waits for the application
    answers,    \* message -> the actions the application returned for it
    inbox,      \* per client: what it was sent, each as <<message, which action>>
    stale       \* for the properties only: rows whose socket a crash took away

roomVars == <<sock, presence, count, calls, answers, inbox, stale>>

NoSocket == [state |-> "none", room |-> "none", identity |-> "none"]

RoomInit ==
    /\ sock = [c \in Clients |-> NoSocket]
    /\ presence = [r \in Rooms |-> {}]
    /\ count = [c \in Clients |-> 0]
    /\ calls = {} /\ answers = <<>>
    /\ inbox = [c \in Clients |-> {}]
    /\ stale = {}

RoomOf(c) == sock[c].room
Live(c) == sock[c].state \in {"open", "closing"}
\* getWebSockets().
Sockets(r) == {c \in Clients : Live(c) /\ RoomOf(c) = r}

\* fetch() of an upgrade the gateway made: the socket accepted, its row written.
Accept(c, room, identity) ==
    /\ sock[c] = NoSocket
    /\ sock' = [sock EXCEPT ![c] = [state |-> "open", room |-> room, identity |-> identity]]
    /\ presence' = [presence EXCEPT ![room] = @ \cup {c}]
    /\ UNCHANGED <<count, calls, answers, inbox, stale>>

\* webSocketMessage, up to the await: what is too large, not text or no envelope
\* closes the socket, the rest goes to the application with the attachment.  What the
\* peer sent before it saw a close still comes.
Receive(c, good) ==
    /\ Live(c) /\ count[c] < MaxMessages[c]
    /\ count' = [count EXCEPT ![c] = @ + 1]
    /\ IF good THEN calls' = calls \cup {<<c, count[c] + 1>>} /\ UNCHANGED sock
       ELSE sock' = [sock EXCEPT ![c].state = "closing"] /\ UNCHANGED calls
    /\ UNCHANGED <<presence, answers, inbox, stale>>

\* The actions are applied one after the other.  Only "disconnect" closes a socket, the
\* sender's: these are closed by the actions in ns, and these closing at action n.
Disconnected(call, actions, ns) ==
    {c \in {call[1]} : Live(c) /\ \E i \in ns : actions[i].kind = "disconnect"}
Closing(call, actions, n) ==
    {c \in Clients : sock[c].state = "closing"} \cup Disconnected(call, actions, 1..(n - 1))

\* applyAction: whom action n is meant for.
Addressed(call, action) ==
    CASE action.kind = "direct"    -> Sockets(RoomOf(call[1])) \cap {action.to}
      [] action.kind = "broadcast" -> Sockets(RoomOf(call[1]))
      [] action.kind = "broadcast_except_sender" -> Sockets(RoomOf(call[1])) \ {call[1]}
      [] OTHER -> {}

\* A send to a closing socket throws, which only broadcast() catches, and so does a
\* disconnect with a code that close() does not take, here a kind of its own.
Throws(call, actions, n) ==
    \/ actions[n].kind = "bad_disconnect"
    \/ /\ actions[n].kind # "broadcast"
       /\ Addressed(call, actions[n]) \cap Closing(call, actions, n) # {}

\* The actions the loop gets to: the first one that throws ends it.
Performed(call, actions) ==
    {n \in DOMAIN actions : \A i \in 1..(n - 1) : ~Throws(call, actions, i)}

\* Who gets action n, when "before" were listed before the socket that threw.
Gets(call, actions, n, before) ==
    (Addressed(call, actions[n]) \ Closing(call, actions, n))
        \cap (IF Throws(call, actions, n) THEN before ELSE Clients)

\* The application answers with actions, in any order of the calls; they are applied
\* whatever has become of the sender.
Answered(call, actions) ==
    /\ call \in calls
    /\ calls' = calls \ {call}
    /\ answers' = [m \in DOMAIN answers \cup {call} |-> IF m = call THEN actions ELSE answers[m]]
    /\ LET done == Performed(call, actions) IN
       /\ \E before \in SUBSET Clients :
             inbox' = [c \in Clients |-> inbox[c] \cup
                         {<<call, n>> : n \in {k \in done : c \in Gets(call, actions, k, before)}}]
       /\ sock' = [c \in Clients |-> IF c \in Disconnected(call, actions, done)
                                     THEN [sock[c] EXCEPT !.state = "closing"] ELSE sock[c]]
    /\ UNCHANGED <<presence, count, stale>>

\* It answers with an error, no JSON or too many actions: the sender is closed.
Rejected(call) ==
    /\ call \in calls
    /\ calls' = calls \ {call}
    /\ sock' = [sock EXCEPT ![call[1]].state = IF @ = "open" THEN "closing" ELSE @]
    /\ UNCHANGED <<presence, count, answers, inbox, stale>>

\* webSocketClose and webSocketError, after the peer closed or answered a close.
\* (Faulty variant: the row stays, as if only one of the two deleted it.)
SocketEndsRowStays(c) ==
    /\ Live(c)
    /\ sock' = [sock EXCEPT ![c].state = "closed"]
    /\ UNCHANGED <<presence, count, calls, answers, inbox, stale>>
SocketEnds(c) ==
    /\ Live(c)
    /\ sock' = [sock EXCEPT ![c].state = "closed"]
    /\ presence' = [presence EXCEPT ![RoomOf(c)] = @ \ {c}]
    /\ UNCHANGED <<count, calls, answers, inbox, stale>>

\* The object dies with its sockets and its calls; its storage does not, and the
\* constructor only makes the tables that are missing.
RoomCrash(r) ==
    /\ Sockets(r) # {}
    /\ stale' = stale \cup Sockets(r)
    /\ sock' = [c \in Clients |-> IF c \in Sockets(r) THEN [sock[c] EXCEPT !.state = "closed"]
                                  ELSE sock[c]]
    /\ calls' = {m \in calls : RoomOf(m[1]) # r}
    /\ UNCHANGED <<presence, count, answers, inbox>>

\* presence(): from the sockets, not from the rows.
Members(r) == {sock[c].identity : c \in Sockets(r)}

-----------------------------------------------------------------------------
\* The rows of a room are its sockets, no more and no less, but for those whose
\* socket was lost in a crash, which nothing ever deletes; what presence() answers
\* is right even then.
PresenceExact ==
    \A r \in Rooms : /\ presence[r] \ stale = Sockets(r)
                     /\ Members(r) = {sock[c].identity : c \in presence[r] \ stale}

\* What action a may send to c when it was returned for a message of sender.
Permits(action, sender, c) ==
    \/ action.kind = "direct" /\ action.to = c
    \/ action.kind = "broadcast"
    \/ action.kind = "broadcast_except_sender" /\ c # sender
=============================================================================
