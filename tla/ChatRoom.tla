------------------------------ MODULE ChatRoom ------------------------------
(***************************************************************************)
(* The chat Durable Object, src/deploy/worker/chat_room.mjs: a set of       *)
(* sessions in memory, a table of messages that survives the object, and a *)
(* message handler without an await between the INSERT and the sends.      *)
(***************************************************************************)
EXTENDS Integers, Sequences

CONSTANTS
    Chatters,   \* the clients, for this object
    MaxChat     \* bound: messages in the table

ASSUME ChatAssumption == MaxChat \in Nat

VARIABLES
    sessions,   \* this.sessions
    messages,   \* the table: the senders, by id
    chat        \* per client: its socket, the rows it received (not the id they are sent
                \* with), and how many there were when it was added

chatVars == <<sessions, messages, chat>>

ChatInit ==
    /\ sessions = {} /\ messages = <<>>
    /\ chat = [c \in Chatters |-> [socket |-> "none", inbox |-> <<>>, joined |-> 0]]

\* fetch() and handleSession().
HandleSession(c) ==
    /\ chat[c].socket = "none"
    /\ sessions' = sessions \cup {c}
    /\ chat' = [chat EXCEPT ![c] = [@ EXCEPT !.socket = "open", !.joined = Len(messages)]]
    /\ UNCHANGED messages

\* The network drops a client: sends to it throw until its close event is handled.
DropClient(c) ==
    /\ chat[c].socket = "open"
    /\ chat' = [chat EXCEPT ![c].socket = "dead"]
    /\ UNCHANGED <<sessions, messages>>

\* Who a send reaches.
Reachable == {d \in sessions : chat[d].socket = "open"}
Delivered(to) ==
    [d \in Chatters |-> IF d \in to THEN [chat[d] EXCEPT !.inbox = Append(@, Len(messages) + 1)]
                        ELSE chat[d]]

\* The "message" listener.  A payload that is no JSON is a text; JSON null throws
\* before the INSERT, which changes nothing.  A send that throws drops its session.
\* (Faulty variant: one try around the loop, which a dead session in front ends.)
ChatMessageOneTry(c) ==
    /\ chat[c].socket = "open" /\ Len(messages) < MaxChat
    /\ messages' = Append(messages, c)
    /\ chat' = Delivered(IF Reachable = sessions THEN sessions ELSE {})
    /\ UNCHANGED sessions
ChatMessage(c) ==
    /\ chat[c].socket = "open" /\ Len(messages) < MaxChat
    /\ messages' = Append(messages, c)
    /\ chat' = Delivered(Reachable)
    /\ sessions' = Reachable

\* The "close" and "error" listeners.
ChatCleanup(c) ==
    /\ chat[c].socket \in {"open", "dead"}
    /\ sessions' = sessions \ {c}
    /\ chat' = [chat EXCEPT ![c].socket = "closed"]
    /\ UNCHANGED messages

\* The object is evicted: its sockets and its memory are gone, the table is not.
ChatRestart ==
    /\ sessions # {}
    /\ sessions' = {}
    /\ chat' = [c \in Chatters |-> IF chat[c].socket = "none" THEN chat[c]
                                  ELSE [chat[c] EXCEPT !.socket = "closed"]]
    /\ UNCHANGED messages

-----------------------------------------------------------------------------
\* Every client that is connected has received exactly the messages stored since it
\* joined, each once and in the order of their ids, its own included, whoever else
\* joined, died or left meanwhile.
ChatOrder ==
    \A c \in Chatters : chat[c].socket = "open" =>
        chat[c].inbox = [i \in 1..(Len(messages) - chat[c].joined) |-> chat[c].joined + i]
=============================================================================
