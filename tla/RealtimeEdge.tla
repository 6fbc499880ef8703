---------------------------- MODULE RealtimeEdge ----------------------------
(***************************************************************************)
(* The public handler of src/deploy/worker/index.mjs as a gateway to the   *)
(* two kinds of Durable Objects: it refuses the internal routes, sends     *)
(* chat upgrades to the chat room, and lets the application authorise a    *)
(* realtime upgrade before a room of the application's choice sees it.     *)
(* The application's two handlers are reached through dispatchWasm, which  *)
(* WorkersHost models: here an answer comes at any time.                   *)
(***************************************************************************)
EXTENDS ChatRoom, RealtimeRoom

CONSTANTS
    Resources,   \* what a client names in its path
    Authorized,  \* <<client, resource>> -> the [room, identity] the application derives;
                 \* it denies what is not in the domain
    Claims       \* client -> the [room, identity] its own X-Akamata-* headers say

Contexts == [room : Rooms, identity : Identities]

ASSUME EdgeAssumption ==
    /\ Chatters = Clients
    /\ DOMAIN Authorized \subseteq Clients \X Resources
    /\ \A q \in DOMAIN Authorized : Authorized[q] \in Contexts
    /\ Claims \in [Clients -> Contexts]

VARIABLES
    gate,       \* per client: how far the gateway is with its request
    handled     \* messages that reached the application's message handler, <<c, 0>>
                \* being what c sent it without a room

vars == <<chatVars, roomVars, gate, handled>>

NoHeaders == [room |-> "none", identity |-> "none"]

Init ==
    /\ ChatInit /\ RoomInit
    /\ gate = [c \in Clients |-> [at |-> "away", resource |-> "none", headers |-> NoHeaders]]
    /\ handled = {}

At(c, at) == gate[c].at = at
To(c, at) == gate' = [gate EXCEPT ![c].at = at]

-----------------------------------------------------------------------------
\* The path of a request that is no upgrade, as it came: an internal route's or a
\* page's, perhaps with a slash at its end.
Paths == [route : {"authorize", "message", "page"}, slash : BOOLEAN]

\* rejectPublicInternalRoute compares the path as it came.
IsInternalRealtimePath(path) == path.route \in {"authorize", "message"} /\ ~path.slash

\* The application's router takes a slash off the end of what it is given.
NormPath(path) == path.route

\* A public request that is no upgrade: refused when it names an internal route,
\* dispatched to the application otherwise, which answers the client itself.
PublicRequest(c, path) ==
    /\ At(c, "away")
    /\ To(c, "served")
    /\ handled' = IF ~IsInternalRealtimePath(path) /\ NormPath(path) = "message"
                  THEN handled \cup {<<c, 0>>} ELSE handled
    /\ UNCHANGED <<chatVars, roomVars>>

\* /rooms/<id>/ws goes to the chat room as it is.
JoinChat(c) ==
    /\ At(c, "away")
    /\ To(c, "chat")
    /\ HandleSession(c)
    /\ UNCHANGED <<roomVars, handled>>

\* /realtime/<resource>: without a credential 401, with one the application is asked.
AskRealtime(c, resource, credential) ==
    /\ At(c, "away")
    /\ gate' = [gate EXCEPT ![c] = [@ EXCEPT !.at = IF credential THEN "authorizing" ELSE "served",
                                             !.resource = resource]]
    /\ UNCHANGED <<chatVars, roomVars, handled>>

\* The application allows it: the room's request gets headers of the gateway's own.
\* (Faulty variant: the client's headers are passed on and win.)
AllowClaim(c) ==
    /\ At(c, "authorizing")
    /\ <<c, gate[c].resource>> \in DOMAIN Authorized
    /\ gate' = [gate EXCEPT ![c] = [@ EXCEPT !.at = "forwarded", !.headers = Claims[c]]]
    /\ UNCHANGED <<chatVars, roomVars, handled>>
Allow(c) ==
    /\ At(c, "authorizing")
    /\ <<c, gate[c].resource>> \in DOMAIN Authorized
    /\ gate' = [gate EXCEPT ![c] = [@ EXCEPT !.at = "forwarded",
                                             !.headers = Authorized[<<c, gate[c].resource>>]]]
    /\ UNCHANGED <<chatVars, roomVars, handled>>

\* It denies it, or its answer is no JSON, no authorised connection, or too large.
Deny(c) ==
    /\ At(c, "authorizing")
    /\ To(c, "served")
    /\ UNCHANGED <<chatVars, roomVars, handled>>

\* The room gets the request.
\* (Faulty variant: the room's answer is not returned, and the gateway goes on.)
ConnectFallsThrough(c) ==
    /\ At(c, "forwarded")
    /\ Accept(c, gate[c].headers.room, gate[c].headers.identity)
    /\ To(c, "served")
    /\ UNCHANGED <<chatVars, handled>>
Connect(c) ==
    /\ At(c, "forwarded")
    /\ Accept(c, gate[c].headers.room, gate[c].headers.identity)
    /\ To(c, "realtime")
    /\ UNCHANGED <<chatVars, handled>>

\* AkamataRealtimeApplication.fetch: the room's request is a POST to the message route.
Handle(call) ==
    /\ call \in calls \ handled
    /\ handled' = handled \cup {call}
    /\ UNCHANGED <<chatVars, roomVars, gate>>

-----------------------------------------------------------------------------
Gateway(c) ==
    \/ \E path \in Paths : PublicRequest(c, path)
    \/ JoinChat(c)
    \/ \E resource \in Resources, credential \in BOOLEAN : AskRealtime(c, resource, credential)
    \/ Allow(c) \/ Deny(c) \/ Connect(c)

Chat(c) == ChatMessage(c) \/ DropClient(c) \/ ChatCleanup(c)

Room(c) == SocketEnds(c) \/ \E good \in BOOLEAN : Receive(c, good)

Answer(call) == /\ call \in handled
                /\ Rejected(call) \/ \E actions \in Actions : Answered(call, actions)

Next ==
    \/ \E c \in Clients : Gateway(c)
    \/ (ChatRestart \/ \E c \in Clients : Chat(c)) /\ UNCHANGED <<roomVars, gate, handled>>
    \/ /\ \/ \E c \in Clients : Room(c)
          \/ \E call \in calls : Answer(call)
          \/ \E r \in Rooms : RoomCrash(r)
       /\ UNCHANGED <<chatVars, gate, handled>>
    \/ \E call \in calls : Handle(call)

Spec == Init /\ [][Next]_vars

-----------------------------------------------------------------------------
\* The shape of the state: a socket exists for exactly the clients that got through
\* to its object, and whatever a room has in hand, or was given actions for, is a
\* message it received: what a client asked of the message handler by itself, past
\* internal_routes.mjs:4-6, is answered to no room.
TypeOK ==
    /\ \A c \in Clients :
          /\ gate[c].at \in {"away", "authorizing", "forwarded", "realtime", "chat", "served"}
          /\ sock[c].state \in {"none", "open", "closing", "closed"}
          /\ chat[c].socket \in {"none", "open", "dead", "closed"}
          /\ (sock[c].state # "none") = At(c, "realtime")
          /\ (chat[c].socket # "none") = At(c, "chat")
          /\ count[c] \in 0..MaxMessages[c]
    /\ \A m \in calls \cup DOMAIN answers : m[2] \in 1..count[m[1]]
    /\ \A m \in handled : m[2] \in 0..count[m[1]]
    /\ presence \in [Rooms -> SUBSET Clients]

\* docs/en/portable-backend.md:36-51, the trust boundary.  A socket's room and
\* identity are what the application derived for this client and this resource,
\* never what the client said; and a client gets nothing but what the application
\* explicitly returned for a message of its own room, and never its own message's
\* broadcast that excepts the sender.
TrustBoundary ==
    /\ \A c \in Clients : sock[c].state # "none" =>
          Authorized[<<c, gate[c].resource>>] = [room |-> RoomOf(c), identity |-> sock[c].identity]
    /\ \A c \in Clients : \A tag \in inbox[c] :
          LET call == tag[1]  sender == call[1] IN
          /\ RoomOf(sender) = RoomOf(c)
          /\ Permits(answers[call][tag[2]], sender, c)
=============================================================================
