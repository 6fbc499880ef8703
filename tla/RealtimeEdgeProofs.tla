------------------------- MODULE RealtimeEdgeProofs -------------------------
(***************************************************************************)
(* The gateway and its rooms, for any clients, rooms, resources,           *)
(* authorisations and lists of actions: the trust boundary holds, the      *)
(* presence rows are the sockets, and chat clients see the table's order.  *)
(***************************************************************************)
EXTENDS RealtimeEdge, SequenceTheorems, TLAPS

GateSteps == {"away", "authorizing", "forwarded", "realtime", "chat", "served"}
SockStates == {"none", "open", "closing", "closed"}
ChatStates == {"none", "open", "dead", "closed"}

GateType == gate \in [Clients -> [at : GateSteps, resource : Resources \cup {"none"},
                                  headers : Contexts \cup {NoHeaders}]]
SockType == sock \in [Clients -> [state : SockStates, room : Rooms \cup {"none"},
                                  identity : Identities \cup {"none"}]]
ChatType == chat \in [Clients -> [socket : ChatStates, inbox : Seq(Nat), joined : Nat]]
LogType == messages \in Seq(Clients) /\ sessions \subseteq Clients
RowType == presence \in [Rooms -> SUBSET Clients] /\ stale \subseteq Clients
TalkType == /\ count \in [Clients -> Nat]
            /\ calls \subseteq Clients \X Nat /\ handled \subseteq Clients \X Nat
            /\ DOMAIN answers \subseteq Clients \X Nat
            /\ inbox = [c \in Clients |-> inbox[c]]

Types == GateType /\ SockType /\ ChatType /\ LogType /\ RowType /\ TalkType

\* What the gateway knows of a client decides what sockets it has.
Gates ==
    /\ \A c \in Clients : (sock[c].state # "none") = At(c, "realtime")
    /\ \A c \in Clients : (chat[c].socket # "none") = At(c, "chat")
    /\ \A c \in Clients : At(c, "forwarded") =>
          /\ <<c, gate[c].resource>> \in DOMAIN Authorized
          /\ gate[c].headers = Authorized[<<c, gate[c].resource>>]
    /\ \A c \in Clients : At(c, "realtime") =>
          /\ <<c, gate[c].resource>> \in DOMAIN Authorized
          /\ Authorized[<<c, gate[c].resource>>] = [room |-> RoomOf(c), identity |-> sock[c].identity]

\* Messages are numbered as they come, and are answered once.
Talk ==
    /\ \A c \in Clients : /\ count[c] <= MaxMessages[c]
                          /\ sock[c].state = "none" => count[c] = 0
    /\ \A m \in calls \cup DOMAIN answers : m[2] \in 1..count[m[1]]
    /\ \A m \in handled : m[2] \in 0..count[m[1]]
    /\ calls \cap DOMAIN answers = {}

\* What a client was sent.
Sent ==
    \A c \in Clients : \A tag \in inbox[c] :
        /\ sock[c].state # "none"
        /\ tag[1] \in DOMAIN answers
        /\ RoomOf(tag[1][1]) = RoomOf(c)
        /\ Permits(answers[tag[1]][tag[2]], tag[1][1], c)

\* The rows without a socket belong to sockets that are gone.
Rows ==
    /\ \A r \in Rooms : presence[r] \ stale = Sockets(r)
    /\ \A c \in stale : sock[c].state = "closed"

\* Whoever is connected to the chat is among the sessions.
Table ==
    \A c \in Clients :
        /\ chat[c].socket = "none" => chat[c].inbox = <<>>
        /\ chat[c].socket = "open" =>
              /\ c \in sessions
              /\ chat[c].joined <= Len(messages)
              /\ chat[c].inbox = [i \in 1..(Len(messages) - chat[c].joined) |-> chat[c].joined + i]

IInv == Types /\ Gates /\ Talk /\ Sent /\ Rows /\ Table

ChatStep == ChatRestart \/ \E c \in Clients : Chat(c)
RoomStep == \/ \E c \in Clients : Room(c)
            \/ \E call \in calls : Answer(call)
            \/ \E r \in Rooms : RoomCrash(r)

-----------------------------------------------------------------------------
\* The empty sequence.
LEMMA Empty == /\ DOMAIN <<>> = {} /\ Len(<<>>) = 0
               /\ \A S : <<>> \in Seq(S)
<1> DEFINE e == <<>>
<1>1. \A S : e \in Seq(S)
  BY EmptySeq
<1>2. Len(e) = 0
  BY EmptySeq
<1>3. DOMAIN e = {}
  <2> HIDE DEF e
  <2>1. DOMAIN e = 1..Len(e)
    BY <1>1
  <2> QED  BY <2>1, <1>2
<1> QED  BY <1>1, <1>2, <1>3

\* The strengthened invariant holds at the start.
LEMMA InitIInv == Init => IInv
<1> SUFFICES ASSUME Init PROVE IInv
  OBVIOUS
<1> USE EdgeAssumption, RoomAssumption
    DEF Init, ChatInit, RoomInit, NoSocket, NoHeaders
<1>0. DOMAIN answers = {}
  BY Empty DEF RoomInit
<1>1. Types
  <2>1. GateType
    BY DEF GateType, GateSteps
  <2>2. SockType
    BY DEF SockType, SockStates
  <2>3. ChatType
    <3>1. [socket |-> "none", inbox |-> <<>>, joined |-> 0]
             \in [socket : ChatStates, inbox : Seq(Nat), joined : Nat]
      BY Empty DEF ChatStates
    <3> QED  BY <3>1 DEF ChatType
  <2>4. LogType
    BY Empty DEF LogType
  <2>5. RowType
    BY DEF RowType
  <2>6. TalkType
    BY <1>0 DEF TalkType
  <2> QED  BY <2>1, <2>2, <2>3, <2>4, <2>5, <2>6 DEF Types
<1>2. Gates
  BY DEF Gates, At
<1>3. Talk
  <2>1. calls \cup DOMAIN answers = {} /\ handled = {}
    BY <1>0
  <2>2. \A c \in Clients : count[c] = 0 /\ MaxMessages[c] \in Nat
    OBVIOUS
  <2>3. calls \cap DOMAIN answers = {}
    BY <1>0
  <2> QED  BY ONLY <2>1, <2>2, <2>3 DEF Talk
<1>6. Sent
  <2>1. \A c \in Clients : inbox[c] = {}
    OBVIOUS
  <2> QED  BY <2>1 DEF Sent
<1>4. Rows
  BY DEF Rows, Sockets, Live
<1>5. Table
  BY DEF Table
<1> QED  BY <1>1, <1>2, <1>3, <1>4, <1>5, <1>6 DEF IInv

-----------------------------------------------------------------------------
(* Types                                                                     *)

\* The gateway's steps keep the types.
LEMMA GatewayTypes ==
  ASSUME Types, Gates, NEW c \in Clients, Gateway(c)
  PROVE  Types'
<1>1. GateType'
  <2> GateType
    BY DEF Types
  <2> USE DEF GateType, GateSteps
  <2>1. CASE \E path \in Paths : PublicRequest(c, path)
    BY <2>1 DEF PublicRequest, To
  <2>2. CASE JoinChat(c)
    BY <2>2 DEF JoinChat, To
  <2>3. CASE \E resource \in Resources, credential \in BOOLEAN : AskRealtime(c, resource, credential)
    <3> PICK resource \in Resources, credential \in BOOLEAN : AskRealtime(c, resource, credential)
      BY <2>3
    <3>1. PICK at \in GateSteps : gate' = [gate EXCEPT ![c] = [@ EXCEPT !.at = at,
                                                                       !.resource = resource]]
      BY DEF AskRealtime
    <3> QED  BY <3>1
  <2>4. CASE Allow(c)
    BY <2>4, EdgeAssumption DEF Allow
  <2>5. CASE Deny(c)
    BY <2>5 DEF Deny, To
  <2>6. CASE Connect(c)
    BY <2>6 DEF Connect, To
  <2> QED  BY <2>1, <2>2, <2>3, <2>4, <2>5, <2>6 DEF Gateway
<1>2. CASE JoinChat(c)
  <2>1. /\ chat' = [chat EXCEPT ![c] = [@ EXCEPT !.socket = "open", !.joined = Len(messages)]]
        /\ sessions' = sessions \cup {c} /\ messages' = messages
        /\ UNCHANGED <<roomVars, handled>>
    BY <1>2 DEF JoinChat, HandleSession
  <2>2. LogType' /\ Len(messages) \in Nat
    BY <2>1 DEF Types, LogType
  <2>3. ChatType'
    BY <2>1, <2>2 DEF Types, ChatType, ChatStates
  <2> QED  BY <1>1, <2>1, <2>2, <2>3 DEF Types, SockType, RowType, TalkType, roomVars
<1>3. CASE Connect(c)
  <2>1. gate[c].headers \in Contexts
    BY <1>3, EdgeAssumption DEF Connect, Gates, At
  <2>2. /\ sock' = [sock EXCEPT ![c] = [state |-> "open", room |-> gate[c].headers.room,
                                         identity |-> gate[c].headers.identity]]
        /\ presence' = [presence EXCEPT ![gate[c].headers.room] = @ \cup {c}]
        /\ UNCHANGED <<count, calls, answers, inbox, stale, chatVars, handled>>
    BY <1>3 DEF Connect, Accept
  <2>3. SockType'
    BY <2>1, <2>2 DEF Types, SockType, SockStates, Contexts
  <2>4. RowType'
    BY <2>1, <2>2 DEF Types, RowType, Contexts
  <2> QED  BY <1>1, <2>2, <2>3, <2>4 DEF Types, ChatType, LogType, TalkType, chatVars
<1>4. CASE UNCHANGED <<chatVars, roomVars>> /\ handled' \in {handled, handled \cup {<<c, 0>>}}
  <2>1. handled' \subseteq Clients \X Nat
    BY <1>4 DEF Types, TalkType
  <2> QED  BY <1>1, <1>4, <2>1
           DEF Types, SockType, ChatType, LogType, RowType, TalkType, chatVars, roomVars
<1> QED  BY <1>2, <1>3, <1>4 DEF Gateway, PublicRequest, AskRealtime, Allow, Deny

\* The chat room's steps keep them.
LEMMA ChatTypes ==
  ASSUME Types, ChatStep, UNCHANGED <<roomVars, gate, handled>>
  PROVE  Types'
<1> ChatType /\ LogType
  BY DEF Types
<1>1. SUFFICES ChatType' /\ LogType'
  BY DEF Types, GateType, SockType, RowType, TalkType, roomVars
<1> USE EdgeAssumption
<1>2. CASE ChatRestart
  BY <1>2 DEF ChatRestart, ChatType, LogType, ChatStates
<1>3. ASSUME NEW c \in Clients, DropClient(c) \/ ChatCleanup(c) PROVE ChatType' /\ LogType'
  <2>1. PICK socket \in ChatStates : chat' = [chat EXCEPT ![c].socket = socket]
    BY <1>3 DEF DropClient, ChatCleanup, ChatStates
  <2>2. ChatType'
    BY <2>1 DEF ChatType
  <2> QED  BY <1>3, <2>2 DEF DropClient, ChatCleanup, LogType
<1>4. ASSUME NEW c \in Clients, ChatMessage(c) PROVE ChatType' /\ LogType'
  <2>1. LogType'
    BY <1>4 DEF ChatMessage, Reachable, LogType
  <2>2. \A d \in Clients : Append(chat[d].inbox, Len(messages) + 1) \in Seq(Nat)
    BY DEF ChatType, LogType
  <2>3. chat' = [d \in Clients |-> IF d \in Reachable
                   THEN [chat[d] EXCEPT !.inbox = Append(@, Len(messages) + 1)] ELSE chat[d]]
    BY <1>4 DEF ChatMessage, Delivered
  <2>4. ChatType'
    BY <2>2, <2>3 DEF ChatType
  <2> QED  BY <2>1, <2>4
<1> QED  BY <1>2, <1>3, <1>4 DEF ChatStep, Chat

\* A room's step neither makes nor moves a socket.
Kept == \A c \in Clients : /\ RoomOf(c)' = RoomOf(c)
                           /\ sock'[c].identity = sock[c].identity
                           /\ (sock'[c].state = "none") = (sock[c].state = "none")

\* A client's count and calls have a socket behind them, so what a room's step
\* closes was there before; and its types are kept.
LEMMA RoomKeeps ==
  ASSUME Types, Talk, RoomStep
  PROVE  SockType' /\ Kept
<1> SockType
  BY DEF Types
<1> USE DEF SockType, SockStates, Kept, RoomOf
<1>1. ASSUME NEW c \in Clients, Room(c) PROVE SockType' /\ Kept
  <2>1. CASE SocketEnds(c)
    BY <2>1 DEF SocketEnds, Live
  <2>2. ASSUME NEW good \in BOOLEAN, Receive(c, good) PROVE SockType' /\ Kept
    <3>1. CASE sock' = sock
      BY <3>1
    <3>2. CASE Live(c) /\ sock' = [sock EXCEPT ![c].state = "closing"]
      BY <3>2 DEF Live
    <3> QED  BY <2>2, <3>1, <3>2 DEF Receive
  <2> QED  BY <1>1, <2>1, <2>2 DEF Room
<1>2. ASSUME NEW call \in calls, Answer(call) PROVE SockType' /\ Kept
  <2>1. CASE Rejected(call)
    <3>1. call[1] \in Clients
      BY DEF Types, TalkType
    <3> QED  BY <2>1, <3>1 DEF Rejected
  <2>2. ASSUME NEW actions \in Actions, Answered(call, actions) PROVE SockType' /\ Kept
    <3>1. PICK done : sock' = [c \in Clients |-> IF c \in Disconnected(call, actions, done)
                                  THEN [sock[c] EXCEPT !.state = "closing"] ELSE sock[c]]
      BY <2>2 DEF Answered
    <3>2. \A c \in Disconnected(call, actions, done) : Live(c)
      BY DEF Disconnected
    <3> QED  BY <3>1, <3>2 DEF Live
  <2> QED  BY <1>2, <2>1, <2>2 DEF Answer
<1>3. ASSUME NEW r \in Rooms, RoomCrash(r) PROVE SockType' /\ Kept
  BY <1>3 DEF RoomCrash, Sockets, Live
<1> QED  BY <1>1, <1>2, <1>3 DEF RoomStep

\* So does the rest of the state keep its types.
LEMMA RoomTypes ==
  ASSUME Types, Talk, RoomStep, UNCHANGED <<chatVars, gate, handled>>
  PROVE  Types'
<1>1. SockType'
  BY RoomKeeps
<1>2. SUFFICES RowType' /\ TalkType'
  BY <1>1 DEF Types, GateType, ChatType, LogType, chatVars
<1> SockType /\ RowType /\ TalkType
  BY DEF Types
<1>3. ASSUME NEW c \in Clients, Room(c) PROVE RowType' /\ TalkType'
  <2>1. CASE SocketEnds(c)
    BY <2>1 DEF SocketEnds, RowType, TalkType
  <2>2. ASSUME NEW good \in BOOLEAN, Receive(c, good) PROVE RowType' /\ TalkType'
    <3>1. RowType'
      BY <2>2 DEF Receive, RowType
    <3>2. count' \in [Clients -> Nat]
      BY <2>2 DEF Receive, TalkType
    <3>3. <<c, count[c] + 1>> \in Clients \X Nat
      BY DEF TalkType
    <3>4. calls' \subseteq Clients \X Nat /\ UNCHANGED <<answers, inbox>>
      BY <2>2, <3>3 DEF Receive, TalkType
    <3> QED  BY <3>1, <3>2, <3>4 DEF TalkType
  <2> QED  BY <1>3, <2>1, <2>2 DEF Room
<1>4. ASSUME NEW call \in calls, Answer(call) PROVE RowType' /\ TalkType'
  <2>1. CASE Rejected(call)
    BY <2>1 DEF Rejected, RowType, TalkType
  <2>2. ASSUME NEW actions \in Actions, Answered(call, actions) PROVE RowType' /\ TalkType'
    <3>1. /\ UNCHANGED <<presence, count, stale>> /\ calls' = calls \ {call}
          /\ answers' = [m \in DOMAIN answers \cup {call} |->
                            IF m = call THEN actions ELSE answers[m]]
      BY <2>2 DEF Answered
    <3>2. inbox' = [c \in Clients |-> inbox'[c]]
      BY <2>2 DEF Answered
    <3>3. DOMAIN answers' \subseteq Clients \X Nat
      BY <3>1 DEF TalkType
    <3> QED  BY <3>1, <3>2, <3>3 DEF RowType, TalkType
  <2> QED  BY <1>4, <2>1, <2>2 DEF Answer
<1>5. ASSUME NEW r \in Rooms, RoomCrash(r) PROVE RowType' /\ TalkType'
  BY <1>5 DEF RoomCrash, Sockets, RowType, TalkType
<1> QED  BY <1>3, <1>4, <1>5 DEF RoomStep

\* Every step keeps the types.
LEMMA TypesNext == Types /\ Gates /\ Talk /\ [Next]_vars => Types'
<1> SUFFICES ASSUME Types, Gates, Talk, [Next]_vars PROVE Types'
  OBVIOUS
<1>1. CASE UNCHANGED vars
  BY <1>1 DEF Types, GateType, SockType, ChatType, LogType, RowType, TalkType, vars, chatVars,
              roomVars
<1>2. ASSUME NEW call \in calls \ handled, Handle(call) PROVE Types'
  BY <1>2 DEF Types, GateType, SockType, ChatType, LogType, RowType, TalkType, chatVars, roomVars,
              Handle
<1> QED  BY <1>1, <1>2, GatewayTypes, ChatTypes, RoomTypes DEF Next, ChatStep, RoomStep, Handle

-----------------------------------------------------------------------------
(* What the gateway lets through                                             *)

\* Before and beside an upgrade nothing is known.
LEMMA NotThrough ==
  ASSUME Gates, NEW c \in Clients, \A d \in Clients \ {c} : gate'[d] = gate[d],
         gate[c].at \in {"away", "authorizing"}, gate'[c].at \in {"authorizing", "served"},
         UNCHANGED <<sock, chat>>
  PROVE  Gates'
BY DEF Gates, At, RoomOf

\* Every step keeps the gateway's knowledge true.
LEMMA GatesNext == Types /\ Gates /\ Talk /\ [Next]_vars => Gates'
<1> SUFFICES ASSUME Types, Gates, Talk, [Next]_vars PROVE Gates'
  OBVIOUS
<1> GateType /\ SockType /\ ChatType
  BY DEF Types
<1>1. CASE UNCHANGED <<gate, sock, chat>>
  BY <1>1 DEF Gates, At, RoomOf
<1>2. ASSUME NEW c \in Clients, Gateway(c) PROVE Gates'
  <2> USE DEF Gates, At, GateType, RoomOf
  <2>1. CASE \E path \in Paths : PublicRequest(c, path)
    BY <2>1, NotThrough DEF PublicRequest, To, chatVars, roomVars
  <2>2. CASE JoinChat(c)
    <3>1. /\ gate[c].at = "away" /\ gate'[c].at = "chat" /\ chat'[c].socket = "open"
          /\ \A d \in Clients \ {c} : gate'[d] = gate[d] /\ chat'[d] = chat[d]
          /\ sock' = sock
      BY <2>2, EdgeAssumption DEF JoinChat, HandleSession, ChatType, To, roomVars
    <3> QED  BY ONLY <3>1, Gates DEF Gates, At, RoomOf
  <2>3. CASE \E resource \in Resources, credential \in BOOLEAN : AskRealtime(c, resource, credential)
    <3> PICK resource \in Resources, credential \in BOOLEAN : AskRealtime(c, resource, credential)
      BY <2>3
    <3>1. PICK at \in {"authorizing", "served"} :
             gate' = [gate EXCEPT ![c] = [@ EXCEPT !.at = at, !.resource = resource]]
      BY DEF AskRealtime
    <3>2. gate'[c].at = at /\ \A d \in Clients \ {c} : gate'[d] = gate[d]
      BY <3>1
    <3>3. gate[c].at = "away" /\ UNCHANGED <<sock, chat>>
      BY DEF AskRealtime, chatVars, roomVars
    <3> QED  BY ONLY <3>2, <3>3, NotThrough, Gates
  <2>4. CASE Allow(c)
    BY <2>4 DEF Allow, chatVars, roomVars
  <2>5. CASE Deny(c)
    BY <2>5 DEF Deny, To, chatVars, roomVars
  <2>6. CASE Connect(c)
    <3> DEFINE h == gate[c].headers
    <3>1. /\ gate[c].at = "forwarded" /\ gate'[c].at = "realtime"
          /\ gate'[c].resource = gate[c].resource
          /\ \A d \in Clients \ {c} : gate'[d] = gate[d]
      BY <2>6 DEF Connect, To
    <3>2. /\ sock'[c] = [state |-> "open", room |-> h.room, identity |-> h.identity]
          /\ \A d \in Clients \ {c} : sock'[d] = sock[d]
          /\ chat' = chat
      BY <2>6 DEF Connect, Accept, SockType, chatVars
    <3>3. /\ <<c, gate[c].resource>> \in DOMAIN Authorized
          /\ h = Authorized[<<c, gate[c].resource>>]
          /\ h = [room |-> h.room, identity |-> h.identity]
      BY <3>1, EdgeAssumption DEF Contexts
    <3>4. Authorized[<<c, gate'[c].resource>>] = [room |-> sock'[c].room, identity |-> sock'[c].identity]
      BY ONLY <3>1, <3>2, <3>3
    <3>5. <<c, gate'[c].resource>> \in DOMAIN Authorized /\ sock'[c].state # "none"
      BY ONLY <3>1, <3>2, <3>3
    <3> QED  BY ONLY <3>1, <3>2, <3>4, <3>5, Gates DEF Gates, At, RoomOf
  <2> QED  BY <1>2, <2>1, <2>2, <2>3, <2>4, <2>5, <2>6 DEF Gateway
<1>3. CASE ChatStep /\ UNCHANGED <<roomVars, gate, handled>>
  <2>1. \A c \in Clients : (chat'[c].socket = "none") = (chat[c].socket = "none")
    <3> USE EdgeAssumption DEF ChatType
    <3>1. CASE ChatRestart
      BY <3>1 DEF ChatRestart
    <3>2. ASSUME NEW c \in Clients, DropClient(c) \/ ChatCleanup(c)
          PROVE  \A d \in Clients : (chat'[d].socket = "none") = (chat[d].socket = "none")
      BY <3>2 DEF DropClient, ChatCleanup
    <3>3. ASSUME NEW c \in Clients, ChatMessage(c)
          PROVE  \A d \in Clients : (chat'[d].socket = "none") = (chat[d].socket = "none")
      BY <3>3 DEF ChatMessage, Delivered
    <3> QED  BY <1>3, <3>1, <3>2, <3>3 DEF ChatStep, Chat
  <2> QED  BY <1>3, <2>1 DEF Gates, At, RoomOf, roomVars
<1>4. CASE RoomStep /\ UNCHANGED <<chatVars, gate, handled>>
  <2>1. Kept
    BY <1>4, RoomKeeps
  <2> QED  BY <1>4, <2>1 DEF Kept, Gates, At, RoomOf, chatVars
<1> QED  BY <1>1, <1>2, <1>3, <1>4 DEF Next, ChatStep, RoomStep, Handle, vars, chatVars, roomVars

-----------------------------------------------------------------------------
(* Messages                                                                  *)

\* A step that makes no message and leaves no client without a socket keeps Talk.
LEMMA TalkStays ==
  ASSUME Talk, count' = count, calls' \subseteq calls,
         calls' \cup DOMAIN answers' \subseteq calls \cup DOMAIN answers,
         \A m \in handled' : m[2] \in 0..count[m[1]],
         calls' \cap DOMAIN answers' = {},
         \A c \in Clients : sock'[c].state = "none" => sock[c].state = "none"
  PROVE  Talk'
BY DEF Talk

\* Every step keeps the messages' numbers.
LEMMA TalkNext == Types /\ Talk /\ [Next]_vars => Talk'
<1> SUFFICES ASSUME Types, Talk, [Next]_vars PROVE Talk'
  OBVIOUS
<1> DEFINE known == calls \cup DOMAIN answers
<1>h. \A m \in handled : m[2] \in 0..count[m[1]]
  BY DEF Talk
<1>1. CASE UNCHANGED roomVars /\ \A m \in handled' : m[2] \in 0..count[m[1]]
  BY <1>1, TalkStays DEF Talk, roomVars
<1>2. ASSUME NEW c \in Clients, Gateway(c) PROVE Talk'
  <2>1. CASE Connect(c)
    <3>1. UNCHANGED <<count, calls, answers, handled>>
      BY <2>1 DEF Connect, Accept
    <3>2. \A d \in Clients : sock'[d].state = "none" => sock[d].state = "none"
      BY <2>1 DEF Connect, Accept, Types, SockType
    <3> QED  BY ONLY <1>h, <3>1, <3>2, Talk, TalkStays DEF Talk
  <2>2. CASE \E path \in Paths : PublicRequest(c, path)
    <3>1. UNCHANGED roomVars /\ handled' \subseteq handled \cup {<<c, 0>>}
      BY <2>2 DEF PublicRequest
    <3>2. count[c] \in Nat
      BY DEF Types, TalkType
    <3>3. \A m \in handled' : m[2] \in 0..count[m[1]]
      BY <1>h, <3>1, <3>2
    <3> QED  BY <1>1, <3>1, <3>3
  <2> QED  BY <1>1, <1>2, <1>h, <2>1, <2>2 DEF Gateway, JoinChat, AskRealtime, Allow, Deny
<1>3. CASE RoomStep /\ UNCHANGED <<chatVars, gate, handled>>
  <2>1. \A c \in Clients : sock'[c].state = "none" => sock[c].state = "none"
    BY <1>3, RoomKeeps DEF Kept
  <2>2. handled' = handled
    BY <1>3
  <2>3. ASSUME NEW c \in Clients, Room(c) PROVE Talk'
    <3>1. CASE SocketEnds(c)
      <4>1. UNCHANGED <<count, calls, answers>>
        BY <3>1 DEF SocketEnds
      <4> QED  BY ONLY <1>h, <2>1, <2>2, <4>1, Talk, TalkStays DEF Talk
    <3>2. ASSUME NEW good \in BOOLEAN, Receive(c, good) PROVE Talk'
      <4> DEFINE new == <<c, count[c] + 1>>
      <4>1. /\ Live(c) /\ count[c] < MaxMessages[c]
            /\ count' = [count EXCEPT ![c] = @ + 1] /\ answers' = answers
            /\ calls' \subseteq calls \cup {new}
        BY <3>2 DEF Receive
      <4>2. /\ count \in [Clients -> Nat] /\ MaxMessages \in [Clients -> Nat]
            /\ known \subseteq Clients \X Nat
        BY RoomAssumption DEF Types, TalkType
      <4>3. \A d \in Clients : count[d] <= count'[d]
        BY <4>1, <4>2
      <4>4. \A m \in known : m[1] \in Clients /\ m[2] \in 1..count[m[1]]
        BY <4>2 DEF Talk
      <4>5. \A m \in known \cup {new} : m[2] \in 1..count'[m[1]]
        BY <4>1, <4>2, <4>3, <4>4
      <4>8. \A m \in handled' : m[2] \in 0..count'[m[1]]
        <5>1. handled \subseteq Clients \X Nat
          BY DEF Types, TalkType
        <5> QED  BY <1>h, <2>2, <4>1, <4>2, <4>3, <5>1
      <4>6. new \notin DOMAIN answers
        BY <4>2, <4>4
      <4>7. \A d \in Clients : /\ count'[d] <= MaxMessages[d]
                               /\ sock'[d].state = "none" => count'[d] = 0
        BY <2>1, <4>1, <4>2 DEF Talk, Live
      <4> QED  BY <4>1, <4>5, <4>6, <4>7, <4>8 DEF Talk
    <3> QED  BY <2>3, <3>1, <3>2 DEF Room
  <2>4. ASSUME NEW call \in calls, Answer(call) PROVE Talk'
    <3>1. CASE Rejected(call)
      <4>1. UNCHANGED <<count, answers>> /\ calls' = calls \ {call}
        BY <3>1 DEF Rejected
      <4> QED  BY ONLY <1>h, <2>1, <2>2, <4>1, Talk, TalkStays DEF Talk
    <3>2. ASSUME NEW actions \in Actions, Answered(call, actions) PROVE Talk'
      <4>1. /\ count' = count /\ calls' = calls \ {call}
            /\ answers' = [m \in DOMAIN answers \cup {call} |->
                              IF m = call THEN actions ELSE answers[m]]
        BY <3>2 DEF Answered
      <4>2. DOMAIN answers' = DOMAIN answers \cup {call}
        BY <4>1
      <4> QED  BY ONLY <1>h, <2>1, <2>2, <4>1, <4>2, Talk, TalkStays, call \in calls DEF Talk
    <3> QED  BY <2>4, <3>1, <3>2 DEF Answer
  <2>5. ASSUME NEW r \in Rooms, RoomCrash(r) PROVE Talk'
    <3>1. UNCHANGED <<count, answers>> /\ calls' \subseteq calls
      BY <2>5 DEF RoomCrash
    <3> QED  BY ONLY <1>h, <2>1, <2>2, <3>1, Talk, TalkStays DEF Talk
  <2> QED  BY <1>3, <2>3, <2>4, <2>5 DEF RoomStep
<1>4. ASSUME NEW call \in calls, Handle(call) PROVE Talk'
  <2>1. handled' = handled \cup {call} /\ UNCHANGED <<count, calls, answers, sock>>
    BY <1>4 DEF Handle, roomVars
  <2>2. \A m \in handled' : m[2] \in 0..count[m[1]]
    <3>1. call[2] \in 1..count[call[1]] /\ count[call[1]] \in Nat
      BY <1>4 DEF Talk, Types, TalkType
    <3> QED  BY <1>h, <2>1, <3>1
  <2> QED  BY <2>1, <2>2, TalkStays DEF Talk
<1> QED  BY <1>1, <1>2, <1>3, <1>4, <1>h DEF Next, ChatStep, RoomStep, Handle, vars

-----------------------------------------------------------------------------
(* What clients are sent                                                     *)

\* Whom an action is meant for, it permits, and shares the sender's room.
LEMMA AddressedPermits ==
  ASSUME NEW call, NEW action, NEW c \in Addressed(call, action)
  PROVE  c \in Sockets(RoomOf(call[1])) /\ Permits(action, call[1], c)
BY DEF Addressed, Permits

\* Every step keeps what was sent legitimate.
LEMMA SentNext == Types /\ Talk /\ Sent /\ [Next]_vars => Sent'
<1> SUFFICES ASSUME Types, Talk, Sent, [Next]_vars PROVE Sent'
  OBVIOUS
<1>0. calls \subseteq Clients \X Nat /\ DOMAIN answers \subseteq Clients \X Nat
  BY DEF Types, TalkType
<1>1. CASE UNCHANGED roomVars
  BY <1>1 DEF Sent, RoomOf, roomVars
<1>2. ASSUME NEW c \in Clients, Connect(c) PROVE Sent'
  <2>1. UNCHANGED <<inbox, answers>> /\ sock[c].state = "none"
    <3>1. sock[c] = [state |-> "none", room |-> "none", identity |-> "none"]
      BY <1>2 DEF Connect, Accept, NoSocket
    <3>2. UNCHANGED <<inbox, answers>>
      BY <1>2 DEF Connect, Accept
    <3>3. sock[c].state = "none"
      BY ONLY <3>1
    <3> QED  BY ONLY <3>2, <3>3
  <2>2. \A d \in Clients \ {c} : sock'[d] = sock[d]
    BY <1>2 DEF Connect, Accept, Types, SockType
  <2>3. \A d \in Clients : \A tag \in inbox[d] : d # c
    BY <2>1 DEF Sent
  <2>4. \A d \in Clients : \A tag \in inbox[d] : tag[1][1] \in Clients /\ tag[1][1] # c
    <3> SUFFICES ASSUME NEW d \in Clients, NEW tag \in inbox[d]
                 PROVE  tag[1][1] \in Clients /\ tag[1][1] # c
      OBVIOUS
    <3>1. tag[1] \in DOMAIN answers
      BY DEF Sent
    <3>2. tag[1][1] \in Clients /\ tag[1][2] \in 1..count[tag[1][1]]
      BY <1>0, <3>1 DEF Talk
    <3>3. count[c] = 0
      BY <2>1 DEF Talk
    <3> QED  BY <3>2, <3>3
  <2> QED  BY <2>1, <2>2, <2>3, <2>4 DEF Sent, RoomOf
<1>3. CASE RoomStep
  <2>1. Kept
    BY <1>3, RoomKeeps
  <2>2. ASSUME UNCHANGED <<inbox, answers>> PROVE Sent'
    BY <1>0, <2>1, <2>2 DEF Kept, Sent, RoomOf
  <2>3. ASSUME NEW call \in calls, NEW actions, Answered(call, actions) PROVE Sent'
    <3> SUFFICES ASSUME NEW c \in Clients, NEW tag \in inbox'[c]
                 PROVE  /\ sock'[c].state # "none"
                        /\ tag[1] \in DOMAIN answers'
                        /\ RoomOf(tag[1][1])' = RoomOf(c)'
                        /\ Permits(answers'[tag[1]][tag[2]], tag[1][1], c)
      BY DEF Sent
    <3>1. answers' = [m \in DOMAIN answers \cup {call} |-> IF m = call THEN actions ELSE answers[m]]
      BY <2>3 DEF Answered
    <3>2. PICK done, before :
             inbox' = [d \in Clients |-> inbox[d] \cup
                         {<<call, n>> : n \in {k \in done : d \in Gets(call, actions, k, before)}}]
      BY <2>3 DEF Answered
    <3>3. CASE tag \in inbox[c]
      <4>1. tag[1] \in DOMAIN answers /\ tag[1] # call
        BY <3>3 DEF Sent, Talk
      <4>2. answers'[tag[1]] = answers[tag[1]] /\ tag[1] \in DOMAIN answers'
        BY <3>1, <4>1
      <4>3. tag[1][1] \in Clients
        BY <1>0, <4>1
      <4> QED  BY <2>1, <3>3, <4>2, <4>3 DEF Kept, Sent, RoomOf
    <3>4. ASSUME NEW n \in done, tag = <<call, n>>, c \in Gets(call, actions, n, before)
          PROVE  /\ sock'[c].state # "none"
                 /\ tag[1] \in DOMAIN answers'
                 /\ RoomOf(tag[1][1])' = RoomOf(c)'
                 /\ Permits(answers'[tag[1]][tag[2]], tag[1][1], c)
      <4>1. c \in Addressed(call, actions[n])
        BY <3>4 DEF Gets
      <4>2. c \in Sockets(RoomOf(call[1])) /\ Permits(actions[n], call[1], c)
        BY <4>1, AddressedPermits
      <4>3. answers'[call] = actions /\ call \in DOMAIN answers'
        BY <3>1
      <4>4. sock[c].state # "none" /\ RoomOf(c) = RoomOf(call[1]) /\ call[1] \in Clients
        BY <1>0, <4>2 DEF Sockets, Live
      <4> QED  BY <2>1, <3>4, <4>2, <4>3, <4>4 DEF Kept
    <3> QED  BY <3>2, <3>3, <3>4
  <2> QED  BY <1>3, <2>2, <2>3
           DEF RoomStep, Room, Answer, SocketEnds, Receive, Rejected, RoomCrash
<1> QED  BY <1>1, <1>2, <1>3
         DEF Next, Gateway, PublicRequest, JoinChat, AskRealtime, Allow, Deny, ChatStep, RoomStep,
             Handle, vars

-----------------------------------------------------------------------------
(* Presence rows                                                             *)

\* Every step keeps the rows and the sockets together.
LEMMA RowsNext == Types /\ Gates /\ Talk /\ Rows /\ [Next]_vars => Rows'
<1> SUFFICES ASSUME Types, Gates, Talk, Rows, [Next]_vars PROVE Rows'
  OBVIOUS
<1>0. SockType /\ RowType
  BY DEF Types
<1>1. CASE UNCHANGED <<sock, presence, stale>>
  BY <1>1 DEF Rows, Sockets, Live, RoomOf
<1>2. ASSUME NEW c \in Clients, Connect(c) PROVE Rows'
  <2> DEFINE room == gate[c].headers.room
  <2>1. /\ sock[c].state = "none" /\ sock'[c].state = "open" /\ sock'[c].room = room
        /\ \A d \in Clients \ {c} : sock'[d] = sock[d]
    <3>1. sock[c] = [state |-> "none", room |-> "none", identity |-> "none"]
      BY <1>2 DEF Connect, Accept, NoSocket
    <3>2. sock' = [sock EXCEPT ![c] = [state |-> "open", room |-> room,
                                       identity |-> gate[c].headers.identity]]
      BY <1>2 DEF Connect, Accept
    <3> QED  BY <1>0, <3>1, <3>2 DEF SockType
  <2>2. presence' = [presence EXCEPT ![room] = @ \cup {c}] /\ stale' = stale
    BY <1>2 DEF Connect, Accept
  <2>3. c \notin stale
    BY <2>1 DEF Rows
  <2>4. \A r \in Rooms : Sockets(r)' = IF r = room THEN Sockets(r) \cup {c} ELSE Sockets(r)
    BY <2>1 DEF Sockets, Live, RoomOf
  <2>5. \A r \in Rooms : presence'[r] = IF r = room THEN presence[r] \cup {c} ELSE presence[r]
    BY <1>0, <2>2 DEF RowType
  <2>6. \A r \in Rooms : presence'[r] \ stale' = Sockets(r)'
    BY <2>2, <2>3, <2>4, <2>5 DEF Rows
  <2>7. \A d \in stale' : sock'[d].state = "closed"
    BY <1>0, <2>1, <2>2, <2>3 DEF Rows, RowType
  <2> QED  BY <2>6, <2>7 DEF Rows
\* A step that leaves rows alone, and each socket with or without life.
<1>3. ASSUME Kept, UNCHANGED <<presence, stale>>,
             \A c \in Clients : /\ Live(c)' = Live(c)
                                /\ sock[c].state = "closed" => sock'[c].state = "closed"
      PROVE  Rows'
  <2>1. \A r \in Rooms : Sockets(r)' = Sockets(r)
    BY <1>3 DEF Kept, Sockets
  <2> QED  BY <1>0, <1>3, <2>1 DEF Rows, RowType
<1>4. CASE RoomStep
  <2>1. Kept
    BY <1>4, RoomKeeps
  <2>2. ASSUME NEW c \in Clients, SocketEnds(c) PROVE Rows'
    <3>1. /\ Live(c) /\ presence' = [presence EXCEPT ![RoomOf(c)] = @ \ {c}] /\ stale' = stale
          /\ sock' = [sock EXCEPT ![c].state = "closed"]
      BY <2>2 DEF SocketEnds
    <3>2. /\ sock'[c].state = "closed" /\ RoomOf(c)' = RoomOf(c)
          /\ \A d \in Clients \ {c} : sock'[d] = sock[d]
      BY <1>0, <3>1 DEF SockType, RoomOf
    <3>3. \A r \in Rooms : Sockets(r)' = IF r = RoomOf(c) THEN Sockets(r) \ {c} ELSE Sockets(r)
      BY <3>2 DEF Sockets, Live, RoomOf
    <3>4. \A r \in Rooms : presence'[r] = IF r = RoomOf(c) THEN presence[r] \ {c} ELSE presence[r]
      BY <1>0, <3>1 DEF RowType
    <3>5. \A r \in Rooms : presence'[r] \ stale' = Sockets(r)'
      BY <3>1, <3>3, <3>4 DEF Rows
    <3>6. \A d \in stale' : sock'[d].state = "closed"
      BY <1>0, <3>1, <3>2 DEF Rows, RowType
    <3> QED  BY <3>5, <3>6 DEF Rows
  <2>3. ASSUME NEW c \in Clients, NEW good \in BOOLEAN, Receive(c, good) PROVE Rows'
    <3>1. UNCHANGED <<presence, stale>>
      BY <2>3 DEF Receive
    <3>2. \/ sock' = sock
          \/ Live(c) /\ sock' = [sock EXCEPT ![c].state = "closing"]
      BY <2>3 DEF Receive
    <3>3. \A d \in Clients : /\ Live(d)' = Live(d)
                             /\ sock[d].state = "closed" => sock'[d].state = "closed"
      <4>1. CASE sock' = sock
        BY <4>1 DEF Live
      <4>2. CASE Live(c) /\ sock' = [sock EXCEPT ![c].state = "closing"]
        BY <1>0, <4>2 DEF SockType, Live
      <4> QED  BY <3>2, <4>1, <4>2
    <3> QED  BY <1>3, <2>1, <3>1, <3>3
  <2>4. ASSUME NEW call \in calls, Rejected(call) PROVE Rows'
    <3>1. UNCHANGED <<presence, stale>> /\ call[1] \in Clients
      BY <2>4 DEF Rejected, Types, TalkType
    <3>2. \A d \in Clients : /\ Live(d)' = Live(d)
                             /\ sock[d].state = "closed" => sock'[d].state = "closed"
      BY <1>0, <2>4, <3>1 DEF Rejected, SockType, Live
    <3> QED  BY <1>3, <2>1, <3>1, <3>2
  <2>5. ASSUME NEW call \in calls, NEW actions, Answered(call, actions) PROVE Rows'
    <3>1. UNCHANGED <<presence, stale>>
      BY <2>5 DEF Answered
    <3>2. PICK done : sock' = [c \in Clients |-> IF c \in Disconnected(call, actions, done)
                                  THEN [sock[c] EXCEPT !.state = "closing"] ELSE sock[c]]
      BY <2>5 DEF Answered
    <3>3. \A c \in Disconnected(call, actions, done) : Live(c)
      BY DEF Disconnected
    <3>4. \A d \in Clients : /\ Live(d)' = Live(d)
                             /\ sock[d].state = "closed" => sock'[d].state = "closed"
      BY <1>0, <3>2, <3>3 DEF SockType, Live
    <3> QED  BY <1>3, <2>1, <3>1, <3>4
  <2>6. ASSUME NEW r \in Rooms, RoomCrash(r) PROVE Rows'
    <3>1. /\ stale' = stale \cup Sockets(r) /\ presence' = presence
          /\ sock' = [c \in Clients |-> IF c \in Sockets(r) THEN [sock[c] EXCEPT !.state = "closed"]
                                        ELSE sock[c]]
      BY <2>6 DEF RoomCrash
    <3>2. \A c \in Clients : /\ RoomOf(c)' = RoomOf(c)
                             /\ c \in Sockets(r) => sock'[c].state = "closed"
                             /\ c \notin Sockets(r) => sock'[c].state = sock[c].state
      BY <1>0, <3>1 DEF SockType, RoomOf
    <3>3. \A q \in Rooms : Sockets(q)' = Sockets(q) \ Sockets(r)
      BY <3>2 DEF Sockets, Live
    <3>4. \A q \in Rooms : presence'[q] \ stale' = Sockets(q)'
      BY <3>1, <3>3 DEF Rows
    <3>5. \A d \in stale' : sock'[d].state = "closed"
      BY <1>0, <3>1, <3>2 DEF Rows, RowType, Sockets
    <3> QED  BY <3>4, <3>5 DEF Rows
  <2> QED  BY <1>4, <2>2, <2>3, <2>4, <2>5, <2>6 DEF RoomStep, Room, Answer
<1> QED  BY <1>1, <1>2, <1>4
         DEF Next, Gateway, PublicRequest, JoinChat, AskRealtime, Allow, Deny, ChatStep, RoomStep,
             Handle, vars, roomVars

-----------------------------------------------------------------------------
(* The chat room                                                             *)

\* Every step keeps what chat clients have in step with the table.
LEMMA TableNext == Types /\ Table /\ [Next]_vars => Table'
<1> SUFFICES ASSUME Types, Table, [Next]_vars PROVE Table'
  OBVIOUS
<1> ChatType /\ LogType
  BY DEF Types
<1> USE EdgeAssumption
<1>0. Len(messages) \in Nat
  BY DEF LogType
<1>1. CASE UNCHANGED chatVars
  BY <1>1 DEF Table, chatVars
<1>2. ASSUME NEW c \in Clients, JoinChat(c) PROVE Table'
  <2>1. /\ chat[c].socket = "none" /\ messages' = messages /\ sessions' = sessions \cup {c}
        /\ chat' = [chat EXCEPT ![c] = [@ EXCEPT !.socket = "open", !.joined = Len(messages)]]
    BY <1>2 DEF JoinChat, HandleSession
  <2>2. /\ chat'[c].socket = "open" /\ chat'[c].joined = Len(messages) /\ chat'[c].inbox = <<>>
        /\ \A d \in Clients \ {c} : chat'[d] = chat[d]
    BY <2>1 DEF Table, ChatType
  <2>3. <<>> = [i \in 1..(Len(messages) - Len(messages)) |-> Len(messages) + i]
    BY <1>0
  <2> QED  BY <1>0, <2>1, <2>2, <2>3 DEF Table
<1>3. CASE ChatRestart
  <2>1. /\ messages' = messages
        /\ \A c \in Clients : /\ chat'[c].inbox = chat[c].inbox
                              /\ chat'[c].socket # "open"
                              /\ (chat'[c].socket = "none") = (chat[c].socket = "none")
    BY <1>3 DEF ChatRestart, ChatType
  <2> QED  BY <2>1 DEF Table
<1>4. ASSUME NEW c \in Clients, DropClient(c) \/ ChatCleanup(c) PROVE Table'
  <2>1. /\ messages' = messages /\ sessions \ {c} \subseteq sessions'
        /\ chat[c].socket # "none" /\ chat'[c].socket \in {"dead", "closed"}
        /\ \A d \in Clients \ {c} : chat'[d] = chat[d]
    BY <1>4 DEF DropClient, ChatCleanup, ChatType
  <2> QED  BY <2>1 DEF Table
<1>5. ASSUME NEW c \in Clients, ChatMessage(c) PROVE Table'
  <2>1. /\ messages' = Append(messages, c) /\ sessions' = Reachable
        /\ chat' = [d \in Clients |-> IF d \in Reachable
                      THEN [chat[d] EXCEPT !.inbox = Append(@, Len(messages) + 1)] ELSE chat[d]]
    BY <1>5 DEF ChatMessage, Delivered
  <2>2. Len(messages') = Len(messages) + 1
    BY <2>1 DEF LogType
  <2>3. SUFFICES ASSUME NEW d \in Clients
                 PROVE  /\ chat'[d].socket = "none" => chat'[d].inbox = <<>>
                        /\ chat'[d].socket = "open" =>
                             /\ d \in sessions'
                             /\ chat'[d].joined <= Len(messages')
                             /\ chat'[d].inbox =
                                  [i \in 1..(Len(messages') - chat'[d].joined) |-> chat'[d].joined + i]
    BY DEF Table
  <2>4. CASE d \in Reachable
    <3> DEFINE old == chat[d].inbox
               joined == chat[d].joined
               n == Len(messages) - joined
    <3>1. /\ chat'[d].socket = "open" /\ chat'[d].joined = joined
          /\ chat'[d].inbox = Append(old, Len(messages) + 1)
      BY <2>1, <2>4 DEF Reachable, ChatType
    <3>2. /\ old = [i \in 1..n |-> joined + i]
          /\ joined \in Nat /\ joined <= Len(messages)
      BY <2>4 DEF Table, Reachable, ChatType
    <3>3. n \in Nat /\ old \in Seq(Nat) /\ Len(old) = n
      BY <1>0, <3>2 DEF ChatType
    <3>4. Append(old, Len(messages) + 1) = [i \in 1..(n + 1) |-> joined + i]
      <4> HIDE DEF old, n, joined
      <4>1. Len(messages) + 1 = joined + (n + 1)
        BY <1>0, <3>2 DEF n
      <4> DEFINE longer == Append(old, Len(messages) + 1)
      <4>2. Len(longer) = n + 1 /\ longer \in Seq(Nat)
        BY <1>0, <3>3
      <4>3. \A i \in 1..(n + 1) : longer[i] = joined + i
        BY <1>0, <3>2, <3>3, <4>1
      <4>4. longer = [i \in 1..(n + 1) |-> longer[i]]
        BY <4>2
      <4> QED  BY <4>3, <4>4
    <3>5. \A l, k \in Int : l + 1 - k = l - k + 1 /\ (k <= l => k <= l + 1)
      OBVIOUS
    <3>6. Len(messages') - joined = n + 1 /\ joined <= Len(messages')
      BY ONLY <1>0, <2>2, <3>2, <3>5
    <3>7. chat'[d].inbox = [i \in 1..(Len(messages') - chat'[d].joined) |-> chat'[d].joined + i]
      BY ONLY <3>1, <3>4, <3>6
    <3> QED  BY <2>1, <2>4, <3>1, <3>6, <3>7
  <2>5. CASE d \notin Reachable
    <3>1. chat'[d] = chat[d] /\ chat[d].socket # "open"
      BY <2>1, <2>5 DEF Reachable, Table
    <3> QED  BY <3>1 DEF Table
  <2> QED  BY <2>4, <2>5
<1> QED  BY <1>1, <1>2, <1>3, <1>4, <1>5
         DEF Next, Gateway, PublicRequest, AskRealtime, Allow, Deny, Connect, ChatStep, Chat, Handle,
             vars

-----------------------------------------------------------------------------
(* Theorems                                                                  *)

\* The strengthened invariant is inductive, so it always holds.
LEMMA Invariance == Spec => []IInv
<1>1. IInv /\ [Next]_vars => IInv'
  BY TypesNext, GatesNext, TalkNext, SentNext, RowsNext, TableNext DEF IInv
<1> QED  BY InitIInv, <1>1, PTL DEF Spec

\* For any clients, rooms and authorisations the state has its shape; in particular a
\* client has a socket of a realtime room only if it was forwarded to one, and what a
\* room has in hand, or is given actions for, is a message that it received.
THEOREM TypeCorrect == Spec => []TypeOK
<1>1. IInv => TypeOK
  <2> SUFFICES ASSUME IInv PROVE TypeOK
    OBVIOUS
  <2>1. Types /\ Gates /\ Talk
    BY DEF IInv
  <2>2. \A c \in Clients : gate[c].at \in GateSteps
    BY <2>1 DEF Types, GateType
  <2>3. \A c \in Clients : sock[c].state \in SockStates
    BY <2>1 DEF Types, SockType
  <2>4. \A c \in Clients : chat[c].socket \in ChatStates
    BY <2>1 DEF Types, ChatType
  <2>5. \A c \in Clients : count[c] \in 0..MaxMessages[c]
    BY <2>1, RoomAssumption DEF Types, TalkType, Talk
  <2>6. presence \in [Rooms -> SUBSET Clients]
    BY <2>1 DEF Types, RowType
  <2> QED  BY <2>1, <2>2, <2>3, <2>4, <2>5, <2>6
           DEF TypeOK, Gates, Talk, GateSteps, SockStates, ChatStates
<1> QED  BY Invariance, <1>1, PTL

\* For any clients, rooms, authorisations and lists of actions, whatever the clients
\* claim and in whatever order the application answers: the trust boundary of
\* docs/en/portable-backend.md:36-51 holds.
THEOREM Boundary == Spec => []TrustBoundary
<1>1. IInv => TrustBoundary
  BY DEF IInv, Gates, Sent, TrustBoundary
<1> QED  BY Invariance, <1>1, PTL

\* A room's presence rows are its sockets, but for those a crash took away, and
\* presence() is right even then, for any clients and rooms.
THEOREM Presence == Spec => []PresenceExact
<1>1. IInv => PresenceExact
  BY DEF IInv, Rows, PresenceExact, Members
<1> QED  BY Invariance, <1>1, PTL

\* Connected chat clients have the messages since they joined, in the table's order,
\* for any number of clients and messages.
THEOREM Ordered == Spec => []ChatOrder
<1>1. IInv => ChatOrder
  BY EdgeAssumption DEF IInv, Table, ChatOrder
<1> QED  BY Invariance, <1>1, PTL
=============================================================================
