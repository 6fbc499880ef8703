-------------------------- MODULE HttpServerProofs --------------------------
(***************************************************************************)
(* HttpServer, proved for any number of accept threads, clients and calls  *)
(* of requestShutdown, and any max_connections: types, the exact count of  *)
(* connections, its bound, and a drained server at the return.             *)
(***************************************************************************)
EXTENDS HttpServer, FiniteSetTheorems, TLAPS

\* Accept loops with a slot, about to start the thread of their connection.
Starting == {a \in Acceptors : at[a] = "start"}

\* A loop has a connection in hand just where the code has a stream, nobody else
\* has that one, and no thread serves it yet.
Hands ==
    /\ \A a \in Acceptors :
          /\ hold[a] # NoConn <=> at[a] \in {"count", "start", "refuse"}
          /\ hold[a] # NoConn => conn[hold[a]] = "taken"
    /\ \A a, b \in Acceptors : a # b /\ hold[a] # NoConn => hold[a] # hold[b]

\* Slots handed out, to threads and to threads about to start.
SlotsBounded == Cardinality(Serving) + Cardinality(Starting) <= MaxConnections

\* What main has behind it: it is off, in its loop or past it; past the join no
\* loop runs, past the drain nothing is served.
Early == {"bind", "publish", "spawn"}
Late  == {"unpublish", "close", "returned"}
Phases ==
    /\ main \in Early => at[Main] = "off"
    /\ main \in {"join", "drain"} \cup Late => at[Main] = "ended"
    /\ main \in {"drain"} \cup Late => \A a \in Acceptors : at[a] = "ended"
    /\ main \in Late => Serving = {}
    /\ main = "returned" => listener = "closed"

IInv == TypeOK /\ Hands /\ CountExact /\ SlotsBounded /\ Phases

-----------------------------------------------------------------------------
\* The sets counted are finite.
LEMMA Finite == /\ IsFiniteSet(Serving) /\ Cardinality(Serving) \in Nat
                /\ IsFiniteSet(Counting) /\ Cardinality(Counting) \in Nat
                /\ IsFiniteSet(Starting) /\ Cardinality(Starting) \in Nat
                /\ Cardinality(Starting) <= Cardinality(Counting)
<1>1. IsFiniteSet(Acceptors)
  BY ServerAssumption, FS_AddElement DEF Acceptors
<1>2. IsFiniteSet(Serving)
  BY ServerAssumption, FS_Subset DEF Serving
<1>3. IsFiniteSet(Counting)
  BY <1>1, FS_Subset DEF Counting
<1>4. Starting \subseteq Counting
  BY DEF Starting, Counting
<1> QED
  BY <1>2, <1>3, <1>4, FS_Subset, FS_CardinalityType

\* The five things a step may do to the count and to what it counts.
Still == /\ Serving' = Serving /\ Counting' = Counting /\ active' = active
         /\ Starting' \subseteq Starting
Counts(a) == /\ a \in Acceptors \ Counting /\ Counting' = Counting \cup {a}
             /\ Serving' = Serving /\ active' = active + 1
             /\ \/ Starting' = Starting
                \/ active < MaxConnections /\ Starting' = Starting \cup {a}
Starts(a, c) == /\ a \in Starting /\ c \notin Serving
                /\ Counting' = Counting \ {a} /\ Starting' = Starting \ {a}
                /\ Serving' = Serving \cup {c} /\ active' = active
GivesBack(a) == /\ a \in Counting \ Starting /\ Counting' = Counting \ {a}
                /\ Starting' = Starting /\ Serving' = Serving /\ active' = active - 1
Ends(c) == /\ c \in Serving /\ Serving' = Serving \ {c}
           /\ Counting' = Counting /\ Starting' = Starting /\ active' = active - 1

\* Every step does one of the five.
LEMMA Effects ==
    ASSUME IInv, [Next]_vars
    PROVE  \/ Still \/ \E a \in Acceptors : Counts(a) \/ GivesBack(a)
           \/ \E a \in Acceptors, c \in Conns : Starts(a, c)
           \/ \E c \in Conns : Ends(c)
<1> USE DEF IInv, TypeOK, Serving, Counting, Starting
<1>1. CASE UNCHANGED vars
  BY <1>1 DEF vars, Still
<1>2. CASE MainStep
  <2>1. ASSUME NEW a \in Extra, SpawnAcceptor(a) PROVE Still
    BY <2>1, ServerAssumption DEF SpawnAcceptor, Still, Acceptors
  <2>2. CASE EnterLoop
    BY <2>2 DEF EnterLoop, Still, Phases, Early, Acceptors
  <2> QED
    BY <1>2, <2>1, <2>2 DEF MainStep, Bind, Publish, SpawnFails, LeaveLoop, Join, Drain,
       Unpublish, CloseListener, Still
<1>3. CASE \E s \in Stoppers : SetFlag(s) \/ LoadFd(s) \/ ShutDown(s)
  BY <1>3 DEF SetFlag, LoadFd, ShutDown, Still
<1>4. ASSUME NEW c \in Conns, Connect(c) \/ Leave(c) PROVE Still
  BY <1>4 DEF Connect, Leave, Still
<1>5. ASSUME NEW c \in Conns, EndConnection(c) PROVE Ends(c)
  BY <1>5 DEF EndConnection, LoopUnchanged, Ends
<1>6. ASSUME NEW a \in Acceptors, LoopStep(a)
      PROVE  Still \/ Counts(a) \/ GivesBack(a) \/ \E c \in Conns : Starts(a, c)
  <2> USE DEF Goto, LoopUnchanged
  <2>1. CASE Check(a) \/ Poll(a) \/ Recheck(a)
    BY <2>1 DEF Check, Poll, Recheck, Still
  <2>2. CASE \E c \in Conns : Accept(a, c)
    BY <2>2 DEF Accept, Queued, Still
  <2>3. CASE AcceptNothing(a) \/ AcceptFails(a) \/ WakeUp(a)
    BY <2>3 DEF AcceptNothing, AcceptFails, WakeUp, Still
  <2>4. CASE Count(a)
    BY <2>4, ServerAssumption DEF Count, Counts
  <2>5. CASE StartThread(a)
    <3>1. hold[a] \in Conns /\ conn[hold[a]] = "taken"
      BY <2>5 DEF StartThread, Hands
    <3> QED
      BY <2>5, <3>1 DEF StartThread, Starts
  <2>6. CASE StartFails(a)
    BY <2>6 DEF StartFails, Still
  <2>7. CASE Refuse(a)
    <3>1. hold[a] \in Conns /\ conn[hold[a]] = "taken"
      BY <2>7 DEF Refuse, Hands
    <3> QED
      BY <2>7, <3>1 DEF Refuse, GivesBack
  <2> QED
    BY <1>6, <2>1, <2>2, <2>3, <2>4, <2>5, <2>6, <2>7 DEF LoopStep
<1> QED
  BY <1>1, <1>2, <1>3, <1>4, <1>5, <1>6 DEF Next

-----------------------------------------------------------------------------
\* The count stays exact, and so a number.
LEMMA CountStep == IInv /\ [Next]_vars => CountExact' /\ active' \in Nat
<1> SUFFICES ASSUME IInv, [Next]_vars PROVE CountExact' /\ active' \in Nat
  OBVIOUS
<1> DEFINE s == Cardinality(Serving)  k == Cardinality(Counting)
<1>0. active = s + k /\ s \in Nat /\ k \in Nat
  BY Finite DEF IInv, CountExact
<1>1. CASE Still
  BY <1>1, <1>0 DEF Still, CountExact
<1>2. ASSUME NEW a \in Acceptors, Counts(a) PROVE CountExact' /\ active' \in Nat
  <2>1. Cardinality(Counting') = k + 1
    BY <1>2, Finite, FS_AddElement DEF Counts
  <2> QED
    BY <1>2, <1>0, <2>1 DEF Counts, CountExact
<1>3. ASSUME NEW a \in Acceptors, GivesBack(a) PROVE CountExact' /\ active' \in Nat
  <2>1. Cardinality(Counting') = k - 1
    BY <1>3, Finite, FS_RemoveElement DEF GivesBack
  <2>2. k # 0
    BY <1>3, Finite, FS_EmptySet DEF GivesBack
  <2> QED
    BY <1>3, <1>0, <2>1, <2>2 DEF GivesBack, CountExact
<1>4. ASSUME NEW a \in Acceptors, NEW c \in Conns, Starts(a, c)
      PROVE  CountExact' /\ active' \in Nat
  <2>1. a \in Counting
    BY <1>4 DEF Starts, Starting, Counting
  <2>2. Cardinality(Counting') = k - 1
    BY <1>4, <2>1, Finite, FS_RemoveElement DEF Starts
  <2>3. Cardinality(Serving') = s + 1
    BY <1>4, Finite, FS_AddElement DEF Starts
  <2> QED
    BY <1>4, <1>0, <2>2, <2>3 DEF Starts, CountExact
<1>5. ASSUME NEW c \in Conns, Ends(c) PROVE CountExact' /\ active' \in Nat
  <2>1. Cardinality(Serving') = s - 1
    BY <1>5, Finite, FS_RemoveElement DEF Ends
  <2>2. s # 0
    BY <1>5, Finite, FS_EmptySet DEF Ends
  <2> QED
    BY <1>5, <1>0, <2>1, <2>2 DEF Ends, CountExact
<1> QED
  BY <1>1, <1>2, <1>3, <1>4, <1>5, Effects

\* No step hands out a slot beyond the limit: a count below it shows a free one.
LEMMA SlotStep == IInv /\ [Next]_vars => SlotsBounded'
<1> SUFFICES ASSUME IInv, [Next]_vars PROVE SlotsBounded'
  OBVIOUS
<1> DEFINE s == Cardinality(Serving)  k == Cardinality(Counting)  t == Cardinality(Starting)
<1>0. /\ active = s + k /\ s \in Nat /\ k \in Nat /\ t \in Nat /\ t <= k
      /\ s + t <= MaxConnections /\ MaxConnections \in Nat
  BY Finite, ServerAssumption DEF IInv, CountExact, SlotsBounded
<1>1. CASE Still
  <2>1. Cardinality(Starting') \in Nat /\ Cardinality(Starting') <= t
    BY <1>1, Finite, FS_Subset, FS_CardinalityType DEF Still
  <2> QED
    BY <1>1, <1>0, <2>1 DEF Still, SlotsBounded
<1>2. ASSUME NEW a \in Acceptors, Counts(a) PROVE SlotsBounded'
  <2>1. CASE Starting' = Starting
    BY <2>1, <1>2, <1>0 DEF Counts, SlotsBounded
  <2>2. CASE active < MaxConnections /\ Starting' = Starting \cup {a}
    <3>1. a \notin Starting
      BY <1>2 DEF Counts, Starting, Counting
    <3>2. Cardinality(Starting') = t + 1
      BY <2>2, <3>1, Finite, FS_AddElement
    <3> QED
      BY <2>2, <3>2, <1>2, <1>0 DEF Counts, SlotsBounded
  <2> QED
    BY <2>1, <2>2, <1>2 DEF Counts
<1>3. ASSUME NEW a \in Acceptors, GivesBack(a) PROVE SlotsBounded'
  BY <1>3, <1>0 DEF GivesBack, SlotsBounded
<1>4. ASSUME NEW a \in Acceptors, NEW c \in Conns, Starts(a, c) PROVE SlotsBounded'
  <2>1. Cardinality(Starting') = t - 1
    BY <1>4, Finite, FS_RemoveElement DEF Starts
  <2>2. Cardinality(Serving') = s + 1
    BY <1>4, Finite, FS_AddElement DEF Starts
  <2> QED
    BY <1>0, <2>1, <2>2 DEF SlotsBounded
<1>5. ASSUME NEW c \in Conns, Ends(c) PROVE SlotsBounded'
  <2>1. Cardinality(Serving') = s - 1
    BY <1>5, Finite, FS_RemoveElement DEF Ends
  <2> QED
    BY <1>5, <1>0, <2>1 DEF Ends, SlotsBounded
<1> QED
  BY <1>1, <1>2, <1>3, <1>4, <1>5, Effects

\* Every step keeps the variables in their types.
LEMMA TypeStep == IInv /\ [Next]_vars => TypeOK'
<1> SUFFICES ASSUME IInv, [Next]_vars PROVE TypeOK'
  OBVIOUS
<1> USE ServerAssumption DEF IInv, TypeOK, MainSteps, LoopSteps, ConnStates
<1>0. active' \in Nat
  BY CountStep
<1>1. CASE UNCHANGED vars
  BY <1>1, <1>0 DEF vars
<1>2. CASE MainStep
  <2>1. ASSUME NEW a \in Extra, SpawnAcceptor(a) PROVE TypeOK'
    BY <2>1 DEF SpawnAcceptor, Acceptors
  <2>2. CASE EnterLoop
    BY <2>2 DEF EnterLoop, Acceptors
  <2>3. CASE Bind \/ Publish \/ SpawnFails \/ LeaveLoop
    BY <2>3 DEF Bind, Publish, SpawnFails, Error, LeaveLoop
  <2>4. CASE Join \/ Drain \/ Unpublish \/ CloseListener
    BY <2>4 DEF Join, Drain, Unpublish, CloseListener
  <2> QED
    BY <1>2, <2>1, <2>2, <2>3, <2>4 DEF MainStep
<1>3. ASSUME NEW s \in Stoppers, SetFlag(s) \/ LoadFd(s) \/ ShutDown(s) PROVE TypeOK'
  BY <1>3 DEF SetFlag, LoadFd, ShutDown
<1>4. ASSUME NEW c \in Conns, Connect(c) \/ Leave(c) \/ EndConnection(c) PROVE TypeOK'
  BY <1>4, <1>0 DEF Connect, Leave, EndConnection, LoopUnchanged
<1>5. ASSUME NEW a \in Acceptors, LoopStep(a) PROVE TypeOK'
  <2> USE <1>0 DEF Goto, LoopUnchanged
  <2>1. CASE Check(a) \/ Poll(a) \/ Recheck(a) \/ AcceptNothing(a) \/ WakeUp(a)
    BY <2>1 DEF Check, Poll, Recheck, AcceptNothing, WakeUp
  <2>2. CASE AcceptFails(a) \/ StartFails(a)
    BY <2>2 DEF AcceptFails, StartFails, Error
  <2>3. CASE \E c \in Conns : Accept(a, c)
    BY <2>3 DEF Accept
  <2>4. CASE Count(a)
    BY <2>4 DEF Count
  <2>5. CASE StartThread(a) \/ Refuse(a)
    BY <2>5 DEF StartThread, Refuse
  <2> QED
    BY <1>5, <2>1, <2>2, <2>3, <2>4, <2>5 DEF LoopStep
<1> QED
  BY <1>1, <1>2, <1>3, <1>4, <1>5 DEF Next

\* What an accept loop has in hand stays its own.
LEMMA HandsStep == IInv /\ [Next]_vars => Hands'
<1> SUFFICES ASSUME IInv, [Next]_vars PROVE Hands'
  OBVIOUS
<1> USE ServerAssumption DEF IInv, TypeOK, Hands
<1>1. CASE UNCHANGED vars
  BY <1>1 DEF vars
<1>2. CASE MainStep
  <2>1. ASSUME NEW a \in Extra, SpawnAcceptor(a) PROVE Hands'
    BY <2>1 DEF SpawnAcceptor, Acceptors
  <2>2. CASE EnterLoop
    BY <2>2 DEF EnterLoop, Phases, Early
  <2> QED
    BY <1>2, <2>1, <2>2 DEF MainStep, Bind, Publish, SpawnFails, LeaveLoop, Join, Drain,
       Unpublish, CloseListener
<1>3. ASSUME NEW s \in Stoppers, SetFlag(s) \/ LoadFd(s) \/ ShutDown(s) PROVE Hands'
  BY <1>3 DEF SetFlag, LoadFd, ShutDown
<1>4. ASSUME NEW c \in Conns, Connect(c) \/ Leave(c) \/ EndConnection(c) PROVE Hands'
  BY <1>4 DEF Connect, Leave, EndConnection, LoopUnchanged
<1>5. ASSUME NEW a \in Acceptors, LoopStep(a) PROVE Hands'
  <2> USE DEF Goto, LoopUnchanged
  <2>1. CASE Check(a) \/ Poll(a) \/ Recheck(a) \/ AcceptNothing(a) \/ WakeUp(a)
    BY <2>1 DEF Check, Poll, Recheck, AcceptNothing, WakeUp
  <2>2. CASE AcceptFails(a) \/ StartFails(a)
    BY <2>2 DEF AcceptFails, StartFails
  <2>3. ASSUME NEW c \in Conns, Accept(a, c) PROVE Hands'
    BY <2>3 DEF Accept, Queued
  <2>4. CASE Count(a)
    BY <2>4 DEF Count
  <2>5. CASE StartThread(a)
    BY <2>5 DEF StartThread
  <2>6. CASE Refuse(a)
    BY <2>6 DEF Refuse
  <2> QED
    BY <1>5, <2>1, <2>2, <2>3, <2>4, <2>5, <2>6 DEF LoopStep
<1> QED
  BY <1>1, <1>2, <1>3, <1>4, <1>5 DEF Next

\* Main goes through its phases once, and leaves nothing running behind.
LEMMA PhaseStep == IInv /\ [Next]_vars => Phases'
<1> SUFFICES ASSUME IInv, [Next]_vars PROVE Phases'
  OBVIOUS
<1> USE ServerAssumption DEF IInv, TypeOK, Phases, Early, Late, Acceptors
<1>1. CASE UNCHANGED vars
  BY <1>1 DEF vars, Serving
<1>2. CASE MainStep
  <2>1. ASSUME NEW a \in Extra, SpawnAcceptor(a) PROVE Phases'
    BY <2>1 DEF SpawnAcceptor
  <2>2. CASE Drain
    <3>1. Serving = {}
      <4>1. Cardinality(Serving) = 0
        BY <2>2, Finite DEF Drain, CountExact
      <4> QED
        BY <4>1, Finite, FS_EmptySet
    <3>2. Serving' = Serving
      BY <2>2 DEF Drain, Serving
    <3> QED
      BY <2>2, <3>1, <3>2 DEF Drain
  <2>3. CASE Bind \/ Publish \/ SpawnFails \/ EnterLoop
    BY <2>3 DEF Bind, Publish, SpawnFails, EnterLoop
  <2>4. CASE LeaveLoop \/ Join
    BY <2>4 DEF LeaveLoop, Join
  <2>5. CASE Unpublish \/ CloseListener
    BY <2>5 DEF Unpublish, CloseListener, Serving
  <2> QED
    BY <1>2, <2>1, <2>2, <2>3, <2>4, <2>5 DEF MainStep
<1>3. ASSUME NEW s \in Stoppers, SetFlag(s) \/ LoadFd(s) \/ ShutDown(s) PROVE Phases'
  BY <1>3 DEF SetFlag, LoadFd, ShutDown, Serving
<1>4. ASSUME NEW c \in Conns, Connect(c) \/ Leave(c) \/ EndConnection(c) PROVE Phases'
  BY <1>4 DEF Connect, Leave, EndConnection, LoopUnchanged, Serving
<1>5. ASSUME NEW a \in Acceptors, LoopStep(a) PROVE Phases'
  <2>1. /\ at[a] \notin {"off", "ended"} /\ main' = main /\ listener' = listener
        /\ \A b \in Acceptors : b # a => at'[b] = at[b]
    BY <1>5 DEF LoopStep, Check, Poll, Recheck, Accept, AcceptNothing, AcceptFails, WakeUp,
       Count, StartThread, StartFails, Refuse, Goto, LoopUnchanged
  <2>2. main \notin {"drain"} \cup Late
    BY <2>1
  <2>3. a = Main => main \notin Early \cup {"join"}
    BY <2>1
  <2> QED
    BY <2>1, <2>2, <2>3
<1> QED
  BY <1>1, <1>2, <1>3, <1>4, <1>5 DEF Next

-----------------------------------------------------------------------------
\* The server starts with nothing counted, held or served.
LEMMA InitInv == Init => IInv
<1> SUFFICES ASSUME Init PROVE IInv
  OBVIOUS
<1> USE ServerAssumption DEF Init
<1>1. Serving = {} /\ Counting = {} /\ Starting = {}
  BY DEF Serving, Counting, Starting
<1>2. TypeOK
  <2>1. at \in [Acceptors -> LoopSteps] /\ hold \in [Acceptors -> Conns \cup {NoConn}]
    BY DEF LoopSteps
  <2>2. conn \in [Conns -> ConnStates]
    BY DEF ConnStates
  <2>3. stop \in [Stoppers -> {"idle", "flagged", "holding", "done"}]
    OBVIOUS
  <2>4. main \in MainSteps /\ listener \in {"none", "bound", "published", "closed"}
    BY DEF MainSteps
  <2>5. shut \in BOOLEAN /\ flag \in BOOLEAN /\ stray \in BOOLEAN
    OBVIOUS
  <2>6. active \in Nat /\ errors \in 0..MaxErrors
    OBVIOUS
  <2> QED
    BY <2>1, <2>2, <2>3, <2>4, <2>5, <2>6 DEF TypeOK
<1>3. Hands
  BY DEF Hands
<1>4. CountExact /\ SlotsBounded
  BY <1>1, FS_EmptySet DEF CountExact, SlotsBounded
<1>5. Phases
  BY DEF Phases, Early, Late, Acceptors
<1> QED
  BY <1>2, <1>3, <1>4, <1>5 DEF IInv

\* The inductive invariant holds in every reachable state.
THEOREM Invariance == Spec => []IInv
<1>1. IInv /\ [Next]_vars => IInv'
  BY TypeStep, HandsStep, CountStep, SlotStep, PhaseStep DEF IInv
<1> QED
  BY InitInv, <1>1, PTL DEF Spec

\* Every variable keeps its type; active_connections, an unsigned integer, never
\* goes below zero.
THEOREM TypeCorrect == Spec => []TypeOK
<1>1. IInv => TypeOK
  BY DEF IInv
<1> QED
  BY Invariance, <1>1, PTL

\* active_connections is the number of threads and of loops that hold a slot.
THEOREM Counted == Spec => []CountExact
<1>1. IInv => CountExact
  BY DEF IInv
<1> QED
  BY Invariance, <1>1, PTL

\* There are never more connection threads than max_connections.
THEOREM Bounded == Spec => []ConnectionsBounded
<1>1. IInv => ConnectionsBounded
  BY Finite, ServerAssumption DEF IInv, SlotsBounded, ConnectionsBounded
<1> QED
  BY Invariance, <1>1, PTL

\* serveNative returns with every accept loop over, every connection ended and the
\* listener closed.
THEOREM Drained == Spec => []DrainedBeforeReturn
<1>1. IInv => DrainedBeforeReturn
  BY DEF IInv, Hands, Phases, Late, DrainedBeforeReturn
<1> QED
  BY Invariance, <1>1, PTL
=============================================================================
