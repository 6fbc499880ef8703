------------------------------- MODULE DbPool -------------------------------
(***************************************************************************)
(* Pool.acquire, Lease.deinit and Pool.deinit of src/src/db/pool.zig, over *)
(* the pthread mutex and condition of src/src/sync.zig.                    *)
(*                                                                         *)
(* A critical section of Pool.mu has no step that waits in it except       *)
(* changed.wait, which gives the mutex back, so each is one action.        *)
(* release signals after it has unlocked: a step of its own.  A waiting    *)
(* thread may wake without a signal, as POSIX allows, and a woken thread   *)
(* competes for the mutex with every newcomer.                             *)
(***************************************************************************)
EXTENDS Integers, FiniteSets

CONSTANTS
    Threads,  \* callers of acquire
    N,        \* handles passed to init, numbered as in Pool.handles
    Rounds    \* bound: leases a thread takes in its life

ASSUME PoolAssumption ==
    /\ IsFiniteSet(Threads)
    /\ N \in Nat \ {0}       \* error.EmptyPool otherwise
    /\ Rounds \in Nat

VARIABLES
    available,  \* Pool.available
    closed,     \* Pool.closed
    waiting,    \* threads blocked in changed.wait
    pc,         \* where a thread is
    lease,      \* index of the lease a thread holds
    rounds,     \* leases it has taken
    owner       \* where the thread that calls Pool.deinit is

vars == <<available, closed, waiting, pc, lease, rounds, owner>>

Handles == 1..N
None == 0
Steps == {"idle",     \* outside the pool, holding nothing
          "acquire",  \* in acquire, about to take the mutex
          "waiting",  \* in changed.wait
          "woken",    \* woken in changed.wait, about to take the mutex again
          "holding",  \* has a lease
          "signal",   \* in release, mutex given back, signal still to send
          "refused"}  \* acquire returned error.PoolClosed
OwnerSteps == {"open", "closed", "woken", "freed"}

TypeOK ==
    /\ available \in [Handles -> BOOLEAN] /\ closed \in BOOLEAN
    /\ waiting \in SUBSET Threads
    /\ pc \in [Threads -> Steps]
    /\ lease \in [Threads -> Handles \cup {None}]
    /\ rounds \in [Threads -> 0..Rounds]
    /\ owner \in OwnerSteps

Init ==
    /\ available = [h \in Handles |-> TRUE] /\ closed = FALSE
    /\ waiting = {}
    /\ pc = [t \in Threads |-> "idle"]
    /\ lease = [t \in Threads |-> None]
    /\ rounds = [t \in Threads |-> 0]
    /\ owner = "open"

Free == {h \in Handles : available[h]}

-----------------------------------------------------------------------------
\* A thread calls acquire while the pool exists.
Enter(t) ==
    /\ pc[t] = "idle" /\ rounds[t] < Rounds /\ owner = "open"
    /\ pc' = [pc EXCEPT ![t] = "acquire"]
    /\ rounds' = [rounds EXCEPT ![t] = @ + 1]
    /\ UNCHANGED <<available, closed, waiting, lease, owner>>

Contends(t) == pc[t] \in {"acquire", "woken"}

\* The body of acquire's loop, under the mutex: the first handle that is free,
\* else wait.
Refuse(t) ==
    /\ Contends(t) /\ closed /\ owner # "freed"
    /\ pc' = [pc EXCEPT ![t] = "refused"]
    /\ UNCHANGED <<available, closed, waiting, lease, rounds, owner>>

\* (Faulty variants: the flag is left alone; the flag past it is set as well.)
TakenUnmarked(h) == available
TakenPast(h) == [g \in Handles \cup {h + 1} |-> g = h + 1 \/ (g # h /\ available[g])]
Taken(h) == [available EXCEPT ![h] = FALSE]

Grant(t) ==
    /\ Contends(t) /\ ~closed
    /\ \E h \in Free :
        /\ \A g \in Free : h <= g
        /\ available' = Taken(h)
        /\ lease' = [lease EXCEPT ![t] = h]
    /\ pc' = [pc EXCEPT ![t] = "holding"]
    /\ UNCHANGED <<closed, waiting, rounds, owner>>

Wait(t) ==
    /\ Contends(t) /\ ~closed /\ Free = {}
    /\ pc' = [pc EXCEPT ![t] = "waiting"]
    /\ waiting' = waiting \cup {t}
    /\ UNCHANGED <<available, closed, lease, rounds, owner>>

\* changed.wait returns although nobody signalled.
Spurious(t) ==
    /\ t \in waiting
    /\ waiting' = waiting \ {t}
    /\ pc' = [pc EXCEPT ![t] = "woken"]
    /\ UNCHANGED <<available, closed, lease, rounds, owner>>

\* Lease.deinit, once per lease (Lease.released): Pool.release up to unlock ...
\* (Faulty variant: no signal is owed.)
AfterReleaseSilent == "idle"
AfterRelease == "signal"

Release(t) ==
    /\ pc[t] = "holding"
    /\ available' = [available EXCEPT ![lease[t]] = TRUE]
    /\ lease' = [lease EXCEPT ![t] = None]
    /\ pc' = [pc EXCEPT ![t] = AfterRelease]
    /\ UNCHANGED <<closed, waiting, rounds, owner>>

\* ... and its signal, which wakes one waiter if there is one.
Signal(t) ==
    /\ pc[t] = "signal"
    /\ \/ /\ waiting = {}
          /\ pc' = [pc EXCEPT ![t] = "idle"]
          /\ UNCHANGED waiting
       \/ \E u \in waiting :
          /\ waiting' = waiting \ {u}
          /\ pc' = [pc EXCEPT ![t] = "idle", ![u] = "woken"]
    /\ UNCHANGED <<available, closed, lease, rounds, owner>>

-----------------------------------------------------------------------------
(***************************************************************************)
(* Pool.deinit, by the thread that owns the pool.  Its documented contract *)
(* is that every lease has been released; threads may be inside acquire,   *)
(* which answers PoolClosed.  deinit unlocks, broadcasts, and then frees   *)
(* the arrays and destroys the condition and the mutex: what a thread does *)
(* with the pool after that is undefined, and here it does nothing more.   *)
(***************************************************************************)
LeasesReleased == \A t \in Threads : pc[t] \notin {"holding", "signal"}

Close ==
    /\ owner = "open" /\ LeasesReleased
    /\ closed' = TRUE
    /\ owner' = "closed"
    /\ UNCHANGED <<available, waiting, pc, lease, rounds>>

Broadcast ==
    /\ owner = "closed"
    /\ waiting' = {}
    /\ pc' = [t \in Threads |-> IF t \in waiting THEN "woken" ELSE pc[t]]
    /\ owner' = "woken"
    /\ UNCHANGED <<available, closed, lease, rounds>>

FreeAll ==
    /\ owner = "woken"
    /\ owner' = "freed"
    /\ UNCHANGED <<available, closed, waiting, pc, lease, rounds>>

-----------------------------------------------------------------------------
\* What the pool's own code does for a thread; Enter and Release are calls.
PoolStep(t) == Refuse(t) \/ Grant(t) \/ Wait(t) \/ Signal(t)

Next ==
    \/ \E t \in Threads : Enter(t) \/ PoolStep(t) \/ Release(t) \/ Spurious(t)
    \/ Close \/ Broadcast \/ FreeAll

Spec == Init /\ [][Next]_vars

\* A thread in the pool keeps running, a holder releases its lease in the end,
\* and a deinit that began goes on.
Fairness == /\ \A t \in Threads : WF_vars(PoolStep(t)) /\ WF_vars(Release(t))
            /\ WF_vars(Broadcast) /\ WF_vars(FreeAll)
FairSpec == Spec /\ Fairness

-----------------------------------------------------------------------------
(***************************************************************************)
(* Properties.                                                             *)
(***************************************************************************)

\* One handle, one thread: a handle is marked taken exactly while one thread
\* has its lease. deinit's assertion that all handles are back follows.
LeaseExclusive ==
    /\ \A t \in Threads : (pc[t] = "holding") <=> (lease[t] # None)
    /\ \A t, u \in Threads : t # u /\ lease[t] # None => lease[t] # lease[u]
    /\ \A h \in Handles : available[h] <=> \A t \in Threads : lease[t] # h

\* No lost wake-up: while a thread waits in an open pool, there are no more free
\* handles than threads on their way to take one or to signal. In particular a
\* waiter never sleeps next to a free handle with nobody left to wake it.
Pending == {t \in Threads : pc[t] \in {"acquire", "woken", "signal"}}
NoLostWakeup ==
    waiting # {} /\ ~closed => Cardinality(Free) <= Cardinality(Pending)

\* Every thread that waits gets a handle or PoolClosed in the end, as long as
\* the threads it competes with call acquire finitely often.
AcquireReturns ==
    \A t \in Threads : pc[t] = "waiting" ~> pc[t] \in {"holding", "refused"} \/ owner = "freed"

\* The pool grants handles as the abstract pool does.
Leasing == INSTANCE LeasePool WITH held <- lease, open <- ~closed
ImplementsLeasing == Leasing!Spec
=============================================================================
