---------------------------- MODULE DbPoolProofs ----------------------------
(***************************************************************************)
(* DbPool, proved for any number of handles, threads and rounds: types,    *)
(* exclusive leases, no lost wake-up, and that the pool implements the     *)
(* abstract LeasePool.                                                     *)
(***************************************************************************)
EXTENDS DbPool, FiniteSetTheorems, TLAPS

\* The wait set is made of the threads blocked in changed.wait, and closed is
\* what the owner made it.
WaitSetOK ==
    /\ waiting = {t \in Threads : pc[t] = "waiting"}
    /\ closed <=> owner # "open"

IInv == TypeOK /\ WaitSetOK /\ LeaseExclusive /\ NoLostWakeup

-----------------------------------------------------------------------------
\* Free and Pending are finite, so their cardinalities are numbers.
LEMMA FiniteCounts ==
    ASSUME TypeOK
    PROVE  /\ IsFiniteSet(Free) /\ Cardinality(Free) \in Nat
           /\ IsFiniteSet(Pending) /\ Cardinality(Pending) \in Nat
<1>1. IsFiniteSet(Handles)
  BY PoolAssumption, FS_Interval DEF Handles
<1>2. IsFiniteSet(Free)
  BY <1>1, FS_Subset DEF Free
<1>3. IsFiniteSet(Pending)
  BY PoolAssumption, FS_Subset DEF Pending
<1> QED
  BY <1>2, <1>3, FS_CardinalityType

\* The pool starts in a state that satisfies the inductive invariant.
LEMMA InitInv == Init => IInv
<1> SUFFICES ASSUME Init PROVE IInv
  OBVIOUS
<1>1. TypeOK
  <2>1. /\ rounds \in [Threads -> 0..Rounds]
        /\ lease \in [Threads -> Handles \cup {None}]
    BY PoolAssumption DEF Init
  <2>2. /\ available \in [Handles -> BOOLEAN] /\ closed \in BOOLEAN
        /\ waiting \in SUBSET Threads /\ owner \in OwnerSteps
    BY DEF Init, OwnerSteps
  <2>3. pc \in [Threads -> Steps]
    BY DEF Init, Steps
  <2> QED
    BY <2>1, <2>2, <2>3 DEF TypeOK
<1>2. WaitSetOK
  BY DEF Init, WaitSetOK
<1>3. LeaseExclusive
  BY DEF Init, LeaseExclusive, Handles, None
<1>4. NoLostWakeup
  BY DEF Init, NoLostWakeup
<1> QED
  BY <1>1, <1>2, <1>3, <1>4 DEF IInv

\* Every step keeps the variables in their types, and the wait set exact.
LEMMA TypeStep == IInv /\ [Next]_vars => TypeOK' /\ WaitSetOK'
<1> SUFFICES ASSUME IInv, [Next]_vars PROVE TypeOK' /\ WaitSetOK'
  OBVIOUS
<1> USE PoolAssumption DEF IInv, TypeOK, WaitSetOK, Steps, OwnerSteps
<1>1. ASSUME NEW t \in Threads, Enter(t) PROVE TypeOK' /\ WaitSetOK'
  BY <1>1 DEF Enter
<1>2. ASSUME NEW t \in Threads, Refuse(t) PROVE TypeOK' /\ WaitSetOK'
  BY <1>2 DEF Refuse, Contends
<1>3. ASSUME NEW t \in Threads, Grant(t) PROVE TypeOK' /\ WaitSetOK'
  BY <1>3 DEF Grant, Contends, Free, Taken
<1>4. ASSUME NEW t \in Threads, Wait(t) PROVE TypeOK' /\ WaitSetOK'
  BY <1>4 DEF Wait, Contends
<1>5. ASSUME NEW t \in Threads, Signal(t) PROVE TypeOK' /\ WaitSetOK'
  BY <1>5 DEF Signal
<1>6. ASSUME NEW t \in Threads, Release(t) PROVE TypeOK' /\ WaitSetOK'
  BY <1>6 DEF Release, AfterRelease, LeaseExclusive
<1>7. ASSUME NEW t \in Threads, Spurious(t) PROVE TypeOK' /\ WaitSetOK'
  BY <1>7 DEF Spurious
<1>8. CASE Close
  BY <1>8 DEF Close
<1>9. CASE Broadcast
  BY <1>9 DEF Broadcast
<1>10. CASE FreeAll
  BY <1>10 DEF FreeAll
<1>11. CASE UNCHANGED vars
  BY <1>11 DEF vars
<1> QED
  BY <1>1, <1>2, <1>3, <1>4, <1>5, <1>6, <1>7, <1>8, <1>9, <1>10, <1>11
     DEF Next, PoolStep

\* Every step keeps the leases exclusive: only Grant and Release touch them.
LEMMA ExclusiveStep == IInv /\ [Next]_vars => LeaseExclusive'
<1> SUFFICES ASSUME IInv, [Next]_vars PROVE LeaseExclusive'
  OBVIOUS
<1> USE DEF IInv, TypeOK, LeaseExclusive
<1>1. ASSUME NEW t \in Threads, Enter(t) PROVE LeaseExclusive'
  BY <1>1 DEF Enter
<1>2. ASSUME NEW t \in Threads, Refuse(t) PROVE LeaseExclusive'
  BY <1>2 DEF Refuse, Contends
<1>3. ASSUME NEW t \in Threads, Grant(t) PROVE LeaseExclusive'
  <2>1. PICK h \in Free : /\ available' = [available EXCEPT ![h] = FALSE]
                          /\ lease' = [lease EXCEPT ![t] = h]
    BY <1>3 DEF Grant, Taken
  <2>2. h \in Handles /\ h # None /\ \A u \in Threads : lease[u] # h
    BY <2>1 DEF Free, Handles, None
  <2>3. lease[t] = None /\ pc' = [pc EXCEPT ![t] = "holding"]
    BY <1>3 DEF Grant, Contends
  <2>4. \A u \in Threads : (pc'[u] = "holding") <=> (lease'[u] # None)
    BY <2>1, <2>2, <2>3
  <2>5. \A u, v \in Threads : u # v /\ lease'[u] # None => lease'[u] # lease'[v]
    BY <2>1, <2>2
  <2>6. \A g \in Handles : available'[g] <=> \A u \in Threads : lease'[u] # g
    <3> SUFFICES ASSUME NEW g \in Handles
                 PROVE  available'[g] <=> \A u \in Threads : lease'[u] # g
      OBVIOUS
    <3>1. CASE g = h
      BY <2>1, <2>2, <3>1
    <3>2. CASE g # h
      <4>1. available'[g] = available[g]
        BY <2>1, <3>2
      <4>2. \A u \in Threads : lease'[u] = g <=> lease[u] = g
        BY <2>1, <2>3, <3>2 DEF Handles, None
      <4> QED
        BY <4>1, <4>2
    <3> QED
      BY <3>1, <3>2
  <2> QED
    BY <2>4, <2>5, <2>6
<1>4. ASSUME NEW t \in Threads, Wait(t) PROVE LeaseExclusive'
  BY <1>4 DEF Wait, Contends
<1>5. ASSUME NEW t \in Threads, Signal(t) PROVE LeaseExclusive'
  BY <1>5 DEF Signal, WaitSetOK
<1>6. ASSUME NEW t \in Threads, Release(t) PROVE LeaseExclusive'
  <2>1. lease[t] \in Handles /\ lease[t] # None
    BY <1>6 DEF Release
  <2>2. /\ available' = [available EXCEPT ![lease[t]] = TRUE]
        /\ lease' = [lease EXCEPT ![t] = None]
        /\ pc' = [pc EXCEPT ![t] = "signal"]
    BY <1>6 DEF Release, AfterRelease
  <2> QED
    BY <2>1, <2>2 DEF Handles, None
<1>7. ASSUME NEW t \in Threads, Spurious(t) PROVE LeaseExclusive'
  BY <1>7 DEF Spurious, WaitSetOK
<1>8. CASE Close
  BY <1>8 DEF Close
<1>9. CASE Broadcast
  BY <1>9 DEF Broadcast, WaitSetOK
<1>10. CASE FreeAll
  BY <1>10 DEF FreeAll
<1>11. CASE UNCHANGED vars
  BY <1>11 DEF vars
<1> QED
  BY <1>1, <1>2, <1>3, <1>4, <1>5, <1>6, <1>7, <1>8, <1>9, <1>10, <1>11
     DEF Next, PoolStep

\* The counting argument, by what a step does to the two sets it compares.
\* A step that only adds pending threads keeps the bound.
LEMMA MorePending ==
    ASSUME TypeOK, TypeOK', NoLostWakeup, waiting # {}, ~closed,
           Free' = Free, Pending \subseteq Pending'
    PROVE  NoLostWakeup'
<1>1. Cardinality(Pending) <= Cardinality(Pending')
  <2>1. IsFiniteSet(Pending')
    BY PoolAssumption, FS_Subset DEF Pending
  <2> QED
    BY <2>1, FS_Subset
<1>2. Cardinality(Pending') \in Nat
  BY PoolAssumption, FS_Subset, FS_CardinalityType DEF Pending
<1> QED
  BY <1>1, <1>2, FiniteCounts DEF NoLostWakeup

\* Every step keeps a waiter from sleeping beside a handle nobody is coming for.
LEMMA WakeupStep == IInv /\ [Next]_vars => NoLostWakeup'
<1> SUFFICES ASSUME IInv, [Next]_vars PROVE NoLostWakeup'
  OBVIOUS
<1>0. TypeOK' /\ WaitSetOK'
  BY TypeStep
<1>0a. /\ IsFiniteSet(Free) /\ Cardinality(Free) \in Nat
       /\ IsFiniteSet(Pending) /\ Cardinality(Pending) \in Nat
  BY FiniteCounts DEF IInv
<1> SUFFICES ASSUME waiting' # {}, ~closed' PROVE NoLostWakeup'
  BY DEF NoLostWakeup
<1> USE DEF IInv, TypeOK, WaitSetOK
<1>1. ASSUME NEW t \in Threads, Enter(t) PROVE NoLostWakeup'
  <2>1. waiting # {} /\ ~closed /\ Free' = Free /\ Pending \subseteq Pending'
    BY <1>1 DEF Enter, Free, Pending
  <2> QED
    BY <2>1, <1>0, MorePending
<1>2. ASSUME NEW t \in Threads, Refuse(t) PROVE NoLostWakeup'
  BY <1>2 DEF Refuse
<1>3. ASSUME NEW t \in Threads, Grant(t) PROVE NoLostWakeup'
  <2>1. PICK h \in Free : available' = [available EXCEPT ![h] = FALSE]
    BY <1>3 DEF Grant, Taken
  <2>2. Free' = Free \ {h}
    BY <2>1 DEF Free
  <2>3. t \in Pending /\ Pending' = Pending \ {t}
    BY <1>3 DEF Grant, Contends, Pending
  <2>4. waiting # {} /\ ~closed
    BY <1>3 DEF Grant
  <2>5. Cardinality(Free') = Cardinality(Free) - 1
    BY <2>1, <2>2, <1>0a, FS_RemoveElement
  <2>6. Cardinality(Pending') = Cardinality(Pending) - 1
    BY <2>3, <1>0a, FS_RemoveElement
  <2> QED
    BY <2>4, <2>5, <2>6, <1>0a DEF NoLostWakeup
<1>4. ASSUME NEW t \in Threads, Wait(t) PROVE NoLostWakeup'
  <2>1. Free' = {}
    BY <1>4 DEF Wait, Free
  <2>2. Cardinality(Free') = 0
    BY <2>1, FS_EmptySet
  <2>3. Cardinality(Pending') \in Nat
    BY PoolAssumption, FS_Subset, FS_CardinalityType DEF Pending
  <2> QED
    BY <2>2, <2>3 DEF NoLostWakeup
<1>5. ASSUME NEW t \in Threads, Signal(t) PROVE NoLostWakeup'
  <2>1. waiting # {} /\ ~closed /\ Free' = Free
    BY <1>5 DEF Signal, Free
  <2>2. PICK u \in waiting : pc' = [pc EXCEPT ![t] = "idle", ![u] = "woken"]
    BY <1>5, <2>1 DEF Signal
  <2>3. t \in Pending /\ u \notin Pending /\ u \in Threads /\ u # t
    BY <1>5, <2>2 DEF Signal, Pending
  <2> DEFINE rest == Pending \ {t}
  <2>4. Pending' = rest \cup {u} /\ u \notin rest
    BY <2>2, <2>3 DEF Pending
  <2>5. IsFiniteSet(rest) /\ Cardinality(rest) = Cardinality(Pending) - 1
    BY <2>3, <1>0a, FS_RemoveElement
  <2> HIDE DEF rest
  <2>6. Cardinality(Pending') = Cardinality(rest) + 1
    BY <2>4, <2>5, FS_AddElement
  <2>7. Cardinality(Pending') = Cardinality(Pending)
    BY <2>5, <2>6, <1>0a
  <2> QED
    BY <2>1, <2>7 DEF NoLostWakeup
<1>6. ASSUME NEW t \in Threads, Release(t) PROVE NoLostWakeup'
  <2>1. lease[t] \in Handles /\ lease[t] \notin Free
    BY <1>6 DEF Release, LeaseExclusive, Free
  <2>2. Free' = Free \cup {lease[t]}
    BY <1>6, <2>1 DEF Release, Free
  <2>3. t \notin Pending /\ Pending' = Pending \cup {t}
    BY <1>6 DEF Release, AfterRelease, Pending
  <2>4. waiting # {} /\ ~closed
    BY <1>6 DEF Release
  <2>5. Cardinality(Free') = Cardinality(Free) + 1
    BY <2>1, <2>2, <1>0a, FS_AddElement
  <2>6. Cardinality(Pending') = Cardinality(Pending) + 1
    BY <2>3, <1>0a, FS_AddElement
  <2> QED
    BY <2>4, <2>5, <2>6, <1>0a DEF NoLostWakeup
<1>7. ASSUME NEW t \in Threads, Spurious(t) PROVE NoLostWakeup'
  <2>1. waiting # {} /\ ~closed /\ Free' = Free /\ Pending \subseteq Pending'
    BY <1>7 DEF Spurious, Free, Pending
  <2> QED
    BY <2>1, <1>0, MorePending
<1>8. CASE Close
  BY <1>8 DEF Close
<1>9. CASE Broadcast
  BY <1>9 DEF Broadcast
<1>10. CASE FreeAll
  BY <1>10 DEF FreeAll
<1>11. CASE UNCHANGED vars
  BY <1>11 DEF vars, NoLostWakeup, Free, Pending
<1> QED
  BY <1>1, <1>2, <1>3, <1>4, <1>5, <1>6, <1>7, <1>8, <1>9, <1>10, <1>11
     DEF Next, PoolStep

-----------------------------------------------------------------------------
\* The inductive invariant holds throughout.
THEOREM Invariance == Spec => []IInv
<1>1. IInv /\ [Next]_vars => IInv'
  BY TypeStep, ExclusiveStep, WakeupStep DEF IInv
<1> QED
  BY InitInv, <1>1, PTL DEF Spec

\* The variables of the pool keep their types.
THEOREM TypeCorrect == Spec => []TypeOK
<1>1. IInv => TypeOK
  BY DEF IInv
<1> QED
  BY <1>1, Invariance, PTL

\* However many threads compete, a handle is leased to one of them at most and
\* is marked taken exactly while it is (acquire, Lease.deinit).
THEOREM Exclusive == Spec => []LeaseExclusive
<1>1. IInv => LeaseExclusive
  BY DEF IInv
<1> QED
  BY <1>1, Invariance, PTL

\* However many threads wait, signalling after the unlock and one thread at a
\* time loses no wake-up (release, Condition.wait).
THEOREM Wakeup == Spec => []NoLostWakeup
<1>1. IInv => NoLostWakeup
  BY DEF IInv
<1> QED
  BY <1>1, Invariance, PTL

\* The pool implements the abstract pool of exclusive leases: Grant is Take,
\* Release is Return, Close is Close, and every other step is a stutter.
THEOREM Refinement == Spec => ImplementsLeasing
<1>1. Init => Leasing!Init
  BY DEF Init, Leasing!Init
<1>2. IInv /\ [Next]_vars => [Leasing!Next]_<<lease, ~closed>>
  <2> SUFFICES ASSUME IInv, [Next]_vars PROVE [Leasing!Next]_<<lease, ~closed>>
    OBVIOUS
  <2> USE DEF IInv, TypeOK, WaitSetOK, LeaseExclusive
  <2>1. ASSUME NEW t \in Threads, Grant(t) PROVE Leasing!Next
    <3>1. PICK h \in Free : lease' = [lease EXCEPT ![t] = h]
      BY <2>1 DEF Grant
    <3>2. h \in Handles /\ \A u \in Threads : lease[u] # h
      BY <3>1 DEF Free
    <3>3. lease[t] = None /\ ~closed /\ closed' = closed
      BY <2>1 DEF Grant, Contends
    <3>4. Leasing!Take(t, h)
      BY <3>1, <3>2, <3>3 DEF Leasing!Take
    <3> QED
      BY <3>2, <3>4 DEF Leasing!Next
  <2>2. ASSUME NEW t \in Threads, Release(t) PROVE Leasing!Next
    <3>1. Leasing!Return(t)
      BY <2>2 DEF Release, Leasing!Return
    <3> QED
      BY <3>1 DEF Leasing!Next
  <2>3. CASE Close
    <3>1. Leasing!Close
      BY <2>3 DEF Close, LeasesReleased, Leasing!Close
    <3> QED
      BY <3>1 DEF Leasing!Next
  <2>4. ASSUME NEW t \in Threads, Enter(t) \/ Refuse(t) \/ Wait(t) \/ Signal(t) \/ Spurious(t)
        PROVE  UNCHANGED <<lease, ~closed>>
    BY <2>4 DEF Enter, Refuse, Wait, Signal, Spurious
  <2>5. CASE Broadcast \/ FreeAll \/ UNCHANGED vars
    BY <2>5 DEF Broadcast, FreeAll, vars
  <2> QED
    BY <2>1, <2>2, <2>3, <2>4, <2>5 DEF Next, PoolStep
<1> QED
  BY <1>1, <1>2, Invariance, PTL DEF Spec, ImplementsLeasing, Leasing!Spec
=============================================================================
