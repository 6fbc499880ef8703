----------------------------- MODULE LeasePool -----------------------------
(***************************************************************************)
(* What a pool of exclusive resources promises, whatever it does about     *)
(* locking and waiting: a handle is in the hands of one thread at a time,  *)
(* a closed pool grants nothing, and it closes only with every handle back.*)
(***************************************************************************)
CONSTANTS Threads, Handles, None

VARIABLES held,  \* the handle a thread holds, or None
          open

Init == held = [t \in Threads |-> None] /\ open = TRUE

Take(t, h) ==
    /\ open /\ held[t] = None
    /\ \A u \in Threads : held[u] # h
    /\ held' = [held EXCEPT ![t] = h]
    /\ UNCHANGED open

Return(t) ==
    /\ held[t] # None
    /\ held' = [held EXCEPT ![t] = None]
    /\ UNCHANGED open

Close ==
    /\ open /\ \A t \in Threads : held[t] = None
    /\ open' = FALSE
    /\ UNCHANGED held

Next == \/ \E t \in Threads, h \in Handles : Take(t, h)
        \/ \E t \in Threads : Return(t)
        \/ Close

Spec == Init /\ [][Next]_<<held, open>>
=============================================================================
