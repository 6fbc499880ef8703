----------------------------- MODULE MCJobQueue -----------------------------
(* Small instances of JobQueue.  One process per worker unless stated.     *)
EXTENDS JobQueue, TLC
CONSTANTS w1, w2, c1

OwnQueue    == [w \in Workers |-> w]
SharedQueue == [w \in Workers |-> CHOOSE q \in Queues : TRUE]
NoCronName   == [c \in {} |-> "none"]
NoCronPeriod == [c \in {} |-> 1]
OneCronName   == [c \in {c1} |-> "job"]
OneCronPeriod == [c \in {c1} |-> 2]

\* Workers and their Queues are interchangeable (never with liveness).
Symmetry == Permutations(Workers)
=============================================================================
