------------------------------ MODULE JobLife ------------------------------
(***************************************************************************)
(* What a job queue promises for a job, whatever it does about workers,    *)
(* leases and rowids: once submitted the job stays, and may be attempted,  *)
(* until a verdict its attempts account for; a verdict is final, nothing   *)
(* is attempted after it, and only a job with a verdict is ever purged.    *)
(***************************************************************************)
EXTENDS Naturals

CONSTANTS Jobs, Limits   \* the max_attempts a job may be submitted with

VARIABLES life,  \* how far a job is, and its limit
          runs   \* what became of its attempts

Untold == [phase |-> "none", limit |-> 0]
Purged == [phase |-> "purged", limit |-> 0]

Init == /\ life = [j \in Jobs |-> Untold]
        /\ runs = [j \in Jobs |-> [ok |-> FALSE, errors |-> 0, missing |-> FALSE]]

Submit(j, m) ==
    /\ life[j] = Untold
    /\ life' = [life EXCEPT ![j] = [phase |-> "open", limit |-> m]]
    /\ UNCHANGED runs

\* One run of the handler, or none for want of a handler.
Attempt(j) ==
    /\ life[j].phase = "open"
    /\ \/ runs' = [runs EXCEPT ![j].ok = TRUE]
       \/ runs' = [runs EXCEPT ![j].errors = @ + 1]
       \/ runs' = [runs EXCEPT ![j].missing = TRUE]
    /\ UNCHANGED life

Conclude(j, verdict) ==
    /\ life[j].phase = "open"
    /\ \/ verdict = "succeeded" /\ runs[j].ok
       \/ verdict = "failed" /\ (runs[j].missing \/ runs[j].errors >= life[j].limit)
    /\ life' = [life EXCEPT ![j].phase = verdict]
    /\ UNCHANGED runs

Purge(S) ==
    /\ \A j \in S : life[j].phase \in {"succeeded", "failed"}
    /\ life' = [j \in Jobs |-> IF j \in S THEN Purged ELSE life[j]]
    /\ UNCHANGED runs

Next == \/ \E S \in SUBSET Jobs : Purge(S)
        \/ \E j \in Jobs, m \in Limits : Submit(j, m)
        \/ \E j \in Jobs : Attempt(j) \/ \E v \in {"succeeded", "failed"} : Conclude(j, v)

Spec == Init /\ [][Next]_<<life, runs>>
=============================================================================
