---------------------------- MODULE SerialCalls ----------------------------
(***************************************************************************)
(* What the comment of deploy/worker/wasm_dispatch.mjs promises: calls are *)
(* numbered as they arrive, and a call runs when every call before it has  *)
(* been released.  So one runs at a time, in the order of arrival.         *)
(***************************************************************************)
EXTENDS Naturals, Sequences

VARIABLE phase   \* what has become of each call

Init == phase = <<>>

Arrive == phase' = Append(phase, "waiting")

Enter(n) ==
    /\ phase[n] = "waiting"
    /\ \A m \in 1..(n - 1) : phase[m] = "released"
    /\ phase' = [phase EXCEPT ![n] = "running"]

Leave(n) ==
    /\ phase[n] = "running"
    /\ phase' = [phase EXCEPT ![n] = "released"]

Next == Arrive \/ \E n \in DOMAIN phase : Enter(n) \/ Leave(n)

Spec == Init /\ [][Next]_phase
=============================================================================
