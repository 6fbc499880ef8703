---------------------------- MODULE WasmDispatch ----------------------------
(***************************************************************************)
(* WasmDispatchQueue of src/deploy/worker/wasm_dispatch.mjs: a lock made of *)
(* a chain of promises.  run() links a new promise behind the tail, waits  *)
(* for the one it found there, and resolves its own when it is done.       *)
(*                                                                         *)
(* links[n] is the n-th call of run, tail the promise in #tail (0 is       *)
(* Promise.resolve()).  Nothing between two awaits is interrupted, so the  *)
(* lines up to "await previous" are one action.                            *)
(***************************************************************************)
EXTENDS Naturals, Sequences

VARIABLES
    links,   \* per call: the promise it waits for, and its own state
    tail     \* WasmDispatchQueue.#tail

dispatchVars == <<links, tail>>

DispatchInit == links = <<>> /\ tail = 0

\* run(), up to the await.
\* (Faulty variant: the new promise is not stored in #tail.)
LinkForgotten ==
    /\ links' = Append(links, [prev |-> tail, state |-> "waiting"])
    /\ UNCHANGED tail
Link ==
    /\ links' = Append(links, [prev |-> tail, state |-> "waiting"])
    /\ tail' = Len(links) + 1

Resolved(p) == p # 0 => links[p].state = "released"

\* The await returns and the call runs.
\* (Faulty variant: it does not await the promise before it.)
AdmitAtOnce(n) ==
    /\ links[n].state = "waiting"
    /\ links' = [links EXCEPT ![n].state = "running"]
    /\ UNCHANGED tail
Admit(n) ==
    /\ links[n].state = "waiting"
    /\ Resolved(links[n].prev)
    /\ links' = [links EXCEPT ![n].state = "running"]
    /\ UNCHANGED tail

\* release(), in a finally: whether the call succeeded or threw.
Release(n) ==
    /\ links[n].state = "running"
    /\ links' = [links EXCEPT ![n].state = "released"]
    /\ UNCHANGED tail

DispatchNext == Link \/ \E n \in DOMAIN links : Admit(n) \/ Release(n)

DispatchSpec == DispatchInit /\ [][DispatchNext]_dispatchVars

-----------------------------------------------------------------------------
\* The chain of promises serves one call at a time, in the order in which
\* run() was called (wasm_dispatch.mjs:1-3, "one FIFO lock").
Serial == INSTANCE SerialCalls
              WITH phase <- [n \in DOMAIN links |-> links[n].state]
ImplementsSerial == Serial!Spec
=============================================================================
