---------------------------- MODULE IsolateTasks ----------------------------
(***************************************************************************)
(* Who wants the wasm instance of one isolate of                           *)
(* src/deploy/worker/index.mjs: the calls of dispatchWasm, made by the     *)
(* public handler, the realtime gateway and the realtime entrypoint, and   *)
(* the batches queue() is called with.                                     *)
(***************************************************************************)
CONSTANTS Fetches, Batches

ASSUME TasksAssumption == Fetches \cap Batches = {}

Tasks == Fetches \cup Batches
=============================================================================
