------------------------------ MODULE MCDbPool ------------------------------
(* Small instances of DbPool.                                              *)
EXTENDS DbPool, TLC
CONSTANTS t1, t2, t3, t4

=============================================================================
