----------------------------- MODULE MCInsertPlan -----------------------------
(***************************************************************************)
(* TLC instance of InsertPlan: every mask, every batch size up to more     *)
(* than the trees hold, every buffer size.                                 *)
(***************************************************************************)
EXTENDS InsertPlan

MCPow2 == [n \in 0..NUM_TREES |-> 2^n]

\* The static trees hold BUFFER_SIZE * (2^NUM_TREES - 1) points: go past that.
MCBatchSizes == 0..(BUFFER_SIZE * (2^NUM_TREES + 2))

=============================================================================
