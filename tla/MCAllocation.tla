----------------------------- MODULE MCAllocation -----------------------------
(* Instances of Allocation for TLC. *)
EXTENDS Allocation
===============================================================================
