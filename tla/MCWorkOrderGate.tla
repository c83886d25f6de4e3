--------------------------- MODULE MCWorkOrderGate ---------------------------
(* A yellow work order and three requests: one asks for approval, the other
   two present its receipt, possibly at the same time. *)
EXTENDS WorkOrderExecution, TLC

Symmetry == Permutations(Request)
=============================================================================
