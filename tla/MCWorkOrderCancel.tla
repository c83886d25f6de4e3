-------------------------- MODULE MCWorkOrderCancel --------------------------
(* A green work order, two requests and one call of cancel_worker. *)
EXTENDS WorkOrderExecution, TLC

Symmetry == Permutations(Request)
=============================================================================
