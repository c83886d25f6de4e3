------------------------- MODULE MCApprovalReceipts -------------------------
(* Three approval rows, requests that stay decidable for two ticks. *)
EXTENDS ApprovalReceipts, TLC

Symmetry == Permutations(Approval)
=============================================================================
