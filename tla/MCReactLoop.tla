----------------------------- MODULE MCReactLoop -----------------------------
(* A run with the file tool, a tool the model is not offered, a refused one,
   one that needs an approval, one that the RiskGate denies even then, and an
   executor. *)
EXTENDS ReactLoop

CONSTANTS file, hidden, rm, shell, post, echo

MCPaused == {[kind |-> "call_tool", tool |-> shell]}
=============================================================================
