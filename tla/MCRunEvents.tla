----------------------------- MODULE MCRunEvents -----------------------------
(***************************************************************************)
(* The stream of one short run, in small batches, over a few connections.  *)
(***************************************************************************)
EXTENDS RunEvents
=============================================================================
