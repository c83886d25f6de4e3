---------------------------- MODULE MCSessionLane ----------------------------
(* Three runs of one session and a lock of two ticks: enough for a run to
   lose the lane to a lapse, to a stale check and to a cancel, with a third
   run following. *)
EXTENDS SessionLane
=============================================================================
