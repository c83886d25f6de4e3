----------------------------- MODULE MCTrackRuns -----------------------------
(* Two runs of any track on one intent, a lease of three operations and two
   holders. *)
EXTENDS TrackRuns, TLC

Symmetry == Permutations(Run) \cup Permutations(Holder)
=============================================================================
