----------------------------- MODULE MCBlackboard -----------------------------
(* Three proposals on one key, which may depend on each other in a chain or a
   diamond's half, two propagations, a promotion and a sweep. *)
EXTENDS Blackboard, TLC

Symmetry == Permutations(Entry) \cup Permutations(Walker)
=============================================================================
