--------------------------- MODULE MCPromptVersions ---------------------------
(* Two requests at a time on one employee's prompt, each slot used again and
   again, with two version numbers and two texts. *)
EXTENDS PromptVersions, TLC

Symmetry == Permutations(Request) \cup Permutations(Text)
=============================================================================
