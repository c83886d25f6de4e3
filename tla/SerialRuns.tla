----------------------------- MODULE SerialRuns -----------------------------
(***************************************************************************)
(* What a session promises about its runs, with no check, lock or clock: a *)
(* run may start at any time and then displaces the current one; only the  *)
(* current run can finish; a run that was displaced never does.            *)
(***************************************************************************)
CONSTANTS Run, NoRun

VARIABLES
  current,  \* the run that started last and was not displaced, or NoRun
  finished  \* the runs that finished

Init == current = NoRun /\ finished = {}

Start(r) ==
  /\ r \notin finished
  /\ current' = r
  /\ UNCHANGED finished

Finish(r) ==
  /\ current = r
  /\ current' = NoRun
  /\ finished' = finished \cup {r}

Drop ==
  /\ current' = NoRun
  /\ UNCHANGED finished

Next == Drop \/ \E r \in Run : Start(r) \/ Finish(r)

Spec == Init /\ [][Next]_<<current, finished>>

=============================================================================
