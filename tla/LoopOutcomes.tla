---------------------------- MODULE LoopOutcomes ----------------------------
(***************************************************************************)
(* What the harness relies on when it runs the loop of a run: the loop     *)
(* ends once, as cancelled only if somebody cancelled the run; it writes   *)
(* the session's cursor only by pausing, and a pause is the last thing it  *)
(* does.                                                                   *)
(***************************************************************************)
CONSTANTS Digest, None

VARIABLES
  outcome,  \* "running" until the loop has ended or paused
  cancelled, \* the run is marked as cancelled
  cursor    \* the action the session waits for

Ended == {"Completed", "Failed", "Blocked", "TimedOut", "Error"}

Init == outcome = "running" /\ cancelled = FALSE /\ cursor \in Digest \cup {None}

Cancel ==
  /\ cancelled' = TRUE
  /\ UNCHANGED <<outcome, cursor>>

End ==
  /\ outcome = "running"
  /\ outcome' \in Ended \cup (IF cancelled THEN {"Cancelled"} ELSE {})
  /\ UNCHANGED <<cancelled, cursor>>

Pause ==
  /\ outcome = "running"
  /\ outcome' = "WaitingApproval"
  /\ cursor' \in Digest
  /\ UNCHANGED cancelled

(* The pause is stored; what follows it may still fail. *)
Break ==
  /\ outcome = "WaitingApproval"
  /\ outcome' = "Error"
  /\ UNCHANGED <<cancelled, cursor>>

Next == Cancel \/ End \/ Pause \/ Break

Spec == Init /\ [][Next]_<<outcome, cancelled, cursor>>

=============================================================================
