---------------------------- MODULE EventFollower ----------------------------
(***************************************************************************)
(* What the event stream of a run promises to whoever follows it: the     *)
(* events arrive one at a time, in the order of the log, none skipped and  *)
(* none twice, whatever happens to the connections that carry them.  A     *)
(* follower may start over, and then reads the log from its beginning.     *)
(***************************************************************************)
EXTENDS Integers, Sequences

VARIABLES
  written, \* how many events the run has logged
  got      \* the sequence numbers the follower has been given, in order

vars == <<written, got>>

Init == written = 0 /\ got = <<>>

Log == written' = written + 1 /\ UNCHANGED got

(* Sequence numbers count from 0, so the next one is Len(got). *)
Follow ==
  /\ Len(got) < written
  /\ got' = Append(got, Len(got))
  /\ UNCHANGED written

StartOver == got' = <<>> /\ UNCHANGED written

Next == Log \/ Follow \/ StartOver

Spec == Init /\ [][Next]_vars
=============================================================================
