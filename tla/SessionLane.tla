----------------------------- MODULE SessionLane -----------------------------
(***************************************************************************)
(* The queue lane that serialises the runs of one worker session           *)
(* (crates/coevo-worker/src/queue.rs over the worker_queue_lanes table).   *)
(*                                                                         *)
(* acquire is two statements: it reads the lane, and if the lane is free   *)
(* or its lock has lapsed it overwrites the row unconditionally.  Two runs *)
(* can therefore both pass the check, and a run can lose a lane it still   *)
(* believes it holds, to a lapse of the lock or to a cancel.  What makes   *)
(* this sound is release: it only clears a lane whose active_run_id is     *)
(* still the caller's, and fails with SessionBusy otherwise, so a run that *)
(* lost its lane is told so before its result is reported.                 *)
(***************************************************************************)
EXTENDS Integers

CONSTANTS
  Run,    \* run identifiers
  NoRun,  \* active_run_id IS NULL
  TTL     \* ticks of the lock a claim takes out (ttl_ms of acquire)

ASSUME LaneAssumption == TTL \in Nat \ {0} /\ NoRun \notin Run

VARIABLES
  owner,   \* active_run_id
  ttl,     \* locked_until_ms - now, 0 once the lock has lapsed
  phase,   \* where each run stands with the lane
  disturbed \* history: runs the lane was taken from while they were inside

laneVars == <<owner, ttl, phase, disturbed>>

(* "idle": not asked, or told SessionBusy; "checked": saw the lane free;
   "inside": has written the lane; "released" and "displaced": release said
   Ok or SessionBusy; "gone": left without a successful release. *)
Phases == {"idle", "checked", "inside", "released", "displaced", "gone"}

LaneTypeOK ==
  /\ owner \in Run \cup {NoRun}
  /\ ttl \in 0..TTL
  /\ phase \in [Run -> Phases]
  /\ disturbed \subseteq Run

LaneInit ==
  /\ owner = NoRun
  /\ ttl = 0
  /\ phase = [r \in Run |-> "idle"]
  /\ disturbed = {}

-----------------------------------------------------------------------------
(* Mutant: a lapsed lock still counts as held. *)
BusyForever == owner # NoRun

(* active_run_id is set and locked_until_ms > now. *)
Busy == owner # NoRun /\ ttl > 0

Inside == {r \in Run : phase[r] = "inside"}

(* Mutant: the lock is extended instead of set. *)
WriteExtending(r) ==
  /\ owner' = r
  /\ ttl' = ttl + TTL
  /\ disturbed' = disturbed \cup Inside

(* WorkerQueueRepo::acquire, the unconditional upsert. *)
Write(r) ==
  /\ owner' = r
  /\ ttl' = TTL
  /\ disturbed' = disturbed \cup Inside

(* The guarded UPDATE of release: clears the lane only for its owner. *)
Clear(r) ==
  IF owner = r
  THEN owner' = NoRun /\ ttl' = 0
  ELSE UNCHANGED <<owner, ttl>>

-----------------------------------------------------------------------------
(* acquire, the read: SessionBusy leaves the run where it was. *)
Check(r) ==
  /\ phase[r] = "idle"
  /\ phase' = [phase EXCEPT ![r] = IF Busy THEN "idle" ELSE "checked"]
  /\ UNCHANGED <<owner, ttl, disturbed>>

(* acquire, the write. *)
Claim(r) ==
  /\ phase[r] = "checked"
  /\ Write(r)
  /\ phase' = [phase EXCEPT ![r] = "inside"]

(* Mutant: release does not look at rows_affected. *)
ReleaseUnchecked(r) ==
  /\ phase[r] = "inside"
  /\ Clear(r)
  /\ phase' = [phase EXCEPT ![r] = "released"]
  /\ UNCHANGED disturbed

(* WorkerQueueService::release at the end of a run. *)
Release(r) ==
  /\ phase[r] = "inside"
  /\ Clear(r)
  /\ phase' = [phase EXCEPT ![r] = IF owner = r THEN "released" ELSE "displaced"]
  /\ UNCHANGED disturbed

(* finalize_run_failure: release again, its answer ignored; the run is
   reported as failed whatever it was. *)
GiveUp(r) ==
  /\ phase[r] = "inside"
  /\ Clear(r)
  /\ phase' = [phase EXCEPT ![r] = "gone"]
  /\ UNCHANGED disturbed

(* Nobody releases the lane: an error return between acquire and the loop, a
   request dropped with its connection, a stop of the server. *)
Abandon(r) ==
  /\ phase[r] \in {"checked", "inside"}
  /\ phase' = [phase EXCEPT ![r] = "gone"]
  /\ UNCHANGED <<owner, ttl, disturbed>>

(* cancel_worker clears the lane of the run it cancels and ignores whether
   the run still owned it. *)
Evict(r) ==
  /\ Clear(r)
  /\ disturbed' = IF owner = r THEN disturbed \cup (Inside \cap {r})
                              ELSE disturbed
  /\ UNCHANGED phase

(* One tick of the clock. *)
Lapse ==
  /\ ttl' = IF ttl > 0 THEN ttl - 1 ELSE 0
  /\ UNCHANGED <<owner, phase, disturbed>>

LaneNext ==
  \/ \E r \in Run :
        Check(r) \/ Claim(r) \/ Release(r) \/ GiveUp(r) \/ Abandon(r) \/ Evict(r)
  \/ Lapse

(* Time passes, a client that was told SessionBusy asks again, and the task
   serving it takes its next step; no run is obliged to release. *)
Fairness ==
  /\ WF_laneVars(Lapse)
  /\ \A r \in Run : WF_laneVars(Check(r)) /\ WF_laneVars(Claim(r))

LaneSpec == LaneInit /\ [][LaneNext]_laneVars /\ Fairness

-----------------------------------------------------------------------------
(* A run whose release said Ok had the session to itself: from its claim to
   its release no other run claimed the lane and no cancel cleared it,
   whatever races, lapsed locks and cancels happened.  This is what the
   Err(SessionBusy) of release buys, since neither the check nor the lock
   keeps a second run out. *)
ReleasedRunsWereUndisturbed ==
  \A r \in Run : phase[r] = "released" => r \notin disturbed

(* No session is locked for good: however earlier holders ended, a client
   that keeps asking gets past the check.  Only the expiry of the lock makes
   this true for holders that crashed or leaked the lane. *)
LaneIsNeverStuck ==
  \A r \in Run : phase[r] = "idle" ~> phase[r] # "idle"

(* The lane, its stale checks and lapsing locks included, implements runs
   that finish one at a time (module SerialRuns). *)
Serial == INSTANCE SerialRuns
            WITH current <- owner,
                 finished <- {r \in Run : phase[r] = "released"}

ImplementsSerialRuns == Serial!Spec

=============================================================================
