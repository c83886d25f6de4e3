------------------------ MODULE ReceiptsAndLaneProofs ------------------------
(* Proofs about the two tables every execution of a work order shares with    *)
(* others: the approval rows, for any set of rows and any timeout, and the    *)
(* queue lane, for any set of runs and any lock time.                         *)
EXTENDS ApprovalReceipts, SessionLane, TLAPS

-----------------------------------------------------------------------------
(* The approval rows. *)

(* Every step keeps the rows well formed. *)
LEMMA TypeStep == TypeOK /\ [Next]_vars => TypeOK'
<1> SUFFICES ASSUME TypeOK, [Next]_vars PROVE TypeOK'
  OBVIOUS
<1> USE TimeoutAssumption DEF TypeOK, Statuses
<1>1. ASSUME NEW a \in Approval, Create(a) PROVE TypeOK'
  BY <1>1 DEF Create
<1>2. ASSUME NEW a \in Approval, Approve(a) \/ Deny(a) \/ Consume(a) PROVE TypeOK'
  <2>1. ASSUME NEW c \in RowCalls, NEW s \in Statuses, Store(c, a, s) PROVE TypeOK'
    BY <2>1 DEF Store
  <2> QED
    BY <1>2, <2>1 DEF Approve, Deny, Consume, RowCalls
<1>3. ASSUME NEW a \in Approval, NEW c \in RowCalls, ReadClock(c, a) PROVE TypeOK'
  BY <1>3 DEF ReadClock
<1>4. ASSUME NEW a \in Approval, ExpireSelected(a) PROVE TypeOK'
  BY <1>4 DEF ExpireSelected
<1>5. CASE SelectOverdue \/ StopSweep
  BY <1>5 DEF SelectOverdue, StopSweep
<1>6. CASE Elapse
  BY <1>6 DEF Elapse, Unexpired
<1>7. CASE UNCHANGED vars
  BY <1>7 DEF vars
<1> QED
  BY <1>1, <1>2, <1>3, <1>4, <1>5, <1>6, <1>7 DEF Next

(* The columns of approval_requests always hold values their CHECK allows. *)
THEOREM TypeCorrect == Spec => []TypeOK
<1>1. Init => TypeOK
  BY TimeoutAssumption DEF Init, TypeOK, Statuses
<1> QED
  BY <1>1, TypeStep, PTL DEF Spec

(* What one step may do to the status of a row: the body of
   DecisionsAreFinal. *)
StatusStep ==
  \A a \in Approval :
    /\ status[a] \in Settled => status'[a] = status[a]
    /\ status[a] = "approved" => status'[a] \in {"approved", "consumed"}
    /\ status[a] # "absent" => status'[a] # "absent"

LEMMA StatusStepHolds == TypeOK /\ [Next]_vars => StatusStep
<1> SUFFICES ASSUME TypeOK, [Next]_vars PROVE StatusStep
  OBVIOUS
<1> USE DEF TypeOK, StatusStep, Settled
<1>1. ASSUME NEW a \in Approval, Create(a) PROVE StatusStep
  BY <1>1 DEF Create
<1>2. ASSUME NEW a \in Approval, Approve(a) \/ Deny(a) PROVE StatusStep
  BY <1>2 DEF Approve, Deny, Decidable, Matches, Store
<1>3. ASSUME NEW a \in Approval, Consume(a) PROVE StatusStep
  BY <1>3 DEF Consume, Consumable, Matches, Store
<1>4. ASSUME NEW a \in Approval, NEW c \in RowCalls, ReadClock(c, a) PROVE StatusStep
  BY <1>4 DEF ReadClock
<1>5. ASSUME NEW a \in Approval, ExpireSelected(a) PROVE StatusStep
  BY <1>5 DEF ExpireSelected
<1>6. CASE SelectOverdue \/ StopSweep \/ Elapse \/ UNCHANGED vars
  BY <1>6 DEF SelectOverdue, StopSweep, Elapse, vars
<1> QED
  BY <1>1, <1>2, <1>3, <1>4, <1>5, <1>6 DEF Next

(* No decision, once stored, is overwritten by a later approve, deny, consume
   or sweep, in any order of the calls. *)
THEOREM DecisionsStay == Spec => DecisionsAreFinal
<1>1. TypeOK /\ [Next]_vars => [StatusStep]_vars
  BY StatusStepHolds
<1> QED
  BY <1>1, TypeCorrect, PTL DEF Spec, DecisionsAreFinal, StatusStep

(* Why a missed deadline cannot be made up for: consume_approved is called only
   behind an approval, so no call of it can have read the clock before a
   deadline that found the row still undecided, and none does so later. *)
MissedInv ==
  \A a \in Approval :
    /\ "consume" \in timely[a] => status[a] \in {"approved", "consumed"}
    /\ a \in missed => /\ ~Unexpired(a)
                       /\ status[a] \notin {"absent", "consumed"}
                       /\ "consume" \notin timely[a]

LEMMA MissedInit == Init => MissedInv
BY DEF Init, MissedInv

LEMMA MissedStep == TypeOK /\ MissedInv /\ [Next]_vars => MissedInv'
<1> USE TimeoutAssumption DEF TypeOK, MissedInv, Unexpired
<1> SUFFICES ASSUME TypeOK, MissedInv, [Next]_vars PROVE MissedInv'
  OBVIOUS
<1>1. ASSUME NEW a \in Approval, Create(a) PROVE MissedInv'
  BY <1>1 DEF Create
<1>2. ASSUME NEW a \in Approval, Approve(a) \/ Deny(a) PROVE MissedInv'
  BY <1>2 DEF Approve, Deny, Decidable, Matches, Store
<1>3. ASSUME NEW a \in Approval, Consume(a) PROVE MissedInv'
  BY <1>3 DEF Consume, Consumable, Matches, Store
<1>4. ASSUME NEW a \in Approval, NEW c \in RowCalls, ReadClock(c, a) PROVE MissedInv'
  BY <1>4 DEF ReadClock
<1>5. ASSUME NEW a \in Approval, ExpireSelected(a) PROVE MissedInv'
  BY <1>5 DEF ExpireSelected
<1>6. CASE SelectOverdue \/ StopSweep
  BY <1>6 DEF SelectOverdue, StopSweep
<1>7. CASE Elapse
  BY <1>7 DEF Elapse
<1>8. CASE UNCHANGED vars
  BY <1>8 DEF vars
<1> QED
  BY <1>1, <1>2, <1>3, <1>4, <1>5, <1>6, <1>7, <1>8 DEF Next

(* However late a decider with an old reading of the clock approves a request
   whose deadline has passed, the approval is never spent. *)
THEOREM MissedDeadlinesStand == Spec => []MissedRequestsAreNeverSpent
<1>1. TypeOK /\ MissedInv => MissedRequestsAreNeverSpent
  BY DEF TypeOK, MissedInv, MissedRequestsAreNeverSpent
<1> QED
  BY <1>1, MissedInit, MissedStep, TypeCorrect, PTL DEF Spec

-----------------------------------------------------------------------------
(* The queue lane. *)

LEMMA LaneTypeStep == LaneTypeOK /\ [LaneNext]_laneVars => LaneTypeOK'
<1> SUFFICES ASSUME LaneTypeOK, [LaneNext]_laneVars PROVE LaneTypeOK'
  OBVIOUS
<1> USE LaneAssumption DEF LaneTypeOK, Phases
<1>1. ASSUME NEW r \in Run, Check(r) PROVE LaneTypeOK'
  BY <1>1 DEF Check
<1>2. ASSUME NEW r \in Run, Claim(r) PROVE LaneTypeOK'
  BY <1>2 DEF Claim, Write, Inside
<1>3. ASSUME NEW r \in Run, Release(r) \/ GiveUp(r) PROVE LaneTypeOK'
  BY <1>3 DEF Release, GiveUp, Clear
<1>4. ASSUME NEW r \in Run, Abandon(r) PROVE LaneTypeOK'
  BY <1>4 DEF Abandon
<1>5. ASSUME NEW r \in Run, Evict(r) PROVE LaneTypeOK'
  BY <1>5 DEF Evict, Clear
<1>6. CASE Lapse
  BY <1>6 DEF Lapse
<1>7. CASE UNCHANGED laneVars
  BY <1>7 DEF laneVars
<1> QED
  BY <1>1, <1>2, <1>3, <1>4, <1>5, <1>6, <1>7 DEF LaneNext

(* The lane names a run or nobody, and its lock never exceeds ttl_ms. *)
THEOREM LaneTypeCorrect == LaneSpec => []LaneTypeOK
<1>1. LaneInit => LaneTypeOK
  BY LaneAssumption DEF LaneInit, LaneTypeOK, Phases
<1> QED
  BY <1>1, LaneTypeStep, PTL DEF LaneSpec

-----------------------------------------------------------------------------
(* Why release may trust active_run_id: whoever the lane names, if still
   inside, has not been disturbed.  A claim disturbs everyone inside but names
   the newcomer, and an eviction that disturbs the owner clears the name. *)
OwnerUndisturbed ==
  \A r \in Run : owner = r /\ phase[r] = "inside" => r \notin disturbed

(* Only a run that was inside can be disturbed, so a run that is about to
   claim comes in undisturbed. *)
OnlyEnteredDisturbed ==
  \A r \in Run : phase[r] \in {"idle", "checked"} => r \notin disturbed

LaneInv ==
  LaneTypeOK /\ OwnerUndisturbed /\ OnlyEnteredDisturbed /\ ReleasedRunsWereUndisturbed

LEMMA LaneInvStep == LaneInv /\ [LaneNext]_laneVars => LaneInv'
<1> SUFFICES ASSUME LaneInv, [LaneNext]_laneVars
             PROVE (OwnerUndisturbed /\ OnlyEnteredDisturbed
                      /\ ReleasedRunsWereUndisturbed)'
  BY LaneTypeStep DEF LaneInv
<1> DEFINE Goal == OwnerUndisturbed /\ OnlyEnteredDisturbed
                     /\ ReleasedRunsWereUndisturbed
<1> USE LaneAssumption DEF LaneInv, LaneTypeOK, OwnerUndisturbed, OnlyEnteredDisturbed,
                           ReleasedRunsWereUndisturbed
<1>1. ASSUME NEW r \in Run, Check(r) PROVE Goal'
  BY <1>1 DEF Check
<1>2. ASSUME NEW r \in Run, Claim(r) PROVE Goal'
  BY <1>2 DEF Claim, Write, Inside
<1>3. ASSUME NEW r \in Run, Release(r) PROVE Goal'
  BY <1>3 DEF Release, Clear
<1>4. ASSUME NEW r \in Run, GiveUp(r) PROVE Goal'
  BY <1>4 DEF GiveUp, Clear
<1>5. ASSUME NEW r \in Run, Abandon(r) PROVE Goal'
  BY <1>5 DEF Abandon
<1>6. ASSUME NEW r \in Run, Evict(r) PROVE Goal'
  BY <1>6 DEF Evict, Clear, Inside
<1>7. CASE Lapse \/ UNCHANGED laneVars
  BY <1>7 DEF Lapse, laneVars
<1> QED
  BY <1>1, <1>2, <1>3, <1>4, <1>5, <1>6, <1>7 DEF LaneNext

LEMMA LaneInvInit == LaneInit => LaneInv
BY LaneAssumption DEF LaneInit, LaneInv, LaneTypeOK, Phases, OwnerUndisturbed,
   OnlyEnteredDisturbed, ReleasedRunsWereUndisturbed

LEMMA LaneInvHolds == LaneSpec => []LaneInv
BY LaneInvInit, LaneInvStep, PTL DEF LaneSpec

(* A run whose release said Ok had the session to itself, for any number of
   runs racing for the lane and any pattern of lapses and cancels. *)
THEOREM ReleasedMeansUndisturbed == LaneSpec => []ReleasedRunsWereUndisturbed
BY LaneInvHolds, PTL DEF LaneInv

-----------------------------------------------------------------------------
Finished == {r \in Run : phase[r] = "released"}

(* Every step of the lane is a step of SerialRuns or leaves its two variables
   alone: a claim starts a run that has not finished, an Ok from release
   finishes the current one, a cleared lane drops it. *)
LEMMA SerialStep ==
  LaneTypeOK /\ [LaneNext]_laneVars => [Serial!Next]_<<owner, Finished>>
<1> SUFFICES ASSUME LaneTypeOK, [LaneNext]_laneVars PROVE [Serial!Next]_<<owner, Finished>>
  OBVIOUS
<1> DEFINE Abstract == [Serial!Next]_<<owner, Finished>>
<1> USE DEF LaneTypeOK, Finished
<1>1. ASSUME NEW r \in Run, Check(r) PROVE Abstract
  BY <1>1 DEF Check
<1>2. ASSUME NEW r \in Run, Claim(r) PROVE Serial!Start(r)
  <2>1. r \notin Finished
    BY <1>2 DEF Claim
  <2>2. Finished' = Finished
    BY <1>2 DEF Claim
  <2> QED
    BY <1>2, <2>1, <2>2 DEF Claim, Write, Serial!Start
<1>3. ASSUME NEW r \in Run, Release(r) PROVE Abstract
  <2>1. CASE owner = r
    <3>1. Finished' = Finished \cup {r}
      BY <1>3, <2>1 DEF Release
    <3>2. Serial!Finish(r)
      BY <1>3, <2>1, <3>1 DEF Release, Clear, Serial!Finish
    <3> QED
      BY <3>2 DEF Serial!Next
  <2>2. CASE owner # r
    <3>1. Finished' = Finished
      BY <1>3, <2>2 DEF Release
    <3> QED
      BY <1>3, <2>2, <3>1 DEF Release, Clear
  <2> QED
    BY <2>1, <2>2
<1>4. ASSUME NEW r \in Run, GiveUp(r) \/ Evict(r) PROVE Abstract
  <2>1. Finished' = Finished
    BY <1>4 DEF GiveUp, Evict
  <2>2. owner' \in {NoRun, owner}
    BY <1>4 DEF GiveUp, Evict, Clear
  <2> QED
    BY <2>1, <2>2 DEF Serial!Next, Serial!Drop
<1>5. ASSUME NEW r \in Run, Abandon(r) PROVE Abstract
  BY <1>5 DEF Abandon
<1>6. CASE Lapse \/ UNCHANGED laneVars
  BY <1>6 DEF Lapse, laneVars
<1> QED
  BY <1>1, <1>2, <1>3, <1>4, <1>5, <1>6 DEF LaneNext, Serial!Next

(* The lane implements serial runs: to whoever only sees which run is current
   and which have finished, stale checks, lapses and cancels are invisible. *)
THEOREM LaneImplementsSerialRuns == LaneSpec => ImplementsSerialRuns
<1>1. LaneInit => Serial!Init
  BY DEF LaneInit, Serial!Init
<1>2. LaneTypeOK /\ [LaneNext]_laneVars => [Serial!Next]_<<owner, {r \in Run : phase[r] = "released"}>>
  BY SerialStep DEF Finished
<1> QED
  BY <1>1, <1>2, LaneTypeCorrect, PTL DEF LaneSpec, ImplementsSerialRuns, Serial!Spec

=============================================================================
