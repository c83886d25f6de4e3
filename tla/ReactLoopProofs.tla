--------------------------- MODULE ReactLoopProofs ---------------------------
(* Proofs about the ReAct loop, for any tools, any policy over them, any
   number of rounds and whatever the model answers. *)
EXTENDS ReactLoop, TLAPS

(* Every proposal is adjudicated to one of three verdicts. *)
LEMMA VerdictType ==
  ASSUME NEW p \in Proposal
  PROVE  Verdict(p) \in {"Allow", "NeedApproval", "Deny"}
BY DEF Verdict, ToolVerdict

(* The calls of an answer are proposals. *)
LEMMA AnswerType ==
  ASSUME answer \in Answer
  PROVE  /\ 1 \in DOMAIN answer /\ answer[1] \in Proposal
         /\ \A i \in DOMAIN answer : i \in {1, 2} /\ answer[i] \in Proposal
         /\ IsBatch => answer[2] \in Proposal
<1>1. CASE answer \in [1..1 -> Proposal]
  BY <1>1 DEF IsBatch
<1>2. CASE answer \in [1..2 -> ToolCall]
  BY <1>2 DEF IsBatch, Proposal
<1> QED
  BY <1>1, <1>2 DEF Answer

LEMMA DecidingType ==
  ASSUME answer \in Answer
  PROVE  Deciding \in Proposal
BY AnswerType DEF Deciding

(* The action that a pause stores needs an approval of its own. *)
LEMMA PausesOnApproval ==
  ASSUME answer \in Answer, Gate = "NeedApproval"
  PROVE  Verdict(Deciding) = "NeedApproval"
BY DEF Gate, CallVerdict

(* If the gate allows an answer, it allows every call of it. *)
LEMMA GateAllowsAll ==
  ASSUME answer \in Answer, Gate = "Allow"
  PROVE  \A i \in DOMAIN answer : Verdict(answer[i]) = "Allow"
<1>1. \A p : CallVerdict(p) = "Allow" => Verdict(p) = "Allow"
  BY DEF CallVerdict
<1>2. CASE IsBatch /\ CallVerdict(answer[1]) = "Allow"
  BY <1>1, <1>2, AnswerType DEF Gate, Deciding
<1>3. CASE IsBatch /\ CallVerdict(answer[1]) # "Allow"
  BY <1>3 DEF Gate, Deciding
<1>4. CASE ~IsBatch
  BY <1>1, <1>4, AnswerType DEF Gate, Deciding, IsBatch
<1> QED
  BY <1>2, <1>3, <1>4

-----------------------------------------------------------------------------
(* Type correctness.  Until the third denial the loop goes on, so at the head
   of a round there were at most two; and at most one action begins per
   round. *)
CountersFit ==
  /\ pc \notin {"after", "ended"} => denials < 3
  /\ begun <= round
  /\ pc \in {"answered", "gated", "starting", "model"} => begun < round

LoopTypeInv == TypeOK /\ CountersFit

LEMMA LoopTypeStep == LoopTypeInv /\ [Next]_vars => LoopTypeInv'
<1> SUFFICES ASSUME LoopTypeInv, [Next]_vars PROVE LoopTypeInv'
  OBVIOUS
<1> USE LoopAssumption DEF LoopTypeInv, TypeOK, CountersFit, envVars, rowVars
<1>1. CASE Resume
  BY <1>1 DEF Resume
<1>2. CASE BeginRound
  BY <1>2 DEF BeginRound
<1>3. CASE RunOut \/ TimeOut \/ ModelCancelled \/ CostCap
  BY <1>3 DEF RunOut, TimeOut, ModelCancelled, CostCap, Leave
<1>4. CASE StopOnCancel
  BY <1>4 DEF StopOnCancel, Leave
<1>5. CASE ModelAnswers
  BY <1>5 DEF ModelAnswers, Answer
<1>6. CASE Adjudicate
  BY <1>6 DEF Adjudicate
<1>7. CASE Denied
  BY <1>7 DEF Denied, Leave, NextRound
<1>8. CASE Pause
  BY <1>8, DecidingType DEF Pause, Leave
<1>9. CASE Authorize
  BY <1>9 DEF Authorize
<1>10. CASE RefuseFinish \/ AcceptFinish
  BY <1>10 DEF RefuseFinish, AcceptFinish, NextRound, Leave
<1>11. CASE NoAdapter \/ RefuseSkill \/ EndTool \/ EndExecutor \/ EndSubagent
  BY <1>11 DEF NoAdapter, RefuseSkill, EndTool, EndExecutor, EndSubagent, NextRound, Leave
<1>12. CASE Begin
  BY <1>12 DEF Begin
<1>13. CASE EndBatch
  BY <1>13 DEF EndBatch, NextRound
<1>14. CASE PauseOnSideEffect
  BY <1>14 DEF PauseOnSideEffect, Leave
<1>15. CASE Close
  BY <1>15 DEF Close, FinalStatus
<1>16. CASE Break
  BY <1>16 DEF Break
<1>17. CASE EnvironmentSteps
  <2>1. /\ marked' \in BOOLEAN /\ session' \in BOOLEAN /\ token' \in BOOLEAN
        /\ late' \in BOOLEAN /\ asked' \in BOOLEAN
    BY <1>17, Zenon DEF EnvironmentSteps, MarkCancelled, CancelSession, ReopenSession, FireToken, Expire
  <2>2. UNCHANGED loopVars
    BY <1>17 DEF EnvironmentSteps, MarkCancelled, CancelSession, ReopenSession, FireToken, Expire
  <2> QED
    BY <2>1, <2>2 DEF loopVars
<1>18. CASE UNCHANGED vars
  BY <1>18 DEF vars
<1> QED
  BY <1>1, <1>2, <1>3, <1>4, <1>5, <1>6, <1>7, <1>8, <1>9, <1>10, <1>11, <1>12,
     <1>13, <1>14, <1>15, <1>16, <1>17, <1>18
     DEF Next, LoopSteps, OwnSteps, PeerSteps, RoundSteps, ActionSteps

LEMMA LoopTypeInit == Init => LoopTypeInv
<1> SUFFICES ASSUME Init PROVE LoopTypeInv
  OBVIOUS
<1>1. /\ evidence \in BOOLEAN
      /\ marked \in BOOLEAN /\ session \in BOOLEAN /\ token \in BOOLEAN
      /\ late \in BOOLEAN /\ asked \in BOOLEAN
  BY Zenon DEF Init
<1>2. round = 0 /\ begun = 0 /\ denials = 0
  BY DEF Init
<1>3. /\ pc = "resume" /\ answer = <<>> /\ ending = "none" /\ status = "none"
      /\ receipt \in Paused \cup {Bare, None} /\ cursor \in Paused \cup {None}
  BY DEF Init
<1> QED
  BY <1>1, <1>2, <1>3, LoopAssumption DEF LoopTypeInv, TypeOK, CountersFit

(* The loop keeps every flag, counter, digest and history within its range;
   in particular the denials never pass three. *)
THEOREM LoopTypeCorrect == Spec => []TypeOK
<1>1. LoopTypeInv => TypeOK
  BY DEF LoopTypeInv
<1> QED
  BY <1>1, LoopTypeInit, LoopTypeStep, PTL DEF Spec

-----------------------------------------------------------------------------
(* Why the properties hold. *)

(* An action that began after the mark is over before the next look at the
   cancel, which then finds the mark. *)
BegunOnlyOnce ==
  \/ begun = 0
  \/ begun = 1 /\ marked /\ pc \in {"acting", "head", "after", "ended"}

(* Nothing is started or executed without the gate's leave, which the rest of
   the round does not change. *)
ActionsWereAllowed == pc \in {"starting", "acting"} => Gate = "Allow"

(* The flags are set on leaving the loop, and the status after it. *)
FlagsComeLast ==
  /\ pc \notin {"after", "ended"} => ending = "none"
  /\ pc # "ended" => status = "none"
  /\ status = "Completed" => ending = "finished"
  /\ ending = "finished" => (NeedEvidence => evidence)
  /\ token => marked
  /\ marked \/ session \/ ending = "cancelled" => asked
  /\ status = "Cancelled" => ending = "cancelled"
  /\ status = "WaitingApproval" => ending = "waiting_approval"

LoopInv ==
  /\ LoopTypeInv
  /\ BegunOnlyOnce
  /\ ActionsWereAllowed
  /\ FlagsComeLast
  /\ PausedRunNamesItsAction

(* The receipt of a run does not change, so neither does a verdict. *)
LEMMA VerdictsStay ==
  ASSUME [Next]_vars
  PROVE  receipt' = receipt
BY DEF Next, vars, envVars, rowVars, loopVars, LoopSteps, OwnSteps, PeerSteps, RoundSteps, ActionSteps,
       EnvironmentSteps, Resume, BeginRound, RunOut, TimeOut, StopOnCancel,
       ModelAnswers, ModelCancelled, CostCap, Adjudicate, Denied, Pause, Authorize,
       RefuseFinish, AcceptFinish, NoAdapter, RefuseSkill, Begin, EndTool,
       EndBatch, EndExecutor, EndSubagent, PauseOnSideEffect, Close, Break,
       MarkCancelled, CancelSession, ReopenSession, FireToken, Expire

LEMMA GateStays ==
  ASSUME receipt' = receipt, answer' = answer
  PROVE  Gate' = Gate
BY DEF Gate, Deciding, CallVerdict, Verdict, ToolVerdict, IsBatch

LEMMA BegunStep == LoopInv /\ [Next]_vars => BegunOnlyOnce'
<1> SUFFICES ASSUME LoopInv, [Next]_vars PROVE BegunOnlyOnce'
  OBVIOUS
<1> USE LoopAssumption DEF LoopInv, LoopTypeInv, TypeOK, BegunOnlyOnce, FlagsComeLast,
                           envVars, rowVars, IsRunCancelled
<1>1. CASE Resume
  BY <1>1 DEF Resume
<1>2. CASE BeginRound \/ RunOut \/ TimeOut
  BY <1>2 DEF BeginRound, RunOut, TimeOut, Leave
<1>3. CASE StopOnCancel \/ ModelCancelled \/ CostCap
  BY <1>3 DEF StopOnCancel, ModelCancelled, CostCap, Leave
<1>4. CASE ModelAnswers \/ Adjudicate \/ Authorize
  BY <1>4 DEF ModelAnswers, Adjudicate, Authorize
<1>5. CASE Denied \/ RefuseFinish \/ RefuseSkill \/ EndTool \/ EndBatch
         \/ EndExecutor \/ EndSubagent
  BY <1>5 DEF Denied, RefuseFinish, RefuseSkill, EndTool, EndBatch, EndExecutor, EndSubagent,
              NextRound, Leave
<1>6. CASE Pause \/ AcceptFinish \/ NoAdapter \/ PauseOnSideEffect
  BY <1>6 DEF Pause, AcceptFinish, NoAdapter, PauseOnSideEffect, Leave
<1>7. CASE Begin
  <2>1. begun = 0
    BY <1>7 DEF Begin
  <2> QED
    BY <1>7, <2>1 DEF Begin
<1>8. CASE Close \/ Break
  BY <1>8 DEF Close, Break
<1>9. CASE EnvironmentSteps
  BY <1>9 DEF EnvironmentSteps, MarkCancelled, CancelSession, ReopenSession, FireToken, Expire, loopVars
<1>10. CASE UNCHANGED vars
  BY <1>10 DEF vars
<1> QED
  BY <1>1, <1>2, <1>3, <1>4, <1>5, <1>6, <1>7, <1>8, <1>9, <1>10
     DEF Next, LoopSteps, OwnSteps, PeerSteps, RoundSteps, ActionSteps

LEMMA AllowedStep == LoopInv /\ [Next]_vars => ActionsWereAllowed'
<1> SUFFICES ASSUME LoopInv, [Next]_vars, pc' \in {"starting", "acting"}
             PROVE  Gate' = "Allow"
  BY DEF ActionsWereAllowed
<1>1. receipt' = receipt
  BY VerdictsStay
<1> USE DEF LoopInv, LoopTypeInv, TypeOK, ActionsWereAllowed, envVars, rowVars
<1>2. CASE Authorize
  BY <1>1, <1>2, GateStays DEF Authorize, Acts
<1>3. CASE Begin
  BY <1>1, <1>3, GateStays DEF Begin
<1>4. CASE EnvironmentSteps
  <2>1. answer' = answer /\ pc' = pc
    BY <1>4 DEF EnvironmentSteps, MarkCancelled, CancelSession, ReopenSession, FireToken, Expire, loopVars
  <2> QED
    BY <1>1, <2>1, GateStays
<1>5. CASE UNCHANGED vars
  <2>1. answer' = answer /\ pc' = pc
    BY <1>5 DEF vars
  <2> QED
    BY <1>1, <2>1, GateStays
<1>6. ~(Resume \/ BeginRound \/ RunOut \/ TimeOut \/ StopOnCancel \/ ModelAnswers
        \/ ModelCancelled \/ CostCap \/ Adjudicate \/ Denied \/ Pause
        \/ RefuseFinish \/ AcceptFinish \/ NoAdapter \/ RefuseSkill \/ EndTool
        \/ EndBatch \/ EndExecutor \/ EndSubagent \/ PauseOnSideEffect \/ Close \/ Break)
  BY DEF Resume, BeginRound, RunOut, TimeOut, StopOnCancel, ModelAnswers,
         ModelCancelled, CostCap, Adjudicate, Denied, Pause, RefuseFinish,
         AcceptFinish, NoAdapter, RefuseSkill, EndTool, EndBatch, EndExecutor, EndSubagent,
         PauseOnSideEffect, Close, Break, Leave, NextRound
<1> QED
  BY <1>2, <1>3, <1>4, <1>5, <1>6 DEF Next, LoopSteps, OwnSteps, PeerSteps, RoundSteps, ActionSteps

LEMMA FlagsStep == LoopInv /\ [Next]_vars => FlagsComeLast'
<1> SUFFICES ASSUME LoopInv, [Next]_vars PROVE FlagsComeLast'
  OBVIOUS
<1> USE LoopAssumption DEF LoopInv, LoopTypeInv, TypeOK, FlagsComeLast, envVars, rowVars,
                           IsRunCancelled
<1>1. CASE Resume
  BY <1>1 DEF Resume
<1>2. CASE BeginRound \/ ModelAnswers \/ Adjudicate \/ Authorize
  BY <1>2 DEF BeginRound, ModelAnswers, Adjudicate, Authorize
<1>3. CASE RunOut \/ TimeOut \/ CostCap \/ NoAdapter
  BY <1>3 DEF RunOut, TimeOut, CostCap, NoAdapter, Leave
<1>4. CASE StopOnCancel \/ ModelCancelled
  BY <1>4 DEF StopOnCancel, ModelCancelled, Leave
<1>5. CASE Denied
  BY <1>5 DEF Denied, NextRound, Leave
<1>6. CASE Pause \/ PauseOnSideEffect
  BY <1>6 DEF Pause, PauseOnSideEffect, Leave
<1>7. CASE RefuseFinish \/ RefuseSkill \/ EndExecutor \/ EndSubagent
  BY <1>7 DEF RefuseFinish, RefuseSkill, EndExecutor, EndSubagent, NextRound
<1>8. CASE AcceptFinish
  BY <1>8 DEF AcceptFinish, LacksEvidence, Leave
<1>9. CASE Begin \/ EndTool \/ EndBatch
  <2>1. /\ ending = "none" /\ status = "none"
        /\ token => marked /\ (marked \/ session => asked)
    BY <1>9 DEF Begin, EndTool, EndBatch
  <2>2. /\ ending' = ending /\ status' = status
        /\ UNCHANGED <<token, marked, session, asked>>
    BY <1>9 DEF Begin, EndTool, EndBatch, NextRound
  <2> QED
    BY <2>1, <2>2
<1>10. CASE Close
  BY <1>10 DEF Close, FinalStatus
<1>11. CASE Break
  BY <1>11 DEF Break
<1>12. CASE EnvironmentSteps
  BY <1>12 DEF EnvironmentSteps, MarkCancelled, CancelSession, ReopenSession, FireToken, Expire, loopVars
<1>13. CASE UNCHANGED vars
  BY <1>13 DEF vars
<1> QED
  BY <1>1, <1>2, <1>3, <1>4, <1>5, <1>6, <1>7, <1>8, <1>9, <1>10, <1>11, <1>12, <1>13
     DEF Next, LoopSteps, OwnSteps, PeerSteps, RoundSteps, ActionSteps

LEMMA PauseStep == LoopInv /\ [Next]_vars => PausedRunNamesItsAction'
<1> SUFFICES ASSUME LoopInv, [Next]_vars PROVE PausedRunNamesItsAction'
  OBVIOUS
<1>1. receipt' = receipt
  BY VerdictsStay
<1> USE DEF LoopInv, LoopTypeInv, TypeOK, envVars, rowVars
<1>2. CASE Pause
  <2>1. answer \in Answer /\ Gate = "NeedApproval" /\ cursor' = Deciding
    BY <1>2 DEF Pause
  <2>2. cursor' \in Proposal /\ Verdict(cursor') = "NeedApproval"
    BY <2>1, DecidingType, PausesOnApproval
  <2> QED
    BY <1>1, <2>2, LoopAssumption DEF PausedRunNamesItsAction, Verdict, ToolVerdict
<1>3. CASE PauseOnSideEffect
  <2>1. cursor' \in Proposal /\ Verdict(cursor') = "NeedApproval"
    BY <1>3 DEF PauseOnSideEffect
  <2> QED
    BY <1>1, <2>1, LoopAssumption DEF PausedRunNamesItsAction, Verdict, ToolVerdict
<1>4. CASE ~Pause /\ ~PauseOnSideEffect
  <2>1. cursor' = cursor /\ (ending' = "waiting_approval" => ending = "waiting_approval")
    BY <1>4 DEF Next, vars, envVars, rowVars, loopVars, LoopSteps, OwnSteps, PeerSteps, RoundSteps, ActionSteps,
       EnvironmentSteps, Resume, BeginRound, RunOut, TimeOut, StopOnCancel,
       ModelAnswers, ModelCancelled, CostCap, Adjudicate, Denied, Authorize,
       RefuseFinish, AcceptFinish, NoAdapter, RefuseSkill, Begin, EndTool,
       EndBatch, EndExecutor, EndSubagent, Close, Break, MarkCancelled, CancelSession,
       ReopenSession, FireToken, Expire, Leave, NextRound
  <2> QED
    BY <1>1, <2>1 DEF PausedRunNamesItsAction, Verdict, ToolVerdict
<1> QED
  BY <1>2, <1>3, <1>4

LEMMA LoopInvInit == Init => LoopInv
<1> SUFFICES ASSUME Init PROVE LoopInv
  OBVIOUS
<1>1. ~token /\ ~marked /\ ~session
  BY DEF Init
<1>2. /\ pc = "resume" /\ ending = "none" /\ status = "none" /\ begun = 0
  BY DEF Init
<1> QED
  BY <1>1, <1>2, LoopTypeInit DEF LoopInv, BegunOnlyOnce, ActionsWereAllowed, FlagsComeLast,
                             PausedRunNamesItsAction

LEMMA LoopInvariant == Spec => []LoopInv
<1>1. LoopInv /\ [Next]_vars => LoopInv'
  BY LoopTypeStep, BegunStep, AllowedStep, FlagsStep, PauseStep DEF LoopInv
<1> QED
  BY <1>1, LoopInvInit, PTL DEF Spec

(* However the token, the rows and the steps of the loop interleave, a marked
   run begins at most one more action. *)
THEOREM CancelIsPrompt == Spec => []CancelStopsActions
<1>1. LoopInv => CancelStopsActions
  BY DEF LoopInv, LoopTypeInv, TypeOK, BegunOnlyOnce, CancelStopsActions
<1> QED
  BY <1>1, LoopInvariant, PTL

(* No batch carries a call past the gate. *)
THEOREM OnlyAllowedCallsRun == Spec => []RunningCallsWereAllowed
<1>1. LoopInv => RunningCallsWereAllowed
  BY GateAllowsAll
     DEF LoopInv, LoopTypeInv, TypeOK, ActionsWereAllowed, RunningCallsWereAllowed
<1> QED
  BY <1>1, LoopInvariant, PTL

(* The digest a paused run stores is that of the action to approve. *)
THEOREM PausesNameTheirAction == Spec => []PausedRunNamesItsAction
<1>1. LoopInv => PausedRunNamesItsAction
  BY DEF LoopInv
<1> QED
  BY <1>1, LoopInvariant, PTL

(* Only a finish that was accepted, with the evidence owed, completes a run. *)
THEOREM OnlyFinishCompletes == Spec => []CompletedMeansFinished
<1>1. LoopInv => CompletedMeansFinished
  BY DEF LoopInv, FlagsComeLast, CompletedMeansFinished
<1> QED
  BY <1>1, LoopInvariant, PTL

-----------------------------------------------------------------------------
(* Refinement. *)

LEMMA OutcomesInit == Init => Outcomes!Init
BY LoopAssumption DEF Init, Outcomes!Init, outcomeBar

(* Leaving the loop by a pause is the abstract pause, by anything else a
   stutter; Close and errors are the abstract ends. *)
LEMMA OutcomesStep ==
  LoopInv /\ [Next]_vars => [Outcomes!Next]_<<outcomeBar, asked, cursor>>
<1> SUFFICES ASSUME LoopInv, [Next]_vars
             PROVE  [Outcomes!Next]_<<outcomeBar, asked, cursor>>
  OBVIOUS
<1> USE DEF LoopInv, LoopTypeInv, TypeOK, FlagsComeLast, envVars, rowVars, outcomeBar
<1>1. CASE Resume
  BY <1>1 DEF Resume, Outcomes!Next, Outcomes!End, Outcomes!Ended
<1>2. CASE BeginRound \/ ModelAnswers \/ Adjudicate \/ Authorize \/ Begin
  BY <1>2 DEF BeginRound, ModelAnswers, Adjudicate, Authorize, Begin
<1>3. CASE RunOut \/ TimeOut \/ CostCap \/ NoAdapter \/ AcceptFinish
  BY <1>3 DEF RunOut, TimeOut, CostCap, NoAdapter, AcceptFinish, Leave
<1>4. CASE StopOnCancel \/ ModelCancelled
  BY <1>4 DEF StopOnCancel, ModelCancelled, Leave
<1>5. CASE Denied
  BY <1>5 DEF Denied, NextRound, Leave
<1>6. CASE Pause
  <2>1. cursor' \in Proposal
    BY <1>6, DecidingType DEF Pause
  <2> QED
    BY <1>6, <2>1 DEF Pause, Leave, Outcomes!Next, Outcomes!Pause
<1>7. CASE PauseOnSideEffect
  BY <1>7 DEF PauseOnSideEffect, Leave, Outcomes!Next, Outcomes!Pause
<1>8. CASE RefuseFinish \/ RefuseSkill \/ EndTool \/ EndBatch \/ EndExecutor
          \/ EndSubagent
  BY <1>8 DEF RefuseFinish, RefuseSkill, EndTool, EndBatch, EndExecutor, EndSubagent, NextRound
<1>9. CASE Close
  <2>1. CASE ending = "waiting_approval"
    BY <1>9, <2>1 DEF Close, FinalStatus
  <2>2. CASE ending # "waiting_approval"
    BY <1>9, <2>2 DEF Close, FinalStatus, Outcomes!Next, Outcomes!End, Outcomes!Ended
  <2> QED
    BY <2>1, <2>2
<1>10. CASE Break
  BY <1>10 DEF Break, Outcomes!Next, Outcomes!End, Outcomes!Break, Outcomes!Ended
<1>11. CASE MarkCancelled \/ CancelSession
  <2>1. outcomeBar' = outcomeBar /\ cursor' = cursor
    BY <1>11 DEF MarkCancelled, CancelSession, loopVars
  <2>2. asked' = TRUE
    BY <1>11 DEF MarkCancelled, CancelSession
  <2> QED
    BY <2>1, <2>2 DEF Outcomes!Next, Outcomes!Cancel
<1>12. CASE ReopenSession \/ FireToken \/ Expire \/ UNCHANGED vars
  BY <1>12 DEF ReopenSession, FireToken, Expire, loopVars, vars
<1> QED
  BY <1>1, <1>2, <1>3, <1>4, <1>5, <1>6, <1>7, <1>8, <1>9, <1>10, <1>11, <1>12
     DEF Next, LoopSteps, OwnSteps, PeerSteps, RoundSteps, ActionSteps, EnvironmentSteps

(* The loop of a run is the one choice of an outcome that its callers take it
   for. *)
THEOREM LoopRefinesOutcomes == Spec => ImplementsLoopOutcomes
BY OutcomesInit, OutcomesStep, LoopInvariant, PTL
   DEF Spec, ImplementsLoopOutcomes, Outcomes!Spec

-----------------------------------------------------------------------------
(* Why the loop ends. *)

(* The most steps from each place to the head of the next round or to the end. *)
ToHead(place) ==
  CASE place = "resume"   -> 8
    [] place = "model"    -> 7
    [] place = "answered" -> 6
    [] place = "gated"    -> 5
    [] place = "starting" -> 4
    [] place = "acting"   -> 3
    [] place = "head"     -> 2
    [] place = "after"    -> 1
    [] OTHER              -> 0

Fuel == 7 * (MaxRounds - round) + ToHead(pc)

(* What the loop does uses it up, and nothing beside the loop gives it back. *)
FuelBurns == (LoopSteps \/ Break => Fuel' < Fuel) /\ (EnvironmentSteps => Fuel' = Fuel)

LEMMA FuelIsBounded == TypeOK => Fuel \in 0..(7 * MaxRounds + 8)
BY LoopAssumption DEF TypeOK, Fuel, ToHead

LEMMA FuelStep == TypeOK /\ Next => FuelBurns
<1> SUFFICES ASSUME TypeOK, Next PROVE FuelBurns
  OBVIOUS
<1> USE LoopAssumption DEF TypeOK, Fuel, ToHead
<1>1. EnvironmentSteps => Fuel' = Fuel
  BY DEF EnvironmentSteps, MarkCancelled, CancelSession, ReopenSession, FireToken, Expire,
         loopVars
<1>2. RoundSteps \/ ModelAnswers => Fuel' < Fuel
  BY SMTT(30) DEF RoundSteps, BeginRound, RunOut, TimeOut, StopOnCancel, ModelAnswers, ModelCancelled,
         CostCap, Adjudicate, Denied, Pause, Authorize, RefuseFinish, AcceptFinish, Leave,
         NextRound
<1>3. ActionSteps \/ PeerSteps => ModelAnswers \/ Fuel' < Fuel
  <2>1. ActionSteps \/ PeerSteps =>
          \/ ModelAnswers
          \/ /\ round' = round
             /\ \/ pc = "starting" /\ pc' \in {"acting", "head", "after"}
                \/ pc = "acting" /\ pc' \in {"head", "after"}
    BY DEF ActionSteps, PeerSteps, NoAdapter, RefuseSkill, Begin, EndTool, EndBatch, EndExecutor,
           PauseOnSideEffect, EndSubagent, Leave, NextRound
  <2> QED
    BY <2>1
<1>4. Resume \/ Close \/ Break => Fuel' < Fuel
  BY DEF Resume, Close, Break
<1> QED
  BY <1>1, <1>2, <1>3, <1>4 DEF FuelBurns, LoopSteps, OwnSteps, PeerSteps

(* Whatever the model answers and however often it is denied, every step of the
   loop uses up some of a stock that neither a cancel nor the clock refills: a run
   takes at most 7 * MaxRounds + 8 steps.  With the fairness of OwnSteps this is
   why OnlySilentPeersHoldTheLoop holds. *)
THEOREM RoundsRunOut ==
  Spec => [](Fuel \in 0..(7 * MaxRounds + 8)) /\ [][FuelBurns]_vars
<1>1. TypeOK /\ [Next]_vars => [FuelBurns]_vars
  BY FuelStep
<1> QED
  BY <1>1, FuelIsBounded, LoopTypeCorrect, PTL DEF Spec

=============================================================================
