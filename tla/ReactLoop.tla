------------------------------ MODULE ReactLoop ------------------------------
(***************************************************************************)
(* The controlled ReAct loop of one run: the rounds of                     *)
(* AgentSubHarness::execute_with_opc_pool                                  *)
(* (crates/coevo-worker/src/agent_harness.rs) and the gate they consult    *)
(* (crates/coevo-worker/src/loop/govern.rs).                               *)
(*                                                                         *)
(* A round calls the model, has its answer adjudicated and carries it out: *)
(* a tool, a batch of native tool calls, an external executor, a sub-agent *)
(* or the end of the run.  The model may answer anything.  A cancel and    *)
(* the clock run beside the loop, between any two of its steps.            *)
(***************************************************************************)
EXTENDS Naturals

CONSTANTS
  Tool,          \* tools registered for the run, executors included (all_tools)
  Executor,      \* the tools that are external executors with an adapter
  FileTool,      \* "file-readonly"
  Unregistered,  \* a tool the run does not have
  Visible,       \* the tools offered to the model (allowed)
  Refused,       \* tools that ToolPolicyEngine denies
  ApprovalTools, \* tools that ToolPolicyEngine allows with an approval
  Risky,         \* tools that the RiskGate denies
  NeedEvidence,  \* mission_requires_file_evidence
  MaxRounds,     \* max_rounds, the contract's max_hops
  Paused,        \* bound: actions an earlier run of the session paused on
  Bare,          \* an approval receipt without a digest
  None           \* no tool, digest or receipt

(* ActionProposal; a proposal also stands for its action_digest. *)
ToolCall == [kind : {"call_tool"}, tool : Tool \cup {Unregistered}]

Proposal ==
  ToolCall
    \cup [kind : {"call_executor"}, tool : Tool \cup {Unregistered}]
    \cup [kind : {"finish", "ask_human", "spawn_subagent"}, tool : {None}]

(* What a model answers: one proposal, which a single native tool call
   becomes, or several native tool calls.  A call whose arguments are no JSON
   is denied like one of an unregistered tool. *)
Answer == [1..1 -> Proposal] \cup [1..2 -> ToolCall]

ASSUME LoopAssumption ==
  /\ Executor \cup Visible \cup Refused \cup ApprovalTools \cup Risky \subseteq Tool
  /\ FileTool \in Tool
  /\ Unregistered \notin Tool
  /\ NeedEvidence \in BOOLEAN
  /\ MaxRounds \in Nat \ {0}
  /\ Paused \subseteq Proposal
  /\ None \notin Tool \cup {Unregistered} \cup Proposal
  /\ Bare \notin Proposal \cup {None}

VARIABLES
  pc,         \* the loop's next step
  round,      \* rounds begun
  answer,     \* this round's reasoning.proposal or streamed_tool_calls
  denials,    \* consecutive_denials
  evidence,   \* saw_file_evidence_attempt
  ending,     \* the one of finished, waiting_approval, timed_out, blocked that
              \* is set, or "cancelled" for a termination_reason that says so
  status,     \* final_status, "Error" if the loop returns Err
  receipt,    \* digest in approval_receipt, Bare or None
  cursor,     \* pending_action_digest of the session
  marked,     \* the run's row says Cancelled
  session,    \* the session's row says Cancelled
  token,      \* the cancellation token has fired
  late,       \* max_runtime_ms is over
  asked,      \* history: the run or its session has been cancelled
  begun       \* history: rounds that began an action since the run was marked

rowVars == <<receipt, marked, token, late, asked>>
envVars == <<rowVars, session>>
vars == <<pc, round, answer, denials, evidence, ending, status, cursor, envVars,
          begun>>

-----------------------------------------------------------------------------
TypeOK ==
  /\ pc \in {"resume", "head", "model", "answered", "gated", "starting",
             "acting", "after", "ended"}
  /\ round \in 0..MaxRounds
  /\ answer \in Answer \cup {<<>>}
  /\ answer = <<>> => pc \notin {"answered", "gated", "starting", "acting"}
  /\ denials \in 0..3
  /\ evidence \in BOOLEAN
  /\ ending \in {"none", "cancelled", "finished", "waiting_approval",
                 "timed_out", "blocked"}
  /\ status \in {"none", "Completed", "Blocked", "TimedOut", "WaitingApproval",
                 "Cancelled", "Error"}
  /\ receipt \in Proposal \cup {Bare, None}
  /\ cursor \in Proposal \cup {None}
  /\ marked \in BOOLEAN /\ session \in BOOLEAN /\ token \in BOOLEAN
  /\ late \in BOOLEAN /\ asked \in BOOLEAN
  /\ begun \in 0..MaxRounds

Init ==
  /\ pc = "resume"
  /\ round = 0
  /\ answer = <<>>
  /\ denials = 0
  /\ evidence = FALSE
  /\ ending = "none" /\ status = "none"
  /\ receipt \in Paused \cup {Bare, None}
  /\ cursor \in Paused \cup {None}
  /\ marked = FALSE /\ session = FALSE /\ token = FALSE /\ late = FALSE /\ asked = FALSE
  /\ begun = 0

-----------------------------------------------------------------------------
(* GovernGate and the gate of native batches. *)

(* tool_policy_decision, then RiskGate::evaluate: a tool is referred to a human
   before the RiskGate has seen it.  A receipt, whatever digest it names,
   satisfies the policy's approval.  The RiskGate may deny; with the confidence
   and the risk factors the worker passes it never refers a tool to a human
   (WorkerGateNeverAsks of module TrackRunsProofs). *)
ToolVerdict(t) ==
  CASE t \notin Tool \/ t \in Refused         -> "Deny"
    [] t \in ApprovalTools /\ receipt = None  -> "NeedApproval"
    [] t \in Risky                            -> "Deny"
    [] OTHER                                  -> "Allow"

(* adjudicate_with_audit. *)
Verdict(p) ==
  CASE p.kind \in {"finish", "spawn_subagent"} -> "Allow"
    [] p.kind = "ask_human"                    -> "NeedApproval"
    [] OTHER                                   -> ToolVerdict(p.tool)

(* streamed_tool_calls.len() > 1. *)
IsBatch == 2 \in DOMAIN answer

(* In a batch a call must also be of a tool the model was offered; alone it is
   not asked (adjudicate_streamed_native_tool_calls). *)
CallVerdict(p) ==
  IF IsBatch => p.tool \in Visible THEN Verdict(p) ELSE "Deny"

(* Mutant: only the first call of a batch is adjudicated. *)
DecidingFirst == answer[1]

(* The first call of the answer that is not allowed decides. *)
Deciding ==
  IF IsBatch /\ CallVerdict(answer[1]) = "Allow" THEN answer[2] ELSE answer[1]

Gate == CallVerdict(Deciding)

(* The answer's execution starts with a look at the cancel. *)
Acts == Gate = "Allow" /\ answer[1].kind # "finish"

-----------------------------------------------------------------------------
(* Mutant: the loop looks at the token only. *)
TokenFired == token

IsRunCancelled == token \/ marked \/ session

(* "break" with the given flag or termination_reason. *)
Leave(e) ==
  /\ pc' = "after"
  /\ ending' = e
  /\ UNCHANGED <<answer, status>>

(* The end of a round, or "continue". *)
NextRound ==
  /\ pc' = "head"
  /\ answer' = <<>>
  /\ UNCHANGED <<ending, status>>

(* load_resume_cursor: a run with a receipt presents the digest of the action
   an earlier run of the session paused on. *)
Resume ==
  /\ pc = "resume"
  /\ IF receipt = None \/ cursor \in {None, receipt}
     THEN pc' = "head" /\ UNCHANGED status
     ELSE pc' = "ended" /\ status' = "Error"
  /\ UNCHANGED <<round, answer, denials, evidence, ending, cursor, envVars, begun>>

-----------------------------------------------------------------------------
(* The head of a round. *)

(* Mutant: the round is not counted. *)
BeginRoundUncounted ==
  /\ pc = "head" /\ round < MaxRounds /\ ~IsRunCancelled /\ ~late
  /\ pc' = "model"
  /\ UNCHANGED <<round, answer, denials, evidence, ending, status, cursor, envVars,
                 begun>>

BeginRound ==
  /\ pc = "head" /\ round < MaxRounds /\ ~IsRunCancelled /\ ~late
  /\ pc' = "model"
  /\ round' = round + 1
  /\ UNCHANGED <<answer, denials, evidence, ending, status, cursor, envVars, begun>>

(* The for loop is over, with no flag set. *)
RunOut ==
  /\ pc = "head" /\ round = MaxRounds
  /\ Leave("none")
  /\ UNCHANGED <<round, denials, evidence, cursor, envVars, begun>>

TimeOut ==
  /\ pc = "head" /\ round < MaxRounds /\ ~IsRunCancelled /\ late
  /\ Leave("timed_out")
  /\ UNCHANGED <<round, denials, evidence, cursor, envVars, begun>>

(* is_run_cancelled is asked before a round, after the model's response and
   before each kind of action, there after "consecutive_denials = 0". *)
StopOnCancel ==
  /\ \/ pc = "head" /\ round < MaxRounds
     \/ pc = "answered"
     \/ pc = "gated" /\ Acts
  /\ IsRunCancelled
  /\ denials' = IF pc = "gated" THEN 0 ELSE denials
  /\ Leave("cancelled")
  /\ UNCHANGED <<round, evidence, cursor, envVars, begun>>

(* The select! on the model's stream and the token. *)
ModelAnswers ==
  /\ pc = "model"
  /\ pc' = "answered"
  /\ answer' \in Answer
  /\ UNCHANGED <<round, denials, evidence, ending, status, cursor, envVars, begun>>

ModelCancelled ==
  /\ pc = "model" /\ token
  /\ Leave("cancelled")
  /\ UNCHANGED <<round, denials, evidence, cursor, envVars, begun>>

(* The accumulated spend exceeds max_cost_per_task_usd. *)
CostCap ==
  /\ pc = "answered" /\ ~IsRunCancelled
  /\ Leave("blocked")
  /\ UNCHANGED <<round, denials, evidence, cursor, envVars, begun>>

Adjudicate ==
  /\ pc = "answered" /\ ~IsRunCancelled
  /\ pc' = "gated"
  /\ UNCHANGED <<round, answer, denials, evidence, ending, status, cursor, envVars,
                 begun>>

-----------------------------------------------------------------------------
(* match gate. *)

(* Mutant: the third denial does not end the loop. *)
DeniedForever ==
  /\ pc = "gated" /\ Gate = "Deny"
  /\ denials' = denials + 1
  /\ NextRound
  /\ UNCHANGED <<round, evidence, cursor, envVars, begun>>

Denied ==
  /\ pc = "gated" /\ Gate = "Deny"
  /\ denials' = denials + 1
  /\ IF denials' >= 3 THEN Leave("blocked") ELSE NextRound
  /\ UNCHANGED <<round, evidence, cursor, envVars, begun>>

(* Mutant: the cursor names the first call, not the one to approve. *)
PauseOnFirst ==
  /\ pc = "gated" /\ Gate = "NeedApproval"
  /\ cursor' = answer[1]
  /\ Leave("waiting_approval")
  /\ session' = FALSE
  /\ UNCHANGED <<round, denials, evidence, rowVars, begun>>

(* persist_loop_cursor, which also sets the session's status. *)
Pause ==
  /\ pc = "gated" /\ Gate = "NeedApproval"
  /\ cursor' = Deciding
  /\ Leave("waiting_approval")
  /\ session' = FALSE
  /\ UNCHANGED <<round, denials, evidence, rowVars, begun>>

Authorize ==
  /\ pc = "gated" /\ Acts /\ ~IsRunCancelled
  /\ pc' = "starting"
  /\ denials' = 0
  /\ UNCHANGED <<round, answer, evidence, ending, status, cursor, envVars, begun>>

LacksEvidence == NeedEvidence /\ ~evidence

(* Finish is refused without evidence.  The count was reset by the Allow just
   before, so its own test for 3 never succeeds. *)
RefuseFinish ==
  /\ pc = "gated" /\ answer[1].kind = "finish" /\ LacksEvidence
  /\ denials' = 1
  /\ NextRound
  /\ UNCHANGED <<round, evidence, cursor, envVars, begun>>

AcceptFinish ==
  /\ pc = "gated" /\ answer[1].kind = "finish" /\ ~LacksEvidence
  /\ denials' = 0
  /\ Leave("finished")
  /\ UNCHANGED <<round, evidence, cursor, envVars, begun>>

-----------------------------------------------------------------------------
(* The actions.  A cancel that arrives from here on is seen when the action
   is over. *)

HasAdapter == answer[1].kind = "call_executor" => answer[1].tool \in Executor

NoAdapter ==
  /\ pc = "starting" /\ ~HasAdapter
  /\ Leave("blocked")
  /\ UNCHANGED <<round, denials, evidence, cursor, envVars, begun>>

(* The skill of the sub-agent is not among the run's loaded_skills. *)
RefuseSkill ==
  /\ pc = "starting" /\ answer[1].kind = "spawn_subagent"
  /\ NextRound
  /\ UNCHANGED <<round, denials, evidence, cursor, envVars, begun>>

Begin ==
  /\ pc = "starting" /\ HasAdapter
  /\ pc' = "acting"
  /\ evidence' = (\/ evidence
                  \/ ~IsBatch /\ answer[1] = [kind |-> "call_tool", tool |-> FileTool])
  /\ begun' = IF marked THEN begun + 1 ELSE begun
  /\ UNCHANGED <<round, answer, denials, ending, status, cursor, envVars>>

EndTool ==
  /\ pc = "acting" /\ answer[1].kind = "call_tool" /\ ~IsBatch
  /\ NextRound
  /\ UNCHANGED <<round, denials, evidence, cursor, envVars, begun>>

(* A batch is joined before any of its results is looked at. *)
EndBatch ==
  /\ pc = "acting" /\ IsBatch
  /\ evidence' = (evidence \/ \E i \in DOMAIN answer : answer[i].tool = FileTool)
  /\ NextRound
  /\ UNCHANGED <<round, denials, cursor, envVars, begun>>

(* The executor fails, its side effects are allowed, or one of them is denied:
   the model hears of it in the next round. *)
EndExecutor ==
  /\ pc = "acting" /\ answer[1].kind = "call_executor"
  /\ NextRound
  /\ UNCHANGED <<round, denials, evidence, cursor, envVars, begun>>

(* So it does of what a sub-agent contributed, or of its failure. *)
EndSubagent ==
  /\ pc = "acting" /\ answer[1].kind = "spawn_subagent"
  /\ NextRound
  /\ UNCHANGED <<round, denials, evidence, cursor, envVars, begun>>

(* Mutant: the "break" after persist_loop_cursor is missing. *)
PauseOnSideEffectAndGoOn ==
  /\ pc = "acting" /\ answer[1].kind = "call_executor"
  /\ cursor' \in {p \in Proposal : Verdict(p) = "NeedApproval"}
  /\ NextRound
  /\ session' = FALSE
  /\ UNCHANGED <<round, denials, evidence, rowVars, begun>>

(* adjudicate_return_flow: a side effect of the executor needs approval. *)
PauseOnSideEffect ==
  /\ pc = "acting" /\ answer[1].kind = "call_executor"
  /\ cursor' \in {p \in Proposal : Verdict(p) = "NeedApproval"}
  /\ Leave("waiting_approval")
  /\ session' = FALSE
  /\ UNCHANGED <<round, denials, evidence, rowVars, begun>>

-----------------------------------------------------------------------------
(* After the loop. *)

FinalStatus ==
  [none |-> "TimedOut", cancelled |-> "Cancelled", finished |-> "Completed",
   waiting_approval |-> "WaitingApproval", timed_out |-> "TimedOut",
   blocked |-> "Blocked"]

(* Mutant: the "max_rounds_exhausted" paragraph is missing. *)
CloseWithoutExhaustion ==
  /\ pc = "after"
  /\ pc' = "ended"
  /\ status' = IF ending = "none" THEN "Completed" ELSE FinalStatus[ending]
  /\ UNCHANGED <<round, answer, denials, evidence, ending, cursor, envVars, begun>>

(* A loop that ended with no flag has run out of rounds and counts as timed
   out. *)
Close ==
  /\ pc = "after"
  /\ pc' = "ended"
  /\ status' = FinalStatus[ending]
  /\ UNCHANGED <<round, answer, denials, evidence, ending, cursor, envVars, begun>>

(* A "?": a statement, the model's route, stream or JSON, a task of a batch or
   the sandbox guard fails. *)
Break ==
  /\ pc \notin {"resume", "ended"}
  /\ pc' = "ended"
  /\ status' = "Error"
  /\ UNCHANGED <<round, answer, denials, evidence, ending, cursor, envVars, begun>>

-----------------------------------------------------------------------------
(* Beside the loop. *)

loopVars == <<pc, round, answer, denials, evidence, ending, status, cursor, receipt,
              begun>>

(* cancel_worker, first the run's row, which nobody else writes before the
   loop has ended. *)
MarkCancelled ==
  /\ ~marked /\ pc # "ended"
  /\ marked' = TRUE
  /\ asked' = TRUE
  /\ UNCHANGED <<loopVars, session, token, late>>

(* Then the session's row, without a run if it found no lane. *)
CancelSession ==
  /\ ~session /\ pc # "ended"
  /\ session' = TRUE
  /\ asked' = TRUE
  /\ UNCHANGED <<loopVars, marked, token, late>>

(* Another request of the session sets its status to Running, before it finds
   the lane busy. *)
ReopenSession ==
  /\ session /\ pc # "ended"
  /\ session' = FALSE
  /\ UNCHANGED <<loopVars, marked, token, late, asked>>

(* At last the token of the run it marked. *)
FireToken ==
  /\ marked /\ ~token /\ pc # "ended"
  /\ token' = TRUE
  /\ UNCHANGED <<loopVars, marked, session, late, asked>>

Expire ==
  /\ ~late /\ pc # "ended"
  /\ late' = TRUE
  /\ UNCHANGED <<loopVars, marked, session, token, asked>>

-----------------------------------------------------------------------------
RoundSteps ==
  \/ BeginRound \/ RunOut \/ TimeOut \/ StopOnCancel \/ ModelCancelled \/ CostCap
  \/ Adjudicate \/ Denied \/ Pause \/ Authorize \/ RefuseFinish \/ AcceptFinish

ActionSteps == NoAdapter \/ RefuseSkill \/ Begin \/ EndSubagent

OwnSteps == Resume \/ RoundSteps \/ ActionSteps \/ Close

(* What the loop waits for: the model's stream, a tool, a batch, an executor. *)
PeerSteps == ModelAnswers \/ EndTool \/ EndBatch \/ EndExecutor \/ PauseOnSideEffect

LoopSteps == OwnSteps \/ PeerSteps

EnvironmentSteps ==
  MarkCancelled \/ CancelSession \/ ReopenSession \/ FireToken \/ Expire

Next == LoopSteps \/ Break \/ EnvironmentSteps

(* The handler is polled to its end, statements and checks return, and so does a
   sub-agent, whose one model call is not streamed and has the provider's
   timeout.  Nothing is assumed of the streamed answer, which has none, nor of
   tools and executors, some of which have none: http-get for one. *)
Spec == Init /\ [][Next]_vars /\ WF_vars(OwnSteps)

-----------------------------------------------------------------------------
(* After the run's row is marked as cancelled at most one more action begins,
   the one whose check had already passed, even if the token never fires.  A
   mark on the session alone does not have this effect: it may be undone. *)
CancelStopsActions == begun <= 1

(* No tool or executor is executed that the gate would not allow on its own,
   in a batch neither: one refused call keeps the whole batch from running. *)
RunningCallsWereAllowed ==
  pc = "acting" => \A i \in DOMAIN answer : Verdict(answer[i]) = "Allow"

(* A run that waits for approval has stored the very action to approve: the
   one that needs approval, not another call of the same answer or the
   executor whose side effect it was. *)
PausedRunNamesItsAction ==
  ending = "waiting_approval" => cursor # None /\ Verdict(cursor) = "NeedApproval"

(* Completed is also what is left when no flag is set: a run that ran out of
   rounds, of time or of budget must not get there, nor one that owes
   evidence. *)
CompletedMeansFinished ==
  status = "Completed" => ending = "finished" /\ (NeedEvidence => evidence)

(* Whatever the model answers, the loop ends, unless a peer keeps it waiting for
   good: the model, as long as the run's token has not fired, or the tool, batch
   or executor under way, which neither a cancel nor max_runtime_ms cuts short. *)
OnlySilentPeersHoldTheLoop ==
  \/ <>(pc = "ended")
  \/ <>[](pc = "model" /\ ~token)
  \/ <>[](pc = "acting" /\ answer[1].kind # "spawn_subagent")

(* What the harness relies on (module LoopOutcomes). *)
outcomeBar ==
  IF pc = "ended" THEN status
  ELSE IF ending = "waiting_approval" THEN "WaitingApproval" ELSE "running"

Outcomes == INSTANCE LoopOutcomes
  WITH outcome <- outcomeBar, cancelled <- asked, Digest <- Proposal

ImplementsLoopOutcomes == Outcomes!Spec
=============================================================================
