-------------------------- MODULE WorkOrderExecution --------------------------
(***************************************************************************)
(* The execution of one work order by concurrent requests: the handlers    *)
(* execute_work_order, run_worker, decide_work_order_approval,             *)
(* cancel_work_order, work_order_feedback and cancel_worker of the server, *)
(* and WorkerHarness::run_work_order_with_pools, which they share.         *)
(*                                                                         *)
(* A request is one call of execute_work_order or of run_worker.  It       *)
(* inserts at most one approval row and starts at most one run, so its     *)
(* identifier also names that row and that run.  Every step of a request   *)
(* is one access to shared state; the awaits of the handler lie between    *)
(* the steps.  Module ApprovalReceipts models the approval rows, module    *)
(* SessionLane the queue lane of the work order's only worker session.     *)
(***************************************************************************)
EXTENDS Integers

CONSTANTS
  Request,    \* calls of execute_work_order and of run_worker
  Digest,     \* digests of actions a run can pause on
  None,       \* a missing receipt, digest or run
  Gated,      \* whether the work order's track is yellow or red
  Timeout,    \* ticks an approval request stays decidable
  TTL,        \* ticks of the lane's lock
  MaxCancels, \* bound: calls of cancel_worker
  Calls,      \* bound: which of Endpoints the clients use
  Ends        \* bound: the ways a loop that does not pause may end

(* final_status of execute_with_opc_pool. *)
Outcomes == {"Completed", "Failed", "Blocked", "TimedOut", "WaitingApproval", "Cancelled"}

(* A caller_identity_proof: the approval's id and, after a colon, a digest. *)
Proofs == [id : Request, digest : Digest \cup {None}]

Endpoints == {"execute_work_order", "run_worker", "cancel_work_order",
              "work_order_feedback", "create_worker"}

ASSUME ExecutionAssumption ==
  /\ None \notin Request \cup Digest \cup Proofs \cup Outcomes
  /\ Gated \in BOOLEAN
  /\ Timeout \in Nat
  /\ TTL \in Nat \ {0}
  /\ MaxCancels \in Nat
  /\ Calls \subseteq Endpoints
  /\ Ends \subseteq {"Completed", "Failed", "Blocked", "TimedOut", "Cancelled"}

VARIABLES
  wo,          \* work_orders.status, in the company's database
  status, remaining, timely, sweep, missed, \* approval_requests
  owner, ttl, phase, disturbed,   \* the session's queue lane
  cursor,      \* pending_action_digest in worker_sessions, per database
  session,     \* worker_sessions.status
  run,         \* worker_runs.status
  bound,       \* whether agent_workers.current_session_id is this session
  signalled,   \* registered runs whose cancellation token has fired
  pc,          \* where each request stands
  proof,       \* caller_identity_proof of each request
  receipt,     \* approval_receipt handed to the harness
  outcome,     \* final_status of each request's run
  direct,      \* requests that came in through run_worker
  denying,     \* a denial has been stored and the work order not yet failed
  cpc, ctarget, cactive, cancels, \* the running cancel_worker
  doomed       \* history: runs marked Cancelled before their loop began

rowVars     == <<status, remaining, timely, sweep, missed>>
laneVars    == <<owner, ttl, phase, disturbed>>
sessionVars == <<cursor, session, run, bound, signalled>>
requestVars == <<pc, proof, receipt, outcome, direct>>
cancelVars  == <<cpc, ctarget, cactive, cancels, doomed>>

vars == <<wo, rowVars, laneVars, sessionVars, requestVars, denying, cancelVars>>

A == INSTANCE ApprovalReceipts WITH Approval <- Request
L == INSTANCE SessionLane WITH Run <- Request, NoRun <- None

-----------------------------------------------------------------------------
Terminal == {"Completed", "Failed", "Cancelled", "Blocked"}

WorkOrderStatuses == {"Planned", "WaitingApproval"} \cup Terminal

RunStatuses == {"none", "Running"} \cup Outcomes

SessionStatuses == {"none", "Running"} \cup Outcomes

(* worker_sessions exists in the server's database, where the harness keeps
   it, and in each company's, where the handlers look for the cursor. *)
Pools == {"server", "company"}

(* The steps of a request: up to "spend" the handler's, from "start" to
   "release" the harness's, then the handler's again. *)
Steps == {"idle", "park", "find", "digest", "consume", "spend", "start", "create",
          "acquire", "bind", "prepare", "resume", "enter", "loop",
          "record", "close", "release", "report",
          "failrun", "failsession", "faillane", "fail", "done"}

(* The harness has registered the run's cancellation token. *)
Registered == {"acquire", "bind", "prepare", "resume", "enter", "loop", "record",
               "close", "release", "failrun", "failsession", "faillane"}

(* The run exists and its loop has not looked for a cancel yet. *)
BeforeLoop == {"acquire", "bind", "prepare", "resume", "enter"}

TypeOK ==
  /\ wo \in WorkOrderStatuses
  /\ A!TypeOK
  /\ L!LaneTypeOK
  /\ cursor \in [Pools -> Digest \cup {None}]
  /\ session \in SessionStatuses
  /\ run \in [Request -> RunStatuses]
  /\ bound \in BOOLEAN
  /\ signalled \subseteq Request
  /\ pc \in [Request -> Steps]
  /\ proof \in [Request -> Proofs \cup {None}]
  /\ receipt \in [Request -> Proofs \cup {None}]
  /\ outcome \in [Request -> Outcomes \cup {None}]
  /\ direct \subseteq Request
  /\ denying \in BOOLEAN
  /\ cpc \in {"idle", "session", "lane", "run", "evict", "close", "signal"}
  /\ ctarget \in Request \cup {None}
  /\ cactive \in BOOLEAN
  /\ cancels \in 0..MaxCancels
  /\ doomed \subseteq Request

(* create_work_order stores a work order as Planned, or as Blocked when no
   agent satisfies the governance gate. *)
Init ==
  /\ wo \in {"Planned", "Blocked"}
  /\ A!Init
  /\ L!LaneInit
  /\ cursor = [p \in Pools |-> None]
  /\ session = "none"
  /\ run = [e \in Request |-> "none"]
  /\ bound = FALSE
  /\ signalled = {}
  /\ pc = [e \in Request |-> "idle"]
  /\ proof = [e \in Request |-> None]
  /\ receipt = [e \in Request |-> None]
  /\ outcome = [e \in Request |-> None]
  /\ direct = {}
  /\ denying = FALSE
  /\ cpc = "idle" /\ ctarget = None /\ cactive = FALSE /\ cancels = 0
  /\ doomed = {}

-----------------------------------------------------------------------------
(* Mutant: the UPDATE without "AND status IN (...)". *)
Overwrite(s) == wo' = s

(* WorkOrderRepo::update_status with one of the statuses the handlers pass:
   a terminal work order stays as it is (the caller gets an error, which
   every caller but one ignores). *)
UpdateStatus(s) == wo' = IF wo \in Terminal THEN wo ELSE s

(* Request e moves from step "from" to step "to". *)
Go(e, from, to) ==
  /\ pc[e] = from
  /\ pc' = [pc EXCEPT ![e] = to]

-----------------------------------------------------------------------------
(* execute_work_order, the approval gate. *)

(* load_scoped_work_order and the checks on the work order: a blocked one is
   refused, one that is Completed, Failed or Cancelled is executed again.  A
   green work order's proof is passed on unread. *)
Load(e) ==
  /\ "execute_work_order" \in Calls
  /\ \E p \in Proofs \cup {None} :
       /\ p # None => IF Gated THEN status[p.id] # "absent" ELSE p.id = e
       /\ proof' = [proof EXCEPT ![e] = p]
       /\ receipt' = [receipt EXCEPT ![e] = IF Gated THEN None ELSE p]
       /\ Go(e, "idle",
             IF wo = "Blocked" THEN "done"
             ELSE IF ~Gated THEN "start"
             ELSE IF p = None THEN "park" ELSE "find")
  /\ IF pc'[e] = "park" THEN A!Create(e) ELSE UNCHANGED rowVars
  /\ UNCHANGED <<wo, laneVars, sessionVars, outcome, direct, denying, cancelVars>>

(* The contract, an agent or an executor of the work order does not pass the
   handler's checks. *)
Reject(e) ==
  /\ Go(e, "idle", "done")
  /\ UNCHANGED <<wo, rowVars, laneVars, sessionVars, proof, receipt, outcome,
                 direct, denying, cancelVars>>

(* Mutant: the harness does not look for the receipt. *)
LoadDirectUngated(e) ==
  /\ "run_worker" \in Calls
  /\ Go(e, "idle", "start")
  /\ direct' = direct \cup {e}
  /\ UNCHANGED <<wo, rowVars, laneVars, sessionVars, proof, receipt, outcome,
                 denying, cancelVars>>

(* run_worker: no receipt, no look at the work order's status; the harness
   refuses a gated work order (YellowApprovalRequired). *)
LoadDirect(e) ==
  /\ "run_worker" \in Calls
  /\ Go(e, "idle", IF Gated THEN "done" ELSE "start")
  /\ direct' = direct \cup {e}
  /\ UNCHANGED <<wo, rowVars, laneVars, sessionVars, proof, receipt, outcome,
                 denying, cancelVars>>

(* The request without a receipt has created its approval row and answers. *)
Park(e) ==
  /\ Go(e, "park", "done")
  /\ UpdateStatus("WaitingApproval")
  /\ UNCHANGED <<rowVars, laneVars, sessionVars, proof, receipt, outcome,
                 direct, denying, cancelVars>>

(* find_by_id and the checks on the row read. *)
Find(e) ==
  LET id == proof[e].id IN
  /\ Go(e, "find", IF status[id] = "approved" /\ A!Unexpired(id) THEN "digest" ELSE "done")
  /\ UNCHANGED <<wo, rowVars, laneVars, sessionVars, proof, receipt, outcome,
                 direct, denying, cancelVars>>

(* pending_action_digest_for_work_order, called with the company's pool: the
   digest the next run must present, which becomes part of the receipt. *)
CheckDigest(e) ==
  LET expected == cursor["company"]
      matches  == expected \in {None, proof[e].digest}
  IN /\ Go(e, "digest", IF matches THEN "consume" ELSE "done")
     /\ receipt' = [receipt EXCEPT ![e] =
                      IF matches THEN [id |-> proof[e].id, digest |-> expected] ELSE @]
     /\ UNCHANGED <<wo, rowVars, laneVars, sessionVars, proof, outcome, direct,
                    denying, cancelVars>>

(* consume_approved reads the clock; behind the deadline its UPDATE matches
   nothing. *)
Present(e) ==
  LET id == receipt[e].id
  IN /\ Go(e, "consume", IF A!Unexpired(id) THEN "spend" ELSE "done")
     /\ IF A!Unexpired(id)
        THEN A!ReadClock("consume", id) /\ UNCHANGED receipt
        ELSE receipt' = [receipt EXCEPT ![e] = None] /\ UNCHANGED rowVars
     /\ UNCHANGED <<wo, laneVars, sessionVars, proof, outcome, direct, denying,
                    cancelVars>>

(* Mutant: consume_approved without "status = 'approved'". *)
ConsumeAgain(e) ==
  /\ Go(e, "spend", "start")
  /\ status' = [status EXCEPT ![receipt[e].id] = "consumed"]
  /\ UNCHANGED <<wo, remaining, timely, sweep, missed, laneVars, sessionVars, proof,
                 receipt, outcome, direct, denying, cancelVars>>

(* The UPDATE of consume_approved: of the requests that found the row approved,
   one starts. *)
Consume(e) ==
  LET id == receipt[e].id
  IN /\ Go(e, "spend", IF A!Consumable(id) THEN "start" ELSE "done")
     /\ IF A!Consumable(id)
        THEN A!Consume(id) /\ UNCHANGED receipt
        ELSE receipt' = [receipt EXCEPT ![e] = None] /\ UNCHANGED rowVars
     /\ UNCHANGED <<wo, laneVars, sessionVars, proof, outcome, direct, denying,
                    cancelVars>>

-----------------------------------------------------------------------------
(* run_work_order_with_pools. *)

(* MODEL_PROVIDER_NOT_CONFIGURED: answered with CONFLICT, the receipt is
   spent, the work order untouched. *)
Unconfigured(e) ==
  /\ Go(e, "start", "done")
  /\ UNCHANGED <<wo, rowVars, laneVars, sessionVars, proof, receipt, outcome,
                 direct, denying, cancelVars>>

(* INSERT OR IGNORE and UPDATE of the session. *)
OpenSession(e) ==
  /\ Go(e, "start", "create")
  /\ session' = "Running"
  /\ UNCHANGED <<wo, rowVars, laneVars, cursor, run, bound, signalled,
                 proof, receipt, outcome, direct, denying, cancelVars>>

(* WorkerRunRepo::create and register_run. *)
CreateRun(e) ==
  /\ Go(e, "create", "acquire")
  /\ run' = [run EXCEPT ![e] = "Running"]
  /\ UNCHANGED <<wo, rowVars, laneVars, cursor, session, bound, signalled,
                 proof, receipt, outcome, direct, denying, cancelVars>>

(* WorkerQueueService::acquire, the read.  SessionBusy returns at once: the
   run stays Running. *)
CheckLane(e) ==
  /\ pc[e] = "acquire" /\ phase[e] = "idle"
  /\ L!Check(e)
  /\ pc' = [pc EXCEPT ![e] = IF L!Busy THEN "fail" ELSE "acquire"]
  /\ UNCHANGED <<wo, rowVars, sessionVars, proof, receipt, outcome, direct,
                 denying, cancelVars>>

(* acquire, the write. *)
ClaimLane(e) ==
  /\ Go(e, "acquire", "bind")
  /\ L!Claim(e)
  /\ UNCHANGED <<wo, rowVars, sessionVars, proof, receipt, outcome, direct,
                 denying, cancelVars>>

(* The worker becomes Executing, bound to this session. *)
BindWorker(e) ==
  /\ Go(e, "bind", "prepare")
  /\ bound' = TRUE
  /\ UNCHANGED <<wo, rowVars, laneVars, cursor, session, run, signalled,
                 proof, receipt, outcome, direct, denying, cancelVars>>

(* load_execution_contract and select_selected_executor_passports. *)
Prepare(e) ==
  /\ Go(e, "prepare", "resume")
  /\ UNCHANGED <<wo, rowVars, laneVars, sessionVars, proof, receipt, outcome,
                 direct, denying, cancelVars>>

(* load_resume_cursor, in the server's pool: a run with a receipt must present
   the digest an earlier run of the session paused on. *)
Resume(e) ==
  /\ Go(e, "resume",
        IF \/ receipt[e] = None
           \/ cursor["server"] \in {None, receipt[e].digest}
        THEN "enter" ELSE "failrun")
  /\ UNCHANGED <<wo, rowVars, laneVars, sessionVars, proof, receipt, outcome,
                 direct, denying, cancelVars>>

(* is_run_cancelled. *)
IsRunCancelled(e) ==
  e \in signalled \/ run[e] = "Cancelled" \/ session = "Cancelled"

(* Mutant: the loop looks at the token only. *)
EnterLoopOnToken(e) ==
  LET stop == e \in signalled
  IN /\ Go(e, "enter", IF stop THEN "record" ELSE "loop")
     /\ outcome' = [outcome EXCEPT ![e] = IF stop THEN "Cancelled" ELSE @]
     /\ UNCHANGED <<wo, rowVars, laneVars, sessionVars, proof, receipt, direct,
                    denying, cancelVars>>

(* The check at the head of the first round. *)
EnterLoop(e) ==
  LET stop == IsRunCancelled(e)
  IN /\ Go(e, "enter", IF stop THEN "record" ELSE "loop")
     /\ outcome' = [outcome EXCEPT ![e] = IF stop THEN "Cancelled" ELSE @]
     /\ UNCHANGED <<wo, rowVars, laneVars, sessionVars, proof, receipt, direct,
                    denying, cancelVars>>

(* A round ends the loop; module ReactLoop has the rounds.  A later cancel may
   be seen or come too late. *)
EndLoop(e) ==
  /\ Go(e, "loop", "record")
  /\ \E o \in Ends :
       /\ o = "Cancelled" => IsRunCancelled(e)
       /\ outcome' = [outcome EXCEPT ![e] = o]
  /\ UNCHANGED <<wo, rowVars, laneVars, sessionVars, proof, receipt, direct,
                 denying, cancelVars>>

(* persist_loop_cursor: the loop pauses on an action that needs approval. *)
PauseLoop(e) ==
  /\ Go(e, "loop", "record")
  /\ \E d \in Digest : cursor' = [cursor EXCEPT !["server"] = d]
  /\ session' = "WaitingApproval"
  /\ outcome' = [outcome EXCEPT ![e] = "WaitingApproval"]
  /\ UNCHANGED <<wo, rowVars, laneVars, run, bound, signalled, proof,
                 receipt, direct, denying, cancelVars>>

(* execute_with_opc_pool returns an error. *)
BreakLoop(e) ==
  /\ Go(e, "loop", "failrun")
  /\ UNCHANGED <<wo, rowVars, laneVars, sessionVars, proof, receipt, outcome,
                 direct, denying, cancelVars>>

(* WorkerRunRepo::set_status: overwrites whatever a cancel has put there. *)
RecordRun(e) ==
  /\ Go(e, "record", "close")
  /\ run' = [run EXCEPT ![e] = outcome[e]]
  /\ UNCHANGED <<wo, rowVars, laneVars, cursor, session, bound,
                 signalled, proof, receipt, outcome, direct, denying, cancelVars>>

CloseSession(e) ==
  /\ Go(e, "close", "release")
  /\ session' = outcome[e]
  /\ UNCHANGED <<wo, rowVars, laneVars, cursor, run, bound, signalled,
                 proof, receipt, outcome, direct, denying, cancelVars>>

(* Mutant: the answer of release is ignored, as in finalize_run_failure. *)
ReleaseLaneUnchecked(e) ==
  /\ Go(e, "release", "report")
  /\ L!Release(e)
  /\ UNCHANGED <<wo, rowVars, sessionVars, proof, receipt, outcome, direct,
                 denying, cancelVars>>

(* WorkerQueueService::release(..)?: a run that lost its lane is an error. *)
ReleaseLane(e) ==
  /\ Go(e, "release", IF owner = e THEN "report" ELSE "fail")
  /\ L!Release(e)
  /\ UNCHANGED <<wo, rowVars, sessionVars, proof, receipt, outcome, direct,
                 denying, cancelVars>>

(* finalize_run_failure, three statements. *)
FailRun(e) ==
  /\ Go(e, "failrun", "failsession")
  /\ run' = [run EXCEPT ![e] = "Failed"]
  /\ UNCHANGED <<wo, rowVars, laneVars, cursor, session, bound,
                 signalled, proof, receipt, outcome, direct, denying, cancelVars>>

FailSession(e) ==
  /\ Go(e, "failsession", "faillane")
  /\ session' = "Failed"
  /\ UNCHANGED <<wo, rowVars, laneVars, cursor, run, bound, signalled,
                 proof, receipt, outcome, direct, denying, cancelVars>>

FailLane(e) ==
  /\ Go(e, "faillane", "fail")
  /\ L!GiveUp(e)
  /\ UNCHANGED <<wo, rowVars, sessionVars, proof, receipt, outcome, direct,
                 denying, cancelVars>>

(* A "?" outside execute_with_opc_pool: a statement fails, the contract or an
   executor is not found.  The handler sees the error, but nobody releases the
   lane or updates the run. *)
HarnessError(e) ==
  /\ pc[e] \in {"start", "create", "acquire", "bind", "prepare", "record", "close",
                "release", "report"}
  /\ pc' = [pc EXCEPT ![e] = "fail"]
  /\ IF phase[e] \in {"checked", "inside"} THEN L!Abandon(e) ELSE UNCHANGED laneVars
  /\ UNCHANGED <<wo, rowVars, sessionVars, proof, receipt, outcome, direct,
                 denying, cancelVars>>

-----------------------------------------------------------------------------
(* execute_work_order, after the harness; run_worker leaves the work order as
   it is. *)

(* Mutant: the worker's status is stored as it is. *)
ReportRaw(e) ==
  /\ Go(e, "report", "done")
  /\ IF e \in direct THEN UNCHANGED wo ELSE UpdateStatus(outcome[e])
  /\ UNCHANGED <<rowVars, laneVars, sessionVars, proof, receipt, outcome, direct,
                 denying, cancelVars>>

(* work_order_status_from_worker_status and update_status. *)
Report(e) ==
  /\ Go(e, "report", "done")
  /\ IF e \in direct THEN UNCHANGED wo
     ELSE UpdateStatus(IF outcome[e] = "TimedOut" THEN "Failed" ELSE outcome[e])
  /\ UNCHANGED <<rowVars, laneVars, sessionVars, proof, receipt, outcome, direct,
                 denying, cancelVars>>

(* The harness returned an error. *)
Fail(e) ==
  /\ Go(e, "fail", "done")
  /\ IF e \in direct THEN UNCHANGED wo ELSE UpdateStatus("Failed")
  /\ UNCHANGED <<rowVars, laneVars, sessionVars, proof, receipt, outcome, direct,
                 denying, cancelVars>>

(* The client goes away and its handler is dropped at an await, or the server
   stops.  Nothing is cleaned up. *)
Vanish(e) ==
  /\ pc[e] \notin {"idle", "done"}
  /\ pc' = [pc EXCEPT ![e] = "done"]
  /\ IF phase[e] \in {"checked", "inside"} THEN L!Abandon(e) ELSE UNCHANGED laneVars
  /\ UNCHANGED <<wo, rowVars, sessionVars, proof, receipt, outcome, direct,
                 denying, cancelVars>>

-----------------------------------------------------------------------------
(* decide_work_order_approval, which looks at the row's action but not at its
   status; approve and deny read the clock before they wait for their UPDATE.
   Bound: one of them is under way at a time (ApprovalReceipts has any number). *)

Decide(a) ==
  /\ \A b \in Request : timely[b] \subseteq {"consume"}
  /\ \E c \in {"approve", "deny"} : A!ReadClock(c, a)
  /\ UNCHANGED <<wo, laneVars, sessionVars, requestVars, denying, cancelVars>>

Approve(a) ==
  /\ A!Approve(a)
  /\ UNCHANGED <<wo, laneVars, sessionVars, requestVars, denying, cancelVars>>

Deny(a) ==
  /\ ~denying
  /\ A!Deny(a)
  /\ denying' = TRUE
  /\ UNCHANGED <<wo, laneVars, sessionVars, requestVars, cancelVars>>

FailDenied ==
  /\ denying
  /\ denying' = FALSE
  /\ UpdateStatus("Failed")
  /\ UNCHANGED <<rowVars, laneVars, sessionVars, requestVars, cancelVars>>

CancelWorkOrder ==
  /\ "cancel_work_order" \in Calls
  /\ UpdateStatus("Cancelled")
  /\ UNCHANGED <<rowVars, laneVars, sessionVars, requestVars, denying, cancelVars>>

(* work_order_feedback. *)
Feedback ==
  /\ "work_order_feedback" \in Calls
  /\ UpdateStatus("Failed")
  /\ UNCHANGED <<rowVars, laneVars, sessionVars, requestVars, denying, cancelVars>>

-----------------------------------------------------------------------------
(* cancel_worker, one call at a time. *)

CancelGo(from, to) == cpc = from /\ cpc' = to

(* The worker has no session until a run was bound to it. *)
CancelWorker ==
  /\ CancelGo("idle", IF bound THEN "session" ELSE "idle")
  /\ cancels < MaxCancels
  /\ cancels' = cancels + 1
  /\ UNCHANGED <<wo, rowVars, laneVars, sessionVars, requestVars, denying,
                 ctarget, cactive, doomed>>

CancelReadSession ==
  /\ CancelGo("session", "lane")
  /\ cactive' = (session \in {"Running", "WaitingApproval"})
  /\ UNCHANGED <<wo, rowVars, laneVars, sessionVars, requestVars, denying,
                 ctarget, cancels, doomed>>

(* The run the lane names is taken to be running.  Without one the handler asks
   for the session's latest run, ORDER BY created_at_ms: no migration gives
   worker_runs that column, the statement fails and no run is found. *)
CancelReadRun ==
  /\ CancelGo("lane", IF owner # None THEN "run" ELSE "close")
  /\ ctarget' = owner
  /\ UNCHANGED <<wo, rowVars, laneVars, sessionVars, requestVars, denying,
                 cactive, cancels, doomed>>

(* WorkerRunRepo::set_status(run_id, "Cancelled"). *)
CancelRun ==
  /\ CancelGo("run", "evict")
  /\ run' = [run EXCEPT ![ctarget] = "Cancelled"]
  /\ doomed' = IF pc[ctarget] \in BeforeLoop THEN doomed \cup {ctarget} ELSE doomed
  /\ UNCHANGED <<wo, rowVars, laneVars, cursor, session, bound, signalled,
                 requestVars, denying, ctarget, cactive, cancels>>

(* WorkerQueueService::release. *)
CancelEvict ==
  /\ CancelGo("evict", "close")
  /\ L!Evict(ctarget)
  /\ UNCHANGED <<wo, rowVars, sessionVars, requestVars, denying, ctarget, cactive,
                 cancels, doomed>>

CancelSession ==
  /\ CancelGo("close", "signal")
  /\ session' = IF cactive \/ ctarget # None THEN "Cancelled" ELSE session
  /\ UNCHANGED <<wo, rowVars, laneVars, cursor, run, bound, signalled,
                 requestVars, denying, ctarget, cactive, cancels, doomed>>

(* worker_cancel::cancel_run: only a registered run has a token. *)
CancelSignal ==
  /\ CancelGo("signal", "idle")
  /\ signalled' = signalled \cup {e \in {ctarget} \ {None} : pc[e] \in Registered}
  /\ ctarget' = None
  /\ cactive' = FALSE
  /\ UNCHANGED <<wo, rowVars, laneVars, cursor, session, run, bound,
                 requestVars, denying, cancels, doomed>>

CancelSteps ==
  \/ CancelWorker \/ CancelReadSession \/ CancelReadRun \/ CancelRun
  \/ CancelEvict \/ CancelSession \/ CancelSignal

(* create_worker for the same agent clears the worker's session. *)
RebindWorker ==
  /\ "create_worker" \in Calls
  /\ bound' = FALSE
  /\ UNCHANGED <<wo, rowVars, laneVars, cursor, session, run, signalled,
                 requestVars, denying, cancelVars>>

(* One tick of the clock. *)
Tick ==
  /\ A!Elapse
  /\ L!Lapse
  /\ UNCHANGED <<wo, sessionVars, requestVars, denying, cancelVars>>

-----------------------------------------------------------------------------
RequestSteps(e) ==
  \/ Load(e) \/ Reject(e) \/ LoadDirect(e) \/ Park(e) \/ Find(e) \/ CheckDigest(e)
  \/ Present(e) \/ Consume(e)
  \/ Unconfigured(e) \/ OpenSession(e) \/ CreateRun(e) \/ CheckLane(e) \/ ClaimLane(e)
  \/ BindWorker(e) \/ Prepare(e) \/ HarnessError(e) \/ Resume(e) \/ EnterLoop(e)
  \/ EndLoop(e) \/ PauseLoop(e) \/ BreakLoop(e) \/ RecordRun(e) \/ CloseSession(e)
  \/ ReleaseLane(e) \/ FailRun(e) \/ FailSession(e) \/ FailLane(e)
  \/ Report(e) \/ Fail(e) \/ Vanish(e)

Next ==
  \/ \E e \in Request : RequestSteps(e) \/ Decide(e) \/ Approve(e) \/ Deny(e)
  \/ FailDenied \/ CancelWorkOrder \/ Feedback
  \/ CancelSteps \/ RebindWorker \/ Tick

Spec == Init /\ [][Next]_vars

-----------------------------------------------------------------------------
(* One approval, one run: whatever requests present the same receipt at the
   same time, and however their checks interleave, no two runs were started on
   one approval row.  Only the guarded UPDATE of consume_approved ensures it:
   the reads before it are stale when it runs. *)
ReceiptAuthorizesOneRun ==
  Gated => \A e, f \in Request :
    run[e] # "none" /\ run[f] # "none" /\ e # f => receipt[e].id # receipt[f].id

(* No run of a yellow or red work order exists without a receipt of its own
   that a human approved and that is spent, on no path into the harness. *)
GatedRunsHoldReceipt ==
  Gated => \A e \in Request :
    run[e] # "none" => /\ receipt[e] # None
                       /\ status[receipt[e].id] = "consumed"

(* Whichever of a finishing run, a failing request, a denial, a cancel and a
   feedback comes last, the first terminal status of the work order stays. *)
WorkOrderOutcomeSticks == [][(wo \in Terminal) => wo' = wo]_vars

(* A work order is Completed only on a run that reported completion and had
   the session to itself from claim to release: a run that lost the lane to a
   lapsed lock, to another run's stale check or to a cancel is not believed. *)
CompletedWorkOrderHasSoloRun ==
  wo = "Completed" =>
    \E e \in Request \ disturbed : outcome[e] = "Completed" /\ phase[e] = "released"

(* A run marked Cancelled before its loop looks for the first time never
   completes, even when its cancellation token was not signalled. *)
EarlyCancelIsObeyed == \A e \in doomed : outcome[e] \in {"Cancelled", None}

(* The work order's requests and cancels use the lane and the approval rows
   only as those modules allow. *)
UsesLane == L!LaneInit /\ [][L!LaneNext]_laneVars
UsesReceipts == A!Spec

(* pending_action_digest_for_work_order makes a request that resumes a paused
   run present the digest of the action the run paused on, or be refused
   before its receipt is spent (test
   execute_work_order_rejects_bare_receipt_when_resume_cursor_requires_digest). *)
BareReceiptIsRejected ==
  [][\A e \in Request :
       pc[e] = "digest" /\ pc'[e] = "consume" =>
         cursor["server"] \in {None, proof[e].digest}]_vars

(* A cancel that finds no lane leaves a finished run alone (test
   cancel_worker_does_not_rewrite_completed_run_when_queue_lane_is_missing). *)
LateCancelIsIgnored ==
  [][\A e \in Request :
       run[e] = "Completed" /\ owner = None => run'[e] # "Cancelled"]_vars

=============================================================================
