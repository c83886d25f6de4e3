# Verification of coevo

TLA+ specifications of the governed execution core of coevo and of the parts
around it that keep shared state, the TLC configurations that check them on small instances and the TLAPS proofs of
their main theorems. Paths are relative to the repository's root.

    tlc -workers 2 -config MCWorkOrderGate.cfg MCWorkOrderGate
    tlapm WorkOrderExecutionProofs.tla

## 1. The system

coevo is a Rust workspace: an HTTP server (`apps/server`) over SQLite
(`crates/coevo-store`), a library that executes work orders with a language
model (`crates/coevo-worker`), libraries for contracts, risk, policy and
conflict resolution, and a desktop client (`apps/desktop`).

A user states a mission. The server compiles a contract, classifies the risk
(green, yellow or red track) and stores a *work order*. To execute it a client
posts `/opc/work-orders/{id}/execute`; on a yellow or red track the first post
only creates an approval request, a human approves it, and a second post
presents the receipt. The handler spends the receipt and calls the worker
harness, which opens a *session*, creates a *run*, takes the session's queue
*lane*, and lets the run's loop call the model, tools and executors until it
finishes, pauses for an approval, is cancelled, blocked or times out. The
handler then stores the run's outcome as the work order's status.

Everything runs concurrently: requests are tokio tasks whose awaits interleave,
state is in SQLite tables changed by single statements, clients disconnect
(which drops the handler in the middle) and the process may stop.

### Components

| component | state | operations | made hard by |
|---|---|---|---|
| approval rows (`approval_repo.rs`) | `approval_requests.status`, `expires_at_ms` | create, approve, deny, consume_approved, expire_pending | concurrent deciders and consumers, who read the clock before they wait for their UPDATE; a sweep in two steps |
| session lane (`queue.rs`) | `worker_queue_lanes`: active run, lock deadline | acquire (read, then write), release | the check is stale when the write happens; the lock lapses under its holder; leaked lanes; eviction by a cancel |
| work order (`handlers/opc.rs`, `work_order_repo.rs`) | `work_orders.status` | create, execute, approve, deny, cancel, feedback | several writers race for the terminal status |
| harness (`harness.rs`) | `worker_sessions`, `worker_runs`, `agent_workers`, the resume cursor | open session, create run, bind worker, run the loop, record, close, release, finalize failure | every step is a statement of its own, any may fail, the request may vanish between two |
| cancellation (`handlers/tools.rs`, `worker_cancel.rs`) | the registry of cancellation tokens, and the rows above | cancel_worker in seven steps | decides from rows it read earlier |
| ReAct loop (`agent_harness.rs`, `loop/`) | round, counters, flags, resume cursor | model call, gate, tool, executor, sub-agent, finish | cancellation points, pauses in the middle of a batch, retries after denials |
| events and their stream (`worker_run_repo.rs`, `handlers/workers.rs`, the desktop's `client.ts` and `useWorkerStream.ts`) | `worker_events`; the cursors of a connection and of a client; the view's state | append, poll, yield, reconnect, retry | what was sent is not what arrived; attempts that must run out; a stream that ends before the run |
| leases (`coevo-risk/lease.rs`, `lease_repo.rs`) | `leases`: operations used, active, revoked, expiry | grant, try_consume, revoke, expire | the read, the check of the clock and the UPDATE are separate; several holders |
| risk gate and tracks (`decision_tree.rs`, `coevo-tracks`, `handlers/compile.rs`) | `contracts`, `execution_plans`, `risk_decisions`, `adrs`, `blackboard_entries` and their envelopes | green, yellow and red runs, `/mcl/compile` | a run is up to a dozen statements and may stop behind each; two runs of one intent share a contract's hash; states written without being read |
| customs (`coevo-customs`) | `blackboard_entries`, `cognitive_edges` | propose, propagate_invalidation, promote, expire_stale_facts | a walk over a graph that changes under it; walks that meet; writes by id to rows read earlier |
| MCP servers (`handlers/mcp.rs`, `mcp_client/`, `tools/mcp_tool.rs`) | the row of a server; the registry's connections and disconnected ids; a connection's session | create, update, delete, connect, disconnect, test, tools; start-up; a worker's call | two locks never held together, the network between check and write; a session that expires under several callers; a tool timer |
| prompt versions (`handlers/prompts.rs`, the employee routes of `opc.rs`) | `prompt_versions`, `v{n}.md`, `prompt.md`, `current.txt`, `system_prompt` | draft, publish, record, update, rollback | five stores written one after the other, numbers taken from two of them |
| resolution (`coevo-resolution`) | rounds, stopper | resolve | the stopper's memory outlives an issue |
| everything else | see `PROJECT.json`, "components" | | |

How they interact: the handlers of `opc.rs` use the approval rows and the
work order's status and call the harness; the harness uses the lane, the token
registry and the loop; `cancel_worker` touches the lane, the run, the session
and the registry directly, beside the harness; the loop writes the resume
cursor that the *next* request's handler and loop read.

There are two databases. The server's holds sessions, runs, lanes and
approvals; each company has its own with its work orders. Both are created by
the same migrations, so a table such as `worker_sessions` exists in both, and
which pool a statement is given matters (section 5).

A worker's tool call may go to an MCP server, through the registry that the MCP
routes and the start-up share with every worker of the process. The tracks and
the customs write one table, `blackboard_entries`, but not the same rows: a
track's entry has a key of its own run. Approving a skill proposal ends in
`record_and_publish_version`, so it meets the prompt routes in the prompt's
rows and files. The leases have one caller, the red runner, which cannot reach
it (section 4); they are modelled as the library offers them. Promotion,
propagation and the sweep of the customs are likewise called by tests only, and
`expire_pending` has no caller yet.

### What makes it correct

* An approval row is decided once; one approval starts at most one run, and none
  if nobody had decided it at its deadline, however late an approve that read the
  clock in time is stored; no path reaches a run of a gated work order without a
  spent receipt.
* A run whose completion is reported had its session to itself, though neither
  the lane's check nor its lock guarantees that.
* A session never stays locked because a holder vanished.
* The first terminal status of a work order stays.
* A cancel that comes before a run's loop is obeyed.
* A paused action is resumed only with a receipt for that very action, and the
  action a run pauses on is the one that needs the approval.
* Nothing a model answers is executed unless the gate allows it; after a cancel
  at most one more action begins; only an accepted finish completes a run;
  nothing but a silent model, tool or executor keeps the loop from ending, and a
  silent model only until the token fires.
* A lease gives no more operations than its budget, at most one late one to each
  call that looked at the clock in time, and none once it has ended.
* Wherever a track run stops, what it wrote is backed by what should come before
  it, and no contract moves backward.
* Invalidating an entry reaches everything that depended on it, whichever
  propagation gets there first; a revocation nobody else had in hand is final;
  versions of a key are not given twice.
* No MCP call runs its tool twice; a worker that begins to connect after a
  disconnect is refused, so only those already on their way can lift it; a call that
  found a connection comes back.
* A publication of a prompt that met no other leaves the five stores agreeing;
  current.txt always names a text that is there; some version stays published.
* A view that follows a run gets its events in order, without gap or repeat,
  whatever happens to its connections, and comes to rest once the run is over.

## 2. Modules

| module | models |
|---|---|
| `ApprovalReceipts` | `ApprovalRepo`: its calls over approval rows, each in the clock it reads and the statement that uses it |
| `SessionLane` | `WorkerQueueService` over one lane, with races, lapses, leaks and evictions |
| `SerialRuns` | abstract: what a lane promises, runs that finish one at a time |
| `WorkOrderExecution` | the handlers, the harness and `cancel_worker` around one work order; instantiates `ApprovalReceipts` and `SessionLane` |
| `ReactLoop` | the rounds of one run: model, gate, batches, executors, sub-agents, pauses, endings; beside them a cancel, other requests of the session and the clock |
| `LoopOutcomes` | abstract: what the harness takes the loop for, one outcome, preceded by a stored cursor if it is a pause |
| `RunEvents` | the event log of one run, the server-sent stream, the client that reconnects and the state of the view |
| `EventFollower` | abstract: what a follower is promised, the next event each time |
| `RiskGate` | the gate's arithmetic and decision as operators, and the inputs its callers pass |
| `Leases` | `LeaseManager` over `leases`, with holders, a revocation, the sweep and the clock |
| `TrackRuns` | green, yellow and red runs and `/mcl/compile`, statement by statement; extends `RiskGate` and `Leases` |
| `Blackboard` | the customs: proposals, propagations, promotions, sweeps |
| `McpSession` | calls over one connection whose session the server may forget |
| `McpServers` | one registered server: row, routes, registry, workers; extends `McpSession` |
| `PromptVersions` | one employee's prompt: rows, files and the five requests that write them |
| `MC*` | instances for TLC |
| `*Proofs` | theorems about the modules they extend |

**State.** One variable per column or registry that a step reads or writes:
`status` is `approval_requests.status`, `owner` is
`worker_queue_lanes.active_run_id`, `run` is `worker_runs.status`, `session` is
`worker_sessions.status`, `cursor` is its `pending_action_digest` (one per
database), `signalled` the fired tokens, `wo` is `work_orders.status`. `pc`,
`proof`, `receipt`, `outcome` are a request's local variables and `cpc`,
`ctarget`, `cactive` those of a running `cancel_worker`. History,
written and never read by an action, are `disturbed`, the runs that lost the lane
while inside, `doomed`, the runs marked cancelled before their loop began, and
`missed`, the approvals still pending at their deadline.
`timely` is the `now` of the calls of approve, deny and consume_approved that have
bound it and not yet run their UPDATE: of that number only matters that it was
before the deadline, since calls that read the clock later match nothing.

In `ReactLoop` a variable is a local of `execute_with_opc_pool`: `denials` is
`consecutive_denials`, `evidence` is `saw_file_evidence_attempt`, `answer` the
proposal or the streamed tool calls. The flags `finished`, `waiting_approval`,
`timed_out` and `blocked` and the reason "cancelled" are one variable `ending`:
each is set just before a `break`, so at most one is set, and the order in
which the code asks for them afterwards does not matter. `tool_failed` is left
out: it is set only where an AskHuman is *allowed*, and the gate never allows
one. The other values of `termination_reason` are wording. History: `asked`,
`begun`.

A tool is a model value and the policy over tools is a set: `Refused` and
`ApprovalTools` stand for what `ToolPolicyEngine` decides for the run's track, and
`Risky` for what the risk gate's policy denies; none changes while the run goes on.
The policy is asked first, as in `govern.rs:86`: a tool that needs an approval and that
the gate would deny pauses the run, and is denied once approved. The risk
gate's numbers add nothing: `WorkerGateNeverAsks` of `TrackRunsProofs` shows
that they never refer a worker's tool to a human. A proposal stands for its
`action_digest`.

In `RunEvents` three parties have variables of their own: the run (`log`; the
event at index i has `event_seq` i - 1), the server's generator for the one open
connection (`lastSeq`, and in `batch` the rows it has fetched) and the client's
loop (`attempt`, `lastId`) with its view (`got`, `ui`). `wire` lies between the
last two; `Cut` empties it and drops the generator. `stage` restricts the log
to what a run writes: the AssistantDelta and the ToolStarts of an answer come
after its Done, since every gateway emits Done before it returns, and
LifecycleEnd is last. One view is
followed from its mounting; leaving the page is not modelled.

In `McpSession` a caller's `rpc` record is its stack inside `McpClient::rpc`:
the step and phase it is in, the session it saw (`had_session`) and sent.
`held` is the session cell of each connection, `valid` what the server would
accept, `ran` (history) how often each caller's tool ran. In `McpServers`,
`client` and `disabled` are the two maps of `McpClientManager` for this id, `asked`
(history) the callers that had begun to connect when it last entered the second,
`serving` says that the start-up is over, `address` what each connection was
built from, `req` the operation a caller performs. The answer of the server to
a request is one step; that it may never come is the absence of fairness.

A risk in `RiskGate` is a whole number of hundredths and a confidence of
ten-thousandths, which is exact for what the callers pass. In `TrackRuns`,
`contract` is `contracts.mcl_state` by compiled intent (the compiler is
deterministic, and the hash is UNIQUE), `plans`, `decision`, `adr`, `entries` and
`vouched` are the rows a run writes. The policy engine may answer anything.

In `Blackboard` an entry is the call that writes it. `call` is where a
proposal stands, `walk` the queue and visited set of a propagation,
`promotion` and `sweep` what the other two have read and are about to write.
History: `before`, `owed`, `settled`.

In `PromptVersions` `req` is what a handler holds: its version number, its text
and what it read of `prompt.md`. `quiet` and `published` are history. The rows'
bodies are empty for an employee (`prompt_body_storage_value`), so a row is its
status.

**Steps.** A request takes one step per access to shared state; an `await` lies
between any two. A guarded `UPDATE` is one step because SQLite makes a
statement atomic. `WorkOrderRepo::update_status` runs in a transaction and is
one step. `acquire` is two, `expire_pending` is one per row, `cancel_worker` is
seven. approve, deny and consume_approved are two each: they bind the clock, wait for
a connection, and run the UPDATE.

**Time** appears only as what is left: `remaining` of an approval and `ttl` of
the lock, counted down by a tick of the clock. A tick is coarse; what matters
is that it may fall between any two steps.

**A request is also a row and a run.** A request inserts at most one approval
and starts at most one run, so its identifier names all three.

## 3. Runs

| run | question | bounds |
|---|---|---|
| `approvals` | can deciders, consumers, the sweep and the clock overwrite each other; can a request pay for a run that nobody had decided in time? | three rows, two ticks: two rows are needed for a sweep that is overtaken, the third is slack |
| `lane` | do successful releases serialise runs; can a session be locked for good; does the lane refine `SerialRuns`? | three runs: one holds, one passes the stale check, one claims after both; lock of two ticks |
| `gate` | one receipt, one run; no run without one; the first terminal status stays | three requests on a yellow work order: one parks, two present its receipt together. One digest; a deadline and a lock of one tick; one approve or deny under way at a time (`approvals` has any number) |
| `cancel` | is an early cancel obeyed, and can a cancelled or displaced run complete the work order? | two requests on a green work order and one `cancel_worker`; `Ends` limited to completion and cancellation, which is what the two properties distinguish |
| `react` | whatever the model answers: does anything run that the gate would refuse, or after a cancel; does a pause name its action; is Completed ever a fallback; what can keep the loop from ending; does it refine `LoopOutcomes`? | four rounds (three denials and one more); six tools, one of each kind the gate tells apart (the file tool, one not offered, a refused one, one needing an approval, one the risk gate denies even then, an executor), and one name that is not registered; batches of two calls, which is enough for a call before and one after the deciding one |
| `events` | does a view get the log, in order and once, over connections that drop; does it come to rest? | six events, polls of two rows: a batch that ends in the middle of what is logged, a terminal event in the middle of a batch; three reconnects, one Retry |
| `governed` | do runs that stop anywhere leave something unexplained; can holders overdraw or outlive a lease? | two runs of any kind on one intent: the second meets every state the first may leave; budget of three and two holders, so that a consumption is left when both have read |
| `customs` | do overlapping propagations miss a dependent; what can undo a revocation; do versions repeat? | three entries (a chain of two edges, or two edges into one entry), two propagations, one promotion and one sweep, reused |
| `mcp` | does a call run twice; which workers can lift a disconnect; does a call come back? | the start-up and two callers (enough for a disconnect beside a worker past its check), each of any operation, one edit or restart or forgotten session |
| `prompts` | what survives when requests on one prompt overlap or are cut short? | two requests at a time, each slot reused, two version numbers, two texts. A larger instance with three numbers (8.3 million states, 5 minutes) passes as well |
| `late_cancel` | expected violation, section 5 | as `cancel` |
| `bare_receipt` | expected violation, section 5 | as `gate`, with four requests (two to park, two to execute) and runs that complete or pause |

Every property has a mutant of the code that breaks it under the same
configuration (`PROJECT.json`, "mutants"): `consume_approved` without its
deadline or without `status = 'approved'`, a sweep that trusts its list,
`release` that ignores `rows_affected`, an `UPDATE` without its status guard, a loop that
looks at the token only, and so on.

The runs of `ApprovalReceipts`, `SessionLane` and `WorkOrderExecution` check
deadlock: requests that are done leave the clock ticking, so a state without
successor would be a modelling error. The others may stop: a loop that has
ended, a view at rest, runs and calls that are over, a prompt whose numbers have
reached the bound while every request waits for a higher one.

**Fairness.** `SessionLane`, `ReactLoop`, `RunEvents` and `McpServers` state
some. In `McpServers`: the timer of a tool call runs out (`TimeOut`), and a
caller whose exchange has ended goes on (`Used`). Nothing is assumed of the MCP
server, so that `CallsReturn` rests on the timer alone; connects and listings
have none and may wait for ever. In
`RunEvents`: a request is answered or fails, an open connection is polled (its
interval ticks), rows and bytes move on, a start that was asked for happens. The
run need not log anything and connections may drop for ever, so `ViewSettles`
rests on the attempts running out; it speaks of runs that are over, and of a user
who stops pressing Retry at some point (`MaxRetries`). In `ReactLoop` it is
`WF(OwnSteps)`, weak fairness of what the loop does by itself: statements, checks and
the closing, the branch of the `select!` that the fired token opens, and the end of
a sub-agent, whose one call to the model is not streamed and carries the provider's
`timeout_ms` (`openai.rs:297`). It supposes that the request is not dropped. The
answer of the streamed model (whose client has no total timeout on purpose,
`coevo-models/src/http.rs:35`) and the return of a tool, a batch or an executor
(`http-get` has no timeout either) are not assumed, so
`OnlySilentPeersHoldTheLoop` names the waits for them as the two ways not to end.
Errors, cancels and the clock are under no fairness. In `SessionLane`:
`WF(Lapse)`, time passes.
`WF(Check(r))`: a client that was told SessionBusy asks again; this is an
assumption on clients. `WF(Claim(r))`: the runtime resumes a task that can
proceed. No run is obliged to release: a holder may crash, and
`LaneIsNeverStuck` must hold nevertheless. `WorkOrderExecution` has no
fairness: a request may be dropped at every await, so nothing must happen; nor
have `TrackRuns`, `Blackboard` and `PromptVersions`, where a call that takes no
further step is how a crash is modelled.

## 4. Proofs

TLAPS proves, for all sets of rows, runs and requests, all timeouts and both
kinds of track:

* `ReceiptsAndLaneProofs`, about the two tables every request of a work order
  shares. Of the approval rows `TypeCorrect`, `DecisionsStay` and
  `MissedDeadlinesStand`. The last needs `MissedInv`: a call of consume_approved
  reads the clock only when the row has been approved, so for a row that was still
  pending at its deadline none has read it in time, and time does not run back; a
  late approve changes nothing about that. Of the lane
  `LaneTypeCorrect`, and `ReleasedMeansUndisturbed` from `LaneInv`. The invariant
  says that the run the lane names, if it is inside, has not been disturbed
  (`OwnerUndisturbed`), and that only runs that entered were ever disturbed. A
  release succeeds only for the run the lane names, which gives the property.
  `LaneImplementsSerialRuns`: a claim maps to Start, a release by the owner to
  Finish, a clear by anybody else to Drop, the rest to stuttering.
* `WorkOrderExecutionProofs`, along the composition:
  * `ExecutionTypeCorrect`: `TypeInv` adds to the types what a request carries
    at each step (`CarriesItsInputs`: from "digest" on it has a proof, while
    recording it has an outcome, ...) and that a cancel that acts has a target.
  * `ExecutionUsesReceipts`, `ExecutionUsesLane`: every step of the composition
    is a step or a stutter of `ApprovalReceipts` and of `SessionLane`. `LP` is the
    instance of `ReceiptsAndLaneProofs` for this work order, whose requests are its
    approvals and its runs; `SameRows` and `SameLane` say that both speak of the
    same steps. Through it the components' lemmas give `ExecutionKeepsDecisions`,
    `MissedDeadlineStartsNothing` and `ExecutionSerialisesRuns`: with the handlers,
    their errors, dropped requests and cancels around them a decision stays, the
    runs of a session still refine `SerialRuns`, and, with
    `EveryGatedRunHoldsReceipt`, no run of a gated work order exists on a request
    that its deadline found undecided.
  * `EveryGatedRunHoldsReceipt`, `OneRunPerReceipt` from `RunsExist` (a run
    exists only from step "acquire" on) and `ReceiptInv`: a request past
    "consume" holds a consumed row, and no two of them the same row. The
    step that matters is Consume: it needs the row approved, the others' rows
    are consumed, so the new holder's row differs from all of them.
  * `CompletionNeedsSoloRun` uses the lane's invariant through the instance
    and `ReportersReleased`: a request that reports has released its lane.
  * `EarlyCancelStops` from `DoomedNeverLoop`: a doomed run is still marked
    Cancelled when its loop looks for the first time, since nobody else writes
    that run's row before.
  * `OutcomeSticks`: from the guard of `update_status` alone, over all steps.
  * `PausedGatedRunsNeverResume` states what the finding `bare_receipt` comes to
    (section 5). `BareReceipts`: the cursor the handlers read is never set, so no
    receipt of a gated work order carries a digest; the cursor the harness reads is
    never cleared; and every run of a gated work order holds a receipt
    (`ReceiptInv`). Hence `load_resume_cursor` lets a run through only as long as
    none has paused.

* `ReactLoopProofs`, for any tools, any policy over them and any number of
  rounds:
  * `LoopTypeCorrect` needs `CountersFit`: at most two denials as long as the
    loop goes on, and fewer actions begun than rounds.
  * `CancelIsPrompt` from `BegunOnlyOnce`: after the one action that began
    behind the mark the loop is at its head, in it or past it, and every path
    to another action leads through a look at the run's row, which stays
    marked. The mark on the session may be undone and is not used.
  * `OnlyAllowedCallsRun` from `ActionsWereAllowed` and the lemma
    `GateAllowsAll` (a batch is allowed only if each of its calls is);
    `PausesNameTheirAction` from `PausesOnApproval`.
  * `OnlyFinishCompletes` from `FlagsComeLast`: no flag before the loop is left,
    no status before it is closed, and a status for each way of leaving.
  * `LoopRefinesOutcomes`: leaving the loop by a pause is the abstract pause,
    `Close` and errors the abstract ends, everything else stutters.
  * `RoundsRunOut`: `Fuel`, seven for each round left and what the present one
    still takes, is at most `7 * MaxRounds + 8`; every step of the loop lowers it and
    no cancel, other request or tick raises it.

* `RunEventsProofs`, for logs, batches and numbers of attempts of any size:
  `StreamInv` says that the cursors line up: the wire holds consecutive events
  from the client's last one to the server's cursor, the batch continues from
  there, and all of them are logged; a client that is not reading has nothing
  left behind. The header of the next connection then starts it exactly where
  the client is. `StreamImplementsFollower` follows: `Deliver` is the abstract
  Follow because the head of the wire is number `Len(got)`. `StreamTypeCorrect`
  is part of the invariant. `StreamRunsDown`: once the run is over every step lowers
  six counters in lexicographic order (starts the user has left, connections the
  client has left, a request under way, events not yet delivered, events not yet
  fetched, a poll due); a lost connection takes from the second whatever it gives
  back to the others.

* `TrackRunsProofs`. Of the gate, for every input: `RiskierIsNotAllowed` (raising a
  factor never turns a decision into ALLOW), `RedRunsAreRefused`,
  `YellowRunsNeedNoHuman`, `WorkerGateNeverAsks`. Of the system, for any runs,
  intents, leases and holders:
  * `LeaseBudget` is inductive with the types (`LeaseInv`): what is performed and
    what is pending for a lease is at most what its row counts as used, and the
    guard of the UPDATE bounds that; what holders have read is not needed.
  * `LateUses`: only a holder that checked before the deadline can still be
    served, and it is served once. `LeasesEnd`: the guard asks for an active row,
    and no statement makes a row active again.
  * `TracesBacked` from `TrackInv`, stated for each run: its contract is in the state
    the run has brought it to (`Holding`), what it has written is backed (`Trace`),
    and no two runs own one contract (`Apart`), since the hash is UNIQUE. That is
    also why `ContractsForward` holds although `update_state` never reads.
* `BlackboardProofs`: `DependentsFollow` is the long one. The invariant says of
  each owed edge that its source is invalid, or that some propagation has found the
  source or has the target in its queue (`Owed`). A propagation must not skip what it
  has visited while that is still valid: only its first entry may be, and entries can
  be ranked by age, an edge leading from a younger to an older one (`Aged`), so no walk
  comes back to where it began (`Rooted`). `RevocationsSettle` is `Settled`: a settled
  entry is in nobody's hands. `VersionsGrow` is `Numbered`.
* `McpServersProofs`: `McpTypes`; `McpCallsRunOnce` from `RunsInv`, which follows a
  caller through both requests of an exchange: a tool has run only if the answer
  under way or received says so, and only a 404, which is no run, leads to the
  second request (`Tracked`). `McpDisconnectBinds` from `BindInv`:
  a caller connects once, from a config it was given (`Owned`), so its address tells
  whether it had begun when the mark was set; the one way for a worker to begin,
  `EnsureConnected`, finds the id unmarked, and no other step brings a worker nearer
  to the registry that was not on its way (`HandlerKeepsConnecting`).
  `McpExchangesAreShort`: a caller has at most fifteen steps left
  in its exchange and each takes one off, since a second 404 is not answered by a
  third request (`InOrder` says which answers and phases go together).
* `PromptVersionsProofs`, for any number of requests, texts and version numbers:
  * `PromptTypes`: `TypeInv` adds to the types that a request of each kind keeps to
    its handler's statements (`Path`) and has a version once it is past the choice
    of one. `MaxOfNumbers` (a set of numbers has a greatest) is proved by
    well-founded descent, as `Max` is a CHOOSE.
  * `CurrentStaysBacked` from `Backed`: a request past its row has it and past its
    file has that. What any other request writes to `current.txt` is therefore
    backed, rows and files never go away, and the one request that writes the
    number before the row is the one that stands there.
  * `VersionStaysPublished`: only Unpublish takes the last published version away,
    and the request that does it is then the witness until it publishes its own.
  * `QuietPublicationStands` from `QuietInv`, which says store by store what a
    request that has met no other has brought about so far. A step of any other
    request makes it no longer quiet, so only its own steps matter.

Assumptions: `TimeoutAssumption`, `LaneAssumption`, `ExecutionAssumption`,
`LoopAssumption`, `StreamAssumption`, `LeaseAssumption`, `TrackAssumption`,
`BlackboardAssumption`, `SessionAssumption`, `NoSessionAssumption`,
`ServersAssumption`, `PromptAssumption`.
They say that bounds are naturals, that a lock lasts at least one tick, that
"none" is not an identifier and that an absent file is not a text. TLC evaluates them in every run.

Only model-checked: `LaneIsNeverStuck`, `OnlySilentPeersHoldTheLoop`, `ViewSettles` and
`CallsReturn`,
since liveness under fairness (and the ENABLED in it) is beyond the prover. Of the
last three the part that is not about fairness is proved: `RoundsRunOut`,
`StreamRunsDown` and `McpExchangesAreShort` give a measure that every step of theirs lowers, so a
behaviour that does not end can only be one that stops taking steps, which the
fairness of section 3 excludes and TLC confirms. `LaneIsNeverStuck` has no such
measure: it speaks of clients that ask again. Every other property of a passing run is
also a theorem.

## 5. Where the code and its tests or documents disagree

Shown by a run that TLC finds violated:

* `bare_receipt`. The handler rejects a receipt without the digest a paused run
  waits for, but looks for that digest in the *company's* database while the
  harness stores it in the *server's*. For a company's work order the check
  never applies; the receipt is spent and the run then fails in
  `load_resume_cursor`. `PausedGatedRunsNeverResume` shows that this is no matter of
  timing: after its first pause no later run of a company's gated work order gets into its loop,
  whatever is approved and presented. The test of the check covers the pool in which both
  are the same.
* `late_cancel`. "late cancel should be ignored" holds for a cancel that starts
  after the lane is gone. A cancel that read the lane before the run completed
  rewrites the completed run to Cancelled afterwards.

Seen while modelling, kept in the model as the code has them:

* A finish refused for missing file evidence is counted as a denial, and the code
  has the ending "Governance blocked after {consecutive_denials} consecutive denied
  proposals" for the third in a row (`agent_harness.rs:1048`), but the arm it sits in
  has just reset the count (line 897). The ending is dead code; such a run goes on
  until its rounds are over and ends TimedOut. A refused finish also restarts the
  count of denials before it.
* The event stream ends at the first Done, and every model answer logs one before its
  action is started. The view, which is said to show "tool call cards"
  (`WorkerStreamView.tsx:8`), is given tool calls and later rounds only if the
  connection is lost at that moment. It has then dropped its handle on the stream,
  and nothing aborts it any more.
* `ToolEnd` events carry `tool_id` while `useWorkerStream` looks for `tool_name`.
* The red runner passes constants to the gate that never give ALLOW_WITH_LEASE
  (`RedRunsAreRefused`), while Test 10 (`tests/e2e/acceptance.rs:467`) says that a red
  run with its proofs "MUST generate lease"; the test accepts the error.
* A yellow run writes its entry even when the gate denied it. A red run that waits for
  a human leaves a contract whose hash no later run of the intent can insert again.
* A 404 clears an MCP connection's session until `initialize` has answered; a call
  that another caller posts in between carries no session and is refused, although
  `client.rs:296` calls the re-initialization transparent.
* Updating or disabling an MCP server's row tells the registry nothing
  (`handlers/mcp.rs:223`): workers keep calling the old address. A connect that
  overlaps the update writes the tools of the old address over it. Testing a
  registered server replaces its live connection and leaves it disabled.
* `disconnect` of a server that is not connected leaves no mark, and the next tool call
  connects it. One that overlaps a worker past the check of the mark is undone by it:
  the worker clears the mark and registers its connection, although `ensure_connected`
  is to connect "unless that id was explicitly disconnected and not subsequently
  reconnected" (`mcp_client/mod.rs:183`). `DisconnectBindsLaterWorkers` says what is
  left of the promise.
* `max_runtime_ms` ends a run between two rounds only (`agent_harness.rs:388`): a model
  that stops in the middle of its stream, or a tool that does not return, holds the
  run past it. A cancel ends the first of these waits through the token, and neither
  ends the second.
* An approval that read the clock in time may be stored after the deadline, even of a
  row that `expire_pending` has already selected; the row then is approved and can
  never be spent (`MissedRequestsAreNeverSpent`).
* The proposal endpoint of the customs always fails at its INSERT: it passes a
  contract hash that no contract has.
* A propagation that is cut short is not repaired by a second one, which does not pass
  what is invalid already.
* An employee's prompt is numbered after `current.txt` by an update and after the rows
  by a draft or a record: a draft followed by an update, or an update after a
  rollback, replaces the text of an existing version.
* Two publications of a prompt that overlap may both stay published, and prompt.md may
  hold the text of one and current.txt the number of the other;
  `QuietPublishStands` says what is left: the next one alone puts it right. A row
  whose file was never written is published as an empty prompt.
* `approve_proposal` does not look at the proposal's status: a rejected or applied one
  can be applied again.

* `cancel_worker` inserts its event with six values into a table of seven
  columns (`tools.rs:676`); the statement fails, the error is dropped.
* `cancel_worker`'s fallback orders by `created_at_ms`, which `worker_runs` does
  not have (`tools.rs:648`); it never finds a run. A paused run is therefore
  not cancelled, only its session is.
* After a cancel evicts the lane, the cancelled run's `release` reports
  SessionBusy and the work order becomes Failed rather than Cancelled.
* A run that is told SessionBusy by `acquire`, or fails between `acquire` and
  the loop, stays "Running" for ever.
* A second request on a work order whose first is still running is told
  SessionBusy, and sets the work order to Failed while the first one runs; the
  first one's outcome is then refused.
* `run_worker` neither looks at a Blocked work order nor updates its status.
* A side effect of an executor that is denied, and a sub-agent's skill that is
  refused, end the round without counting as a denial.
* Whether a tool is offered to the model (`filter_with_file_policy`) is asked
  for the calls of a batch only; a single call or proposal of a registered tool
  that is not offered passes if the policy allows it.
* A receipt is compared with the pending digest when the run resumes; from then
  on it satisfies the policy's approval for every tool. The RiskGate's demand
  for a human is not satisfied by it: the action pauses again.
* `termination_reason` of a run that is blocked or paused after a tool still
  says `tool_executed`.
* A poll of the stream that fails ends the body as a terminal event does. The
  client takes it for the end, the view ignores the id-less Error event and stays
  on "connecting" or "streaming", where no Retry is offered. `ViewSettles`
  excepts this case by name (`pollFailed`).
* A view that is completed can turn to "error": a connection lost between the
  terminal event and the end of the body is opened again, and its attempts count.
* A connection that opens does not give the client its attempts back; a long run
  whose stream drops a sixth time ends in "error". This is what makes
  `ViewSettles` hold.

## 6. Not modelled

Prompts, models, tool and executor outputs (data), memory and reflection
contents, scores in floating point, HTTP plumbing, the desktop client apart from
its event stream, the stdio transport and the SSE reader of the MCP client, the
A2A router. SQLite itself is taken as documented: statements are atomic and
transactions isolated. Restart: the server keeps in memory only the token
registry, the MCP registry and the handlers' stacks. A stop of the process looks to
the tables like all its requests vanishing: `Vanish` in `WorkOrderExecution`,
`Restart` in `McpServers`, calls that take no further step elsewhere.

* *Resolution* (`coevo-resolution`) is one sequential loop over model answers with
  its state in memory; its stopper is a few comparisons of floating-point scores.
* *Conversations, organization, evaluations, timeline*: handlers that read several
  rows and write one record; no state of theirs is read back by another handler
  to decide something.
* *Skills and self-upgrade*: rows written once by id from text a model produced. Their
  effect on a prompt is in `PromptVersions`.
* *Executors, sandbox, model gateways*: I/O. What they may answer is a
  nondeterministic choice in `ReactLoop`.
* *Scores, policies, routing*: single calculations that unit tests reach. The
  one that decides about actions is `RiskGate`.
