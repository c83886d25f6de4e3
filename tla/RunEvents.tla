------------------------------ MODULE RunEvents ------------------------------
(***************************************************************************)
(* The event log of one run and the view that follows it: the append       *)
(* (crates/coevo-store/src/repos/worker_run_repo.rs), the server-sent      *)
(* stream (apps/server/src/handlers/workers.rs), the client that           *)
(* reconnects (apps/desktop/src/api/client.ts) and the hook that drives    *)
(* the view (apps/desktop/src/hooks/useWorkerStream.ts).                   *)
(*                                                                         *)
(* Only the client remembers what it has seen.  The server keeps a cursor  *)
(* per connection, starts it from the Last-Event-ID header, advances it    *)
(* as it sends, and forgets it with the connection, so what was sent but   *)
(* not delivered must be found again from the header alone.                *)
(***************************************************************************)
EXTENDS Integers, Sequences

CONSTANTS
  Limit,       \* rows of one poll (LIMIT 25)
  MaxAttempts, \* reconnects of one start (maxAttempts, 5)
  MaxLog,      \* bound: events the run logs
  MaxRetries   \* bound: times the user presses Retry

ASSUME StreamAssumption ==
  /\ Limit \in Nat \ {0}
  /\ MaxAttempts \in Nat
  /\ MaxLog \in Nat
  /\ MaxRetries \in Nat

VARIABLES
  log,        \* worker_events of the run; the event at i has event_seq i - 1
  stage,      \* where the run stands: its model is answering, it acts, it is over
  conn,       \* the response body: "none", "open", or "ended" by the server
  lastSeq,    \* last_seq of the open connection
  batch,      \* rows fetched and not yet yielded (sequence numbers)
  wire,       \* events yielded and not yet read by the client
  pollFailed, \* history: a poll of this start ended the body with an Error event
  client,     \* the loop of streamWorkerRunEvents
  attempt,    \* its attempt counter
  lastId,     \* its lastEventId, NoId when it has none
  got,        \* events given to the view since it started
  ui,         \* StreamState of the view
  retries     \* Retry presses so far

run == <<log, stage>>
server == <<conn, lastSeq, batch, wire, pollFailed>>
loop == <<client, attempt, lastId>>
view == <<got, ui, retries>>
vars == <<run, server, loop, view>>

Kinds == {"Delta", "ToolStart", "Done", "LifecycleEnd"}
NoId == -1
Ids == -1..(MaxLog - 1)

TypeOK ==
  /\ log \in Seq(Kinds) /\ Len(log) <= MaxLog
  /\ stage \in {"answering", "acting", "over"}
  /\ conn \in {"none", "open", "ended"}
  /\ lastSeq \in Ids
  /\ batch \in Seq(Ids) /\ Len(batch) <= Limit
  /\ wire \in Seq(Ids)
  /\ pollFailed \in BOOLEAN
  /\ client \in {"idle", "connecting", "reading", "finished", "gaveUp"}
  /\ attempt \in 0..MaxAttempts
  /\ lastId \in Ids
  /\ got \in Seq(Ids)
  /\ ui \in {"idle", "connecting", "streaming", "completed", "error"}
  /\ retries \in 0..MaxRetries

Init ==
  /\ log = <<>> /\ stage = "answering"
  /\ conn = "none" /\ lastSeq = NoId /\ batch = <<>> /\ wire = <<>>
  /\ pollFailed = FALSE
  /\ client = "idle" /\ attempt = 0 /\ lastId = NoId
  /\ got = <<>> /\ ui = "idle" /\ retries = 0

-----------------------------------------------------------------------------
(* The run.  A Delta stands for the events of an answer.  append takes MAX(event_seq) + 1 under BEGIN IMMEDIATE, so the
   numbers are contiguous; Done comes with the last of the model's answer,
   before anything that answer asks for is started. *)
LogEvent(kind) ==
  /\ Len(log) < MaxLog
  /\ log' = Append(log, kind)
  /\ UNCHANGED <<server, loop, view>>

Answer ==
  /\ stage # "over"
  /\ stage' = "answering"
  /\ LogEvent("Delta")

AnswerDone ==
  /\ stage # "over"
  /\ stage' = "acting"
  /\ LogEvent("Done")

(* The whole answer once more, an AssistantDelta. *)
RecordAnswer ==
  /\ stage = "acting"
  /\ stage' = "acting"
  /\ LogEvent("Delta")

StartTool ==
  /\ stage = "acting"
  /\ stage' = "acting"
  /\ LogEvent("ToolStart")

EndRun ==
  /\ stage # "over"
  /\ stage' = "over"
  /\ LogEvent("LifecycleEnd")

-----------------------------------------------------------------------------
(* The server's stream. *)
IsTerminal(seq) == log[seq + 1] \in {"Done", "LifecycleEnd"}

AtMost(n, m) == IF n <= m THEN n ELSE m

(* event_seq > last_seq ORDER BY event_seq LIMIT: the rows after seq. *)
RowsAfter(seq) ==
  [i \in 1..AtMost(Limit, Len(log) - (seq + 1)) |-> seq + i]

(* A poll that finds no row leaves everything as it was. *)
Poll ==
  /\ conn = "open" /\ batch = <<>>
  /\ lastSeq + 1 < Len(log)
  /\ batch' = RowsAfter(lastSeq)
  /\ UNCHANGED <<run, conn, lastSeq, wire, pollFailed, loop, view>>

(* The query fails: an Error event without an id, which the view ignores,
   and the body is closed as it is after a terminal event. *)
PollFails ==
  /\ conn = "open" /\ batch = <<>>
  /\ conn' = "ended"
  /\ pollFailed' = TRUE
  /\ UNCHANGED <<run, lastSeq, batch, wire, loop, view>>

Yield ==
  /\ batch # <<>>
  /\ lastSeq' = Head(batch)
  /\ wire' = Append(wire, Head(batch))
  /\ IF IsTerminal(Head(batch))
     THEN conn' = "ended" /\ batch' = <<>>
     ELSE batch' = Tail(batch) /\ UNCHANGED conn
  /\ UNCHANGED <<run, pollFailed, loop, view>>

-----------------------------------------------------------------------------
(* The client. *)

(* Mutant: without the header the stream starts after event 0. *)
ResumeFromZero == IF lastId = NoId THEN 0 ELSE lastId

(* Last-Event-ID, which parse_last_event_id takes as -1 when it is absent. *)
ResumeFrom == lastId

(* Mutant: a connection that opens gives the client its attempts back. *)
ReachReset ==
  /\ client' = "reading"
  /\ attempt' = 0

(* The response is ok: the attempts used so far stay used. *)
Reach ==
  /\ client' = "reading"
  /\ UNCHANGED attempt

Connect ==
  /\ client = "connecting"
  /\ Reach
  /\ conn' = "open"
  /\ lastSeq' = ResumeFrom
  /\ UNCHANGED <<run, batch, wire, pollFailed, lastId, view>>

(* Mutant: the last attempt is followed by one more. *)
GivesUpLate == attempt > MaxAttempts

(* attempt >= maxAttempts in the catch block. *)
GivesUp == attempt >= MaxAttempts

(* The catch block: another attempt, or onFallback. *)
Retreat ==
  /\ IF GivesUp
     THEN client' = "gaveUp" /\ ui' = "error" /\ UNCHANGED attempt
     ELSE client' = "connecting" /\ attempt' = attempt + 1 /\ UNCHANGED ui
  /\ UNCHANGED <<lastId, got, retries>>

ConnectFails ==
  /\ client = "connecting"
  /\ Retreat
  /\ UNCHANGED <<run, server>>

(* The connection drops: what is on the wire is lost, and the server's
   generator is dropped with its cursor and its rows. *)
Cut ==
  /\ client = "reading"
  /\ conn' = "none" /\ lastSeq' = NoId /\ batch' = <<>> /\ wire' = <<>>
  /\ Retreat
  /\ UNCHANGED <<run, pollFailed>>

(* What an event does to the view.  Deltas and ToolStart set "streaming";
   kinds that change no state (Usage, ToolEnd, LifecycleStart) are left out. *)
Shown(seq) == IF IsTerminal(seq) THEN "completed" ELSE "streaming"

Deliver ==
  /\ client = "reading" /\ wire # <<>>
  /\ wire' = Tail(wire)
  /\ lastId' = Head(wire)
  /\ got' = Append(got, Head(wire))
  /\ ui' = Shown(Head(wire))
  /\ UNCHANGED <<run, conn, lastSeq, batch, pollFailed, client, attempt, retries>>

(* reader.read says done: the loop returns and tells the view nothing. *)
EndOfBody ==
  /\ client = "reading" /\ conn = "ended" /\ wire = <<>>
  /\ client' = "finished"
  /\ conn' = "none" /\ lastSeq' = NoId
  /\ UNCHANGED <<run, batch, wire, pollFailed, attempt, lastId, view>>

-----------------------------------------------------------------------------
(* The view.  start clears what it shows and opens a loop of its own. *)
Start ==
  /\ ui = "idle"
  /\ ui' = "connecting" /\ got' = <<>>
  /\ client' = "connecting" /\ attempt' = 0 /\ lastId' = NoId
  /\ pollFailed' = FALSE
  /\ UNCHANGED <<run, conn, lastSeq, batch, wire, retries>>

(* Retry is offered in the error state only: stop, and start a moment later. *)
Retry ==
  /\ ui = "error" /\ retries < MaxRetries
  /\ ui' = "idle"
  /\ retries' = retries + 1
  /\ UNCHANGED <<run, server, loop, got>>

Next ==
  \/ Answer \/ AnswerDone \/ RecordAnswer \/ StartTool \/ EndRun
  \/ Poll \/ PollFails \/ Yield
  \/ Connect \/ ConnectFails \/ Cut \/ Deliver \/ EndOfBody
  \/ Start \/ Retry

(* Every request is answered one way or the other, an open stream is polled,
   rows and bytes move on, and the timers of Start fire.  Nothing obliges the
   run to log, the connection to hold, or the user to press Retry. *)
Fairness ==
  /\ WF_vars(Start)
  /\ WF_vars(Connect \/ ConnectFails)
  /\ WF_vars(Poll \/ PollFails)
  /\ WF_vars(Yield)
  /\ WF_vars(Deliver)
  /\ WF_vars(EndOfBody)

Spec == Init /\ [][Next]_vars /\ Fairness

-----------------------------------------------------------------------------
(* The view is given the events of the log in order from the first, with no
   gap and no repeat, across every reconnect: what one connection sent and
   lost, the next one finds again from Last-Event-ID. *)
Follower == INSTANCE EventFollower WITH written <- Len(log), got <- got
ImplementsEventFollower == Follower!Spec

(* Once the run has logged its end, the view comes to rest for good on
   "completed" or "error", whatever becomes of its connections, unless a poll
   failed.  It may not rest on "connecting" or "streaming": Retry is offered
   in neither. *)
ViewSettles ==
  (stage = "over") ~> [](ui \in {"completed", "error"} \/ pollFailed)
=============================================================================
