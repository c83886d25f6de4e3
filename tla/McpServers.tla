----------------------------- MODULE McpServers -----------------------------
(***************************************************************************)
(* One registered MCP server of a company: its row, the HTTP handlers      *)
(* (apps/server/src/handlers/mcp.rs), the process-wide connection registry *)
(* (McpClientManager) and the calls of running workers                     *)
(* (coevo-worker/src/tools/mcp_tool.rs).  McpSession gives the exchanges   *)
(* over a connection.                                                      *)
(*                                                                         *)
(* The registry is two maps under two locks: the connections and the ids   *)
(* an operator disconnected.  No operation holds both, and every connect   *)
(* waits for the network between its checks and its writes.                *)
(*                                                                         *)
(* Every transport is HTTP: the handlers, the start-up and the harness     *)
(* skip stdio rows, so a registered connection is always alive, a shutdown *)
(* does nothing and reconnect is never taken.                              *)
(***************************************************************************)
EXTENDS McpSession

CONSTANTS
  Boot,       \* the start-up of the process; the other callers are requests and runs
  Config,     \* what a row says of the server: its address and headers
  Ops,        \* operations a caller performs, a subset of AllOps
  MaxEvents   \* bound: creates, updates and restarts of the process, with forgotten sessions

AllOps == {"connect", "disconnect", "delete", "test", "tools", "worker"}

ASSUME ServersAssumption ==
  /\ Ops \subseteq AllOps
  /\ None \notin Config \cup Caller
  /\ Boot \in Caller
  /\ Conn = Caller \* a connection is named by the caller that builds it
  /\ MaxEvents \in Nat /\ MaxExpiries = MaxEvents

VARIABLES
  row,      \* the mcp_servers row, None when there is none
  client,   \* McpClientManager.clients: the registered connection or None
  disabled, \* whether McpClientManager.disabled holds the id
  asked,    \* history: callers that had begun to connect when it last entered
  address,  \* the config each connection was built from
  req,      \* the operation of each caller
  serving,  \* the process has finished its start-up
  edits,    \* creates and updates so far
  restarts  \* restarts so far

manager == <<client, disabled, asked>>
bounds == <<edits, restarts>>
vars == <<session, row, manager, address, req, serving, bounds>>

Statuses == {"unknown", "connected", "error", "disabled"}
Rows == [config : Config, enabled : BOOLEAN, status : Statuses, tools : Config \cup {None}]
Points == {"idle", "loaded", "probe", "gate", "build", "undisable", "install", "live", "use",
           "remove", "disable", "status", "cache", "erase", "done"}

Operations ==
  [op : AllOps \cup {"none", "sync"}, at : Points, config : Config \cup {None},
   next : Statuses, tools : Config \cup {None}]

NewRow(c, e) == [config |-> c, enabled |-> e, status |-> "unknown", tools |-> None]
NoOp == [op |-> "none", at |-> "idle", config |-> None, next |-> "unknown", tools |-> None]

TypeOK ==
  /\ SessionTypeOK
  /\ row \in Rows \cup {None}
  /\ client \in Conn \cup {None}
  /\ disabled \in BOOLEAN
  /\ asked \subseteq Caller
  /\ address \in [Conn -> Config \cup {None}]
  /\ req \in [Caller -> Operations]
  /\ serving \in BOOLEAN
  /\ edits + restarts + expiries <= MaxEvents
  /\ edits \in Nat /\ restarts \in Nat

(* A process about to start over the database an earlier one left. *)
Init ==
  /\ SessionInit
  /\ \/ row = None
     \/ \E c \in Config, t \in Config \cup {None} : row = [NewRow(c, TRUE) EXCEPT !.tools = t]
  /\ client = None /\ disabled = FALSE /\ asked = {}
  /\ address = [c \in Conn |-> None]
  /\ req = [k \in Caller |-> NoOp]
  /\ serving = FALSE
  /\ edits = 0 /\ restarts = 0

Requests == Caller \ {Boot}

MayHappen == edits + restarts + expiries < MaxEvents

At(k, point) == req[k].at = point
Goto(k, point) == req' = [req EXCEPT ![k].at = point]
Set(op, point, c) == [NoOp EXCEPT !.op = op, !.at = point, !.config = c]

-----------------------------------------------------------------------------
(* Registration: create and update are single statements.  An update      *)
(* writes the whole row, its status and its cached tools included, and     *)
(* does not tell the registry.                                             *)
Create(c, e) ==
  /\ serving /\ row = None /\ MayHappen
  /\ row' = NewRow(c, e) /\ edits' = edits + 1
  /\ UNCHANGED <<session, manager, address, req, serving, restarts>>

Update(c, e) ==
  /\ serving /\ row # None /\ MayHappen
  /\ row' = NewRow(c, e) /\ edits' = edits + 1
  /\ UNCHANGED <<session, manager, address, req, serving, restarts>>

-----------------------------------------------------------------------------
(* How operations begin. *)
Build(k, op, c) ==
  /\ req' = [req EXCEPT ![k] = Set(op, "build", c)]
  /\ address' = [address EXCEPT ![k] = c]
  /\ Begin(k, k, "connect")

(* connect and tools build from the row, test from its own body. *)
Operate(k, op) ==
  /\ serving /\ At(k, "idle") /\ op \in Ops
  /\ \/ op \in {"connect", "tools"} /\ row # None /\ Build(k, op, row.config)
     \/ op = "test" /\ \E c \in Config : Build(k, op, c)
  /\ UNCHANGED <<row, manager, serving, bounds>>

(* disconnect keeps what the row said when it was read. *)
Disconnect(k) ==
  /\ serving /\ At(k, "idle") /\ "disconnect" \in Ops /\ row # None
  /\ req' = [req EXCEPT ![k] = [Set("disconnect", "probe", None)
               EXCEPT !.next = IF row.enabled THEN "unknown" ELSE "disabled"]]
  /\ UNCHANGED <<session, row, manager, address, serving, bounds>>

Delete(k) ==
  /\ serving /\ At(k, "idle") /\ "delete" \in Ops
  /\ req' = [req EXCEPT ![k] = Set("delete", "probe", None)]
  /\ UNCHANGED <<session, row, manager, address, serving, bounds>>

(* A run starts: it keeps the config of an enabled row whose tools are     *)
(* cached, and calls one of those tools some time later.                   *)
LoadTools(k) ==
  /\ serving /\ At(k, "idle") /\ "worker" \in Ops
  /\ row # None /\ row.enabled /\ row.tools # None
  /\ req' = [req EXCEPT ![k] = Set("worker", "loaded", row.config)]
  /\ UNCHANGED <<session, row, manager, address, serving, bounds>>

CallTool(k) ==
  /\ At(k, "loaded")
  /\ Goto(k, "probe")
  /\ UNCHANGED <<session, row, manager, address, serving, bounds>>

(* Start-up connects the enabled row before the process serves. *)
SyncEnabled ==
  /\ ~serving /\ At(Boot, "idle")
  /\ IF row # None /\ row.enabled
     THEN Build(Boot, "sync", row.config) /\ UNCHANGED serving
     ELSE serving' = TRUE /\ UNCHANGED <<session, req, address>>
  /\ UNCHANGED <<row, manager, bounds>>

-----------------------------------------------------------------------------
(* McpClientManager. *)

(* is_connected: a worker that finds no connection looks at disabled next, *)
(* a disconnect goes straight on to the row.                               *)
IsConnected(k) ==
  /\ At(k, "probe")
  /\ Goto(k, IF client # None
             THEN IF req[k].op = "worker" THEN "live" ELSE "remove"
             ELSE CASE req[k].op = "worker" -> "gate"
                    [] req[k].op = "delete" -> "erase"
                    [] OTHER -> "status")
  /\ UNCHANGED <<session, row, manager, address, serving, bounds>>

(* Mutant: a worker connects whatever an operator disconnected. *)
EnsureConnectedAlways(k) ==
  /\ At(k, "gate")
  /\ Build(k, "worker", req[k].config)
  /\ UNCHANGED <<row, manager, serving, bounds>>

(* ensure_connected refuses an id that was disconnected. *)
EnsureConnected(k) ==
  /\ At(k, "gate")
  /\ IF disabled
     THEN Goto(k, "done") /\ UNCHANGED <<session, address>>
     ELSE Build(k, "worker", req[k].config)
  /\ UNCHANGED <<row, manager, serving, bounds>>

(* build_client returned: a failure goes to the row for connect, and to    *)
(* the caller for the others; a failed start-up connection is logged.      *)
Built(k) ==
  /\ At(k, "build") /\ rpc[k].step = "done"
  /\ IF rpc[k].outcome = "ok"
     THEN Goto(k, "undisable") /\ UNCHANGED serving
     ELSE IF req[k].op = "connect"
     THEN /\ req' = [req EXCEPT ![k].at = "status", ![k].next = "error"]
          /\ UNCHANGED serving
     ELSE Goto(k, "done") /\ serving' = (serving \/ req[k].op = "sync")
  /\ UNCHANGED <<session, row, manager, address, bounds>>

Undisable(k) ==
  /\ At(k, "undisable")
  /\ disabled' = FALSE
  /\ Goto(k, "install")
  /\ UNCHANGED <<session, row, client, asked, address, serving, bounds>>

AfterInstall(op) ==
  CASE op = "sync" -> "done" [] op = "test" -> "remove" [] OTHER -> "live"

Install(k) ==
  /\ At(k, "install")
  /\ client' = k
  /\ Goto(k, AfterInstall(req[k].op))
  /\ serving' = (serving \/ req[k].op = "sync")
  /\ UNCHANGED <<session, row, disabled, asked, address, bounds>>

(* live_client: the exchange keeps the connection it finds here, whatever  *)
(* happens to the registry.  connect goes on without tools when it finds   *)
(* none.                                                                   *)
LiveClient(k) ==
  /\ At(k, "live")
  /\ IF client # None
     THEN /\ Goto(k, "use")
          /\ Begin(k, client, IF req[k].op = "worker" THEN "call" ELSE "list")
     ELSE /\ IF req[k].op = "connect"
             THEN req' = [req EXCEPT ![k].at = "status", ![k].next = "connected"]
             ELSE Goto(k, "done")
          /\ UNCHANGED session
  /\ UNCHANGED <<row, manager, address, serving, bounds>>

(* Mutant: the connection is cached in place of its tools. *)
UsedCachesConnection(k) ==
  /\ At(k, "use") /\ rpc[k].step = "done"
  /\ req' = IF req[k].op = "connect"
            THEN [req EXCEPT ![k].at = "status", ![k].next = "connected", ![k].tools = rpc[k].conn]
            ELSE [req EXCEPT ![k].at = "done"]
  /\ UNCHANGED <<session, row, manager, address, serving, bounds>>

(* The call or the listing ended. *)
Used(k) ==
  /\ At(k, "use") /\ rpc[k].step = "done"
  /\ req' = IF req[k].op = "connect"
            THEN [req EXCEPT ![k].at = "status", ![k].next = "connected",
                   ![k].tools = IF rpc[k].outcome = "ok" THEN address[rpc[k].conn] ELSE None]
            ELSE [req EXCEPT ![k].at = "done"]
  /\ UNCHANGED <<session, row, manager, address, serving, bounds>>

(* disconnect: the connection leaves one map, then the id enters the       *)
(* other.  Without a connection it is an error, which delete and test      *)
(* ignore and the disconnect handler returns.                              *)
Remove(k) ==
  /\ At(k, "remove")
  /\ client' = None
  /\ Goto(k, IF client # None THEN "disable" ELSE IF req[k].op = "delete" THEN "erase" ELSE "done")
  /\ UNCHANGED <<session, row, disabled, asked, address, serving, bounds>>

Disable(k) ==
  /\ At(k, "disable")
  /\ disabled' = TRUE
  /\ asked' = {c \in Caller : address[c] # None}
  /\ Goto(k, CASE req[k].op = "delete" -> "erase" [] req[k].op = "test" -> "done" [] OTHER -> "status")
  /\ UNCHANGED <<session, row, client, address, serving, bounds>>

-----------------------------------------------------------------------------
(* The row is written last; a row that is gone is left so. *)
SetStatus(k) ==
  /\ At(k, "status")
  /\ row' = IF row = None THEN None ELSE [row EXCEPT !.status = req[k].next]
  /\ Goto(k, IF req[k].op = "connect" /\ req[k].next = "connected" THEN "cache" ELSE "done")
  /\ UNCHANGED <<session, manager, address, serving, bounds>>

SetTools(k) ==
  /\ At(k, "cache")
  /\ row' = IF row = None THEN None ELSE [row EXCEPT !.tools = req[k].tools]
  /\ Goto(k, "done")
  /\ UNCHANGED <<session, manager, address, serving, bounds>>

DeleteRow(k) ==
  /\ At(k, "erase")
  /\ row' = None
  /\ Goto(k, "done")
  /\ UNCHANGED <<session, manager, address, serving, bounds>>

-----------------------------------------------------------------------------
(* The process stops: requests, runs and the registry are gone, the row    *)
(* and the server's sessions stay.                                         *)
Restart ==
  /\ MayHappen /\ restarts' = restarts + 1
  /\ client' = None /\ disabled' = FALSE /\ asked' = {} /\ serving' = FALSE
  /\ req' = [k \in Caller |-> IF k = Boot THEN NoOp
                              ELSE IF At(k, "idle") THEN req[k] ELSE [NoOp EXCEPT !.at = "done"]]
  /\ rpc' = [k \in Caller |-> IF rpc[k].step = "done" THEN rpc[k] ELSE Idle]
  /\ held' = [c \in Conn |-> None]
  /\ UNCHANGED <<valid, ran, expiries, row, address, edits>>

Handler(k) ==
  \/ CallTool(k) \/ IsConnected(k) \/ EnsureConnected(k) \/ Built(k) \/ Undisable(k) \/ Install(k)
  \/ LiveClient(k) \/ Used(k) \/ Remove(k) \/ Disable(k)
  \/ SetStatus(k) \/ SetTools(k) \/ DeleteRow(k)

Operator(k) == Disconnect(k) \/ Delete(k) \/ \E op \in Ops : Operate(k, op)

Network ==
  /\ \/ \E k \in Caller : Exchange(k)
     \/ MayHappen /\ \E s \in valid : Expire(s)
  /\ UNCHANGED <<row, manager, address, req, serving, bounds>>

Next ==
  \/ \E c \in Config, e \in BOOLEAN : Create(c, e) \/ Update(c, e)
  \/ \E k \in Requests : Operator(k) \/ LoadTools(k)
  \/ SyncEnabled
  \/ \E k \in Caller : Handler(k)
  \/ Network
  \/ Restart

(* A caller goes on when its exchange has ended, and the timer of a tool   *)
(* call runs out.  Nothing is assumed of the MCP server, of operators or   *)
(* of the moment a worker calls a tool.                                    *)
Fairness ==
  \A k \in Caller :
    /\ WF_vars(Used(k))
    /\ WF_vars(TimeOut(k) /\ UNCHANGED <<row, manager, address, req, serving, bounds>>)

Spec == Init /\ [][Next]_vars /\ Fairness

-----------------------------------------------------------------------------
(* A caller whose connection is registered or on its way there. *)
Connects(k) == client = k \/ req[k].at \in {"build", "undisable", "install"}

(* A disconnect is overtaken only by those already on their way: while the id  *)
(* is marked as disconnected, a worker that is connecting, or whose connection *)
(* is registered, had passed ensure_connected's check before the mark was set  *)
(* (perhaps between the two writes of disconnect).  Such a worker goes on and  *)
(* lifts the mark; all later ones are refused until it, or an operator, has.   *)
DisconnectBindsLaterWorkers ==
  disabled => \A k \in Caller : req[k].op = "worker" /\ Connects(k) => k \in asked

(* A tool call that found a connection comes back: with its result, an     *)
(* error or the timeout.                                                   *)
CallsReturn ==
  \A k \in Caller : (At(k, "use") /\ req[k].op = "worker") ~> At(k, "done")
=============================================================================
