-------------------------- MODULE McpServersProofs --------------------------
(* Proofs about the registered MCP server: for any number of callers and    *)
(* configurations, any number of forgotten sessions, edits and restarts.    *)
EXTENDS McpServers, TLAPS

(* An exchange under way belongs to a connection. *)
Connected(k) == rpc[k].step # "idle" => rpc[k].conn \in Conn

TypeInv ==
  /\ TypeOK
  /\ \A k \in Caller : Connected(k)

-----------------------------------------------------------------------------
(* The steps of an exchange. *)

(* What an exchange step leaves the type of. *)
Typed ==
  /\ held \in [Conn -> Session \cup {None}]
  /\ valid \subseteq Session
  /\ rpc \in [Caller -> Exchanges]
  /\ ran \in [Caller -> Nat]
  /\ \A k \in Caller : Connected(k)

LEMMA ReplacedTyped ==
  ASSUME Typed, NEW k \in Caller, NEW r \in Exchanges, r.conn \in Conn,
         rpc' = [rpc EXCEPT ![k] = r]
  PROVE  rpc' \in [Caller -> Exchanges] /\ (\A c \in Caller : Connected(c))'
BY DEF Typed, Connected

LEMMA FinishTyped ==
  ASSUME Typed, NEW k \in Caller, rpc[k].step # "idle", NEW o \in Outcomes, Finish(k, o)
  PROVE  rpc' \in [Caller -> Exchanges] /\ (\A c \in Caller : Connected(c))'
<1>1. rpc[k] \in Exchanges /\ rpc[k].conn \in Conn /\ rpc[k].goal \in Goals
  BY DEF Typed, Connected, Exchanges
<1> DEFINE r == [Idle EXCEPT !.step = "done", !.goal = rpc[k].goal,
                             !.conn = rpc[k].conn, !.outcome = o]
<1>2. r \in Exchanges /\ r.conn \in Conn
  BY <1>1 DEF Idle, Exchanges, Goals, Phases, Replies
<1>3. rpc' = [rpc EXCEPT ![k] = r]
  BY DEF Finish
<1> HIDE DEF r
<1> QED
  BY <1>2, <1>3, ReplacedTyped

LEMMA ProceedTyped ==
  ASSUME Typed, NEW k \in Caller, rpc[k].step # "idle", NEW s \in {"look", "post"},
         NEW p \in Phases, Proceed(k, s, p)
  PROVE  rpc' \in [Caller -> Exchanges] /\ (\A c \in Caller : Connected(c))'
<1> DEFINE r == [rpc[k] EXCEPT !.step = s, !.phase = p, !.reply = "none", !.had = FALSE,
                              !.sent = None]
<1>1. rpc[k] \in Exchanges /\ rpc[k].conn \in Conn
  BY DEF Typed, Connected
<1>2. r \in Exchanges /\ r.conn \in Conn
  BY <1>1 DEF Exchanges, Replies
<1>3. rpc' = [rpc EXCEPT ![k] = r]
  BY DEF Proceed, Typed
<1> HIDE DEF r
<1> QED
  BY <1>2, <1>3, ReplacedTyped

LEMMA AnswerTyped ==
  ASSUME Typed, NEW k \in Caller, NEW r \in Replies, Answer(k, r)
  PROVE  rpc' \in [Caller -> Exchanges] /\ (\A c \in Caller : Connected(c))'
<1> DEFINE a == [rpc[k] EXCEPT !.step = "answered", !.reply = r]
<1>1. rpc[k] \in Exchanges /\ rpc[k].conn \in Conn
  BY DEF Typed, Connected, Answer
<1>2. a \in Exchanges /\ a.conn \in Conn
  BY <1>1 DEF Exchanges
<1>3. rpc' = [rpc EXCEPT ![k] = a]
  BY DEF Answer, Typed
<1> HIDE DEF a
<1> QED
  BY <1>2, <1>3, ReplacedTyped

LEMMA ClientTyped ==
  ASSUME Typed, NEW k \in Caller, Client(k)
  PROVE  Typed'
<1> USE DEF Typed
<1>1. CASE Look(k)
  <2> DEFINE a == [rpc[k] EXCEPT !.step = "post", !.had = HeldBy(k) # None]
  <2>1. rpc[k] \in Exchanges /\ rpc[k].conn \in Conn
    BY <1>1 DEF Connected, Look
  <2>2. (HeldBy(k) # None) \in BOOLEAN
    BY Zenon
  <2>3. a \in Exchanges /\ a.conn \in Conn
    <3> HIDE DEF Typed
    <3> QED BY <2>1, <2>2 DEF Exchanges
  <2>4. rpc' = [rpc EXCEPT ![k] = a]
    BY <1>1 DEF Look
  <2> HIDE DEF a
  <2> QED
    BY <1>1, <2>3, <2>4, ReplacedTyped DEF Look
<1>2. CASE Post(k)
  <2>1. HeldBy(k) \in Session \cup {None}
    BY <1>2 DEF Post, HeldBy, Connected
  <2> DEFINE a == [rpc[k] EXCEPT !.step = "sent", !.sent = HeldBy(k)]
  <2>2. rpc[k] \in Exchanges /\ rpc[k].conn \in Conn
    BY <1>2 DEF Connected, Post
  <2>3. a \in Exchanges /\ a.conn \in Conn
    <3> HIDE DEF Typed
    <3> QED BY <2>1, <2>2 DEF Exchanges
  <2>4. rpc' = [rpc EXCEPT ![k] = a]
    BY <1>2 DEF Post
  <2> HIDE DEF a
  <2> QED
    BY <1>2, <2>3, <2>4, ReplacedTyped DEF Post
<1>3. CASE ReceiveExpired(k)
  <2> DEFINE r == [Idle EXCEPT !.step = "look", !.goal = rpc[k].goal,
                               !.phase = "init", !.conn = rpc[k].conn, !.again = TRUE]
  <2>1. held' \in [Conn -> Session \cup {None}] /\ UNCHANGED <<valid, ran>>
    BY <1>3 DEF ReceiveExpired
  <2>2. CASE Finish(k, "error")
    BY <1>3, <2>1, <2>2, FinishTyped DEF ReceiveExpired, Outcomes
  <2>3. CASE rpc' = [rpc EXCEPT ![k] = r]
    <3>1. rpc[k] \in Exchanges /\ rpc[k].conn \in Conn /\ rpc[k].goal \in Goals
      BY <1>3 DEF ReceiveExpired, Connected, Exchanges
    <3>2. r \in Exchanges /\ r.conn \in Conn
      BY <3>1 DEF Idle, Exchanges, Phases, Replies, Outcomes
    <3> HIDE DEF r
    <3> QED
      BY <2>1, <2>3, <3>2 DEF Connected
  <2> QED
    BY <1>3, <2>2, <2>3 DEF ReceiveExpired
<1>4. CASE ReceiveSession(k)
  <2>1. <<k, "again">> \in Session
    BY DEF Session
  <2> QED
    BY <1>4, <2>1, ProceedTyped DEF ReceiveSession, Phases
<1>5. CASE ReceiveAccepted(k)
  BY <1>5, ProceedTyped DEF ReceiveAccepted, Phases
<1>6. CASE ReceiveResult(k)
  <2>1. rpc[k].sent \in Session \cup {None}
    BY DEF Exchanges
  <2>2. held' \in [Conn -> Session \cup {None}]
    BY <1>6, <2>1 DEF ReceiveResult, Echo
  <2> QED
    BY <1>6, <2>2, FinishTyped DEF ReceiveResult, Outcomes
<1>7. CASE ReceiveFailed(k)
  <2>1. rpc[k].sent \in Session \cup {None}
    BY DEF Exchanges
  <2>2. held' \in [Conn -> Session \cup {None}]
    BY <1>7, <2>1 DEF ReceiveFailed, Echo
  <2> QED
    BY <1>7, <2>2, FinishTyped DEF ReceiveFailed, Outcomes
<1> QED
  BY <1>1, <1>2, <1>3, <1>4, <1>5, <1>6, <1>7 DEF Client

LEMMA ExchangeTyped ==
  ASSUME Typed, NEW k \in Caller, Exchange(k)
  PROVE  Typed' /\ expiries' = expiries
<1> USE DEF Typed
<1>1. CASE Client(k)
  <2>1. expiries' = expiries
    BY <1>1 DEF Client, Look, Post, ReceiveExpired, ReceiveSession, ReceiveAccepted,
                ReceiveResult, ReceiveFailed
  <2> QED
    BY <1>1, <2>1, ClientTyped
<1>2. CASE Dial(k)
  <2>1. <<k, "connect">> \in Session
    BY DEF Session
  <2>2. held' \in [Conn -> Session \cup {None}] /\ valid' \subseteq Session
    BY <1>2, <2>1 DEF Dial
  <2> QED
    BY <1>2, <2>2, FinishTyped DEF Dial, Outcomes
<1>3. CASE OpenSession(k)
  <2>1. <<k, "again">> \in Session
    BY DEF Session
  <2> QED
    BY <1>3, <2>1, AnswerTyped DEF OpenSession, Replies
<1>4. CASE Execute(k)
  BY <1>4, AnswerTyped DEF Execute, Replies
<1>5. CASE AcceptNotification(k) \/ UnknownSession(k) \/ MissingSession(k) \/ Unreachable(k)
  BY <1>5, AnswerTyped DEF AcceptNotification, UnknownSession, MissingSession, Unreachable, Replies
<1>6. CASE TimeOut(k)
  <2>1. ran' \in [Caller -> Nat]
    BY <1>6 DEF TimeOut
  <2> QED
    BY <1>6, <2>1, FinishTyped DEF TimeOut, Outcomes
<1> QED
  BY <1>1, <1>2, <1>3, <1>4, <1>5, <1>6 DEF Exchange, Server

-----------------------------------------------------------------------------
(* The steps of the server's handlers. *)
LEMMA BeginTyped ==
  ASSUME Typed, NEW k \in Caller, NEW c \in Conn, NEW g \in Goals, Begin(k, c, g)
  PROVE  Typed'
<1> DEFINE r == [Idle EXCEPT !.step = IF g = "connect" THEN "dial" ELSE "look",
                             !.goal = g, !.conn = c]
<1>1. r \in Exchanges /\ r.conn \in Conn
  BY DEF Idle, Exchanges, Phases, Replies, Outcomes
<1>2. rpc' = [rpc EXCEPT ![k] = r]
  BY DEF Begin
<1> HIDE DEF r
<1>3. rpc' \in [Caller -> Exchanges] /\ (\A x \in Caller : Connected(x))'
  BY <1>1, <1>2, ReplacedTyped
<1> QED
  BY <1>3 DEF Typed, Begin

LEMMA ReqTyped ==
  ASSUME req \in [Caller -> Operations], NEW k \in Caller, NEW p \in Points, Goto(k, p)
  PROVE  req' \in [Caller -> Operations]
<1> DEFINE r == [req[k] EXCEPT !.at = p]
<1>1. r \in Operations
  BY DEF Operations
<1>2. req' = [req EXCEPT ![k] = r]
  BY DEF Goto
<1> HIDE DEF r
<1> QED
  BY <1>1, <1>2

LEMMA SetTyped ==
  ASSUME NEW op \in AllOps \cup {"none", "sync"}, NEW p \in Points, NEW c \in Config \cup {None}
  PROVE  Set(op, p, c) \in Operations
BY DEF Set, NoOp, Operations, Statuses

LEMMA BuildTyped ==
  ASSUME TypeInv, NEW k \in Caller, NEW op \in AllOps \cup {"none", "sync"},
         NEW c \in Config \cup {None},
         Build(k, op, c)
  PROVE  Typed' /\ req' \in [Caller -> Operations] /\ address' \in [Conn -> Config \cup {None}]
<1>1. Typed
  BY DEF TypeInv, TypeOK, SessionTypeOK, Typed
<1>2. k \in Conn
  BY ServersAssumption
<1>3. Typed'
  BY <1>1, <1>2, BeginTyped DEF Build, Goals
<1>4. Set(op, "build", c) \in Operations
  BY SetTyped DEF Points
<1> QED
  BY <1>3, <1>4 DEF Build, TypeInv, TypeOK

LEMMA RowTyped ==
  ASSUME NEW c \in Config, NEW e \in BOOLEAN
  PROVE  NewRow(c, e) \in Rows
BY DEF NewRow, Rows, Statuses

LEMMA TypeInvInit == Init => TypeInv
<1> SUFFICES ASSUME Init PROVE TypeInv
  OBVIOUS
<1> USE ServersAssumption, SessionAssumption, NoSessionAssumption
<1>1. Idle \in Exchanges /\ Idle.step = "idle"
  BY DEF Idle, Exchanges, Goals, Phases, Replies, Outcomes
<1>2. SessionTypeOK /\ \A k \in Caller : Connected(k)
  BY <1>1 DEF Init, SessionInit, SessionTypeOK, Connected
<1>3. row \in Rows \cup {None}
  <2>1. CASE row = None
    BY <2>1
  <2>2. CASE row # None
    <3>1. PICK c \in Config, t \in Config \cup {None} : row = [NewRow(c, TRUE) EXCEPT !.tools = t]
      BY <2>2 DEF Init
    <3> QED
      BY <3>1 DEF NewRow, Rows, Statuses
  <2> QED
    BY <2>1, <2>2
<1>4. NoOp \in Operations
  BY DEF NoOp, Operations, Points, Statuses
<1>5. disabled \in BOOLEAN /\ serving \in BOOLEAN
  BY Zenon DEF Init
<1> QED
  BY <1>2, <1>3, <1>4, <1>5 DEF Init, SessionInit, TypeInv, TypeOK

(* What the manager, the row and the callers may change in a step of their own. *)
LEMMA TypeInvHandler ==
  ASSUME TypeInv, NEW k \in Caller, Handler(k)
  PROVE  TypeInv'
<1> USE ServersAssumption
<1>1. Typed /\ req[k] \in Operations /\ k \in Conn /\ rpc[k] \in Exchanges
  BY DEF TypeInv, TypeOK, SessionTypeOK, Typed
<1>2. Typed' /\ expiries' = expiries
  <2>1. CASE UNCHANGED session
    BY <2>1, <1>1 DEF Typed, session, Connected
  <2>2. CASE EnsureConnected(k)
    <3>1. CASE disabled
      BY <3>1, <2>2, <2>1 DEF EnsureConnected
    <3>2. CASE ~disabled
      <4>1. req[k].config \in Config \cup {None}
        BY <1>1 DEF Operations
      <4> QED
        BY <3>2, <2>2, <4>1, BuildTyped DEF EnsureConnected, AllOps, Build, Begin
    <3> QED
      BY <3>1, <3>2
  <2>3. CASE LiveClient(k)
    <3>1. CASE client # None
      <4>1. client \in Conn
        BY <3>1 DEF TypeInv, TypeOK
      <4> QED
        BY <2>3, <3>1, <4>1, <1>1, BeginTyped DEF LiveClient, Begin, Goals
    <3>2. CASE client = None
      BY <2>3, <3>2, <2>1 DEF LiveClient
    <3> QED
      BY <3>1, <3>2
  <2> QED
    BY <2>1, <2>2, <2>3 DEF Handler, CallTool, IsConnected, Built, Undisable, Install, Used, Remove,
       Disable, SetStatus, SetTools, DeleteRow
<1>3. req' \in [Caller -> Operations] /\ address' \in [Conn -> Config \cup {None}]
  <2> req \in [Caller -> Operations] /\ address \in [Conn -> Config \cup {None}]
    BY DEF TypeInv, TypeOK
  <2>1. CASE Build(k, "worker", req[k].config)
    BY <2>1, <1>1, BuildTyped DEF Operations, AllOps
  <2>2. CASE \E p \in Points : Goto(k, p) /\ UNCHANGED address
    BY <2>2, ReqTyped
  <2>3. CASE Built(k)
    <3>1. CASE req' = [req EXCEPT ![k].at = "status", ![k].next = "error"]
      <4> DEFINE r == [req[k] EXCEPT !.at = "status", !.next = "error"]
      <4>1. r \in Operations
        BY <1>1 DEF Operations, Points, Statuses
      <4>2. req' = [req EXCEPT ![k] = r]
        BY <3>1
      <4> HIDE DEF r
      <4> QED
        BY <4>1, <4>2, <2>3 DEF Built
    <3> QED
      BY <3>1, <2>3, <2>2 DEF Built, Points
  <2>4. CASE LiveClient(k)
    <3>1. CASE req' = [req EXCEPT ![k].at = "status", ![k].next = "connected"]
      <4> DEFINE r == [req[k] EXCEPT !.at = "status", !.next = "connected"]
      <4>1. r \in Operations
        BY <1>1 DEF Operations, Points, Statuses
      <4>2. req' = [req EXCEPT ![k] = r]
        BY <3>1
      <4> HIDE DEF r
      <4> QED
        BY <4>1, <4>2, <2>4 DEF LiveClient
    <3> QED
      BY <3>1, <2>4, <2>2 DEF LiveClient, Points
  <2>5. CASE Used(k)
    <3> DEFINE t == IF rpc[k].outcome = "ok" THEN address[rpc[k].conn] ELSE None
               r == [req[k] EXCEPT !.at = "status", !.next = "connected", !.tools = t]
    <3>1. CASE req[k].op = "connect"
      <4>1. t \in Config \cup {None}
        BY <2>5 DEF Used, TypeInv, Connected
      <4>2. r \in Operations
        <5> HIDE DEF t
        <5> QED BY <1>1, <4>1 DEF Operations, Points, Statuses
      <4>3. req' = [req EXCEPT ![k] = r]
        BY <2>5, <3>1 DEF Used
      <4> HIDE DEF r, t
      <4> QED
        BY <4>2, <4>3, <2>5 DEF Used
    <3>2. CASE req[k].op # "connect"
      BY <3>2, <2>5, <2>2 DEF Used, Goto, Points
    <3> QED
      BY <3>1, <3>2
  <2>6. CASE EnsureConnected(k)
    BY <2>1, <2>2, <2>6 DEF EnsureConnected, Points
  <2>7. CASE IsConnected(k)
    BY <2>2, <2>7 DEF IsConnected, Points
  <2>8. CASE Install(k)
    BY <2>2, <2>8 DEF Install, AfterInstall, Points
  <2>9. CASE Remove(k) \/ Disable(k)
    BY <2>2, <2>9 DEF Remove, Disable, Points
  <2>10. CASE CallTool(k) \/ Undisable(k) \/ SetStatus(k) \/ SetTools(k) \/ DeleteRow(k)
    BY <2>2, <2>10 DEF CallTool, Undisable, SetStatus, SetTools, DeleteRow, Points
  <2> QED
    BY <2>3, <2>4, <2>5, <2>6, <2>7, <2>8, <2>9, <2>10 DEF Handler
<1>4. row' \in Rows \cup {None}
  <2> row \in Rows \cup {None}
    BY DEF TypeInv, TypeOK
  <2>1. CASE SetStatus(k)
    BY <2>1, <1>1 DEF SetStatus, Rows, Operations
  <2>2. CASE SetTools(k)
    BY <2>2, <1>1 DEF SetTools, Rows, Operations
  <2> QED
    BY <2>1, <2>2 DEF Handler, CallTool, IsConnected, EnsureConnected, Built, Undisable, Install,
       LiveClient, Used, Remove, Disable, DeleteRow
<1>5. client' \in Conn \cup {None} /\ bounds' = bounds
  BY <1>1 DEF TypeInv, TypeOK, Handler, CallTool, IsConnected, EnsureConnected, Built, Undisable,
     Install, LiveClient, Used, Remove, Disable, SetStatus, SetTools, DeleteRow, manager, bounds
<1>6. disabled' \in BOOLEAN /\ serving' \in BOOLEAN
  BY Zenon DEF TypeInv, TypeOK, Handler, CallTool, IsConnected, EnsureConnected, Built, Undisable,
     Install, LiveClient, Used, Remove, Disable, SetStatus, SetTools, DeleteRow, manager
<1>7. asked' \subseteq Caller
  BY DEF TypeInv, TypeOK, Handler, CallTool, IsConnected, EnsureConnected, Built, Undisable, Install,
     LiveClient, Used, Remove, Disable, SetStatus, SetTools, DeleteRow, manager
<1> QED
  BY <1>2, <1>3, <1>4, <1>5, <1>6, <1>7 DEF TypeInv, TypeOK, SessionTypeOK, Typed, bounds

LEMMA TypeInvOthers ==
  ASSUME TypeInv, Next, ~(\E k \in Caller : Handler(k))
  PROVE  TypeInv'
<1> USE ServersAssumption
<1>1. Typed /\ row \in Rows \cup {None} /\ client \in Conn \cup {None}
      /\ req \in [Caller -> Operations] /\ address \in [Conn -> Config \cup {None}]
      /\ asked \subseteq Caller
      /\ expiries \in 0..MaxExpiries /\ edits \in Nat /\ restarts \in Nat
      /\ edits + restarts + expiries <= MaxEvents
  BY DEF TypeInv, TypeOK, SessionTypeOK, Typed
<1>2. CASE \E c \in Config, e \in BOOLEAN : Create(c, e) \/ Update(c, e)
  <2>1. row' \in Rows /\ edits' = edits + 1 /\ MayHappen /\ UNCHANGED <<restarts, expiries>>
    BY <1>2, RowTyped DEF Create, Update, session
  <2>2. Typed'
    BY <1>1, <1>2 DEF Create, Update, session, Typed, Connected
  <2>3. disabled' \in BOOLEAN /\ serving' \in BOOLEAN
    BY <1>2, Zenon DEF Create, Update, manager, TypeInv, TypeOK
  <2>4. UNCHANGED <<client, asked, req, address>>
    BY <1>2 DEF Create, Update, manager
  <2>5. edits' + restarts' + expiries' <= MaxEvents
    BY <2>1, <1>1 DEF MayHappen
  <2> QED
    BY <1>1, <2>1, <2>2, <2>3, <2>4, <2>5 DEF TypeInv, TypeOK, SessionTypeOK, Typed
<1>3. CASE \E k \in Requests : Operator(k) \/ LoadTools(k)
  <2> PICK k \in Requests : Operator(k) \/ LoadTools(k)
    BY <1>3
  <2> k \in Caller
    BY DEF Requests
  <2>1. Typed' /\ req' \in [Caller -> Operations] /\ address' \in [Conn -> Config \cup {None}]
    <3>1. CASE \E op \in Ops, c \in Config \cup {None} : Build(k, op, c)
      BY <3>1, BuildTyped
    <3>2. CASE \E op \in Ops : Operate(k, op)
      <4>1. row # None => row.config \in Config
        BY <1>1 DEF Rows
      <4> QED
        BY <3>1, <3>2, <4>1 DEF Operate
    <3>3. CASE Disconnect(k) \/ Delete(k) \/ LoadTools(k)
      <4>1. Typed' /\ UNCHANGED address
        BY <1>1, <3>3 DEF Disconnect, Delete, LoadTools, session, Typed, Connected
      <4>2. CASE Disconnect(k)
        <5>1. Set("disconnect", "probe", None) \in Operations
          BY SetTyped DEF AllOps, Points
        <5>2. PICK n \in Statuses : req' = [req EXCEPT ![k] = [Set("disconnect", "probe", None) EXCEPT !.next = n]]
          BY <4>2 DEF Disconnect, Statuses
        <5>3. [Set("disconnect", "probe", None) EXCEPT !.next = n] \in Operations
          BY <5>1 DEF Operations
        <5> QED
          BY <1>1, <4>1, <5>2, <5>3
      <4>3. CASE Delete(k)
        <5>1. Set("delete", "probe", None) \in Operations
          BY SetTyped DEF AllOps, Points
        <5> QED
          BY <1>1, <4>1, <4>3, <5>1 DEF Delete
      <4>4. CASE LoadTools(k)
        <5>1. row.config \in Config
          BY <1>1, <4>4 DEF LoadTools, Rows
        <5>2. Set("worker", "loaded", row.config) \in Operations
          BY <5>1, SetTyped DEF AllOps, Points
        <5> QED
          BY <1>1, <4>1, <4>4, <5>2 DEF LoadTools
      <4> QED
        BY <3>3, <4>2, <4>3, <4>4
    <3> QED
      BY <3>2, <3>3 DEF Operator
  <2>2. disabled' \in BOOLEAN /\ serving' \in BOOLEAN
    BY Zenon DEF Operator, Operate, Disconnect, Delete, LoadTools, manager, TypeInv, TypeOK
  <2>3. UNCHANGED <<row, client, asked, expiries, edits, restarts>>
    BY DEF Operator, Operate, Disconnect, Delete, LoadTools, Build, Begin, manager, bounds, session
  <2> QED
    BY <1>1, <2>1, <2>2, <2>3 DEF TypeInv, TypeOK, SessionTypeOK, Typed
<1>4. CASE SyncEnabled
  <2>1. Typed' /\ req' \in [Caller -> Operations] /\ address' \in [Conn -> Config \cup {None}]
    <3>1. CASE row # None /\ row.enabled
      <4>1. row.config \in Config
        BY <1>1, <3>1 DEF Rows
      <4> QED
        BY <1>4, <3>1, <4>1, BuildTyped DEF SyncEnabled
    <3>2. CASE ~(row # None /\ row.enabled)
      BY <1>1, <1>4, <3>2 DEF SyncEnabled, session, Typed, Connected
    <3> QED
      BY <3>1, <3>2
  <2>2. disabled' \in BOOLEAN /\ serving' \in BOOLEAN
    BY <1>4, Zenon DEF SyncEnabled, manager, TypeInv, TypeOK
  <2>3. UNCHANGED <<row, client, asked, expiries, edits, restarts>>
    BY <1>4 DEF SyncEnabled, Build, Begin, manager, bounds, session
  <2> QED
    BY <1>1, <2>1, <2>2, <2>3 DEF TypeInv, TypeOK, SessionTypeOK, Typed
<1>5. CASE Network
  <2>1. Typed' /\ expiries' \in 0..MaxExpiries /\ edits' + restarts' + expiries' <= MaxEvents
    <3>1. CASE \E k \in Caller : Exchange(k)
      BY <1>1, <1>5, <3>1, ExchangeTyped DEF Network, bounds
    <3>2. CASE MayHappen /\ \E s \in valid : Expire(s)
      BY <1>1, <1>5, <3>2, SessionAssumption DEF Network, bounds, Expire, MayHappen, Typed, Connected
    <3> QED
      BY <1>5, <3>1, <3>2 DEF Network
  <2>2. disabled' \in BOOLEAN /\ serving' \in BOOLEAN
    BY <1>5, Zenon DEF Network, manager, TypeInv, TypeOK
  <2>3. UNCHANGED <<row, client, asked, req, address, edits, restarts>>
    BY <1>5 DEF Network, manager, bounds
  <2> QED
    BY <1>1, <2>1, <2>2, <2>3 DEF TypeInv, TypeOK, SessionTypeOK, Typed
<1>6. CASE Restart
  <2>1. Idle \in Exchanges /\ Idle.step = "idle"
    BY DEF Idle, Exchanges, Goals, Phases, Replies, Outcomes
  <2>2. Typed'
    BY <1>1, <1>6, <2>1 DEF Restart, Typed, Connected
  <2>3. NoOp \in Operations /\ [NoOp EXCEPT !.at = "done"] \in Operations
    BY DEF NoOp, Operations, Points, Statuses
  <2>4. req' \in [Caller -> Operations]
    BY <1>1, <1>6, <2>3 DEF Restart, At
  <2>5. disabled' \in BOOLEAN /\ serving' \in BOOLEAN
    BY <1>6, Zenon DEF Restart
  <2>6. UNCHANGED <<row, address, edits, expiries>> /\ client' = None /\ asked' = {} /\ restarts' = restarts + 1
        /\ MayHappen
    BY <1>6 DEF Restart
  <2>7. edits' + restarts' + expiries' <= MaxEvents
    BY <1>1, <2>6 DEF MayHappen
  <2> QED
    BY <1>1, <2>2, <2>4, <2>5, <2>6, <2>7 DEF TypeInv, TypeOK, SessionTypeOK, Typed
<1> QED
  BY <1>2, <1>3, <1>4, <1>5, <1>6 DEF Next

LEMMA TypeInvNext == TypeInv /\ [Next]_vars => TypeInv'
<1> SUFFICES ASSUME TypeInv, [Next]_vars PROVE TypeInv'
  OBVIOUS
<1>1. CASE UNCHANGED vars
  <2>1. TypeOK' = TypeOK
    BY <1>1 DEF vars, session, manager, bounds, TypeOK, SessionTypeOK
  <2> QED
    BY <1>1, <2>1 DEF TypeInv, Connected, vars, session
<1>2. CASE \E k \in Caller : Handler(k)
  BY <1>2, TypeInvHandler
<1>3. CASE Next /\ ~(\E k \in Caller : Handler(k))
  BY <1>3, TypeInvOthers
<1> QED
  BY <1>1, <1>2, <1>3

(* Every reachable state has its type, the bounds on edits, restarts and     *)
(* forgotten sessions included.                                              *)
THEOREM McpTypes == Spec => []TypeOK
<1>1. Spec => []TypeInv
  BY TypeInvInit, TypeInvNext, PTL DEF Spec
<1> QED
  BY <1>1, PTL DEF TypeInv

-----------------------------------------------------------------------------
(* What beginning an operation does to its caller. *)
Started(k, ops) ==
  /\ UNCHANGED <<ran, client, disabled, restarts>>
  /\ \A j \in Caller : j # k => UNCHANGED <<rpc[j], req[j]>>
  /\ \/ /\ rpc'[k].step = "dial" /\ rpc'[k].goal = "connect" /\ rpc'[k].outcome = "none"
        /\ req'[k].at = "build" /\ req'[k].op \in ops
     \/ rpc'[k] = rpc[k] /\ req'[k].at \in {"probe", "loaded"} /\ req'[k].op \in AllOps

LEMMA BuildStarts ==
  ASSUME TypeInv, NEW k \in Caller, NEW op, NEW c, Build(k, op, c),
         UNCHANGED <<manager, restarts>>
  PROVE  Started(k, {op}) /\ req'[k].at = "build" /\ rpc'[k].step = "dial"
<1>1. rpc \in [Caller -> Exchanges] /\ req \in [Caller -> Operations]
  BY DEF TypeInv, TypeOK, SessionTypeOK
<1>2. req'[k] = Set(op, "build", c) /\ rpc'[k] = [Idle EXCEPT !.step = "dial", !.goal = "connect", !.conn = k]
      /\ UNCHANGED <<ran, client, disabled>>
  BY <1>1 DEF Build, Begin, manager
<1>3. \A j \in Caller : j # k => UNCHANGED <<rpc[j], req[j]>>
  BY <1>1 DEF Build, Begin
<1>4. req'[k].at = "build" /\ req'[k].op = op
  BY <1>2 DEF Set, NoOp
<1>5. rpc'[k].step = "dial" /\ rpc'[k].goal = "connect" /\ rpc'[k].outcome = "none"
  BY <1>2 DEF Idle
<1> QED
  BY <1>2, <1>3, <1>4, <1>5 DEF Started

LEMMA OperationsStart ==
  ASSUME TypeInv, NEW k \in Requests, Operator(k) \/ LoadTools(k)
  PROVE  serving /\ serving' /\ At(k, "idle") /\ Started(k, {"connect", "test", "tools"})
<1>1. rpc \in [Caller -> Exchanges] /\ req \in [Caller -> Operations] /\ k \in Caller
  BY DEF TypeInv, TypeOK, SessionTypeOK, Requests
<1>2. serving /\ serving' /\ At(k, "idle") /\ UNCHANGED <<manager, restarts>>
  BY DEF Operator, Operate, Disconnect, Delete, LoadTools, bounds
<1>3. CASE \E op \in Ops : Operate(k, op)
  <2>1. PICK op \in {"connect", "test", "tools"}, c \in Config \cup {None, row.config} : Build(k, op, c)
    BY <1>3 DEF Operate
  <2> QED
    BY <1>1, <1>2, <2>1, BuildStarts DEF Started
<1>4. CASE Disconnect(k) \/ Delete(k) \/ LoadTools(k)
  <2>1. UNCHANGED session /\ \A j \in Caller : j # k => req'[j] = req[j]
    BY <1>1, <1>4 DEF Disconnect, Delete, LoadTools
  <2>2. req'[k].at \in {"probe", "loaded"} /\ req'[k].op \in AllOps
    <3>1. CASE Disconnect(k)
      BY <1>1, <3>1 DEF Disconnect, Set, NoOp, AllOps
    <3>2. CASE Delete(k)
      BY <1>1, <3>2 DEF Delete, Set, NoOp, AllOps
    <3>3. CASE LoadTools(k)
      BY <1>1, <3>3 DEF LoadTools, Set, NoOp, AllOps
    <3> QED
      BY <1>4, <3>1, <3>2, <3>3
  <2> QED
    BY <1>2, <2>1, <2>2 DEF Started, session, manager
<1> QED
  BY <1>2, <1>3, <1>4 DEF Operator

(* Start-up: it only connects, and nothing is disconnected or asked of the   *)
(* server before it ended.                                                   *)
Starting ==
  /\ req[Boot].at \in {"idle", "build", "undisable", "install", "done"}
  /\ req[Boot].at \in {"build", "undisable", "install"} => req[Boot].op = "sync"
  /\ ~serving => /\ ~disabled
                 /\ \A k \in Requests : req[k].at \in {"idle", "done"}

LEMMA StartingInit == Init => Starting
BY ServersAssumption DEF Init, Starting, NoOp, Requests

LEMMA StartingNext == TypeInv /\ Starting /\ [Next]_vars => Starting'
<1> SUFFICES ASSUME TypeInv, Starting, [Next]_vars PROVE Starting'
  OBVIOUS
<1> USE ServersAssumption
<1>1. req \in [Caller -> Operations]
  BY DEF TypeInv, TypeOK
<1>2. CASE UNCHANGED <<req, serving, disabled>>
  BY <1>2 DEF Starting
<1>3. CASE \E k \in Requests : Operator(k) \/ LoadTools(k)
  BY <1>3, OperationsStart DEF Started, Starting, Requests
<1>4. CASE SyncEnabled
  <2>1. CASE row # None /\ row.enabled
    <3>1. Started(Boot, {"sync"}) /\ req'[Boot].at = "build" /\ UNCHANGED serving
      BY <1>4, <2>1, BuildStarts DEF SyncEnabled, bounds
    <3> QED
      BY <3>1 DEF Started, Starting, Requests, AllOps
  <2>2. CASE ~(row # None /\ row.enabled)
    BY <1>4, <2>2 DEF SyncEnabled, Starting, Requests, manager
  <2> QED
    BY <2>1, <2>2
<1>5. CASE Restart
  BY <1>1, <1>5 DEF Restart, Starting, NoOp, Requests, At
<1>6. CASE \E k \in Caller : Handler(k)
  <2> PICK k \in Caller : Handler(k)
    BY <1>6
  <2>1. CASE k = Boot
    <3>1. Built(k) \/ Undisable(k) \/ Install(k)
      BY <2>1 DEF Starting, Handler, CallTool, IsConnected, EnsureConnected, LiveClient, Used, Remove,
         Disable, SetStatus, SetTools, DeleteRow, At
    <3> QED
      <4>1. req[Boot].op = "sync" /\ req[Boot] \in Operations
        BY <1>1, <2>1, <3>1 DEF Starting, Built, Undisable, Install, At
      <4>2. \E p \in {"done", "undisable", "install"} : Goto(Boot, p)
        BY <2>1, <3>1, <4>1 DEF Built, Undisable, Install, AfterInstall
      <4>3. req'[Boot].at \in {"done", "undisable", "install"} /\ req'[Boot].op = "sync"
            /\ \A j \in Requests : req'[j] = req[j]
        BY <1>1, <4>1, <4>2 DEF Goto, Requests, Operations
      <4>4. disabled' => disabled
        BY <2>1, <3>1 DEF Built, Undisable, Install, manager
      <4>5. serving => serving'
        <5>1. CASE Undisable(Boot)
          BY <5>1 DEF Undisable
        <5>2. CASE Install(Boot)
          BY <5>2, Zenon DEF Install
        <5>3. CASE Built(Boot)
          BY <5>3, Zenon DEF Built
        <5> QED
          BY <2>1, <3>1, <5>1, <5>2, <5>3
      <4> QED
        BY <4>3, <4>4, <4>5 DEF Starting
  <2>2. CASE k # Boot
    <3>1. serving /\ serving' /\ k \in Requests
      BY <2>2 DEF Starting, Requests, Handler, CallTool, IsConnected, EnsureConnected, Built, Undisable,
         Install, LiveClient, Used, Remove, Disable, SetStatus, SetTools, DeleteRow, At
    <3>2. req'[Boot] = req[Boot]
      BY <1>1, <2>2 DEF Handler, CallTool, IsConnected, EnsureConnected, Build, Built, Undisable,
         Install, LiveClient, Used, Remove, Disable, SetStatus, SetTools, DeleteRow, Goto
    <3> QED
      BY <3>1, <3>2 DEF Starting
  <2> QED
    BY <2>1, <2>2
<1>7. CASE Network \/ \E c \in Config, e \in BOOLEAN : Create(c, e) \/ Update(c, e)
  BY <1>2, <1>7 DEF Network, Create, Update, manager
<1> QED
  BY <1>2, <1>3, <1>4, <1>5, <1>6, <1>7 DEF Next, vars, manager

-----------------------------------------------------------------------------
(* Where a call is when its tool has run.  An exchange is driven from "use"  *)
(* or, for a handshake, from "build"; a tool ran only when its answer is in  *)
(* or the caller gave up.                                                    *)
Tracked(k) ==
  /\ ran[k] \in {0, 1}
  /\ rpc[k].step \in {"look", "post", "sent", "answered"} =>
       req[k].at = "use" /\ (rpc[k].goal = "call" => req[k].op = "worker")
  /\ rpc[k].step = "dial" => req[k].at = "build" /\ rpc[k].goal = "connect"
  /\ ran[k] = 1 => /\ req[k].at \in {"use", "done"} /\ k # Boot
                   /\ req[k].at = "use" => req[k].op = "worker"
                   /\ rpc[k].step \in {"answered", "done", "idle"}
                   /\ rpc[k].step = "answered" => /\ rpc[k].phase = "main"
                                                  /\ rpc[k].reply \in {"result", "failed"}
  /\ rpc[k].step = "answered" /\ rpc[k].reply = "result" /\ rpc[k].goal = "call" => ran[k] = 1
  /\ rpc[k].outcome # "none" => rpc[k].step = "done"
  /\ rpc[k].goal = "call" /\ rpc[k].outcome = "ok" => ran[k] = 1

RunsInv ==
  /\ TypeInv /\ Starting
  /\ \A k \in Caller : Tracked(k)

LEMMA TrackedElsewhere ==
  ASSUME NEW k \in Caller, Tracked(k), UNCHANGED <<rpc[k], ran[k], req[k]>>
  PROVE  Tracked(k)'
BY DEF Tracked

LEMMA TrackedExchange ==
  ASSUME RunsInv, NEW k \in Caller, Exchange(k), UNCHANGED req
  PROVE  \A j \in Caller : Tracked(j)'
<1> USE DEF Idle, Finish, Proceed, Answer
<1>1. Tracked(k) /\ (k = Boot => req[k].at # "use") /\ ran \in [Caller -> Nat]
      /\ rpc \in [Caller -> Exchanges] /\ rpc[k] \in Exchanges
  BY DEF RunsInv, Starting, TypeInv, TypeOK, SessionTypeOK
<1>2. Tracked(k)'
  <2>1. CASE Look(k) \/ Post(k)
    BY <1>1, <2>1 DEF Look, Post, Tracked, Exchanges
  <2>2. CASE ReceiveExpired(k)
    <3>1. ran[k] = 0 /\ ran' = ran /\ rpc[k].step = "answered" /\ req[k].at = "use"
          /\ (rpc[k].goal = "call" => req[k].op = "worker")
      BY <1>1, <2>2 DEF ReceiveExpired, Tracked
    <3>2. /\ rpc'[k].goal = rpc[k].goal
          /\ \/ rpc'[k].step = "look" /\ rpc'[k].outcome = "none"
             \/ rpc'[k].step = "done" /\ rpc'[k].outcome = "error"
      <4>1. CASE Finish(k, "error")
        BY <1>1, <4>1
      <4>2. CASE ~Finish(k, "error")
        <5>1. rpc'[k] = [Idle EXCEPT !.step = "look", !.goal = rpc[k].goal,
                                     !.phase = "init", !.conn = rpc[k].conn, !.again = TRUE]
          BY <1>1, <2>2, <4>2 DEF ReceiveExpired
        <5> QED
          BY <5>1
      <4> QED
        BY <4>1, <4>2
    <3> QED
      BY <1>1, <3>1, <3>2 DEF Tracked
  <2>3. CASE ReceiveSession(k) \/ ReceiveAccepted(k)
    BY <1>1, <2>3 DEF ReceiveSession, ReceiveAccepted, Tracked, Exchanges
  <2>4. CASE ReceiveResult(k)
    BY <1>1, <2>4 DEF ReceiveResult, Tracked
  <2>5. CASE ReceiveFailed(k)
    BY <1>1, <2>5 DEF ReceiveFailed, Tracked
  <2>6. CASE Dial(k)
    <3>1. rpc'[k].step = "done" /\ rpc'[k].goal = "connect" /\ ran' = ran
      BY <1>1, <2>6 DEF Dial, Tracked
    <3>2. ran[k] = 0
      BY <1>1, <2>6 DEF Dial, Tracked
    <3> QED
      BY <1>1, <3>1, <3>2 DEF Tracked
  <2>7. CASE OpenSession(k) \/ AcceptNotification(k)
    BY <1>1, <2>7 DEF OpenSession, AcceptNotification, Tracked, Exchanges
  <2>8. CASE Execute(k)
    BY <1>1, <2>8 DEF Execute, Tracked, Exchanges
  <2>9. CASE UnknownSession(k) \/ MissingSession(k) \/ Unreachable(k)
    BY <1>1, <2>9 DEF UnknownSession, MissingSession, Unreachable, Tracked, Exchanges
  <2>10. CASE TimeOut(k)
    BY <1>1, <2>10 DEF TimeOut, Tracked
  <2> QED
    BY <2>1, <2>2, <2>3, <2>4, <2>5, <2>6, <2>7, <2>8, <2>9, <2>10 DEF Exchange, Client, Server
<1>3. ASSUME NEW j \in Caller, j # k PROVE UNCHANGED <<rpc[j], ran[j], req[j]>>
  BY <1>1, <1>3 DEF Exchange, Client, Server, Look, Post, ReceiveExpired, ReceiveSession,
     ReceiveAccepted, ReceiveResult, ReceiveFailed, Dial, OpenSession, AcceptNotification, Execute,
     UnknownSession, MissingSession, Unreachable, TimeOut
<1> QED
  BY <1>2, <1>3, TrackedElsewhere DEF RunsInv

(* A caller that connects or uses a connection leaves the others alone. *)
LEMMA TrackedHandler ==
  ASSUME RunsInv, NEW k \in Caller, Handler(k)
  PROVE  \A j \in Caller : Tracked(j)'
<1> USE DEF Idle, Begin, Goto, At
<1>1. Tracked(k) /\ (k = Boot => req[k].at # "use") /\ ran \in [Caller -> Nat]
      /\ rpc \in [Caller -> Exchanges] /\ req \in [Caller -> Operations]
  BY DEF RunsInv, Starting, TypeInv, TypeOK, SessionTypeOK
<1>2. Tracked(k)'
  <2>1. CASE EnsureConnected(k)
    <3>1. CASE disabled
      BY <1>1, <2>1, <3>1 DEF EnsureConnected, session, Tracked
    <3>2. CASE ~disabled
      <4>1. Started(k, {"worker"}) /\ ran[k] = 0
        BY <1>1, <2>1, <3>2, BuildStarts DEF EnsureConnected, RunsInv, bounds, Tracked
      <4>2. req'[k].at = "build" /\ rpc'[k].step = "dial"
        BY <1>1, <2>1, <3>2, BuildStarts DEF EnsureConnected, RunsInv, bounds
      <4> QED
        BY <1>1, <4>1, <4>2 DEF Started, Tracked
    <3> QED
      BY <3>1, <3>2
  <2>2. CASE LiveClient(k)
    <3>1. ran[k] = 0 /\ ran' = ran /\ rpc[k].step \notin {"look", "post", "sent", "answered", "dial"}
      BY <1>1, <2>2 DEF LiveClient, session, Tracked
    <3>2. CASE client # None
      <4> HIDE DEF Begin, Idle
      <4>1. rpc'[k] = [Idle EXCEPT !.step = "look", !.conn = client,
                                   !.goal = IF req[k].op = "worker" THEN "call" ELSE "list"]
        <5>1. CASE req[k].op = "worker"
          <6>1. Begin(k, client, "call")
            BY <2>2, <3>2, <5>1 DEF LiveClient
          <6> QED
            BY <1>1, <5>1, <6>1 DEF Begin, Idle
        <5>2. CASE req[k].op # "worker"
          <6>1. Begin(k, client, "list")
            BY <2>2, <3>2, <5>2 DEF LiveClient
          <6> QED
            BY <1>1, <5>2, <6>1 DEF Begin, Idle
        <5> QED
          BY <5>1, <5>2
      <4>2. req'[k].at = "use" /\ req'[k].op = req[k].op
        BY <1>1, <2>2, <3>2 DEF LiveClient, Operations
      <4>3. rpc'[k].step = "look" /\ rpc'[k].outcome = "none"
            /\ rpc'[k].goal = IF req[k].op = "worker" THEN "call" ELSE "list"
        BY <4>1 DEF Idle
      <4> QED
        BY <1>1, <3>1, <4>2, <4>3 DEF Tracked
    <3>3. CASE client = None
      BY <1>1, <2>2, <3>1, <3>3 DEF LiveClient, session, Tracked
    <3> QED
      BY <3>2, <3>3
  <2>3. CASE Built(k)
    BY <1>1, <2>3 DEF Built, session, Tracked
  <2>4. CASE Used(k)
    <3>1. rpc[k].step = "done" /\ req'[k].at \in {"status", "done"} /\ UNCHANGED <<rpc, ran>>
      BY <1>1, <2>4 DEF Used, session
    <3>2. ran[k] = 1 => req'[k].at = "done"
      BY <1>1, <2>4 DEF Used, Tracked
    <3> QED
      BY <1>1, <3>1, <3>2 DEF Tracked
  <2>5. CASE CallTool(k) \/ IsConnected(k) \/ Undisable(k) \/ Install(k) \/ Remove(k) \/ Disable(k)
             \/ SetStatus(k) \/ SetTools(k) \/ DeleteRow(k)
    BY <1>1, <2>5 DEF CallTool, IsConnected, Undisable, Install, Remove, Disable, SetStatus, SetTools,
       DeleteRow, session, Tracked
  <2> QED
    BY <2>1, <2>2, <2>3, <2>4, <2>5 DEF Handler
<1>3. ASSUME NEW j \in Caller, j # k PROVE UNCHANGED <<rpc[j], ran[j], req[j]>>
  BY <1>1, <1>3 DEF Handler, EnsureConnected, Build, LiveClient, Built, Used, CallTool, IsConnected,
     Undisable, Install, Remove, Disable, SetStatus, SetTools, DeleteRow, session
<1> QED
  BY <1>2, <1>3, TrackedElsewhere DEF RunsInv

(* Operators and runs that begin have not called anything yet. *)
LEMMA TrackedStart ==
  ASSUME RunsInv, NEW k \in Caller, NEW ops, Started(k, ops), At(k, "idle")
  PROVE  \A j \in Caller : Tracked(j)'
<1>1. Tracked(k) /\ ran[k] = 0 /\ rpc[k].step \in {"idle", "done"}
  <2>1. rpc \in [Caller -> Exchanges]
    BY DEF RunsInv, TypeInv, TypeOK, SessionTypeOK
  <2> QED
    BY <2>1 DEF RunsInv, Tracked, At, Exchanges
<1>2. Tracked(k)'
  BY <1>1 DEF Started, Tracked
<1>3. ASSUME NEW j \in Caller, j # k PROVE UNCHANGED <<rpc[j], ran[j], req[j]>>
  BY <1>3 DEF Started
<1> QED
  BY <1>2, <1>3, TrackedElsewhere DEF RunsInv

LEMMA RunsInvInit == Init => RunsInv
<1>1. Init => \A k \in Caller : Tracked(k)
  BY DEF Init, SessionInit, Tracked, Idle, NoOp
<1> QED
  BY <1>1, TypeInvInit, StartingInit DEF RunsInv

LEMMA RunsInvNext == RunsInv /\ [Next]_vars => RunsInv'
<1> SUFFICES ASSUME RunsInv, [Next]_vars PROVE \A k \in Caller : Tracked(k)'
  BY TypeInvNext, StartingNext DEF RunsInv
<1>1. CASE UNCHANGED <<rpc, ran, req>>
  BY <1>1, TrackedElsewhere DEF RunsInv
<1>2. CASE \E k \in Caller : Handler(k)
  BY <1>2, TrackedHandler
<1>3. CASE \E k \in Requests : Operator(k) \/ LoadTools(k)
  BY <1>3, OperationsStart, TrackedStart DEF RunsInv, Requests
<1>4. CASE SyncEnabled
  <2>1. CASE row # None /\ row.enabled
    BY <1>4, <2>1, BuildStarts, TrackedStart, ServersAssumption DEF SyncEnabled, RunsInv, bounds
  <2>2. CASE ~(row # None /\ row.enabled)
    BY <1>1, <1>4, <2>2 DEF SyncEnabled, session
  <2> QED
    BY <2>1, <2>2
<1>5. CASE Network
  <2>1. CASE \E k \in Caller : Exchange(k)
    BY <1>5, <2>1, TrackedExchange DEF Network
  <2>2. CASE \E s \in valid : Expire(s)
    BY <1>1, <1>5, <2>2 DEF Network, Expire
  <2> QED
    BY <1>5, <2>1, <2>2 DEF Network
<1>6. CASE Restart
  <2> SUFFICES ASSUME NEW k \in Caller PROVE Tracked(k)'
    OBVIOUS
  <2>1. Tracked(k) /\ rpc'[k] = (IF rpc[k].step = "done" THEN rpc[k] ELSE Idle) /\ ran' = ran
        /\ req'[k] = (IF k = Boot THEN NoOp
                      ELSE IF At(k, "idle") THEN req[k] ELSE [NoOp EXCEPT !.at = "done"])
    BY <1>6 DEF Restart, RunsInv
  <2> QED
    BY <2>1 DEF Tracked, Idle, NoOp, At
<1>7. CASE \E c \in Config, e \in BOOLEAN : Create(c, e) \/ Update(c, e)
  BY <1>1, <1>7 DEF Create, Update, session
<1> QED
  BY <1>1, <1>2, <1>3, <1>4, <1>5, <1>6, <1>7 DEF Next, vars, session

LEMMA AlwaysRunsInv == Spec => []RunsInv
  BY RunsInvInit, RunsInvNext, PTL DEF Spec

(* No call runs its tool twice and none reports a result its tool did not    *)
(* produce, however many callers share the connection and however many       *)
(* sessions the server forgets.                                              *)
THEOREM McpCallsRunOnce == Spec => []CallsRunOnce
<1>1. RunsInv => CallsRunOnce
  BY DEF RunsInv, Tracked, CallsRunOnce
<1> QED
  BY <1>1, AlwaysRunsInv, PTL

-----------------------------------------------------------------------------
(* Who lifts a disconnect.  A caller connects once, from a config it was     *)
(* given, so the address it built from tells whether it had begun.           *)
Owned(k) ==
  /\ Connects(k) => address[k] # None /\ req[k].at # "idle"
  /\ req[k].at = "gate" => req[k].op = "worker"
  /\ req[k].op = "worker" => req[k].config # None

Bound(k) == disabled /\ req[k].op = "worker" /\ Connects(k) => k \in asked

BindInv == \A k \in Caller : Owned(k) /\ Bound(k)

(* A handler that neither passes the check of disabled nor sets it: whoever  *)
(* connects afterwards already did.                                          *)
LEMMA HandlerKeepsConnecting ==
  ASSUME TypeInv, NEW k \in Caller, Handler(k), ~Disable(k), EnsureConnected(k) => disabled
  PROVE  /\ UNCHANGED <<address, asked>>
         /\ disabled' => disabled
         /\ client' \in {client, None} \/ (client' = k /\ Connects(k))
         /\ \A j \in Caller : j # k => req'[j] = req[j]
         /\ req'[k].op = req[k].op /\ req'[k].config = req[k].config
         /\ req'[k].at # "idle"
         /\ req'[k].at \in {"build", "undisable", "install"} => Connects(k)
         /\ req'[k].at = "gate" => req[k].op = "worker"
<1>1. req \in [Caller -> Operations] /\ req[k] \in Operations
  BY DEF TypeInv, TypeOK
<1>2. UNCHANGED <<address, asked>> /\ (disabled' => disabled)
      /\ (client' \in {client, None} \/ (client' = k /\ Connects(k)))
  <2>1. CASE CallTool(k) \/ IsConnected(k) \/ EnsureConnected(k) \/ Built(k) \/ LiveClient(k) \/ Used(k)
             \/ SetStatus(k) \/ SetTools(k) \/ DeleteRow(k)
    <3>1. UNCHANGED <<manager, address>>
      BY <2>1 DEF CallTool, IsConnected, EnsureConnected, Built, LiveClient, Used, SetStatus, SetTools,
         DeleteRow
    <3> QED
      BY <3>1 DEF manager
  <2>2. CASE Undisable(k)
    BY <2>2 DEF Undisable
  <2>3. CASE Install(k)
    BY <2>3 DEF Install, At, Connects
  <2>4. CASE Remove(k)
    BY <2>4 DEF Remove
  <2> QED
    BY <2>1, <2>2, <2>3, <2>4 DEF Handler
<1>3. ASSUME NEW p \in Points \ {"idle"}, Goto(k, p),
             p \in {"build", "undisable", "install"} => Connects(k), p = "gate" => req[k].op = "worker"
      PROVE  /\ \A j \in Caller : j # k => req'[j] = req[j]
             /\ req'[k].op = req[k].op /\ req'[k].config = req[k].config
             /\ req'[k].at = p
  BY <1>1, <1>3 DEF Goto, Operations
<1>4. ASSUME NEW n, NEW t, req' = [req EXCEPT ![k] = [req[k] EXCEPT !.at = "status", !.next = n, !.tools = t]]
      PROVE  /\ \A j \in Caller : j # k => req'[j] = req[j]
             /\ req'[k].op = req[k].op /\ req'[k].config = req[k].config
             /\ req'[k].at = "status"
  BY <1>1, <1>4 DEF Operations
<1>5. CASE \E p \in Points \ {"idle", "build", "undisable", "install", "gate"} : Goto(k, p)
  BY <1>2, <1>3, <1>5
<1>6. CASE \E n, t : req' = [req EXCEPT ![k] = [req[k] EXCEPT !.at = "status", !.next = n, !.tools = t]]
  BY <1>2, <1>4, <1>6
<1>7. CASE Built(k)
  <2>1. Connects(k)
    BY <1>7 DEF Built, At, Connects
  <2>2. CASE req' = [req EXCEPT ![k].at = "status", ![k].next = "error"]
    <3>1. req' = [req EXCEPT ![k] = [req[k] EXCEPT !.at = "status", !.next = "error", !.tools = req[k].tools]]
      BY <1>1, <2>2 DEF Operations
    <3> QED
      BY <1>6, <3>1
  <2>3. CASE Goto(k, "undisable") \/ Goto(k, "done")
    BY <1>2, <1>3, <2>1, <2>3 DEF Points
  <2> QED
    BY <1>7, <2>2, <2>3 DEF Built
<1>8. CASE Undisable(k)
  BY <1>2, <1>3, <1>8 DEF Undisable, At, Connects, Points
<1>9. CASE IsConnected(k)
  <2>1. PICK p \in {"live", "remove", "gate", "erase", "status"} :
          Goto(k, p) /\ (p = "gate" => req[k].op = "worker")
    BY <1>9 DEF IsConnected
  <2> QED
    BY <1>2, <1>3, <2>1 DEF Points
<1>10. CASE LiveClient(k)
  <2>1. CASE req' = [req EXCEPT ![k].at = "status", ![k].next = "connected"]
    <3>1. req' = [req EXCEPT ![k] = [req[k] EXCEPT !.at = "status", !.next = "connected", !.tools = req[k].tools]]
      BY <1>1, <2>1 DEF Operations
    <3> QED
      BY <1>6, <3>1
  <2>2. CASE Goto(k, "use") \/ Goto(k, "done")
    BY <1>5, <2>2 DEF Points
  <2> QED
    BY <1>10, <2>1, <2>2 DEF LiveClient
<1>11. CASE Used(k)
  <2>1. CASE req[k].op = "connect"
    BY <1>1, <1>6, <1>11, <2>1 DEF Used
  <2>2. CASE req[k].op # "connect"
    BY <1>5, <1>11, <2>2 DEF Used, Goto, Points
  <2> QED
    BY <2>1, <2>2
<1>12. CASE Install(k)
  BY <1>5, <1>12 DEF Install, AfterInstall, Points
<1>13. CASE CallTool(k) \/ EnsureConnected(k) \/ Remove(k) \/ SetStatus(k) \/ SetTools(k) \/ DeleteRow(k)
  BY <1>5, <1>13 DEF CallTool, EnsureConnected, Remove, SetStatus, SetTools, DeleteRow, Points
<1> QED
  BY <1>7, <1>8, <1>9, <1>10, <1>11, <1>12, <1>13 DEF Handler

(* Whoever connects without passing the check of disabled is not a worker,   *)
(* and whoever passes it finds the id not disconnected.                      *)
LEMMA BuildBinds ==
  ASSUME TypeInv, BindInv, NEW k \in Caller, NEW op, NEW c \in Config, Build(k, op, c),
         op = "worker" => ~disabled, UNCHANGED manager
  PROVE  BindInv'
<1>1. req \in [Caller -> Operations] /\ address \in [Caller -> Config \cup {None}]
  BY ServersAssumption DEF TypeInv, TypeOK
<1>2. /\ req'[k].op = op /\ req'[k].at = "build" /\ req'[k].config = c
      /\ address'[k] = c /\ c # None
  BY <1>1, ServersAssumption DEF Build, Set, NoOp
<1>3. \A j \in Caller : j # k => req'[j] = req[j] /\ address'[j] = address[j]
  BY <1>1 DEF Build
<1> QED
  BY <1>2, <1>3 DEF BindInv, Owned, Bound, Connects, manager

LEMMA BindInvNext == TypeInv /\ BindInv /\ [Next]_vars => BindInv'
<1> SUFFICES ASSUME TypeInv, BindInv, [Next]_vars PROVE BindInv'
  OBVIOUS
<1>1. req \in [Caller -> Operations] /\ (row # None => row.config \in Config)
  BY DEF TypeInv, TypeOK, Rows
<1>2. CASE UNCHANGED <<manager, req, address>>
  BY <1>2 DEF BindInv, Owned, Bound, Connects, manager
<1>3. CASE \E k \in Requests : Operator(k) \/ LoadTools(k)
  <2> PICK k \in Requests : Operator(k) \/ LoadTools(k)
    BY <1>3
  <2>0. k \in Caller
    BY DEF Requests
  <2>1. CASE \E op \in Ops : Operate(k, op)
    <3>1. PICK op \in {"connect", "test", "tools"}, c \in Config : Build(k, op, c) /\ UNCHANGED manager
      BY <1>1, <2>1 DEF Operate
    <3> QED
      BY <2>0, <3>1, BuildBinds
  <2>2. CASE Disconnect(k) \/ Delete(k) \/ LoadTools(k)
    <3>1. At(k, "idle") /\ UNCHANGED <<manager, address>>
          /\ \A j \in Caller : j # k => req'[j] = req[j]
      BY <1>1, <2>0, <2>2 DEF Disconnect, Delete, LoadTools
    <3>2. client # k
      BY <2>0, <3>1 DEF BindInv, Owned, Connects, At
    <3>3. req'[k].at \in {"probe", "loaded"} /\ (req'[k].op = "worker" => req'[k].config # None)
      <4>1. CASE Disconnect(k)
        BY <1>1, <2>0, <4>1 DEF Disconnect, Set, NoOp
      <4>2. CASE Delete(k)
        BY <1>1, <2>0, <4>2 DEF Delete, Set, NoOp
      <4>3. CASE LoadTools(k)
        BY <1>1, <2>0, <4>3, ServersAssumption DEF LoadTools, Set, NoOp
      <4> QED
        BY <2>2, <4>1, <4>2, <4>3
    <3> QED
      BY <3>1, <3>2, <3>3 DEF BindInv, Owned, Bound, Connects, manager
  <2> QED
    BY <2>1, <2>2 DEF Operator
<1>4. CASE SyncEnabled
  BY <1>1, <1>2, <1>4, BuildBinds, ServersAssumption DEF SyncEnabled
<1>5. CASE Restart
  <2>1. /\ client' = None /\ ~disabled' /\ UNCHANGED address
        /\ \A k \in Caller : req'[k] = IF k = Boot THEN NoOp
                                       ELSE IF At(k, "idle") THEN req[k] ELSE [NoOp EXCEPT !.at = "done"]
    BY <1>5 DEF Restart
  <2>2. \A k \in Caller : k # None
    BY ServersAssumption
  <2> QED
    BY <2>1, <2>2 DEF BindInv, Owned, Bound, Connects, NoOp, At
<1>6. CASE \E k \in Caller : Handler(k)
  <2> PICK k \in Caller : Handler(k)
    BY <1>6
  <2>1. CASE EnsureConnected(k) /\ ~disabled
    <3>1. req[k].config \in Config
      BY <1>1, <2>1 DEF EnsureConnected, At, BindInv, Owned, Operations
    <3> QED
      BY <2>1, <3>1, BuildBinds DEF EnsureConnected
  <2>2. CASE Disable(k)
    <3>1. /\ UNCHANGED <<client, address>>
          /\ asked' = {c \in Caller : address[c] # None}
          /\ \A j \in Caller : j # k => req'[j] = req[j]
      BY <1>1, <2>2 DEF Disable, Goto
    <3>2. /\ req'[k].op = req[k].op /\ req'[k].config = req[k].config
          /\ req'[k].at \in {"erase", "done", "status"}
      <4>1. PICK p \in {"erase", "done", "status"} : Goto(k, p)
        BY <2>2 DEF Disable
      <4> QED
        BY <1>1, <4>1 DEF Goto, Operations
    <3>3. \A j \in Caller : Connects(j)' => Connects(j)
      BY <3>1, <3>2 DEF Connects
    <3> QED
      BY <3>1, <3>2, <3>3 DEF BindInv, Owned, Bound
  <2>3. CASE ~Disable(k) /\ (EnsureConnected(k) => disabled)
    <3>1. \A j \in Caller : Connects(j)' => Connects(j)
      BY <2>3, HandlerKeepsConnecting, ServersAssumption DEF Connects
    <3> QED
      BY <2>3, <3>1, HandlerKeepsConnecting DEF BindInv, Owned, Bound
  <2> QED
    BY <2>1, <2>2, <2>3
<1>7. CASE Network \/ \E c \in Config, e \in BOOLEAN : Create(c, e) \/ Update(c, e)
  BY <1>2, <1>7 DEF Network, Create, Update
<1> QED
  BY <1>2, <1>3, <1>4, <1>5, <1>6, <1>7 DEF Next, vars

(* While an id is marked as disconnected the only workers that connect, or   *)
(* whose connection is registered, are those that were on their way when it  *)
(* was marked: every later one is refused.                                   *)
THEOREM McpDisconnectBinds == Spec => []DisconnectBindsLaterWorkers
<1>1. Init => BindInv
  BY ServersAssumption DEF Init, BindInv, Owned, Bound, Connects, NoOp
<1>2. BindInv => DisconnectBindsLaterWorkers
  BY DEF BindInv, Bound, DisconnectBindsLaterWorkers
<1>3. Spec => []TypeInv
  BY TypeInvInit, TypeInvNext, PTL DEF Spec
<1> QED
  BY <1>1, <1>2, <1>3, BindInvNext, PTL DEF Spec

-----------------------------------------------------------------------------
(* Why an exchange is short.  A call, initialize, the notification and the   *)
(* call again are at most four requests of at most four steps each.          *)
InRequest(k) ==
  CASE rpc[k].step = "look"     -> 4
    [] rpc[k].step = "post"     -> 3
    [] rpc[k].step = "sent"     -> 2
    [] rpc[k].step = "answered" -> 1
    [] OTHER                    -> 0

RequestsBehind(k) ==
  CASE rpc[k].phase = "init"   -> 7
    [] rpc[k].phase = "notify" -> 4
    [] OTHER                   -> IF rpc[k].again THEN 0 ELSE 11

Left(k) ==
  CASE rpc[k].step \in {"idle", "done"} -> 0
    [] rpc[k].step = "dial"             -> 1
    [] OTHER                            -> RequestsBehind(k) + InRequest(k)

(* An initialize and its notification belong to a repetition, and each answer to *)
(* the request it is an answer to.                                               *)
InOrder(k) ==
  /\ rpc[k].phase # "main" => rpc[k].again
  /\ rpc[k].reply = "session" => rpc[k].phase = "init"
  /\ rpc[k].reply = "accepted" => rpc[k].phase = "notify"

LEMMA LeftIsBounded ==
  ASSUME NEW k \in Caller, rpc[k] \in Exchanges
  PROVE  Left(k) \in 0..15
BY DEF Left, RequestsBehind, InRequest, Exchanges, Phases

LEMMA ExchangeShortens ==
  ASSUME rpc \in [Caller -> Exchanges], NEW k \in Caller, InOrder(k), Exchange(k)
  PROVE  InOrder(k)' /\ Left(k)' < Left(k)
<1>t. rpc[k] \in Exchanges
  OBVIOUS
<1>f. ASSUME NEW o, Finish(k, o), rpc[k].step \notin {"idle", "done"}
      PROVE  InOrder(k)' /\ Left(k)' < Left(k)
  <2>1. /\ rpc'[k].step = "done" /\ rpc'[k].phase = "main" /\ rpc'[k].reply = "none"
    BY <1>f DEF Finish, Idle
  <2>2. Left(k)' = 0
    BY <2>1 DEF Left
  <2>3. Left(k) > 0
    BY <1>f, <1>t DEF Left, RequestsBehind, InRequest, Exchanges, Phases
  <2> QED
    BY <2>1, <2>2, <2>3 DEF InOrder
<1>a. ASSUME NEW r \in Replies, Answer(k, r), r = "session" => rpc[k].phase = "init",
             r = "accepted" => rpc[k].phase = "notify"
      PROVE  InOrder(k)' /\ Left(k)' < Left(k)
  <2> DEFINE a == [rpc[k] EXCEPT !.step = "answered", !.reply = r]
  <2>1. rpc[k].step = "sent" /\ rpc'[k] = a
    BY <1>a DEF Answer
  <2>2. /\ a.step = "answered" /\ a.reply = r /\ a.phase = rpc[k].phase
        /\ a.again = rpc[k].again
    BY <1>t DEF Exchanges
  <2> HIDE DEF a
  <2> QED
    BY <1>a, <1>t, <2>1, <2>2 DEF InOrder, Left, RequestsBehind, InRequest, Exchanges, Phases
<1>p. ASSUME NEW s \in {"look", "post"}, NEW q \in Phases, Proceed(k, s, q)
      PROVE  /\ rpc'[k].step = s /\ rpc'[k].phase = q /\ rpc'[k].reply = "none"
             /\ rpc'[k].again = rpc[k].again
  <2> DEFINE r == [rpc[k] EXCEPT !.step = s, !.phase = q, !.reply = "none", !.had = FALSE,
                                !.sent = None]
  <2>1. rpc' = [rpc EXCEPT ![k] = r]
    BY <1>p DEF Proceed
  <2>2. r.step = s /\ r.phase = q /\ r.reply = "none" /\ r.again = rpc[k].again
    BY <1>t DEF Exchanges
  <2> HIDE DEF r
  <2> QED
    BY <2>1, <2>2
<1>1. CASE Look(k)
  <2>1. /\ rpc[k].step = "look" /\ rpc'[k].step = "post" /\ rpc'[k].phase = rpc[k].phase
        /\ rpc'[k].reply = rpc[k].reply /\ rpc'[k].again = rpc[k].again
    BY <1>1, <1>t DEF Look, Exchanges
  <2> QED
    BY <1>t, <2>1 DEF InOrder, Left, RequestsBehind, InRequest, Exchanges, Phases
<1>2. CASE Post(k)
  <2>1. /\ rpc[k].step = "post" /\ rpc'[k].step = "sent" /\ rpc'[k].phase = rpc[k].phase
        /\ rpc'[k].reply = rpc[k].reply /\ rpc'[k].again = rpc[k].again
    BY <1>2, <1>t DEF Post, Exchanges
  <2> QED
    BY <1>t, <2>1 DEF InOrder, Left, RequestsBehind, InRequest, Exchanges, Phases
<1>3. CASE ReceiveExpired(k)
  <2>1. CASE Finish(k, "error")
    BY <1>3, <1>f, <2>1 DEF ReceiveExpired
  <2>2. CASE ~Finish(k, "error")
    <3> DEFINE r == [Idle EXCEPT !.step = "look", !.goal = rpc[k].goal,
                                 !.phase = "init", !.conn = rpc[k].conn, !.again = TRUE]
    <3>1. /\ rpc' = [rpc EXCEPT ![k] = r] /\ rpc[k].step = "answered"
          /\ rpc[k].phase = "main" /\ ~rpc[k].again
      BY <1>3, <2>2 DEF ReceiveExpired
    <3>2. r.step = "look" /\ r.phase = "init" /\ r.again /\ r.reply = "none"
      BY DEF Idle
    <3> HIDE DEF r
    <3>3. Left(k) = 12
      BY <3>1 DEF Left, RequestsBehind, InRequest
    <3>4. rpc'[k].step = "look" /\ rpc'[k].phase = "init" /\ rpc'[k].again /\ rpc'[k].reply = "none"
      BY <3>1, <3>2
    <3>5. Left(k)' = 11
      BY <3>4 DEF Left, RequestsBehind, InRequest
    <3> QED
      BY <3>3, <3>4, <3>5 DEF InOrder
  <2> QED
    BY <2>1, <2>2
<1>4. CASE ReceiveSession(k)
  <2>1. /\ rpc[k].step = "answered" /\ rpc[k].phase = "init" /\ rpc[k].again
        /\ Proceed(k, "post", "notify")
    BY <1>4 DEF ReceiveSession, InOrder
  <2>2. /\ rpc'[k].step = "post" /\ rpc'[k].phase = "notify" /\ rpc'[k].reply = "none"
        /\ rpc'[k].again
    BY <1>p, <2>1 DEF Phases
  <2> QED
    BY <2>1, <2>2 DEF InOrder, Left, RequestsBehind, InRequest
<1>5. CASE ReceiveAccepted(k)
  <2>1. /\ rpc[k].step = "answered" /\ rpc[k].phase = "notify" /\ rpc[k].again
        /\ Proceed(k, "look", "main")
    BY <1>5 DEF ReceiveAccepted, InOrder
  <2>2. /\ rpc'[k].step = "look" /\ rpc'[k].phase = "main" /\ rpc'[k].reply = "none"
        /\ rpc'[k].again
    BY <1>p, <2>1 DEF Phases
  <2> QED
    BY <2>1, <2>2 DEF InOrder, Left, RequestsBehind, InRequest
<1>6. CASE ReceiveResult(k) \/ ReceiveFailed(k) \/ TimeOut(k) \/ Dial(k)
  <2>1. rpc[k].step \notin {"idle", "done"} /\ \E o \in Outcomes : Finish(k, o)
    BY <1>6 DEF ReceiveResult, ReceiveFailed, TimeOut, Dial, Outcomes
  <2> QED
    BY <1>f, <2>1
<1>7. CASE \/ OpenSession(k) \/ AcceptNotification(k) \/ Execute(k) \/ UnknownSession(k)
           \/ MissingSession(k) \/ Unreachable(k)
  <2>1. PICK r \in Replies : /\ Answer(k, r)
                             /\ r = "session" => rpc[k].phase = "init"
                             /\ r = "accepted" => rpc[k].phase = "notify"
    BY <1>7 DEF OpenSession, AcceptNotification, Execute, UnknownSession, MissingSession,
                Unreachable, Replies
  <2> QED
    BY <1>a, <2>1
<1> QED
  BY <1>1, <1>2, <1>3, <1>4, <1>5, <1>6, <1>7 DEF Exchange, Client, Server

(* What else may become of a caller's exchange: it begins, or the process     *)
(* stops.                                                                     *)
Opens(k) == /\ req[k].at \in {"idle", "gate", "live"}
            /\ rpc'[k].phase = "main" /\ rpc'[k].reply = "none"

LEMMA ExchangesMove ==
  ASSUME RunsInv, [Next]_vars, NEW k \in Caller
  PROVE  rpc'[k] = rpc[k] \/ rpc'[k] = Idle \/ Exchange(k) \/ Opens(k)
<1>t. rpc \in [Caller -> Exchanges]
  BY DEF RunsInv, TypeInv, TypeOK, SessionTypeOK
<1>b. ASSUME NEW j \in Caller, NEW c, NEW goal, Begin(j, c, goal),
             req[j].at \in {"idle", "gate", "live"}
      PROVE  rpc'[k] = rpc[k] \/ Opens(k)
  BY <1>t, <1>b DEF Begin, Idle, Opens
<1>1. CASE \E j \in Caller : Handler(j)
  <2> PICK j \in Caller : Handler(j)
    BY <1>1
  <2>1. CASE EnsureConnected(j) \/ LiveClient(j)
    BY <1>b, <2>1 DEF EnsureConnected, LiveClient, Build, At, session
  <2>2. CASE ~ (EnsureConnected(j) \/ LiveClient(j))
    BY <2>2 DEF Handler, CallTool, IsConnected, Built, Undisable, Install, Used, Remove,
       Disable, SetStatus, SetTools, DeleteRow, session
  <2> QED
    BY <2>1, <2>2
<1>2. CASE \E j \in Requests : Operator(j) \/ LoadTools(j)
  <2> PICK j \in Requests : Operator(j) \/ LoadTools(j)
    BY <1>2
  <2>1. j \in Caller
    BY DEF Requests
  <2>2. CASE \E op \in Ops : Operate(j, op)
    BY <1>b, <2>1, <2>2 DEF Operate, Build, At
  <2>3. CASE Disconnect(j) \/ Delete(j) \/ LoadTools(j)
    BY <2>3 DEF Disconnect, Delete, LoadTools, session
  <2> QED
    BY <2>2, <2>3 DEF Operator
<1>3. CASE SyncEnabled
  BY <1>b, <1>3, ServersAssumption DEF SyncEnabled, Build, At, session
<1>4. CASE Network
  <2>1. CASE \E s \in valid : Expire(s)
    BY <2>1 DEF Expire
  <2>2. ASSUME NEW j \in Caller, Exchange(j), j # k PROVE rpc'[k] = rpc[k]
    BY <1>t, <2>2 DEF Exchange, Client, Server, Look, Post, ReceiveExpired, ReceiveSession,
       ReceiveAccepted, ReceiveResult, ReceiveFailed, Dial, OpenSession, AcceptNotification,
       Execute, UnknownSession, MissingSession, Unreachable, TimeOut, Finish, Proceed, Answer
  <2> QED
    BY <1>4, <2>1, <2>2 DEF Network
<1>5. CASE Restart
  BY <1>5 DEF Restart
<1>6. CASE UNCHANGED vars \/ \E c \in Config, e \in BOOLEAN : Create(c, e) \/ Update(c, e)
  BY <1>6 DEF vars, Create, Update, session
<1> QED
  BY <1>1, <1>2, <1>3, <1>4, <1>5, <1>6 DEF Next

(* An exchange under way only comes nearer to its end. *)
Shortens ==
  \A k \in Caller :
    rpc[k].step \notin {"idle", "done"} /\ rpc'[k] # rpc[k] => Left(k)' < Left(k)

LEMMA ShortensStep ==
  RunsInv /\ (\A k \in Caller : InOrder(k)) /\ [Next]_vars =>
    (\A k \in Caller : InOrder(k)') /\ Shortens
<1> SUFFICES ASSUME RunsInv, \A k \in Caller : InOrder(k), [Next]_vars, NEW k \in Caller
             PROVE  /\ InOrder(k)'
                    /\ rpc[k].step \notin {"idle", "done"} /\ rpc'[k] # rpc[k] =>
                         Left(k)' < Left(k)
  BY DEF Shortens
<1>t. rpc \in [Caller -> Exchanges] /\ rpc[k] \in Exchanges
  BY DEF RunsInv, TypeInv, TypeOK, SessionTypeOK
<1>1. CASE rpc'[k] = rpc[k]
  BY <1>1 DEF InOrder
<1>2. CASE rpc'[k] = Idle
  <2>1. InOrder(k)' /\ Left(k)' = 0
    BY <1>2 DEF Idle, InOrder, Left
  <2>2. rpc[k].step \notin {"idle", "done"} => Left(k) > 0
    BY <1>t DEF Left, RequestsBehind, InRequest, Exchanges, Phases
  <2>3. Left(k) \in 0..15
    BY <1>t, LeftIsBounded
  <2> QED
    BY <2>1, <2>2, <2>3
<1>3. CASE Exchange(k)
  BY <1>t, <1>3, ExchangeShortens
<1>4. CASE Opens(k)
  <2>1. InOrder(k)'
    BY <1>4 DEF Opens, InOrder
  <2>2. rpc[k].step \in {"idle", "done"}
    BY <1>t, <1>4 DEF Opens, RunsInv, Tracked, Exchanges
  <2> QED
    BY <2>1, <2>2
<1> QED
  BY <1>1, <1>2, <1>3, <1>4, ExchangesMove

(* However many sessions the server forgets, an exchange is over after at most     *)
(* fifteen steps of its caller and of the server, four requests among them: a      *)
(* second 404 ends it.                                                             *)
THEOREM McpExchangesAreShort ==
  Spec => [](\A k \in Caller : Left(k) \in 0..15) /\ [][Shortens]_vars
<1> DEFINE Ordered == \A k \in Caller : InOrder(k)
<1>1. Init => Ordered
  BY DEF Init, SessionInit, Idle, InOrder
<1>2. RunsInv /\ Ordered /\ [Next]_vars => Ordered' /\ Shortens
  BY ShortensStep
<1>3. RunsInv => \A k \in Caller : Left(k) \in 0..15
  BY LeftIsBounded DEF RunsInv, TypeInv, TypeOK, SessionTypeOK
<1> HIDE DEF Ordered
<1> QED
  BY <1>1, <1>2, <1>3, AlwaysRunsInv, PTL DEF Spec
=============================================================================
