----------------------------- MODULE McpSession -----------------------------
(***************************************************************************)
(* A Streamable-HTTP MCP connection shared by concurrent callers           *)
(* (crates/coevo-adapters/src/mcp_client/client.rs and http.rs).           *)
(*                                                                         *)
(* A connection holds at most one session id.  Every request carries the   *)
(* id held when it is posted; a 404 answered to a request whose caller saw *)
(* a session is taken for "the session expired": the id is dropped, the    *)
(* caller initializes once more and sends its request again.  The held id  *)
(* is read, sent and replaced in separate steps, so callers meet each      *)
(* other's sessions.                                                       *)
(***************************************************************************)
EXTENDS Naturals, FiniteSets

CONSTANTS
  Caller,     \* requests that use a connection, one exchange at a time
  Conn,       \* connections (McpClient objects over HttpTransport)
  None,       \* no session, no connection
  MaxExpiries \* bound: sessions the server forgets

ASSUME SessionAssumption ==
  /\ MaxExpiries \in Nat
  /\ None \notin Conn

(* The server names a session for each initialize it accepts: one of a    *)
(* caller that connects, one of a caller that initializes again.          *)
Session == Caller \X {"connect", "again"}

ASSUME NoSessionAssumption == None \notin Session

VARIABLES
  held,     \* HttpTransport.session of each connection
  valid,    \* sessions the server still knows
  rpc,      \* the exchange of each caller
  ran,      \* times the server executed the caller's tools/call
  expiries  \* sessions forgotten so far

session == <<held, valid, rpc, ran, expiries>>

Goals == {"connect", "list", "call"}
Phases == {"init", "notify", "main"}
Replies == {"none", "session", "accepted", "result", "expired", "failed"}
Outcomes == {"none", "ok", "error", "timeout"}

Exchanges ==
  [step : {"idle", "dial", "look", "post", "sent", "answered", "done"},
   goal : Goals, phase : Phases, conn : Conn \cup {None},
   had : BOOLEAN, sent : Session \cup {None},
   reply : Replies, again : BOOLEAN, outcome : Outcomes]

Idle == [step |-> "idle", goal |-> "call", phase |-> "main", conn |-> None,
         had |-> FALSE, sent |-> None, reply |-> "none", again |-> FALSE,
         outcome |-> "none"]

SessionTypeOK ==
  /\ held \in [Conn -> Session \cup {None}]
  /\ valid \subseteq Session
  /\ rpc \in [Caller -> Exchanges]
  /\ ran \in [Caller -> Nat]
  /\ expiries \in 0..MaxExpiries

SessionInit ==
  /\ held = [c \in Conn |-> None]
  /\ valid = {}
  /\ rpc = [k \in Caller |-> Idle]
  /\ ran = [k \in Caller |-> 0]
  /\ expiries = 0

-----------------------------------------------------------------------------
(* The client. *)
HeldBy(k) == held[rpc[k].conn]

Begin(k, c, goal) ==
  /\ rpc' = [rpc EXCEPT ![k] =
       [Idle EXCEPT !.step = IF goal = "connect" THEN "dial" ELSE "look",
                    !.goal = goal, !.conn = c]]
  /\ UNCHANGED <<held, valid, ran, expiries>>

(* had_session is read before the request is built. *)
Look(k) ==
  /\ rpc[k].step = "look"
  /\ rpc' = [rpc EXCEPT ![k].step = "post", ![k].had = HeldBy(k) # None]
  /\ UNCHANGED <<held, valid, ran, expiries>>

Post(k) ==
  /\ rpc[k].step = "post"
  /\ rpc' = [rpc EXCEPT ![k].step = "sent", ![k].sent = HeldBy(k)]
  /\ UNCHANGED <<held, valid, ran, expiries>>

Finish(k, outcome) ==
  rpc' = [rpc EXCEPT ![k] = [Idle EXCEPT !.step = "done", !.goal = rpc[k].goal,
                                         !.conn = rpc[k].conn, !.outcome = outcome]]

Proceed(k, step, phase) ==
  rpc' = [rpc EXCEPT ![k].step = step, ![k].phase = phase, ![k].reply = "none",
                     ![k].had = FALSE, ![k].sent = None]

(* A 404: with a session the exchange clears it and, once, initializes     *)
(* again; an initialize that is refused this way is not repeated, and a    *)
(* notification only reports the status.                                   *)
ReceiveExpired(k) ==
  /\ rpc[k].step = "answered" /\ rpc[k].reply = "expired"
  /\ IF rpc[k].had /\ rpc[k].phase # "notify"
     THEN held' = [held EXCEPT ![rpc[k].conn] = None]
     ELSE UNCHANGED held
  /\ IF rpc[k].had /\ rpc[k].phase = "main" /\ ~rpc[k].again
     THEN rpc' = [rpc EXCEPT ![k] = [Idle EXCEPT !.step = "look", !.goal = rpc[k].goal,
                                       !.phase = "init", !.conn = rpc[k].conn, !.again = TRUE]]
     ELSE Finish(k, "error")
  /\ UNCHANGED <<valid, ran, expiries>>

(* A new connection is initialized before anyone else holds it, so its     *)
(* handshake is one step.                                                  *)
Dial(k) ==
  /\ rpc[k].step = "dial"
  /\ \/ /\ valid' = valid \cup {<<k, "connect">>}
        /\ held' = [held EXCEPT ![rpc[k].conn] = <<k, "connect">>]
        /\ Finish(k, "ok")
     \/ /\ Finish(k, "error")
        /\ UNCHANGED <<held, valid>>
  /\ UNCHANGED <<ran, expiries>>

ReceiveSession(k) ==
  /\ rpc[k].step = "answered" /\ rpc[k].reply = "session"
  /\ held' = [held EXCEPT ![rpc[k].conn] = <<k, "again">>]
  /\ Proceed(k, "post", "notify")
  /\ UNCHANGED <<valid, ran, expiries>>

(* notifications/initialized was accepted: back to the request. *)
ReceiveAccepted(k) ==
  /\ rpc[k].step = "answered" /\ rpc[k].reply = "accepted"
  /\ Proceed(k, "look", "main")
  /\ UNCHANGED <<held, valid, ran, expiries>>

(* A response may repeat the session id of its request; the client stores  *)
(* the id of any response to a request.                                    *)
Echo(k) ==
  \/ UNCHANGED held
  \/ rpc[k].sent # None /\ held' = [held EXCEPT ![rpc[k].conn] = rpc[k].sent]

ReceiveResult(k) ==
  /\ rpc[k].step = "answered" /\ rpc[k].reply = "result"
  /\ Echo(k)
  /\ Finish(k, "ok")
  /\ UNCHANGED <<valid, ran, expiries>>

(* Mutant: a request whose answer was lost is sent once more. *)
ReceiveFailedRetries(k) ==
  /\ rpc[k].step = "answered" /\ rpc[k].reply = "failed"
  /\ IF rpc[k].again \/ rpc[k].phase # "main" THEN Finish(k, "error")
     ELSE rpc' = [rpc EXCEPT ![k].step = "look", ![k].reply = "none", ![k].again = TRUE,
                             ![k].had = FALSE, ![k].sent = None]
  /\ UNCHANGED <<held, valid, ran, expiries>>

ReceiveFailed(k) ==
  /\ rpc[k].step = "answered" /\ rpc[k].reply = "failed"
  /\ IF rpc[k].phase = "notify" THEN UNCHANGED held ELSE Echo(k)
  /\ Finish(k, "error")
  /\ UNCHANGED <<valid, ran, expiries>>

(* Mutant: the bound covers one request, not the handshake of a retry. *)
TimeOutOfRequest(k) ==
  /\ rpc[k].goal = "call" /\ rpc[k].step \notin {"idle", "done"} /\ rpc[k].phase = "main"
  /\ Finish(k, "timeout")
  /\ UNCHANGED <<held, valid, ran, expiries>>

(* call_tool bounds the whole exchange; a request on its way may still be  *)
(* executed.  initialize and tools/list have no bound.                     *)
TimeOut(k) ==
  /\ rpc[k].goal = "call" /\ rpc[k].step \notin {"idle", "done"}
  /\ Finish(k, "timeout")
  /\ \/ /\ rpc[k].step = "sent" /\ rpc[k].phase = "main" /\ rpc[k].sent \in valid
        /\ ran' = [ran EXCEPT ![k] = @ + 1]
     \/ UNCHANGED ran
  /\ UNCHANGED <<held, valid, expiries>>

-----------------------------------------------------------------------------
(* The server: it opens a session for each initialize, wants one in every  *)
(* other message, and answers 404 to one it does not know (any more).      *)
Answer(k, reply) ==
  /\ rpc[k].step = "sent"
  /\ rpc' = [rpc EXCEPT ![k].step = "answered", ![k].reply = reply]

(* An initialize that names a version the server refuses is repeated with  *)
(* the older one at once; the answer here is the last of the two.          *)
OpenSession(k) ==
  /\ rpc[k].phase = "init"
  /\ Answer(k, "session")
  /\ valid' = valid \cup {<<k, "again">>}
  /\ UNCHANGED <<held, ran, expiries>>

AcceptNotification(k) ==
  /\ rpc[k].phase = "notify" /\ rpc[k].sent \in valid
  /\ Answer(k, "accepted")
  /\ UNCHANGED <<held, valid, ran, expiries>>

(* The request is executed; its response may be lost on the way. *)
Execute(k) ==
  /\ rpc[k].phase = "main" /\ rpc[k].sent \in valid
  /\ Answer(k, "result") \/ Answer(k, "failed")
  /\ ran' = IF rpc[k].goal = "call" THEN [ran EXCEPT ![k] = @ + 1] ELSE ran
  /\ UNCHANGED <<held, valid, expiries>>

UnknownSession(k) ==
  /\ rpc[k].sent # None /\ rpc[k].sent \notin valid
  /\ Answer(k, "expired")
  /\ UNCHANGED <<held, valid, ran, expiries>>

(* No session in a message that needs one, or the exchange breaks. *)
MissingSession(k) ==
  /\ rpc[k].phase # "init" /\ rpc[k].sent = None
  /\ Answer(k, "failed")
  /\ UNCHANGED <<held, valid, ran, expiries>>

Unreachable(k) ==
  /\ Answer(k, "failed")
  /\ UNCHANGED <<held, valid, ran, expiries>>

Expire(s) ==
  /\ s \in valid /\ expiries < MaxExpiries
  /\ valid' = valid \ {s}
  /\ expiries' = expiries + 1
  /\ UNCHANGED <<held, rpc, ran>>

Client(k) ==
  \/ Look(k) \/ Post(k)
  \/ ReceiveExpired(k) \/ ReceiveSession(k)
  \/ ReceiveAccepted(k) \/ ReceiveResult(k) \/ ReceiveFailed(k)

Server(k) ==
  \/ Dial(k) \/ OpenSession(k) \/ AcceptNotification(k)
  \/ Execute(k) \/ UnknownSession(k) \/ MissingSession(k)

Exchange(k) == Client(k) \/ Server(k) \/ TimeOut(k) \/ Unreachable(k)

-----------------------------------------------------------------------------
(* A tool runs at most once for each call, and a call that reports a       *)
(* result ran it: the only request sent twice is one the server answered   *)
(* with 404 (McpClient::rpc).                                              *)
CallsRunOnce ==
  \A k \in Caller :
    /\ ran[k] <= 1
    /\ rpc[k].goal = "call" /\ rpc[k].outcome = "ok" => ran[k] = 1
=============================================================================
