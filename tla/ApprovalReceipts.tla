-------------------------- MODULE ApprovalReceipts --------------------------
(***************************************************************************)
(* The approval_requests table and the five operations of ApprovalRepo     *)
(* (crates/coevo-store/src/repos/approval_repo.rs).  approve, deny and     *)
(* consume_approved read the clock, wait for a connection and then run one *)
(* guarded UPDATE, which compares the deadline with the earlier reading;   *)
(* expire_pending selects the overdue rows and updates them one by one.    *)
(* Anyone may act between the two halves of each.                          *)
(*                                                                         *)
(* Wall-clock time appears only as the time a row has left: expires_at_ms  *)
(* minus now, in coarse ticks, with -1 for "expires_at_ms < now".          *)
(***************************************************************************)
EXTENDS Integers

CONSTANTS
  Approval,  \* identifiers of approval rows (fresh UUIDs in the code)
  Timeout    \* ticks a fresh request stays decidable (timeout_ms of create)

ASSUME TimeoutAssumption == Timeout \in Nat

VARIABLES
  status,    \* status column of each row; "absent" before the INSERT
  remaining, \* expires_at_ms - now
  timely,    \* calls on a row that read the clock before its deadline and have
             \* not run their UPDATE
  sweep,     \* rows a running expire_pending has selected and not yet updated
  missed     \* history: rows nobody had decided when their deadline passed

vars == <<status, remaining, timely, sweep, missed>>

RowCalls == {"approve", "deny", "consume"}

Statuses == {"absent", "pending", "approved", "denied", "expired", "consumed"}

(* The rows no operation may change again. *)
Settled == {"denied", "expired", "consumed"}

TypeOK ==
  /\ status \in [Approval -> Statuses]
  /\ remaining \in [Approval -> -1..Timeout]
  /\ timely \in [Approval -> SUBSET RowCalls]
  /\ sweep \subseteq Approval
  /\ missed \subseteq Approval

Init ==
  /\ status = [a \in Approval |-> "absent"]
  /\ remaining = [a \in Approval |-> -1]
  /\ timely = [a \in Approval |-> {}]
  /\ sweep = {}
  /\ missed = {}

-----------------------------------------------------------------------------
(* expires_at_ms >= now *)
Unexpired(a) == remaining[a] >= 0

(* The call c finds the row with the status it asks for, and its reading of the
   clock says the deadline has not passed, whatever the clock says by now. *)
Matches(c, a, s) == c \in timely[a] /\ status[a] = s

(* Rows the guarded UPDATE of approve, and that of deny, matches. *)
Decidable(c, a) == Matches(c, a, "pending")

(* Rows the guarded UPDATE of consume_approved matches. *)
Consumable(a) == Matches("consume", a, "approved")

(* Rows the UPDATE of expire_pending matches: it compares expires_at_ms with
   the clock of its SELECT, which has passed for good, so only the status can
   still exclude a row. *)
Overdue(a) == status[a] = "pending" /\ ~Unexpired(a)

Create(a) ==
  /\ status[a] = "absent"
  /\ status' = [status EXCEPT ![a] = "pending"]
  /\ remaining' = [remaining EXCEPT ![a] = Timeout]
  /\ UNCHANGED <<timely, sweep, missed>>

(* Mutant: consume_approved without the expires_at_ms >= ? conjunct. *)
ReadClockToDecide(c, a) ==
  /\ status[a] # "absent"
  /\ c = "consume" => status[a] \in {"approved", "consumed"}
  /\ c # "consume" => Unexpired(a)
  /\ timely' = [timely EXCEPT ![a] = @ \cup {c}]
  /\ UNCHANGED <<status, remaining, sweep, missed>>

(* The first line of approve, deny and consume_approved.  A call that reads the
   clock behind the deadline matches nothing and is left out, like the UPDATEs
   that find another status; two calls of a kind on a row are as good as one,
   for the row never returns to the status they ask for.  consume_approved is
   called only for a row that its caller has found approved (opc.rs,
   execute_work_order). *)
ReadClock(c, a) ==
  /\ status[a] # "absent"
  /\ c = "consume" => status[a] \in {"approved", "consumed"}
  /\ Unexpired(a)
  /\ timely' = [timely EXCEPT ![a] = @ \cup {c}]
  /\ UNCHANGED <<status, remaining, sweep, missed>>

(* The UPDATE of the call c. *)
Store(c, a, s) ==
  /\ status' = [status EXCEPT ![a] = s]
  /\ timely' = [timely EXCEPT ![a] = @ \ {c}]
  /\ UNCHANGED <<remaining, sweep, missed>>

(* Mutant: approve stores a status the table's CHECK does not list. *)
ApproveMisspelt(a) == Decidable("approve", a) /\ Store("approve", a, "accepted")

Approve(a) == Decidable("approve", a) /\ Store("approve", a, "approved")

Deny(a) == Decidable("deny", a) /\ Store("deny", a, "denied")

Consume(a) == Consumable(a) /\ Store("consume", a, "consumed")

(* expire_pending: the SELECT.  Its clock is a little old as well: rows that
   have lapsed since are not selected. *)
SelectOverdue ==
  /\ sweep = {}
  /\ sweep' \in SUBSET {a \in Approval : Overdue(a)}
  /\ UNCHANGED <<status, remaining, timely, missed>>

(* Mutant: the sweep trusts its list. *)
ExpireTrusted(a) ==
  /\ a \in sweep
  /\ sweep' = sweep \ {a}
  /\ status' = [status EXCEPT ![a] = "expired"]
  /\ UNCHANGED <<remaining, timely, missed>>

(* expire_pending: the UPDATE of one selected row. *)
ExpireSelected(a) ==
  /\ a \in sweep
  /\ sweep' = sweep \ {a}
  /\ status' = [status EXCEPT ![a] = IF @ = "pending" THEN "expired" ELSE @]
  /\ UNCHANGED <<remaining, timely, missed>>

(* An UPDATE fails or the call is dropped: the rest of its list is forgotten. *)
StopSweep ==
  /\ sweep' = {}
  /\ UNCHANGED <<status, remaining, timely, missed>>

(* One tick of the clock. *)
Elapse ==
  /\ remaining' = [a \in Approval |->
                     IF Unexpired(a) THEN remaining[a] - 1 ELSE remaining[a]]
  /\ missed' = missed \cup {a \in Approval : status[a] = "pending" /\ remaining[a] = 0}
  /\ UNCHANGED <<status, timely, sweep>>

Next ==
  \/ \E a \in Approval :
        \/ Create(a) \/ Approve(a) \/ Deny(a) \/ Consume(a) \/ ExpireSelected(a)
        \/ \E c \in RowCalls : ReadClock(c, a)
  \/ SelectOverdue
  \/ StopSweep
  \/ Elapse

Spec == Init /\ [][Next]_vars

-----------------------------------------------------------------------------
(* A decision is final: a denied, expired or consumed row never changes, an
   approved row can only become consumed, and no row leaves the table.  A
   decider with an old reading of the clock may decide a row the sweep has
   selected, and a second decider or a consumer may come in between: only the
   status each UPDATE asks for keeps one from overwriting the other (test
   terminal_approval_rows_cannot_be_overwritten). *)
DecisionsAreFinal ==
  [][\A a \in Approval :
       /\ status[a] \in Settled => status'[a] = status[a]
       /\ status[a] = "approved" => status'[a] \in {"approved", "consumed"}
       /\ status[a] # "absent" => status'[a] # "absent"]_vars

(* A request that nobody had decided at its deadline never pays for a run.  A
   call of approve that read the clock in time may still approve it, any time
   later; but whoever finds it approved reads the clock after that, and
   consume_approved asks for the deadline again. *)
MissedRequestsAreNeverSpent ==
  \A a \in missed : status[a] # "consumed"

=============================================================================
