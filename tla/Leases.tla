------------------------------- MODULE Leases -------------------------------
(***************************************************************************)
(* Emergency leases: LeaseManager (coevo-risk, lease.rs) over the leases   *)
(* table (lease_repo.rs).                                                  *)
(*                                                                         *)
(* try_consume is a SELECT, a look at the clock and the scope, a guarded   *)
(* UPDATE and, when that changed nothing, a second SELECT to name the      *)
(* error.  Each statement is a step; other holders of the lease, a         *)
(* revocation, the sweep of expired leases and the clock may act between   *)
(* them, and a holder may stop.                                            *)
(***************************************************************************)
EXTENDS Integers, FiniteSets

CONSTANTS
  Lease,      \* leases that may be granted
  Holder,     \* concurrent calls of try_consume and what they do when it succeeds
  Budget,     \* lease_budget
  NoLease     \* no row, no lease

Row == [used : 0..Budget, active : BOOLEAN, revoked : BOOLEAN]

ASSUME LeaseAssumption ==
  /\ Budget \in Nat \ {0}
  /\ NoLease \notin Lease \cup Row
  /\ IsFiniteSet(Holder)

VARIABLES
  lease,   \* the leases table: a row or NoLease
  lapsed,  \* leases whose expires_at_ms has passed
  holder,  \* where each call of try_consume stands
  late,    \* history: operations a lease gave after it had lapsed
  done     \* history: operations performed under a lease

leases == <<lease, lapsed, holder, late, done>>

Stages == {"idle", "checked", "expired", "refused", "consumed"}

LeaseTypeOK ==
  /\ lease \in [Lease -> Row \cup {NoLease}]
  /\ lapsed \in [Lease -> BOOLEAN]
  /\ holder \in [Holder -> [at : Stages, lease : Lease \cup {NoLease}]]
  /\ late \in [Lease -> Nat]
  /\ done \in [Lease -> Nat]

Idle == [at |-> "idle", lease |-> NoLease]

LeaseInit ==
  /\ lease = [l \in Lease |-> NoLease]
  /\ lapsed = [l \in Lease |-> FALSE]
  /\ holder = [h \in Holder |-> Idle]
  /\ late = [l \in Lease |-> 0]
  /\ done = [l \in Lease |-> 0]

-----------------------------------------------------------------------------
(* LeaseRepo::find_active. *)
Active(l) == lease[l] # NoLease /\ lease[l].active /\ ~lease[l].revoked

At(h, l, stage) == holder' = [holder EXCEPT ![h] = [at |-> stage, lease |-> l]]

(* LeaseManager::grant, the dual signatures verified: an error changes
   nothing. *)
Grant(l) ==
  /\ lease[l] = NoLease
  /\ lease' = [lease EXCEPT ![l] = [used |-> 0, active |-> TRUE, revoked |-> FALSE]]
  /\ UNCHANGED <<lapsed, holder, late, done>>

(* Mutant: the TTL is left to the sweep. *)
CheckWithoutClock(h, l) ==
  /\ holder[h].at = "idle"
  /\ Active(l)
  /\ At(h, l, "checked")
  /\ UNCHANGED <<lease, lapsed, late, done>>

(* try_consume up to its UPDATE, for an action in the lease's scope: outside
   it, and without an active row, the call fails and changes nothing. *)
Check(h, l) ==
  /\ holder[h].at = "idle"
  /\ Active(l)
  /\ At(h, l, IF lapsed[l] THEN "expired" ELSE "checked")
  /\ UNCHANGED <<lease, lapsed, late, done>>

(* LeaseRepo::revoke. *)
Revoked(l) == lease' = [lease EXCEPT ![l].active = FALSE, ![l].revoked = TRUE]

(* The TTL had passed: the call revokes the lease and fails. *)
RevokeExpired(h) ==
  /\ holder[h].at = "expired"
  /\ Revoked(holder[h].lease)
  /\ holder' = [holder EXCEPT ![h] = Idle]
  /\ UNCHANGED <<lapsed, late, done>>

(* Mutant: the UPDATE trusts the row that was read. *)
TrustedConsumable(l) == lease[l].used < Budget

(* Mutant: the budget was looked at when the row was read. *)
UnboundedConsumable(l) == Active(l)

(* LeaseRepo::consume_operation.  Its WHERE does not ask for the expiry. *)
Consumable(l) == Active(l) /\ lease[l].used < Budget

Consume(h) ==
  LET l == holder[h].lease IN
  /\ holder[h].at = "checked"
  /\ IF Consumable(l)
     THEN /\ lease' = [lease EXCEPT ![l].used = @ + 1]
          /\ late' = [late EXCEPT ![l] = IF lapsed[l] THEN @ + 1 ELSE @]
          /\ At(h, l, "consumed")
     ELSE /\ At(h, l, "refused")
          /\ UNCHANGED <<lease, late>>
  /\ UNCHANGED <<lapsed, done>>

(* The second SELECT chooses between BudgetExhausted and
   LeaseExpiredOrRevoked; the call fails. *)
Refused(h) ==
  /\ holder[h].at = "refused"
  /\ holder' = [holder EXCEPT ![h] = Idle]
  /\ UNCHANGED <<lease, lapsed, late, done>>

(* The holder performs the operation it consumed. *)
Perform(h) ==
  /\ holder[h].at = "consumed"
  /\ done' = [done EXCEPT ![holder[h].lease] = @ + 1]
  /\ holder' = [holder EXCEPT ![h] = Idle]
  /\ UNCHANGED <<lease, lapsed, late>>

(* The call is dropped or its process stops, between any two steps. *)
Stop(h) ==
  /\ holder[h].at # "idle"
  /\ holder' = [holder EXCEPT ![h] = Idle]
  /\ UNCHANGED <<lease, lapsed, late, done>>

(* LeaseManager::revoke, by whoever watches the outcome. *)
Revoke(l) ==
  /\ lease[l] # NoLease
  /\ Revoked(l)
  /\ UNCHANGED <<lapsed, holder, late, done>>

(* LeaseRepo::expire_all. *)
ExpireAll ==
  /\ lease' = [l \in Lease |->
                 IF lease[l] # NoLease /\ lapsed[l] THEN [lease[l] EXCEPT !.active = FALSE] ELSE lease[l]]
  /\ UNCHANGED <<lapsed, holder, late, done>>

(* Fifteen minutes pass. *)
Lapse(l) ==
  /\ lease[l] # NoLease
  /\ lapsed' = [lapsed EXCEPT ![l] = TRUE]
  /\ UNCHANGED <<lease, holder, late, done>>

(* A step of anyone but the grantor. *)
LeaseStep ==
  \/ \E h \in Holder, l \in Lease : Check(h, l)
  \/ \E h \in Holder :
       RevokeExpired(h) \/ Consume(h) \/ Refused(h) \/ Perform(h) \/ Stop(h)
  \/ \E l \in Lease : Revoke(l) \/ Lapse(l)
  \/ ExpireAll

-----------------------------------------------------------------------------
(* Calls that have consumed an operation of l and not yet performed it. *)
Pending(l) == {h \in Holder : holder[h].at = "consumed" /\ holder[h].lease = l}

(* Calls that saw l before it lapsed and have not consumed yet. *)
Checked(l) == {h \in Holder : holder[h].at = "checked" /\ holder[h].lease = l}

(* However many hold a lease and wherever they stop, what was performed under
   it and what is about to be was consumed first, and never exceeds its budget
   (lease_repo.rs, consume_operation). *)
LeaseBudgetHolds ==
  \A l \in Lease :
    IF lease[l] = NoLease
    THEN done[l] = 0 /\ Pending(l) = {}
    ELSE done[l] + Cardinality(Pending(l)) <= lease[l].used /\ lease[l].used <= Budget

(* A lapsed lease gives an operation only to a call that looked at the clock
   before: at most one to each, however late the sweep (lease.rs, try_consume:
   the clock is read before the UPDATE, which does not ask again). *)
LateUsesAreBounded ==
  \A l \in Lease : lapsed[l] => late[l] + Cardinality(Checked(l)) <= Cardinality(Holder)

(* A lease that was revoked or expired gives nothing more and never comes
   back, whatever its holders had read before (lease_repo.rs, revoke and
   expire_all). *)
EndedLeasesStayEnded ==
  [][\A l \in Lease : lease[l] # NoLease /\ ~Active(l) =>
       lease'[l] # NoLease /\ ~Active(l)' /\ lease'[l].used = lease[l].used]_leases
=============================================================================
