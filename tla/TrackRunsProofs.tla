--------------------------- MODULE TrackRunsProofs ---------------------------
(* Proofs about the risk gate, the leases and the track runs: for any number *)
(* of runs, intents, leases and holders, and any budget.                     *)
EXTENDS TrackRuns, FiniteSetTheorems, TLAPS

-----------------------------------------------------------------------------
(* The risk gate, for every input and for its callers'. *)

(* A more dangerous action: no factor is lower (quantify.rs). *)
AtLeastAsRisky(b, a) ==
  /\ b.blast_radius >= a.blast_radius
  /\ b.irreversibility >= a.irreversibility
  /\ b.environment_sensitivity >= a.environment_sensitivity
  /\ b.reversibility >= a.reversibility

(* Rounding keeps the order of risks. *)
LEMMA RiskIsMonotone ==
  ASSUME NEW a \in Actions, NEW b \in Actions, AtLeastAsRisky(b, a)
  PROVE  /\ compute_action_risk(a) \in Nat
         /\ compute_action_risk(b) \in Nat
         /\ compute_action_risk(b) >= compute_action_risk(a)
<1> DEFINE w(c) == 30 * c.blast_radius + 35 * c.irreversibility + 20 * c.environment_sensitivity
                   + 15 * c.reversibility
<1>1. /\ w(a) \in Nat
      /\ w(b) \in Nat
      /\ w(b) >= w(a)
  BY DEF Actions, AtLeastAsRisky
<1>2. /\ compute_action_risk(a) = (2 * w(a) + 3) \div 6
      /\ compute_action_risk(b) = (2 * w(b) + 3) \div 6
  BY DEF compute_action_risk, Nearest
<1> HIDE DEF w
<1> QED
  BY <1>1, <1>2

(* Raising a factor never turns a decision into ALLOW: with the same stances,
   policy and veto, an action the gate allows is allowed in every less
   dangerous form (decision_tree.rs, the confidence comparison). *)
THEOREM RiskierIsNotAllowed ==
  ASSUME NEW a \in Actions, NEW b \in Actions, AtLeastAsRisky(b, a),
         NEW s \in Settings, NEW told \in Policies, NEW veto \in BOOLEAN, NEW leasable \in BOOLEAN,
         evaluate(told, veto, b, s, leasable) = "ALLOW"
  PROVE  evaluate(told, veto, a, s, leasable) = "ALLOW"
<1>1. told = "passed" /\ ~veto /\ Confident(b, s)
  BY DEF evaluate
<1>2. available_confidence(s) \in Int
  BY DEF available_confidence, Settings
<1>3. Confident(a, s)
  BY <1>1, <1>2, RiskIsMonotone DEF Confident
<1> QED
  BY <1>1, <1>3 DEF evaluate

(* A red run is never allowed and never gets a lease: its risk is 100, its
   confidence 22 and the risk of doing nothing 81, so its lease and the loop
   under it are out of reach (red.rs, Steps 6 to 10). *)
THEOREM RedRunsAreRefused ==
  ASSUME NEW told \in Policies, NEW leasable \in BOOLEAN
  PROVE  evaluate(told, FALSE, RedAction, RedSettings, leasable)
           \in {"DENY", "REQUIRE_HUMAN_APPROVAL"}
<1>1. compute_action_risk(RedAction) = 100
  BY DEF RedAction, Factors, compute_action_risk, Nearest
<1>2. RedSettings.inaction = 81 /\ RedSettings.support = 4200 /\ RedSettings.opposition = 2000
  BY DEF RedSettings, compute_inaction_risk, stance_confidence, Nearest
<1>3. ~Confident(RedAction, RedSettings)
  BY <1>1, <1>2 DEF Confident, available_confidence
<1> QED
  BY <1>1, <1>2, <1>3 DEF evaluate

(* A yellow run is never referred to a human: whenever the policy passes it is
   allowed (yellow.rs, the RequireHumanApproval branch is out of reach). *)
THEOREM YellowRunsNeedNoHuman ==
  ASSUME NEW told \in Policies, NEW staging \in BOOLEAN, NEW leasable \in BOOLEAN
  PROVE  evaluate(told, FALSE, YellowAction(staging), YellowSettings, leasable)
           = IF told = "passed" THEN "ALLOW" ELSE "DENY"
<1>1. compute_action_risk(YellowAction(staging)) \in {27, 33}
  BY DEF YellowAction, Factors, compute_action_risk, Nearest
<1>2. YellowSettings.support = 5600 /\ YellowSettings.opposition = 0
  BY DEF YellowSettings, stance_confidence
<1>3. Confident(YellowAction(staging), YellowSettings)
  BY <1>1, <1>2 DEF Confident, available_confidence
<1> QED
  BY <1>3 DEF evaluate

(* The worker's gate never refers a tool to a human by its numbers: whatever
   the tool's type, a passing policy allows it (govern.rs,
   risk_factors_for_tool). *)
THEOREM WorkerGateNeverAsks ==
  ASSUME NEW told \in Policies, NEW a \in WorkerActions, NEW leasable \in BOOLEAN
  PROVE  evaluate(told, FALSE, a, WorkerSettings, leasable)
           = IF told = "passed" THEN "ALLOW" ELSE "DENY"
<1>1. compute_action_risk(a) \in {0, 33, 60}
  BY DEF WorkerActions, Factors, compute_action_risk, Nearest
<1>2. WorkerSettings.support = 10000 /\ WorkerSettings.opposition = 0
  BY DEF WorkerSettings, stance_confidence
<1>3. Confident(a, WorkerSettings)
  BY <1>1, <1>2 DEF Confident, available_confidence
<1> QED
  BY <1>3 DEF evaluate
-----------------------------------------------------------------------------
(* Types of the leases. *)

(* A call that is under way names a lease with a row. *)
Held ==
  \A h \in Holder : holder[h].at # "idle" =>
    holder[h].lease \in Lease /\ lease[holder[h].lease] # NoLease

(* No row goes away. *)
Kept == \A m \in Lease : lease[m] # NoLease => lease'[m] # NoLease

LEMMA MovedHolder ==
  ASSUME LeaseTypeOK, Held, NEW h \in Holder, NEW l \in Lease, NEW stage \in Stages,
         lease'[l] # NoLease, At(h, l, stage), Kept
  PROVE  holder' \in [Holder -> [at : Stages, lease : Lease \cup {NoLease}]] /\ Held'
<1> DEFINE c == [at |-> stage, lease |-> l]
<1>1. c \in [at : Stages, lease : Lease \cup {NoLease}] /\ c.lease = l
  OBVIOUS
<1>2. holder' = [holder EXCEPT ![h] = c]
  BY DEF At
<1> HIDE DEF c
<1> QED
  BY <1>1, <1>2 DEF LeaseTypeOK, Held, Kept

LEMMA IdleHolder ==
  ASSUME LeaseTypeOK, Held, NEW h \in Holder, holder' = [holder EXCEPT ![h] = Idle], Kept
  PROVE  holder' \in [Holder -> [at : Stages, lease : Lease \cup {NoLease}]] /\ Held'
<1>1. Idle \in [at : Stages, lease : Lease \cup {NoLease}] /\ Idle.at = "idle"
  BY DEF Idle, Stages
<1> QED
  BY <1>1 DEF LeaseTypeOK, Held, Kept

LEMMA ChangedRow ==
  ASSUME LeaseTypeOK, NEW l \in Lease, NEW r \in Row, lease' = [lease EXCEPT ![l] = r]
  PROVE  /\ lease' \in [Lease -> Row \cup {NoLease}]
         /\ Kept
         /\ lease'[l] = r /\ lease'[l] # NoLease
BY LeaseAssumption DEF LeaseTypeOK, Kept

LEMMA RevokedRow ==
  ASSUME LeaseTypeOK, NEW l \in Lease, lease[l] # NoLease, Revoked(l)
  PROVE  lease' \in [Lease -> Row \cup {NoLease}] /\ Kept
<1> DEFINE r == [lease[l] EXCEPT !.active = FALSE, !.revoked = TRUE]
<1>1. r \in Row
  BY DEF LeaseTypeOK, Row
<1>2. lease' = [lease EXCEPT ![l] = r]
  BY DEF Revoked, LeaseTypeOK
<1> HIDE DEF r
<1> QED
  BY <1>1, <1>2, ChangedRow

LEMMA LeaseTypes ==
  ASSUME LeaseTypeOK, Held, LeaseStep \/ \E l \in Lease : Grant(l)
  PROVE  LeaseTypeOK' /\ Held'
<1> USE LeaseAssumption
<1>1. ASSUME NEW l \in Lease, Grant(l) PROVE LeaseTypeOK' /\ Held'
  <2> DEFINE r == [used |-> 0, active |-> TRUE, revoked |-> FALSE]
  <2>1. r \in Row
    BY DEF Row
  <2>2. lease' = [lease EXCEPT ![l] = r]
    BY <1>1 DEF Grant
  <2> HIDE DEF r
  <2>3. lease' \in [Lease -> Row \cup {NoLease}] /\ Kept
    BY <2>1, <2>2, ChangedRow
  <2> QED
    BY <1>1, <2>3 DEF Grant, LeaseTypeOK, Held, Kept
<1>2. ASSUME NEW h \in Holder, NEW l \in Lease, Check(h, l) PROVE LeaseTypeOK' /\ Held'
  <2> DEFINE stage == IF lapsed[l] THEN "expired" ELSE "checked"
  <2>1. stage \in Stages /\ At(h, l, stage) /\ lease' = lease /\ lease'[l] # NoLease /\ Kept
    BY <1>2 DEF Check, Stages, Active, Kept
  <2> HIDE DEF stage
  <2>2. holder' \in [Holder -> [at : Stages, lease : Lease \cup {NoLease}]] /\ Held'
    BY <2>1, MovedHolder
  <2> QED
    BY <1>2, <2>1, <2>2 DEF Check, LeaseTypeOK
<1>3. ASSUME NEW h \in Holder, RevokeExpired(h) PROVE LeaseTypeOK' /\ Held'
  <2>1. holder[h].lease \in Lease /\ lease[holder[h].lease] # NoLease
    BY <1>3 DEF RevokeExpired, Held
  <2>2. lease' \in [Lease -> Row \cup {NoLease}] /\ Kept
    BY <1>3, <2>1, RevokedRow DEF RevokeExpired
  <2>3. holder' \in [Holder -> [at : Stages, lease : Lease \cup {NoLease}]] /\ Held'
    BY <1>3, <2>2, IdleHolder DEF RevokeExpired
  <2> QED
    BY <1>3, <2>2, <2>3 DEF RevokeExpired, LeaseTypeOK
<1>4. ASSUME NEW h \in Holder, Consume(h) PROVE LeaseTypeOK' /\ Held'
  <2> DEFINE l == holder[h].lease
  <2>1. l \in Lease /\ lease[l] # NoLease /\ lease[l] \in Row
    BY <1>4 DEF Consume, Held, LeaseTypeOK
  <2>2. CASE Consumable(l)
    <3> DEFINE r == [lease[l] EXCEPT !.used = @ + 1]
    <3>1. r \in Row
      BY <2>1, <2>2 DEF Row, Consumable
    <3>2. lease' = [lease EXCEPT ![l] = r] /\ At(h, l, "consumed")
      BY <1>4, <2>2 DEF Consume, LeaseTypeOK
    <3>3. late' \in [Lease -> Nat]
      BY <1>4, <2>1, <2>2 DEF Consume, LeaseTypeOK
    <3> HIDE DEF r, l
    <3>4. lease' \in [Lease -> Row \cup {NoLease}] /\ Kept /\ lease'[l] # NoLease
      BY <2>1, <3>1, <3>2, ChangedRow
    <3>5. holder' \in [Holder -> [at : Stages, lease : Lease \cup {NoLease}]] /\ Held'
      BY <2>1, <3>2, <3>4, MovedHolder DEF Stages
    <3> QED
      BY <1>4, <3>3, <3>4, <3>5 DEF Consume, LeaseTypeOK
  <2>3. CASE ~Consumable(l)
    <3>1. At(h, l, "refused") /\ lease' = lease /\ late' = late /\ Kept
      BY <1>4, <2>3 DEF Consume, Kept
    <3> HIDE DEF l
    <3>2. holder' \in [Holder -> [at : Stages, lease : Lease \cup {NoLease}]] /\ Held'
      BY <2>1, <3>1, MovedHolder DEF Stages
    <3> QED
      BY <1>4, <3>1, <3>2 DEF Consume, LeaseTypeOK
  <2> QED
    BY <2>2, <2>3
<1>5. ASSUME NEW h \in Holder, Refused(h) \/ Stop(h) PROVE LeaseTypeOK' /\ Held'
  <2>1. Kept
    BY <1>5 DEF Refused, Stop, Kept
  <2>2. holder' \in [Holder -> [at : Stages, lease : Lease \cup {NoLease}]] /\ Held'
    BY <1>5, <2>1, IdleHolder DEF Refused, Stop
  <2> QED
    BY <1>5, <2>2 DEF Refused, Stop, LeaseTypeOK
<1>6. ASSUME NEW h \in Holder, Perform(h) PROVE LeaseTypeOK' /\ Held'
  <2>1. Kept
    BY <1>6 DEF Perform, Kept
  <2>2. holder' \in [Holder -> [at : Stages, lease : Lease \cup {NoLease}]] /\ Held'
    BY <1>6, <2>1, IdleHolder DEF Perform
  <2>3. done' \in [Lease -> Nat]
    <3>1. holder[h].lease \in Lease /\ done[holder[h].lease] + 1 \in Nat
      BY <1>6 DEF Perform, LeaseTypeOK, Held
    <3> QED
      BY <1>6, <3>1 DEF Perform, LeaseTypeOK
  <2> QED
    BY <1>6, <2>2, <2>3 DEF Perform, LeaseTypeOK
<1>7. ASSUME NEW l \in Lease, Revoke(l) PROVE LeaseTypeOK' /\ Held'
  <2>1. lease' \in [Lease -> Row \cup {NoLease}] /\ Kept
    BY <1>7, RevokedRow DEF Revoke
  <2> QED
    BY <1>7, <2>1 DEF Revoke, LeaseTypeOK, Held, Kept
<1>8. ASSUME NEW l \in Lease, Lapse(l) PROVE LeaseTypeOK' /\ Held'
  BY <1>8 DEF Lapse, LeaseTypeOK, Held
<1>9. ASSUME ExpireAll PROVE LeaseTypeOK' /\ Held'
  <2>1. \A l \in Lease : lease[l] # NoLease => [lease[l] EXCEPT !.active = FALSE] \in Row
    BY DEF LeaseTypeOK, Row
  <2>2. lease' \in [Lease -> Row \cup {NoLease}] /\ Kept
    BY <1>9, <2>1 DEF ExpireAll, LeaseTypeOK, Kept
  <2> QED
    BY <1>9, <2>2 DEF ExpireAll, LeaseTypeOK, Held, Kept
<1> QED
  BY <1>1, <1>2, <1>3, <1>4, <1>5, <1>6, <1>7, <1>8, <1>9 DEF LeaseStep
-----------------------------------------------------------------------------
(* The budget. *)

LEMMA PendingIsFinite ==
  ASSUME NEW l
  PROVE  /\ IsFiniteSet(Pending(l)) /\ Cardinality(Pending(l)) \in Nat
         /\ IsFiniteSet(Pending(l)') /\ Cardinality(Pending(l)') \in Nat
         /\ IsFiniteSet(Checked(l)) /\ Cardinality(Checked(l)) \in Nat
         /\ IsFiniteSet(Checked(l)') /\ Cardinality(Checked(l)') \in Nat
         /\ Cardinality(Holder) \in Nat
         /\ Cardinality(Checked(l)') <= Cardinality(Holder)
<1>1. /\ Pending(l) \subseteq Holder /\ Pending(l)' \subseteq Holder
      /\ Checked(l) \subseteq Holder /\ Checked(l)' \subseteq Holder
  BY DEF Pending, Checked
<1> QED
  BY <1>1, LeaseAssumption, FS_Subset, FS_CardinalityType

(* Steps that consume and perform nothing leave no call more pending. *)
LEMMA NothingConsumed ==
  ASSUME LeaseTypeOK, LeaseBudgetHolds, done' = done,
         \A l \in Lease : Pending(l)' \subseteq Pending(l),
         \A l \in Lease : /\ lease[l] = NoLease <=> lease'[l] = NoLease
                          /\ lease[l] # NoLease => lease'[l].used = lease[l].used
  PROVE  LeaseBudgetHolds'
<1> SUFFICES ASSUME NEW l \in Lease
             PROVE  IF lease'[l] = NoLease
                    THEN done'[l] = 0 /\ Pending(l)' = {}
                    ELSE /\ done'[l] + Cardinality(Pending(l)') <= lease'[l].used
                         /\ lease'[l].used <= Budget
  BY DEF LeaseBudgetHolds
<1>1. Cardinality(Pending(l)') <= Cardinality(Pending(l))
  BY PendingIsFinite, FS_Subset
<1>2. Cardinality(Pending(l)) \in Nat /\ Cardinality(Pending(l)') \in Nat /\ done[l] \in Nat
  BY PendingIsFinite DEF LeaseTypeOK
<1>3. lease[l] # NoLease => lease[l].used \in Nat
  BY LeaseAssumption DEF LeaseTypeOK, Row
<1> QED
  BY <1>1, <1>2, <1>3, LeaseAssumption DEF LeaseBudgetHolds

LEMMA BudgetStep ==
  ASSUME LeaseTypeOK, Held, LeaseBudgetHolds, LeaseStep \/ \E l \in Lease : Grant(l)
  PROVE  LeaseBudgetHolds'
<1>1. ASSUME NEW g \in Lease, Grant(g) PROVE LeaseBudgetHolds'
  <2>1. \A l : Pending(l)' = Pending(l)
    BY <1>1 DEF Grant, Pending
  <2>2. lease'[g].used = 0 /\ lease'[g] # NoLease
    <3> DEFINE r == [used |-> 0, active |-> TRUE, revoked |-> FALSE]
    <3>1. r \in Row /\ r.used = 0
      BY LeaseAssumption DEF Row
    <3>2. lease'[g] = r
      BY <1>1 DEF Grant, LeaseTypeOK
    <3> HIDE DEF r
    <3> QED
      BY <3>1, <3>2, LeaseAssumption
  <2>3. done[g] = 0 /\ Pending(g) = {} /\ Cardinality(Pending(g)) = 0
    BY <1>1, FS_EmptySet DEF Grant, LeaseBudgetHolds
  <2>4. \A l \in Lease \ {g} : lease'[l] = lease[l]
    BY <1>1 DEF Grant, LeaseTypeOK
  <2>5. ASSUME NEW l \in Lease
        PROVE  IF lease'[l] = NoLease
               THEN done'[l] = 0 /\ Pending(l)' = {}
               ELSE /\ done'[l] + Cardinality(Pending(l)') <= lease'[l].used
                    /\ lease'[l].used <= Budget
    <3>1. CASE l = g
      BY <1>1, <2>1, <2>2, <2>3, <3>1, LeaseAssumption DEF Grant
    <3>2. CASE l # g
      BY <1>1, <2>1, <2>4, <3>2 DEF Grant, LeaseBudgetHolds
    <3> QED
      BY <3>1, <3>2
  <2> QED
    BY <2>5 DEF LeaseBudgetHolds
<1>2. ASSUME NEW h \in Holder, NEW l \in Lease, Check(h, l) PROVE LeaseBudgetHolds'
  <2>1. holder'[h].at # "consumed" /\ \A k \in Holder \ {h} : holder'[k] = holder[k]
    BY <1>2 DEF Check, At, LeaseTypeOK
  <2>2. \A m \in Lease : Pending(m)' \subseteq Pending(m)
    BY <2>1 DEF Pending
  <2> QED
    BY <1>2, <2>2, NothingConsumed DEF Check
<1>3. ASSUME NEW h \in Holder, RevokeExpired(h) \/ Refused(h) \/ Stop(h) PROVE LeaseBudgetHolds'
  <2>1. holder'[h].at # "consumed" /\ \A k \in Holder \ {h} : holder'[k] = holder[k]
    BY <1>3 DEF RevokeExpired, Refused, Stop, Idle, LeaseTypeOK
  <2>2. \A m \in Lease : Pending(m)' \subseteq Pending(m)
    BY <2>1 DEF Pending
  <2>3. \A m \in Lease : /\ lease[m] = NoLease <=> lease'[m] = NoLease
                         /\ lease[m] # NoLease => lease'[m].used = lease[m].used
    <3>1. CASE lease' = lease
      BY <3>1
    <3>2. CASE RevokeExpired(h)
      <4> DEFINE l == holder[h].lease
                 r == [lease[l] EXCEPT !.active = FALSE, !.revoked = TRUE]
      <4>1. l \in Lease /\ lease[l] # NoLease
        BY <3>2 DEF RevokeExpired, Held
      <4>2. r \in Row /\ r.used = lease[l].used
        BY <4>1 DEF LeaseTypeOK, Row
      <4>3. lease' = [lease EXCEPT ![l] = r]
        BY <3>2, <4>1 DEF RevokeExpired, Revoked, LeaseTypeOK
      <4> HIDE DEF l, r
      <4> QED
        BY <4>1, <4>2, <4>3, LeaseAssumption DEF LeaseTypeOK
    <3> QED
      BY <1>3, <3>1, <3>2 DEF Refused, Stop
  <2> QED
    BY <1>3, <2>2, <2>3, NothingConsumed DEF RevokeExpired, Refused, Stop
<1>4. ASSUME NEW h \in Holder, Consume(h) PROVE LeaseBudgetHolds'
  <2>0. PICK g \in Lease : g = holder[h].lease
    BY <1>4 DEF Consume, Held
  <2>1. lease[g] # NoLease /\ lease[g] \in Row /\ h \notin Pending(g)
    BY <1>4, <2>0 DEF Consume, Held, LeaseTypeOK, Pending
  <2>2. CASE ~Consumable(g)
    <3>1. holder'[h].at # "consumed" /\ \A k \in Holder \ {h} : holder'[k] = holder[k]
      BY <1>4, <2>0, <2>2 DEF Consume, At, LeaseTypeOK
    <3>2. \A m \in Lease : Pending(m)' \subseteq Pending(m)
      BY <3>1 DEF Pending
    <3> QED
      BY <1>4, <2>0, <2>2, <3>2, NothingConsumed DEF Consume
  <2>3. CASE Consumable(g)
    <3> DEFINE r == [lease[g] EXCEPT !.used = @ + 1]
    <3>1. r \in Row /\ r.used = lease[g].used + 1 /\ lease[g].used \in Nat /\ r.used <= Budget
      BY <2>1, <2>3, LeaseAssumption DEF Row, Consumable
    <3>2. lease' = [lease EXCEPT ![g] = r] /\ done' = done
      BY <1>4, <2>0, <2>3 DEF Consume, LeaseTypeOK
    <3>3. holder'[h].at = "consumed" /\ holder'[h].lease = g /\ holder[h].at = "checked"
          /\ \A k \in Holder \ {h} : holder'[k] = holder[k]
      BY <1>4, <2>0, <2>3 DEF Consume, At, LeaseTypeOK
    <3> HIDE DEF r
    <3>4. Pending(g)' = Pending(g) \cup {h}
      BY <3>3 DEF Pending
    <3>5. Cardinality(Pending(g)') = Cardinality(Pending(g)) + 1
      BY <2>1, <3>4, PendingIsFinite, FS_AddElement
    <3>6. ASSUME NEW l \in Lease \ {g} PROVE Pending(l)' = Pending(l) /\ lease'[l] = lease[l]
      BY <3>2, <3>3 DEF Pending, LeaseTypeOK
    <3>7. done[g] \in Nat /\ Cardinality(Pending(g)) \in Nat
          /\ done[g] + Cardinality(Pending(g)) <= lease[g].used
      BY <2>1, PendingIsFinite DEF LeaseBudgetHolds, LeaseTypeOK
    <3>8. lease'[g] = r /\ r # NoLease
      BY <2>1, <3>1, <3>2, LeaseAssumption DEF LeaseTypeOK
    <3>9. done'[g] + Cardinality(Pending(g)') <= lease'[g].used /\ lease'[g].used <= Budget
      BY <3>1, <3>2, <3>5, <3>7, <3>8
    <3>10. ASSUME NEW l \in Lease
           PROVE  IF lease'[l] = NoLease
                  THEN done'[l] = 0 /\ Pending(l)' = {}
                  ELSE /\ done'[l] + Cardinality(Pending(l)') <= lease'[l].used
                       /\ lease'[l].used <= Budget
      <4>1. CASE l = g
        BY <3>8, <3>9, <4>1
      <4>2. CASE l # g
        BY <3>2, <3>6, <4>2 DEF LeaseBudgetHolds
      <4> QED
        BY <4>1, <4>2
    <3> QED
      BY <3>10 DEF LeaseBudgetHolds
  <2> QED
    BY <2>2, <2>3
<1>5. ASSUME NEW h \in Holder, Perform(h) PROVE LeaseBudgetHolds'
  <2>0. PICK g \in Lease : g = holder[h].lease
    BY <1>5 DEF Perform, Held
  <2>1. lease[g] # NoLease /\ lease' = lease /\ h \in Pending(g)
    BY <1>5, <2>0 DEF Perform, Held, Pending
  <2>2. holder'[h].at # "consumed" /\ \A k \in Holder \ {h} : holder'[k] = holder[k]
    BY <1>5 DEF Perform, Idle, LeaseTypeOK
  <2>3. done[g] \in Nat /\ done'[g] = done[g] + 1 /\ \A l \in Lease \ {g} : done'[l] = done[l]
    BY <1>5, <2>0, <2>1 DEF Perform, LeaseTypeOK
  <2>4. Pending(g)' = Pending(g) \ {h}
    BY <2>2 DEF Pending
  <2>5. \A l \in Lease \ {g} : Pending(l)' = Pending(l)
    BY <1>5, <2>0, <2>2 DEF Pending, Perform
  <2>6. Cardinality(Pending(g)') = Cardinality(Pending(g)) - 1
    BY <2>1, <2>4, PendingIsFinite, FS_RemoveElement
  <2>7. Cardinality(Pending(g)) \in Nat
    BY PendingIsFinite
  <2>8. lease[g].used \in Nat
    BY <2>1, LeaseAssumption DEF LeaseTypeOK, Row
  <2>9. ASSUME NEW l \in Lease
        PROVE  IF lease'[l] = NoLease
               THEN done'[l] = 0 /\ Pending(l)' = {}
               ELSE /\ done'[l] + Cardinality(Pending(l)') <= lease'[l].used
                    /\ lease'[l].used <= Budget
    <3>1. CASE l = g
      BY <2>1, <2>3, <2>6, <2>7, <2>8, <3>1 DEF LeaseBudgetHolds
    <3>2. CASE l # g
      BY <2>1, <2>3, <2>5, <3>2 DEF LeaseBudgetHolds
    <3> QED
      BY <3>1, <3>2
  <2> QED
    BY <2>9 DEF LeaseBudgetHolds
<1>6. ASSUME NEW g \in Lease, Revoke(g) \/ Lapse(g) PROVE LeaseBudgetHolds'
  <2>1. \A m \in Lease : Pending(m)' \subseteq Pending(m)
    BY <1>6 DEF Revoke, Lapse, Pending
  <2>2. \A m \in Lease : /\ lease[m] = NoLease <=> lease'[m] = NoLease
                         /\ lease[m] # NoLease => lease'[m].used = lease[m].used
    <3>1. CASE Lapse(g)
      BY <3>1 DEF Lapse
    <3>2. CASE Revoke(g)
      <4> DEFINE r == [lease[g] EXCEPT !.active = FALSE, !.revoked = TRUE]
      <4>1. r \in Row /\ r.used = lease[g].used /\ lease[g] # NoLease
        BY <3>2 DEF LeaseTypeOK, Row, Revoke
      <4>2. lease' = [lease EXCEPT ![g] = r]
        BY <3>2 DEF Revoke, Revoked, LeaseTypeOK
      <4> HIDE DEF r
      <4> QED
        BY <4>1, <4>2, LeaseAssumption DEF LeaseTypeOK
    <3> QED
      BY <1>6, <3>1, <3>2
  <2> QED
    BY <1>6, <2>1, <2>2, NothingConsumed DEF Revoke, Lapse
<1>7. ASSUME ExpireAll PROVE LeaseBudgetHolds'
  <2>1. \A m \in Lease : Pending(m)' \subseteq Pending(m)
    BY <1>7 DEF ExpireAll, Pending
  <2>2. \A l \in Lease : lease[l] # NoLease =>
          /\ [lease[l] EXCEPT !.active = FALSE] \in Row
          /\ [lease[l] EXCEPT !.active = FALSE].used = lease[l].used
    BY DEF LeaseTypeOK, Row
  <2>3. \A m \in Lease : /\ lease[m] = NoLease <=> lease'[m] = NoLease
                         /\ lease[m] # NoLease => lease'[m].used = lease[m].used
    BY <1>7, <2>2, LeaseAssumption DEF ExpireAll, LeaseTypeOK
  <2> QED
    BY <1>7, <2>1, <2>3, NothingConsumed DEF ExpireAll
<1> QED
  BY <1>1, <1>2, <1>3, <1>4, <1>5, <1>6, <1>7 DEF LeaseStep
-----------------------------------------------------------------------------
(* Late uses. *)

(* Before a lease lapses no use of it is late. *)
LateInv ==
  \A l \in Lease : /\ ~lapsed[l] => late[l] = 0
                   /\ late[l] + Cardinality(Checked(l)) <= Cardinality(Holder)

(* Steps that let no call through and consume nothing. *)
LEMMA NothingChecked ==
  ASSUME LeaseTypeOK, LateInv, late' = late,
         \A l \in Lease : Checked(l)' \subseteq Checked(l),
         \A l \in Lease : lapsed[l] => lapsed'[l]
  PROVE  LateInv'
<1> SUFFICES ASSUME NEW l \in Lease
             PROVE  /\ ~lapsed'[l] => late'[l] = 0
                    /\ late'[l] + Cardinality(Checked(l)') <= Cardinality(Holder)
  BY DEF LateInv
<1>1. Cardinality(Checked(l)') <= Cardinality(Checked(l))
  BY PendingIsFinite, FS_Subset
<1>2. late[l] \in Nat /\ late[l] + Cardinality(Checked(l)) <= Cardinality(Holder)
  BY DEF LeaseTypeOK, LateInv
<1>3. late'[l] + Cardinality(Checked(l)') <= Cardinality(Holder)
  BY <1>1, <1>2, PendingIsFinite
<1> QED
  BY <1>3 DEF LateInv

LEMMA LateStep ==
  ASSUME LeaseTypeOK, Held, LateInv, LeaseStep \/ \E l \in Lease : Grant(l)
  PROVE  LateInv'
<1>1. ASSUME NEW h \in Holder, NEW g \in Lease, Check(h, g) PROVE LateInv'
  <2>1. late' = late /\ lapsed' = lapsed
        /\ holder'[h].lease = g /\ \A k \in Holder \ {h} : holder'[k] = holder[k]
    BY <1>1 DEF Check, At, LeaseTypeOK
  <2>2. \A l \in Lease \ {g} : Checked(l)' \subseteq Checked(l)
    BY <2>1 DEF Checked
  <2>3. CASE lapsed[g]
    <3>1. holder'[h].at = "expired"
      BY <1>1, <2>3 DEF Check, At, LeaseTypeOK
    <3>2. Checked(g)' \subseteq Checked(g)
      BY <2>1, <3>1 DEF Checked
    <3> QED
      BY <2>1, <2>2, <3>2, NothingChecked
  <2>4. CASE ~lapsed[g]
    <3>1. ASSUME NEW l \in Lease
          PROVE  /\ ~lapsed'[l] => late'[l] = 0
                 /\ late'[l] + Cardinality(Checked(l)') <= Cardinality(Holder)
      <4>1. CASE l = g
        BY <2>1, <2>4, <4>1, PendingIsFinite DEF LateInv
      <4>2. CASE l # g
        <5>1. Cardinality(Checked(l)') <= Cardinality(Checked(l))
          BY <2>2, <4>2, PendingIsFinite, FS_Subset
        <5>2. late[l] \in Nat /\ late[l] + Cardinality(Checked(l)) <= Cardinality(Holder)
          BY DEF LeaseTypeOK, LateInv
        <5>3. late'[l] + Cardinality(Checked(l)') <= Cardinality(Holder)
          BY <2>1, <5>1, <5>2, PendingIsFinite
        <5> QED
          BY <2>1, <5>3 DEF LateInv
      <4> QED
        BY <4>1, <4>2
    <3> QED
      BY <3>1 DEF LateInv
  <2> QED
    BY <2>3, <2>4
<1>2. ASSUME NEW h \in Holder, RevokeExpired(h) \/ Refused(h) \/ Stop(h) \/ Perform(h)
      PROVE  LateInv'
  <2>1. /\ late' = late /\ lapsed' = lapsed
        /\ holder'[h].at # "checked" /\ \A k \in Holder \ {h} : holder'[k] = holder[k]
    BY <1>2 DEF RevokeExpired, Refused, Stop, Perform, Idle, LeaseTypeOK
  <2>2. \A l \in Lease : Checked(l)' \subseteq Checked(l)
    BY <2>1 DEF Checked
  <2> QED
    BY <2>1, <2>2, NothingChecked
<1>3. ASSUME NEW h \in Holder, Consume(h) PROVE LateInv'
  <2>1. PICK g \in Lease : g = holder[h].lease
    BY <1>3 DEF Consume, Held
  <2>2. /\ lapsed' = lapsed /\ holder[h].at = "checked"
        /\ holder'[h].at # "checked" /\ \A k \in Holder \ {h} : holder'[k] = holder[k]
    BY <1>3, <2>1 DEF Consume, At, LeaseTypeOK
  <2>3. \A l \in Lease : Checked(l)' \subseteq Checked(l)
    BY <2>2 DEF Checked
  <2>4. CASE late' = late
    BY <2>2, <2>3, <2>4, NothingChecked
  <2>5. CASE late' # late
    <3>1. /\ lapsed[g] /\ late[g] \in Nat /\ late'[g] = late[g] + 1
          /\ \A l \in Lease \ {g} : late'[l] = late[l]
      BY <1>3, <2>1, <2>5 DEF Consume, LeaseTypeOK
    <3>2. h \in Checked(g) /\ Checked(g)' = Checked(g) \ {h}
      BY <2>1, <2>2 DEF Checked
    <3>3. Cardinality(Checked(g)') = Cardinality(Checked(g)) - 1
      BY <3>2, PendingIsFinite, FS_RemoveElement
    <3>4. ASSUME NEW l \in Lease
          PROVE  /\ ~lapsed'[l] => late'[l] = 0
                 /\ late'[l] + Cardinality(Checked(l)') <= Cardinality(Holder)
      <4>1. CASE l = g
        BY <2>2, <3>1, <3>3, <4>1, PendingIsFinite DEF LateInv
      <4>2. CASE l # g
        <5>1. Cardinality(Checked(l)') <= Cardinality(Checked(l))
          BY <2>3, PendingIsFinite, FS_Subset
        <5>2. late[l] \in Nat /\ late[l] + Cardinality(Checked(l)) <= Cardinality(Holder)
          BY DEF LeaseTypeOK, LateInv
        <5>3. late'[l] + Cardinality(Checked(l)') <= Cardinality(Holder)
          BY <3>1, <4>2, <5>1, <5>2, PendingIsFinite
        <5> QED
          BY <2>2, <3>1, <4>2, <5>3 DEF LateInv
      <4> QED
        BY <4>1, <4>2
    <3> QED
      BY <3>4 DEF LateInv
  <2> QED
    BY <2>4, <2>5
<1>4. ASSUME NEW g \in Lease, Revoke(g) \/ Lapse(g) \/ Grant(g) PROVE LateInv'
  <2>1. late' = late /\ \A l \in Lease : Checked(l)' \subseteq Checked(l)
    BY <1>4 DEF Revoke, Lapse, Grant, Checked
  <2>2. \A l \in Lease : lapsed[l] => lapsed'[l]
    BY <1>4 DEF Revoke, Lapse, Grant, LeaseTypeOK
  <2> QED
    BY <2>1, <2>2, NothingChecked
<1>5. ASSUME ExpireAll PROVE LateInv'
  <2>1. late' = late /\ lapsed' = lapsed /\ \A l \in Lease : Checked(l)' \subseteq Checked(l)
    BY <1>5 DEF ExpireAll, Checked
  <2> QED
    BY <2>1, NothingChecked
<1> QED
  BY <1>1, <1>2, <1>3, <1>4, <1>5 DEF LeaseStep

-----------------------------------------------------------------------------
(* The end of a lease. *)

LEMMA EndStep ==
  ASSUME LeaseTypeOK, Held, LeaseStep \/ \E l \in Lease : Grant(l),
         NEW m \in Lease, lease[m] # NoLease, ~Active(m)
  PROVE  lease'[m] # NoLease /\ ~Active(m)' /\ lease'[m].used = lease[m].used
<1> USE LeaseAssumption
<1>1. ASSUME NEW l \in Lease, Revoked(l), lease[l] # NoLease
      PROVE  lease'[m] # NoLease /\ ~Active(m)' /\ lease'[m].used = lease[m].used
  <2> DEFINE r == [lease[l] EXCEPT !.active = FALSE, !.revoked = TRUE]
  <2>1. r \in Row /\ r.used = lease[l].used /\ r.revoked = TRUE
    BY <1>1 DEF LeaseTypeOK, Row
  <2>2. lease' = [lease EXCEPT ![l] = r]
    BY <1>1 DEF Revoked, LeaseTypeOK
  <2> HIDE DEF r
  <2> QED
    BY <2>1, <2>2 DEF LeaseTypeOK, Active
<1>2. ASSUME NEW h \in Holder, RevokeExpired(h)
      PROVE  lease'[m] # NoLease /\ ~Active(m)' /\ lease'[m].used = lease[m].used
  BY <1>1, <1>2 DEF RevokeExpired, Held
<1>3. ASSUME NEW h \in Holder, Consume(h)
      PROVE  lease'[m] # NoLease /\ ~Active(m)' /\ lease'[m].used = lease[m].used
  <2>1. CASE holder[h].lease = m
    <3>1. lease' = lease
      BY <1>3, <2>1 DEF Consume, Consumable
    <3> QED
      BY <3>1 DEF Active
  <2>2. CASE holder[h].lease # m
    <3>1. lease'[m] = lease[m]
      BY <1>3, <2>2 DEF Consume, LeaseTypeOK
    <3> QED
      BY <3>1 DEF Active
  <2> QED
    BY <2>1, <2>2
<1>4. ASSUME NEW h \in Holder,
             Refused(h) \/ Stop(h) \/ Perform(h) \/ \E l \in Lease : Check(h, l)
      PROVE  lease'[m] # NoLease /\ ~Active(m)' /\ lease'[m].used = lease[m].used
  <2>1. lease' = lease
    BY <1>4 DEF Refused, Stop, Perform, Check
  <2> QED
    BY <2>1 DEF Active
<1>5. ASSUME NEW l \in Lease, Revoke(l) \/ Lapse(l)
      PROVE  lease'[m] # NoLease /\ ~Active(m)' /\ lease'[m].used = lease[m].used
  <2>1. CASE Revoke(l)
    BY <1>1, <2>1 DEF Revoke
  <2>2. CASE Lapse(l)
    BY <2>2 DEF Lapse, Active
  <2> QED
    BY <1>5, <2>1, <2>2
<1>6. ASSUME NEW l \in Lease, Grant(l)
      PROVE  lease'[m] # NoLease /\ ~Active(m)' /\ lease'[m].used = lease[m].used
  <2>1. lease'[m] = lease[m]
    BY <1>6 DEF Grant, LeaseTypeOK
  <2> QED
    BY <2>1 DEF Active
<1>7. ASSUME ExpireAll
      PROVE  lease'[m] # NoLease /\ ~Active(m)' /\ lease'[m].used = lease[m].used
  <2> DEFINE r == [lease[m] EXCEPT !.active = FALSE]
  <2>1. r \in Row /\ r.used = lease[m].used /\ r.active = FALSE
    BY DEF LeaseTypeOK, Row
  <2>2. lease'[m] = lease[m] \/ lease'[m] = r
    BY <1>7 DEF ExpireAll
  <2> HIDE DEF r
  <2> QED
    BY <2>1, <2>2 DEF Active
<1> QED
  BY <1>2, <1>3, <1>4, <1>5, <1>6, <1>7 DEF LeaseStep
-----------------------------------------------------------------------------
(* Types of the runs. *)

TrackTypeOK ==
  /\ contract \in [Contracts -> States \cup {None}]
  /\ plans \subseteq Contracts
  /\ run \in [Run -> Runs]
  /\ policy \in [Run -> Policies \cup {None}]
  /\ decision \in [Run -> GateDecision \cup {None}]
  /\ adr \subseteq Run
  /\ entries \in [Run -> Contracts \cup {None}]
  /\ vouched \subseteq Run

LEMMA VerdictType ==
  ASSUME NEW kind, NEW p
  PROVE  Verdict(kind, p) \in GateDecision
BY DEF Verdict, evaluate, GateDecision

(* The record of a run after it moved, and that of the others. *)
LEMMA Moved ==
  ASSUME TrackTypeOK, NEW r \in Run, NEW point \in Points, Goto(r, point)
  PROVE  /\ run' \in [Run -> Runs]
         /\ run'[r].at = point /\ run'[r].kind = run[r].kind /\ run'[r].contract = run[r].contract
         /\ \A q \in Run \ {r} : run'[q] = run[q]
<1> DEFINE new == [run[r] EXCEPT !.at = point]
<1>1. /\ new \in Runs
      /\ new.at = point /\ new.kind = run[r].kind /\ new.contract = run[r].contract
  BY DEF TrackTypeOK, Runs
<1>2. run' = [run EXCEPT ![r] = new]
  BY DEF Goto, TrackTypeOK
<1> HIDE DEF new
<1> QED
  BY <1>1, <1>2 DEF TrackTypeOK

LEMMA Begun ==
  ASSUME TrackTypeOK, NEW r \in Run, NEW k \in Kinds, NEW point \in Points, NEW c \in Contracts,
         run' = [run EXCEPT ![r] = [kind |-> k, contract |-> c, at |-> point]]
  PROVE  /\ run' \in [Run -> Runs]
         /\ run'[r].at = point /\ run'[r].kind = k /\ run'[r].contract = c
         /\ \A q \in Run \ {r} : run'[q] = run[q]
<1> DEFINE new == [kind |-> k, contract |-> c, at |-> point]
<1>1. new \in Runs /\ new.at = point /\ new.kind = k /\ new.contract = c
  BY DEF Runs
<1>2. run' = [run EXCEPT ![r] = new]
  OBVIOUS
<1> HIDE DEF new
<1> QED
  BY <1>1, <1>2 DEF TrackTypeOK

-----------------------------------------------------------------------------
(* The runs: each contract of a track belongs to the one run that stored it. *)

Tracked == {"green", "yellow", "red"}
Working == {"drafted", "validated", "active", "planned", "judged", "anchored", "cleared", "written"}
Activated == {"active", "planned", "judged", "anchored", "cleared", "written"}

Owns(r) == run[r].kind \in Tracked /\ run[r].at \notin {"new", "failed"}

(* Two runs never own one contract. *)
Apart ==
  \A r, q \in Run : r # q /\ Owns(r) /\ Owns(q) => run[r].contract # run[q].contract

(* A run's contract is stored and its state follows the run. *)
Holding(r) ==
  /\ Owns(r) => run[r].contract \in Contracts
  /\ run[r].at \in Working => run[r].kind \in Tracked
  /\ run[r].at = "missing" => run[r].contract \in Intent \X {"endpoint"} /\ run[r].kind = "compile"
  /\ Owns(r) => contract[run[r].contract] # None /\ run[r].contract \in Intent \X {"track"}
  /\ run[r].at = "drafted" => contract[run[r].contract] = "DraftContract"
  /\ run[r].at = "validated" => contract[run[r].contract] = "ValidatedContract"
  /\ run[r].at \in Activated => contract[run[r].contract] = "ActiveContract"

(* What a run leaves behind, step by step. *)
Trace(r) ==
  /\ run[r].at \in Activated \ {"active"} => run[r].contract \in plans
  /\ run[r].at = "planned" => run[r].kind \in {"yellow", "red"}
  /\ run[r].at \in {"cleared", "written"} =>
       run[r].kind = "green" \/ (run[r].kind = "yellow" /\ decision[r] # None)
  /\ run[r].at \in {"judged", "anchored"} => run[r].kind = "red" /\ decision[r] # None
  /\ run[r].at \in {"anchored", "refused"} => decision[r] # None /\ r \in adr
  /\ entries[r] # None =>
       /\ Owns(r) /\ run[r].at \in {"written", "done", "lost"}
       /\ entries[r] = run[r].contract
       /\ contract[entries[r]] = "ActiveContract" /\ entries[r] \in plans
       /\ run[r].kind # "red" /\ (run[r].kind # "green" => decision[r] # None)

TrackInv ==
  /\ TrackTypeOK
  /\ Apart
  /\ \A r \in Run : Holding(r) /\ Trace(r)

TrackStep ==
  \/ \E r \in Run, i \in Intent : Lookup(r, i) \/ \E kind \in Kinds : Compile(r, kind, i)
  \/ \E r \in Run : Advance(r) \/ Crash(r)

(* A step of run r that leaves the others and their contracts alone keeps the
   invariant if it keeps what the invariant says of r. *)
LEMMA StepOf ==
  ASSUME TrackInv, NEW r \in Run, TrackTypeOK', Holding(r)', Trace(r)',
         \A q \in Run \ {r} : /\ run'[q] = run[q]
                              /\ decision'[q] = decision[q]
                              /\ entries'[q] = entries[q]
                              /\ q \in adr => q \in adr',
         plans \subseteq plans',
         \A q \in Run \ {r} : Owns(q) => contract'[run[q].contract] = contract[run[q].contract],
         Owns(r)' => \A q \in Run \ {r} : Owns(q) => run[q].contract # run'[r].contract
  PROVE  TrackInv'
<1>1. \A q \in Run \ {r} : Owns(q)' <=> Owns(q)
  BY DEF Owns
<1>2. Apart'
  <2> SUFFICES ASSUME NEW p \in Run, NEW q \in Run, p # q, Owns(p)', Owns(q)'
               PROVE  run'[p].contract # run'[q].contract
    BY DEF Apart
  <2>1. CASE p = r
    BY <1>1, <2>1
  <2>2. CASE q = r
    BY <1>1, <2>2
  <2>3. CASE p # r /\ q # r
    BY <1>1, <2>3 DEF TrackInv, Apart
  <2> QED
    BY <2>1, <2>2, <2>3
<1>3. ASSUME NEW q \in Run \ {r} PROVE Holding(q)' /\ Trace(q)'
  <2>1. Holding(q) /\ Trace(q) /\ run'[q] = run[q]
    BY DEF TrackInv
  <2>2. run[q].at \in Working => Owns(q)
    BY <2>1 DEF Holding, Owns, Working
  <2>3. Owns(q) => contract'[run[q].contract] = contract[run[q].contract]
    OBVIOUS
  <2>4. Holding(q)'
    BY <1>1, <2>1, <2>2, <2>3 DEF Holding, Working, Activated
  <2>5. Trace(q)'
    BY <1>1, <2>1, <2>3 DEF Trace
  <2> QED
    BY <2>4, <2>5
<1> QED
  BY <1>2, <1>3 DEF TrackInv

(* No contract moves backward. *)
Forward == \A c \in Contracts : Rank(contract[c]) <= Rank(contract'[c])

LEMMA RankOrder ==
  /\ Rank(None) = 0 /\ Rank("DraftContract") = 1
  /\ Rank("ValidatedContract") = 2 /\ Rank("ActiveContract") = 3
BY TrackAssumption DEF Rank, States

LEMMA StoredForward ==
  ASSUME TrackTypeOK, NEW c \in Contracts, NEW s \in States,
         contract' = [contract EXCEPT ![c] = s], Rank(contract[c]) <= Rank(s)
  PROVE  Forward
<1>1. \A d \in Contracts : Rank(contract[d]) <= Rank(contract[d])
  <2> SUFFICES ASSUME NEW d \in Contracts PROVE Rank(contract[d]) <= Rank(contract[d])
    OBVIOUS
  <2>1. contract[d] \in States \cup {None}
    BY DEF TrackTypeOK
  <2> QED
    BY <2>1, RankOrder DEF States
<1> QED
  BY <1>1 DEF TrackTypeOK, Forward

LEMMA SameForward ==
  ASSUME TrackTypeOK, contract' = contract
  PROVE  Forward
<1> SUFFICES ASSUME NEW d \in Contracts PROVE Rank(contract[d]) <= Rank(contract[d])
  BY DEF Forward
<1>1. contract[d] \in States \cup {None}
  BY DEF TrackTypeOK
<1> QED
  BY <1>1, RankOrder DEF States

(* The contracts a run may store. *)
LEMMA Kindred ==
  ASSUME NEW i \in Intent
  PROVE  /\ <<i, "track">> \in Contracts /\ <<i, "track">> \in Intent \X {"track"}
         /\ <<i, "endpoint">> \in Contracts /\ <<i, "endpoint">> \in Intent \X {"endpoint"}
         /\ Intent \X {"track"} \subseteq Contracts /\ Intent \X {"endpoint"} \subseteq Contracts
         /\ (Intent \X {"track"}) \cap (Intent \X {"endpoint"}) = {}
BY DEF Contracts

LEMMA CompileKeeps ==
  ASSUME TrackInv, NEW r \in Run, NEW kind \in Kinds, NEW i \in Intent, Compile(r, kind, i)
  PROVE  TrackInv' /\ Forward
<1>1. PICK c \in Contracts : c = <<i, "track">> /\ c \in Intent \X {"track"}
  BY Kindred
<1>2. kind \in Tracked /\ run[r].at = "new" /\ ~Owns(r) /\ entries[r] = None
  BY DEF Compile, Kinds, Tracked, TrackInv, Trace, Owns
<1>3. UNCHANGED <<plans, policy, decision, adr, entries, vouched>>
  BY DEF Compile
<1>4. CASE contract[c] = None
  <2>1. /\ run' \in [Run -> Runs]
        /\ run'[r].at = "drafted" /\ run'[r].kind = kind /\ run'[r].contract = c
        /\ \A q \in Run \ {r} : run'[q] = run[q]
    <3>1. run' = [run EXCEPT ![r] = [kind |-> kind, contract |-> c, at |-> "drafted"]]
      BY <1>1, <1>4 DEF Compile
    <3> QED
      BY <3>1, Begun DEF TrackInv, Points
  <2>2. contract' = [contract EXCEPT ![c] = "DraftContract"]
    BY <1>1, <1>4 DEF Compile
  <2>3. contract' \in [Contracts -> States \cup {None}] /\ contract'[c] = "DraftContract"
        /\ \A d \in Contracts \ {c} : contract'[d] = contract[d]
    BY <2>2 DEF TrackInv, TrackTypeOK, States
  <2>4. TrackTypeOK'
    BY <1>3, <2>1, <2>3 DEF TrackInv, TrackTypeOK
  <2>5. Holding(r)'
    BY <1>1, <1>2, <2>1, <2>3, TrackAssumption DEF Holding, Owns, Activated, States
  <2>6. Trace(r)'
    BY <1>2, <1>3, <2>1 DEF Trace, Activated
  <2>7. \A q \in Run : Owns(q) => run[q].contract \in Contracts \ {c}
    BY <1>4 DEF TrackInv, Holding
  <2>8. TrackInv'
    BY <1>3, <2>1, <2>3, <2>4, <2>5, <2>6, <2>7, StepOf
  <2>9. Rank(contract[c]) <= Rank("DraftContract") /\ "DraftContract" \in States
    BY <1>4, RankOrder DEF States
  <2>10. Forward
    BY <2>2, <2>9, StoredForward DEF TrackInv
  <2> QED
    BY <2>8, <2>10
<1>5. CASE contract[c] # None
  <2>1. /\ run' \in [Run -> Runs]
        /\ run'[r].at = "failed" /\ run'[r].kind = kind /\ run'[r].contract = c
        /\ \A q \in Run \ {r} : run'[q] = run[q]
    <3>1. run' = [run EXCEPT ![r] = [kind |-> kind, contract |-> c, at |-> "failed"]]
      BY <1>1, <1>5 DEF Compile
    <3> QED
      BY <3>1, Begun DEF TrackInv, Points
  <2>2. contract' = contract
    BY <1>1, <1>5 DEF Compile
  <2>4. TrackTypeOK'
    BY <1>3, <2>1, <2>2 DEF TrackInv, TrackTypeOK
  <2>5. Holding(r)' /\ ~Owns(r)'
    BY <2>1 DEF Holding, Owns, Working, Activated
  <2>6. Trace(r)'
    BY <1>2, <1>3, <2>1 DEF Trace, Activated
  <2>7. TrackInv'
    BY <1>3, <2>1, <2>2, <2>4, <2>5, <2>6, StepOf
  <2> QED
    BY <2>2, <2>7, SameForward DEF TrackInv
<1> QED
  BY <1>4, <1>5

LEMMA LookupKeeps ==
  ASSUME TrackInv, NEW r \in Run, NEW i \in Intent, Lookup(r, i)
  PROVE  TrackInv' /\ Forward
<1>1. PICK c \in Contracts : c = <<i, "endpoint">> /\ c \in Intent \X {"endpoint"}
  BY Kindred
<1>2. run[r].at = "new" /\ entries[r] = None
  BY DEF Lookup, TrackInv, Trace
<1>3. UNCHANGED <<contract, plans, policy, decision, adr, entries, vouched>>
  BY DEF Lookup
<1>4. PICK point \in {"missing", "done"} :
        run' = [run EXCEPT ![r] = [kind |-> "compile", contract |-> c, at |-> point]]
  BY <1>1 DEF Lookup
<1>5. /\ run' \in [Run -> Runs]
      /\ run'[r].at = point /\ run'[r].kind = "compile" /\ run'[r].contract = c
      /\ \A q \in Run \ {r} : run'[q] = run[q]
  BY ZenonT(40), <1>4, Begun DEF TrackInv, Points, Kinds
<1>6. TrackTypeOK'
  BY <1>3, <1>5 DEF TrackInv, TrackTypeOK
<1>7. Holding(r)' /\ ~Owns(r)'
  BY <1>1, <1>5 DEF Holding, Owns, Working, Activated, Tracked
<1>8. Trace(r)'
  BY <1>2, <1>3, <1>5 DEF Trace, Activated
<1>9. TrackInv'
  BY <1>3, <1>5, <1>6, <1>7, <1>8, StepOf
<1> QED
  BY <1>3, <1>9, SameForward DEF TrackInv

LEMMA AnchorKeeps ==
  ASSUME TrackInv, NEW r \in Run, Anchor(r)
  PROVE  TrackInv' /\ Forward
<1>1. PICK c \in Contracts : c = run[r].contract /\ c \in Intent \X {"endpoint"}
  BY DEF Anchor, TrackInv, Holding, Contracts
<1>2. run[r].kind = "compile" /\ entries[r] = None /\ run[r].at = "missing"
  BY DEF Anchor, TrackInv, Holding, Trace
<1>3. UNCHANGED <<plans, policy, decision, adr, entries, vouched>>
  BY DEF Anchor
<1>4. PICK point \in {"done", "failed"} : Goto(r, point)
  BY DEF Anchor
<1>5. /\ run' \in [Run -> Runs]
      /\ run'[r].at = point /\ run'[r].kind = "compile" /\ run'[r].contract = c
      /\ \A q \in Run \ {r} : run'[q] = run[q]
  BY <1>1, <1>2, <1>4, Moved DEF TrackInv, Points
<1>6. contract' = contract \/ (contract[c] = None /\ contract' = [contract EXCEPT ![c] = "DraftContract"])
  BY <1>1 DEF Anchor
<1>7. contract' \in [Contracts -> States \cup {None}]
      /\ \A d \in Contracts \ {c} : contract'[d] = contract[d]
  BY <1>6 DEF TrackInv, TrackTypeOK, States
<1>8. TrackTypeOK'
  BY <1>3, <1>5, <1>7 DEF TrackInv, TrackTypeOK
<1>9. Holding(r)' /\ ~Owns(r)'
  BY <1>5 DEF Holding, Owns, Working, Activated, Tracked
<1>10. Trace(r)'
  BY <1>2, <1>3, <1>5 DEF Trace, Activated
<1>11. \A q \in Run : Owns(q) => run[q].contract \in Contracts \ {c}
  BY <1>1 DEF TrackInv, Holding
<1>12. TrackInv'
  BY <1>3, <1>5, <1>7, <1>8, <1>9, <1>10, <1>11, StepOf
<1>13. Forward
  BY <1>6, SameForward, StoredForward, RankOrder DEF TrackInv, States
<1> QED
  BY <1>12, <1>13

(* A step of a run that has its contract leaves the other runs alone. *)
LEMMA OwnStep ==
  ASSUME TrackInv, NEW r \in Run, NEW point \in Points, Goto(r, point),
         run[r].at \in Working,
         contract' = contract \/ \E s \in States : contract' = [contract EXCEPT ![run[r].contract] = s],
         TrackTypeOK', Holding(r)', Trace(r)',
         \A q \in Run \ {r} : /\ decision'[q] = decision[q]
                              /\ entries'[q] = entries[q]
                              /\ q \in adr => q \in adr',
         plans \subseteq plans'
  PROVE  TrackInv'
<1>1. /\ run'[r].contract = run[r].contract
      /\ \A q \in Run \ {r} : run'[q] = run[q]
  BY Moved DEF TrackInv
<1>2. Owns(r)
  BY DEF TrackInv, Holding, Owns, Working
<1>3. \A q \in Run \ {r} : Owns(q) => run[q].contract \in Contracts /\ run[q].contract # run[r].contract
  BY <1>2 DEF TrackInv, Apart, Holding
<1>4. \A q \in Run \ {r} : Owns(q) => contract'[run[q].contract] = contract[run[q].contract]
  BY <1>3 DEF TrackInv, TrackTypeOK
<1> QED
  BY <1>1, <1>3, <1>4, StepOf

(* The contract of a working run. *)
LEMMA OfRun ==
  ASSUME TrackInv, NEW r \in Run, run[r].at \in Working
  PROVE  /\ Owns(r) /\ run[r].contract \in Contracts
         /\ run[r].contract \in Intent \X {"track"}
         /\ contract[run[r].contract] # None
         /\ run[r].kind \in Tracked
BY DEF TrackInv, Holding, Owns, Working

LEMMA ValidateKeeps ==
  ASSUME TrackInv, NEW r \in Run, Validate(r)
  PROVE  TrackInv' /\ Forward
<1>1. PICK c \in Contracts : c = run[r].contract /\ c \in Intent \X {"track"}
  BY OfRun DEF Validate, Working
<1>2. run[r].at = "drafted" /\ contract[c] = "DraftContract" /\ entries[r] = None /\ run[r].kind \in Tracked
  BY <1>1, OfRun DEF Validate, TrackInv, Holding, Trace, Working
<1>3. UNCHANGED <<plans, policy, decision, adr, entries, vouched>>
      /\ contract' = [contract EXCEPT ![c] = "ValidatedContract"] /\ Goto(r, "validated")
  BY <1>1 DEF Validate
<1>4. /\ run' \in [Run -> Runs]
      /\ run'[r].at = "validated" /\ run'[r].kind = run[r].kind /\ run'[r].contract = c
      /\ \A q \in Run \ {r} : run'[q] = run[q]
  BY <1>1, <1>3, Moved DEF TrackInv, Points
<1>5. contract' \in [Contracts -> States \cup {None}] /\ contract'[c] = "ValidatedContract"
      /\ "ValidatedContract" \in States /\ "ValidatedContract" # None
  BY <1>3, TrackAssumption DEF TrackInv, TrackTypeOK, States
<1>6. TrackTypeOK'
  BY <1>3, <1>4, <1>5 DEF TrackInv, TrackTypeOK
<1>7. Holding(r)'
  BY <1>1, <1>2, <1>4, <1>5 DEF Holding, Owns, Activated
<1>8. Trace(r)'
  BY <1>2, <1>3, <1>4 DEF Trace, Activated
<1>9. TrackInv'
  BY <1>1, <1>2, <1>3, <1>5, <1>6, <1>7, <1>8, OwnStep DEF Points, Working
<1>10. Forward
  <2>1. Rank(contract[c]) <= Rank("ValidatedContract")
    BY <1>2, RankOrder
  <2> QED
    BY <1>3, <1>5, <2>1, StoredForward DEF TrackInv
<1> QED
  BY <1>9, <1>10

LEMMA ActivateKeeps ==
  ASSUME TrackInv, NEW r \in Run, Activate(r)
  PROVE  TrackInv' /\ Forward
<1>1. PICK c \in Contracts : c = run[r].contract /\ c \in Intent \X {"track"}
  BY OfRun DEF Activate, Working
<1>2. run[r].at = "validated" /\ contract[c] = "ValidatedContract" /\ entries[r] = None
      /\ run[r].kind \in Tracked
  BY <1>1, OfRun DEF Activate, TrackInv, Holding, Trace, Working
<1>3. UNCHANGED <<plans, policy, decision, adr, entries, vouched>>
      /\ contract' = [contract EXCEPT ![c] = "ActiveContract"] /\ Goto(r, "active")
  BY <1>1 DEF Activate
<1>4. /\ run' \in [Run -> Runs]
      /\ run'[r].at = "active" /\ run'[r].kind = run[r].kind /\ run'[r].contract = c
      /\ \A q \in Run \ {r} : run'[q] = run[q]
  BY <1>1, <1>3, Moved DEF TrackInv, Points
<1>5. contract' \in [Contracts -> States \cup {None}] /\ contract'[c] = "ActiveContract"
      /\ "ActiveContract" \in States /\ "ActiveContract" # None
  BY <1>3, TrackAssumption DEF TrackInv, TrackTypeOK, States
<1>6. TrackTypeOK'
  BY <1>3, <1>4, <1>5 DEF TrackInv, TrackTypeOK
<1>7. Holding(r)'
  BY <1>1, <1>2, <1>4, <1>5 DEF Holding, Owns, Activated
<1>8. Trace(r)'
  BY <1>2, <1>3, <1>4 DEF Trace, Activated
<1>9. TrackInv'
  BY <1>1, <1>2, <1>3, <1>5, <1>6, <1>7, <1>8, OwnStep DEF Points, Working
<1>10. Forward
  <2>1. Rank(contract[c]) <= Rank("ActiveContract")
    BY <1>2, RankOrder
  <2> QED
    BY <1>3, <1>5, <2>1, StoredForward DEF TrackInv
<1> QED
  BY <1>9, <1>10

(* The steps after the contract is active store no contract. *)
LEMMA ActiveKeeps ==
  ASSUME TrackInv, NEW r \in Run,
         Route(r) \/ (\E p \in Policies : Judge(r, p)) \/ Record(r) \/ Conclude(r) \/ Write(r) \/ Vouch(r)
  PROVE  TrackInv' /\ Forward
<1>1. run[r].at \in Activated /\ run[r].at \in Working /\ contract' = contract
  BY DEF Route, Judge, Record, Conclude, Write, Vouch, Activated, Working
<1>2. PICK c \in Contracts : /\ c = run[r].contract /\ c \in Intent \X {"track"}
                             /\ contract[c] = "ActiveContract"
                             /\ Owns(r) /\ run[r].kind \in Tracked
  BY <1>1, OfRun DEF TrackInv, Holding
<1>3. Holding(r) /\ Trace(r) /\ TrackTypeOK
  BY DEF TrackInv
<1>4. ASSUME NEW point \in Points, Goto(r, point)
      PROVE  /\ run' \in [Run -> Runs]
             /\ run'[r].at = point /\ run'[r].kind = run[r].kind /\ run'[r].contract = c
             /\ \A q \in Run \ {r} : run'[q] = run[q]
             /\ (point \in Activated \cup {"done", "refused", "failed"} => Holding(r)')
  <2>1. /\ run' \in [Run -> Runs]
        /\ run'[r].at = point /\ run'[r].kind = run[r].kind /\ run'[r].contract = c
        /\ \A q \in Run \ {r} : run'[q] = run[q]
    BY <1>2, <1>3, <1>4, Moved
  <2>2. contract'[c] = "ActiveContract" /\ "ActiveContract" # None
    BY <1>1, <1>2, TrackAssumption DEF States
  <2>3. (point \in Activated \cup {"done", "refused", "failed"} => Holding(r)')
    BY <1>2, <2>1, <2>2 DEF Holding, Activated, Working, Tracked, Owns
  <2> QED
    BY <2>1, <2>3
<1>5. CASE Route(r)
  <2>1. PICK point \in {"cleared", "planned", "failed"} :
          /\ Goto(r, point)
          /\ plans' = plans \/ plans' = plans \cup {c}
          /\ point # "failed" => c \in plans'
          /\ point = "cleared" => run[r].kind = "green"
          /\ point = "planned" => run[r].kind # "green"
          /\ UNCHANGED <<policy, decision, adr, entries, vouched>>
          /\ run[r].at = "active"
    BY <1>2, <1>5 DEF Route
  <2>2. /\ run' \in [Run -> Runs] /\ Holding(r)'
        /\ run'[r].at = point /\ run'[r].kind = run[r].kind /\ run'[r].contract = c
    BY <1>4, <2>1 DEF Points, Activated
  <2>3. entries[r] = None
    BY <1>3, <2>1 DEF Trace
  <2>4. Trace(r)'
    BY <1>2, <2>1, <2>2, <2>3 DEF Trace, Activated, Tracked
  <2>5. TrackTypeOK'
    BY <1>1, <1>3, <2>1, <2>2 DEF TrackTypeOK
  <2>6. TrackInv'
    BY <1>1, <2>1, <2>2, <2>4, <2>5, OwnStep DEF Points
  <2> QED
    BY <1>1, <1>3, <2>6, SameForward
<1>6. CASE \E p \in Policies : Judge(r, p)
  <2>1. PICK p \in Policies : Judge(r, p)
    BY <1>6
  <2>2. PICK v \in GateDecision : v = Verdict(run[r].kind, p)
    BY VerdictType
  <2>3. /\ decision' = [decision EXCEPT ![r] = v]
        /\ policy' = [policy EXCEPT ![r] = p]
        /\ run[r].at = "planned"
        /\ UNCHANGED <<contract, plans, adr, entries, vouched>>
    BY <2>1, <2>2 DEF Judge
  <2>4. PICK point \in {"judged", "cleared"} : Goto(r, point) /\ (point = "judged" <=> run[r].kind = "red")
    BY <2>1 DEF Judge
  <2>5. /\ run' \in [Run -> Runs] /\ Holding(r)'
        /\ run'[r].at = point /\ run'[r].kind = run[r].kind /\ run'[r].contract = c
    BY <1>4, <2>4 DEF Points, Activated
  <2>6. /\ decision' \in [Run -> GateDecision \cup {None}] /\ decision'[r] # None
        /\ policy' \in [Run -> Policies \cup {None}]
        /\ \A q \in Run \ {r} : decision'[q] = decision[q]
    BY <1>3, <2>3, TrackAssumption DEF TrackTypeOK
  <2>7. entries[r] = None /\ c \in plans /\ run[r].kind \in {"yellow", "red"}
    BY <1>2, <1>3, <2>3 DEF Trace, Activated
  <2>8. Trace(r)'
    BY <2>3, <2>4, <2>5, <2>6, <2>7 DEF Trace, Activated
  <2>9. TrackTypeOK'
    BY <1>3, <2>3, <2>5, <2>6 DEF TrackTypeOK
  <2>10. TrackInv'
    BY <1>1, <2>3, <2>4, <2>5, <2>6, <2>8, <2>9, OwnStep DEF Points
  <2> QED
    BY <1>1, <1>3, <2>10, SameForward
<1>7. CASE Record(r)
  <2>1. /\ adr' = adr \cup {r} /\ Goto(r, "anchored") /\ run[r].at = "judged"
        /\ UNCHANGED <<contract, plans, policy, decision, entries, vouched>>
    BY <1>7 DEF Record
  <2>2. /\ run' \in [Run -> Runs] /\ Holding(r)'
        /\ run'[r].at = "anchored" /\ run'[r].kind = run[r].kind /\ run'[r].contract = c
    BY <1>4, <2>1 DEF Points, Activated
  <2>3. Trace(r)'
    BY <1>2, <1>3, <2>1, <2>2 DEF Trace, Activated
  <2>4. TrackTypeOK'
    BY <1>3, <2>1, <2>2 DEF TrackTypeOK
  <2>5. TrackInv'
    BY <1>1, <2>1, <2>3, <2>2, <2>4, OwnStep DEF Points
  <2> QED
    BY <1>1, <1>3, <2>5, SameForward
<1>8. CASE Conclude(r)
  <2>1. /\ Goto(r, "refused") /\ run[r].at = "anchored"
        /\ UNCHANGED <<contract, plans, policy, decision, adr, entries, vouched>>
    BY <1>8 DEF Conclude
  <2>2. /\ run' \in [Run -> Runs] /\ Holding(r)'
        /\ run'[r].at = "refused" /\ run'[r].kind = run[r].kind /\ run'[r].contract = c
    BY <1>4, <2>1 DEF Points
  <2>3. Trace(r)'
    BY <1>2, <1>3, <2>1, <2>2 DEF Trace, Activated
  <2>4. TrackTypeOK'
    BY <1>3, <2>1, <2>2 DEF TrackTypeOK
  <2>5. TrackInv'
    BY <1>1, <2>1, <2>3, <2>2, <2>4, OwnStep DEF Points
  <2> QED
    BY <1>1, <1>3, <2>5, SameForward
<1>9. CASE Write(r)
  <2>1. /\ Goto(r, "written") /\ run[r].at = "cleared"
        /\ entries' = [entries EXCEPT ![r] = c]
        /\ UNCHANGED <<contract, plans, policy, decision, adr, vouched>>
    BY <1>2, <1>9 DEF Write
  <2>2. /\ run' \in [Run -> Runs] /\ Holding(r)'
        /\ run'[r].at = "written" /\ run'[r].kind = run[r].kind /\ run'[r].contract = c
    BY <1>4, <2>1 DEF Points, Activated
  <2>3. entries' \in [Run -> Contracts \cup {None}] /\ entries'[r] = c
        /\ \A q \in Run \ {r} : entries'[q] = entries[q]
    BY <1>3, <2>1 DEF TrackTypeOK
  <2>4. Owns(r)'
    BY <1>2, <2>2 DEF Owns
  <2>5. c \in plans /\ run[r].kind # "red" /\ (run[r].kind # "green" => decision[r] # None)
        /\ (run[r].kind = "green" \/ run[r].kind = "yellow")
    BY <1>2, <1>3, <2>1 DEF Trace, Activated
  <2>6. Trace(r)'
    BY <1>2, <2>1, <2>2, <2>3, <2>4, <2>5 DEF Trace, Activated
  <2>7. TrackTypeOK'
    BY <1>3, <2>1, <2>2, <2>3 DEF TrackTypeOK
  <2>8. TrackInv'
    BY <1>1, <2>1, <2>3, <2>2, <2>6, <2>7, OwnStep DEF Points
  <2> QED
    BY <1>1, <1>3, <2>8, SameForward
<1>10. CASE Vouch(r)
  <2>1. /\ Goto(r, "done") /\ run[r].at = "written" /\ vouched' = vouched \cup {r}
        /\ UNCHANGED <<contract, plans, policy, decision, adr, entries>>
    BY <1>10 DEF Vouch
  <2>2. /\ run' \in [Run -> Runs] /\ Holding(r)'
        /\ run'[r].at = "done" /\ run'[r].kind = run[r].kind /\ run'[r].contract = c
    BY <1>4, <2>1 DEF Points
  <2>3. Owns(r)'
    BY <1>2, <2>2 DEF Owns
  <2>4. Trace(r)'
    BY <1>2, <1>3, <2>1, <2>2, <2>3 DEF Trace, Activated
  <2>5. TrackTypeOK'
    BY <1>3, <2>1, <2>2 DEF TrackTypeOK
  <2>6. TrackInv'
    BY <1>1, <2>1, <2>4, <2>2, <2>5, OwnStep DEF Points
  <2> QED
    BY <1>1, <1>3, <2>6, SameForward
<1> QED
  BY <1>5, <1>6, <1>7, <1>8, <1>9, <1>10

LEMMA CrashKeeps ==
  ASSUME TrackInv, NEW r \in Run, Crash(r)
  PROVE  TrackInv' /\ Forward
<1>1. /\ Goto(r, "lost") /\ run[r].at \in Points \ (Ended \cup {"new"})
      /\ UNCHANGED <<contract, plans, policy, decision, adr, entries, vouched>>
  BY DEF Crash, TrackInv, TrackTypeOK, Runs
<1>2. /\ run' \in [Run -> Runs]
      /\ run'[r].at = "lost" /\ run'[r].kind = run[r].kind /\ run'[r].contract = run[r].contract
      /\ \A q \in Run \ {r} : run'[q] = run[q]
  BY <1>1, Moved DEF TrackInv, Points
<1>3. Owns(r)' <=> Owns(r)
  BY <1>1, <1>2 DEF Owns, Ended
<1>4. Holding(r)'
  BY <1>1, <1>2, <1>3 DEF Holding, Working, Activated, TrackInv
<1>5. Trace(r)'
  BY <1>1, <1>2, <1>3 DEF Trace, Activated, TrackInv
<1>6. TrackTypeOK'
  BY <1>1, <1>2 DEF TrackInv, TrackTypeOK
<1>7. TrackInv'
  <2>1. Owns(r)' => \A q \in Run \ {r} : Owns(q) => run[q].contract # run'[r].contract
    BY <1>2, <1>3 DEF TrackInv, Apart
  <2> QED
    BY <1>1, <1>2, <1>4, <1>5, <1>6, <2>1, StepOf
<1> QED
  BY <1>1, <1>7, SameForward DEF TrackInv

LEMMA TracksKeep ==
  ASSUME TrackInv, TrackStep \/ UNCHANGED tracks
  PROVE  TrackInv' /\ Forward
<1>1. CASE UNCHANGED tracks
  <2>1. TrackInv'
    BY <1>1 DEF tracks, TrackInv, TrackTypeOK, Apart, Owns, Holding, Trace
  <2> QED
    BY <1>1, <2>1, SameForward DEF TrackInv, tracks
<1>2. ASSUME NEW r \in Run, NEW i \in Intent,
             Lookup(r, i) \/ \E kind \in Kinds : Compile(r, kind, i)
      PROVE  TrackInv' /\ Forward
  BY <1>2, LookupKeeps, CompileKeeps
<1>3. ASSUME NEW r \in Run, Advance(r) \/ Crash(r)
      PROVE  TrackInv' /\ Forward
  BY <1>3, AnchorKeeps, ValidateKeeps, ActivateKeeps, ActiveKeeps, CrashKeeps DEF Advance
<1> QED
  BY <1>1, <1>2, <1>3 DEF TrackStep

-----------------------------------------------------------------------------
(* The whole. *)

LeaseInv == LeaseTypeOK /\ Held /\ LeaseBudgetHolds /\ LateInv

IInv == LeaseInv /\ TrackInv

(* Every step is one of the leases or one of a run, and the other side does
   not move. *)
LEMMA NextSplits ==
  ASSUME [Next]_vars
  PROVE  /\ LeaseStep \/ (\E l \in Lease : Grant(l)) \/ UNCHANGED leases
         /\ TrackStep \/ UNCHANGED tracks
<1>1. ASSUME NEW r \in Run, Advance(r) \/ Crash(r) PROVE UNCHANGED leases
  BY <1>1 DEF Advance, Anchor, Validate, Activate, Route, Judge, Record, Conclude, Write, Vouch, Crash
<1>2. ASSUME NEW r \in Run, NEW i \in Intent,
             Lookup(r, i) \/ \E kind \in Kinds : Compile(r, kind, i)
      PROVE  UNCHANGED leases
  BY <1>2 DEF Lookup, Compile
<1>3. CASE UNCHANGED vars
  BY <1>3 DEF vars
<1>4. CASE Next
  BY <1>1, <1>2, <1>4 DEF Next, GrantFor, TrackStep
<1> QED
  BY <1>3, <1>4

LEMMA LeasesKeep ==
  ASSUME LeaseInv, LeaseStep \/ (\E l \in Lease : Grant(l)) \/ UNCHANGED leases
  PROVE  LeaseInv'
<1>1. CASE UNCHANGED leases
  BY <1>1 DEF leases, LeaseInv, LeaseTypeOK, Held, LeaseBudgetHolds, LateInv, Pending, Checked
<1>2. CASE LeaseStep \/ \E l \in Lease : Grant(l)
  BY <1>2, LeaseTypes, BudgetStep, LateStep DEF LeaseInv
<1> QED
  BY <1>1, <1>2

LEMMA InitHolds == Init => IInv
<1> SUFFICES ASSUME Init PROVE IInv
  OBVIOUS
<1>1. LeaseTypeOK /\ Held
  BY LeaseAssumption DEF Init, LeaseInit, LeaseTypeOK, Held, Idle, Stages
<1>2. \A l : Pending(l) = {} /\ Checked(l) = {}
  BY DEF Init, LeaseInit, Pending, Checked, Idle
<1>3. LeaseBudgetHolds
  BY <1>2 DEF Init, LeaseInit, LeaseBudgetHolds
<1>4. LateInv
  <2>1. Cardinality(Holder) \in Nat /\ Cardinality({}) = 0
    BY LeaseAssumption, FS_CardinalityType, FS_EmptySet
  <2>2. ASSUME NEW l \in Lease
        PROVE  late[l] = 0 /\ Cardinality(Checked(l)) = 0
    BY <1>2, <2>1 DEF Init, LeaseInit
  <2> QED
    BY <2>1, <2>2 DEF LateInv
<1>5. TrackTypeOK
  BY DEF Init, TrackTypeOK, Runs, Points
<1>6. Apart /\ \A r \in Run : Holding(r) /\ Trace(r)
  BY DEF Init, Apart, Owns, Holding, Trace, Working, Activated, Tracked
<1> QED
  BY <1>1, <1>3, <1>4, <1>5, <1>6 DEF IInv, LeaseInv, TrackInv

LEMMA Inductive == Spec => []IInv
<1>1. IInv /\ [Next]_vars => IInv'
  BY NextSplits, LeasesKeep, TracksKeep DEF IInv
<1> QED
  BY <1>1, InitHolds, PTL DEF Spec

(* Every state of the runs and the leases is well typed. *)
THEOREM TrackTypes == Spec => []TypeOK
<1>1. IInv => TypeOK
  BY DEF IInv, LeaseInv, TrackInv, TrackTypeOK, TypeOK
<1> QED
  BY <1>1, Inductive, PTL

(* What is performed under a lease and what is about to be was consumed first
   and never exceeds the budget (lease_repo.rs, consume_operation). *)
THEOREM LeaseBudget == Spec => []LeaseBudgetHolds
<1>1. IInv => LeaseBudgetHolds
  BY DEF IInv, LeaseInv
<1> QED
  BY <1>1, Inductive, PTL

(* A lapsed lease gives at most one more operation to each call that looked at
   the clock before (lease.rs, try_consume). *)
THEOREM LateUses == Spec => []LateUsesAreBounded
<1>1. IInv => LateUsesAreBounded
  BY DEF IInv, LeaseInv, LateInv, LateUsesAreBounded
<1> QED
  BY <1>1, Inductive, PTL

(* What a run left behind is backed by what comes before, wherever it stopped
   (green.rs, yellow.rs, red.rs). *)
THEOREM TracesBacked == Spec => []TracesAreBacked
<1>1. ASSUME IInv PROVE TracesAreBacked
  <2>1. ASSUME NEW r \in Run, entries[r] # None
        PROVE  /\ contract[entries[r]] = "ActiveContract"
               /\ entries[r] \in plans
               /\ run[r].kind # "green" => decision[r] # None
               /\ \A q \in Run \ {r} : entries[q] # entries[r]
    <3>1. /\ contract[entries[r]] = "ActiveContract"
          /\ entries[r] \in plans
          /\ run[r].kind # "green" => decision[r] # None
      BY <1>1, <2>1 DEF IInv, TrackInv, Trace
    <3>2. Owns(r) /\ entries[r] = run[r].contract /\ entries[r] # None
      BY <1>1, <2>1 DEF IInv, TrackInv, Trace
    <3>3. ASSUME NEW q \in Run \ {r} PROVE entries[q] # entries[r]
      <4>1. entries[q] # None => Owns(q) /\ entries[q] = run[q].contract
        BY <1>1 DEF IInv, TrackInv, Trace
      <4> QED
        BY <1>1, <3>2, <4>1 DEF IInv, TrackInv, Apart
    <3> QED
      BY <3>1, <3>3
  <2>2. ASSUME NEW r \in Run, run[r].kind = "red"
        PROVE  /\ entries[r] = None
               /\ run[r].at = "refused" => decision[r] # None /\ r \in adr
    BY <1>1, <2>2 DEF IInv, TrackInv, Trace
  <2> QED
    BY <2>1, <2>2 DEF TracesAreBacked
<1> QED
  BY <1>1, Inductive, PTL

(* A lease that ended gives nothing more and never comes back (lease_repo.rs,
   revoke and expire_all). *)
THEOREM LeasesEnd == Spec => EndedLeasesStayEnded
<1>1. ASSUME IInv, [Next]_vars
      PROVE  [\A l \in Lease : lease[l] # NoLease /\ ~Active(l) =>
                lease'[l] # NoLease /\ ~Active(l)' /\ lease'[l].used = lease[l].used]_leases
  <2>1. CASE UNCHANGED leases
    BY <2>1
  <2>2. CASE LeaseStep \/ \E l \in Lease : Grant(l)
    BY <1>1, <2>2, EndStep DEF IInv, LeaseInv
  <2> QED
    BY <1>1, <2>1, <2>2, NextSplits
<1> QED
  BY <1>1, Inductive, PTL DEF Spec, EndedLeasesStayEnded

(* A stored contract only moves forward (contract_repo.rs, update_state after
   insert). *)
THEOREM ContractsForward == Spec => ContractsMoveForward
<1>1. ASSUME IInv, [Next]_vars
      PROVE  [\A c \in Contracts : Rank(contract[c]) <= Rank(contract'[c])]_vars
  BY <1>1, NextSplits, TracksKeep DEF IInv, Forward
<1> QED
  BY <1>1, Inductive, PTL DEF Spec, ContractsMoveForward
=============================================================================
