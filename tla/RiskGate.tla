------------------------------ MODULE RiskGate ------------------------------
(***************************************************************************)
(* The risk gate's decision (coevo-risk, quantify.rs and decision_tree.rs) *)
(* as operators, and the inputs its callers pass.                          *)
(*                                                                         *)
(* The code computes with fractions rounded to hundredths.  Here a risk is *)
(* a whole number of hundredths and a confidence, a product of two         *)
(* hundredths, a whole number of ten-thousandths.  Every caller passes at  *)
(* most one supporting and at most one opposing stance.                    *)
(***************************************************************************)
EXTENDS Integers

(* What evaluate_action answers: a policy that passes or is violated, or an
   engine that cannot be reached. *)
Policies == {"passed", "violated", "unavailable"}

GateDecision == {"ALLOW", "DENY", "REQUIRE_HUMAN_APPROVAL", "ALLOW_WITH_LEASE"}

(* ActionProposalSpec, the four factors that count. *)
Actions == [blast_radius : Nat, irreversibility : Nat, environment_sensitivity : Nat, reversibility : Nat]

Factors(br, ir, es, rv) ==
  [blast_radius |-> br, irreversibility |-> ir, environment_sensitivity |-> es, reversibility |-> rv]

(* The stances and the environment of one evaluation. *)
Settings == [support : Nat, opposition : Nat, inaction : Nat]

-----------------------------------------------------------------------------
(* quantify.rs *)

Nearest(n, d) == (2 * n + d) \div (2 * d)

compute_action_risk(a) ==
  Nearest(30 * a.blast_radius + 35 * a.irreversibility + 20 * a.environment_sensitivity
          + 15 * a.reversibility, 3)

compute_inaction_risk(service, urgency, propagation) ==
  Nearest(40 * service + 35 * urgency + 25 * propagation, 100)

(* reputation x evidence weight of the only stance; 0 when there is none. *)
stance_confidence(reputation, evidence) == reputation * evidence

available_confidence(s) ==
  LET raw == s.support - s.opposition
  IN  IF raw < 0 THEN 0 ELSE IF raw > 10000 THEN 10000 ELSE raw

(* required_confidence is the action's risk itself. *)
Confident(a, s) == available_confidence(s) >= 100 * compute_action_risk(a)

(* RiskGate::evaluate.  The policy comes first and fails closed, then the
   veto, then the numbers. *)
evaluate(policy, veto, a, s, leasable) ==
  CASE policy # "passed" \/ veto                              -> "DENY"
    [] policy = "passed" /\ ~veto /\ Confident(a, s)          -> "ALLOW"
    [] policy = "passed" /\ ~veto /\ ~Confident(a, s)
         /\ leasable /\ s.inaction > compute_action_risk(a)   -> "ALLOW_WITH_LEASE"
    [] OTHER                                                  -> "REQUIRE_HUMAN_APPROVAL"

-----------------------------------------------------------------------------
(* What the callers pass. *)

(* RedTrackRunner: every factor at its highest. *)
RedAction == Factors(3, 3, 3, 3)
RedSettings ==
  [support    |-> stance_confidence(60, 70),
   opposition |-> stance_confidence(50, 40),
   inaction   |-> compute_inaction_risk(80, 90, 70)]

(* YellowTrackRunner, in staging and elsewhere, and POST /risk/evaluate, whose
   caller gives the factors. *)
YellowAction(staging) == Factors(1, 1, IF staging THEN 1 ELSE 0, 1)
YellowSettings ==
  [support    |-> stance_confidence(70, 80),
   opposition |-> 0,
   inaction   |-> compute_inaction_risk(30, 20, 10)]

(* GovernGate of a worker: a full vote for the action, the factors of the
   tool's type (risk_factors_for_tool). *)
WorkerActions == {Factors(0, 0, 0, 0), Factors(1, 1, 1, 1), Factors(2, 2, 1, 2)}
WorkerSettings ==
  [support |-> stance_confidence(100, 100), opposition |-> 0, inaction |-> compute_inaction_risk(0, 0, 0)]
=============================================================================
