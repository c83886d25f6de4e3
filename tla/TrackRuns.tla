------------------------------ MODULE TrackRuns ------------------------------
(***************************************************************************)
(* The green, yellow and red track runners (coevo-tracks), POST            *)
(* /mcl/compile and the leases, over the tables they share: contracts,     *)
(* plans, risk decisions, ADRs, blackboard entries and leases.             *)
(*                                                                         *)
(* A run is a row of separate statements.  Each is a step; other runs act  *)
(* between them, and the process may stop at any of them.  The compiler is *)
(* deterministic, so an intent stands for the hash of its contract; the    *)
(* policy version is part of the hash, so what the endpoint compiles is    *)
(* never the contract of a track run.                                      *)
(***************************************************************************)
EXTENDS RiskGate, Leases

CONSTANTS
  Run,     \* calls of a track runner or of the endpoint
  Intent,  \* user intents, each with its contract
  None     \* no row, no intent, no decision

(* A contract: its intent and whether the endpoint or a track compiled it. *)
Contracts == Intent \X {"endpoint", "track"}
States == {"DraftContract", "ValidatedContract", "ActiveContract"}

ASSUME TrackAssumption ==
  None \notin GateDecision \cup Policies \cup States \cup Contracts

VARIABLES
  contract,  \* contracts.mcl_state of each compiled intent, None without a row
  plans,     \* contracts with an execution plan
  run,       \* where each run stands
  policy,    \* what the policy engine told each run
  decision,  \* the run's risk_decisions row, None without one
  adr,       \* runs whose ADR is stored
  entries,   \* blackboard entries written by each run: its contract, None without one
  vouched    \* runs whose entry has its provenance envelope

tracks == <<contract, plans, run, policy, decision, adr, entries, vouched>>
vars == <<tracks, leases>>

Kinds == {"green", "yellow", "red", "compile"}
Points == {"new", "missing", "drafted", "validated", "active", "planned", "judged", "anchored",
           "cleared", "written", "done", "refused", "failed", "lost"}
Runs == [kind : Kinds \cup {"none"}, at : Points, contract : Contracts \cup {None}]

TypeOK ==
  /\ LeaseTypeOK
  /\ contract \in [Contracts -> States \cup {None}]
  /\ plans \subseteq Contracts
  /\ run \in [Run -> Runs]
  /\ policy \in [Run -> Policies \cup {None}]
  /\ decision \in [Run -> GateDecision \cup {None}]
  /\ adr \subseteq Run
  /\ entries \in [Run -> Contracts \cup {None}]
  /\ vouched \subseteq Run

Init ==
  /\ LeaseInit
  /\ contract = [c \in Contracts |-> None]
  /\ plans = {}
  /\ run = [r \in Run |-> [kind |-> "none", at |-> "new", contract |-> None]]
  /\ policy = [r \in Run |-> None]
  /\ decision = [r \in Run |-> None]
  /\ adr = {}
  /\ entries = [r \in Run |-> None]
  /\ vouched = {}

-----------------------------------------------------------------------------
Goto(r, point) == run' = [run EXCEPT ![r].at = point]

(* Mutant: the runners store their contract as the endpoint does. *)
CompileOrIgnore(r, kind, i) ==
  LET c == <<i, "track">> IN
  /\ run[r].at = "new" /\ kind \in Kinds \ {"compile"}
  /\ run' = [run EXCEPT ![r] = [kind |-> kind, contract |-> c, at |-> "drafted"]]
  /\ contract' = IF contract[c] = None THEN [contract EXCEPT ![c] = "DraftContract"] ELSE contract
  /\ UNCHANGED <<plans, policy, decision, adr, entries, vouched, leases>>

(* MCLCompiler::compile and ContractRepo::insert: contract_hash is UNIQUE, so
   an intent compiled before fails the run.  An intent that is too ambiguous,
   or a red run without its proofs, fails before anything is stored. *)
Compile(r, kind, i) ==
  LET c == <<i, "track">> IN
  /\ run[r].at = "new" /\ kind \in Kinds \ {"compile"}
  /\ run' = [run EXCEPT ![r] = [kind |-> kind, contract |-> c,
                                at |-> IF contract[c] = None THEN "drafted" ELSE "failed"]]
  /\ contract' = IF contract[c] = None THEN [contract EXCEPT ![c] = "DraftContract"] ELSE contract
  /\ UNCHANGED <<plans, policy, decision, adr, entries, vouched, leases>>

(* compile_contract, the SELECT of ContractRepo::insert_or_ignore. *)
Lookup(r, i) ==
  LET c == <<i, "endpoint">> IN
  /\ run[r].at = "new"
  /\ run' = [run EXCEPT ![r] = [kind |-> "compile", contract |-> c,
                                at |-> IF contract[c] = None THEN "missing" ELSE "done"]]
  /\ UNCHANGED <<contract, plans, policy, decision, adr, entries, vouched, leases>>

(* Its INSERT: another call may have stored the contract since. *)
Anchor(r) ==
  LET c == run[r].contract IN
  /\ run[r].at = "missing"
  /\ Goto(r, IF contract[c] = None THEN "done" ELSE "failed")
  /\ contract' = IF contract[c] = None THEN [contract EXCEPT ![c] = "DraftContract"] ELSE contract
  /\ UNCHANGED <<plans, policy, decision, adr, entries, vouched, leases>>

(* MCLStateMachine::transition from the state the run compiled, never the
   stored one, and ContractRepo::update_state. *)
Validate(r) ==
  /\ run[r].at = "drafted"
  /\ contract' = [contract EXCEPT ![run[r].contract] = "ValidatedContract"]
  /\ Goto(r, "validated")
  /\ UNCHANGED <<plans, policy, decision, adr, entries, vouched, leases>>

Activate(r) ==
  /\ run[r].at = "validated"
  /\ contract' = [contract EXCEPT ![run[r].contract] = "ActiveContract"]
  /\ Goto(r, "active")
  /\ UNCHANGED <<plans, policy, decision, adr, entries, vouched, leases>>

(* PcdtRouter::compute, which fails without agents, and PlanRepo::insert: the
   plan's hash covers the time. *)
Route(r) ==
  /\ run[r].at = "active"
  /\ \/ /\ plans' = plans \cup {run[r].contract}
        /\ Goto(r, IF run[r].kind = "green" THEN "cleared" ELSE "planned")
     \/ /\ Goto(r, "failed")
        /\ UNCHANGED plans
  /\ UNCHANGED <<contract, policy, decision, adr, entries, vouched, leases>>

(* The decision the gate gives a run: a red contract may get a lease, and
   neither track has a veto.  Staging or not, a yellow run gets the same
   (YellowRunsNeedNoHuman of TrackRunsProofs). *)
Verdict(kind, p) ==
  IF kind = "red"
  THEN evaluate(p, FALSE, RedAction, RedSettings, TRUE)
  ELSE evaluate(p, FALSE, YellowAction(TRUE), YellowSettings, FALSE)

(* Mutant: a red run that is denied returns before its ADR is stored. *)
JudgeReturningDenials(r, p) ==
  /\ run[r].at = "planned"
  /\ policy' = [policy EXCEPT ![r] = p]
  /\ decision' = [decision EXCEPT ![r] = Verdict(run[r].kind, p)]
  /\ Goto(r, IF run[r].kind # "red" THEN "cleared"
             ELSE IF decision'[r] = "DENY" THEN "refused" ELSE "judged")
  /\ UNCHANGED <<contract, plans, adr, entries, vouched, leases>>

(* RiskGate::evaluate and RiskRepo::insert. *)
Judge(r, p) ==
  /\ run[r].at = "planned"
  /\ policy' = [policy EXCEPT ![r] = p]
  /\ decision' = [decision EXCEPT ![r] = Verdict(run[r].kind, p)]
  /\ Goto(r, IF run[r].kind = "red" THEN "judged" ELSE "cleared")
  /\ UNCHANGED <<contract, plans, adr, entries, vouched, leases>>

(* AdrRepo::insert, for a red run. *)
Record(r) ==
  /\ run[r].at = "judged"
  /\ adr' = adr \cup {r}
  /\ Goto(r, "anchored")
  /\ UNCHANGED <<contract, plans, policy, decision, entries, vouched, leases>>

(* finalize_red_gate, of a run without a lease. *)
Refusing == GateDecision \ {"ALLOW"}

(* The outcome of a red run.  Neither ALLOW nor ALLOW_WITH_LEASE can be decided
   (RedRunsAreRefused of TrackRunsProofs), so the lease and the loop under it
   are not modelled. *)
Conclude(r) ==
  /\ run[r].at = "anchored"
  /\ decision[r] \in Refusing
  /\ Goto(r, "refused")
  /\ UNCHANGED <<contract, plans, policy, decision, adr, entries, vouched, leases>>

(* CognitiveCustoms::propose on a fresh key: the entry, then its envelope.  A
   yellow run writes its hypothesis whatever the decision. *)
Write(r) ==
  /\ run[r].at = "cleared"
  /\ entries' = [entries EXCEPT ![r] = run[r].contract]
  /\ Goto(r, "written")
  /\ UNCHANGED <<contract, plans, policy, decision, adr, vouched, leases>>

Vouch(r) ==
  /\ run[r].at = "written"
  /\ vouched' = vouched \cup {r}
  /\ Goto(r, "done")
  /\ UNCHANGED <<contract, plans, policy, decision, adr, entries, leases>>

Ended == {"done", "refused", "failed", "lost"}

(* The process stops; nothing takes the run up again. *)
Crash(r) ==
  /\ run[r].at \notin Ended \cup {"new"}
  /\ Goto(r, "lost")
  /\ UNCHANGED <<contract, plans, policy, decision, adr, entries, vouched, leases>>

Advance(r) ==
  Anchor(r) \/ Validate(r) \/ Activate(r) \/ Route(r) \/ (\E p \in Policies : Judge(r, p))
    \/ Record(r) \/ Conclude(r) \/ Write(r) \/ Vouch(r)

(* A lease is granted for a stored contract: the row refers to it. *)
GrantFor(l, c) ==
  /\ contract[c] # None
  /\ Grant(l)
  /\ UNCHANGED tracks

Next ==
  \/ \E r \in Run, i \in Intent :
       Lookup(r, i) \/ \E kind \in Kinds : Compile(r, kind, i)
  \/ \E r \in Run : Advance(r) \/ Crash(r)
  \/ \E l \in Lease, c \in Contracts : GrantFor(l, c)
  \/ LeaseStep /\ UNCHANGED tracks

Spec == Init /\ [][Next]_vars

-----------------------------------------------------------------------------
Rank(s) ==
  CASE s = None                -> 0
    [] s = "DraftContract"     -> 1
    [] s = "ValidatedContract" -> 2
    [] s = "ActiveContract"    -> 3

(* A stored contract only moves forward, although every update_state writes a
   state computed without reading the row: only the run that stored it updates
   it (green.rs, yellow.rs, red.rs after ContractRepo::insert). *)
ContractsMoveForward ==
  [][\A c \in Contracts : Rank(contract[c]) <= Rank(contract'[c])]_vars

(* Whatever stops a run, what it left behind is backed by what comes before:
   an entry by the active contract and plan of that run alone and, unless the
   run is green, by its risk decision; a refusal of a red run by its decision
   and its ADR (red.rs, Steps 4 to 8). *)
TracesAreBacked ==
  /\ \A r \in Run : entries[r] # None =>
       /\ contract[entries[r]] = "ActiveContract"
       /\ entries[r] \in plans
       /\ run[r].kind # "green" => decision[r] # None
       /\ \A q \in Run \ {r} : entries[q] # entries[r]
  /\ \A r \in Run : run[r].kind = "red" =>
       /\ entries[r] = None
       /\ run[r].at = "refused" => decision[r] # None /\ r \in adr
=============================================================================
