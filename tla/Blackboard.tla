------------------------------ MODULE Blackboard ------------------------------
(***************************************************************************)
(* The cognitive customs (coevo-customs): proposals, the propagation of an *)
(* invalidation along dependencies, promotion and the sweep of expired     *)
(* facts, over blackboard_entries and cognitive_edges.                     *)
(*                                                                         *)
(* No operation runs in a transaction.  Each statement is a step, and      *)
(* calls interleave between statements.  A call cut short, because a       *)
(* statement fails, its caller is dropped or the process stops, is one     *)
(* that takes no further step: what it had written stays.  The INSERT of a *)
(* proposal fails for a contract hash that no contract has, which is all   *)
(* the endpoint ever passes, and an edge fails for an id that no entry     *)
(* has.                                                                    *)
(***************************************************************************)
EXTENDS Integers, Sequences

CONSTANTS
  Entry,     \* calls of propose, each with the fresh id of the entry it writes
  Key,       \* entry keys
  Proposed,  \* layers that are proposed
  Walker,    \* calls of propagate_invalidation
  Promoter,  \* calls of promote, each used again once it has returned
  Sweeper,   \* calls of expire_stale_facts, likewise
  None       \* no row, no key

Layers == {"Hypothesis", "Fact", "Suggestion", "Decision", "StaleFact", "RevokedFact"}

Row == [key : Key, version : Nat, layer : Layers, valid : BOOLEAN, expires : BOOLEAN]

ASSUME BlackboardAssumption ==
  /\ Proposed \subseteq Layers
  /\ None \notin Entry \cup Key \cup Row
  /\ Promoter \cap Sweeper = {}

VARIABLES
  row,        \* blackboard_entries: a row or None
  edges,      \* cognitive_edges: <<source, target>>, the source depends on the target
  call,       \* where each proposal stands
  walk,       \* where each propagation stands
  promotion,  \* what each promotion is about to write, None when it is not under way
  sweep,      \* the rows each sweep has selected and not written yet
  before,     \* history: the versions of its key when a proposal under way passed its version check
  owed,       \* history: edges that were there when their target was invalidated
  settled     \* history: entries revoked while no other call had them in hand

table == <<row, edges>>
vars == <<table, call, walk, promotion, sweep, before, owed, settled>>

Stored == {e \in Entry : row[e] # None}
Of(k) == {e \in Stored : row[e].key = k}

Calls == [at : {"new", "checked", "numbered", "inserted", "over"}, key : Key \cup {None},
          layer : Layers, deps : SUBSET Entry, top : Nat]
Walks == [at : {"idle", "walking", "done"}, queue : Seq(Entry),
          visited : SUBSET Entry, found : SUBSET Entry]

TypeOK ==
  /\ row \in [Entry -> Row \cup {None}]
  /\ edges \subseteq Stored \X Stored
  /\ call \in [Entry -> Calls]
  /\ walk \in [Walker -> Walks]
  /\ promotion \in [Promoter -> [entry : Entry, to : Layers] \cup {None}]
  /\ sweep \in [Sweeper -> SUBSET Entry]
  /\ before \in [Entry -> SUBSET Nat]
  /\ owed \subseteq edges
  /\ settled \subseteq Entry

(* A call and a propagation without locals: not begun or over. *)
Resting(point) == [at |-> point, key |-> None, layer |-> "Hypothesis", deps |-> {}, top |-> 0]
Still(point) == [at |-> point, queue |-> <<>>, visited |-> {}, found |-> {}]

Init ==
  /\ row = [e \in Entry |-> None]
  /\ edges = {}
  /\ call = [e \in Entry |-> Resting("new")]
  /\ walk = [w \in Walker |-> Still("idle")]
  /\ promotion = [m \in Promoter |-> None]
  /\ sweep = [s \in Sweeper |-> {}]
  /\ before = [e \in Entry |-> {}]
  /\ owed = {} /\ settled = {}

-----------------------------------------------------------------------------
(* CognitiveCustoms::propose. *)

(* The guards.  The version asked for is the caller's: it equals that of the
   newest valid row, or the call fails, like one whose envelope does not
   verify, and has changed nothing.  The ids it depends on are those of rows
   it knows. *)
Propose(e, k, layer, deps) ==
  /\ call[e].at = "new"
  /\ deps \subseteq Stored
  /\ call' = [call EXCEPT ![e] = 
       [at |-> "checked", key |-> k, layer |-> layer, deps |-> deps, top |-> 0]]
  /\ before' = [before EXCEPT ![e] = {row[i].version : i \in Of(k)}]
  /\ UNCHANGED <<table, walk, promotion, sweep, owed, settled>>

(* Mutant: the number of the newest valid row, as the version check reads it. *)
ReadTopOfValid(e) ==
  LET versions == {0} \cup {row[i].version : i \in {j \in Of(call[e].key) : row[j].valid}} IN
  /\ call[e].at = "checked"
  /\ \E v \in versions : /\ \A x \in versions : x <= v
                         /\ call' = [call EXCEPT ![e] = [@ EXCEPT !.at = "numbered", !.top = v]]
  /\ UNCHANGED <<table, walk, promotion, sweep, before, owed, settled>>

(* BlackboardRepo::insert, its SELECT MAX(version), over all rows of the key:
   NULL without one, which reads as 0. *)
ReadTop(e) ==
  LET versions == {0} \cup {row[i].version : i \in Of(call[e].key)} IN
  /\ call[e].at = "checked"
  /\ \E v \in versions : /\ \A x \in versions : x <= v
                         /\ call' = [call EXCEPT ![e] = [@ EXCEPT !.at = "numbered", !.top = v]]
  /\ UNCHANGED <<table, walk, promotion, sweep, before, owed, settled>>

(* Its INSERT.  The envelope follows, in a statement that touches nothing
   modelled here.  A call without dependencies is over. *)
Insert(e) ==
  LET c == call[e] IN
  /\ c.at = "numbered"
  /\ row' = [row EXCEPT ![e] = [key |-> c.key, version |-> c.top + 1, layer |-> c.layer,
                                valid |-> TRUE, expires |-> c.layer = "Fact"]]
  /\ call' = [call EXCEPT ![e] = IF c.deps = {} THEN Resting("over")
                                 ELSE [Resting("inserted") EXCEPT !.deps = c.deps]]
  /\ before' = [before EXCEPT ![e] = {}]
  /\ UNCHANGED <<edges, walk, promotion, sweep, owed, settled>>

(* Mutant: an edge before the entry. *)
LinkEarly(e, d) ==
  /\ call[e].at \in {"numbered", "inserted"} /\ d \in call[e].deps
  /\ edges' = edges \cup {<<e, d>>}
  /\ call' = [call EXCEPT ![e] = [@ EXCEPT !.deps = @ \ {d}]]
  /\ UNCHANGED <<row, walk, promotion, sweep, before, owed, settled>>

(* CognitiveDependencyGraph::add_edge, one dependency after the other; with
   the last one the call returns its receipt. *)
Link(e, d) ==
  /\ call[e].at = "inserted" /\ d \in call[e].deps
  /\ edges' = edges \cup {<<e, d>>}
  /\ call' = [call EXCEPT ![e] = IF @.deps = {d} THEN Resting("over")
                                 ELSE [call[e] EXCEPT !.deps = @ \ {d}]]
  /\ UNCHANGED <<row, walk, promotion, sweep, before, owed, settled>>

ProposeStep(e) ==
  \/ \E k \in Key, layer \in Proposed, deps \in SUBSET Stored : Propose(e, k, layer, deps)
  \/ ReadTop(e) \/ Insert(e)
  \/ \E d \in Entry : Link(e, d)

-----------------------------------------------------------------------------
(* CognitiveDependencyGraph::propagate_invalidation. *)

(* Entries that depend on e, as the edges have it. *)
Dependents(e) == {s \in Entry : <<s, e>> \in edges}

(* The call for an entry that went stale or was revoked.  It does not touch
   that entry. *)
Start(w, e) ==
  /\ walk[w].at = "idle"
  /\ e \in Stored /\ row[e].layer \in {"StaleFact", "RevokedFact"}
  /\ walk' = [walk EXCEPT ![w] = [at |-> "walking", queue |-> <<e>>, visited |-> {e}, found |-> {}]]
  /\ owed' = owed \cup {<<s, e>> : s \in Dependents(e)}
  /\ UNCHANGED <<table, call, promotion, sweep, before, settled>>

(* The call returns with the last dependent. *)
Going(r) == IF r.queue = <<>> /\ r.found = {} THEN Still("done") ELSE r

(* pop_front and find_dependents, which selects valid sources only; those
   visited before are passed over. *)
Query(w) ==
  /\ walk[w].at = "walking" /\ walk[w].found = {}
  /\ LET e == Head(walk[w].queue)
         found == {s \in Dependents(e) \cap Stored : row[s].valid /\ s \notin walk[w].visited} IN
     walk' = [walk EXCEPT ![w] = Going([walk[w] EXCEPT !.queue = Tail(@), !.found = found])]
  /\ UNCHANGED <<table, call, promotion, sweep, before, owed, settled>>

(* Mutant: a dependent is invalidated but not queued. *)
MarkOnly(w, s) ==
  /\ walk[w].at = "walking" /\ s \in walk[w].found
  /\ walk' = [walk EXCEPT ![w] = Going([walk[w] EXCEPT !.visited = @ \cup {s}, !.found = @ \ {s}])]
  /\ row' = [row EXCEPT ![s].valid = FALSE]
  /\ owed' = owed \cup {<<x, s>> : x \in Dependents(s)}
  /\ UNCHANGED <<edges, call, promotion, sweep, before, settled>>

(* One of the dependents found: it is queued and invalidated. *)
Mark(w, s) ==
  /\ walk[w].at = "walking" /\ s \in walk[w].found
  /\ walk' = [walk EXCEPT ![w] =
                 Going([walk[w] EXCEPT !.visited = @ \cup {s}, !.queue = Append(@, s),
                                       !.found = @ \ {s}])]
  /\ row' = [row EXCEPT ![s].valid = FALSE]
  /\ owed' = owed \cup {<<x, s>> : x \in Dependents(s)}
  /\ UNCHANGED <<edges, call, promotion, sweep, before, settled>>

WalkStep(w) ==
  \/ \E e \in Entry : Start(w, e) \/ Mark(w, e)
  \/ Query(w)

-----------------------------------------------------------------------------
(* PromotionEngine::promote. *)

Promotions == {<<"Hypothesis", "Fact">>, <<"Fact", "RevokedFact">>, <<"Suggestion", "Decision">>}

(* The row is read and the transition looked up; anything else fails and
   changes nothing, like a promotion without its report or verifier. *)
Promote(m, e, to) ==
  /\ promotion[m] = None
  /\ e \in Stored /\ <<row[e].layer, to>> \in Promotions
  /\ promotion' = [promotion EXCEPT ![m] = [entry |-> e, to |-> to]]
  /\ UNCHANGED <<table, call, walk, sweep, before, owed, settled>>

InHand(e) ==
  {m \in Promoter : promotion[m] # None /\ promotion[m].entry = e}
    \cup {s \in Sweeper : e \in sweep[s]}

(* BlackboardRepo::update_layer: the row is not looked at again. *)
UpdateLayer(m) ==
  /\ promotion[m] # None
  /\ LET e == promotion[m].entry
         to == promotion[m].to IN
     /\ row' = [row EXCEPT ![e].layer = to]
     /\ settled' = IF to = "RevokedFact" /\ InHand(e) = {m} THEN settled \cup {e} ELSE settled
  /\ promotion' = [promotion EXCEPT ![m] = None]
  /\ UNCHANGED <<edges, call, walk, sweep, before, owed>>

DropPromotion(m) ==
  /\ promotion[m] # None
  /\ promotion' = [promotion EXCEPT ![m] = None]
  /\ UNCHANGED <<table, call, walk, sweep, before, owed, settled>>

-----------------------------------------------------------------------------
(* BlackboardRepo::expire_stale_facts. *)

(* Mutant: every row with an expiry, whatever its layer. *)
ExpiresInAnyLayer(e) == e \in Stored /\ row[e].valid /\ row[e].expires

(* Rows the SELECT may return. *)
Expires(e) == e \in Stored /\ row[e].layer = "Fact" /\ row[e].valid /\ row[e].expires

(* The SELECT returns those of them whose expires_at_ms has passed. *)
Sweep(s) ==
  /\ sweep[s] = {}
  /\ \E due \in SUBSET {e \in Entry : Expires(e)} :
       due # {} /\ sweep' = [sweep EXCEPT ![s] = due]
  /\ UNCHANGED <<table, call, walk, promotion, before, owed, settled>>

(* One row of the list; the UPDATE names its id only. *)
SweepRow(s, e) ==
  /\ e \in sweep[s]
  /\ row' = [row EXCEPT ![e].layer = "StaleFact"]
  /\ sweep' = [sweep EXCEPT ![s] = @ \ {e}]
  /\ UNCHANGED <<edges, call, walk, promotion, before, owed, settled>>

DropSweep(s) ==
  /\ sweep[s] # {}
  /\ sweep' = [sweep EXCEPT ![s] = {}]
  /\ UNCHANGED <<table, call, walk, promotion, before, owed, settled>>

KeepStep ==
  \/ \E m \in Promoter :
       UpdateLayer(m) \/ DropPromotion(m) \/ \E e \in Entry, to \in Layers : Promote(m, e, to)
  \/ \E s \in Sweeper : Sweep(s) \/ DropSweep(s) \/ \E e \in Entry : SweepRow(s, e)

Next ==
  \/ \E e \in Entry : ProposeStep(e)
  \/ \E w \in Walker : WalkStep(w)
  \/ KeepStep

Spec == Init /\ [][Next]_vars

-----------------------------------------------------------------------------
(* A version is never given again to a call that began after it was given,
   whatever became of the rows since: a new row has a higher version than all
   rows of its key that were there at its version check, the invalid ones
   included (blackboard_repo.rs, insert). *)
VersionsFollow ==
  [][\A e \in Entry : row[e] = None /\ row'[e] # None =>
        \A v \in before[e] : v < row'[e].version]_vars

(* When every propagation that was started has finished, nothing valid is left
   that depended on an entry when that entry was invalidated or went stale,
   however the propagations overlapped (dependency.rs,
   propagate_invalidation; find_dependents skips what another one has
   invalidated). *)
NoDependentIsLeft ==
  (\A w \in Walker : walk[w].at \in {"idle", "done"}) =>
     \A s, t \in Entry : <<s, t>> \in owed => s \in Stored /\ ~row[s].valid

(* Only a call that had read the entry before its revocation can undo it: an
   entry revoked while no other call had it in hand stays revoked
   (promotion.rs and expire_stale_facts, whose updates name the id only). *)
SettledRevocationsStay ==
  \A e \in settled : e \in Stored /\ row[e].layer = "RevokedFact"
=============================================================================
