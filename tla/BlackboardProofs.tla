--------------------------- MODULE BlackboardProofs ---------------------------
(***************************************************************************)
(* Proofs about Blackboard for any entries, keys, propagations, promotions *)
(* and sweeps.                                                             *)
(*                                                                         *)
(* The invariants that concern one call are stated for that call, so that  *)
(* a step is argued where it acts and framed everywhere else.  The frame   *)
(* is Kept: no step removes a row, changes its key or version, or makes it *)
(* valid again.                                                            *)
(***************************************************************************)
EXTENDS Blackboard, TLAPS

Kept ==
  \A e \in Stored : /\ row'[e] # None
                    /\ row'[e].key = row[e].key
                    /\ row'[e].version = row[e].version
                    /\ row'[e].valid => row[e].valid

(* A proposal: its row is there from its INSERT on; what it saw at its version
   check is below what it counts from; what it depends on is stored. *)
Numbered(e) ==
  /\ row[e] = None <=> call[e].at \in {"new", "checked", "numbered"}
  /\ call[e].at = "checked" => \A v \in before[e] : \E i \in Of(call[e].key) : row[i].version = v
  /\ call[e].at = "numbered" => \A v \in before[e] : v <= call[e].top
  /\ call[e].at \in {"checked", "numbered"} => call[e].key \in Key /\ call[e].layer \in Layers
  /\ call[e].deps \subseteq Stored

(* What a promotion and a sweep have in hand is stored. *)
Held(m) == promotion[m] # None => promotion[m].entry \in Stored
Swept(s) == sweep[s] \subseteq Stored

(* A settled revocation is in nobody's hands. *)
Settled(e) ==
  /\ row[e] # None /\ row[e].layer = "RevokedFact"
  /\ \A m \in Promoter : promotion[m] # None => promotion[m].entry # e
  /\ \A s \in Sweeper : e \notin sweep[s]

(* A propagation under way has something left to do, among stored entries. *)
Walking(w) ==
  /\ walk[w].at # "walking" => walk[w].queue = <<>> /\ walk[w].found = {}
  /\ walk[w].at = "walking" => walk[w].queue # <<>> \/ walk[w].found # {}
  /\ walk[w].visited \cup walk[w].found \subseteq Stored
  /\ walk[w].found \cap walk[w].visited = {}
  /\ \A i \in 1 .. Len(walk[w].queue) : walk[w].queue[i] \in walk[w].visited

(* A propagation that will still reach s from t. *)
Reaches(w, s, t) ==
  \/ s \in walk[w].found
  \/ \E i \in 1 .. Len(walk[w].queue) : walk[w].queue[i] = t

Owed(s, t) == ~row[s].valid \/ \E w \in Walker : Reaches(w, s, t)

(* Entries can be ranked by age: an entry depends on older ones only, and what
   a propagation finds is younger than where it began.  That is why it never
   comes back to its first entry, the only visited one that may be valid. *)
Ranks == [Entry -> Nat]

Aged(r, n) ==
  /\ \A e \in Stored : r[e] < n
  /\ \A s, t \in Entry : <<s, t>> \in edges => r[t] < r[s]
  /\ \A e \in Entry : call[e].at = "inserted" => \A d \in call[e].deps : r[d] < r[e]

Rooted(r, w) ==
  walk[w].at = "walking" =>
    \E root \in walk[w].visited :
      /\ \A x \in walk[w].visited : (x = root \/ ~row[x].valid) /\ r[root] <= r[x]
      /\ \A x \in walk[w].found : r[root] < r[x]

IInv ==
  /\ TypeOK
  /\ \A e \in Entry : Numbered(e)
  /\ \A m \in Promoter : Held(m)
  /\ \A s \in Sweeper : Swept(s)
  /\ \A e \in settled : Settled(e)
  /\ \A w \in Walker : Walking(w)
  /\ \A s, t \in Entry : <<s, t>> \in owed => Owed(s, t)
  /\ \E r \in Ranks, n \in Nat : Aged(r, n) /\ \A w \in Walker : Rooted(r, w)

-----------------------------------------------------------------------------
LEMMA RowFacts ==
  ASSUME TypeOK
  PROVE  \A e \in Stored : /\ e \in Entry /\ row[e] # None /\ row[e] \in Row
                           /\ row[e].key \in Key /\ row[e].version \in Nat
                           /\ row[e].layer \in Layers
BY BlackboardAssumption DEF TypeOK, Stored, Row

LEMMA Initially == Init => IInv
<1> SUFFICES ASSUME Init PROVE IInv
  OBVIOUS
<1>1. Stored = {}
  BY DEF Init, Stored
<1>2. TypeOK
  <2>1. call \in [Entry -> Calls]
    BY DEF Init, Calls, Resting, Layers
  <2>2. walk \in [Walker -> Walks]
    BY DEF Init, Walks, Still
  <2> QED
    BY <2>1, <2>2 DEF Init, TypeOK
<1>3. \A e \in Entry : Numbered(e)
  BY DEF Init, Numbered, Resting
<1>4. \A w \in Walker : Walking(w)
  BY DEF Init, Walking, Still
<1>5. \E r \in Ranks, n \in Nat : Aged(r, n) /\ \A w \in Walker : Rooted(r, w)
  <2> DEFINE r == [e \in Entry |-> 0]
  <2>1. r \in Ranks /\ 0 \in Nat
    BY DEF Ranks
  <2>2. Aged(r, 0)
    BY <1>1 DEF Aged, Init, Resting
  <2>3. \A w \in Walker : Rooted(r, w)
    BY DEF Rooted, Init, Still
  <2> QED
    BY <2>1, <2>2, <2>3
<1> QED
  BY <1>2, <1>3, <1>4, <1>5 DEF Init, IInv, Held, Swept

-----------------------------------------------------------------------------
(* What a step does not disturb. *)

LEMMA StoredGrows ==
  ASSUME TypeOK, Kept
  PROVE  Stored \subseteq Stored'
BY DEF Stored, Kept

LEMMA NumberedFrame ==
  ASSUME TypeOK, Kept, NEW e \in Entry, Numbered(e), call'[e] = call[e], before'[e] = before[e],
         row[e] = None <=> row'[e] = None
  PROVE  Numbered(e)'
<1>1. Stored \subseteq Stored'
  BY StoredGrows
<1>2. call[e].at = "checked" =>
        \A v \in before[e] : \E i \in Entry : i \in Of(call[e].key)' /\ row'[i].version = v
  BY <1>1 DEF Numbered, Of, Kept, Stored
<1> QED
  BY <1>1, <1>2 DEF Numbered, Of

LEMMA HandsFrame ==
  ASSUME TypeOK, Kept, promotion' = promotion, sweep' = sweep,
         \A m \in Promoter : Held(m), \A s \in Sweeper : Swept(s)
  PROVE  (\A m \in Promoter : Held(m))' /\ (\A s \in Sweeper : Swept(s))'
BY StoredGrows DEF Held, Swept

LEMMA SettledFrame ==
  ASSUME TypeOK, Kept, promotion' = promotion, sweep' = sweep, NEW e \in Entry, Settled(e),
         row'[e].layer = row[e].layer
  PROVE  Settled(e)'
BY DEF Settled, Kept, Stored

LEMMA WalkingFrame ==
  ASSUME TypeOK, Kept, NEW w \in Walker, Walking(w), walk'[w] = walk[w]
  PROVE  Walking(w)'
BY StoredGrows DEF Walking

LEMMA OwedFrame ==
  ASSUME TypeOK, Kept, NEW s \in Stored, NEW t \in Entry, Owed(s, t),
         \A w \in Walker : Reaches(w, s, t) => Reaches(w, s, t)'
  PROVE  Owed(s, t)'
BY DEF Owed, Kept

LEMMA RootedFrame ==
  ASSUME TypeOK, Kept, NEW w \in Walker, NEW r, Walking(w), Rooted(r, w), walk'[w] = walk[w]
  PROVE  Rooted(r, w)'
BY DEF Rooted, Walking, Kept

-----------------------------------------------------------------------------
(* The steps of a proposal. *)

(* A proposal's step that writes no row and no edge. *)
LEMMA CallOnly ==
  ASSUME IInv, NEW e \in Entry, NEW c \in Calls,
         call' = [call EXCEPT ![e] = c], before' \in [Entry -> SUBSET Nat],
         \A i \in Entry \ {e} : before'[i] = before[i],
         UNCHANGED <<table, walk, promotion, sweep, owed, settled>>,
         Numbered(e)', c.at # "inserted"
  PROVE  IInv'
<1>1. TypeOK
  BY DEF IInv
<1>2. TypeOK'
  BY <1>1 DEF TypeOK, table, Stored
<1>3. Kept /\ Stored' = Stored
  BY DEF Kept, Stored, table
<1>4. (\A i \in Entry : Numbered(i))'
  <2> SUFFICES ASSUME NEW i \in Entry, i # e PROVE Numbered(i)'
    OBVIOUS
  <2>1. call'[i] = call[i]
    BY <1>1 DEF TypeOK
  <2> QED
    BY <1>1, <1>3, <2>1, NumberedFrame DEF IInv, table
<1>5. (\A m \in Promoter : Held(m))' /\ (\A s \in Sweeper : Swept(s))'
  BY <1>1, <1>3, HandsFrame DEF IInv
<1>6. (\A i \in settled : Settled(i))'
  BY DEF IInv, Settled, table
<1>7. (\A w \in Walker : Walking(w))'
  BY <1>3 DEF IInv, Walking
<1>8. (\A s, t \in Entry : <<s, t>> \in owed => Owed(s, t))'
  BY DEF IInv, Owed, Reaches, table
<1>9. (\E r \in Ranks, n \in Nat : Aged(r, n) /\ \A w \in Walker : Rooted(r, w))'
  <2>1. PICK r \in Ranks, n \in Nat : Aged(r, n) /\ \A w \in Walker : Rooted(r, w)
    BY DEF IInv
  <2>2. Aged(r, n)'
    <3>1. \A i \in Entry : call'[i].at = "inserted" => call'[i] = call[i]
      BY <1>1 DEF TypeOK
    <3> QED
      BY <1>3, <2>1, <3>1 DEF Aged, table
  <2>3. (\A w \in Walker : Rooted(r, w))'
    BY <2>1 DEF Rooted, table
  <2> QED
    BY <2>2, <2>3
<1> QED
  BY <1>2, <1>4, <1>5, <1>6, <1>7, <1>8, <1>9 DEF IInv

LEMMA ProposeKeeps ==
  ASSUME IInv, NEW e \in Entry, NEW k \in Key, NEW layer \in Proposed, NEW deps \in SUBSET Stored,
         Propose(e, k, layer, deps)
  PROVE  IInv'
<1> DEFINE c == [at |-> "checked", key |-> k, layer |-> layer, deps |-> deps, top |-> 0]
<1>1. TypeOK /\ Stored \subseteq Entry /\ Stored' = Stored /\ row' = row
  BY DEF IInv, Stored, Propose, table
<1>2. c \in Calls /\ c.at # "inserted"
  BY <1>1, BlackboardAssumption DEF Calls
<1>3. call' = [call EXCEPT ![e] = c]
  BY DEF Propose
<1>4. before' \in [Entry -> SUBSET Nat] /\ \A i \in Entry \ {e} : before'[i] = before[i]
  BY <1>1, RowFacts DEF TypeOK, Propose, Of
<1>5. Numbered(e)'
  <2>1. call'[e] = c /\ before'[e] = {row[i].version : i \in Of(k)}
    BY <1>1, <1>3 DEF TypeOK, Propose
  <2>2. row[e] = None
    BY DEF IInv, Numbered, Propose
  <2>3. Of(k)' = Of(k)
    BY <1>1 DEF Of
  <2> QED
    BY <1>1, <2>1, <2>2, <2>3, BlackboardAssumption DEF Numbered
<1> HIDE DEF c
<1> QED
  BY <1>2, <1>3, <1>4, <1>5, CallOnly DEF Propose

LEMMA ReadTopKeeps ==
  ASSUME IInv, NEW e \in Entry, ReadTop(e)
  PROVE  IInv'
<1>1. TypeOK /\ row' = row /\ Stored' = Stored /\ before' = before
  BY DEF IInv, ReadTop, table, Stored
<1> DEFINE versions == {0} \cup {row[i].version : i \in Of(call[e].key)}
<1>2. PICK v \in versions : /\ \A x \in versions : x <= v
                            /\ call' = [call EXCEPT ![e] = [@ EXCEPT !.at = "numbered", !.top = v]]
  BY DEF ReadTop
<1> DEFINE c == [call[e] EXCEPT !.at = "numbered", !.top = v]
<1>3. v \in Nat
  BY <1>1, RowFacts DEF Of
<1>4. call[e] \in Calls
  BY <1>1 DEF TypeOK
<1>5. c \in Calls /\ c.at # "inserted" /\ c.at = "numbered" /\ c.top = v
      /\ c.key = call[e].key /\ c.layer = call[e].layer /\ c.deps = call[e].deps
  BY <1>3, <1>4 DEF Calls
<1>6. call' = [call EXCEPT ![e] = c]
  BY <1>1, <1>2 DEF TypeOK
<1>7. Numbered(e)'
  <2>1. call'[e] = c
    BY <1>1, <1>6 DEF TypeOK
  <2>2. Numbered(e) /\ call[e].at = "checked"
    BY DEF IInv, ReadTop
  <2>3. \A x \in before[e] : x <= v
    BY <1>2, <2>2 DEF Numbered
  <2> HIDE DEF c
  <2> QED
    BY <1>1, <1>5, <2>1, <2>2, <2>3 DEF Numbered
<1>8. before' \in [Entry -> SUBSET Nat] /\ \A i \in Entry \ {e} : before'[i] = before[i]
  BY <1>1 DEF TypeOK
<1> HIDE DEF c
<1> QED
  BY <1>5, <1>6, <1>7, <1>8, CallOnly DEF ReadTop

LEMMA InsertKeeps ==
  ASSUME IInv, NEW e \in Entry, Insert(e)
  PROVE  IInv'
<1> DEFINE new == [key |-> call[e].key, version |-> call[e].top + 1, layer |-> call[e].layer,
                   valid |-> TRUE, expires |-> call[e].layer = "Fact"]
           c == IF call[e].deps = {} THEN Resting("over")
                ELSE [Resting("inserted") EXCEPT !.deps = call[e].deps]
<1>1. TypeOK /\ Numbered(e) /\ call[e].at = "numbered" /\ row[e] = None
  BY DEF IInv, Insert, Numbered
<1>2. call[e] \in Calls /\ Stored \subseteq Entry
  BY <1>1 DEF TypeOK, Stored
<1>3. new \in Row
  BY <1>1, <1>2 DEF Row, Calls, Numbered
<1>4. c \in Calls /\ c.at \in {"inserted", "over"} /\ c.deps = call[e].deps
  BY <1>1, <1>2 DEF Calls, Resting, Layers
<1>5. row' = [row EXCEPT ![e] = new] /\ call' = [call EXCEPT ![e] = c]
      /\ before' = [before EXCEPT ![e] = {}]
      /\ UNCHANGED <<edges, walk, promotion, sweep, owed, settled>>
  BY DEF Insert
<1>6. new # None
  BY <1>3, BlackboardAssumption
<1> HIDE DEF new, c
<1>7. row'[e] = new /\ call'[e] = c /\ before'[e] = {}
      /\ \A i \in Entry \ {e} : row'[i] = row[i] /\ call'[i] = call[i] /\ before'[i] = before[i]
  BY <1>1, <1>5 DEF TypeOK
<1>8. Stored' = Stored \cup {e} /\ e \notin Stored /\ Kept
  BY <1>1, <1>6, <1>7 DEF Stored, Kept
<1>9. TypeOK'
  BY <1>1, <1>3, <1>4, <1>5, <1>8 DEF TypeOK
<1>10. (\A i \in Entry : Numbered(i))'
  <2>1. Numbered(e)'
    BY <1>1, <1>4, <1>6, <1>7, <1>8 DEF Numbered
  <2>2. ASSUME NEW i \in Entry, i # e PROVE Numbered(i)'
    BY <1>1, <1>7, <1>8, <2>2, NumberedFrame DEF IInv
  <2> QED
    BY <2>1, <2>2
<1>11. (\A m \in Promoter : Held(m))' /\ (\A s \in Sweeper : Swept(s))'
  BY <1>1, <1>5, <1>8, HandsFrame DEF IInv
<1>12. (\A i \in settled : Settled(i))'
  <2> SUFFICES ASSUME NEW i \in settled PROVE Settled(i)'
    BY <1>5
  <2>1. i \in Entry /\ Settled(i) /\ i # e
    BY <1>1 DEF IInv, TypeOK, Settled
  <2> QED
    BY <1>1, <1>5, <1>7, <1>8, <2>1, SettledFrame
<1>13. (\A w \in Walker : Walking(w))'
  BY <1>1, <1>5, <1>8, WalkingFrame DEF IInv
<1>14. (\A s, t \in Entry : <<s, t>> \in owed => Owed(s, t))'
  <2> SUFFICES ASSUME NEW s \in Entry, NEW t \in Entry, <<s, t>> \in owed PROVE Owed(s, t)'
    BY <1>5
  <2>1. s \in Stored /\ Owed(s, t)
    BY <1>1 DEF IInv, TypeOK
  <2> QED
    BY <1>1, <1>5, <1>8, <2>1, OwedFrame DEF Reaches
<1>15. (\E r \in Ranks, n \in Nat : Aged(r, n) /\ \A w \in Walker : Rooted(r, w))'
  <2>1. PICK r \in Ranks, n \in Nat : Aged(r, n) /\ \A w \in Walker : Rooted(r, w)
    BY DEF IInv
  <2> DEFINE q == [r EXCEPT ![e] = n]
  <2>2. q \in Ranks /\ n + 1 \in Nat /\ q[e] = n /\ \A i \in Entry \ {e} : q[i] = r[i]
    BY DEF Ranks
  <2> HIDE DEF q
  <2>3. \A i \in Stored : i \in Entry /\ q[i] = r[i] /\ r[i] < n /\ r[i] \in Nat
    BY <1>2, <1>8, <2>1, <2>2 DEF Aged, Ranks
  <2>4. Aged(q, n + 1)'
    <3>1. \A i \in Stored' : q[i] < n + 1
      BY <1>8, <2>2, <2>3
    <3>2. \A s, t \in Entry : <<s, t>> \in edges' => q[t] < q[s]
      BY <1>1, <1>5, <2>1, <2>3 DEF Aged, TypeOK
    <3>3. ASSUME NEW i \in Entry, call'[i].at = "inserted", NEW d \in call'[i].deps
          PROVE  q[d] < q[i]
      <4>1. call'[i].deps = call[i].deps /\ call[i].deps \subseteq Stored
        BY <1>4, <1>7 DEF IInv, Numbered
      <4>2. CASE i = e
        BY <2>2, <2>3, <3>3, <4>1, <4>2
      <4>3. CASE i # e
        <5>1. call[i].at = "inserted" /\ d \in call[i].deps
          BY <1>7, <3>3, <4>3
        <5>2. r[d] < r[i]
          BY <2>1, <5>1 DEF Aged
        <5> QED
          BY <2>2, <2>3, <4>1, <4>3, <5>1, <5>2
      <4> QED
        BY <4>2, <4>3
    <3> QED
      BY <3>1, <3>2, <3>3 DEF Aged
  <2>5. (\A w \in Walker : Rooted(q, w))'
    <3> SUFFICES ASSUME NEW w \in Walker PROVE Rooted(q, w)'
      OBVIOUS
    <3>1. Walking(w) /\ Rooted(r, w)
      BY <2>1 DEF IInv
    <3>2. Rooted(q, w)
      BY <2>3, <3>1 DEF Rooted, Walking
    <3> QED
      BY <1>1, <1>5, <1>8, <3>1, <3>2, RootedFrame
  <2> QED
    BY <2>2, <2>4, <2>5
<1> QED
  BY <1>9, <1>10, <1>11, <1>12, <1>13, <1>14, <1>15 DEF IInv

LEMMA LinkKeeps ==
  ASSUME IInv, NEW e \in Entry, NEW d \in Entry, Link(e, d)
  PROVE  IInv'
<1> DEFINE c == IF call[e].deps = {d} THEN Resting("over")
                ELSE [call[e] EXCEPT !.deps = @ \ {d}]
<1>1. TypeOK /\ Numbered(e) /\ call[e].at = "inserted" /\ d \in call[e].deps
  BY DEF IInv, Link
<1>2. call[e] \in Calls /\ e \in Stored /\ d \in Stored
  BY <1>1 DEF TypeOK, Stored, Numbered
<1>3. c \in Calls /\ c.at \in {"inserted", "over"} /\ c.deps = call[e].deps \ {d}
  BY <1>1, <1>2 DEF Calls, Resting, Layers
<1>4. call' = [call EXCEPT ![e] = c]
  <2>1. CASE call[e].deps = {d}
    BY <1>1, <2>1 DEF Link, TypeOK
  <2>2. CASE call[e].deps # {d}
    BY <1>1, <2>2 DEF Link, TypeOK
  <2> QED
    BY <2>1, <2>2
<1>5. edges' = edges \cup {<<e, d>>}
      /\ UNCHANGED <<row, walk, promotion, sweep, before, owed, settled>>
  BY DEF Link
<1> HIDE DEF c
<1>6. call'[e] = c /\ \A i \in Entry \ {e} : call'[i] = call[i]
  BY <1>1, <1>4 DEF TypeOK
<1>7. Stored' = Stored /\ Kept
  BY <1>5 DEF Stored, Kept
<1>8. TypeOK'
  BY <1>1, <1>2, <1>3, <1>4, <1>5, <1>7 DEF TypeOK
<1>9. (\A i \in Entry : Numbered(i))'
  <2>1. Numbered(e)'
    BY <1>1, <1>3, <1>5, <1>6, <1>7 DEF Numbered
  <2>2. ASSUME NEW i \in Entry, i # e PROVE Numbered(i)'
    BY <1>1, <1>5, <1>6, <1>7, <2>2, NumberedFrame DEF IInv
  <2> QED
    BY <2>1, <2>2
<1>10. (\A m \in Promoter : Held(m))' /\ (\A s \in Sweeper : Swept(s))'
  BY <1>1, <1>5, <1>7, HandsFrame DEF IInv
<1>11. (\A i \in settled : Settled(i))'
  BY <1>5 DEF IInv, Settled
<1>12. (\A w \in Walker : Walking(w))'
  BY <1>5, <1>7 DEF IInv, Walking
<1>13. (\A s, t \in Entry : <<s, t>> \in owed => Owed(s, t))'
  BY <1>5 DEF IInv, Owed, Reaches
<1>14. (\E r \in Ranks, n \in Nat : Aged(r, n) /\ \A w \in Walker : Rooted(r, w))'
  <2>1. PICK r \in Ranks, n \in Nat : Aged(r, n) /\ \A w \in Walker : Rooted(r, w)
    BY DEF IInv
  <2>2. r[d] < r[e]
    BY <1>1, <2>1 DEF Aged
  <2>3. Aged(r, n)'
    <3>1. \A i \in Entry : call'[i].at = "inserted" => \A x \in call'[i].deps : r[x] < r[i]
      BY <1>1, <1>3, <1>6, <2>1 DEF Aged
    <3> QED
      BY <1>5, <1>7, <2>1, <2>2, <3>1 DEF Aged
  <2>4. (\A w \in Walker : Rooted(r, w))'
    BY <1>5, <2>1 DEF Rooted
  <2> QED
    BY <2>3, <2>4
<1> QED
  BY <1>8, <1>9, <1>10, <1>11, <1>12, <1>13, <1>14 DEF IInv

-----------------------------------------------------------------------------
(* The steps of a propagation. *)

(* A propagation's step replaces its own state and may invalidate rows; it is
   left to show what becomes of its own walk and of what is owed. *)
LEMMA WalkOnly ==
  ASSUME IInv, NEW w \in Walker, NEW k \in Walks, walk' = [walk EXCEPT ![w] = k],
         row' \in [Entry -> Row \cup {None}], Kept, Stored' = Stored,
         \A e \in Stored : row'[e].layer = row[e].layer,
         UNCHANGED <<edges, call, promotion, sweep, before, settled>>,
         owed' \subseteq edges, Walking(w)',
         \A s, t \in Entry : <<s, t>> \in owed' => Owed(s, t)',
         \A r \in Ranks, n \in Nat : Aged(r, n) /\ Rooted(r, w) => Rooted(r, w)'
  PROVE  IInv'
<1>1. TypeOK /\ \A x \in Walker \ {w} : walk'[x] = walk[x]
  BY DEF IInv, TypeOK
<1>2. TypeOK'
  BY <1>1 DEF TypeOK
<1>3. (\A i \in Entry : Numbered(i))'
  BY <1>1, NumberedFrame DEF IInv, Stored
<1>4. (\A m \in Promoter : Held(m))' /\ (\A s \in Sweeper : Swept(s))'
  BY <1>1, HandsFrame DEF IInv
<1>5. (\A i \in settled : Settled(i))'
  <2> SUFFICES ASSUME NEW i \in settled PROVE Settled(i)'
    OBVIOUS
  <2>1. i \in Stored /\ Settled(i)
    BY <1>1 DEF IInv, TypeOK, Settled, Stored
  <2> QED
    BY <1>1, <2>1, SettledFrame DEF Stored
<1>6. (\A x \in Walker : Walking(x))'
  BY <1>1, WalkingFrame DEF IInv
<1>7. (\E r \in Ranks, n \in Nat : Aged(r, n) /\ \A x \in Walker : Rooted(r, x))'
  <2>1. PICK r \in Ranks, n \in Nat : Aged(r, n) /\ \A x \in Walker : Rooted(r, x)
    BY DEF IInv
  <2>2. Aged(r, n)'
    BY <2>1 DEF Aged
  <2>3. (\A x \in Walker : Rooted(r, x))'
    <3> SUFFICES ASSUME NEW x \in Walker, x # w PROVE Rooted(r, x)'
      BY <2>1
    <3> QED
      BY <1>1, <2>1, RootedFrame DEF IInv
  <2> QED
    BY <2>2, <2>3
<1> QED
  BY <1>2, <1>3, <1>4, <1>5, <1>6, <1>7 DEF IInv

LEMMA StartKeeps ==
  ASSUME IInv, NEW w \in Walker, NEW e \in Entry, Start(w, e)
  PROVE  IInv'
<1> DEFINE k == [at |-> "walking", queue |-> <<e>>, visited |-> {e}, found |-> {}]
<1>1. TypeOK /\ walk[w].at = "idle" /\ e \in Stored /\ row' = row
      /\ walk' = [walk EXCEPT ![w] = k]
      /\ UNCHANGED <<edges, call, promotion, sweep, before, settled>>
  BY DEF IInv, Start, table
<1>2. k \in Walks /\ k.at = "walking" /\ k.queue = <<e>> /\ k.visited = {e} /\ k.found = {}
  BY DEF Walks
<1>3. Kept /\ Stored' = Stored
  BY <1>1 DEF Kept, Stored
<1>4. walk'[w] = k /\ \A x \in Walker \ {w} : walk'[x] = walk[x]
  BY <1>1 DEF TypeOK
<1>5. Walking(w) /\ Walking(w)'
  <2>1. Len(<<e>>) = 1 /\ <<e>>[1] = e /\ <<e>> # <<>>
    OBVIOUS
  <2> HIDE DEF k
  <2> QED
    BY <1>1, <1>2, <1>3, <1>4, <2>1 DEF IInv, Walking
<1>6. owed' = owed \cup {<<s, e>> : s \in Dependents(e)} /\ owed' \subseteq edges
  BY <1>1 DEF Start, Dependents, TypeOK
<1>7. \A s, t \in Entry : <<s, t>> \in owed' => Owed(s, t)'
  <2> SUFFICES ASSUME NEW s \in Entry, NEW t \in Entry, <<s, t>> \in owed' PROVE Owed(s, t)'
    OBVIOUS
  <2>1. CASE <<s, t>> \in owed
    <3>1. \A x \in Walker : Reaches(x, s, t) => x # w
      BY <1>1, <1>5 DEF Reaches, Walking
    <3>2. s \in Stored /\ Owed(s, t)
      BY <1>1, <2>1 DEF IInv, TypeOK
    <3>3. \A x \in Walker : Reaches(x, s, t) => Reaches(x, s, t)'
      BY <1>4, <3>1 DEF Reaches
    <3> QED
      BY <1>1, <1>3, <3>2, <3>3, OwedFrame
  <2>2. CASE t = e
    <3>1. 1 \in 1 .. Len(<<e>>) /\ <<e>>[1] = t
      BY <2>2
    <3>2. Reaches(w, s, t)'
      BY <1>2, <1>4, <3>1 DEF Reaches
    <3> QED
      BY <3>2 DEF Owed
  <2> QED
    BY <1>6, <2>1, <2>2
<1>8. \A r \in Ranks, n \in Nat : Rooted(r, w)'
  <2> SUFFICES ASSUME NEW r \in Ranks PROVE Rooted(r, w)'
    OBVIOUS
  <2>1. r[e] <= r[e]
    BY DEF Ranks
  <2> HIDE DEF k
  <2> QED
    BY <1>2, <1>4, <2>1 DEF Rooted
<1> HIDE DEF k
<1> QED
  BY <1>1, <1>2, <1>3, <1>5, <1>6, <1>7, <1>8, WalkOnly DEF TypeOK

LEMMA QueryKeeps ==
  ASSUME IInv, NEW w \in Walker, Query(w)
  PROVE  IInv'
<1> DEFINE old == walk[w]
           t0 == Head(old.queue)
           rest == Tail(old.queue)
           found == {s \in Dependents(t0) \cap Stored : row[s].valid /\ s \notin old.visited}
           next == [old EXCEPT !.queue = rest, !.found = found]
           k == Going(next)
<1>1. TypeOK /\ Walking(w) /\ old.at = "walking" /\ old.found = {} /\ row' = row
      /\ owed' = owed /\ UNCHANGED <<edges, call, promotion, sweep, before, settled>>
  BY DEF IInv, Query, table
<1>2. walk' = [walk EXCEPT ![w] = k]
  BY <1>1 DEF Query, TypeOK
<1>3. old \in Walks /\ old.queue \in Seq(Entry) /\ old.queue # <<>> /\ old.visited \subseteq Entry
  BY <1>1 DEF TypeOK, Walking, Walks
<1>4. /\ \A s \in found : s \in Stored /\ s \in Entry /\ s \in Dependents(t0) /\ s \notin old.visited
      /\ \A s \in Stored : s \in Dependents(t0) /\ row[s].valid /\ s \notin old.visited
                             => s \in found
  BY DEF Stored
<1>5. rest \in Seq(Entry) /\ Len(rest) = Len(old.queue) - 1
      /\ t0 = old.queue[1] /\ Len(old.queue) \in Nat /\ 1 \in 1 .. Len(old.queue)
      /\ \A i \in 1 .. Len(rest) : rest[i] = old.queue[i + 1]
  BY <1>3
<1>6. t0 \in old.visited /\ t0 \in Entry
  BY <1>1, <1>3, <1>5 DEF Walking
<1> HIDE DEF found, rest
<1>7. next \in Walks /\ next.at = "walking" /\ next.queue = rest
      /\ next.visited = old.visited /\ next.found = found
  <2>1. found \subseteq Entry
    BY <1>4
  <2> QED
    BY <1>1, <1>3, <1>5, <2>1 DEF Walks
<1>8. /\ k \in Walks
      /\ \/ k = next /\ (rest # <<>> \/ found # {})
         \/ k.at = "done" /\ k.queue = <<>> /\ k.visited = {} /\ k.found = {}
            /\ rest = <<>> /\ found = {}
  <2> HIDE DEF next
  <2>1. CASE next.queue = <<>> /\ next.found = {}
    BY <1>7, <2>1 DEF Going, Still, Walks
  <2>2. CASE ~(next.queue = <<>> /\ next.found = {})
    BY <1>7, <2>2 DEF Going
  <2> QED
    BY <2>1, <2>2
<1> HIDE DEF next, k
<1>9. Kept /\ Stored' = Stored
  BY <1>1 DEF Kept, Stored
<1>10. walk'[w] = k /\ \A x \in Walker \ {w} : walk'[x] = walk[x]
  BY <1>1, <1>2 DEF TypeOK
<1>11. Walking(w)'
  <2>1. \A i \in 1 .. Len(rest) : rest[i] \in old.visited
    <3> SUFFICES ASSUME NEW i \in 1 .. Len(rest) PROVE rest[i] \in old.visited
      OBVIOUS
    <3>1. i + 1 \in 1 .. Len(old.queue) /\ rest[i] = old.queue[i + 1]
      BY <1>5
    <3> QED
      BY <1>1, <3>1 DEF Walking
  <2>2. CASE k = next /\ (rest # <<>> \/ found # {})
    BY <1>1, <1>4, <1>7, <1>9, <1>10, <2>1, <2>2 DEF Walking
  <2>3. CASE k.at = "done" /\ k.queue = <<>> /\ k.visited = {} /\ k.found = {}
    BY <1>10, <2>3 DEF Walking
  <2> QED
    BY <1>8, <2>2, <2>3
<1>12. \A s, t \in Entry : <<s, t>> \in owed' => Owed(s, t)'
  <2> SUFFICES ASSUME NEW s \in Entry, NEW t \in Entry, <<s, t>> \in owed, row[s].valid
               PROVE  Owed(s, t)'
    BY <1>1 DEF Owed
  <2>1. s \in Stored /\ <<s, t>> \in edges
    BY <1>1 DEF TypeOK
  <2>2. PICK x \in Walker : Reaches(x, s, t)
    BY <1>1 DEF IInv, Owed
  <2>3. CASE x # w
    BY <1>10, <2>2, <2>3 DEF Reaches, Owed
  <2>4. CASE x = w
    <3>1. PICK i \in 1 .. Len(old.queue) : old.queue[i] = t
      BY <1>1, <2>2, <2>4 DEF Reaches
    <3>2. CASE i = 1
      <4>1. s \in Dependents(t0) /\ t = t0
        BY <1>5, <2>1, <3>1, <3>2 DEF Dependents
      <4>2. s \notin old.visited
        <5>1. PICK r \in Ranks, n \in Nat : Aged(r, n) /\ Rooted(r, w)
          BY DEF IInv
        <5>2. r[t] < r[s] /\ r[t] \in Nat /\ r[s] \in Nat
          BY <2>1, <5>1 DEF Aged, Ranks
        <5>3. PICK root \in old.visited :
                \A y \in old.visited : (y = root \/ ~row[y].valid) /\ r[root] <= r[y]
          BY <1>1, <5>1 DEF Rooted
        <5>4. r[root] <= r[t]
          BY <1>6, <4>1, <5>3
        <5>5. root \in Entry
          BY <1>3, <5>3
        <5>6. r[root] \in Nat
          BY <5>5 DEF Ranks
        <5>7. s # root
          BY <5>2, <5>4, <5>6
        <5> QED
          BY <5>3, <5>7
      <4>3. s \in found
        BY <1>4, <2>1, <4>1, <4>2
      <4>4. s \in k.found
        BY <1>7, <1>8, <4>3
      <4> QED
        BY <1>10, <4>4 DEF Reaches, Owed
    <3>3. CASE i # 1
      <4>1. i - 1 \in 1 .. Len(rest) /\ rest[i - 1] = t
        BY <1>5, <3>1, <3>3
      <4>2. rest # <<>>
        BY <4>1
      <4>3. k.queue = rest
        BY <1>7, <1>8, <4>2
      <4> QED
        BY <1>10, <4>1, <4>3 DEF Reaches, Owed
    <3> QED
      BY <3>2, <3>3
  <2> QED
    BY <2>3, <2>4
<1>13. \A r \in Ranks, n \in Nat : Aged(r, n) /\ Rooted(r, w) => Rooted(r, w)'
  <2> SUFFICES ASSUME NEW r \in Ranks, NEW n \in Nat, Aged(r, n), Rooted(r, w), k = next
               PROVE  Rooted(r, w)'
    BY <1>8, <1>10 DEF Rooted
  <2>1. PICK root \in old.visited :
          \A y \in old.visited : (y = root \/ ~row[y].valid) /\ r[root] <= r[y]
    BY <1>1 DEF Rooted
  <2>2. \A y \in found : r[root] < r[y]
    <3> SUFFICES ASSUME NEW y \in found PROVE r[root] < r[y]
      OBVIOUS
    <3>1. r[t0] < r[y]
      BY <1>4, <1>6 DEF Aged, Dependents
    <3>2. r[root] <= r[t0]
      BY <1>6, <2>1
    <3>3. root \in Entry /\ y \in Entry
      BY <1>3, <1>4
    <3>4. r[root] \in Nat /\ r[t0] \in Nat /\ r[y] \in Nat
      BY <1>6, <3>3 DEF Ranks
    <3> QED
      BY <3>1, <3>2, <3>4
  <2> QED
    BY <1>1, <1>7, <1>10, <2>1, <2>2 DEF Rooted
<1> QED
  BY <1>1, <1>2, <1>8, <1>9, <1>11, <1>12, <1>13, WalkOnly DEF TypeOK

LEMMA MarkKeeps ==
  ASSUME IInv, NEW w \in Walker, NEW e \in Entry, Mark(w, e)
  PROVE  IInv'
<1> DEFINE old == walk[w]
           longer == Append(old.queue, e)
           k == [old EXCEPT !.visited = @ \cup {e}, !.queue = longer, !.found = @ \ {e}]
<1>1. TypeOK /\ Walking(w) /\ old.at = "walking" /\ e \in old.found
      /\ row' = [row EXCEPT ![e].valid = FALSE]
      /\ owed' = owed \cup {<<x, e>> : x \in Dependents(e)}
      /\ UNCHANGED <<edges, call, promotion, sweep, before, settled>>
  BY DEF IInv, Mark
<1>2. old \in Walks /\ old.queue \in Seq(Entry) /\ old.visited \subseteq Entry
      /\ old.found \subseteq Entry
  BY <1>1 DEF TypeOK, Walks
<1>3. longer \in Seq(Entry) /\ Len(longer) = Len(old.queue) + 1 /\ Len(old.queue) \in Nat
      /\ longer # <<>> /\ longer[Len(old.queue) + 1] = e
      /\ \A i \in 1 .. Len(old.queue) : longer[i] = old.queue[i]
  BY <1>2
<1> HIDE DEF longer
<1>4. k \in Walks /\ k.at = "walking" /\ k.queue = longer /\ k.visited = old.visited \cup {e}
      /\ k.found = old.found \ {e}
  BY <1>1, <1>2, <1>3 DEF Walks
<1>5. walk' = [walk EXCEPT ![w] = k]
  <2>1. walk' = [walk EXCEPT ![w] = Going(k)]
    BY <1>1 DEF Mark, longer
  <2> HIDE DEF k
  <2>2. Going(k) = k
    BY <1>3, <1>4 DEF Going
  <2> QED
    BY <2>1, <2>2
<1> HIDE DEF k
<1>6. walk'[w] = k /\ \A x \in Walker \ {w} : walk'[x] = walk[x]
  BY <1>1, <1>5 DEF TypeOK
<1>7. e \in Stored
  BY <1>1 DEF Walking
<1>8. /\ row' \in [Entry -> Row \cup {None}]
      /\ \A i \in Entry \ {e} : row'[i] = row[i]
      /\ row'[e] \in Row /\ ~row'[e].valid /\ row'[e].layer = row[e].layer
      /\ row'[e].key = row[e].key /\ row'[e].version = row[e].version
  <2> DEFINE new == [row[e] EXCEPT !.valid = FALSE]
  <2>1. row[e] \in Row
    BY <1>1, <1>7, RowFacts
  <2>2. new \in Row /\ ~new.valid /\ new.layer = row[e].layer /\ new.key = row[e].key
        /\ new.version = row[e].version
    BY <2>1 DEF Row
  <2>3. row' = [row EXCEPT ![e] = new]
    BY <1>1 DEF TypeOK
  <2> HIDE DEF new
  <2> QED
    BY ZenonT(40), <1>1, <2>2, <2>3 DEF TypeOK
<1>9. Kept /\ Stored' = Stored /\ \A i \in Stored : row'[i].layer = row[i].layer
  <2>1. row'[e] # None
    BY <1>8, BlackboardAssumption
  <2> QED
    BY <1>7, <1>8, <2>1 DEF Kept, Stored
<1>10. owed' \subseteq edges
  BY <1>1 DEF Dependents, TypeOK
<1>11. Walking(w)'
  <2>1. \A i \in 1 .. Len(longer) : longer[i] \in old.visited \cup {e}
    BY <1>1, <1>3 DEF Walking
  <2> QED
    BY <1>1, <1>3, <1>4, <1>6, <1>7, <1>9, <2>1 DEF Walking
<1>12. \A s, t \in Entry : <<s, t>> \in owed' => Owed(s, t)'
  <2> SUFFICES ASSUME NEW s \in Entry, NEW t \in Entry, <<s, t>> \in owed', row'[s].valid
               PROVE  Owed(s, t)'
    BY DEF Owed
  <2>1. s # e
    BY <1>8
  <2>2. CASE <<s, t>> \in owed
    <3>1. s \in Stored /\ Owed(s, t)
      BY <1>1, <2>2 DEF IInv, TypeOK
    <3>2. \A x \in Walker : Reaches(x, s, t) => Reaches(x, s, t)'
      <4> SUFFICES ASSUME NEW x \in Walker, Reaches(x, s, t) PROVE Reaches(x, s, t)'
        OBVIOUS
      <4>1. CASE x # w
        BY <1>6, <4>1 DEF Reaches
      <4>2. CASE x = w /\ s \in old.found
        BY <1>4, <1>6, <2>1, <4>2 DEF Reaches
      <4>3. CASE x = w /\ \E i \in 1 .. Len(old.queue) : old.queue[i] = t
        <5>1. \E i \in 1 .. Len(longer) : longer[i] = t
          BY <1>3, <4>3
        <5> QED
          BY <1>4, <1>6, <4>3, <5>1 DEF Reaches
      <4> QED
        BY <4>1, <4>2, <4>3 DEF Reaches
    <3> QED
      BY <1>1, <1>9, <3>1, <3>2, OwedFrame
  <2>3. CASE t = e
    <3>1. \E i \in 1 .. Len(longer) : longer[i] = t
      BY <1>3, <2>3
    <3> QED
      BY <1>4, <1>6, <3>1 DEF Reaches, Owed
  <2> QED
    BY <1>1, <2>2, <2>3
<1>13. \A r \in Ranks, n \in Nat : Aged(r, n) /\ Rooted(r, w) => Rooted(r, w)'
  <2> SUFFICES ASSUME NEW r \in Ranks, NEW n \in Nat, Rooted(r, w) PROVE Rooted(r, w)'
    OBVIOUS
  <2>1. PICK root \in old.visited :
          /\ \A y \in old.visited : (y = root \/ ~row[y].valid) /\ r[root] <= r[y]
          /\ \A y \in old.found : r[root] < r[y]
    BY <1>1 DEF Rooted
  <2>2. root \in Entry
    BY <1>2, <2>1
  <2>3. r[root] < r[e] /\ r[root] \in Nat /\ r[e] \in Nat
    BY <1>1, <2>1, <2>2 DEF Ranks
  <2>4. r[root] <= r[e]
    BY <2>3
  <2>5. \A y \in old.visited \cup {e} : (y = root \/ ~row'[y].valid) /\ r[root] <= r[y]
    BY <1>2, <1>8, <2>1, <2>4
  <2>6. \A y \in old.found \ {e} : r[root] < r[y]
    BY <2>1
  <2> QED
    BY <1>4, <1>6, <2>1, <2>5, <2>6 DEF Rooted
<1> QED
  BY <1>1, <1>4, <1>5, <1>8, <1>9, <1>10, <1>11, <1>12, <1>13, WalkOnly DEF TypeOK

-----------------------------------------------------------------------------
(* The steps of promotions and sweeps. *)

(* They change layers only, and none of a settled revocation; it is left to
   show what they have in hand. *)
LEMMA KeepOnly ==
  ASSUME IInv, row' \in [Entry -> Row \cup {None}], Kept, Stored' = Stored,
         \A e \in Stored : row'[e].valid <=> row[e].valid,
         UNCHANGED <<edges, call, walk, before, owed>>,
         promotion' \in [Promoter -> [entry : Entry, to : Layers] \cup {None}],
         sweep' \in [Sweeper -> SUBSET Entry],
         (\A m \in Promoter : Held(m))', (\A s \in Sweeper : Swept(s))',
         settled' \subseteq Entry, (\A e \in settled : Settled(e))'
  PROVE  IInv'
<1>1. TypeOK
  BY DEF IInv
<1>2. TypeOK'
  BY <1>1 DEF TypeOK
<1>3. (\A i \in Entry : Numbered(i))'
  BY <1>1, NumberedFrame DEF IInv, Stored
<1>4. (\A w \in Walker : Walking(w))'
  BY <1>1, WalkingFrame DEF IInv
<1>5. (\A s, t \in Entry : <<s, t>> \in owed => Owed(s, t))'
  BY <1>1 DEF IInv, Owed, Reaches, TypeOK
<1>6. (\E r \in Ranks, n \in Nat : Aged(r, n) /\ \A x \in Walker : Rooted(r, x))'
  <2>1. PICK r \in Ranks, n \in Nat : Aged(r, n) /\ \A x \in Walker : Rooted(r, x)
    BY DEF IInv
  <2>2. Aged(r, n)'
    BY <2>1 DEF Aged
  <2>3. (\A x \in Walker : Rooted(r, x))'
    BY <1>1, <2>1, RootedFrame DEF IInv
  <2> QED
    BY <2>2, <2>3
<1> QED
  BY <1>2, <1>3, <1>4, <1>5, <1>6 DEF IInv

(* Writing a layer to a stored entry. *)
LEMMA LayerWritten ==
  ASSUME TypeOK, NEW e \in Stored, NEW to \in Layers, row' = [row EXCEPT ![e].layer = to]
  PROVE  /\ row' \in [Entry -> Row \cup {None}] /\ Kept /\ Stored' = Stored
         /\ \A i \in Stored : row'[i].valid <=> row[i].valid
         /\ row'[e].layer = to /\ \A i \in Entry \ {e} : row'[i] = row[i]
<1> DEFINE new == [row[e] EXCEPT !.layer = to]
<1>1. row[e] \in Row /\ e \in Entry
  BY RowFacts
<1>2. new \in Row /\ new.layer = to /\ (new.valid <=> row[e].valid) /\ new.key = row[e].key
      /\ new.version = row[e].version
  BY <1>1 DEF Row
<1>3. row' = [row EXCEPT ![e] = new]
  BY DEF TypeOK
<1>4. new # None
  BY <1>2, BlackboardAssumption
<1> HIDE DEF new
<1>5. row'[e] = new /\ \A i \in Entry \ {e} : row'[i] = row[i]
  BY <1>1, <1>3 DEF TypeOK
<1>6. row' \in [Entry -> Row \cup {None}]
  BY <1>2, <1>3 DEF TypeOK
<1>7. Kept /\ Stored' = Stored
  BY <1>1, <1>2, <1>4, <1>5 DEF Kept, Stored
<1>8. \A i \in Stored : row'[i].valid <=> row[i].valid
  BY <1>2, <1>5 DEF Stored
<1> QED
  BY <1>2, <1>5, <1>6, <1>7, <1>8

LEMMA PromoteKeeps ==
  ASSUME IInv, NEW m \in Promoter, NEW e \in Entry, NEW to \in Layers, Promote(m, e, to)
  PROVE  IInv'
<1> DEFINE p == [entry |-> e, to |-> to]
<1>1. TypeOK /\ e \in Stored /\ row[e].layer # "RevokedFact"
      /\ promotion' = [promotion EXCEPT ![m] = p]
      /\ UNCHANGED <<row, edges, call, walk, sweep, before, owed, settled>>
  BY DEF IInv, Promote, Promotions, table
<1>2. Kept /\ Stored' = Stored
  BY <1>1 DEF Kept, Stored
<1>3. p \in [entry : Entry, to : Layers] /\ p.entry = e
  OBVIOUS
<1> HIDE DEF p
<1>4. promotion'[m] = p /\ \A x \in Promoter \ {m} : promotion'[x] = promotion[x]
  BY <1>1 DEF TypeOK
<1>5. (\A x \in Promoter : Held(x))' /\ (\A s \in Sweeper : Swept(s))'
  BY <1>1, <1>2, <1>3, <1>4 DEF IInv, Held, Swept
<1>6. (\A i \in settled : Settled(i))'
  BY <1>1, <1>3, <1>4 DEF IInv, Settled
<1>7. promotion' \in [Promoter -> [entry : Entry, to : Layers] \cup {None}]
  BY <1>1, <1>3 DEF TypeOK
<1> QED
  BY <1>1, <1>2, <1>5, <1>6, <1>7, KeepOnly DEF TypeOK

LEMMA UpdateLayerKeeps ==
  ASSUME IInv, NEW m \in Promoter, UpdateLayer(m)
  PROVE  IInv'
<1>0. PICK e \in Entry, to \in Layers : promotion[m].entry = e /\ promotion[m].to = to
  BY DEF IInv, TypeOK, UpdateLayer
<1>1. TypeOK /\ promotion[m] # None /\ row' = [row EXCEPT ![e].layer = to]
      /\ promotion' = [promotion EXCEPT ![m] = None]
      /\ settled' = (IF to = "RevokedFact" /\ InHand(e) = {m} THEN settled \cup {e} ELSE settled)
      /\ UNCHANGED <<edges, call, walk, sweep, before, owed>>
  BY <1>0 DEF IInv, UpdateLayer
<1>2. e \in Stored
  BY <1>0, <1>1 DEF IInv, Held
<1>3. /\ row' \in [Entry -> Row \cup {None}] /\ Kept /\ Stored' = Stored
      /\ \A i \in Stored : row'[i].valid <=> row[i].valid
      /\ row'[e].layer = to /\ \A i \in Entry \ {e} : row'[i] = row[i]
  BY <1>1, <1>2, LayerWritten
<1>4. promotion'[m] = None /\ \A x \in Promoter \ {m} : promotion'[x] = promotion[x]
  BY <1>1 DEF TypeOK
<1>5. (\A x \in Promoter : Held(x))' /\ (\A s \in Sweeper : Swept(s))'
  BY <1>1, <1>3, <1>4 DEF IInv, Held, Swept
<1>6. (\A i \in settled : Settled(i))'
  <2>1. ASSUME NEW i \in settled PROVE Settled(i)'
    <3>1. Settled(i) /\ i \in Entry /\ i # e
      BY <1>0, <1>1 DEF IInv, Settled, TypeOK
    <3> QED
      BY <1>1, <1>3, <1>4, <3>1 DEF Settled
  <2>2. ASSUME to = "RevokedFact", InHand(e) = {m} PROVE Settled(e)'
    <3>1. \A x \in Promoter \ {m} : promotion[x] # None => promotion[x].entry # e
      BY <2>2 DEF InHand
    <3>2. \A s \in Sweeper : e \notin sweep[s]
      BY <2>2, BlackboardAssumption DEF InHand
    <3>3. row'[e] # None
      BY <1>2, <1>3 DEF Kept
    <3> QED
      BY <1>1, <1>3, <1>4, <2>2, <3>1, <3>2, <3>3 DEF Settled
  <2> QED
    BY <1>1, <2>1, <2>2
<1>7. promotion' \in [Promoter -> [entry : Entry, to : Layers] \cup {None}]
      /\ settled' \subseteq Entry
  BY <1>1, <1>2 DEF TypeOK
<1> QED
  BY <1>1, <1>3, <1>5, <1>6, <1>7, KeepOnly DEF TypeOK

LEMMA DropPromotionKeeps ==
  ASSUME IInv, NEW m \in Promoter, DropPromotion(m)
  PROVE  IInv'
<1>1. TypeOK /\ promotion' = [promotion EXCEPT ![m] = None]
      /\ UNCHANGED <<row, edges, call, walk, sweep, before, owed, settled>>
  BY DEF IInv, DropPromotion, table
<1>2. Kept /\ Stored' = Stored
  BY <1>1 DEF Kept, Stored
<1>3. promotion'[m] = None /\ \A x \in Promoter \ {m} : promotion'[x] = promotion[x]
  BY <1>1 DEF TypeOK
<1>4. (\A x \in Promoter : Held(x))' /\ (\A s \in Sweeper : Swept(s))'
  BY <1>1, <1>2, <1>3 DEF IInv, Held, Swept
<1>5. (\A i \in settled : Settled(i))'
  BY <1>1, <1>3 DEF IInv, Settled
<1>6. promotion' \in [Promoter -> [entry : Entry, to : Layers] \cup {None}]
  BY <1>1 DEF TypeOK
<1> QED
  BY <1>1, <1>2, <1>4, <1>5, <1>6, KeepOnly DEF TypeOK

(* A sweep's step that takes up no settled revocation. *)
LEMMA SweepOnly ==
  ASSUME IInv, NEW s \in Sweeper, NEW rows \in SUBSET Stored, sweep' = [sweep EXCEPT ![s] = rows],
         row' \in [Entry -> Row \cup {None}], Kept, Stored' = Stored,
         \A e \in Stored : row'[e].valid <=> row[e].valid,
         \A e \in settled : row'[e] = row[e] /\ e \notin rows,
         UNCHANGED <<edges, call, walk, promotion, before, owed, settled>>
  PROVE  IInv'
<1>1. TypeOK /\ Stored \subseteq Entry
  BY DEF IInv, Stored
<1>2. sweep'[s] = rows /\ \A x \in Sweeper \ {s} : sweep'[x] = sweep[x]
  BY <1>1 DEF TypeOK
<1>3. (\A m \in Promoter : Held(m))' /\ (\A x \in Sweeper : Swept(x))'
  BY <1>2 DEF IInv, Held, Swept
<1>4. (\A e \in settled : Settled(e))'
  BY <1>2 DEF IInv, Settled
<1>5. sweep' \in [Sweeper -> SUBSET Entry]
  BY <1>1 DEF TypeOK
<1> QED
  BY <1>1, <1>3, <1>4, <1>5, KeepOnly DEF TypeOK

LEMMA SweepKeeps ==
  ASSUME IInv, NEW s \in Sweeper, Sweep(s) \/ DropSweep(s)
  PROVE  IInv'
<1>1. row' = row /\ UNCHANGED <<edges, call, walk, promotion, before, owed, settled>>
  BY DEF Sweep, DropSweep, table
<1>2. PICK rows \in SUBSET {e \in Entry : Expires(e)} : sweep' = [sweep EXCEPT ![s] = rows]
  BY DEF Sweep, DropSweep
<1>3. rows \in SUBSET Stored /\ \A e \in rows : row[e].layer = "Fact"
  BY <1>2 DEF Expires
<1>4. \A e \in settled : e \notin rows
  BY <1>3 DEF IInv, Settled
<1>5. Kept /\ Stored' = Stored /\ row' \in [Entry -> Row \cup {None}]
  BY <1>1 DEF Kept, Stored, IInv, TypeOK
<1> QED
  BY <1>1, <1>2, <1>3, <1>4, <1>5, SweepOnly

LEMMA SweepRowKeeps ==
  ASSUME IInv, NEW s \in Sweeper, NEW e \in Entry, SweepRow(s, e)
  PROVE  IInv'
<1>1. TypeOK /\ e \in sweep[s] /\ row' = [row EXCEPT ![e].layer = "StaleFact"]
      /\ sweep' = [sweep EXCEPT ![s] = @ \ {e}]
      /\ UNCHANGED <<edges, call, walk, promotion, before, owed, settled>>
  BY DEF IInv, SweepRow
<1>2. e \in Stored /\ sweep[s] \ {e} \in SUBSET Stored /\ "StaleFact" \in Layers
  BY <1>1 DEF IInv, Swept, Layers
<1>3. /\ row' \in [Entry -> Row \cup {None}] /\ Kept /\ Stored' = Stored
      /\ \A i \in Stored : row'[i].valid <=> row[i].valid
      /\ \A i \in Entry \ {e} : row'[i] = row[i]
  BY <1>1, <1>2, LayerWritten
<1>4. \A i \in settled : i \in Entry /\ i \notin sweep[s]
  BY <1>1 DEF IInv, Settled, TypeOK
<1>5. sweep' = [sweep EXCEPT ![s] = sweep[s] \ {e}]
  BY <1>1
<1>6. \A i \in settled : row'[i] = row[i] /\ i \notin sweep[s] \ {e}
  BY <1>1, <1>3, <1>4
<1> QED
  BY <1>1, <1>2, <1>3, <1>5, <1>6, SweepOnly

-----------------------------------------------------------------------------
LEMMA Inductive == IInv /\ [Next]_vars => IInv'
<1> SUFFICES ASSUME IInv, [Next]_vars PROVE IInv'
  OBVIOUS
<1>1. CASE UNCHANGED vars
  <2>1. UNCHANGED <<row, edges, call, walk, promotion, sweep, before, owed, settled>>
    BY <1>1 DEF vars, table
  <2>2. Kept /\ Stored' = Stored
    BY <2>1 DEF Kept, Stored
  <2>3. (\A m \in Promoter : Held(m))' /\ (\A s \in Sweeper : Swept(s))'
        /\ (\A e \in settled : Settled(e))'
    BY <2>1, <2>2 DEF IInv, Held, Swept, Settled
  <2> QED
    BY <2>1, <2>2, <2>3, KeepOnly DEF IInv, TypeOK
<1>2. ASSUME NEW e \in Entry, ProposeStep(e) PROVE IInv'
  BY <1>2, ProposeKeeps, ReadTopKeeps, InsertKeeps, LinkKeeps DEF ProposeStep
<1>3. ASSUME NEW w \in Walker, WalkStep(w) PROVE IInv'
  BY <1>3, StartKeeps, QueryKeeps, MarkKeeps DEF WalkStep
<1>4. CASE KeepStep
  BY <1>4, PromoteKeeps, UpdateLayerKeeps, DropPromotionKeeps, SweepKeeps, SweepRowKeeps
     DEF KeepStep
<1> QED
  BY <1>1, <1>2, <1>3, <1>4 DEF Next

LEMMA Invariance == Spec => []IInv
BY Initially, Inductive, PTL DEF Spec

(* Every row, edge, call and propagation keeps its type, and an edge joins
   stored entries only. *)
THEOREM Types == Spec => []TypeOK
<1>1. IInv => TypeOK
  BY DEF IInv
<1> QED
  BY <1>1, Invariance, PTL

(* Overlapping propagations that have finished leave no valid dependent of
   what they invalidated. *)
THEOREM DependentsFollow == Spec => []NoDependentIsLeft
<1>1. IInv => NoDependentIsLeft
  <2> SUFFICES ASSUME IInv, \A w \in Walker : walk[w].at \in {"idle", "done"},
                      NEW s \in Entry, NEW t \in Entry, <<s, t>> \in owed
               PROVE  s \in Stored /\ ~row[s].valid
    BY DEF NoDependentIsLeft
  <2>1. s \in Stored
    BY DEF IInv, TypeOK
  <2>2. \A w \in Walker : ~Reaches(w, s, t)
    <3> SUFFICES ASSUME NEW w \in Walker PROVE ~Reaches(w, s, t)
      OBVIOUS
    <3>1. walk[w].queue = <<>> /\ walk[w].found = {}
      BY DEF IInv, Walking
    <3> QED
      BY <3>1 DEF Reaches
  <2> QED
    BY <2>1, <2>2 DEF IInv, Owed
<1> QED
  BY <1>1, Invariance, PTL

(* A revocation that no other call had in hand is final. *)
THEOREM RevocationsSettle == Spec => []SettledRevocationsStay
<1>1. IInv => SettledRevocationsStay
  BY DEF IInv, SettledRevocationsStay, Settled, TypeOK, Stored
<1> QED
  BY <1>1, Invariance, PTL

(* A proposal's version is above all those its version check could have seen,
   whatever was invalidated in between. *)
THEOREM VersionsGrow == Spec => VersionsFollow
<1> DEFINE Above == \A e \in Entry : row[e] = None /\ row'[e] # None =>
                      \A v \in before[e] : v < row'[e].version
<1>1. IInv /\ [Next]_vars => [Above]_vars
  <2> SUFFICES ASSUME IInv, Next, NEW e \in Entry, row[e] = None, row'[e] # None,
                      NEW v \in before[e]
               PROVE  v < row'[e].version
    BY DEF Above
  <2>1. TypeOK /\ Numbered(e) /\ e \notin Stored
    BY DEF IInv, Stored
  <2>2. Insert(e)
    <3>1. ASSUME NEW i \in Entry, ProposeStep(i) PROVE Insert(e)
      <4>1. CASE row' = row
        BY <4>1
      <4>2. CASE Insert(i)
        BY <2>1, <4>2 DEF Insert, TypeOK
      <4> QED
        BY <3>1, <4>1, <4>2 DEF ProposeStep, Propose, ReadTop, Link, table
    <3>2. ASSUME NEW w \in Walker, WalkStep(w) PROVE row' = row \/ row'[e] = row[e]
      <4>1. ASSUME NEW s \in Entry, Mark(w, s) PROVE row'[e] = row[e]
        <5>1. s \in Stored
          BY <4>1 DEF IInv, Walking, Mark
        <5> QED
          BY <2>1, <4>1, <5>1 DEF Mark, TypeOK
      <4> QED
        BY <3>2, <4>1 DEF WalkStep, Start, Query, table
    <3>3. CASE KeepStep
      <4>1. ASSUME NEW m \in Promoter, UpdateLayer(m) PROVE row'[e] = row[e]
        <5>1. promotion[m].entry \in Stored
          BY <4>1 DEF IInv, Held, UpdateLayer
        <5> QED
          BY <2>1, <4>1, <5>1 DEF UpdateLayer, TypeOK
      <4>2. ASSUME NEW s \in Sweeper, NEW i \in Entry, SweepRow(s, i) PROVE row'[e] = row[e]
        <5>1. i \in Stored
          BY <4>2 DEF IInv, Swept, SweepRow
        <5> QED
          BY <2>1, <4>2, <5>1 DEF SweepRow, TypeOK
      <4> QED
        BY <3>3, <4>1, <4>2 DEF KeepStep, DropPromotion, Promote, Sweep, DropSweep, table
    <3> QED
      BY <3>1, <3>2, <3>3 DEF Next
  <2>3. call[e] \in Calls /\ before[e] \subseteq Nat
    BY <2>1 DEF TypeOK
  <2>4. row'[e].version = call[e].top + 1
    BY <2>1, <2>2 DEF Insert, TypeOK
  <2>5. v <= call[e].top /\ v \in Nat /\ call[e].top \in Nat
    BY <2>1, <2>2, <2>3 DEF Insert, Numbered, Calls
  <2> QED
    BY <2>4, <2>5
<1> QED
  BY <1>1, Invariance, PTL DEF Spec, VersionsFollow
=============================================================================
