--------------------------- MODULE RunEventsProofs ---------------------------
(* Proofs about the event stream of a run, for logs of any length, polls of   *)
(* any size and any number of reconnects and retries.                         *)
EXTENDS RunEvents, SequenceTheorems, TLAPS

LEMMA AppendOne ==
  ASSUME NEW S, NEW s \in Seq(S), NEW e \in S
  PROVE  /\ Append(s, e) \in Seq(S)
         /\ Len(Append(s, e)) = Len(s) + 1
         /\ \A i \in 1..Len(s) : Append(s, e)[i] = s[i]
         /\ Append(s, e)[Len(s) + 1] = e
  BY AppendProperties

LEMMA HeadIsFirst ==
  ASSUME NEW S, NEW s \in Seq(S), s # <<>>
  PROVE  /\ Head(s) = s[1] /\ Head(s) \in S
         /\ Tail(s) \in Seq(S)
         /\ Len(s) \in Nat \ {0}
         /\ Len(Tail(s)) = Len(s) - 1
         /\ \A i \in 1..(Len(s) - 1) : Tail(s)[i] = s[i + 1]
  BY EmptySeq, HeadTailProperties

-----------------------------------------------------------------------------
(* A run of consecutive sequence numbers that starts after seq. *)
Follows(s, seq) == \A i \in 1..Len(s) : s[i] = seq + i

(* The three cursors line up, from the client's to the log's end: what the
   client holds, then the wire, then the rows still to be yielded. *)
CursorsLineUp ==
  /\ Follows(wire, lastId)
  /\ lastSeq = lastId + Len(wire)
  /\ Follows(batch, lastSeq)
  /\ lastSeq + Len(batch) < Len(log)

(* A connection belongs to a client that reads; nothing outlives it. *)
NothingLeftBehind == conn = "none" /\ batch = <<>> /\ wire = <<>>

StreamInv ==
  /\ TypeOK
  /\ lastId = Len(got) - 1
  /\ lastId < Len(log)
  /\ conn = "ended" => batch = <<>>
  /\ client = "reading" => CursorsLineUp
  /\ client # "reading" => NothingLeftBehind
  /\ ui \in {"idle", "error"} => client \in {"idle", "gaveUp"}

LEMMA RowsInOrder ==
  ASSUME TypeOK, lastSeq + 1 < Len(log)
  PROVE  /\ RowsAfter(lastSeq) \in Seq(Ids)
         /\ Len(RowsAfter(lastSeq)) <= Limit
         /\ Follows(RowsAfter(lastSeq), lastSeq)
         /\ lastSeq + Len(RowsAfter(lastSeq)) < Len(log)
<1> DEFINE n == AtMost(Limit, Len(log) - (lastSeq + 1))
           rows == [i \in 1..n |-> lastSeq + i]
<1>1. Len(log) \in Nat /\ Len(log) <= MaxLog /\ lastSeq \in Int /\ lastSeq >= -1
  BY LenProperties DEF TypeOK, Ids
<1>2. n \in Nat /\ n <= Limit /\ lastSeq + n < Len(log)
  BY <1>1, StreamAssumption DEF AtMost
<1>3. rows \in Seq(Ids) /\ Len(rows) = n
  <2> HIDE DEF n
  <2>1. \A i \in 1..n : lastSeq + i \in Ids
    BY <1>1, <1>2, StreamAssumption DEF Ids
  <2> QED
    BY <2>1, <1>2
<1>4. RowsAfter(lastSeq) = rows
  BY DEF RowsAfter
<1> QED
  <2> HIDE DEF n
  <2> QED BY <1>2, <1>3, <1>4 DEF Follows

LEMMA StreamInvInit == Init => StreamInv
<1> SUFFICES ASSUME Init PROVE StreamInv
  OBVIOUS
<1> USE StreamAssumption DEF Init
<1>1. TypeOK
  <2>1. <<>> \in Seq(Kinds) /\ <<>> \in Seq(Ids) /\ Len(<<>>) = 0
    BY EmptySeq
  <2>2. pollFailed \in BOOLEAN
    BY Zenon
  <2>3. NoId \in Ids
    BY DEF Ids, NoId
  <2> QED
    BY <2>1, <2>2, <2>3 DEF TypeOK
<1> QED
  BY <1>1, EmptySeq DEF StreamInv, NothingLeftBehind, NoId

(* Steps that only append to the log: every cursor keeps its place. *)
LEMMA LogStep ==
  ASSUME StreamInv, NEW kind \in Kinds, LogEvent(kind),
         stage' \in {"answering", "acting", "over"}
  PROVE  StreamInv'
<1> USE DEF LogEvent, server, loop, view
<1>1. log' \in Seq(Kinds) /\ Len(log') = Len(log) + 1 /\ Len(log) \in Nat
  BY AppendOne, LenProperties DEF StreamInv, TypeOK
<1>2. TypeOK'
  <2>1. Len(log') <= MaxLog
    BY <1>1, StreamAssumption
  <2>2. pollFailed' \in BOOLEAN
    BY Zenon DEF StreamInv, TypeOK
  <2> QED
    BY <1>1, <2>1, <2>2 DEF StreamInv, TypeOK, Ids
<1>3. lastId \in Int /\ lastSeq \in Int /\ Len(batch) \in Nat
  BY LenProperties DEF StreamInv, TypeOK, Ids
<1>4. CursorsLineUp => CursorsLineUp'
  BY <1>1, <1>3 DEF CursorsLineUp, Follows
<1> QED
  BY <1>1, <1>2, <1>3, <1>4 DEF StreamInv, NothingLeftBehind

LEMMA RunStep ==
  ASSUME StreamInv, Answer \/ AnswerDone \/ RecordAnswer \/ StartTool \/ EndRun
  PROVE  StreamInv'
<1>1. CASE Answer
  BY <1>1, LogStep DEF Answer, Kinds
<1>2. CASE AnswerDone
  BY <1>2, LogStep DEF AnswerDone, Kinds
<1>3. CASE StartTool
  BY <1>3, LogStep DEF StartTool, Kinds
<1>4. CASE EndRun
  BY <1>4, LogStep DEF EndRun, Kinds
<1>5. CASE RecordAnswer
  BY <1>5, LogStep DEF RecordAnswer, Kinds
<1> QED
  BY <1>1, <1>2, <1>3, <1>4, <1>5

(* A poll puts the rows right after the cursor into the batch. *)
LEMMA PollStep == ASSUME StreamInv, Poll PROVE StreamInv'
<1> USE DEF Poll, run, loop, view
<1>1. TypeOK /\ client = "reading" /\ CursorsLineUp
  BY DEF StreamInv, NothingLeftBehind
<1>2. /\ batch' \in Seq(Ids) /\ Len(batch') <= Limit
      /\ Follows(batch', lastSeq)
      /\ lastSeq + Len(batch') < Len(log)
  BY <1>1, RowsInOrder
<1>3. TypeOK'
  <2>1. pollFailed' \in BOOLEAN
    BY <1>1, Zenon DEF TypeOK
  <2> QED
    BY <1>1, <1>2, <2>1 DEF TypeOK
<1>4. CursorsLineUp'
  <2>1. Follows(wire, lastId)' /\ (lastSeq = lastId + Len(wire))'
    BY <1>1 DEF CursorsLineUp, Follows
  <2>2. Follows(batch, lastSeq)' /\ (lastSeq + Len(batch) < Len(log))'
    BY <1>2 DEF Follows
  <2> QED
    BY <2>1, <2>2 DEF CursorsLineUp
<1> QED
  BY <1>1, <1>3, <1>4 DEF StreamInv

LEMMA PollFailsStep == ASSUME StreamInv, PollFails PROVE StreamInv'
<1> USE DEF PollFails, run, loop, view
<1>1. client = "reading"
  BY DEF StreamInv, NothingLeftBehind
<1>2. pollFailed' \in BOOLEAN
  BY Zenon
<1>3. TypeOK'
  BY <1>2 DEF StreamInv, TypeOK
<1>4. CursorsLineUp'
  BY <1>1 DEF StreamInv, CursorsLineUp, Follows
<1> QED
  BY <1>1, <1>3, <1>4 DEF StreamInv

(* The head of the batch moves to the end of the wire. *)
LEMMA YieldStep == ASSUME StreamInv, Yield PROVE StreamInv'
<1> USE DEF Yield, run, loop, view
<1>1. TypeOK /\ client = "reading" /\ CursorsLineUp
  BY DEF StreamInv, NothingLeftBehind
<1>2. wire \in Seq(Ids) /\ batch \in Seq(Ids) /\ Len(wire) \in Nat
      /\ lastId \in Int /\ lastSeq \in Int /\ Len(log) \in Nat
  BY <1>1, LenProperties DEF TypeOK, Ids
<1>3. /\ Head(batch) = batch[1] /\ Head(batch) \in Ids
      /\ Tail(batch) \in Seq(Ids)
      /\ Len(batch) \in Nat \ {0}
      /\ Len(Tail(batch)) = Len(batch) - 1
      /\ \A i \in 1..(Len(batch) - 1) : Tail(batch)[i] = batch[i + 1]
  BY <1>2, HeadIsFirst
<1>4. Head(batch) = lastSeq + 1
  BY <1>1, <1>2, <1>3 DEF CursorsLineUp, Follows
<1>5. wire' \in Seq(Ids) /\ Len(wire') = Len(wire) + 1
      /\ \A i \in 1..Len(wire) : wire'[i] = wire[i]
      /\ wire'[Len(wire) + 1] = lastSeq + 1
  BY <1>2, <1>3, <1>4, AppendOne
<1>6. CursorsLineUp'
  <2>1. (lastSeq = lastId + Len(wire))'
    BY <1>1, <1>2, <1>4, <1>5 DEF CursorsLineUp
  <2>2. Follows(wire, lastId)'
    BY <1>1, <1>2, <1>4, <1>5 DEF CursorsLineUp, Follows
  <2>3. Follows(batch, lastSeq)' /\ (lastSeq + Len(batch) < Len(log))'
    <3>1. CASE batch' = <<>>
      BY <3>1, <1>1, <1>2, <1>3, <1>4, EmptySeq DEF CursorsLineUp, Follows
    <3>2. CASE batch' = Tail(batch)
      BY <3>2, <1>1, <1>2, <1>3, <1>4 DEF CursorsLineUp, Follows
    <3> QED
      BY <3>1, <3>2
  <2> QED
    BY <2>1, <2>2, <2>3 DEF CursorsLineUp
<1>7. TypeOK'
  <2>1. pollFailed' \in BOOLEAN
    BY <1>1, Zenon DEF TypeOK
  <2>2. batch' \in Seq(Ids) /\ Len(batch') <= Limit
    <3>1. Len(batch) <= Limit /\ <<>> \in Seq(Ids) /\ Len(<<>>) = 0
      BY <1>1, EmptySeq DEF TypeOK
    <3>2. batch' = <<>> \/ batch' = Tail(batch)
      OBVIOUS
    <3>3. Limit \in Nat
      BY StreamAssumption
    <3>4. Len(<<>>) <= Limit /\ Len(Tail(batch)) <= Limit
      BY <1>3, <3>1, <3>3
    <3> QED
      BY <1>3, <3>1, <3>2, <3>4, Zenon
  <2>3. conn' \in {"none", "open", "ended"} /\ lastSeq' \in Ids
    BY <1>1, <1>3 DEF TypeOK
  <2> QED
    BY <1>1, <1>5, <2>1, <2>2, <2>3 DEF TypeOK
<1>8. conn' = "ended" => batch' = <<>>
  BY DEF StreamInv
<1> QED
  BY <1>1, <1>6, <1>7, <1>8 DEF StreamInv

LEMMA ConnectStep == ASSUME StreamInv, Connect PROVE StreamInv'
<1> USE DEF Connect, Reach, ResumeFrom, run, view
<1>1. TypeOK /\ NothingLeftBehind
  BY DEF StreamInv
<1>2. pollFailed' \in BOOLEAN
  BY <1>1, Zenon DEF TypeOK
<1>3. TypeOK'
  BY <1>1, <1>2 DEF TypeOK
<1>4. CursorsLineUp'
  BY <1>1, EmptySeq DEF StreamInv, NothingLeftBehind, TypeOK, CursorsLineUp, Follows, Ids
<1> QED
  BY <1>1, <1>3, <1>4 DEF StreamInv

(* Either way the client is no longer reading, and nothing is left behind. *)
LEMMA FailureStep == ASSUME StreamInv, ConnectFails \/ Cut PROVE StreamInv'
<1> USE DEF ConnectFails, Cut, Retreat, run, server
<1>1. TypeOK
  BY DEF StreamInv
<1>2. pollFailed' \in BOOLEAN
  BY <1>1, Zenon DEF TypeOK
<1>3. NothingLeftBehind'
  BY DEF StreamInv, NothingLeftBehind
<1>4. client' \in {"connecting", "gaveUp"} /\ attempt' \in 0..MaxAttempts
  BY <1>1, StreamAssumption DEF TypeOK, GivesUp
<1>5. TypeOK'
  <2>1. <<>> \in Seq(Ids) /\ Len(<<>>) = 0 /\ NoId \in Ids
    BY EmptySeq, StreamAssumption DEF Ids, NoId
  <2>2. (conn = "none" /\ lastSeq \in Ids /\ batch = <<>> /\ wire = <<>>)'
    BY <1>1, <1>3, <2>1 DEF TypeOK, NothingLeftBehind
  <2>3. ui' \in {ui, "error"}
    OBVIOUS
  <2> QED
    BY <1>1, <1>2, <1>4, <2>1, <2>2, <2>3, StreamAssumption DEF TypeOK
<1>6. UNCHANGED <<log, lastId, got>>
  OBVIOUS
<1> QED
  BY <1>3, <1>4, <1>5, <1>6 DEF StreamInv, NothingLeftBehind

(* The head of the wire is the event after the last one the client has. *)
LEMMA HeadIsNext ==
  ASSUME StreamInv, client = "reading", wire # <<>>
  PROVE  /\ Head(wire) = lastId + 1 /\ Head(wire) = Len(got)
         /\ Head(wire) < Len(log)
         /\ Head(wire) \in Ids
<1>1. TypeOK /\ CursorsLineUp
  BY DEF StreamInv
<1>2. lastId \in Int /\ Len(log) \in Nat /\ Len(batch) \in Nat /\ Len(got) \in Nat
  BY <1>1, LenProperties DEF TypeOK, Ids
<1>3. Head(wire) = wire[1] /\ Len(wire) \in Nat \ {0} /\ Head(wire) \in Ids
  BY <1>1, HeadIsFirst DEF TypeOK
<1>4. wire[1] = lastId + 1
  BY <1>1, <1>3 DEF CursorsLineUp, Follows
<1>5. lastId + Len(wire) + Len(batch) < Len(log)
  BY <1>1 DEF CursorsLineUp
<1> QED
  BY <1>2, <1>3, <1>4, <1>5 DEF StreamInv

LEMMA DeliverStep == ASSUME StreamInv, Deliver PROVE StreamInv'
<1> USE DEF Deliver, run
<1>1. TypeOK /\ CursorsLineUp
  BY DEF StreamInv
<1>2. Head(wire) = lastId + 1 /\ Head(wire) = Len(got) /\ Head(wire) < Len(log)
      /\ Head(wire) \in Ids
  BY HeadIsNext
<1>3. lastId \in Int /\ Len(wire) \in Nat \ {0} /\ Tail(wire) \in Seq(Ids)
      /\ Len(Tail(wire)) = Len(wire) - 1
      /\ \A i \in 1..(Len(wire) - 1) : Tail(wire)[i] = wire[i + 1]
  BY <1>1, HeadIsFirst DEF TypeOK, Ids
<1>4. got' \in Seq(Ids) /\ Len(got') = Len(got) + 1 /\ Len(got) \in Nat
  BY <1>1, <1>2, AppendOne, LenProperties DEF TypeOK
<1>5. CursorsLineUp'
  <2>1. Follows(wire, lastId)'
    BY <1>1, <1>2, <1>3 DEF CursorsLineUp, Follows
  <2>2. (lastSeq = lastId + Len(wire))'
    BY <1>1, <1>2, <1>3 DEF CursorsLineUp
  <2>3. Follows(batch, lastSeq)' /\ (lastSeq + Len(batch) < Len(log))'
    BY <1>1 DEF CursorsLineUp, Follows
  <2> QED
    BY <2>1, <2>2, <2>3 DEF CursorsLineUp
<1>6. TypeOK'
  <2>1. pollFailed' \in BOOLEAN
    BY <1>1, Zenon DEF TypeOK
  <2>2. ui' \in {"completed", "streaming"}
    BY DEF Shown
  <2> QED
    BY <1>1, <1>2, <1>3, <1>4, <2>1, <2>2 DEF TypeOK
<1>7. ui' \notin {"idle", "error"}
  BY DEF Shown
<1> QED
  BY <1>2, <1>4, <1>5, <1>6, <1>7 DEF StreamInv

LEMMA EndOfBodyStep == ASSUME StreamInv, EndOfBody PROVE StreamInv'
<1> USE DEF EndOfBody, run, view
<1>1. TypeOK /\ batch = <<>>
  BY DEF StreamInv
<1>2. pollFailed' \in BOOLEAN
  BY <1>1, Zenon DEF TypeOK
<1>3. NoId \in Ids
  BY StreamAssumption DEF Ids, NoId
<1>4. TypeOK'
  BY <1>1, <1>2, <1>3 DEF TypeOK
<1> QED
  BY <1>1, <1>4 DEF StreamInv, NothingLeftBehind

LEMMA ViewStep == ASSUME StreamInv, Start \/ Retry PROVE StreamInv'
<1> USE DEF Start, Retry, run, server, loop
<1>1. TypeOK
  BY DEF StreamInv
<1>2. pollFailed' \in BOOLEAN
  BY <1>1, Zenon DEF TypeOK
<1>3. <<>> \in Seq(Ids) /\ Len(<<>>) = 0 /\ NoId \in Ids /\ NoId = -1
  BY EmptySeq, StreamAssumption DEF Ids, NoId
<1>4. Len(log) \in Nat
  BY <1>1, LenProperties DEF TypeOK
<1>5. CASE Start
  <2>1. TypeOK'
    BY <1>1, <1>2, <1>3, <1>5, StreamAssumption DEF TypeOK
  <2>2. NothingLeftBehind'
    BY <1>5 DEF StreamInv, NothingLeftBehind
  <2> QED
    BY <2>1, <2>2, <1>3, <1>4, <1>5 DEF StreamInv
<1>6. CASE Retry
  <2>1. TypeOK'
    BY <1>1, <1>2, <1>6, StreamAssumption DEF TypeOK
  <2> QED
    BY <2>1, <1>6 DEF StreamInv, NothingLeftBehind, CursorsLineUp, Follows
<1> QED
  BY <1>5, <1>6

LEMMA StreamInvStep == StreamInv /\ [Next]_vars => StreamInv'
<1> SUFFICES ASSUME StreamInv, [Next]_vars PROVE StreamInv'
  OBVIOUS
<1>1. CASE UNCHANGED vars
  <2>1. TypeOK'
    BY <1>1, Zenon DEF StreamInv, TypeOK, vars, run, server, loop, view
  <2>2. (CursorsLineUp => CursorsLineUp') /\ (NothingLeftBehind => NothingLeftBehind')
    BY <1>1 DEF CursorsLineUp, Follows, NothingLeftBehind, vars, run, server, loop, view
  <2> QED
    BY <1>1, <2>1, <2>2 DEF StreamInv, vars, run, server, loop, view
<1> QED
  BY <1>1, RunStep, PollStep, PollFailsStep, YieldStep, ConnectStep, FailureStep,
     DeliverStep, EndOfBodyStep, ViewStep DEF Next

THEOREM StreamInvariant == Spec => []StreamInv
  BY StreamInvInit, StreamInvStep, PTL DEF Spec

(* The stream's cursors, queues and counters keep their types and bounds; in
   particular a start never uses more than MaxAttempts reconnects. *)
THEOREM StreamTypeCorrect == Spec => []TypeOK
<1>1. StreamInv => TypeOK
  BY DEF StreamInv
<1> QED
  BY <1>1, StreamInvariant, PTL

-----------------------------------------------------------------------------
(* Only Deliver adds to what the view was given, and it adds the next event;
   only Start takes it away. *)
LEMMA FollowerStep == StreamInv /\ [Next]_vars => [Follower!Next]_Follower!vars
<1> SUFFICES ASSUME StreamInv, [Next]_vars PROVE [Follower!Next]_Follower!vars
  OBVIOUS
<1> USE DEF Follower!Next, Follower!vars
<1>1. ASSUME NEW kind \in Kinds, LogEvent(kind) PROVE Follower!Next
  <2>1. Len(log') = Len(log) + 1
    BY <1>1, AppendOne DEF StreamInv, TypeOK, LogEvent
  <2> QED
    BY <1>1, <2>1 DEF LogEvent, view, Follower!Log
<1>2. CASE Answer \/ AnswerDone \/ RecordAnswer \/ StartTool \/ EndRun
  BY <1>1, <1>2 DEF Answer, AnswerDone, RecordAnswer, StartTool, EndRun, Kinds
<1>3. CASE Deliver
  <2>1. Head(wire) = Len(got) /\ Len(got) < Len(log)
    BY <1>3, HeadIsNext DEF Deliver
  <2> QED
    BY <1>3, <2>1 DEF Deliver, run, Follower!Follow
<1>4. CASE Start
  BY <1>4 DEF Start, run, Follower!StartOver
<1>5. CASE Poll \/ PollFails \/ Yield \/ Connect \/ ConnectFails \/ Cut
             \/ EndOfBody \/ Retry \/ UNCHANGED vars
  <2>1. UNCHANGED <<log, got>>
    BY <1>5 DEF Poll, PollFails, Yield, Connect, ConnectFails, Cut, Retreat,
                EndOfBody, Retry, vars, run, view
  <2> QED
    BY <2>1
<1> QED
  BY <1>2, <1>3, <1>4, <1>5 DEF Next

(* The view is given the log's events in order, without gap or repeat, across
   any number of lost connections. *)
THEOREM StreamImplementsFollower == Spec => ImplementsEventFollower
<1>1. Init => Follower!Init
  BY EmptySeq DEF Init, Follower!Init
<1> QED
  BY <1>1, FollowerStep, StreamInvariant, PTL
  DEF Spec, ImplementsEventFollower, Follower!Spec

-----------------------------------------------------------------------------
(* Why a view comes to rest.  Six counters, the first the most significant:   *)
(* starts the user may still ask for, attempts the client has left, a request *)
(* under way, events it is yet to be given, events yet to be sent, a poll due. *)
Bit(b) == IF b THEN 1 ELSE 0

Starts  == 2 * (MaxRetries - retries) + Bit(ui = "idle")
Tries   == IF client \in {"connecting", "reading"} THEN 1 + MaxAttempts - attempt ELSE 0
Waiting == Bit(client = "connecting")
Unseen  == Len(log) - 1 - lastId
Unsent  == IF client = "reading" THEN Len(log) - 1 - lastSeq ELSE 0
Due     == Bit(conn = "open" /\ batch = <<>>)

RankIsNatural ==
  /\ Starts \in Nat /\ Tries \in Nat /\ Waiting \in Nat
  /\ Unseen \in Nat /\ Unsent \in Nat /\ Due \in Nat

(* The counters come down in the order of their weight. *)
Descends ==
  \/ Starts' < Starts
  \/ Starts' = Starts /\ Tries' < Tries
  \/ Starts' = Starts /\ Tries' = Tries /\ Waiting' < Waiting
  \/ Starts' = Starts /\ Tries' = Tries /\ Waiting' = Waiting /\ Unseen' < Unseen
  \/ /\ Starts' = Starts /\ Tries' = Tries /\ Waiting' = Waiting /\ Unseen' = Unseen
     /\ Unsent' < Unsent
  \/ /\ Starts' = Starts /\ Tries' = Tries /\ Waiting' = Waiting /\ Unseen' = Unseen
     /\ Unsent' = Unsent /\ Due' < Due

LEMMA RankType == StreamInv => RankIsNatural
<1> SUFFICES ASSUME StreamInv PROVE RankIsNatural
  OBVIOUS
<1>1. Len(log) \in Nat /\ Len(wire) \in Nat /\ Len(batch) \in Nat
  BY LenProperties DEF StreamInv, TypeOK
<1>2. /\ lastId \in Int /\ lastSeq \in Int /\ lastId < Len(log)
      /\ client = "reading" => lastSeq < Len(log)
  BY <1>1, StreamAssumption
     DEF StreamInv, TypeOK, Ids, NoId, CursorsLineUp, NothingLeftBehind
<1>3. Starts \in Nat /\ Tries \in Nat /\ Waiting \in Nat /\ Due \in Nat
  BY StreamAssumption DEF StreamInv, TypeOK, Starts, Tries, Waiting, Due, Bit
<1> QED
  BY <1>1, <1>2, <1>3 DEF RankIsNatural, Unseen, Unsent

LEMMA DescendsStep == StreamInv /\ stage = "over" /\ Next => Descends
<1> SUFFICES ASSUME StreamInv, stage = "over", Next PROVE Descends
  OBVIOUS
<1>1. /\ Len(log) \in Nat /\ lastId \in Int /\ lastSeq \in Int
      /\ retries \in 0..MaxRetries /\ attempt \in 0..MaxAttempts
      /\ MaxRetries \in Nat /\ MaxAttempts \in Nat
  BY LenProperties, StreamAssumption DEF StreamInv, TypeOK, Ids, NoId
<1>2. client \in {"connecting", "reading"} => ui \notin {"idle", "error"}
  BY DEF StreamInv
<1> USE DEF Bit, run, server, loop, view
<1>3. CASE Poll
  <2>1. batch' # <<>>
    <3>1. AtMost(Limit, Len(log) - (lastSeq + 1)) >= 1
      BY <1>1, <1>3, StreamAssumption DEF Poll, AtMost
    <3>2. 1 \in DOMAIN RowsAfter(lastSeq)
      BY <1>1, <3>1, StreamAssumption DEF RowsAfter, AtMost
    <3>3. DOMAIN <<>> = {}
      OBVIOUS
    <3> QED
      BY <1>3, <3>2, <3>3 DEF Poll
  <2>2. Due' = 0 /\ Due = 1
    BY <1>3, <2>1 DEF Poll, Due
  <2> QED
    BY <1>3, <2>2 DEF Poll, Descends, Starts, Tries, Waiting, Unseen, Unsent
<1>4. CASE PollFails
  BY <1>1, <1>4 DEF PollFails, Descends, Starts, Tries, Waiting, Unseen, Unsent, Due
<1>5. CASE Yield
  <2>1. client = "reading"
    BY <1>5 DEF Yield, StreamInv, NothingLeftBehind, CursorsLineUp
  <2>2. lastSeq' = lastSeq + 1
    <3>1. Follows(batch, lastSeq) /\ batch \in Seq(Ids)
      BY <2>1 DEF StreamInv, TypeOK, CursorsLineUp
    <3>2. Head(batch) = batch[1] /\ Len(batch) \in Nat \ {0}
      BY <1>5, <3>1, HeadIsFirst DEF Yield
    <3> QED
      BY <1>5, <3>1, <3>2 DEF Yield, Follows
  <2> QED
    BY <1>1, <1>5, <2>1, <2>2 DEF Yield, Descends, Starts, Tries, Waiting, Unseen, Unsent
<1>6. CASE Connect
  BY <1>1, <1>6 DEF Connect, Reach, Descends, Starts, Tries, Waiting
<1>7. CASE ConnectFails \/ Cut
  <2>1. client \in {"connecting", "reading"} /\ Retreat
    BY <1>7 DEF ConnectFails, Cut
  <2>2. Starts' = Starts
    BY <1>2, <2>1 DEF Retreat, Starts
  <2>3. Tries' < Tries
    BY <1>1, <2>1 DEF Retreat, GivesUp, Tries
  <2> QED
    BY <2>2, <2>3 DEF Descends
<1>8. CASE Deliver
  <2>1. lastId' = lastId + 1
    BY <1>8, HeadIsNext DEF Deliver
  <2>2. Starts' = Starts
    BY <1>2, <1>8 DEF Deliver, Shown, Starts
  <2> QED
    BY <1>1, <1>8, <2>1, <2>2 DEF Deliver, Descends, Tries, Waiting, Unseen
<1>9. CASE EndOfBody
  BY <1>1, <1>9 DEF EndOfBody, Descends, Starts, Tries
<1>10. CASE Start \/ Retry
  BY <1>1, <1>10 DEF Start, Retry, Descends, Starts
<1>11. ~ (Answer \/ AnswerDone \/ RecordAnswer \/ StartTool \/ EndRun)
  BY DEF Answer, AnswerDone, RecordAnswer, StartTool, EndRun
<1> QED
  BY <1>3, <1>4, <1>5, <1>6, <1>7, <1>8, <1>9, <1>10, <1>11 DEF Next

(* Once the run has logged its end, every step of the stream, of the client and of
   the view brings six naturals down in the lexicographic order: no sequence of lost
   connections, failed requests and retries goes on for ever.  With the fairness of
   the stream's steps this is why ViewSettles holds. *)
THEOREM StreamRunsDown ==
  Spec => []RankIsNatural /\ [][stage = "over" => Descends]_vars
<1>1. StreamInv /\ [Next]_vars => [stage = "over" => Descends]_vars
  BY DescendsStep
<1> QED
  BY <1>1, RankType, StreamInvariant, PTL DEF Spec

=============================================================================
