----------------------- MODULE WorkOrderExecutionProofs -----------------------
(* Proofs about the execution of a work order, for any number of requests,   *)
(* approvals, digests and cancels.                                           *)
EXTENDS WorkOrderExecution, TLAPS

(* What a request carries at each step, which its next steps rely on. *)
CarriesItsInputs ==
  \A e \in Request :
    /\ pc[e] \in {"find", "digest"} => proof[e] # None
    /\ pc[e] \in {"consume", "spend"} => receipt[e] # None
    /\ pc[e] \in {"record", "close", "release", "report"} => outcome[e] # None
    /\ pc[e] \in {"idle", "park", "find", "digest", "consume", "spend", "start", "create",
                  "acquire", "bind", "prepare", "resume", "enter", "loop"}
         => outcome[e] = None

(* A cancel has a target as long as it is going to write to it. *)
CancelHasTarget == cpc \in {"run", "evict"} => ctarget # None

TypeInv == TypeOK /\ CarriesItsInputs /\ CancelHasTarget

LEMMA TypeStep == TypeInv /\ [Next]_vars => TypeInv'
<1> SUFFICES ASSUME TypeInv, [Next]_vars PROVE TypeInv'
  OBVIOUS
<1> USE ExecutionAssumption
    DEF TypeInv, CarriesItsInputs, CancelHasTarget, TypeOK, A!TypeOK, A!Statuses, L!LaneTypeOK,
        L!Phases, WorkOrderStatuses, Terminal, RunStatuses, SessionStatuses, Outcomes, Steps,
        Pools, Go, UpdateStatus, rowVars, laneVars, sessionVars, requestVars,
        cancelVars
<1>1. ASSUME NEW e \in Request, Load(e) PROVE TypeInv'
  <2>1. PICK p \in Proofs \cup {None} :
          /\ proof' = [proof EXCEPT ![e] = p]
          /\ receipt' = [receipt EXCEPT ![e] = IF Gated THEN None ELSE p]
          /\ pc[e] = "idle"
          /\ pc' = [pc EXCEPT ![e] = IF wo = "Blocked" THEN "done"
                                    ELSE IF ~Gated THEN "start"
                                    ELSE IF p = None THEN "park" ELSE "find"]
          /\ IF pc'[e] = "park" THEN A!Create(e) ELSE UNCHANGED rowVars
          /\ UNCHANGED <<wo, laneVars, sessionVars, outcome, direct, denying, cancelVars>>
    BY <1>1 DEF Load
  <2>2. A!TypeOK'
    BY <2>1 DEF A!Create
  <2>3. L!LaneTypeOK'
    BY <2>1
  <2>4. proof' \in [Request -> Proofs \cup {None}] /\ receipt' \in [Request -> Proofs \cup {None}]
    BY <2>1
  <2>5. pc' \in [Request -> Steps]
    BY <2>1
  <2>6. CarriesItsInputs'
    BY <2>1
  <2>7. TypeOK' /\ CancelHasTarget'
    BY <2>1, <2>2, <2>3, <2>4, <2>5
  <2>. QED
    BY <2>6, <2>7
<1>2. ASSUME NEW e \in Request, Reject(e) PROVE TypeInv'
  BY <1>2 DEF Reject
<1>3. ASSUME NEW e \in Request, LoadDirect(e) PROVE TypeInv'
  BY <1>3 DEF LoadDirect
<1>4. ASSUME NEW e \in Request, Park(e) PROVE TypeInv'
  BY <1>4 DEF Park
<1>5. ASSUME NEW e \in Request, Find(e) PROVE TypeInv'
  BY <1>5 DEF Find
<1>6. ASSUME NEW e \in Request, CheckDigest(e) PROVE TypeInv'
  BY <1>6 DEF CheckDigest, Proofs
<1>7. ASSUME NEW e \in Request, Consume(e) PROVE TypeInv'
  BY <1>7 DEF Consume, A!Consume, A!Store
<1>8. ASSUME NEW e \in Request, Unconfigured(e) PROVE TypeInv'
  BY <1>8 DEF Unconfigured
<1>9. ASSUME NEW e \in Request, OpenSession(e) PROVE TypeInv'
  BY <1>9 DEF OpenSession
<1>10. ASSUME NEW e \in Request, CreateRun(e) PROVE TypeInv'
  BY <1>10 DEF CreateRun
<1>11. ASSUME NEW e \in Request, CheckLane(e) PROVE TypeInv'
  BY <1>11 DEF CheckLane, L!Check
<1>12. ASSUME NEW e \in Request, ClaimLane(e) PROVE TypeInv'
  BY <1>12 DEF ClaimLane, L!Claim, L!Write, L!Inside
<1>13. ASSUME NEW e \in Request, BindWorker(e) PROVE TypeInv'
  BY <1>13 DEF BindWorker
<1>14. ASSUME NEW e \in Request, Prepare(e) PROVE TypeInv'
  BY <1>14 DEF Prepare
<1>15. ASSUME NEW e \in Request, HarnessError(e) PROVE TypeInv'
  BY <1>15 DEF HarnessError, L!Abandon, laneVars
<1>16. ASSUME NEW e \in Request, Resume(e) PROVE TypeInv'
  BY <1>16 DEF Resume
<1>17. ASSUME NEW e \in Request, EnterLoop(e) PROVE TypeInv'
  <2>1. CASE IsRunCancelled(e)
    BY <1>17, <2>1 DEF EnterLoop
  <2>2. CASE ~IsRunCancelled(e)
    BY <1>17, <2>2 DEF EnterLoop
  <2> QED
    BY <2>1, <2>2
<1>18. ASSUME NEW e \in Request, EndLoop(e) PROVE TypeInv'
  <2>1. PICK o \in Ends : outcome' = [outcome EXCEPT ![e] = o]
    BY <1>18 DEF EndLoop
  <2>2. o \in Outcomes
    OBVIOUS
  <2> QED
    BY <1>18, <2>1, <2>2 DEF EndLoop
<1>19. ASSUME NEW e \in Request, PauseLoop(e) PROVE TypeInv'
  <2>1. PICK d \in Digest : cursor' = [cursor EXCEPT !["server"] = d]
    BY <1>19 DEF PauseLoop
  <2> QED
    BY <1>19, <2>1 DEF PauseLoop
<1>20. ASSUME NEW e \in Request, BreakLoop(e) PROVE TypeInv'
  BY <1>20 DEF BreakLoop
<1>21. ASSUME NEW e \in Request, RecordRun(e) PROVE TypeInv'
  BY <1>21 DEF RecordRun
<1>22. ASSUME NEW e \in Request, CloseSession(e) PROVE TypeInv'
  BY <1>22 DEF CloseSession
<1>23. ASSUME NEW e \in Request, ReleaseLane(e) PROVE TypeInv'
  BY <1>23 DEF ReleaseLane, L!Release, L!Clear
<1>24. ASSUME NEW e \in Request, FailRun(e) PROVE TypeInv'
  BY <1>24 DEF FailRun
<1>25. ASSUME NEW e \in Request, FailSession(e) PROVE TypeInv'
  BY <1>25 DEF FailSession
<1>26. ASSUME NEW e \in Request, FailLane(e) PROVE TypeInv'
  BY <1>26 DEF FailLane, L!GiveUp, L!Clear
<1>27. ASSUME NEW e \in Request, Report(e) PROVE TypeInv'
  BY <1>27 DEF Report
<1>28. ASSUME NEW e \in Request, Fail(e) PROVE TypeInv'
  BY <1>28 DEF Fail
<1>29. ASSUME NEW e \in Request, Vanish(e) PROVE TypeInv'
  BY <1>29 DEF Vanish, L!Abandon
<1>30. ASSUME NEW e \in Request, Approve(e) PROVE TypeInv'
  BY <1>30 DEF Approve, A!Approve, A!Store
<1>31. ASSUME NEW e \in Request, Deny(e) PROVE TypeInv'
  BY <1>31 DEF Deny, A!Deny, A!Store
<1>32. CASE FailDenied
  <2>1. denying' \in BOOLEAN
    BY <1>32, Zenon DEF FailDenied
  <2>2. wo' \in {wo, "Failed"}
    BY <1>32 DEF FailDenied
  <2>3. UNCHANGED <<rowVars, laneVars, sessionVars, requestVars, cancelVars>>
    BY <1>32 DEF FailDenied
  <2> QED
    BY <2>1, <2>2, <2>3
<1>33. CASE CancelWorkOrder
  BY <1>33 DEF CancelWorkOrder
<1>34. CASE Feedback
  BY <1>34 DEF Feedback
<1>35. CASE CancelWorker
  BY <1>35 DEF CancelWorker, CancelGo
<1>36. CASE CancelReadSession
  BY <1>36 DEF CancelReadSession, CancelGo
<1>37. CASE CancelReadRun
  BY <1>37 DEF CancelReadRun, CancelGo
<1>38. CASE CancelRun
  BY <1>38 DEF CancelRun, CancelGo, BeforeLoop
<1>39. CASE CancelEvict
  BY <1>39 DEF CancelEvict, CancelGo, L!Evict, L!Clear, L!Inside
<1>40. CASE CancelSession
  BY <1>40 DEF CancelSession, CancelGo
<1>41. CASE CancelSignal
  <2>1. cactive' \in BOOLEAN
    BY <1>41, Zenon DEF CancelSignal
  <2>2. signalled' \subseteq Request /\ ctarget' = None /\ cpc' = "idle"
    BY <1>41 DEF CancelSignal, CancelGo
  <2>3. UNCHANGED <<wo, rowVars, laneVars, cursor, session, run, bound,
                    requestVars, denying, cancels, doomed>>
    BY <1>41 DEF CancelSignal
  <2> QED
    BY <2>1, <2>2, <2>3
<1>42. CASE RebindWorker
  <2>1. bound' \in BOOLEAN
    BY <1>42, Zenon DEF RebindWorker
  <2>2. UNCHANGED <<wo, rowVars, laneVars, cursor, session, run, signalled,
                    requestVars, denying, cancelVars>>
    BY <1>42 DEF RebindWorker
  <2> QED
    BY <2>1, <2>2
<1>43. CASE Tick
  BY <1>43 DEF Tick, A!Elapse, A!Unexpired, L!Lapse
<1>44. CASE UNCHANGED vars
  BY <1>44 DEF vars
<1>45. ASSUME NEW e \in Request, Present(e) PROVE TypeInv'
  BY <1>45 DEF Present, A!ReadClock, A!RowCalls
<1>46. ASSUME NEW e \in Request, Decide(e) PROVE TypeInv'
  BY <1>46 DEF Decide, A!ReadClock, A!RowCalls
<1> QED
  BY <1>1, <1>2, <1>3, <1>4, <1>5, <1>6, <1>7, <1>8, <1>9, <1>10, <1>11,
     <1>12, <1>13, <1>14, <1>15, <1>16, <1>17, <1>18, <1>19, <1>20, <1>21,
     <1>22, <1>23, <1>24, <1>25, <1>26, <1>27, <1>28, <1>29, <1>30, <1>31,
     <1>32, <1>33, <1>34, <1>35, <1>36, <1>37, <1>38, <1>39, <1>40, <1>41,
     <1>42, <1>43, <1>44, <1>45, <1>46 DEF Next, RequestSteps, CancelSteps


LEMMA TypeInvHolds == Spec => []TypeInv
<1>1. ASSUME Init PROVE TypeInv
  <2> USE ExecutionAssumption
  <2>1. bound \in BOOLEAN /\ denying \in BOOLEAN /\ cactive \in BOOLEAN
    BY <1>1, Zenon DEF Init
  <2>2. wo \in WorkOrderStatuses /\ A!TypeOK /\ L!LaneTypeOK
    BY <1>1 DEF Init, A!Init, L!LaneInit, A!TypeOK, A!Statuses, L!LaneTypeOK, L!Phases,
       WorkOrderStatuses, Terminal
  <2>3. /\ cursor \in [Pools -> Digest \cup {None}]
        /\ session \in SessionStatuses
        /\ run \in [Request -> RunStatuses]
        /\ signalled \subseteq Request
    BY <1>1 DEF Init, Pools, SessionStatuses, RunStatuses
  <2>4. /\ pc \in [Request -> Steps]
        /\ proof \in [Request -> Proofs \cup {None}]
        /\ receipt \in [Request -> Proofs \cup {None}]
        /\ outcome \in [Request -> Outcomes \cup {None}]
        /\ direct \subseteq Request
        /\ CarriesItsInputs
    BY <1>1 DEF Init, Steps, CarriesItsInputs
  <2>5. /\ cpc = "idle" /\ ctarget = None
        /\ cancels \in 0..MaxCancels
        /\ doomed \subseteq Request
    BY <1>1 DEF Init
  <2> QED
    BY <2>1, <2>2, <2>3, <2>4, <2>5 DEF TypeInv, TypeOK, CancelHasTarget
<1> QED
  BY <1>1, TypeStep, PTL DEF Spec

(* The columns of work_orders, worker_sessions, worker_runs and of the lane and
   approval tables only ever hold values their CHECKs allow. *)
THEOREM ExecutionTypeCorrect == Spec => []TypeOK
BY TypeInvHolds, PTL DEF TypeInv

-----------------------------------------------------------------------------
(* No step changes a terminal status of the work order. *)
LEMMA OutcomeStep == [Next]_vars => (wo \in Terminal => wo' = wo)
<1> DEFINE Goal == wo \in Terminal => wo' = wo
<1> SUFFICES ASSUME [Next]_vars PROVE Goal
  OBVIOUS
<1> USE DEF UpdateStatus
<1>1. ASSUME NEW e \in Request, Park(e) \/ Report(e) \/ Fail(e) PROVE Goal
  BY <1>1 DEF Park, Report, Fail
<1>2. CASE FailDenied \/ CancelWorkOrder \/ Feedback
  BY <1>2 DEF FailDenied, CancelWorkOrder, Feedback
<1>3. ASSUME NEW e \in Request, Load(e) \/ Reject(e) \/ LoadDirect(e) \/
   Find(e) \/ CheckDigest(e) \/ Present(e) \/ Consume(e) \/ Unconfigured(e) \/
   OpenSession(e) \/ CreateRun(e) \/ CheckLane(e) \/ ClaimLane(e) \/
   BindWorker(e) \/ Prepare(e) \/ HarnessError(e) \/ Resume(e) \/
   EnterLoop(e) \/ EndLoop(e) \/ PauseLoop(e) \/ BreakLoop(e) \/
   RecordRun(e) \/ CloseSession(e) \/ ReleaseLane(e) \/ FailRun(e) \/
   FailSession(e) \/ FailLane(e) \/ Vanish(e) \/ Decide(e) \/ Approve(e) \/ Deny(e) PROVE
   Goal
  BY <1>3 DEF Load, Reject, LoadDirect, Find, CheckDigest, Present, Consume,
     Unconfigured, OpenSession, CreateRun, CheckLane, ClaimLane, BindWorker,
     Prepare, HarnessError, Resume, EnterLoop, EndLoop, PauseLoop,
     BreakLoop, RecordRun, CloseSession, ReleaseLane, FailRun, FailSession,
     FailLane, Vanish, Decide, Approve, Deny
<1>4. CASE CancelWorker \/ CancelReadSession \/ CancelReadRun \/ CancelRun
   \/ CancelEvict \/ CancelSession \/ CancelSignal \/ RebindWorker \/ Tick
   \/ UNCHANGED vars
  BY <1>4 DEF CancelWorker, CancelReadSession, CancelReadRun, CancelRun,
     CancelEvict, CancelSession, CancelSignal, RebindWorker, Tick, vars
<1> QED
  BY <1>1, <1>2, <1>3, <1>4 DEF Next, RequestSteps, CancelSteps

(* The first terminal status of the work order stays, whichever handlers are
   still running. *)
THEOREM OutcomeSticks == Spec => WorkOrderOutcomeSticks
BY OutcomeStep, PTL DEF Spec, WorkOrderOutcomeSticks

-----------------------------------------------------------------------------
(* Every step treats the approval rows as ApprovalReceipts allows. *)
LEMMA RowStep == TypeInv /\ [Next]_vars => [A!Next]_rowVars
<1> DEFINE Goal == [A!Next]_rowVars
<1> SUFFICES ASSUME TypeInv, [Next]_vars PROVE Goal
  OBVIOUS
<1>0. \A e \in Request : Present(e) \/ Consume(e) => receipt[e] \in Proofs
  BY DEF Present, Consume, Go, TypeInv, TypeOK, CarriesItsInputs
<1>1. ASSUME NEW e \in Request, Load(e) PROVE Goal
  BY <1>1 DEF Load, A!Next
<1>2. ASSUME NEW e \in Request, Consume(e) PROVE Goal
  BY <1>0, <1>2 DEF Consume, Proofs, A!Next
<1>7. ASSUME NEW e \in Request, Present(e) PROVE Goal
  BY <1>0, <1>7 DEF Present, Proofs, A!Next, A!RowCalls
<1>3. ASSUME NEW e \in Request, Decide(e) \/ Approve(e) \/ Deny(e) PROVE Goal
  BY <1>3 DEF Decide, Approve, Deny, A!Next, A!RowCalls
<1>4. CASE Tick
  BY <1>4 DEF Tick, A!Next
<1>5. ASSUME NEW e \in Request, Reject(e) \/ LoadDirect(e) \/ Park(e) \/
   Find(e) \/ CheckDigest(e) \/ Unconfigured(e) \/ OpenSession(e) \/
   CreateRun(e) \/ CheckLane(e) \/ ClaimLane(e) \/ BindWorker(e) \/
   Prepare(e) \/ HarnessError(e) \/ Resume(e) \/ EnterLoop(e) \/ EndLoop(e)
   \/ PauseLoop(e) \/ BreakLoop(e) \/ RecordRun(e) \/ CloseSession(e) \/
   ReleaseLane(e) \/ FailRun(e) \/ FailSession(e) \/ FailLane(e) \/
   Report(e) \/ Fail(e) \/ Vanish(e) PROVE Goal
  BY <1>5 DEF Reject, LoadDirect, Park, Find, CheckDigest, Unconfigured,
     OpenSession, CreateRun, CheckLane, ClaimLane, BindWorker, Prepare,
     HarnessError, Resume, EnterLoop, EndLoop, PauseLoop, BreakLoop,
     RecordRun, CloseSession, ReleaseLane, FailRun, FailSession, FailLane,
     Report, Fail, Vanish, rowVars
<1>6. CASE FailDenied \/ CancelWorkOrder \/ Feedback \/ CancelWorker \/
   CancelReadSession \/ CancelReadRun \/ CancelRun \/ CancelEvict \/
   CancelSession \/ CancelSignal \/ RebindWorker \/ UNCHANGED vars
  BY <1>6 DEF FailDenied, CancelWorkOrder, Feedback, CancelWorker,
     CancelReadSession, CancelReadRun, CancelRun, CancelEvict,
     CancelSession, CancelSignal, RebindWorker, vars, rowVars
<1> QED
  BY <1>1, <1>2, <1>3, <1>4, <1>5, <1>6, <1>7 DEF Next, RequestSteps, CancelSteps

(* Every step treats the lane as SessionLane allows. *)
LEMMA LaneStep == TypeInv /\ [Next]_vars => [L!LaneNext]_laneVars
<1> DEFINE Goal == [L!LaneNext]_laneVars
<1> SUFFICES ASSUME TypeInv, [Next]_vars PROVE Goal
  OBVIOUS
<1>1. ASSUME NEW e \in Request, CheckLane(e) \/ ClaimLane(e) \/
   HarnessError(e) \/ ReleaseLane(e) \/ FailLane(e) \/ Vanish(e) PROVE Goal
  BY <1>1 DEF CheckLane, ClaimLane, HarnessError, ReleaseLane, FailLane,
     Vanish, L!LaneNext
<1>2. CASE CancelEvict
  BY <1>2 DEF CancelEvict, CancelGo, TypeInv, CancelHasTarget, TypeOK,
     L!LaneNext
<1>3. CASE Tick
  BY <1>3 DEF Tick, L!LaneNext
<1>4. ASSUME NEW e \in Request, Load(e) \/ Reject(e) \/ LoadDirect(e) \/
   Park(e) \/ Find(e) \/ CheckDigest(e) \/ Present(e) \/ Consume(e) \/ Unconfigured(e) \/
   OpenSession(e) \/ CreateRun(e) \/ BindWorker(e) \/ Prepare(e) \/
   Resume(e) \/ EnterLoop(e) \/ EndLoop(e) \/ PauseLoop(e) \/ BreakLoop(e)
   \/ RecordRun(e) \/ CloseSession(e) \/ FailRun(e) \/ FailSession(e) \/
   Report(e) \/ Fail(e) \/ Decide(e) \/ Approve(e) \/ Deny(e) PROVE Goal
  BY <1>4 DEF Load, Reject, LoadDirect, Park, Find, CheckDigest, Present, Consume,
     Unconfigured, OpenSession, CreateRun, BindWorker, Prepare, Resume,
     EnterLoop, EndLoop, PauseLoop, BreakLoop, RecordRun, CloseSession,
     FailRun, FailSession, Report, Fail, Decide, Approve, Deny, laneVars
<1>5. CASE FailDenied \/ CancelWorkOrder \/ Feedback \/ CancelWorker \/
   CancelReadSession \/ CancelReadRun \/ CancelRun \/ CancelSession \/
   CancelSignal \/ RebindWorker \/ UNCHANGED vars
  BY <1>5 DEF FailDenied, CancelWorkOrder, Feedback, CancelWorker,
     CancelReadSession, CancelReadRun, CancelRun, CancelSession,
     CancelSignal, RebindWorker, vars, laneVars
<1> QED
  BY <1>1, <1>2, <1>3, <1>4, <1>5 DEF Next, RequestSteps, CancelSteps

(* The requests, deciders and cancels of a work order together implement the
   approval rows: what ApprovalReceipts guarantees holds here. *)
THEOREM ExecutionUsesReceipts == Spec => UsesReceipts
<1>1. Init => A!Init
  BY DEF Init
<1> QED
  BY <1>1, RowStep, TypeInvHolds, PTL DEF Spec, UsesReceipts, A!Spec, A!vars, rowVars

(* They implement the session lane, fairness aside. *)
THEOREM ExecutionUsesLane == Spec => UsesLane
<1>1. Init => L!LaneInit
  BY DEF Init
<1> QED
  BY <1>1, LaneStep, TypeInvHolds, PTL DEF Spec, UsesLane

-----------------------------------------------------------------------------
(* Which steps a request takes before and after its run row exists; the lane
   and a cancel only ever name runs that exist. *)
RunsExist ==
  /\ \A e \in Request :
       /\ pc[e] \in {"idle", "park", "find", "digest", "consume", "spend", "start", "create"}
            => run[e] = "none"
       /\ pc[e] \in Registered \cup {"report"} => run[e] # "none"
  /\ owner # None => run[owner] # "none"
  /\ ctarget # None => run[ctarget] # "none"


LEMMA RunsExistStep == TypeInv /\ RunsExist /\ [Next]_vars => RunsExist'
<1> SUFFICES ASSUME TypeInv, RunsExist, [Next]_vars PROVE RunsExist'
  OBVIOUS
<1> USE ExecutionAssumption
    DEF TypeInv, TypeOK, L!LaneTypeOK, RunsExist, Registered, RunStatuses, Steps,
        sessionVars, requestVars, cancelVars, rowVars, laneVars
<1>1. ASSUME NEW e \in Request, CreateRun(e) PROVE RunsExist'
  BY <1>1 DEF CreateRun, Go
<1>2. ASSUME NEW e \in Request, RecordRun(e) PROVE RunsExist'
  BY <1>2 DEF RecordRun, Go, TypeInv, CarriesItsInputs, Outcomes
<1>3. ASSUME NEW e \in Request, FailRun(e) PROVE RunsExist'
  BY <1>3 DEF FailRun, Go
<1>4. ASSUME NEW e \in Request, CheckLane(e) PROVE RunsExist'
  BY <1>4 DEF CheckLane, L!Check
<1>5. ASSUME NEW e \in Request, ClaimLane(e) PROVE RunsExist'
  BY <1>5 DEF ClaimLane, Go, L!Claim, L!Write
<1>6. ASSUME NEW e \in Request, HarnessError(e) PROVE RunsExist'
  BY <1>6 DEF HarnessError, Go, L!Abandon, laneVars
<1>7. ASSUME NEW e \in Request, ReleaseLane(e) \/ FailLane(e) PROVE
   RunsExist'
  BY <1>7 DEF ReleaseLane, FailLane, Go, L!Release, L!GiveUp, L!Clear
<1>8. ASSUME NEW e \in Request, Vanish(e) PROVE RunsExist'
  BY <1>8 DEF Vanish, L!Abandon, laneVars
<1>9. CASE CancelReadRun
  BY <1>9 DEF CancelReadRun, CancelGo
<1>10. CASE CancelRun
  BY <1>10 DEF CancelRun, CancelGo, TypeInv, CancelHasTarget
<1>11. CASE CancelEvict
  BY <1>11 DEF CancelEvict, CancelGo, L!Evict, L!Clear
<1>12. CASE CancelSignal
  BY <1>12 DEF CancelSignal
<1>13. ASSUME NEW e \in Request, Load(e) \/ Reject(e) \/ LoadDirect(e) \/
   Park(e) \/ Find(e) \/ CheckDigest(e) \/ Present(e) \/ Consume(e) \/ Unconfigured(e) \/
   OpenSession(e) \/ BindWorker(e) \/ Prepare(e) \/ Resume(e) \/
   EnterLoop(e) \/ EndLoop(e) \/ PauseLoop(e) \/ BreakLoop(e) \/
   CloseSession(e) \/ FailSession(e) \/ Report(e) \/ Fail(e) \/ Decide(e) \/ Approve(e)
   \/ Deny(e) PROVE RunsExist'
  BY <1>13 DEF Load, Reject, LoadDirect, Park, Find, CheckDigest, Present, Consume,
     Unconfigured, OpenSession, BindWorker, Prepare, Resume, EnterLoop,
     EndLoop, PauseLoop, BreakLoop, CloseSession, FailSession, Report, Fail,
     Decide, Approve, Deny, rowVars, laneVars, sessionVars, requestVars, cancelVars,
     Go, CancelGo, A!Create, L!Lapse
<1>14. CASE FailDenied \/ CancelWorkOrder \/ Feedback \/ CancelWorker \/
   CancelReadSession \/ CancelSession \/ RebindWorker \/ Tick \/ UNCHANGED
   vars
  BY <1>14 DEF FailDenied, CancelWorkOrder, Feedback, CancelWorker,
     CancelReadSession, CancelSession, RebindWorker, Tick, vars, rowVars,
     laneVars, sessionVars, requestVars, cancelVars, Go, CancelGo, A!Create,
     L!Lapse
<1> QED
  BY <1>1, <1>2, <1>3, <1>4, <1>5, <1>6, <1>7, <1>8, <1>9, <1>10, <1>11,
     <1>12, <1>13, <1>14 DEF Next, RequestSteps, CancelSteps


LEMMA RunsExistHolds == Spec => []RunsExist
<1>1. Init => RunsExist
  BY DEF Init, L!LaneInit, RunsExist, Registered
<1> QED
  BY <1>1, RunsExistStep, TypeInvHolds, PTL DEF Spec

-----------------------------------------------------------------------------
(* From consume_approved on, and for good once its run exists, a request holds
   its receipt. *)
Holder(e) ==
  pc[e] \in {"start", "create", "report", "fail"} \cup Registered \/ run[e] # "none"

HoldersAreSpent ==
  \A e \in Request :
    Holder(e) => receipt[e] # None /\ status[receipt[e].id] = "consumed"

HoldersDiffer ==
  \A e, f \in Request :
    Holder(e) /\ Holder(f) /\ e # f => receipt[e].id # receipt[f].id

ReceiptInv == Gated => HoldersAreSpent /\ HoldersDiffer

(* A spent row stays spent. *)
LEMMA ConsumedStays ==
  TypeInv /\ [Next]_vars =>
    \A a \in Request : status[a] = "consumed" => status'[a] = "consumed"
<1> SUFFICES ASSUME TypeInv, [A!Next]_rowVars, NEW a \in Request, status[a] = "consumed"
             PROVE status'[a] = "consumed"
  BY RowStep
<1> USE DEF TypeInv, TypeOK, A!TypeOK, rowVars
<1>1. ASSUME NEW b \in Request, A!Create(b) \/ A!Approve(b) \/ A!Deny(b) \/ A!Consume(b)
      PROVE status'[a] = "consumed"
  BY <1>1 DEF A!Create, A!Approve, A!Deny, A!Consume, A!Decidable, A!Consumable,
     A!Matches, A!Store
<1>2. ASSUME NEW b \in Request, A!ExpireSelected(b)
      PROVE status'[a] = "consumed"
  BY <1>2 DEF A!ExpireSelected
<1>3. ASSUME NEW b \in Request, NEW c \in A!RowCalls, A!ReadClock(c, b)
      PROVE status'[a] = "consumed"
  BY <1>3 DEF A!ReadClock
<1>4. CASE A!SelectOverdue \/ A!StopSweep \/ A!Elapse
  BY <1>4 DEF A!SelectOverdue, A!StopSweep, A!Elapse
<1> QED
  BY <1>1, <1>2, <1>3, <1>4 DEF A!Next


(* No step but consume_approved makes a holder of a gated work order's
   receipt, and a holder's receipt does not change. *)
LEMMA NoNewHolder ==
  ASSUME TypeInv, RunsExist, [Next]_vars, Gated, NEW e \in Request,
         ~ Consume(e), Holder(e)'
  PROVE  Holder(e) /\ receipt'[e] = receipt[e]
<1> DEFINE Kept == Holder(e)' => Holder(e) /\ receipt'[e] = receipt[e]
<1> SUFFICES Kept
  OBVIOUS
<1> USE ExecutionAssumption DEF TypeInv, TypeOK, Holder, Registered, Steps
<1>0. ASSUME NEW d \in Request, Consume(d) PROVE Kept
  BY <1>0 DEF Consume, Go, sessionVars
<1>1. ASSUME NEW d \in Request, Load(d) PROVE Kept
  <2>1. run' = run
    BY <1>1 DEF Load, sessionVars
  <2>2. PICK t \in {"done", "park", "find"} : pc' = [pc EXCEPT ![d] = t]
    BY <1>1 DEF Load, Go
  <2>3. \A f \in Request \ {d} : receipt'[f] = receipt[f]
    BY <1>1 DEF Load
  <2> QED
    BY <1>1, <2>1, <2>2, <2>3 DEF RunsExist, Load, Go
<1>2. ASSUME NEW d \in Request, LoadDirect(d) PROVE Kept
  BY <1>2 DEF LoadDirect, Go, sessionVars
<1>3. ASSUME NEW d \in Request, CheckDigest(d) \/ Present(d) PROVE Kept
  BY <1>3 DEF CheckDigest, Present, Go, RunsExist, sessionVars
<1>4. ASSUME NEW d \in Request, CreateRun(d) \/ RecordRun(d) \/ FailRun(d)
   PROVE Kept
  BY <1>4 DEF CreateRun, RecordRun, FailRun, Go
<1>5. ASSUME NEW d \in Request, Find(d) \/ CheckLane(d) \/ EnterLoop(d) \/
   Resume(d) \/ ReleaseLane(d) \/ Vanish(d) PROVE Kept
  BY <1>5 DEF Find, CheckLane, EnterLoop, Resume, ReleaseLane, Vanish, Go,
     sessionVars
<1>6. CASE CancelRun
  BY <1>6 DEF CancelRun, CancelGo, TypeInv, CancelHasTarget, RunsExist,
     requestVars
<1>7. ASSUME NEW d \in Request, Reject(d) \/ Park(d) \/ Unconfigured(d) \/
   OpenSession(d) \/ ClaimLane(d) \/ BindWorker(d) \/ Prepare(d) \/
   HarnessError(d) \/ EndLoop(d) \/ PauseLoop(d) \/ BreakLoop(d) \/
   CloseSession(d) \/ FailSession(d) \/ FailLane(d) \/ Report(d) \/ Fail(d)
   \/ Decide(d) \/ Approve(d) \/ Deny(d) PROVE Kept
  BY <1>7 DEF Reject, Park, Unconfigured, OpenSession, ClaimLane,
     BindWorker, Prepare, HarnessError, EndLoop, PauseLoop, BreakLoop,
     CloseSession, FailSession, FailLane, Report, Fail, Decide, Approve, Deny, Go,
     CancelGo, rowVars, laneVars, sessionVars, requestVars, cancelVars
<1>8. CASE FailDenied \/ CancelWorkOrder \/ Feedback \/ CancelWorker \/
   CancelReadSession \/ CancelReadRun \/ CancelEvict \/ CancelSession \/
   CancelSignal \/ RebindWorker \/ Tick \/ UNCHANGED vars
  BY <1>8 DEF FailDenied, CancelWorkOrder, Feedback, CancelWorker,
     CancelReadSession, CancelReadRun, CancelEvict, CancelSession,
     CancelSignal, RebindWorker, Tick, vars, Go, CancelGo, rowVars,
     laneVars, sessionVars, requestVars, cancelVars
<1> QED
  BY <1>0, <1>1, <1>2, <1>3, <1>4, <1>5, <1>6, <1>7, <1>8 DEF Next, RequestSteps, CancelSteps

LEMMA ReceiptInvStep == TypeInv /\ RunsExist /\ ReceiptInv /\ [Next]_vars => ReceiptInv'
<1> SUFFICES ASSUME TypeInv, RunsExist, HoldersAreSpent, HoldersDiffer, [Next]_vars, Gated
             PROVE HoldersAreSpent' /\ HoldersDiffer'
  BY DEF ReceiptInv
<1>1. \A a \in Request : status[a] = "consumed" => status'[a] = "consumed"
  BY ConsumedStays
<1>2. CASE \A e \in Request : ~ Consume(e)
  <2>1. \A e \in Request : Holder(e)' => Holder(e) /\ receipt'[e] = receipt[e]
    BY <1>2, NoNewHolder
  <2>2. HoldersAreSpent'
    BY <1>1, <2>1 DEF HoldersAreSpent, TypeInv, TypeOK, Proofs
  <2>3. HoldersDiffer'
    BY <2>1 DEF HoldersDiffer
  <2> QED
    BY <2>2, <2>3
<1>3. ASSUME NEW e \in Request, Consume(e) PROVE HoldersAreSpent' /\ HoldersDiffer'
  <2> DEFINE id == receipt[e].id
  <2>1. receipt[e] # None /\ id \in Request /\ ~ Holder(e)
    BY <1>3 DEF Consume, Go, Holder, Registered, TypeInv, TypeOK, CarriesItsInputs,
       RunsExist, Proofs
  <2>2. \A f \in Request \ {e} : Holder(f)' => Holder(f) /\ receipt'[f] = receipt[f]
    BY <1>3 DEF Consume, Go, Holder, TypeInv, TypeOK, sessionVars
  <2>3. CASE A!Consumable(id)
    <3>1. receipt' = receipt /\ status[id] = "approved" /\ status'[id] = "consumed"
      BY <1>3, <2>1, <2>3 DEF Consume, A!Consume, A!Consumable, A!Matches, A!Store, TypeInv,
         TypeOK, A!TypeOK
    <3>2. HoldersAreSpent'
      BY <1>1, <2>1, <2>2, <3>1 DEF HoldersAreSpent, TypeInv, TypeOK, Proofs
    <3>3. \A f \in Request \ {e} : Holder(f)' => receipt'[f].id # receipt'[e].id
      BY <2>2, <3>1 DEF HoldersAreSpent
    <3>4. HoldersDiffer'
      BY <2>2, <3>1, <3>3 DEF HoldersDiffer
    <3> QED
      BY <3>2, <3>4
  <2>4. CASE ~ A!Consumable(id)
    <3>1. ~ Holder(e)'
      BY <1>3, <2>1, <2>4 DEF Consume, Go, Holder, Registered, TypeInv, TypeOK, sessionVars, Steps
    <3>2. HoldersAreSpent'
      BY <1>1, <2>2, <3>1 DEF HoldersAreSpent, TypeInv, TypeOK, Proofs
    <3>3. HoldersDiffer'
      BY <2>2, <3>1 DEF HoldersDiffer
    <3> QED
      BY <3>2, <3>3
  <2> QED
    BY <2>3, <2>4
<1> QED
  BY <1>2, <1>3

LEMMA ReceiptInvHolds == Spec => []ReceiptInv
<1>1. Init => ReceiptInv
  BY DEF Init, ReceiptInv, HoldersAreSpent, HoldersDiffer, Holder, Registered
<1> QED
  BY <1>1, ReceiptInvStep, TypeInvHolds, RunsExistHolds, PTL DEF Spec

(* No run of a gated work order exists without a spent receipt of its own. *)
THEOREM EveryGatedRunHoldsReceipt == Spec => []GatedRunsHoldReceipt
<1>1. ReceiptInv => GatedRunsHoldReceipt
  BY DEF ReceiptInv, HoldersAreSpent, Holder, GatedRunsHoldReceipt
<1> QED
  BY <1>1, ReceiptInvHolds, PTL

(* However many requests present the same approval, at most one of them
   starts a run. *)
THEOREM OneRunPerReceipt == Spec => []ReceiptAuthorizesOneRun
<1>1. ReceiptInv => ReceiptAuthorizesOneRun
  BY DEF ReceiptInv, HoldersDiffer, Holder, ReceiptAuthorizesOneRun
<1> QED
  BY <1>1, ReceiptInvHolds, PTL

-----------------------------------------------------------------------------
(* The handlers never see the cursor the harness keeps, so the receipts they
   build carry no digest. *)
BareReceipts ==
  /\ cursor["company"] = None
  /\ Gated => \A e \in Request : receipt[e] # None => receipt[e].digest = None

LEMMA BareReceiptsStep == TypeInv /\ BareReceipts /\ [Next]_vars => BareReceipts'
<1> SUFFICES ASSUME TypeInv, BareReceipts, [Next]_vars PROVE BareReceipts'
  OBVIOUS
<1> USE ExecutionAssumption
    DEF TypeInv, TypeOK, BareReceipts, Pools, sessionVars, requestVars
<1>1. ASSUME NEW e \in Request, Load(e) PROVE BareReceipts'
  BY <1>1 DEF Load
<1>2. ASSUME NEW e \in Request, CheckDigest(e) PROVE BareReceipts'
  BY <1>2 DEF CheckDigest
<1>3. ASSUME NEW e \in Request, Present(e) \/ Consume(e) PROVE BareReceipts'
  BY <1>3 DEF Present, Consume
<1>4. ASSUME NEW e \in Request, PauseLoop(e) PROVE BareReceipts'
  <2>1. cursor'["company"] = cursor["company"] /\ receipt' = receipt
    BY <1>4 DEF PauseLoop
  <2> QED
    BY <2>1
<1>5. ASSUME NEW e \in Request, Reject(e) \/ LoadDirect(e) \/ Park(e) \/
   Find(e) \/ Unconfigured(e) \/ OpenSession(e) \/ CreateRun(e) \/
   CheckLane(e) \/ ClaimLane(e) \/ BindWorker(e) \/ Prepare(e) \/
   HarnessError(e) \/ Resume(e) \/ EnterLoop(e) \/ EndLoop(e) \/
   BreakLoop(e) \/ RecordRun(e) \/ CloseSession(e) \/ ReleaseLane(e) \/
   FailRun(e) \/ FailSession(e) \/ FailLane(e) \/ Report(e) \/ Fail(e) \/
   Vanish(e) \/ Decide(e) \/ Approve(e) \/ Deny(e) PROVE UNCHANGED <<cursor, receipt>>
  BY <1>5 DEF Reject, LoadDirect, Park, Find, Unconfigured, OpenSession,
     CreateRun, CheckLane, ClaimLane, BindWorker, Prepare, HarnessError,
     Resume, EnterLoop, EndLoop, BreakLoop, RecordRun, CloseSession,
     ReleaseLane, FailRun, FailSession, FailLane, Report, Fail, Vanish,
     Decide, Approve, Deny
<1>6. CASE FailDenied \/ CancelWorkOrder \/ Feedback \/ CancelSteps \/
   RebindWorker \/ Tick \/ UNCHANGED vars
  BY <1>6 DEF FailDenied, CancelWorkOrder, Feedback, CancelSteps,
     CancelWorker, CancelReadSession, CancelReadRun, CancelRun, CancelEvict,
     CancelSession, CancelSignal, RebindWorker, Tick, vars
<1> QED
  BY <1>1, <1>2, <1>3, <1>4, <1>5, <1>6 DEF Next, RequestSteps

(* The cursor of a pause outlives every later step, and a request of a gated
   work order gets past load_resume_cursor only where no run has paused. *)
ResumeStep ==
  /\ cursor["server"] # None => cursor'["server"] # None
  /\ Gated => \A e \in Request :
       pc[e] = "resume" /\ pc'[e] = "enter" => cursor["server"] = None

(* Only Resume takes a request from "resume" to "enter". *)
LEMMA OnlyResumeEnters ==
  ASSUME TypeInv, [Next]_vars, NEW e \in Request, pc[e] = "resume", pc'[e] = "enter"
  PROVE  Resume(e)
<1> USE DEF TypeInv, TypeOK, Go, requestVars
<1>1. ASSUME NEW d \in Request, RequestSteps(d) PROVE d = e
  <2> SUFFICES ASSUME d # e PROVE pc'[e] = pc[e]
    OBVIOUS
  <2> QED
    BY <1>1 DEF RequestSteps, Load, Reject, LoadDirect, Park, Find,
       CheckDigest, Present, Consume, Unconfigured, OpenSession, CreateRun,
       CheckLane, ClaimLane, BindWorker, Prepare, HarnessError, Resume,
       EnterLoop, EndLoop, PauseLoop, BreakLoop, RecordRun, CloseSession,
       ReleaseLane, FailRun, FailSession, FailLane, Report, Fail, Vanish
<1>2. CASE RequestSteps(e)
  BY <1>2 DEF RequestSteps, Load, Reject, LoadDirect, Park, Find,
     CheckDigest, Present, Consume, Unconfigured, OpenSession, CreateRun,
     CheckLane, ClaimLane, BindWorker, Prepare, HarnessError,
     EnterLoop, EndLoop, PauseLoop, BreakLoop, RecordRun, CloseSession,
     ReleaseLane, FailRun, FailSession, FailLane, Report, Fail, Vanish
<1>3. ASSUME NEW d \in Request, Decide(d) \/ Approve(d) \/ Deny(d) PROVE FALSE
  BY <1>3 DEF Decide, Approve, Deny
<1>4. CASE FailDenied \/ CancelWorkOrder \/ Feedback \/ CancelSteps \/
   RebindWorker \/ Tick \/ UNCHANGED vars
  BY <1>4 DEF FailDenied, CancelWorkOrder, Feedback, CancelSteps,
     CancelWorker, CancelReadSession, CancelReadRun, CancelRun, CancelEvict,
     CancelSession, CancelSignal, RebindWorker, Tick, vars
<1> QED
  BY <1>1, <1>2, <1>3, <1>4 DEF Next

LEMMA ResumeStepHolds ==
  TypeInv /\ RunsExist /\ ReceiptInv /\ BareReceipts /\ [Next]_vars => ResumeStep
<1> SUFFICES ASSUME TypeInv, RunsExist, ReceiptInv, BareReceipts, [Next]_vars
             PROVE  ResumeStep
  OBVIOUS
<1>1. cursor["server"] # None => cursor'["server"] # None
  <2> USE ExecutionAssumption DEF TypeInv, TypeOK, Pools, sessionVars
  <2>1. ASSUME NEW e \in Request, PauseLoop(e) PROVE cursor'["server"] # None
    <3>1. PICK d \in Digest : cursor' = [cursor EXCEPT !["server"] = d]
      BY <2>1 DEF PauseLoop
    <3> QED
      BY <3>1
  <2>2. ASSUME NEW e \in Request, Load(e) \/ Reject(e) \/ LoadDirect(e) \/
     Park(e) \/ Find(e) \/ CheckDigest(e) \/ Present(e) \/ Consume(e) \/ Unconfigured(e) \/
     OpenSession(e) \/ CreateRun(e) \/ CheckLane(e) \/ ClaimLane(e) \/
     BindWorker(e) \/ Prepare(e) \/ HarnessError(e) \/ Resume(e) \/
     EnterLoop(e) \/ EndLoop(e) \/ BreakLoop(e) \/ RecordRun(e) \/
     CloseSession(e) \/ ReleaseLane(e) \/ FailRun(e) \/ FailSession(e) \/
     FailLane(e) \/ Report(e) \/ Fail(e) \/ Vanish(e) \/ Decide(e) \/ Approve(e) \/
     Deny(e) PROVE cursor' = cursor
    BY <2>2 DEF Load, Reject, LoadDirect, Park, Find, CheckDigest, Present, Consume,
       Unconfigured, OpenSession, CreateRun, CheckLane, ClaimLane,
       BindWorker, Prepare, HarnessError, Resume, EnterLoop, EndLoop,
       BreakLoop, RecordRun, CloseSession, ReleaseLane, FailRun,
       FailSession, FailLane, Report, Fail, Vanish, Decide, Approve, Deny
  <2>3. CASE FailDenied \/ CancelWorkOrder \/ Feedback \/ CancelSteps \/
     RebindWorker \/ Tick \/ UNCHANGED vars
    BY <2>3 DEF FailDenied, CancelWorkOrder, Feedback, CancelSteps,
       CancelWorker, CancelReadSession, CancelReadRun, CancelRun,
       CancelEvict, CancelSession, CancelSignal, RebindWorker, Tick, vars
  <2> QED
    BY <2>1, <2>2, <2>3 DEF Next, RequestSteps
<1>2. ASSUME Gated, NEW e \in Request, pc[e] = "resume", pc'[e] = "enter"
      PROVE  cursor["server"] = None
  <2>1. Resume(e)
    BY <1>2, OnlyResumeEnters
  <2>2. receipt[e] # None
    BY <1>2 DEF ReceiptInv, HoldersAreSpent, Holder, Registered
  <2>3. receipt[e].digest = None
    BY <1>2, <2>2 DEF BareReceipts
  <2> QED
    BY <1>2, <2>1, <2>2, <2>3 DEF Resume, Go, TypeInv, TypeOK
<1> QED
  BY <1>1, <1>2 DEF ResumeStep

(* For a company's work order pending_action_digest_for_work_order looks in a
   database the harness does not write to.  So once a run of a gated one has
   paused, no later run of it enters its loop: every receipt is spent on a run
   that load_resume_cursor turns away. *)
THEOREM PausedGatedRunsNeverResume ==
  Spec => [](cursor["company"] = None) /\ [][ResumeStep]_vars
<1>1. Init => BareReceipts
  BY DEF Init, BareReceipts, Pools
<1>2. Spec => []BareReceipts
  BY <1>1, BareReceiptsStep, TypeInvHolds, PTL DEF Spec
<1>3. BareReceipts => cursor["company"] = None
  BY DEF BareReceipts
<1> QED
  BY <1>2, <1>3, ResumeStepHolds, ReceiptInvHolds, RunsExistHolds, TypeInvHolds, PTL
     DEF Spec

-----------------------------------------------------------------------------
LP == INSTANCE ReceiptsAndLaneProofs
        WITH Approval <- Request, Run <- Request, NoRun <- None

(* The lane and the rows the requests share are those ReceiptsAndLaneProofs is
   about. *)
LEMMA SameLane ==
  /\ [L!LaneNext]_laneVars => [LP!LaneNext]_(LP!laneVars)
  /\ L!LaneInit => LP!LaneInit
  /\ LP!LaneAssumption
<1>1. [L!LaneNext]_laneVars => [LP!LaneNext]_(LP!laneVars)
  BY DEF laneVars, LP!laneVars, L!LaneNext, LP!LaneNext, L!Check, LP!Check, L!Claim,
     LP!Claim, L!Write, LP!Write, L!Release, LP!Release, L!GiveUp, LP!GiveUp, L!Clear,
     LP!Clear, L!Abandon, LP!Abandon, L!Evict, LP!Evict, L!Lapse, LP!Lapse, L!Busy,
     LP!Busy, L!Inside, LP!Inside
<1>2. L!LaneInit => LP!LaneInit
  BY DEF L!LaneInit, LP!LaneInit
<1>3. LP!LaneAssumption
  BY ExecutionAssumption DEF LP!LaneAssumption
<1> QED
  BY <1>1, <1>2, <1>3

LEMMA SameRows ==
  /\ [A!Next]_rowVars => [LP!Next]_(LP!vars)
  /\ A!Init => LP!Init
  /\ LP!TimeoutAssumption
<1>1. [A!Next]_rowVars => [LP!Next]_(LP!vars)
  BY DEF rowVars, LP!vars, A!Next, LP!Next, A!Create, LP!Create, A!Approve, LP!Approve,
     A!Deny, LP!Deny, A!Consume, LP!Consume, A!Store, LP!Store, A!Matches, LP!Matches,
     A!ReadClock, LP!ReadClock, A!RowCalls, LP!RowCalls, A!StopSweep, LP!StopSweep, A!SelectOverdue, LP!SelectOverdue,
     A!ExpireSelected, LP!ExpireSelected, A!Elapse, LP!Elapse, A!Decidable, LP!Decidable,
     A!Consumable, LP!Consumable, A!Overdue, LP!Overdue, A!Unexpired, LP!Unexpired
<1>2. A!Init => LP!Init
  BY DEF A!Init, LP!Init
<1>3. LP!TimeoutAssumption
  BY ExecutionAssumption DEF LP!TimeoutAssumption
<1> QED
  BY <1>1, <1>2, <1>3

(* The lane's invariant holds of the lane the requests share. *)
LEMMA LaneInvHolds == Spec => []LP!LaneInv
<1>1. LP!LaneInv /\ TypeInv /\ [Next]_vars => LP!LaneInv'
  BY SameLane, SameRows, LaneStep, LP!LaneInvStep
<1>2. Init => LP!LaneInv
  BY SameLane, SameRows, LP!LaneInvInit DEF Init
<1> QED
  BY <1>1, <1>2, TypeInvHolds, PTL DEF Spec

-----------------------------------------------------------------------------
(* What the two components promise, among the requests, deciders and cancels of
   a work order. *)

(* No request, decider or consumer of a work order overwrites a decision on one
   of its approvals. *)
THEOREM ExecutionKeepsDecisions == Spec => A!DecisionsAreFinal
<1>1. TypeInv /\ [Next]_vars => [LP!StatusStep]_rowVars
  <2> SUFFICES ASSUME TypeInv, [Next]_vars PROVE LP!StatusStep
    OBVIOUS
  <2>1. [LP!Next]_(LP!vars)
    BY RowStep, SameRows
  <2>2. LP!TypeOK
    BY DEF TypeInv, TypeOK, A!TypeOK, LP!TypeOK, A!Statuses, LP!Statuses, A!RowCalls, LP!RowCalls
  <2> QED
    BY <2>1, <2>2, SameLane, SameRows, LP!StatusStepHolds
<1>2. [LP!StatusStep]_rowVars =>
        [\A a \in Request :
           /\ status[a] \in A!Settled => status'[a] = status[a]
           /\ status[a] = "approved" => status'[a] \in {"approved", "consumed"}
           /\ status[a] # "absent" => status'[a] # "absent"]_(A!vars)
  BY DEF LP!StatusStep, LP!Settled, A!Settled, A!vars, rowVars
<1> QED
  BY <1>1, <1>2, TypeInvHolds, PTL DEF Spec, A!DecisionsAreFinal

(* A request for approval that its deadline found undecided starts no run: a
   decider with an old reading of the clock may still approve it and any number
   of requests present it, none gets past consume_approved. *)
THEOREM MissedDeadlineStartsNothing ==
  Spec => [](Gated => \A e \in Request : run[e] # "none" => receipt[e].id \notin missed)
<1>1. Init => LP!MissedInv
  BY SameLane, SameRows, LP!MissedInit DEF Init
<1>2. TypeInv /\ LP!MissedInv /\ [Next]_vars => LP!MissedInv'
  <2> SUFFICES ASSUME TypeInv, LP!MissedInv, [Next]_vars PROVE LP!MissedInv'
    OBVIOUS
  <2>1. [LP!Next]_(LP!vars)
    BY RowStep, SameRows
  <2>2. LP!TypeOK
    BY DEF TypeInv, TypeOK, A!TypeOK, LP!TypeOK, A!Statuses, LP!Statuses, A!RowCalls, LP!RowCalls
  <2> QED
    BY <2>1, <2>2, SameLane, SameRows, LP!MissedStep
<1>3. TypeInv /\ LP!MissedInv /\ GatedRunsHoldReceipt =>
        (Gated => \A e \in Request : run[e] # "none" => receipt[e].id \notin missed)
  BY DEF LP!MissedInv, GatedRunsHoldReceipt, TypeInv, TypeOK, A!TypeOK
<1> QED
  BY <1>1, <1>2, <1>3, EveryGatedRunHoldsReceipt, TypeInvHolds, PTL DEF Spec

(* The runs of a work order finish one at a time: with all its requests and
   cancels it still implements SerialRuns. *)
THEOREM ExecutionSerialisesRuns == Spec => L!ImplementsSerialRuns
<1> DEFINE finishedRuns == {r \in Request : phase[r] = "released"}
<1>1. Init => L!Serial!Init
  BY DEF Init, L!LaneInit, L!Serial!Init
<1>2. TypeInv /\ [Next]_vars => [L!Serial!Next]_<<owner, finishedRuns>>
  <2> SUFFICES ASSUME TypeInv, [Next]_vars
               PROVE [L!Serial!Next]_<<owner, finishedRuns>>
    OBVIOUS
  <2>1. [LP!LaneNext]_(LP!laneVars)
    BY LaneStep, SameLane
  <2>2. LP!LaneTypeOK
    BY DEF TypeInv, TypeOK, L!LaneTypeOK, LP!LaneTypeOK, L!Phases, LP!Phases
  <2>3. [LP!Serial!Next]_<<owner, LP!Finished>>
    BY <2>1, <2>2, SameLane, SameRows, LP!SerialStep
  <2> QED
    BY <2>3 DEF LP!Finished, LP!Serial!Next, L!Serial!Next, LP!Serial!Start,
       L!Serial!Start, LP!Serial!Finish, L!Serial!Finish, LP!Serial!Drop, L!Serial!Drop
<1> QED
  BY <1>1, <1>2, TypeInvHolds, PTL DEF Spec, L!ImplementsSerialRuns, L!Serial!Spec

-----------------------------------------------------------------------------
(* A request gets past the release of its lane exactly when release said Ok. *)
ReportersReleased ==
  \A e \in Request :
    /\ pc[e] = "report" => phase[e] = "released"
    /\ phase[e] = "released" => pc[e] \in {"report", "fail", "done"}


LEMMA ReportersReleasedStep ==
  TypeInv /\ ReportersReleased /\ [Next]_vars => ReportersReleased'
<1> SUFFICES ASSUME TypeInv, ReportersReleased, [Next]_vars PROVE ReportersReleased'
  OBVIOUS
<1> USE DEF TypeInv, TypeOK, L!LaneTypeOK, L!Phases, ReportersReleased, Steps
<1>1. ASSUME NEW e \in Request, ReleaseLane(e) PROVE ReportersReleased'
  BY <1>1 DEF ReleaseLane, L!Release, Go
<1>2. ASSUME NEW e \in Request, CheckLane(e) \/ ClaimLane(e) PROVE
   ReportersReleased'
  BY <1>2 DEF CheckLane, ClaimLane, L!Check, L!Claim, Go
<1>3. ASSUME NEW e \in Request, HarnessError(e) \/ FailLane(e) \/ Vanish(e)
   PROVE ReportersReleased'
  BY <1>3 DEF HarnessError, FailLane, Vanish, L!Abandon, L!GiveUp, Go,
     laneVars
<1>4. ASSUME NEW e \in Request, Load(e) PROVE ReportersReleased'
  <2>1. pc[e] = "idle" /\ phase' = phase
    BY <1>4 DEF Load, Go, laneVars
  <2>2. PICK t \in {"done", "park", "find", "start"} : pc' = [pc EXCEPT ![e] = t]
    BY <1>4 DEF Load, Go
  <2> QED
    BY <2>1, <2>2
<1>5. ASSUME NEW e \in Request, LoadDirect(e) \/ Find(e) \/ CheckDigest(e)
   \/ Present(e) \/ Consume(e) \/ Resume(e) \/ EnterLoop(e) PROVE ReportersReleased'
  BY <1>5 DEF LoadDirect, Find, CheckDigest, Present, Consume, Resume, EnterLoop, Go,
     laneVars
<1>6. CASE CancelEvict \/ Tick
  BY <1>6 DEF CancelEvict, Tick, L!Evict, L!Lapse, requestVars
<1>7. ASSUME NEW e \in Request, Reject(e) \/ Park(e) \/ Unconfigured(e) \/
   OpenSession(e) \/ CreateRun(e) \/ BindWorker(e) \/ Prepare(e) \/
   EndLoop(e) \/ PauseLoop(e) \/ BreakLoop(e) \/ RecordRun(e) \/
   CloseSession(e) \/ FailRun(e) \/ FailSession(e) \/ Report(e) \/ Fail(e)
   \/ Decide(e) \/ Approve(e) \/ Deny(e) PROVE ReportersReleased'
  BY <1>7 DEF Reject, Park, Unconfigured, OpenSession, CreateRun,
     BindWorker, Prepare, EndLoop, PauseLoop, BreakLoop, RecordRun,
     CloseSession, FailRun, FailSession, Report, Fail, Decide, Approve, Deny, Go,
     laneVars, requestVars
<1>8. CASE FailDenied \/ CancelWorkOrder \/ Feedback \/ CancelWorker \/
   CancelReadSession \/ CancelReadRun \/ CancelRun \/ CancelSession \/
   CancelSignal \/ RebindWorker \/ UNCHANGED vars
  BY <1>8 DEF FailDenied, CancelWorkOrder, Feedback, CancelWorker,
     CancelReadSession, CancelReadRun, CancelRun, CancelSession,
     CancelSignal, RebindWorker, vars, Go, laneVars, requestVars
<1> QED
  BY <1>1, <1>2, <1>3, <1>4, <1>5, <1>6, <1>7, <1>8 DEF Next, RequestSteps, CancelSteps


(* A step completes the work order only from a request that is reporting a
   completed run, and leaves the outcome of a released run alone. *)
LEMMA CompletionStep ==
  ASSUME TypeInv, ReportersReleased, [Next]_vars
  PROVE  /\ wo' = "Completed" => \/ wo = "Completed"
                                 \/ \E e \in Request : pc[e] = "report" /\ outcome[e] = "Completed"
         /\ \A e \in Request : phase[e] = "released" => outcome'[e] = outcome[e]
<1> DEFINE Goal ==
      /\ wo' = "Completed" => \/ wo = "Completed"
                              \/ \E f \in Request : pc[f] = "report" /\ outcome[f] = "Completed"
      /\ \A f \in Request : phase[f] = "released" => outcome'[f] = outcome[f]
<1> USE DEF TypeInv, TypeOK, ReportersReleased
<1>1. ASSUME NEW e \in Request, Report(e) PROVE Goal
  BY <1>1 DEF Report, UpdateStatus, Terminal, Go
<1>2. ASSUME NEW e \in Request, Park(e) \/ Fail(e) PROVE Goal
  BY <1>2 DEF Park, Fail, UpdateStatus, Terminal
<1>3. ASSUME NEW e \in Request, Load(e) PROVE Goal
  BY <1>3 DEF Load
<1>4. ASSUME NEW e \in Request, EnterLoop(e) \/ EndLoop(e) \/ PauseLoop(e)
   PROVE Goal
  BY <1>4 DEF EnterLoop, EndLoop, PauseLoop, Go
<1>5. CASE FailDenied \/ CancelWorkOrder \/ Feedback
  BY <1>5 DEF FailDenied, CancelWorkOrder, Feedback, UpdateStatus, Terminal,
     requestVars
<1>6. ASSUME NEW e \in Request, Reject(e) \/ LoadDirect(e) \/ Find(e) \/
   CheckDigest(e) \/ Present(e) \/ Consume(e) \/ Unconfigured(e) \/ OpenSession(e) \/
   CreateRun(e) \/ CheckLane(e) \/ ClaimLane(e) \/ BindWorker(e) \/
   Prepare(e) \/ HarnessError(e) \/ Resume(e) \/ BreakLoop(e) \/
   RecordRun(e) \/ CloseSession(e) \/ ReleaseLane(e) \/ FailRun(e) \/
   FailSession(e) \/ FailLane(e) \/ Vanish(e) \/ Decide(e) \/ Approve(e) \/ Deny(e) PROVE
   Goal
  BY <1>6 DEF Reject, LoadDirect, Find, CheckDigest, Present, Consume, Unconfigured,
     OpenSession, CreateRun, CheckLane, ClaimLane, BindWorker, Prepare,
     HarnessError, Resume, BreakLoop, RecordRun, CloseSession, ReleaseLane,
     FailRun, FailSession, FailLane, Vanish, Decide, Approve, Deny, requestVars
<1>7. CASE CancelWorker \/ CancelReadSession \/ CancelReadRun \/ CancelRun
   \/ CancelEvict \/ CancelSession \/ CancelSignal \/ RebindWorker \/ Tick
   \/ UNCHANGED vars
  BY <1>7 DEF CancelWorker, CancelReadSession, CancelReadRun, CancelRun,
     CancelEvict, CancelSession, CancelSignal, RebindWorker, Tick, vars,
     requestVars
<1> QED
  BY <1>1, <1>2, <1>3, <1>4, <1>5, <1>6, <1>7 DEF Next, RequestSteps, CancelSteps

(* A released run stays released. *)
LEMMA ReleasedStays ==
  ASSUME TypeInv, [Next]_vars, NEW e \in Request, phase[e] = "released"
  PROVE  phase'[e] = "released"
<1>1. [L!LaneNext]_laneVars
  BY LaneStep
<1> USE DEF TypeInv, TypeOK, L!LaneTypeOK
<1>2. ASSUME NEW r \in Request, L!Check(r) \/ L!Claim(r) \/ L!Release(r)
      PROVE phase'[e] = "released"
  BY <1>2 DEF L!Check, L!Claim, L!Release
<1>3. ASSUME NEW r \in Request, L!GiveUp(r) \/ L!Abandon(r) \/ L!Evict(r)
      PROVE phase'[e] = "released"
  BY <1>3 DEF L!GiveUp, L!Abandon, L!Evict
<1>4. CASE L!Lapse \/ UNCHANGED laneVars
  BY <1>4 DEF L!Lapse, laneVars
<1> QED
  BY <1>1, <1>2, <1>3, <1>4 DEF L!LaneNext

(* A Completed work order has a run that completed undisturbed: what release
   reports about the lane decides what the work order may become. *)
THEOREM CompletionNeedsSoloRun == Spec => []CompletedWorkOrderHasSoloRun
<1>1. Init => ReportersReleased /\ CompletedWorkOrderHasSoloRun
  BY DEF Init, L!LaneInit, ReportersReleased, CompletedWorkOrderHasSoloRun
<1>2. TypeInv /\ ReportersReleased /\ LP!LaneInv /\ LP!LaneInv'
        /\ CompletedWorkOrderHasSoloRun /\ [Next]_vars
          => CompletedWorkOrderHasSoloRun'
  <2> SUFFICES ASSUME TypeInv, ReportersReleased, LP!LaneInv, LP!LaneInv',
                      CompletedWorkOrderHasSoloRun, [Next]_vars, wo' = "Completed"
               PROVE  \E e \in Request \ disturbed' :
                        outcome'[e] = "Completed" /\ phase'[e] = "released"
    BY DEF CompletedWorkOrderHasSoloRun
  <2>1. PICK e \in Request : outcome[e] = "Completed" /\ phase[e] = "released"
    <3>1. CASE wo = "Completed"
      BY <3>1 DEF CompletedWorkOrderHasSoloRun
    <3>2. CASE \E f \in Request : pc[f] = "report" /\ outcome[f] = "Completed"
      BY <3>2 DEF ReportersReleased
    <3> QED
      BY <3>1, <3>2, CompletionStep
  <2>2. outcome'[e] = "Completed" /\ phase'[e] = "released"
    BY <2>1, CompletionStep, ReleasedStays
  <2>3. e \notin disturbed'
    BY <2>2 DEF LP!LaneInv, LP!ReleasedRunsWereUndisturbed
  <2> QED
    BY <2>2, <2>3
<1> QED
  BY <1>1, <1>2, ReportersReleasedStep, LaneInvHolds, TypeInvHolds, PTL DEF Spec

-----------------------------------------------------------------------------
(* A doomed run is still marked Cancelled when its loop looks, so the loop is
   never entered. *)
DoomedNeverLoop ==
  \A e \in doomed :
    /\ pc[e] \in BeforeLoop => run[e] = "Cancelled"
    /\ pc[e] \notin {"idle", "park", "find", "digest", "consume", "spend", "start", "create", "loop"}
    /\ outcome[e] \in {"Cancelled", None}


LEMMA DoomedNeverLoopStep ==
  TypeInv /\ DoomedNeverLoop /\ [Next]_vars => DoomedNeverLoop'
<1> SUFFICES ASSUME TypeInv, DoomedNeverLoop, [Next]_vars PROVE DoomedNeverLoop'
  OBVIOUS
<1> USE DEF TypeInv, TypeOK, DoomedNeverLoop, BeforeLoop, Steps
<1>1. ASSUME NEW e \in Request, Load(e) PROVE DoomedNeverLoop'
  <2>1. pc[e] = "idle" /\ run' = run /\ doomed' = doomed /\ outcome' = outcome
    BY <1>1 DEF Load, Go, sessionVars, cancelVars
  <2>2. PICK t \in Steps : pc' = [pc EXCEPT ![e] = t]
    BY <1>1 DEF Load, Go
  <2> QED
    BY <2>1, <2>2
<1>2. ASSUME NEW e \in Request, LoadDirect(e) \/ Find(e) \/ CheckDigest(e)
   \/ Present(e) \/ Consume(e) PROVE DoomedNeverLoop'
  BY <1>2 DEF LoadDirect, Find, CheckDigest, Present, Consume, Go, sessionVars,
     cancelVars
<1>3. ASSUME NEW e \in Request, CreateRun(e) \/ CheckLane(e) \/ Resume(e) \/
   ReleaseLane(e) PROVE DoomedNeverLoop'
  BY <1>3 DEF CreateRun, CheckLane, Resume, ReleaseLane, Go, sessionVars,
     cancelVars
<1>4. ASSUME NEW e \in Request, EnterLoop(e) PROVE DoomedNeverLoop'
  BY <1>4 DEF EnterLoop, IsRunCancelled, Go, sessionVars, cancelVars
<1>5. ASSUME NEW e \in Request, EndLoop(e) \/ PauseLoop(e) PROVE
   DoomedNeverLoop'
  BY <1>5 DEF EndLoop, PauseLoop, Go, sessionVars, cancelVars
<1>6. ASSUME NEW e \in Request, RecordRun(e) \/ FailRun(e) \/ Vanish(e)
   PROVE DoomedNeverLoop'
  BY <1>6 DEF RecordRun, FailRun, Vanish, Go, sessionVars, cancelVars
<1>7. CASE CancelRun
  BY <1>7 DEF CancelRun, CancelGo, CancelHasTarget, CarriesItsInputs,
     requestVars
<1>8. CASE CancelWorker \/ CancelReadSession \/ CancelReadRun \/ CancelEvict
   \/ CancelSession \/ CancelSignal
  BY <1>8 DEF CancelWorker, CancelReadSession, CancelReadRun, CancelEvict,
     CancelSession, CancelSignal, sessionVars, requestVars
<1>9. ASSUME NEW e \in Request, Reject(e) \/ Park(e) \/ Unconfigured(e) \/
   OpenSession(e) \/ ClaimLane(e) \/ BindWorker(e) \/ Prepare(e) \/
   HarnessError(e) \/ BreakLoop(e) \/ CloseSession(e) \/ FailSession(e) \/
   FailLane(e) \/ Report(e) \/ Fail(e) \/ Decide(e) \/ Approve(e) \/ Deny(e) PROVE
   DoomedNeverLoop'
  BY <1>9 DEF Reject, Park, Unconfigured, OpenSession, ClaimLane,
     BindWorker, Prepare, HarnessError, BreakLoop, CloseSession,
     FailSession, FailLane, Report, Fail, Decide, Approve, Deny, Go, sessionVars,
     requestVars, cancelVars
<1>10. CASE FailDenied \/ CancelWorkOrder \/ Feedback \/ RebindWorker \/
   Tick \/ UNCHANGED vars
  BY <1>10 DEF FailDenied, CancelWorkOrder, Feedback, RebindWorker, Tick,
     vars, Go, sessionVars, requestVars, cancelVars
<1> QED
  BY <1>1, <1>2, <1>3, <1>4, <1>5, <1>6, <1>7, <1>8, <1>9, <1>10 DEF Next, RequestSteps, CancelSteps

(* A cancel that comes before a run's loop is obeyed, even if its token is
   signalled late or the server forgets it, and whatever other requests of the
   work order do to the session meanwhile. *)
THEOREM EarlyCancelStops == Spec => []EarlyCancelIsObeyed
<1>1. Init => DoomedNeverLoop
  BY DEF Init, DoomedNeverLoop
<1>2. DoomedNeverLoop => EarlyCancelIsObeyed
  BY DEF DoomedNeverLoop, EarlyCancelIsObeyed
<1> QED
  BY <1>1, <1>2, DoomedNeverLoopStep, TypeInvHolds, PTL DEF Spec

=============================================================================
