--------------------------- MODULE Builds_proofs ---------------------------
(***************************************************************************)
(* Machine-checked proofs about Builds, for any set of rows, lanes, kinds  *)
(* of request, drains and callers, and for any bounds: the types, and that *)
(* two pushes never run in one lane.                                       *)
(*                                                                         *)
(* Both follow from the inductive invariant IInv of Builds.  TypedStep     *)
(* shows that a step preserves the types and RefsExist, LockStep that it   *)
(* preserves the conjuncts about start transactions.                       *)
(***************************************************************************)
EXTENDS Builds, FiniteSetTheorems, TLAPS

(* The count of running spot builds is a number: there are finitely many rows. *)
LEMMA SpotCount == RunningSpotBuilds \in Nat
<1>1. IsFiniteSet({q \in Pipelines : status[q] = "running" /\ request[q].spot})
  BY FS_Subset, PipelinesAssumption
<1> QED
  BY <1>1, FS_CardinalityType DEF RunningSpotBuilds

LEMMA InitInv == Init => IInv
<1> SUFFICES ASSUME Init PROVE IInv
  OBVIOUS
<1>1. TypeOK
  <2>1. RowsTypeOK
    BY BoundsAssumption DEF Init, RowsInit, RowsTypeOK, PipelineStatus, RunStates
  <2>2. SchedTypeOK
    BY FaultsAssumption DEF Init, SchedInit, SchedTypeOK, Steps, IdleDrain
  <2>3. CallTypeOK
    BY DeliveriesAssumption
    DEF Init, CallInit, CallTypeOK, Calls, NoCall, NoCancel, PipelineStatus, Results
  <2> QED
    BY <2>1, <2>2, <2>3 DEF TypeOK
<1>2. RefsExist
  BY DEF Init, RowsInit, SchedInit, CallInit, RefsExist, IdleDrain, NoCancel, NoCall, Starting
<1>3. LocksHold /\ PushPrepared
  BY DEF Init, RowsInit, SchedInit, LocksHold, PushPrepared, Starting, Running, Push,
         Exists, IdleDrain
<1>4. StartsSeeEachOther /\ StartsSeeRunning /\ LaneExclusive
  BY DEF Init, RowsInit, SchedInit, StartsSeeEachOther, StartsSeeRunning, LaneExclusive,
         Starting, Running, Push, Exists
<1> QED
  BY <1>1, <1>2, <1>3, <1>4 DEF IInv

(* The next phase of a status callback is one, for the same row. *)
LEMMA AfterStatusTyped ==
  ASSUME NEW k \in Calls
  PROVE  AfterStatus(k) \in Calls
<1>1. NoCall \in Calls
  BY DEF NoCall, Calls, Results, PipelineStatus
<1>2. [k EXCEPT !.phase = "retry"] \in Calls /\ [k EXCEPT !.phase = "commit"] \in Calls
  BY DEF Calls
<1> QED
  BY <1>1, <1>2 DEF AfterStatus

(***************************************************************************)
(* Every step preserves the types and the existence of the rows handlers   *)
(* hold on to.                                                             *)
(***************************************************************************)
LEMMA TypedStep ==
  ASSUME IInv, [Next]_vars
  PROVE  TypeOK' /\ RefsExist'
<1> USE DEF IInv, TypeOK, RowsTypeOK, SchedTypeOK, CallTypeOK, RefsExist, rowVars, outVars,
        schedVars, callVars, Exists, Starting
<1>1. ASSUME NEW p \in Pipelines, NEW r \in TestRequests \cup ProdRequests, Create(p, r), UNCHANGED callVars
      PROVE  TypeOK' /\ RefsExist'
  <2>1. RowsTypeOK'
    BY <1>1, RequestsAssumption DEF Create, InsertRow, Goto, FirstStep, NextRow, PipelineStatus, RunStates, Request, TestKinds, ProdKinds
  <2>2. SchedTypeOK'
    BY <1>1, RequestsAssumption DEF Create, InsertRow, Goto, FirstStep, NextRow, Steps
  <2>3. CallTypeOK'
    BY <1>1, RequestsAssumption DEF Create, InsertRow, Goto, FirstStep, NextRow, Calls, PipelineStatus
  <2>4. RefsExist'
    BY <1>1, RequestsAssumption DEF Create, InsertRow, Goto, FirstStep, NextRow
  <2> QED
    BY <2>1, <2>2, <2>3, <2>4
<1>2. ASSUME NEW p \in Pipelines, Prepare(p), UNCHANGED callVars
      PROVE  TypeOK' /\ RefsExist'
  <2>1. RowsTypeOK'
    BY <1>2 DEF Prepare, Goto, PipelineStatus, RunStates
  <2>2. SchedTypeOK'
    BY <1>2 DEF Prepare, Goto, Steps
  <2>3. CallTypeOK'
    BY <1>2 DEF Prepare, Goto, Calls, PipelineStatus
  <2>4. RefsExist'
    BY <1>2 DEF Prepare, Goto
  <2> QED
    BY <2>1, <2>2, <2>3, <2>4
<1>3. ASSUME NEW p \in Pipelines, SupersedeQuery(p), UNCHANGED callVars
      PROVE  TypeOK' /\ RefsExist'
  <2>1. RowsTypeOK'
    BY <1>3 DEF SupersedeQuery, Goto, LiveRows, SameLane, InLane, PipelineStatus, RunStates
  <2>2. SchedTypeOK'
    BY <1>3 DEF SupersedeQuery, Goto, LiveRows, SameLane, InLane, Steps
  <2>3. CallTypeOK'
    BY <1>3 DEF SupersedeQuery, Goto, LiveRows, SameLane, InLane, Calls, PipelineStatus
  <2>4. RefsExist'
    BY <1>3 DEF SupersedeQuery, Goto, LiveRows, SameLane, InLane
  <2> QED
    BY <2>1, <2>2, <2>3, <2>4
<1>4. ASSUME NEW p \in Pipelines, SupersedeLock(p), UNCHANGED callVars
      PROVE  TypeOK' /\ RefsExist'
  <2>1. RowsTypeOK'
    BY <1>4 DEF SupersedeLock, Goto, AfterSupersede, SetStatus, CancelPipelines, LiveRows, Live, WithBuild, WithRun, PipelineStatus, RunStates
  <2>2. SchedTypeOK'
    <3>1. claimed' \in [Pipelines -> SUBSET Pipelines]
      BY <1>4 DEF SupersedeLock, LiveRows
    <3>2. step' \in [Pipelines -> Steps]
      BY <1>4 DEF SupersedeLock, Goto, AfterSupersede, Steps
    <3> QED
      BY <1>4, <3>1, <3>2 DEF SupersedeLock
  <2>3. CallTypeOK'
    BY <1>4 DEF SupersedeLock, Goto, AfterSupersede, SetStatus, CancelPipelines, LiveRows, Live, WithBuild, WithRun, Calls, PipelineStatus
  <2>4. RefsExist'
    BY <1>4 DEF SupersedeLock, Goto, AfterSupersede, SetStatus, CancelPipelines, LiveRows, Live, WithBuild, WithRun
  <2> QED
    BY <2>1, <2>2, <2>3, <2>4
<1>5. ASSUME NEW p \in Pipelines, SupersedeCommit(p), UNCHANGED callVars
      PROVE  TypeOK' /\ RefsExist'
  <2>1. RowsTypeOK'
    BY <1>5 DEF SupersedeCommit, Goto, AfterSupersede, SetStatus, PipelineStatus, RunStates
  <2>2. SchedTypeOK'
    BY <1>5 DEF SupersedeCommit, Goto, AfterSupersede, SetStatus, Steps
  <2>3. CallTypeOK'
    BY <1>5 DEF SupersedeCommit, Goto, AfterSupersede, SetStatus, Calls, PipelineStatus
  <2>4. RefsExist'
    BY <1>5 DEF SupersedeCommit, Goto, AfterSupersede, SetStatus
  <2> QED
    BY <2>1, <2>2, <2>3, <2>4
<1>6. ASSUME NEW p \in Pipelines, QueueCheck(p), UNCHANGED callVars
      PROVE  TypeOK' /\ RefsExist'
  <2>1. RowsTypeOK'
    BY <1>6 DEF QueueCheck, Goto, PipelineStatus, RunStates
  <2>2. SchedTypeOK'
    BY <1>6 DEF QueueCheck, Goto, Steps
  <2>3. CallTypeOK'
    BY <1>6 DEF QueueCheck, Goto, Calls, PipelineStatus
  <2>4. RefsExist'
    BY <1>6 DEF QueueCheck, Goto
  <2> QED
    BY <2>1, <2>2, <2>3, <2>4
<1>7. ASSUME NEW p \in Pipelines, CreatorStarts(p), UNCHANGED callVars
      PROVE  TypeOK' /\ RefsExist'
  <2>1. RowsTypeOK'
    BY <1>7 DEF CreatorStarts, BeginStart, Startable, StartRivals, LiveRows, SameLane, InLane, CancelPipelines, WithBuild, WithRun, Goto, PipelineStatus, RunStates
  <2>2. SchedTypeOK'
    BY <1>7 DEF CreatorStarts, BeginStart, Startable, StartRivals, LiveRows, SameLane, InLane, CancelPipelines, WithBuild, WithRun, Goto, Steps
  <2>3. CallTypeOK'
    BY <1>7 DEF CreatorStarts, BeginStart, Startable, StartRivals, LiveRows, SameLane, InLane, CancelPipelines, WithBuild, WithRun, Goto, Calls, PipelineStatus
  <2>4. RefsExist'
    BY <1>7 DEF CreatorStarts, BeginStart, Startable, StartRivals, LiveRows, SameLane, InLane, CancelPipelines, WithBuild, WithRun, Goto
  <2> QED
    BY <2>1, <2>2, <2>3, <2>4
<1>8. ASSUME NEW p \in Pipelines, CreatorRefused(p), UNCHANGED callVars
      PROVE  TypeOK' /\ RefsExist'
  <2>1. RowsTypeOK'
    BY <1>8 DEF CreatorRefused, Goto, PipelineStatus, RunStates
  <2>2. SchedTypeOK'
    BY <1>8 DEF CreatorRefused, Goto, Steps
  <2>3. CallTypeOK'
    BY <1>8 DEF CreatorRefused, Goto, Calls, PipelineStatus
  <2>4. RefsExist'
    BY <1>8 DEF CreatorRefused, Goto
  <2> QED
    BY <2>1, <2>2, <2>3, <2>4
<1>9. ASSUME NEW p \in Pipelines, StartDispatch(p), UNCHANGED callVars
      PROVE  TypeOK' /\ RefsExist'
  <2>1. RowsTypeOK'
    BY <1>9 DEF StartDispatch, PipelineStatus, RunStates
  <2>2. SchedTypeOK'
    BY <1>9 DEF StartDispatch, Steps
  <2>3. CallTypeOK'
    BY <1>9 DEF StartDispatch, Calls, PipelineStatus
  <2>4. RefsExist'
    BY <1>9 DEF StartDispatch
  <2> QED
    BY <2>1, <2>2, <2>3, <2>4
<1>10. ASSUME NEW p \in Pipelines, StartFail(p), UNCHANGED callVars
      PROVE  TypeOK' /\ RefsExist'
  <2>1. RowsTypeOK'
    BY <1>10 DEF StartFail, EndStart, CapacityLeft, PipelineStatus, RunStates
  <2>2. SchedTypeOK'
    BY <1>10 DEF StartFail, EndStart, CapacityLeft, Steps
  <2>3. CallTypeOK'
    BY <1>10 DEF StartFail, EndStart, CapacityLeft, Calls, PipelineStatus
  <2>4. RefsExist'
    BY <1>10 DEF StartFail, EndStart, CapacityLeft
  <2> QED
    BY <2>1, <2>2, <2>3, <2>4
<1>11. ASSUME NEW p \in Pipelines, StartCommit(p), UNCHANGED callVars
      PROVE  TypeOK' /\ RefsExist'
  <2>1. RowsTypeOK'
    BY <1>11 DEF StartCommit, EndStart, CapacityLeft, Provider, PipelineStatus, RunStates
  <2>2. SchedTypeOK'
    BY <1>11 DEF StartCommit, EndStart, CapacityLeft, Steps
  <2>3. CallTypeOK'
    BY <1>11 DEF StartCommit, EndStart, CapacityLeft, Calls, PipelineStatus
  <2>4. RefsExist'
    BY <1>11 DEF StartCommit, EndStart, CapacityLeft
  <2> QED
    BY <2>1, <2>2, <2>3, <2>4
<1>12. ASSUME NEW p \in Pipelines, StartDeadlock(p), UNCHANGED callVars
      PROVE  TypeOK' /\ RefsExist'
  <2>1. RowsTypeOK'
    BY <1>12 DEF StartDeadlock, EndStart, CapacityLeft, PipelineStatus, RunStates
  <2>2. SchedTypeOK'
    BY <1>12 DEF StartDeadlock, EndStart, CapacityLeft, Steps
  <2>3. CallTypeOK'
    BY <1>12 DEF StartDeadlock, EndStart, CapacityLeft, Calls, PipelineStatus
  <2>4. RefsExist'
    BY <1>12 DEF StartDeadlock, EndStart, CapacityLeft
  <2> QED
    BY <2>1, <2>2, <2>3, <2>4
<1>13. ASSUME NEW p \in Pipelines, LoseReply(p), UNCHANGED callVars
      PROVE  TypeOK' /\ RefsExist'
  <2>1. RowsTypeOK'
    BY <1>13, FaultsAssumption DEF LoseReply, PipelineStatus, RunStates
  <2>2. SchedTypeOK'
    BY <1>13, FaultsAssumption DEF LoseReply, Steps
  <2>3. CallTypeOK'
    BY <1>13, FaultsAssumption DEF LoseReply, Calls, PipelineStatus
  <2>4. RefsExist'
    BY <1>13, FaultsAssumption DEF LoseReply
  <2> QED
    BY <2>1, <2>2, <2>3, <2>4
<1>14. ASSUME NEW p \in Pipelines, DebounceExpires(p), UNCHANGED callVars
      PROVE  TypeOK' /\ RefsExist'
  <2>1. RowsTypeOK'
    BY <1>14 DEF DebounceExpires, PipelineStatus, RunStates
  <2>2. SchedTypeOK'
    BY <1>14 DEF DebounceExpires, Steps
  <2>3. CallTypeOK'
    BY <1>14 DEF DebounceExpires, Calls, PipelineStatus
  <2>4. RefsExist'
    BY <1>14 DEF DebounceExpires
  <2> QED
    BY <2>1, <2>2, <2>3, <2>4
<1>15. ASSUME NEW d \in Drains, DrainBegin(d), UNCHANGED callVars
      PROVE  TypeOK' /\ RefsExist'
  <2>1. RowsTypeOK'
    BY <1>15, SpotCount, BoundsAssumption DEF DrainBegin, DueRows, CanStartSpot, PipelineStatus, RunStates
  <2>2. SchedTypeOK'
    BY <1>15, SpotCount, BoundsAssumption DEF DrainBegin, DueRows, CanStartSpot, Steps
  <2>3. CallTypeOK'
    BY <1>15, SpotCount, BoundsAssumption DEF DrainBegin, DueRows, CanStartSpot, Calls, PipelineStatus
  <2>4. RefsExist'
    BY <1>15, SpotCount, BoundsAssumption DEF DrainBegin, DueRows, CanStartSpot
  <2> QED
    BY <2>1, <2>2, <2>3, <2>4
<1>16. ASSUME NEW d \in Drains, NEW p \in Pipelines, DrainStarts(d, p), UNCHANGED callVars
      PROVE  TypeOK' /\ RefsExist'
  <2>1. RowsTypeOK'
    BY <1>16 DEF DrainStarts, NextDue, BeginStart, Startable, StartRivals, LiveRows, SameLane, InLane, CancelPipelines, WithBuild, WithRun, PipelineStatus, RunStates
  <2>2. SchedTypeOK'
    <3>1. drain' \in [Drains -> [todo : SUBSET Pipelines,
                                 current : Pipelines \cup {0},
                                 capacity : Nat]]
      BY <1>16 DEF DrainStarts
    <3>2. conflicts' \in [Pipelines -> SUBSET Pipelines]
      BY <1>16 DEF DrainStarts, BeginStart, StartRivals, LiveRows, SameLane, InLane
    <3>3. tx' \in [Pipelines -> {"none", "begun", "dispatched"}]
      BY <1>16 DEF DrainStarts, BeginStart
    <3> QED
      BY <1>16, <3>1, <3>2, <3>3 DEF DrainStarts, BeginStart
  <2>3. CallTypeOK'
    BY <1>16 DEF DrainStarts, NextDue, BeginStart, Startable, StartRivals, LiveRows, SameLane, InLane, CancelPipelines, WithBuild, WithRun, Calls, PipelineStatus
  <2>4. RefsExist'
    BY <1>16 DEF DrainStarts, NextDue, BeginStart, Startable, StartRivals, LiveRows, SameLane, InLane, CancelPipelines, WithBuild, WithRun
  <2> QED
    BY <2>1, <2>2, <2>3, <2>4
<1>17. ASSUME NEW d \in Drains, NEW p \in Pipelines, DrainSkips(d, p), UNCHANGED callVars
      PROVE  TypeOK' /\ RefsExist'
  <2>1. RowsTypeOK'
    BY <1>17 DEF DrainSkips, NextDue, PipelineStatus, RunStates
  <2>2. SchedTypeOK'
    BY <1>17 DEF DrainSkips, NextDue, Steps
  <2>3. CallTypeOK'
    BY <1>17 DEF DrainSkips, NextDue, Calls, PipelineStatus
  <2>4. RefsExist'
    BY <1>17 DEF DrainSkips, NextDue
  <2> QED
    BY <2>1, <2>2, <2>3, <2>4
<1>18. ASSUME NEW l \in TestLanes, CancelPendingPr(l), UNCHANGED callVars
      PROVE  TypeOK' /\ RefsExist'
  <2>1. RowsTypeOK'
    BY <1>18 DEF CancelPendingPr, SetStatus, InLane, PipelineStatus, RunStates
  <2>2. SchedTypeOK'
    BY <1>18 DEF CancelPendingPr, SetStatus, InLane, Steps
  <2>3. CallTypeOK'
    BY <1>18 DEF CancelPendingPr, SetStatus, InLane, Calls, PipelineStatus
  <2>4. RefsExist'
    BY <1>18 DEF CancelPendingPr, SetStatus, InLane
  <2> QED
    BY <2>1, <2>2, <2>3, <2>4
<1>19. ASSUME NEW l \in TestLanes, RefreshExplicit(l), UNCHANGED callVars
      PROVE  TypeOK' /\ RefsExist'
  <2>1. RowsTypeOK'
    BY <1>19, BoundsAssumption DEF RefreshExplicit, ExplicitPending, SetStatus, InLane, PipelineStatus, RunStates
  <2>2. SchedTypeOK'
    BY <1>19, BoundsAssumption DEF RefreshExplicit, ExplicitPending, SetStatus, InLane, Steps
  <2>3. CallTypeOK'
    BY <1>19, BoundsAssumption DEF RefreshExplicit, ExplicitPending, SetStatus, InLane, Calls, PipelineStatus
  <2>4. RefsExist'
    BY <1>19, BoundsAssumption DEF RefreshExplicit, ExplicitPending, SetStatus, InLane
  <2> QED
    BY <2>1, <2>2, <2>3, <2>4
<1>20. ASSUME NEW l \in TestLanes, RefreshInvalid(l), UNCHANGED callVars
      PROVE  TypeOK' /\ RefsExist'
  <2>1. RowsTypeOK'
    BY <1>20 DEF RefreshInvalid, ExplicitPending, SetStatus, InLane, PipelineStatus, RunStates
  <2>2. SchedTypeOK'
    BY <1>20 DEF RefreshInvalid, ExplicitPending, SetStatus, InLane, Steps
  <2>3. CallTypeOK'
    BY <1>20 DEF RefreshInvalid, ExplicitPending, SetStatus, InLane, Calls, PipelineStatus
  <2>4. RefsExist'
    BY <1>20 DEF RefreshInvalid, ExplicitPending, SetStatus, InLane
  <2> QED
    BY <2>1, <2>2, <2>3, <2>4
<1>21. ASSUME NEW p \in Pipelines, RunEnds(p)
      PROVE  TypeOK' /\ RefsExist'
  <2>1. RowsTypeOK'
    <3>1. PICK r \in Results : run' = [run EXCEPT ![p] = r]
      BY <1>21 DEF RunEnds
    <3>2. r \in RunStates
      BY DEF Results, RunStates
    <3>3. run' \in [Pipelines -> RunStates]
      BY <3>1, <3>2
    <3> QED
      BY <1>21, <3>3 DEF RunEnds
  <2>2. SchedTypeOK'
    BY <1>21 DEF RunEnds, Steps
  <2>3. CallTypeOK'
    BY <1>21 DEF RunEnds, Calls, PipelineStatus
  <2>4. RefsExist'
    <3>1. UNCHANGED <<status, request, tx, claimed, conflicts, drain, botCancel, timingOut, call>>
      BY <1>21 DEF RunEnds
    <3>2. \A q \in Pipelines : run'[q] # "none" => run[q] # "none"
      BY <1>21 DEF RunEnds
    <3> QED
      BY <3>1, <3>2
  <2> QED
    BY <2>1, <2>2, <2>3, <2>4
<1>22. ASSUME NEW p \in Pipelines, TimeoutRead(p)
      PROVE  TypeOK' /\ RefsExist'
  <2>1. RowsTypeOK'
    BY <1>22 DEF TimeoutRead, PipelineStatus, RunStates
  <2>2. SchedTypeOK'
    BY <1>22 DEF TimeoutRead, Steps
  <2>3. CallTypeOK'
    BY <1>22 DEF TimeoutRead, Calls, PipelineStatus
  <2>4. RefsExist'
    BY <1>22 DEF TimeoutRead
  <2> QED
    BY <2>1, <2>2, <2>3, <2>4
<1>23. ASSUME NEW p \in Pipelines, TimeoutWrite(p)
      PROVE  TypeOK' /\ RefsExist'
  <2>1. RowsTypeOK'
    BY <1>23 DEF TimeoutWrite, SetStatus, PipelineStatus, RunStates
  <2>2. SchedTypeOK'
    BY <1>23 DEF TimeoutWrite, SetStatus, Steps
  <2>3. CallTypeOK'
    BY <1>23 DEF TimeoutWrite, SetStatus, Calls, PipelineStatus
  <2>4. RefsExist'
    BY <1>23 DEF TimeoutWrite, SetStatus
  <2> QED
    BY <2>1, <2>2, <2>3, <2>4
<1>24. ASSUME NEW p \in Pipelines, TimeoutKeep(p)
      PROVE  TypeOK' /\ RefsExist'
  <2>1. RowsTypeOK'
    BY <1>24 DEF TimeoutKeep, PipelineStatus, RunStates
  <2>2. SchedTypeOK'
    BY <1>24 DEF TimeoutKeep, Steps
  <2>3. CallTypeOK'
    BY <1>24 DEF TimeoutKeep, Calls, PipelineStatus
  <2>4. RefsExist'
    BY <1>24 DEF TimeoutKeep
  <2> QED
    BY <2>1, <2>2, <2>3, <2>4
<1>25. ASSUME NEW p \in Pipelines, ExpireStale(p)
      PROVE  TypeOK' /\ RefsExist'
  <2>1. RowsTypeOK'
    BY <1>25 DEF ExpireStale, SetStatus, PipelineStatus, RunStates
  <2>2. SchedTypeOK'
    BY <1>25 DEF ExpireStale, SetStatus, Steps
  <2>3. CallTypeOK'
    BY <1>25 DEF ExpireStale, SetStatus, Calls, PipelineStatus
  <2>4. RefsExist'
    BY <1>25 DEF ExpireStale, SetStatus
  <2> QED
    BY <2>1, <2>2, <2>3, <2>4
<1>26. ASSUME NEW c \in Callers, NEW p \in Pipelines, StatusRead(c, p)
      PROVE  TypeOK' /\ RefsExist'
  <2>1. RowsTypeOK'
    BY <1>26, DeliveriesAssumption DEF StatusRead, Finalized, Results, PipelineStatus, RunStates
  <2>2. SchedTypeOK'
    BY <1>26, DeliveriesAssumption DEF StatusRead, Finalized, Results, Steps
  <2>3. CallTypeOK'
    <3>1. PICK infra \in BOOLEAN :
            call' = [call EXCEPT ![c] =
              [phase |-> "status", row |-> p, seen |-> status[p],
               value |-> run[p], infra |-> infra, build |-> buildId[p], known |-> {}]]
      BY <1>26 DEF StatusRead
    <3>2. run[p] \in Results /\ status[p] \in PipelineStatus /\ buildId[p] \in BOOLEAN
      BY <1>26 DEF StatusRead
    <3>3. call' \in [Callers -> Calls]
      BY <3>1, <3>2 DEF Calls
    <3>4. Exists(p)
      BY <1>26 DEF StatusRead, Results
    <3> QED
      BY <1>26, <3>1, <3>3, <3>4, DeliveriesAssumption DEF StatusRead
  <2>4. RefsExist'
    BY <1>26, DeliveriesAssumption DEF StatusRead, Finalized, Results
  <2> QED
    BY <2>1, <2>2, <2>3, <2>4
<1>27. ASSUME NEW c \in Callers, NEW p \in Pipelines, LogRead(c, p)
      PROVE  TypeOK' /\ RefsExist'
  <2>1. RowsTypeOK'
    BY <1>27, DeliveriesAssumption DEF LogRead, NoCall, Results, PipelineStatus, RunStates
  <2>2. SchedTypeOK'
    BY <1>27, DeliveriesAssumption DEF LogRead, NoCall, Results, Steps
  <2>3. CallTypeOK'
    <3>1. status[p] \in PipelineStatus
      OBVIOUS
    <3>2. call' \in [Callers -> Calls]
      BY <1>27, <3>1 DEF LogRead, Calls, Results
    <3>3. Exists(p)
      BY <1>27 DEF LogRead
    <3> QED
      BY <1>27, <3>2, <3>3, DeliveriesAssumption DEF LogRead
  <2>4. RefsExist'
    BY <1>27, DeliveriesAssumption DEF LogRead, NoCall, Results
  <2> QED
    BY <2>1, <2>2, <2>3, <2>4
<1>28. ASSUME NEW c \in Callers, StatusWrite(c)
      PROVE  TypeOK' /\ RefsExist'
  <2>1. RowsTypeOK'
    BY <1>28 DEF StatusWrite, SetStatus, Outcome, AfterStatus, NoCall, Results, PipelineStatus, RunStates
  <2>2. SchedTypeOK'
    BY <1>28 DEF StatusWrite, SetStatus, Outcome, AfterStatus, NoCall, Results, Steps
  <2>3. CallTypeOK'
    <3>1. AfterStatus(call[c]) \in Calls
      <4>1. call[c] \in Calls
        OBVIOUS
      <4> QED
        BY <4>1, AfterStatusTyped
    <3>2. AfterStatus(call[c]).phase # "idle" => AfterStatus(call[c]).row = call[c].row
      BY DEF AfterStatus, Calls, NoCall
    <3>3. call' = [call EXCEPT ![c] = AfterStatus(call[c])]
      BY <1>28 DEF StatusWrite
    <3>4. \A q \in Pipelines : Exists(q) => Exists(q)'
      BY <1>28 DEF StatusWrite, SetStatus, Outcome
    <3>5. call[c].phase # "idle"
      BY <1>28 DEF StatusWrite
    <3> QED
      BY <1>28, <3>1, <3>2, <3>3, <3>4, <3>5 DEF StatusWrite
  <2>4. RefsExist'
    BY <1>28 DEF StatusWrite, SetStatus, Outcome, AfterStatus, NoCall, Results
  <2> QED
    BY <2>1, <2>2, <2>3, <2>4
<1>29. ASSUME NEW c \in Callers, CommitBuild(c)
      PROVE  TypeOK' /\ RefsExist'
  <2>1. RowsTypeOK'
    BY <1>29 DEF CommitBuild, NoCall, Results, PipelineStatus, RunStates
  <2>2. SchedTypeOK'
    BY <1>29 DEF CommitBuild, NoCall, Results, Steps
  <2>3. CallTypeOK'
    BY <1>29 DEF CommitBuild, NoCall, Results, Calls, PipelineStatus
  <2>4. RefsExist'
    BY <1>29 DEF CommitBuild, NoCall, Results
  <2> QED
    BY <2>1, <2>2, <2>3, <2>4
<1>30. ASSUME NEW c \in Callers, AutoRetry(c)
      PROVE  TypeOK' /\ RefsExist'
  <2>1. RowsTypeOK'
    <3>1. call[c].row \in Pipelines /\ Exists(call[c].row)
      BY <1>30 DEF AutoRetry
    <3>2. request[call[c].row] \in Request /\ request[call[c].row].lane \in ProdLanes
      BY <1>30, <3>1 DEF AutoRetry
    <3>3. RetryOf(request[call[c].row]) \in Request
      BY <3>2 DEF RetryOf, Request, ProdKinds, TestKinds
    <3>4. PICK p \in Pipelines : InsertRow(p, RetryOf(request[call[c].row]), 0)
      BY <1>30 DEF AutoRetry
    <3> QED
      BY <1>30, <3>3, <3>4, BoundsAssumption DEF AutoRetry, InsertRow, PipelineStatus
  <2>2. SchedTypeOK'
    BY <1>30, LanesAssumption DEF AutoRetry, InsertRow, RetryOf, Goto, NextRow, NoCall, Results, Debounced, Steps
  <2>3. CallTypeOK'
    BY <1>30, LanesAssumption DEF AutoRetry, InsertRow, RetryOf, Goto, NextRow, NoCall, Results, Debounced, Calls, PipelineStatus
  <2>4. RefsExist'
    BY <1>30, LanesAssumption DEF AutoRetry, InsertRow, RetryOf, Goto, NextRow, NoCall, Results, Debounced
  <2> QED
    BY <2>1, <2>2, <2>3, <2>4
<1>31. ASSUME NEW c \in Callers, AutoRetryFails(c)
      PROVE  TypeOK' /\ RefsExist'
  <2>1. RowsTypeOK'
    BY <1>31 DEF AutoRetryFails, NoCall, Results, PipelineStatus, RunStates
  <2>2. SchedTypeOK'
    BY <1>31 DEF AutoRetryFails, NoCall, Results, Steps
  <2>3. CallTypeOK'
    BY <1>31 DEF AutoRetryFails, NoCall, Results, Calls, PipelineStatus
  <2>4. RefsExist'
    BY <1>31 DEF AutoRetryFails, NoCall, Results
  <2> QED
    BY <2>1, <2>2, <2>3, <2>4
<1>32. ASSUME NEW c \in Callers, LogWrite(c)
      PROVE  TypeOK' /\ RefsExist'
  <2>1. RowsTypeOK'
    <3>1. provider' \in [Pipelines -> SUBSET Provider]
      BY <1>32 DEF LogWrite, Calls, Provider
    <3> QED
      BY <1>32, <3>1 DEF LogWrite, CancelPipelines, PipelineStatus, RunStates
  <2>2. SchedTypeOK'
    BY <1>32 DEF LogWrite, CancelPipelines, NoCall, Results, Steps
  <2>3. CallTypeOK'
    BY <1>32 DEF LogWrite, CancelPipelines, NoCall, Results, Calls, PipelineStatus
  <2>4. RefsExist'
    BY <1>32 DEF LogWrite, CancelPipelines, NoCall, Results
  <2> QED
    BY <2>1, <2>2, <2>3, <2>4
<1>33. ASSUME NEW l \in TestLanes, BotCancelRead(l)
      PROVE  TypeOK' /\ RefsExist'
  <2>1. RowsTypeOK'
    BY <1>33 DEF BotCancelRead, InLane, WithBuild, WithRun, PipelineStatus, RunStates
  <2>2. SchedTypeOK'
    BY <1>33 DEF BotCancelRead, InLane, WithBuild, WithRun, Steps
  <2>3. CallTypeOK'
    BY <1>33 DEF BotCancelRead, InLane, WithBuild, WithRun, Calls, PipelineStatus
  <2>4. RefsExist'
    BY <1>33 DEF BotCancelRead, InLane, WithBuild, WithRun
  <2> QED
    BY <2>1, <2>2, <2>3, <2>4
<1>34. ASSUME BotCancelCommit
      PROVE  TypeOK' /\ RefsExist'
  <2>1. RowsTypeOK'
    BY <1>34 DEF BotCancelCommit, SetStatus, PipelineStatus, RunStates
  <2>2. SchedTypeOK'
    BY <1>34 DEF BotCancelCommit, SetStatus, Steps
  <2>3. CallTypeOK'
    BY <1>34 DEF BotCancelCommit, SetStatus, Calls, PipelineStatus
  <2>4. RefsExist'
    BY <1>34 DEF BotCancelCommit, SetStatus
  <2> QED
    BY <2>1, <2>2, <2>3, <2>4
<1>35. ASSUME BotCancelStop
      PROVE  TypeOK' /\ RefsExist'
  <2>1. RowsTypeOK'
    BY <1>35 DEF BotCancelStop, CancelPipelines, NoCancel, PipelineStatus, RunStates
  <2>2. SchedTypeOK'
    BY <1>35 DEF BotCancelStop, CancelPipelines, NoCancel, Steps
  <2>3. CallTypeOK'
    BY <1>35 DEF BotCancelStop, CancelPipelines, NoCancel, Calls, PipelineStatus
  <2>4. RefsExist'
    BY <1>35 DEF BotCancelStop, CancelPipelines, NoCancel
  <2> QED
    BY <2>1, <2>2, <2>3, <2>4
<1>36. ASSUME Crash
      PROVE  TypeOK' /\ RefsExist'
  <2>1. RowsTypeOK'
    BY <1>36, FaultsAssumption DEF Crash, IdleDrain, NoCall, NoCancel, Results, PipelineStatus, RunStates
  <2>2. SchedTypeOK'
    BY <1>36, FaultsAssumption DEF Crash, IdleDrain, NoCall, NoCancel, Results, Steps
  <2>3. CallTypeOK'
    BY <1>36, FaultsAssumption DEF Crash, IdleDrain, NoCall, NoCancel, Results, Calls, PipelineStatus
  <2>4. RefsExist'
    BY <1>36, FaultsAssumption DEF Crash, IdleDrain, NoCall, NoCancel, Results
  <2> QED
    BY <2>1, <2>2, <2>3, <2>4
<1>37. ASSUME UNCHANGED vars
      PROVE  TypeOK' /\ RefsExist'
  <2>1. RowsTypeOK'
    BY <1>37 DEF vars, PipelineStatus, RunStates
  <2>2. SchedTypeOK'
    BY <1>37 DEF vars, Steps
  <2>3. CallTypeOK'
    BY <1>37 DEF vars, Calls, PipelineStatus
  <2>4. RefsExist'
    BY <1>37 DEF vars
  <2> QED
    BY <2>1, <2>2, <2>3, <2>4
<1> HIDE DEF IInv, TypeOK, RowsTypeOK, SchedTypeOK, CallTypeOK, RefsExist
<1> QED
  BY <1>1, <1>2, <1>3, <1>4, <1>5, <1>6, <1>7, <1>8, <1>9, <1>10, <1>11, <1>12, <1>13, <1>14, <1>15, <1>16, <1>17, <1>18, <1>19, <1>20, <1>21, <1>22, <1>23, <1>24, <1>25, <1>26, <1>27, <1>28, <1>29, <1>30, <1>31, <1>32, <1>33, <1>34, <1>35, <1>36, <1>37
     DEF Next, SchedNext, CreateAny, CreatorStep, StartStep, DrainStep, CallbackNext, CallStep

-----------------------------------------------------------------------------
(* What an overlap of start transactions can do *)

LockInv == LocksHold /\ PushPrepared
StartInv == StartsSeeEachOther /\ StartsSeeRunning /\ LaneExclusive

(* A step that begins no start and makes no row run keeps the lanes exclusive. *)
LEMMA QuietStep ==
  ASSUME IInv, TypeOK',
         \A p \in Pipelines : Starting(p)' => Starting(p) /\ conflicts'[p] = conflicts[p],
         \A p \in Pipelines : Running(p)' => Running(p),
         \A p \in Pipelines : Exists(p) => request'[p] = request[p]
  PROVE  StartInv'
<1>1. \A p \in Pipelines : Starting(p)' \/ Running(p)' => Exists(p)
  BY DEF IInv, RefsExist, Running, Exists
<1>2. \A p \in Pipelines : Push(p)' /\ (Starting(p)' \/ Running(p)') => Push(p)
  BY <1>1 DEF Push
<1>3. StartsSeeEachOther'
  BY <1>1, <1>2 DEF IInv, StartsSeeEachOther
<1>4. StartsSeeRunning'
  BY <1>1, <1>2 DEF IInv, StartsSeeRunning
<1>5. LaneExclusive'
  BY <1>1 DEF IInv, LaneExclusive
<1> QED
  BY <1>3, <1>4, <1>5 DEF StartInv

(* A handler outside the scheduler only writes the status of rows no start holds. *)
LEMMA FreeWrite ==
  ASSUME IInv, TypeOK', UNCHANGED <<request, prepared, schedVars>>,
         \A p \in Pipelines : status'[p] = status[p]
           \/ (Exists(p) /\ ~Starting(p) /\ status'[p] # "running")
  PROVE  LockInv' /\ StartInv'
<1>1. LocksHold'
  BY DEF IInv, LocksHold, Starting, schedVars
<1>2. PushPrepared'
  BY DEF IInv, PushPrepared, Past, Push, Exists, Running, Starting, schedVars
<1>3. StartInv'
  BY QuietStep DEF Starting, Running, schedVars
<1> QED
  BY <1>1, <1>2, <1>3 DEF LockInv

(* The step at which a start reads its rivals sees every push of its lane *)
(* that is starting or running: each is live and prepared.                *)
LEMMA BeginSees ==
  ASSUME IInv, TypeOK', NEW p \in Pipelines, BeginStart(p)
  PROVE  StartInv'
<1> DEFINE Seen(q) == q # p /\ Push(q) /\ request[q].lane = request[p].lane
                        /\ (Starting(q) \/ Running(q))
<1>1. \A q \in Pipelines : Push(p) /\ Seen(q) => q \in conflicts'[p]
  <2> SUFFICES ASSUME NEW q \in Pipelines, Push(p), Seen(q)
               PROVE  q \in StartRivals(p)
    BY DEF BeginStart, IInv, TypeOK, SchedTypeOK
  <2>1. request[p].lane \in ProdLanes
    BY DEF IInv, TypeOK, RowsTypeOK, Push, Request, TestKinds, Exists
  <2>2. status[q] \in Live /\ prepared[q] /\ Exists(q)
    BY DEF IInv, LocksHold, PushPrepared, Live, Running, Push
  <2> QED
    BY <2>1, <2>2 DEF StartRivals, LiveRows, SameLane, InLane
<1>2. /\ UNCHANGED <<status, request>>
      /\ \A q \in Pipelines : q # p => tx'[q] = tx[q] /\ conflicts'[q] = conflicts[q]
  BY DEF BeginStart, IInv, TypeOK, SchedTypeOK, rowVars
<1>3. StartsSeeEachOther'
  BY <1>1, <1>2 DEF IInv, StartsSeeEachOther, Push, Exists, Starting
<1>4. StartsSeeRunning'
  BY <1>1, <1>2 DEF IInv, StartsSeeRunning, Push, Exists, Starting, Running
<1>5. LaneExclusive'
  BY <1>2 DEF IInv, LaneExclusive, Running
<1> QED
  BY <1>3, <1>4, <1>5 DEF StartInv

(* The commit of a start waits until none of its rivals is starting, so the *)
(* starts it leaves behind are those that have seen it.                     *)
LEMMA CommitExcludes ==
  ASSUME IInv, TypeOK', NEW p \in Pipelines, StartCommit(p)
  PROVE  StartInv'
<1>1. /\ UNCHANGED request
      /\ status'[p] = "running"
      /\ \A q \in Pipelines \ {p} :
           /\ tx'[q] = tx[q] /\ conflicts'[q] = conflicts[q]
           /\ status'[q] = IF q \in conflicts[p] THEN "superseded" ELSE status[q]
      /\ ~Starting(p)'
  BY DEF StartCommit, EndStart, IInv, TypeOK, RowsTypeOK, SchedTypeOK, Starting
<1>2. Starting(p) /\ Exists(p)
  BY DEF StartCommit, Starting, IInv, RefsExist
<1>3. \A q \in conflicts[p] : ~Starting(q)
  BY DEF StartCommit, AllFree, Locked, Starting
<1>4. \A q \in Pipelines : Exists(q)' => Exists(q)
  BY <1>1, <1>2 DEF IInv, RefsExist, Exists
<1>5. StartsSeeEachOther'
  BY <1>1, <1>4 DEF IInv, StartsSeeEachOther, Push, Starting
<1>6. StartsSeeRunning'
  <2> SUFFICES ASSUME NEW x \in Pipelines, NEW y \in Pipelines, x # y,
                      Push(x)', Push(y)', (request[x].lane = request[y].lane)',
                      Running(x)', Starting(y)'
               PROVE  x \in conflicts'[y]
    BY DEF StartsSeeRunning
  <2>1. y # p /\ Starting(y) /\ Push(x) /\ Push(y) /\ request[x].lane = request[y].lane
    BY <1>1, <1>4 DEF Push, Starting
  <2>2. CASE x = p
    BY <2>1, <2>2, <1>1, <1>2, <1>3 DEF IInv, StartsSeeEachOther
  <2>3. CASE x # p
    BY <2>1, <2>3, <1>1 DEF IInv, StartsSeeRunning, Running
  <2> QED
    BY <2>2, <2>3
<1>7. LaneExclusive'
  <2> SUFFICES ASSUME NEW x \in Pipelines, NEW y \in Pipelines, x # y,
                      Running(x)', Running(y)',
                      (request[x].kind = "push")', (request[y].kind = "push")',
                      (request[x].lane = request[y].lane)'
               PROVE  FALSE
    BY DEF LaneExclusive
  <2>1. \A z \in {x, y} : z # p => Running(z) /\ z \notin conflicts[p]
    BY <1>1 DEF Running
  <2>2. \A z \in {x, y} : Push(z)
    BY <1>1, <1>2, <2>1 DEF Push, Running, Exists
  <2>3. \A z \in {x, y} : z # p => request[z].lane # request[p].lane \/ ~Push(p)
    BY <1>2, <2>1, <2>2 DEF IInv, StartsSeeRunning
  <2> QED
    BY <1>1, <2>1, <2>2, <2>3 DEF IInv, LaneExclusive, Push
<1> QED
  BY <1>5, <1>6, <1>7 DEF StartInv

(***************************************************************************)
(* Every step preserves the rest of the invariant.                         *)
(***************************************************************************)
LEMMA LockStep ==
  ASSUME IInv, [Next]_vars, TypeOK'
  PROVE  LockInv' /\ StartInv'
<1> USE DEF rowVars, outVars, callVars
<1>1. ASSUME NEW p \in Pipelines, NEW r \in TestRequests \cup ProdRequests, Create(p, r), UNCHANGED callVars
      PROVE  LockInv' /\ StartInv'
  <2>1. LocksHold'
    BY <1>1 DEF Create, InsertRow, NextRow, Goto, FirstStep, Prepares, RefsExist, IInv, TypeOK, RowsTypeOK, SchedTypeOK, LocksHold, Starting
  <2>2. PushPrepared'
    BY <1>1 DEF Create, InsertRow, NextRow, Goto, FirstStep, Prepares, RefsExist, IInv, TypeOK, RowsTypeOK, SchedTypeOK, PushPrepared, Past, Push, Exists, Running, Starting
  <2>3. StartInv'
    BY <1>1, QuietStep DEF Create, InsertRow, NextRow, Goto, FirstStep, Prepares, RefsExist, IInv, TypeOK, RowsTypeOK, SchedTypeOK, Starting, Running, Exists
  <2> QED
    BY <2>1, <2>2, <2>3 DEF LockInv
<1>2. ASSUME NEW p \in Pipelines, Prepare(p), UNCHANGED callVars
      PROVE  LockInv' /\ StartInv'
  <2>1. LocksHold'
    BY <1>2 DEF Prepare, Goto, IInv, TypeOK, RowsTypeOK, SchedTypeOK, LocksHold, Starting
  <2>2. PushPrepared'
    BY <1>2 DEF Prepare, Goto, IInv, TypeOK, RowsTypeOK, SchedTypeOK, PushPrepared, Past, Push, Exists, Running, Starting
  <2>3. StartInv'
    BY <1>2, QuietStep DEF Prepare, Goto, IInv, TypeOK, RowsTypeOK, SchedTypeOK, Starting, Running, Exists
  <2> QED
    BY <2>1, <2>2, <2>3 DEF LockInv
<1>3. ASSUME NEW p \in Pipelines, SupersedeQuery(p), UNCHANGED callVars
      PROVE  LockInv' /\ StartInv'
  <2>1. LocksHold'
    BY <1>3 DEF SupersedeQuery, Goto, IInv, TypeOK, RowsTypeOK, SchedTypeOK, LocksHold, Starting
  <2>2. PushPrepared'
    BY <1>3 DEF SupersedeQuery, Goto, IInv, TypeOK, RowsTypeOK, SchedTypeOK, PushPrepared, Past, Push, Exists, Running, Starting
  <2>3. StartInv'
    BY <1>3, QuietStep DEF SupersedeQuery, Goto, IInv, TypeOK, RowsTypeOK, SchedTypeOK, Starting, Running, Exists
  <2> QED
    BY <2>1, <2>2, <2>3 DEF LockInv
<1>4. ASSUME NEW p \in Pipelines, SupersedeLock(p), UNCHANGED callVars
      PROVE  LockInv' /\ StartInv'
  <2>1. LocksHold'
    BY <1>4 DEF SupersedeLock, Goto, AfterSupersede, SetStatus, AllFree, Locked, LiveRows, IInv, TypeOK, RowsTypeOK, SchedTypeOK, LocksHold, Starting
  <2>2. PushPrepared'
    BY <1>4 DEF SupersedeLock, Goto, AfterSupersede, SetStatus, AllFree, Locked, LiveRows, IInv, TypeOK, RowsTypeOK, SchedTypeOK, PushPrepared, Past, Push, Exists, Running, Starting
  <2>3. StartInv'
    BY <1>4, QuietStep DEF SupersedeLock, Goto, AfterSupersede, SetStatus, AllFree, Locked, LiveRows, IInv, TypeOK, RowsTypeOK, SchedTypeOK, Starting, Running, Exists
  <2> QED
    BY <2>1, <2>2, <2>3 DEF LockInv
<1>5. ASSUME NEW p \in Pipelines, SupersedeCommit(p), UNCHANGED callVars
      PROVE  LockInv' /\ StartInv'
  <2>1. LocksHold'
    BY <1>5 DEF SupersedeCommit, Goto, AfterSupersede, SetStatus, IInv, TypeOK, RowsTypeOK, SchedTypeOK, LocksHold, Starting
  <2>2. PushPrepared'
    <3>1. Past(p) /\ UNCHANGED <<request, prepared, drain, tx>>
      BY <1>5 DEF SupersedeCommit, Past
    <3>2. \A q \in Pipelines : (Past(q)' => Past(q)) /\ (Running(q)' => Running(q))
      BY <1>5, <3>1 DEF SupersedeCommit, Goto, SetStatus, IInv, TypeOK, SchedTypeOK, Past, Running
    <3>3. \A q \in Pipelines : Exists(q)' => Exists(q)
      BY <1>5 DEF SupersedeCommit, SetStatus, IInv, RefsExist, Exists
    <3> QED
      BY <3>1, <3>2, <3>3 DEF IInv, PushPrepared, Push, Starting
  <2>3. StartInv'
    BY <1>5, QuietStep DEF SupersedeCommit, Goto, AfterSupersede, SetStatus, IInv, TypeOK, RowsTypeOK, SchedTypeOK, Starting, Running, Exists
  <2> QED
    BY <2>1, <2>2, <2>3 DEF LockInv
<1>6. ASSUME NEW p \in Pipelines, QueueCheck(p), UNCHANGED callVars
      PROVE  LockInv' /\ StartInv'
  <2>1. LocksHold'
    BY <1>6 DEF QueueCheck, Goto, IInv, TypeOK, RowsTypeOK, SchedTypeOK, LocksHold, Starting
  <2>2. PushPrepared'
    BY <1>6 DEF QueueCheck, Goto, IInv, TypeOK, RowsTypeOK, SchedTypeOK, PushPrepared, Past, Push, Exists, Running, Starting
  <2>3. StartInv'
    BY <1>6, QuietStep DEF QueueCheck, Goto, IInv, TypeOK, RowsTypeOK, SchedTypeOK, Starting, Running, Exists
  <2> QED
    BY <2>1, <2>2, <2>3 DEF LockInv
<1>7. ASSUME NEW p \in Pipelines, CreatorStarts(p), UNCHANGED callVars
      PROVE  LockInv' /\ StartInv'
  <2>1. LocksHold'
    BY <1>7 DEF CreatorStarts, BeginStart, Startable, Goto, Locked, IInv, TypeOK, RowsTypeOK, SchedTypeOK, LocksHold, Starting
  <2>2. PushPrepared'
    BY <1>7 DEF CreatorStarts, BeginStart, Startable, Goto, Locked, IInv, TypeOK, RowsTypeOK, SchedTypeOK, PushPrepared, Past, Push, Exists, Running, Starting
  <2>3. StartInv'
    BY <1>7, BeginSees DEF CreatorStarts
  <2> QED
    BY <2>1, <2>2, <2>3 DEF LockInv
<1>8. ASSUME NEW p \in Pipelines, CreatorRefused(p), UNCHANGED callVars
      PROVE  LockInv' /\ StartInv'
  <2>1. LocksHold'
    BY <1>8 DEF CreatorRefused, Goto, IInv, TypeOK, RowsTypeOK, SchedTypeOK, LocksHold, Starting
  <2>2. PushPrepared'
    BY <1>8 DEF CreatorRefused, Goto, IInv, TypeOK, RowsTypeOK, SchedTypeOK, PushPrepared, Past, Push, Exists, Running, Starting
  <2>3. StartInv'
    BY <1>8, QuietStep DEF CreatorRefused, Goto, IInv, TypeOK, RowsTypeOK, SchedTypeOK, Starting, Running, Exists
  <2> QED
    BY <2>1, <2>2, <2>3 DEF LockInv
<1>9. ASSUME NEW p \in Pipelines, StartDispatch(p), UNCHANGED callVars
      PROVE  LockInv' /\ StartInv'
  <2>1. LocksHold'
    BY <1>9 DEF StartDispatch, IInv, TypeOK, RowsTypeOK, SchedTypeOK, LocksHold, Starting
  <2>2. PushPrepared'
    BY <1>9 DEF StartDispatch, IInv, TypeOK, RowsTypeOK, SchedTypeOK, PushPrepared, Past, Push, Exists, Running, Starting
  <2>3. StartInv'
    BY <1>9, QuietStep DEF StartDispatch, IInv, TypeOK, RowsTypeOK, SchedTypeOK, Starting, Running, Exists
  <2> QED
    BY <2>1, <2>2, <2>3 DEF LockInv
<1>10. ASSUME NEW p \in Pipelines, StartFail(p), UNCHANGED callVars
      PROVE  LockInv' /\ StartInv'
  <2>1. LocksHold'
    BY <1>10 DEF StartFail, EndStart, IInv, TypeOK, RowsTypeOK, SchedTypeOK, LocksHold, Starting
  <2>2. PushPrepared'
    BY <1>10 DEF StartFail, EndStart, IInv, TypeOK, RowsTypeOK, SchedTypeOK, PushPrepared, Past, Push, Exists, Running, Starting
  <2>3. StartInv'
    BY <1>10, QuietStep DEF StartFail, EndStart, IInv, TypeOK, RowsTypeOK, SchedTypeOK, Starting, Running, Exists
  <2> QED
    BY <2>1, <2>2, <2>3 DEF LockInv
<1>11. ASSUME NEW p \in Pipelines, StartCommit(p), UNCHANGED callVars
      PROVE  LockInv' /\ StartInv'
  <2>1. LocksHold'
    BY <1>11 DEF StartCommit, EndStart, AllFree, Locked, Live, IInv, TypeOK, RowsTypeOK, SchedTypeOK, LocksHold, Starting
  <2>2. PushPrepared'
    <3>1. \A q \in Pipelines : prepared[q] => prepared'[q]
      BY <1>11 DEF StartCommit, IInv, TypeOK, RowsTypeOK
    <3>2. prepared'[p]
      BY <1>11 DEF StartCommit, IInv, TypeOK, RowsTypeOK
    <3>3. \A d \in Drains : drain'[d].todo \subseteq drain[d].todo
      BY <1>11 DEF StartCommit, EndStart
    <3>4. \A q \in Pipelines \ {p} :
            /\ Push(q)' => Push(q)
            /\ Past(q)' => Past(q)
            /\ Starting(q)' => Starting(q)
            /\ Running(q)' => Running(q)
      BY <1>11 DEF StartCommit, EndStart, IInv, TypeOK, RefsExist, RowsTypeOK, SchedTypeOK, Push,
                   Exists, Past, Starting, Running
    <3> QED
      BY <1>11, <3>1, <3>2, <3>3, <3>4 DEF StartCommit, IInv, PushPrepared
  <2>3. StartInv'
    BY <1>11, CommitExcludes
  <2> QED
    BY <2>1, <2>2, <2>3 DEF LockInv
<1>12. ASSUME NEW p \in Pipelines, StartDeadlock(p), UNCHANGED callVars
      PROVE  LockInv' /\ StartInv'
  <2>1. LocksHold'
    BY <1>12 DEF StartDeadlock, EndStart, IInv, TypeOK, RowsTypeOK, SchedTypeOK, LocksHold, Starting
  <2>2. PushPrepared'
    BY <1>12 DEF StartDeadlock, EndStart, IInv, TypeOK, RowsTypeOK, SchedTypeOK, PushPrepared, Past, Push, Exists, Running, Starting
  <2>3. StartInv'
    BY <1>12, QuietStep DEF StartDeadlock, EndStart, IInv, TypeOK, RowsTypeOK, SchedTypeOK, Starting, Running, Exists
  <2> QED
    BY <2>1, <2>2, <2>3 DEF LockInv
<1>13. ASSUME NEW p \in Pipelines, LoseReply(p), UNCHANGED callVars
      PROVE  LockInv' /\ StartInv'
  <2>1. LocksHold'
    BY <1>13 DEF LoseReply, IInv, TypeOK, RowsTypeOK, SchedTypeOK, LocksHold, Starting
  <2>2. PushPrepared'
    BY <1>13 DEF LoseReply, IInv, TypeOK, RowsTypeOK, SchedTypeOK, PushPrepared, Past, Push, Exists, Running, Starting
  <2>3. StartInv'
    BY <1>13, QuietStep DEF LoseReply, IInv, TypeOK, RowsTypeOK, SchedTypeOK, Starting, Running, Exists
  <2> QED
    BY <2>1, <2>2, <2>3 DEF LockInv
<1>14. ASSUME NEW d \in Drains, DrainBegin(d), UNCHANGED callVars
      PROVE  LockInv' /\ StartInv'
  <2>1. LocksHold'
    BY <1>14 DEF DrainBegin, DueRows, IInv, TypeOK, RowsTypeOK, SchedTypeOK, LocksHold, Starting
  <2>2. PushPrepared'
    BY <1>14 DEF DrainBegin, DueRows, IInv, TypeOK, RowsTypeOK, SchedTypeOK, PushPrepared, Past, Push, Exists, Running, Starting
  <2>3. StartInv'
    BY <1>14, QuietStep DEF DrainBegin, DueRows, IInv, TypeOK, RowsTypeOK, SchedTypeOK, Starting, Running, Exists
  <2> QED
    BY <2>1, <2>2, <2>3 DEF LockInv
<1>15. ASSUME NEW d \in Drains, NEW p \in Pipelines, DrainStarts(d, p), UNCHANGED callVars
      PROVE  LockInv' /\ StartInv'
  <2>1. LocksHold'
    BY <1>15 DEF DrainStarts, NextDue, BeginStart, Startable, Locked, IInv, TypeOK, RowsTypeOK, SchedTypeOK, LocksHold, Starting
  <2>2. PushPrepared'
    <3>1. request[p].lane \in TestLanes
      BY <1>15 DEF DrainStarts, NextDue, IInv, PushPrepared
    <3>2. ~Push(p)
      BY <3>1, LanesAssumption DEF IInv, TypeOK, RowsTypeOK, Push, Exists, Request, TestKinds
    <3>3. UNCHANGED <<request, status, prepared, step>> /\ \A q \in Pipelines \ {p} : tx'[q] = tx[q]
      BY <1>15 DEF DrainStarts, BeginStart, IInv, TypeOK, SchedTypeOK
    <3>4. \A e \in Drains : drain'[e].todo = drain[e].todo
      BY <1>15 DEF DrainStarts, IInv, TypeOK, SchedTypeOK
    <3> QED
      BY <3>2, <3>3, <3>4 DEF IInv, PushPrepared, Past, Push, Exists, Running, Starting
  <2>3. StartInv'
    BY <1>15, BeginSees DEF DrainStarts
  <2> QED
    BY <2>1, <2>2, <2>3 DEF LockInv
<1>16. ASSUME NEW d \in Drains, NEW p \in Pipelines, DrainSkips(d, p), UNCHANGED callVars
      PROVE  LockInv' /\ StartInv'
  <2>1. LocksHold'
    BY <1>16 DEF DrainSkips, IInv, TypeOK, RowsTypeOK, SchedTypeOK, LocksHold, Starting
  <2>2. PushPrepared'
    BY <1>16 DEF DrainSkips, IInv, TypeOK, RowsTypeOK, SchedTypeOK, PushPrepared, Past, Push, Exists, Running, Starting
  <2>3. StartInv'
    BY <1>16, QuietStep DEF DrainSkips, IInv, TypeOK, RowsTypeOK, SchedTypeOK, Starting, Running, Exists
  <2> QED
    BY <2>1, <2>2, <2>3 DEF LockInv
<1>17. ASSUME NEW c \in Callers, AutoRetry(c)
      PROVE  LockInv' /\ StartInv'
  <2>1. LocksHold'
    BY <1>17 DEF AutoRetry, InsertRow, NextRow, RetryOf, Goto, RefsExist, IInv, TypeOK, RowsTypeOK, SchedTypeOK, LocksHold, Starting
  <2>2. PushPrepared'
    BY <1>17 DEF AutoRetry, InsertRow, NextRow, RetryOf, Goto, RefsExist, IInv, TypeOK, RowsTypeOK, SchedTypeOK, PushPrepared, Past, Push, Exists, Running, Starting
  <2>3. StartInv'
    BY <1>17, QuietStep DEF AutoRetry, InsertRow, NextRow, RetryOf, Goto, RefsExist, IInv, TypeOK, RowsTypeOK, SchedTypeOK, Starting, Running, Exists
  <2> QED
    BY <2>1, <2>2, <2>3 DEF LockInv
<1>18. ASSUME Crash
      PROVE  LockInv' /\ StartInv'
  <2>1. LocksHold'
    BY <1>18 DEF Crash, IdleDrain, IInv, TypeOK, RowsTypeOK, SchedTypeOK, LocksHold, Starting
  <2>2. PushPrepared'
    BY <1>18 DEF Crash, IdleDrain, IInv, TypeOK, RowsTypeOK, SchedTypeOK, PushPrepared, Past, Push, Exists, Running, Starting
  <2>3. StartInv'
    BY <1>18, QuietStep DEF Crash, IdleDrain, IInv, TypeOK, RowsTypeOK, SchedTypeOK, Starting, Running, Exists
  <2> QED
    BY <2>1, <2>2, <2>3 DEF LockInv
<1>19. ASSUME NEW p \in Pipelines, DebounceExpires(p), UNCHANGED callVars
      PROVE  LockInv' /\ StartInv'
  BY <1>19, FreeWrite DEF DebounceExpires, IInv, Exists, Starting
<1>20. ASSUME NEW l \in TestLanes, CancelPendingPr(l), UNCHANGED callVars
      PROVE  LockInv' /\ StartInv'
  BY <1>20, FreeWrite DEF CancelPendingPr, SetStatus, AllFree, Locked, IInv, Exists, Starting
<1>21. ASSUME NEW l \in TestLanes, RefreshExplicit(l), UNCHANGED callVars
      PROVE  LockInv' /\ StartInv'
  BY <1>21, FreeWrite DEF RefreshExplicit, ExplicitPending, SetStatus, AllFree, Locked, IInv, Exists, Starting
<1>22. ASSUME NEW l \in TestLanes, RefreshInvalid(l), UNCHANGED callVars
      PROVE  LockInv' /\ StartInv'
  BY <1>22, FreeWrite DEF RefreshInvalid, ExplicitPending, SetStatus, AllFree, Locked, IInv, Exists, Starting
<1>23. ASSUME NEW p \in Pipelines, RunEnds(p)
      PROVE  LockInv' /\ StartInv'
  BY <1>23, FreeWrite DEF RunEnds, IInv, Exists, Starting
<1>24. ASSUME NEW p \in Pipelines, TimeoutRead(p)
      PROVE  LockInv' /\ StartInv'
  BY <1>24, FreeWrite DEF TimeoutRead, IInv, Exists, Starting
<1>25. ASSUME NEW p \in Pipelines, TimeoutWrite(p)
      PROVE  LockInv' /\ StartInv'
  BY <1>25, FreeWrite DEF TimeoutWrite, SetStatus, Locked, RefsExist, IInv, Exists, Starting
<1>26. ASSUME NEW p \in Pipelines, TimeoutKeep(p)
      PROVE  LockInv' /\ StartInv'
  BY <1>26, FreeWrite DEF TimeoutKeep, IInv, Exists, Starting
<1>27. ASSUME NEW p \in Pipelines, ExpireStale(p)
      PROVE  LockInv' /\ StartInv'
  BY <1>27, FreeWrite DEF ExpireStale, SetStatus, Locked, IInv, Exists, Starting
<1>28. ASSUME NEW c \in Callers, NEW p \in Pipelines, StatusRead(c, p)
      PROVE  LockInv' /\ StartInv'
  BY <1>28, FreeWrite DEF StatusRead, IInv, Exists, Starting
<1>29. ASSUME NEW c \in Callers, NEW p \in Pipelines, LogRead(c, p)
      PROVE  LockInv' /\ StartInv'
  BY <1>29, FreeWrite DEF LogRead, IInv, Exists, Starting
<1>30. ASSUME NEW c \in Callers, StatusWrite(c)
      PROVE  LockInv' /\ StartInv'
  BY <1>30, FreeWrite DEF StatusWrite, SetStatus, Outcome, Locked, TypeOK, CallTypeOK, IInv, Exists, Starting
<1>31. ASSUME NEW c \in Callers, CommitBuild(c)
      PROVE  LockInv' /\ StartInv'
  BY <1>31, FreeWrite DEF CommitBuild, IInv, Exists, Starting
<1>32. ASSUME NEW c \in Callers, AutoRetryFails(c)
      PROVE  LockInv' /\ StartInv'
  BY <1>32, FreeWrite DEF AutoRetryFails, IInv, Exists, Starting
<1>33. ASSUME NEW c \in Callers, LogWrite(c)
      PROVE  LockInv' /\ StartInv'
  BY <1>33, FreeWrite DEF LogWrite, IInv, Exists, Starting
<1>34. ASSUME NEW l \in TestLanes, BotCancelRead(l)
      PROVE  LockInv' /\ StartInv'
  BY <1>34, FreeWrite DEF BotCancelRead, IInv, Exists, Starting
<1>35. ASSUME BotCancelCommit
      PROVE  LockInv' /\ StartInv'
  BY <1>35, FreeWrite DEF BotCancelCommit, SetStatus, AllFree, Locked, RefsExist, IInv, Exists, Starting
<1>36. ASSUME BotCancelStop
      PROVE  LockInv' /\ StartInv'
  BY <1>36, FreeWrite DEF BotCancelStop, IInv, Exists, Starting
<1>37. ASSUME UNCHANGED vars
      PROVE  LockInv' /\ StartInv'
  BY <1>37, FreeWrite DEF vars, IInv, Exists, Starting
<1> QED
  BY <1>1, <1>2, <1>3, <1>4, <1>5, <1>6, <1>7, <1>8, <1>9, <1>10, <1>11, <1>12, <1>13, <1>14, <1>15, <1>16, <1>17, <1>18, <1>19, <1>20, <1>21, <1>22, <1>23, <1>24, <1>25, <1>26, <1>27, <1>28, <1>29, <1>30, <1>31, <1>32, <1>33, <1>34, <1>35, <1>36, <1>37
     DEF Next, SchedNext, CreateAny, CreatorStep, StartStep, DrainStep, CallbackNext, CallStep

-----------------------------------------------------------------------------

LEMMA NextInv == IInv /\ [Next]_vars => IInv'
<1> SUFFICES ASSUME IInv, [Next]_vars PROVE IInv'
  OBVIOUS
<1>1. TypeOK' /\ RefsExist'
  BY TypedStep
<1>2. LockInv' /\ StartInv'
  BY <1>1, LockStep
<1> QED
  BY <1>1, <1>2 DEF IInv, LockInv, StartInv

(* The inductive invariant holds in every reachable state. *)
THEOREM Invariance == Spec => []IInv
BY InitInv, NextInv, PTL DEF Spec

(***************************************************************************)
(* The types of the rows, of the scheduler and of the callbacks hold for   *)
(* every instance: no handler writes a value outside its column.           *)
(***************************************************************************)
THEOREM TypeCorrect == Spec => []TypeOK
<1>1. IInv => TypeOK
  BY DEF IInv
<1> QED
  BY Invariance, <1>1, PTL

(***************************************************************************)
(* Two pushes of one application to stable, or to beta, never both run,    *)
(* for any number of overlapping starts, callbacks, retries and crashes.   *)
(***************************************************************************)
THEOREM LaneExclusion == Spec => []LaneExclusive
<1>1. IInv => LaneExclusive
  BY DEF IInv
<1> QED
  BY Invariance, <1>1, PTL

=============================================================================
