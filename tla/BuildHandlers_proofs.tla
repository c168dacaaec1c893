------------------------ MODULE BuildHandlers_proofs -------------------------
(***************************************************************************)
(* More proofs about Builds, for any rows, lanes, drains and callers: what *)
(* a running row owes to its start, how often a row is dispatched, what    *)
(* the supersession of test builds promises, what a success callback owes  *)
(* to flat-manager, and how many spot builds run.  They rest on IInv,      *)
(* proved in Builds_proofs.                                                *)
(*                                                                         *)
(* Each part has an invariant of its own, a lemma about the steps that     *)
(* leave it alone, and a lemma about each step that may not.               *)
(***************************************************************************)
EXTENDS Builds_proofs

(* A start commits only after its dispatch.                                *)
StartedInv ==
  /\ RunningIsStarted
  /\ \A p \in Pipelines : tx[p] = "dispatched" => dispatches[p] > 0

Prod(p) == Exists(p) /\ request[p].lane \in ProdLanes

(* Starts of stable and beta are made by the handler that created the row, *)
(* never by a drain; only they have rivals to supersede.                   *)
ProdStarts ==
  \A p \in Pipelines :
    /\ Prod(p) /\ Starting(p) => step[p] = "starting"
    /\ conflicts[p] # {} => Starting(p) /\ Prod(p)

(* A row whose run was dispatched is not started again: it is no longer    *)
(* pending, its start has still to commit, or the database aborted it and  *)
(* its only handler gave up.                                               *)
Spent(p) ==
  \/ tx[p] = "dispatched"
  \/ status[p] # "pending"
  \/ Prod(p) /\ step[p] = "done" /\ tx[p] = "none"

DispatchInv ==
  faults = 0 =>
    \A p \in Pipelines :
      dispatches[p] > 0 => dispatches[p] = 1 /\ Exists(p) /\ Spent(p)

StartsInv == StartedInv /\ ProdStarts /\ DispatchInv

(* No row exists, so none is running, starting or dispatched. *)
LEMMA StartsInit == Init => StartsInv
BY DEF Init, RowsInit, SchedInit, StartsInv, StartedInv, RunningIsStarted, ProdStarts,
       DispatchInv, Prod, Exists, Starting, Running

-----------------------------------------------------------------------------
(* Steps that start nothing                                                *)

Quiet ==
  /\ UNCHANGED <<tx, conflicts, dispatches, buildId, faults>>
  /\ \A q \in Pipelines :
       /\ prepared[q] => prepared'[q]
       /\ Running(q)' => Running(q)
       /\ Exists(q) => /\ Exists(q)' /\ request'[q] = request[q]
                       /\ status[q] # "pending" => status'[q] # "pending"
                       /\ step[q] \in {"starting", "done"} => step'[q] = step[q]

(* A quiet step moves no start and makes no row pending or running again. *)
LEMMA QuietKeeps ==
  ASSUME IInv, StartsInv, Quiet
  PROVE  StartsInv'
<1>1. \A q \in Pipelines : Starting(q) => Exists(q)
  BY DEF IInv, RefsExist
<1>2. \A q \in Pipelines : Prod(q) => Prod(q)'
  BY DEF Quiet, Prod
<1>3. StartedInv'
  BY DEF Quiet, StartsInv, StartedInv, RunningIsStarted
<1>4. ProdStarts'
  <2>. SUFFICES ASSUME NEW q \in Pipelines
                PROVE  /\ Prod(q)' /\ Starting(q)' => step'[q] = "starting"
                       /\ conflicts'[q] # {} => Starting(q)' /\ Prod(q)'
    BY DEF ProdStarts
  <2>1. Prod(q)' /\ Starting(q)' => step'[q] = "starting"
    BY <1>1 DEF Quiet, StartsInv, ProdStarts, Prod, Starting
  <2>2. conflicts'[q] # {} => Starting(q)' /\ Prod(q)'
    BY <1>2 DEF Quiet, StartsInv, ProdStarts, Starting
  <2>. QED BY <2>1, <2>2
<1>5. DispatchInv'
  <2>. SUFFICES ASSUME faults' = 0, NEW q \in Pipelines, dispatches'[q] > 0
                PROVE  dispatches'[q] = 1 /\ Exists(q)' /\ Spent(q)'
    BY DEF DispatchInv
  <2>1. faults = 0 /\ dispatches[q] > 0 /\ tx'[q] = tx[q] /\ dispatches'[q] = dispatches[q]
    BY DEF Quiet
  <2>2. dispatches[q] = 1 /\ Exists(q) /\ Spent(q)
    BY <2>1 DEF StartsInv, DispatchInv
  <2>3. Exists(q)'
    BY <2>2 DEF Quiet
  <2>4. Spent(q)'
    BY <1>2, <2>1, <2>2 DEF Quiet, Spent
  <2>. QED BY <2>1, <2>2, <2>3, <2>4
<1>. QED BY <1>3, <1>4, <1>5 DEF StartsInv

(* Every step is quiet, a crash, or a step of a start. *)
LEMMA QuietSteps ==
  ASSUME IInv, [Next]_vars
  PROVE  \/ Quiet \/ Crash
         \/ \E p \in Pipelines : \/ CreatorStarts(p) \/ StartDispatch(p) \/ LoseReply(p)
                                \/ StartFail(p) \/ StartCommit(p) \/ StartDeadlock(p)
         \/ \E d \in Drains, p \in Pipelines : DrainStarts(d, p)
<1>1. ASSUME NEW p \in Pipelines, Prepare(p) PROVE Quiet
  BY <1>1 DEF Prepare, Goto, outVars, IInv, TypeOK, RowsTypeOK, SchedTypeOK,
     Quiet, Running, Exists
<1>2. ASSUME NEW p \in Pipelines, SupersedeQuery(p) PROVE Quiet
  BY <1>2 DEF SupersedeQuery, Goto, rowVars, outVars, IInv, TypeOK,
     RowsTypeOK, SchedTypeOK, Quiet, Running, Exists
<1>3. ASSUME NEW p \in Pipelines, SupersedeLock(p) PROVE Quiet
  BY <1>3 DEF SupersedeLock, Goto, SetStatus, IInv, TypeOK, RowsTypeOK,
     SchedTypeOK, Quiet, Running, Exists
<1>4. ASSUME NEW p \in Pipelines, SupersedeCommit(p) PROVE Quiet
  BY <1>4 DEF SupersedeCommit, Goto, SetStatus, outVars, IInv, TypeOK,
     RowsTypeOK, SchedTypeOK, Quiet, Running, Exists
<1>5. ASSUME NEW p \in Pipelines, QueueCheck(p) PROVE Quiet
  BY <1>5 DEF QueueCheck, Goto, rowVars, outVars, IInv, TypeOK, RowsTypeOK,
     SchedTypeOK, Quiet, Running, Exists
<1>6. ASSUME NEW p \in Pipelines, CreatorRefused(p) PROVE Quiet
  BY <1>6 DEF CreatorRefused, Goto, rowVars, outVars, IInv, TypeOK,
     RowsTypeOK, SchedTypeOK, Quiet, Running, Exists
<1>7. ASSUME NEW p \in Pipelines, DebounceExpires(p) PROVE Quiet
  BY <1>7 DEF DebounceExpires, outVars, schedVars, IInv, TypeOK, RowsTypeOK,
     SchedTypeOK, Quiet, Running, Exists
<1>8. ASSUME NEW d \in Drains, DrainBegin(d) PROVE Quiet
  BY <1>8 DEF DrainBegin, rowVars, outVars, IInv, TypeOK, RowsTypeOK,
     SchedTypeOK, Quiet, Running, Exists
<1>9. ASSUME NEW d \in Drains, NEW p \in Pipelines, DrainSkips(d, p) PROVE Quiet
  BY <1>9 DEF DrainSkips, rowVars, outVars, IInv, TypeOK, RowsTypeOK,
     SchedTypeOK, Quiet, Running, Exists
<1>10. ASSUME NEW l \in TestLanes, CancelPendingPr(l) PROVE Quiet
  BY <1>10 DEF CancelPendingPr, SetStatus, outVars, schedVars, IInv, TypeOK,
     RowsTypeOK, SchedTypeOK, Quiet, Running, Exists
<1>11. ASSUME NEW l \in TestLanes, RefreshExplicit(l) PROVE Quiet
  BY <1>11 DEF RefreshExplicit, SetStatus, outVars, schedVars, IInv, TypeOK,
     RowsTypeOK, SchedTypeOK, Quiet, Running, Exists
<1>12. ASSUME NEW l \in TestLanes, RefreshInvalid(l) PROVE Quiet
  BY <1>12 DEF RefreshInvalid, SetStatus, outVars, schedVars, IInv, TypeOK,
     RowsTypeOK, SchedTypeOK, Quiet, Running, Exists
<1>13. ASSUME NEW p \in Pipelines, NEW r \in TestRequests \cup ProdRequests, Create(p, r) PROVE Quiet
  BY <1>13 DEF Create, InsertRow, NextRow, Goto, outVars, IInv, TypeOK,
     RowsTypeOK, SchedTypeOK, Quiet, Running, Exists
<1>14. ASSUME NEW p \in Pipelines, RunEnds(p) PROVE Quiet
  BY <1>14 DEF RunEnds, rowVars, schedVars, IInv, TypeOK, RowsTypeOK,
     SchedTypeOK, Quiet, Running, Exists
<1>15. ASSUME NEW p \in Pipelines, TimeoutRead(p) \/ TimeoutKeep(p) PROVE Quiet
  BY <1>15 DEF TimeoutRead, TimeoutKeep, rowVars, outVars, schedVars, IInv,
     TypeOK, RowsTypeOK, SchedTypeOK, Quiet, Running, Exists
<1>16. ASSUME NEW p \in Pipelines, TimeoutWrite(p) PROVE Quiet
  BY <1>16 DEF TimeoutWrite, SetStatus, outVars, schedVars, IInv, TypeOK,
     RowsTypeOK, SchedTypeOK, Quiet, Running, Exists
<1>17. ASSUME NEW p \in Pipelines, ExpireStale(p) PROVE Quiet
  BY <1>17 DEF ExpireStale, SetStatus, outVars, schedVars, IInv, TypeOK,
     RowsTypeOK, SchedTypeOK, Quiet, Running, Exists
<1>18. ASSUME NEW c \in Callers, NEW p \in Pipelines, StatusRead(c, p) \/ LogRead(c, p) PROVE Quiet
  BY <1>18 DEF StatusRead, LogRead, rowVars, outVars, schedVars, IInv,
     TypeOK, RowsTypeOK, SchedTypeOK, Quiet, Running, Exists
<1>19. ASSUME NEW c \in Callers, StatusWrite(c) PROVE Quiet
  BY <1>19 DEF StatusWrite, Outcome, SetStatus, outVars, schedVars, IInv,
     TypeOK, RowsTypeOK, SchedTypeOK, Quiet, Running, Exists
<1>20. ASSUME NEW c \in Callers, CommitBuild(c) \/ AutoRetryFails(c) PROVE Quiet
  BY <1>20 DEF CommitBuild, AutoRetryFails, rowVars, outVars, schedVars,
     IInv, TypeOK, RowsTypeOK, SchedTypeOK, Quiet, Running, Exists
<1>21. ASSUME NEW c \in Callers, AutoRetry(c) PROVE Quiet
  BY <1>21 DEF AutoRetry, InsertRow, NextRow, Goto, outVars, IInv, TypeOK,
     RowsTypeOK, SchedTypeOK, Quiet, Running, Exists
<1>22. ASSUME NEW c \in Callers, LogWrite(c) PROVE Quiet
  BY <1>22 DEF LogWrite, schedVars, IInv, TypeOK, RowsTypeOK, SchedTypeOK,
     Quiet, Running, Exists
<1>23. ASSUME NEW l \in TestLanes, BotCancelRead(l) PROVE Quiet
  BY <1>23 DEF BotCancelRead, rowVars, outVars, schedVars, IInv, TypeOK,
     RowsTypeOK, SchedTypeOK, Quiet, Running, Exists
<1>24. ASSUME BotCancelCommit PROVE Quiet
  BY <1>24 DEF BotCancelCommit, SetStatus, outVars, schedVars, IInv, TypeOK,
     RowsTypeOK, SchedTypeOK, Quiet, Running, Exists
<1>25. ASSUME BotCancelStop PROVE Quiet
  BY <1>25 DEF BotCancelStop, rowVars, schedVars, IInv, TypeOK, RowsTypeOK,
     SchedTypeOK, Quiet, Running, Exists
<1>26. ASSUME UNCHANGED vars PROVE Quiet
  BY <1>26 DEF vars, rowVars, outVars, schedVars, IInv, TypeOK, RowsTypeOK,
     SchedTypeOK, Quiet, Running, Exists
<1>. QED BY <1>1, <1>2, <1>3, <1>4, <1>5, <1>6, <1>7, <1>8, <1>9, <1>10,
            <1>11, <1>12, <1>13, <1>14, <1>15, <1>16, <1>17, <1>18, <1>19,
            <1>20, <1>21, <1>22, <1>23, <1>24, <1>25, <1>26
           DEF Next, SchedNext, CreateAny, CreatorStep, StartStep, DrainStep,
               CallbackNext, CallStep

-----------------------------------------------------------------------------
(* Steps of a start                                                        *)

(* A start that has yet to dispatch is of a row whose run never was.       *)
LEMMA UnspentStart ==
  ASSUME IInv, StartsInv, faults = 0, NEW p \in Pipelines,
         status[p] = "pending", tx[p] # "dispatched",
         Prod(p) /\ step[p] = "done" => tx[p] # "none"
  PROVE  dispatches[p] = 0
BY DEF IInv, TypeOK, RowsTypeOK, StartsInv, DispatchInv, Spent

(* What a begin leaves alone, and what it may only do to its own row.      *)
LEMMA BeginKeeps ==
  ASSUME IInv, StartsInv, NEW p \in Pipelines, BeginStart(p),
         Prod(p) => step'[p] = "starting",
         Prod(p) => step[p] # "done",
         \A q \in Pipelines : q # p => step'[q] = step[q]
  PROVE  StartsInv'
<1>1. /\ tx[p] = "none" /\ status[p] = "pending"
      /\ tx'[p] = "begun" /\ conflicts'[p] = StartRivals(p)
      /\ \A q \in Pipelines : q # p => tx'[q] = tx[q] /\ conflicts'[q] = conflicts[q]
      /\ UNCHANGED <<status, request, prepared, buildId, dispatches, faults>>
  BY DEF BeginStart, Locked, Startable, rowVars, IInv, TypeOK, SchedTypeOK
<1>2. StartedInv'
  BY <1>1 DEF StartsInv, StartedInv, RunningIsStarted, Running
<1>3. ProdStarts'
  <2>. SUFFICES ASSUME NEW q \in Pipelines
                PROVE  /\ Prod(q)' /\ Starting(q)' => step'[q] = "starting"
                       /\ conflicts'[q] # {} => Starting(q)' /\ Prod(q)'
    BY DEF ProdStarts
  <2>1. CASE q # p
    BY <1>1, <2>1 DEF StartsInv, ProdStarts, Prod, Exists, Starting
  <2>2. CASE q = p
    BY <1>1, <2>2 DEF StartRivals, Prod, Exists, Starting
  <2>. QED BY <2>1, <2>2
<1>4. DispatchInv'
  <2>. SUFFICES ASSUME faults' = 0, NEW q \in Pipelines, dispatches'[q] > 0
                PROVE  dispatches'[q] = 1 /\ Exists(q)' /\ Spent(q)'
    BY DEF DispatchInv
  <2>1. faults = 0 /\ dispatches[q] > 0
    BY <1>1
  <2>2. q # p
    <3>1. dispatches[p] = 0
      BY <1>1, <2>1, UnspentStart
    <3>. QED BY <2>1, <3>1
  <2>. QED BY <1>1, <2>1, <2>2 DEF StartsInv, DispatchInv, Spent, Prod, Exists
<1>. QED BY <1>2, <1>3, <1>4 DEF StartsInv

(* The handler that created a row starts it once, from the step before. *)
LEMMA CreatorStartsKeeps ==
  ASSUME IInv, StartsInv, NEW p \in Pipelines, CreatorStarts(p)
  PROVE  StartsInv'
<1>1. /\ BeginStart(p) /\ step[p] = "start" /\ step'[p] = "starting"
      /\ \A q \in Pipelines : q # p => step'[q] = step[q]
  BY DEF CreatorStarts, Goto, IInv, TypeOK, SchedTypeOK
<1>. QED BY <1>1, BeginKeeps

(* Drains start rows of the test repository only. *)
LEMMA DrainStartsKeeps ==
  ASSUME IInv, StartsInv, NEW d \in Drains, NEW p \in Pipelines, DrainStarts(d, p)
  PROVE  StartsInv'
<1>1. ~Prod(p)
  BY LanesAssumption DEF DrainStarts, NextDue, IInv, PushPrepared, Prod
<1>2. BeginStart(p) /\ step' = step
  BY DEF DrainStarts
<1>. QED BY <1>1, <1>2, BeginKeeps

(* The dispatch is the first of its row, which is spent from then on. *)
LEMMA StartDispatchKeeps ==
  ASSUME IInv, StartsInv, NEW p \in Pipelines, StartDispatch(p)
  PROVE  StartsInv'
<1>1. /\ tx[p] = "begun" /\ status[p] = "pending" /\ Exists(p)
      /\ tx'[p] = "dispatched" /\ dispatches'[p] = dispatches[p] + 1
      /\ \A q \in Pipelines : q # p => tx'[q] = tx[q] /\ dispatches'[q] = dispatches[q]
      /\ UNCHANGED <<status, request, prepared, buildId, step, conflicts, faults>>
  BY DEF StartDispatch, rowVars, IInv, TypeOK, RowsTypeOK, SchedTypeOK, LocksHold,
         RefsExist, Starting
<1>2. dispatches[p] \in Nat
  BY DEF IInv, TypeOK, RowsTypeOK
<1>3. StartedInv'
  BY <1>1, <1>2 DEF StartsInv, StartedInv, RunningIsStarted, Running
<1>4. ProdStarts'
  BY <1>1 DEF StartsInv, ProdStarts, Prod, Exists, Starting
<1>5. DispatchInv'
  <2>. SUFFICES ASSUME faults' = 0, NEW q \in Pipelines, dispatches'[q] > 0
                PROVE  dispatches'[q] = 1 /\ Exists(q)' /\ Spent(q)'
    BY DEF DispatchInv
  <2>1. CASE q = p
    <3>1. dispatches[p] = 0
      BY <1>1, UnspentStart
    <3>. QED BY <1>1, <2>1, <3>1 DEF Exists, Spent
  <2>2. CASE q # p
    BY <1>1, <2>2 DEF StartsInv, DispatchInv, Spent, Prod, Exists
  <2>. QED BY <2>1, <2>2
<1>. QED BY <1>3, <1>4, <1>5 DEF StartsInv

(* A fault voids what is promised of runs without faults, and undoes no commit. *)
LEMMA FaultsKeep ==
  ASSUME IInv, StartsInv, Crash \/ \E p \in Pipelines : LoseReply(p)
  PROVE  StartsInv'
<1>1. faults' # 0
  BY DEF Crash, LoseReply, IInv, TypeOK, SchedTypeOK
<1>2. DispatchInv'
  BY <1>1 DEF DispatchInv
<1>3. CASE Crash
  BY <1>2, <1>3 DEF Crash, rowVars, outVars, StartsInv, StartedInv, RunningIsStarted, Running,
     ProdStarts, Prod, Exists, Starting
<1>4. ASSUME NEW p \in Pipelines, LoseReply(p) PROVE StartsInv'
  <2>1. StartedInv'
    <3>1. \A q \in Pipelines : dispatches[q] > 0 => dispatches'[q] > 0
      BY <1>4 DEF LoseReply, IInv, TypeOK, RowsTypeOK
    <3>. QED BY <1>4, <3>1 DEF LoseReply, rowVars, StartsInv, StartedInv, RunningIsStarted,
                               Running
  <2>2. ProdStarts'
    BY <1>4 DEF LoseReply, rowVars, StartsInv, ProdStarts, Prod, Exists, Starting
  <2>. QED BY <1>2, <2>1, <2>2 DEF StartsInv
<1>. QED BY <1>3, <1>4

(* A start that ends: by failing, by committing, or aborted by the database. *)
LEMMA EndKeeps ==
  ASSUME IInv, StartsInv, NEW p \in Pipelines,
         StartFail(p) \/ StartCommit(p) \/ StartDeadlock(p)
  PROVE  StartsInv'
<1>1. /\ tx[p] # "none" /\ status[p] = "pending" /\ Exists(p)
      /\ tx'[p] = "none" /\ conflicts'[p] = {}
      /\ step[p] = "starting" => step'[p] = "done"
      /\ \A q \in Pipelines : q # p =>
           tx'[q] = tx[q] /\ conflicts'[q] = conflicts[q] /\ step'[q] = step[q]
      /\ UNCHANGED <<request, dispatches, faults>>
  <2>1. tx[p] # "none"
    BY DEF StartFail, StartCommit, StartDeadlock, DeadlockCycle
  <2>2. status[p] = "pending" /\ Exists(p)
    BY <2>1 DEF IInv, LocksHold, RefsExist, Starting
  <2>. QED BY <2>1, <2>2 DEF StartFail, StartCommit, StartDeadlock, EndStart, rowVars, outVars,
                             IInv, TypeOK, RowsTypeOK, SchedTypeOK
<1>2. \A q \in Pipelines :
        /\ Exists(q) <=> Exists(q)'
        /\ status[q] # "pending" => status'[q] # "pending"
        /\ q # p /\ Running(q)' => /\ Running(q)
                                   /\ prepared'[q] = prepared[q]
                                   /\ buildId'[q] = buildId[q]
  <2>1. CASE StartCommit(p)
    BY <1>1, <2>1 DEF StartCommit, IInv, RefsExist, TypeOK, RowsTypeOK, Exists, Running
  <2>2. CASE StartFail(p) \/ StartDeadlock(p)
    BY <2>2 DEF StartFail, StartDeadlock, rowVars, Exists, Running
  <2>. QED BY <2>1, <2>2
<1>3. StartedInv'
  <2>1. ASSUME Running(p)' PROVE prepared'[p] /\ buildId'[p] /\ dispatches'[p] > 0
    <3>1. StartCommit(p)
      BY <1>1, <2>1 DEF StartFail, StartDeadlock, rowVars, Running
    <3>2. prepared'[p] /\ buildId'[p]
      BY <3>1 DEF StartCommit, IInv, TypeOK, RowsTypeOK
    <3>3. dispatches[p] > 0
      BY <3>1 DEF StartCommit, StartsInv, StartedInv
    <3>. QED BY <1>1, <3>2, <3>3
  <2>2. \A q \in Pipelines : tx'[q] = "dispatched" => tx[q] = "dispatched"
    BY <1>1
  <2>. QED BY <1>1, <1>2, <2>1, <2>2 DEF StartsInv, StartedInv, RunningIsStarted
<1>4. ProdStarts'
  BY <1>1, <1>2 DEF StartsInv, ProdStarts, Prod, Starting
<1>5. DispatchInv'
  <2>. SUFFICES ASSUME faults' = 0, NEW q \in Pipelines, dispatches'[q] > 0
                PROVE  dispatches'[q] = 1 /\ Exists(q)' /\ Spent(q)'
    BY DEF DispatchInv
  <2>1. dispatches[q] = 1 /\ Exists(q) /\ Spent(q) /\ faults = 0
    BY <1>1 DEF StartsInv, DispatchInv
  <2>2. CASE q # p
    BY <1>1, <1>2, <2>1, <2>2 DEF Spent, Prod
  <2>3. CASE q = p /\ StartCommit(p)
    BY <1>1, <1>2, <2>1, <2>3 DEF StartCommit, Spent
  <2>4. CASE q = p /\ StartFail(p)
    BY <1>1, <2>1, <2>4 DEF StartFail, Spent
  <2>5. CASE q = p /\ StartDeadlock(p)
    <3>1. conflicts[p] # {}
      BY <2>5 DEF StartDeadlock, DeadlockCycle
    <3>2. Prod(p) /\ step[p] = "starting"
      BY <3>1 DEF StartsInv, ProdStarts
    <3>. QED BY <1>1, <1>2, <2>1, <2>5, <3>2 DEF Spent, Prod
  <2>. QED BY <2>2, <2>3, <2>4, <2>5
<1>. QED BY <1>3, <1>4, <1>5 DEF StartsInv

(* Every step preserves the invariant of starts. *)
LEMMA StartsNext ==
  ASSUME IInv, StartsInv, [Next]_vars
  PROVE  StartsInv'
BY QuietSteps, QuietKeeps, CreatorStartsKeeps, DrainStartsKeeps, StartDispatchKeeps,
   FaultsKeep, EndKeeps

(* The invariant of starts holds in every reachable state. *)
THEOREM StartsInvariance == Spec => []StartsInv
BY Invariance, StartsInit, StartsNext, PTL DEF Spec

(***************************************************************************)
(* A running row was prepared, names its build and has a run, for any rows *)
(* and callers: everything start_pipeline stores is committed together,    *)
(* after the dispatch and under the lock of the row.                       *)
(***************************************************************************)
THEOREM RunningRowsStarted == Spec => []RunningIsStarted
<1>1. StartsInv => RunningIsStarted
  BY DEF StartsInv, StartedInv
<1> QED
  BY StartsInvariance, <1>1, PTL

(***************************************************************************)
(* Without a lost reply or a crash no row has two workflow runs, however   *)
(* many drains overlap with the handler that created it: a deadlock is the *)
(* only end of a dispatched start that leaves its row pending, and nobody  *)
(* but that handler would start a row of stable or beta.                   *)
(***************************************************************************)
THEOREM OneRunPerRow == Spec => []DispatchedOnce
<1>1. IInv /\ StartsInv => DispatchedOnce
  BY DEF IInv, TypeOK, RowsTypeOK, StartsInv, DispatchInv, DispatchedOnce
<1> QED
  BY Invariance, StartsInvariance, <1>1, PTL

-----------------------------------------------------------------------------
(* The supersession of test builds *)

Deb(p) == Exists(p) /\ Debounced(request[p].kind)

(* Two requests are told apart by their order, and only debounced ones have one. *)
OrderInv ==
  /\ \A p \in Pipelines : Deb(p) => order[p] > 0 /\ startAfter[p] # "null"
  /\ \A p, q \in Pipelines : p # q /\ order[p] = order[q] => order[p] = 0

(* Row q may give way to row p. *)
GivesWay(q, p) ==
  Debounced(request[q].kind) => ~Debounced(request[p].kind) \/ order[p] > order[q]

Replaced(q) == \E p \in SameLane(q) : GivesWay(q, p)

(* The rows a supersession holds are of its lane, purged, and may give way. *)
ClaimInv ==
  \A p \in Pipelines :
    /\ step[p] # "none" => Exists(p)
    /\ step[p] \in {"locking", "superseding"} => claimed[p] \subseteq SameLane(p)
    /\ step[p] = "superseding" =>
         \A q \in claimed[p] : GivesWay(q, p) /\ (buildId[q] => q \in purgeAsked)

(* A row has no build before its start commits; only pushes have rivals. *)
BuildInv ==
  \A p \in Pipelines :
    /\ status[p] \in {"absent", "pending"} => ~buildId[p]
    /\ \A q \in conflicts[p] : request[q].lane \in ProdLanes

SupersededInv == LatestRequestSurvives /\ SupersededTestBuildPurged

Early == {"prepare", "supersede", "locking", "superseding"}
Late == {"queue", "start", "starting"}

WillSupersede(p, q) ==
  \/ step[p] \in {"prepare", "supersede"}
  \/ step[p] \in {"locking", "superseding"} /\ q \in claimed[p]

Rivals(p, q) ==
  /\ p # q /\ Deb(p) /\ Deb(q)
  /\ request[p].lane = request[q].lane
  /\ status[p] \in Live /\ status[q] \in Live

(* A debounced row does not start before its handler is done superseding,  *)
(* and of two live ones the handler of one has yet to supersede the other. *)
DebounceInv ==
  faults = 0 =>
    /\ \A p \in Pipelines : Deb(p) =>
         /\ step[p] \in Early \cup {"done"}
         /\ step[p] # "done" => ~Running(p) /\ tx[p] = "none" /\ startAfter[p] = "future"
    /\ \A p, q \in Pipelines : Rivals(p, q) => WillSupersede(p, q) \/ WillSupersede(q, p)

QueueInv == OrderInv /\ ClaimInv /\ BuildInv /\ SupersededInv /\ DebounceInv

(* No row exists, so none is queued. *)
LEMMA QueueInit == Init => QueueInv
BY DEF Init, RowsInit, SchedInit, QueueInv, OrderInv, ClaimInv, BuildInv, SupersededInv,
       LatestRequestSurvives, SupersededTestBuildPurged, DebounceInv, Deb, Rivals, Exists

(* A debounced request is of the test repository. *)
LEMMA DebouncedLanes ==
  ASSUME IInv, NEW p \in Pipelines, Deb(p)
  PROVE  request[p].lane \in TestLanes /\ request[p].lane \notin ProdLanes
BY LanesAssumption DEF IInv, TypeOK, RowsTypeOK, Request, TestKinds, ProdKinds, Deb, Debounced,
                       Exists

(* A superseded row is accounted for when it was, or is when it becomes one. *)
LEMMA SupersededStep ==
  ASSUME QueueInv,
         \A p \in Pipelines : Exists(p) => Exists(p)' /\ request'[p] = request[p],
         \A p, q \in Pipelines : Exists(p) /\ Exists(q) /\ order[q] > order[p]
           /\ status[p] = "superseded" => order'[q] > order'[p],
         purgeAsked \subseteq purgeAsked',
         \A p \in Pipelines : status[p] = "superseded" => buildId'[p] = buildId[p],
         \A p \in Pipelines :
           status'[p] = "superseded" /\ request'[p].lane \in TestLanes
             => \/ status[p] = "superseded"
                \/ Replaced(p)' /\ (buildId'[p] => p \in purgeAsked')
  PROVE  SupersededInv'
<1>1. \A p \in Pipelines : status[p] = "superseded" => Exists(p)
  BY DEF Exists
<1>2. SupersededTestBuildPurged'
  BY <1>1 DEF QueueInv, SupersededInv, SupersededTestBuildPurged
<1>3. LatestRequestSurvives'
  <2>. SUFFICES ASSUME NEW p \in Pipelines, status'[p] = "superseded",
                       request'[p].lane \in TestLanes, Debounced(request'[p].kind)
                PROVE  \E q \in SameLane(p)' : ~Debounced(request'[q].kind) \/ order'[q] > order'[p]
    BY DEF LatestRequestSurvives
  <2>1. CASE Replaced(p)'
    BY <2>1 DEF Replaced, GivesWay
  <2>2. CASE status[p] = "superseded"
    <3>1. PICK q \in SameLane(p) : ~Debounced(request[q].kind) \/ order[q] > order[p]
      BY <1>1, <2>2 DEF QueueInv, SupersededInv, LatestRequestSurvives
    <3>2. q \in SameLane(p)'
      BY <1>1, <2>2, <3>1 DEF SameLane, InLane
    <3>. QED BY <1>1, <2>2, <3>1, <3>2 DEF SameLane, InLane
  <2>. QED BY <2>1, <2>2
<1>. QED BY <1>2, <1>3 DEF SupersededInv

-----------------------------------------------------------------------------
(* Steps that neither insert, nor supersede, nor begin or commit a start   *)

Away ==
  /\ UNCHANGED <<request, order, buildId, claimed>>
  /\ faults' = 0 => faults = 0
  /\ purgeAsked \subseteq purgeAsked'
  /\ \A q \in Pipelines :
       /\ status'[q] = status[q]
            \/ /\ Exists(q)
               /\ status'[q] \notin {"absent", "pending", "running", "superseded"}
       /\ step'[q] = step[q] \/ (step[q] \in Late /\ step'[q] \in Late \cup {"done"})
       /\ startAfter'[q] = startAfter[q] \/ (step[q] = "done" /\ startAfter'[q] # "null")
       /\ tx[q] = "none" => tx'[q] = "none"
       /\ conflicts'[q] \subseteq conflicts[q]

(* Rows that leave the queue without a successor concern no supersession. *)
LEMMA AwayKeeps ==
  ASSUME IInv, QueueInv, Away
  PROVE  QueueInv'
<1>1. \A q \in Pipelines : Exists(q)' <=> Exists(q)
  BY DEF Away, Exists
<1>2. OrderInv'
  BY <1>1 DEF Away, QueueInv, OrderInv, Deb
<1>3. ClaimInv'
  BY <1>1 DEF Away, QueueInv, ClaimInv, GivesWay, SameLane, InLane, Late
<1>4. BuildInv'
  BY DEF Away, QueueInv, BuildInv
<1>5. SupersededInv'
  <2>1. \A p \in Pipelines : status'[p] = "superseded" => status[p] = "superseded"
    BY DEF Away
  <2>. QED BY <1>1, <2>1, SupersededStep DEF Away
<1>6. DebounceInv'
  <2>1. \A p, q \in Pipelines : Rivals(p, q)' => Rivals(p, q)
    BY <1>1 DEF Away, Rivals, Deb, Live
  <2>2. \A p, q \in Pipelines : WillSupersede(p, q) => WillSupersede(p, q)'
    BY DEF Away, WillSupersede, Late
  <2>3. \A p \in Pipelines : Deb(p)' => Deb(p)
    BY <1>1 DEF Away, Deb
  <2>. QED BY <2>1, <2>2, <2>3 DEF Away, QueueInv, DebounceInv, Running, Late, Early
<1>. QED BY <1>2, <1>3, <1>4, <1>5, <1>6 DEF QueueInv

(* Every step is away from the queue, or one of those treated below. *)
LEMMA AwaySteps ==
  ASSUME IInv, [Next]_vars
  PROVE  \/ Away \/ Crash
         \/ \E p \in Pipelines :
              \/ Prepare(p) \/ SupersedeQuery(p) \/ SupersedeLock(p) \/ SupersedeCommit(p)
              \/ CreatorStarts(p) \/ StartCommit(p)
         \/ \E p \in Pipelines, r \in TestRequests \cup ProdRequests : Create(p, r)
         \/ \E c \in Callers : AutoRetry(c)
         \/ \E l \in TestLanes : RefreshExplicit(l)
         \/ \E d \in Drains, p \in Pipelines : DrainStarts(d, p)
<1>. USE DEF rowVars, outVars, schedVars
<1>1. ASSUME NEW p \in Pipelines, QueueCheck(p) PROVE Away
  BY <1>1 DEF QueueCheck, Goto, Late, Away, IInv, TypeOK, RowsTypeOK,
     SchedTypeOK, Exists
<1>2. ASSUME NEW p \in Pipelines, CreatorRefused(p) PROVE Away
  BY <1>2 DEF CreatorRefused, Goto, Late, Away, IInv, TypeOK, RowsTypeOK,
     SchedTypeOK, Exists
<1>3. ASSUME NEW p \in Pipelines, DebounceExpires(p) PROVE Away
  BY <1>3 DEF DebounceExpires, Away, IInv, TypeOK, RowsTypeOK, SchedTypeOK,
     Exists
<1>4. ASSUME NEW p \in Pipelines, StartDispatch(p) PROVE Away
  BY <1>4 DEF StartDispatch, Away, IInv, TypeOK, RowsTypeOK, SchedTypeOK,
     Exists
<1>5. ASSUME NEW p \in Pipelines, LoseReply(p) PROVE Away
  BY <1>5 DEF LoseReply, Away, IInv, TypeOK, RowsTypeOK, SchedTypeOK, Exists
<1>6. ASSUME NEW p \in Pipelines, StartFail(p) \/ StartDeadlock(p) PROVE Away
  <2>1. EndStart(p, FALSE) /\ UNCHANGED <<rowVars, outVars, claimed, faults>>
    BY <1>6 DEF StartFail, StartDeadlock
  <2>. QED BY <2>1 DEF EndStart, Late, Away, IInv, TypeOK, RowsTypeOK, SchedTypeOK,
     Exists
<1>7. ASSUME NEW d \in Drains, DrainBegin(d) PROVE Away
  BY <1>7 DEF DrainBegin, Away, IInv, TypeOK, RowsTypeOK, SchedTypeOK,
     Exists
<1>8. ASSUME NEW d \in Drains, NEW p \in Pipelines, DrainSkips(d, p) PROVE Away
  BY <1>8 DEF DrainSkips, Away, IInv, TypeOK, RowsTypeOK, SchedTypeOK,
     Exists
<1>9. ASSUME NEW l \in TestLanes, CancelPendingPr(l) PROVE Away
  BY <1>9 DEF CancelPendingPr, SetStatus, InLane, Away, IInv, TypeOK,
     RowsTypeOK, SchedTypeOK, Exists
<1>10. ASSUME NEW l \in TestLanes, RefreshInvalid(l) PROVE Away
  BY <1>10 DEF RefreshInvalid, ExplicitPending, SetStatus, InLane, Away,
     IInv, TypeOK, RowsTypeOK, SchedTypeOK, Exists
<1>11. ASSUME NEW p \in Pipelines, RunEnds(p) PROVE Away
  BY <1>11 DEF RunEnds, Away, IInv, TypeOK, RowsTypeOK, SchedTypeOK, Exists
<1>12. ASSUME NEW p \in Pipelines, TimeoutRead(p) \/ TimeoutKeep(p) PROVE Away
  BY <1>12 DEF TimeoutRead, TimeoutKeep, Away, IInv, TypeOK, RowsTypeOK,
     SchedTypeOK, Exists
<1>13. ASSUME NEW p \in Pipelines, TimeoutWrite(p) PROVE Away
  BY <1>13 DEF TimeoutWrite, SetStatus, RefsExist, Away, IInv, TypeOK,
     RowsTypeOK, SchedTypeOK, Exists
<1>14. ASSUME NEW p \in Pipelines, ExpireStale(p) PROVE Away
  BY <1>14 DEF ExpireStale, SetStatus, Away, IInv, TypeOK, RowsTypeOK,
     SchedTypeOK, Exists
<1>15. ASSUME NEW c \in Callers, NEW p \in Pipelines, StatusRead(c, p) \/ LogRead(c, p) PROVE Away
  BY <1>15 DEF StatusRead, LogRead, Away, IInv, TypeOK, RowsTypeOK,
     SchedTypeOK, Exists
<1>16. ASSUME NEW c \in Callers, StatusWrite(c) PROVE Away
  BY <1>16 DEF StatusWrite, SetStatus, Outcome, CallTypeOK, Away, IInv,
     TypeOK, RowsTypeOK, SchedTypeOK, Exists
<1>17. ASSUME NEW c \in Callers, CommitBuild(c) \/ AutoRetryFails(c) PROVE Away
  BY <1>17 DEF CommitBuild, AutoRetryFails, Away, IInv, TypeOK, RowsTypeOK,
     SchedTypeOK, Exists
<1>18. ASSUME NEW c \in Callers, LogWrite(c) PROVE Away
  BY <1>18 DEF LogWrite, CancelPipelines, Away, IInv, TypeOK, RowsTypeOK,
     SchedTypeOK, Exists
<1>19. ASSUME NEW l \in TestLanes, BotCancelRead(l) PROVE Away
  BY <1>19 DEF BotCancelRead, Away, IInv, TypeOK, RowsTypeOK, SchedTypeOK,
     Exists
<1>20. ASSUME BotCancelCommit PROVE Away
  BY <1>20 DEF BotCancelCommit, SetStatus, RefsExist, Away, IInv, TypeOK,
     RowsTypeOK, SchedTypeOK, Exists
<1>21. ASSUME BotCancelStop PROVE Away
  BY <1>21 DEF BotCancelStop, CancelPipelines, Away, IInv, TypeOK,
     RowsTypeOK, SchedTypeOK, Exists
<1>22. ASSUME UNCHANGED vars PROVE Away
  BY <1>22 DEF vars, Away, IInv, TypeOK, RowsTypeOK, SchedTypeOK, Exists
<1>. QED BY <1>1, <1>2, <1>3, <1>4, <1>5, <1>6, <1>7, <1>8, <1>9, <1>10,
            <1>11, <1>12, <1>13, <1>14, <1>15, <1>16, <1>17, <1>18, <1>19,
            <1>20, <1>21, <1>22
           DEF Next, SchedNext, CreateAny, CreatorStep, StartStep, DrainStep,
               CallbackNext, CallStep

-----------------------------------------------------------------------------
(* Insertion *)

(* A new row has an order of its own and has yet to supersede the others. *)
LEMMA InsertKeeps ==
  ASSUME IInv, QueueInv, NEW p \in Pipelines, NEW r, NEW o \in 0 .. MaxOrder,
         NEW s \in {"prepare", "start"},
         InsertRow(p, r, o), Goto(p, s),
         UNCHANGED <<outVars, tx, conflicts, claimed, faults>>,
         Debounced(r.kind) => /\ o > 0 /\ s = "prepare"
                              /\ \A q \in Pipelines : order[q] # o
  PROVE  QueueInv'
<1>1. /\ ~Exists(p) /\ status'[p] = "pending" /\ request'[p] = r /\ step'[p] = s
      /\ buildId' = buildId /\ purgeAsked' = purgeAsked
      /\ startAfter'[p] = IF Debounced(r.kind) THEN "future" ELSE "null"
      /\ order'[p] = IF Debounced(r.kind) THEN o ELSE 0
      /\ \A q \in Pipelines : q # p =>
           /\ status'[q] = status[q] /\ request'[q] = request[q] /\ step'[q] = step[q]
           /\ startAfter'[q] = startAfter[q] /\ order'[q] = order[q]
      /\ UNCHANGED <<tx, conflicts, claimed, faults>>
  BY DEF InsertRow, NextRow, Goto, outVars, IInv, TypeOK, RowsTypeOK, SchedTypeOK
<1>2. \A q \in Pipelines : Exists(q) => q # p /\ Exists(q)'
  BY <1>1 DEF Exists
<1>3. \A q \in Pipelines : Exists(q) => SameLane(q) \subseteq SameLane(q)'
  BY <1>1, <1>2 DEF SameLane, InLane
<1>4. OrderInv'
  BY <1>1 DEF QueueInv, OrderInv, Deb, Exists
<1>5. ClaimInv'
  <2>. SUFFICES ASSUME NEW q \in Pipelines
                PROVE  /\ step'[q] # "none" => Exists(q)'
                       /\ step'[q] \in {"locking", "superseding"} => claimed'[q] \subseteq SameLane(q)'
                       /\ step'[q] = "superseding" =>
                            \A x \in claimed'[q] :
                              GivesWay(x, q)' /\ (buildId'[x] => x \in purgeAsked')
    BY DEF ClaimInv
  <2>1. CASE q = p
    BY <1>1, <2>1 DEF Exists
  <2>2. CASE q # p
    BY <1>1, <1>2, <1>3, <2>2 DEF QueueInv, ClaimInv, GivesWay, SameLane, InLane
  <2>. QED BY <2>1, <2>2
<1>6. BuildInv'
  <2>1. \A x \in Pipelines : \A q \in conflicts[x] : q \in Pipelines /\ Exists(q)
    BY DEF IInv, RefsExist, TypeOK, SchedTypeOK
  <2>. QED BY <1>1, <1>2, <2>1 DEF QueueInv, BuildInv, Exists
<1>7. SupersededInv'
  BY <1>1, <1>2, SupersededStep
<1>8. DebounceInv'
  <2>1. tx[p] = "none"
    BY <1>1 DEF IInv, RefsExist, Starting
  <2>2. \A q \in Pipelines : q # p /\ Deb(q)' => Deb(q)
    BY <1>1 DEF Deb, Exists
  <2>3. \A x, y \in Pipelines : x # p /\ y # p /\ Rivals(x, y)' => Rivals(x, y)
    BY <1>1 DEF Rivals, Deb, Exists
  <2>4. \A x, y \in Pipelines : x # p /\ WillSupersede(x, y) => WillSupersede(x, y)'
    BY <1>1 DEF WillSupersede
  <2>5. \A y \in Pipelines : Deb(p)' => WillSupersede(p, y)'
    BY <1>1 DEF WillSupersede, Deb
  <2>6. \A x, y \in Pipelines : Rivals(x, y)' => Deb(x)' /\ Deb(y)'
    BY DEF Rivals
  <2>7. Deb(p)' => step'[p] = "prepare" /\ startAfter'[p] = "future" /\ ~Running(p)'
    BY <1>1 DEF Deb, Running
  <2>. QED BY <1>1, <2>1, <2>2, <2>3, <2>4, <2>5, <2>6, <2>7
           DEF QueueInv, DebounceInv, Running, Early
<1>. QED BY <1>4, <1>5, <1>6, <1>7, <1>8 DEF QueueInv

(* Webhooks and automatic retries insert such rows. *)
LEMMA InsertSteps ==
  ASSUME IInv, QueueInv,
         \/ \E p \in Pipelines, r \in TestRequests \cup ProdRequests : Create(p, r)
         \/ \E c \in Callers : AutoRetry(c)
  PROVE  QueueInv'
<1>1. ASSUME NEW p \in Pipelines, NEW r \in TestRequests \cup ProdRequests, Create(p, r)
      PROVE  QueueInv'
  <2>1. PICK o \in 0 .. MaxOrder :
          /\ Debounced(r.kind) => o > 0 /\ \A q \in Pipelines : order[q] # o
          /\ InsertRow(p, r, o)
    BY <1>1 DEF Create
  <2>2. /\ FirstStep(r.kind) \in {"prepare", "start"}
        /\ Debounced(r.kind) => FirstStep(r.kind) = "prepare"
    BY DEF FirstStep, Prepares, TestKinds, Debounced
  <2>. QED BY <1>1, <2>1, <2>2, InsertKeeps DEF Create
<1>2. ASSUME NEW c \in Callers, AutoRetry(c)
      PROVE  QueueInv'
  <2>1. PICK p \in Pipelines : InsertRow(p, RetryOf(request[call[c].row]), 0) /\ Goto(p, "start")
    BY <1>2 DEF AutoRetry
  <2>2. ~Debounced(RetryOf(request[call[c].row]).kind)
    BY DEF RetryOf, Debounced
  <2>3. 0 \in 0 .. MaxOrder
    BY BoundsAssumption
  <2>. QED BY <1>2, <2>1, <2>2, <2>3, InsertKeeps DEF AutoRetry
<1>. QED BY <1>1, <1>2

-----------------------------------------------------------------------------
(* The handler that supersedes *)

(* What a step of the handler of p owes when only its place, its claim and *)
(* the status of some rows change.                                         *)
Advances(p) ==
  /\ UNCHANGED <<request, startAfter, order, buildId, tx, conflicts, faults>>
  /\ purgeAsked \subseteq purgeAsked'
  /\ \A q \in Pipelines :
       /\ status'[q] = status[q] \/ (Exists(q) /\ status'[q] = "superseded")
       /\ q # p => step'[q] = step[q] /\ claimed'[q] = claimed[q]
  /\ Exists(p) /\ step'[p] # "none"

(* A handler may advance when its claim and what it supersedes are in order. *)
LEMMA AdvanceKeeps ==
  ASSUME IInv, QueueInv, NEW p \in Pipelines, Advances(p),
         step'[p] \in {"locking", "superseding"} => claimed'[p] \subseteq SameLane(p),
         step'[p] = "superseding" =>
           \A q \in claimed'[p] : GivesWay(q, p) /\ (buildId[q] => q \in purgeAsked'),
         \A q \in Pipelines : status'[q] = "superseded" /\ request[q].lane \in TestLanes =>
           status[q] = "superseded" \/ (Replaced(q) /\ (buildId[q] => q \in purgeAsked')),
         faults = 0 /\ Deb(p) =>
           /\ step[p] # "done"
           /\ step'[p] \in Early \cup {"done"}
           /\ \A q \in Pipelines : Rivals(p, q)' /\ WillSupersede(p, q) => WillSupersede(p, q)'
  PROVE  QueueInv'
<1>1. \A q \in Pipelines : Exists(q)' <=> Exists(q)
  BY DEF Advances, Exists
<1>2. \A q \in Pipelines : SameLane(q)' = SameLane(q) /\ (Deb(q)' <=> Deb(q))
  BY <1>1 DEF Advances, SameLane, InLane, Deb
<1>3. OrderInv'
  BY <1>2 DEF Advances, QueueInv, OrderInv
<1>4. ClaimInv'
  <2>. SUFFICES ASSUME NEW q \in Pipelines
                PROVE  /\ step'[q] # "none" => Exists(q)'
                       /\ step'[q] \in {"locking", "superseding"} => claimed'[q] \subseteq SameLane(q)'
                       /\ step'[q] = "superseding" =>
                            \A x \in claimed'[q] :
                              GivesWay(x, q)' /\ (buildId'[x] => x \in purgeAsked')
    BY DEF ClaimInv
  <2>1. CASE q = p
    BY <1>1, <1>2, <2>1 DEF Advances, GivesWay
  <2>2. CASE q # p
    BY <1>1, <1>2, <2>2 DEF Advances, QueueInv, ClaimInv, GivesWay
  <2>. QED BY <2>1, <2>2
<1>5. BuildInv'
  BY <1>1 DEF Advances, QueueInv, BuildInv
<1>6. SupersededInv'
  <2>1. \A q \in Pipelines : Replaced(q) => Replaced(q)'
    BY <1>2 DEF Advances, Replaced, GivesWay
  <2>. QED BY <1>1, <2>1, SupersededStep DEF Advances
<1>7. DebounceInv'
  <2>. SUFFICES ASSUME faults' = 0
                PROVE  /\ \A q \in Pipelines : Deb(q)' =>
                            /\ step'[q] \in Early \cup {"done"}
                            /\ step'[q] # "done" => /\ ~Running(q)' /\ tx'[q] = "none"
                                                    /\ startAfter'[q] = "future"
                       /\ \A x, y \in Pipelines :
                            Rivals(x, y)' => WillSupersede(x, y)' \/ WillSupersede(y, x)'
    BY DEF DebounceInv
  <2>1. faults = 0 /\ \A q \in Pipelines : Running(q)' => Running(q)
    BY DEF Advances, Running
  <2>2. ASSUME NEW q \in Pipelines, Deb(q)'
        PROVE  /\ step'[q] \in Early \cup {"done"}
               /\ step'[q] # "done" => /\ ~Running(q)' /\ tx'[q] = "none"
                                       /\ startAfter'[q] = "future"
    BY <1>2, <2>1, <2>2 DEF Advances, QueueInv, DebounceInv
  <2>3. ASSUME NEW x \in Pipelines, NEW y \in Pipelines, Rivals(x, y)'
        PROVE  WillSupersede(x, y)' \/ WillSupersede(y, x)'
    <3>1. Rivals(x, y) /\ Deb(x) /\ Deb(y) /\ Rivals(y, x)'
      BY <1>2, <2>3 DEF Advances, Rivals, Live
    <3>2. WillSupersede(x, y) \/ WillSupersede(y, x)
      BY <2>1, <3>1 DEF QueueInv, DebounceInv
    <3>3. x # p /\ WillSupersede(x, y) => WillSupersede(x, y)'
      BY DEF Advances, WillSupersede
    <3>4. y # p /\ WillSupersede(y, x) => WillSupersede(y, x)'
      BY DEF Advances, WillSupersede
    <3>. QED BY <2>1, <2>3, <3>1, <3>2, <3>3, <3>4
  <2>. QED BY <2>2, <2>3
<1>. QED BY <1>3, <1>4, <1>5, <1>6, <1>7 DEF QueueInv

(* The row itself and those a supersession holds are not being refreshed or started. *)
LEMMA HandlerSteps ==
  ASSUME IInv, QueueInv, NEW p \in Pipelines,
         Prepare(p) \/ SupersedeQuery(p) \/ SupersedeLock(p) \/ SupersedeCommit(p)
  PROVE  QueueInv'
<1>. USE DEF rowVars, outVars
<1>1. Exists(p)
  BY DEF Prepare, SupersedeQuery, SupersedeLock, SupersedeCommit, QueueInv, ClaimInv
<1>2. CASE Prepare(p)
  <2>1. Advances(p)
    BY <1>1, <1>2 DEF Prepare, Goto, Advances, IInv, TypeOK, SchedTypeOK
  <2>2. step'[p] \in {"supersede", "start", "done"} /\ status' = status
    BY <1>2 DEF Prepare, Goto, IInv, TypeOK, SchedTypeOK
  <2>3. ASSUME faults = 0, Deb(p)
        PROVE  /\ step[p] # "done"
               /\ step'[p] \in Early \cup {"done"}
               /\ \A q \in Pipelines : Rivals(p, q)' /\ WillSupersede(p, q) => WillSupersede(p, q)'
    <3>1. step[p] = "prepare" /\ ~Running(p)
      BY <1>2, <2>3 DEF Prepare, QueueInv, DebounceInv
    <3>2. step'[p] = IF status[p] # "pending" THEN "done" ELSE "supersede"
      BY <1>2, <2>3, DebouncedLanes DEF Prepare, Goto, IInv, TypeOK, SchedTypeOK
    <3>3. \A q \in Pipelines : Rivals(p, q)' => status[p] = "pending"
      BY <2>2, <3>1 DEF Rivals, Live, Running
    <3>. QED BY <3>1, <3>2, <3>3 DEF WillSupersede, Early
  <2>. QED BY <2>1, <2>2, <2>3, AdvanceKeeps
<1>3. CASE SupersedeQuery(p)
  <2>1. Advances(p) /\ step'[p] = "locking" /\ status' = status
        /\ claimed'[p] = LiveRows(SameLane(p))
    BY <1>1, <1>3 DEF SupersedeQuery, Goto, Advances, IInv, TypeOK, SchedTypeOK
  <2>2. claimed'[p] \subseteq SameLane(p)
    BY <2>1 DEF LiveRows
  <2>3. \A q \in Pipelines : Rivals(p, q)' => q \in claimed'[p]
    BY <2>1 DEF Advances, Rivals, Deb, LiveRows, SameLane, InLane, Exists
  <2>4. step[p] # "done"
    BY <1>3 DEF SupersedeQuery
  <2>. QED BY <2>1, <2>2, <2>3, <2>4, AdvanceKeeps DEF WillSupersede, Early
<1>4. CASE SupersedeLock(p)
  <2>. DEFINE rivals == LiveRows(claimed[p])
              givesWay == startAfter[p] # "null" /\ \E q \in rivals : RequestedAfter(q, p)
  <2>1. step[p] = "locking" /\ claimed[p] \subseteq SameLane(p)
    BY <1>4 DEF SupersedeLock, QueueInv, ClaimInv
  <2>2. rivals \subseteq SameLane(p)
    BY <2>1 DEF LiveRows
  <2>3. AfterSupersede(p) \in {"queue", "done"} /\ (Deb(p) => AfterSupersede(p) = "done")
    BY DEF AfterSupersede, QueueInv, OrderInv
  <2>4. CASE status[p] # "pending" \/ givesWay
    <3>1. /\ SetStatus(IF status[p] = "pending" THEN {p} ELSE {}, "superseded")
          /\ step'[p] = AfterSupersede(p)
      BY <1>4, <2>4 DEF SupersedeLock, Goto, IInv, TypeOK, SchedTypeOK
    <3>2. Advances(p)
      BY <1>1, <1>4, <2>3, <2>4, <3>1 DEF SupersedeLock, Goto, SetStatus, Advances, IInv, TypeOK,
         RowsTypeOK, SchedTypeOK
    <3>3. ASSUME status[p] = "pending" PROVE Replaced(p) /\ ~buildId[p]
      <4>1. PICK q \in rivals : RequestedAfter(q, p)
        BY <2>4, <3>3
      <4>. QED BY <2>2, <3>3, <4>1 DEF RequestedAfter, Replaced, GivesWay, QueueInv, BuildInv
    <3>4. \A q \in Pipelines : status'[q] = "superseded" =>
            status[q] = "superseded" \/ (q = p /\ status[p] = "pending")
      BY <3>1 DEF SetStatus
    <3>5. faults = 0 /\ Deb(p) => \A q \in Pipelines : ~Rivals(p, q)'
      <4>1. faults = 0 /\ Deb(p) => status[p] # "running"
        BY <2>1 DEF QueueInv, DebounceInv, Running
      <4>. QED BY <3>1, <4>1 DEF SetStatus, Rivals, Live
    <3>. QED BY <2>1, <2>3, <3>1, <3>2, <3>3, <3>4, <3>5, AdvanceKeeps DEF Early
  <2>5. CASE status[p] = "pending" /\ ~givesWay
    <3>1. /\ claimed'[p] = rivals /\ step'[p] = "superseding" /\ status' = status
          /\ purgeAsked' = purgeAsked \cup WithBuild(rivals)
      BY <1>4, <2>5 DEF SupersedeLock, Goto, CancelPipelines, IInv, TypeOK, SchedTypeOK
    <3>2. Advances(p)
      BY <1>1, <1>4, <2>5, <3>1 DEF SupersedeLock, Goto, Advances, IInv, TypeOK, RowsTypeOK,
         SchedTypeOK
    <3>3. ASSUME NEW q \in rivals PROVE GivesWay(q, p)
      <4>1. q \in Pipelines /\ q # p /\ Exists(q)
        BY <2>2 DEF SameLane, InLane
      <4>2. SUFFICES ASSUME Debounced(request[q].kind), Debounced(request[p].kind)
                     PROVE  order[p] > order[q]
        BY DEF GivesWay
      <4>3. startAfter[p] # "null" /\ startAfter[q] # "null" /\ order[p] > 0 /\ order[p] # order[q]
        BY <1>1, <4>1, <4>2 DEF QueueInv, OrderInv, Deb
      <4>4. ~(order[q] > order[p])
        BY <2>5, <4>3 DEF RequestedAfter
      <4>. QED BY <4>1, <4>3, <4>4, BoundsAssumption DEF IInv, TypeOK, RowsTypeOK
    <3>4. \A q \in rivals : buildId[q] => q \in purgeAsked'
      BY <3>1 DEF WithBuild
    <3>5. \A q \in Pipelines : Rivals(p, q)' /\ q \in claimed[p] => q \in rivals
      BY <3>1 DEF Rivals, LiveRows
    <3>. QED BY <2>1, <2>2, <3>1, <3>2, <3>3, <3>4, <3>5, AdvanceKeeps DEF Early, WillSupersede
  <2>. QED BY <2>4, <2>5
<1>5. CASE SupersedeCommit(p)
  <2>1. /\ step[p] = "superseding" /\ claimed[p] \subseteq SameLane(p)
        /\ \A q \in claimed[p] : GivesWay(q, p) /\ (buildId[q] => q \in purgeAsked)
    BY <1>5 DEF SupersedeCommit, QueueInv, ClaimInv
  <2>2. /\ SetStatus(claimed[p], "superseded") /\ purgeAsked' = purgeAsked
        /\ step'[p] = AfterSupersede(p)
    BY <1>5 DEF SupersedeCommit, Goto, IInv, TypeOK, SchedTypeOK
  <2>3. AfterSupersede(p) \in {"queue", "done"} /\ (Deb(p) => AfterSupersede(p) = "done")
    BY DEF AfterSupersede, QueueInv, OrderInv
  <2>4. Advances(p)
    BY <1>1, <1>5, <2>1, <2>2, <2>3 DEF SupersedeCommit, Goto, SetStatus, SameLane, InLane,
       Advances, IInv, TypeOK, SchedTypeOK
  <2>5. \A q \in claimed[p] : p \in SameLane(q)
    BY <1>1, <2>1 DEF SameLane, InLane
  <2>6. \A q \in Pipelines : status'[q] = "superseded" =>
          status[q] = "superseded" \/ (Replaced(q) /\ (buildId[q] => q \in purgeAsked'))
    BY <2>1, <2>2, <2>5 DEF SetStatus, Replaced
  <2>7. \A q \in Pipelines : Rivals(p, q)' => ~WillSupersede(p, q)
    BY <2>1, <2>2 DEF WillSupersede, Rivals, SetStatus, Live
  <2>. QED BY <2>1, <2>2, <2>3, <2>4, <2>6, <2>7, AdvanceKeeps DEF Early
<1>. QED BY <1>2, <1>3, <1>4, <1>5

-----------------------------------------------------------------------------
(* Refreshes, starts and crashes *)

(* A refresh makes the newest explicit row later and supersedes the others. *)
LEMMA RefreshKeeps ==
  ASSUME IInv, QueueInv, NEW l \in TestLanes, RefreshExplicit(l)
  PROVE  QueueInv'
<1>. DEFINE rows == ExplicitPending(l)
<1>1. PICK p \in rows, o \in 1 .. MaxOrder :
        /\ \A q \in rows : order[q] <= order[p]
        /\ \A q \in Pipelines : order[q] < o
        /\ SetStatus(rows \ {p}, "superseded")
        /\ startAfter' = [startAfter EXCEPT ![p] = "future"]
        /\ order' = [order EXCEPT ![p] = o]
  BY DEF RefreshExplicit
<1>2. /\ UNCHANGED <<request, prepared, buildId, logUrl, provider, outVars, schedVars>>
      /\ \A q \in rows : q \in Pipelines /\ status[q] = "pending" /\ request[q].lane = l /\ ~Locked(q)
  BY DEF RefreshExplicit, ExplicitPending, InLane, AllFree
<1>3. /\ p \in Pipelines /\ order'[p] = o /\ startAfter'[p] = "future"
      /\ \A q \in Pipelines : q # p => order'[q] = order[q] /\ startAfter'[q] = startAfter[q]
  BY <1>1, <1>2 DEF IInv, TypeOK, RowsTypeOK
<1>4. \A q \in Pipelines : order[q] \in Nat /\ order'[q] \in Nat /\ order[q] <= order'[q]
  BY <1>1, <1>3, BoundsAssumption DEF IInv, TypeOK, RowsTypeOK
<1>5. \A q \in Pipelines :
        /\ status'[q] = IF q \in rows \ {p} THEN "superseded" ELSE status[q]
        /\ Exists(q)' <=> Exists(q)
  BY <1>1, <1>2 DEF SetStatus, Exists
<1>6. \A q \in Pipelines : SameLane(q)' = SameLane(q) /\ (Deb(q)' <=> Deb(q))
  BY <1>2, <1>5 DEF SameLane, InLane, Deb
<1>7. OrderInv'
  BY <1>1, <1>3, <1>4, <1>6 DEF QueueInv, OrderInv
<1>8. ClaimInv'
  <2>1. \A x \in Pipelines : step[x] = "superseding" => p \notin claimed[x]
    BY <1>2 DEF Locked
  <2>2. ASSUME NEW x \in Pipelines, step[x] = "superseding", NEW q \in claimed[x]
        PROVE  GivesWay(q, x)'
    <3>1. q \in Pipelines /\ q # p /\ GivesWay(q, x)
      BY <2>1, <2>2 DEF QueueInv, ClaimInv, IInv, TypeOK, SchedTypeOK
    <3>2. order'[q] = order[q] /\ order[x] <= order'[x] /\ order[x] \in Nat /\ order'[x] \in Nat
          /\ order[q] \in Nat
      BY <1>3, <1>4, <3>1
    <3>. QED BY <1>2, <3>1, <3>2 DEF GivesWay
  <2>. QED BY <1>2, <1>5, <1>6, <2>2 DEF QueueInv, ClaimInv, schedVars, outVars
<1>9. BuildInv'
  BY <1>2, <1>5 DEF QueueInv, BuildInv, schedVars
<1>10. SupersededInv'
  <2>1. ASSUME NEW q \in rows \ {p} PROVE Replaced(q)' /\ ~buildId'[q]
    <3>1. p \in SameLane(q)'
      BY <1>1, <1>2, <1>6 DEF SameLane, InLane, Exists
    <3>2. order'[p] > order'[q]
      BY <1>1, <1>2, <1>3, <1>4, <2>1
    <3>. QED BY <1>2, <2>1, <3>1, <3>2 DEF Replaced, GivesWay, QueueInv, BuildInv
  <2>2. ASSUME NEW x \in Pipelines, NEW y \in Pipelines, order[y] > order[x],
               status[x] = "superseded"
        PROVE  order'[y] > order'[x]
    <3>1. x # p
      BY <1>1, <1>2, <2>2
    <3>2. order'[x] = order[x] /\ order[y] <= order'[y] /\ order[y] \in Nat /\ order'[y] \in Nat
          /\ order[x] \in Nat
      BY <1>3, <1>4, <3>1
    <3>. QED BY <2>2, <3>2
  <2>. QED BY <1>2, <1>5, <2>1, <2>2, SupersededStep DEF outVars
<1>11. DebounceInv'
  <2>1. \A x, y \in Pipelines : Rivals(x, y)' => Rivals(x, y)
    BY <1>2, <1>5, <1>6 DEF Rivals, Live
  <2>2. \A x, y \in Pipelines : WillSupersede(x, y)' <=> WillSupersede(x, y)
    BY <1>2 DEF WillSupersede, schedVars
  <2>3. \A x \in Pipelines : Running(x)' => Running(x)
    BY <1>5 DEF Running
  <2>. QED BY <1>2, <1>3, <1>6, <2>1, <2>2, <2>3 DEF QueueInv, DebounceInv, schedVars
<1>. QED BY <1>7, <1>8, <1>9, <1>10, <1>11 DEF QueueInv

(* A debounced row begins to start only after its handler is done. *)
LEMMA BeginQueueKeeps ==
  ASSUME IInv, QueueInv, NEW p \in Pipelines, BeginStart(p),
         step'[p] = step[p] \/ (step[p] = "start" /\ step'[p] = "starting"),
         \A q \in Pipelines : q # p => step'[q] = step[q]
  PROVE  QueueInv'
<1>1. /\ Startable(p)
      /\ conflicts'[p] = StartRivals(p) /\ tx'[p] = "begun"
      /\ \A q \in Pipelines : q # p => tx'[q] = tx[q] /\ conflicts'[q] = conflicts[q]
      /\ UNCHANGED <<status, request, startAfter, order, buildId, claimed, faults>>
      /\ purgeAsked \subseteq purgeAsked'
  BY DEF BeginStart, CancelPipelines, rowVars, IInv, TypeOK, SchedTypeOK
<1>2. \A q \in Pipelines : (Exists(q)' <=> Exists(q)) /\ SameLane(q)' = SameLane(q)
        /\ (Deb(q)' <=> Deb(q))
  BY <1>1 DEF Exists, SameLane, InLane, Deb
<1>3. OrderInv'
  BY <1>1, <1>2 DEF QueueInv, OrderInv
<1>4. ClaimInv'
  BY <1>1, <1>2 DEF QueueInv, ClaimInv, GivesWay
<1>5. BuildInv'
  <2>1. \A q \in StartRivals(p) : request[q].lane \in ProdLanes
    BY DEF StartRivals, LiveRows, SameLane, InLane
  <2>. QED BY <1>1, <2>1 DEF QueueInv, BuildInv
<1>6. SupersededInv'
  BY <1>1, <1>2, SupersededStep
<1>7. DebounceInv'
  <2>1. \A x, y \in Pipelines : Rivals(x, y)' => Rivals(x, y)
    BY <1>1, <1>2 DEF Rivals
  <2>2. \A x, y \in Pipelines : WillSupersede(x, y) => WillSupersede(x, y)'
    BY <1>1 DEF WillSupersede
  <2>3. faults = 0 /\ Deb(p) => step[p] = "done"
    BY <1>1 DEF QueueInv, DebounceInv, Startable
  <2>. QED BY <1>1, <1>2, <2>1, <2>2, <2>3 DEF QueueInv, DebounceInv, Running, Early
<1>. QED BY <1>3, <1>4, <1>5, <1>6, <1>7 DEF QueueInv

(* Handlers and drains begin starts in this way. *)
LEMMA BeginSteps ==
  ASSUME IInv, QueueInv,
         \/ \E p \in Pipelines : CreatorStarts(p)
         \/ \E d \in Drains, p \in Pipelines : DrainStarts(d, p)
  PROVE  QueueInv'
<1>1. ASSUME NEW p \in Pipelines, CreatorStarts(p) PROVE QueueInv'
  <2>1. /\ BeginStart(p) /\ step[p] = "start" /\ step'[p] = "starting"
        /\ \A q \in Pipelines : q # p => step'[q] = step[q]
    BY <1>1 DEF CreatorStarts, Goto, IInv, TypeOK, SchedTypeOK
  <2>. QED BY <2>1, BeginQueueKeeps
<1>2. ASSUME NEW d \in Drains, NEW p \in Pipelines, DrainStarts(d, p) PROVE QueueInv'
  <2>1. BeginStart(p) /\ step' = step
    BY <1>2 DEF DrainStarts
  <2>. QED BY <2>1, BeginQueueKeeps
<1>. QED BY <1>1, <1>2

(* A start commits no row that a supersession holds. *)
LEMMA CommitKeeps ==
  ASSUME IInv, QueueInv, NEW p \in Pipelines, StartCommit(p)
  PROVE  QueueInv'
<1>1. /\ status[p] = "pending" /\ tx[p] # "none" /\ tx'[p] = "none"
      /\ \A q \in Pipelines :
           /\ status'[q] = IF q = p THEN "running"
                           ELSE IF q \in conflicts[p] THEN "superseded" ELSE status[q]
           /\ q # p => buildId'[q] = buildId[q] /\ tx'[q] = tx[q] /\ step'[q] = step[q]
           /\ conflicts'[q] \subseteq conflicts[q]
      /\ step'[p] = IF step[p] = "starting" THEN "done" ELSE step[p]
      /\ UNCHANGED <<request, startAfter, order, claimed, faults, purgeAsked>>
  BY DEF StartCommit, EndStart, outVars, IInv, TypeOK, RowsTypeOK, SchedTypeOK, LocksHold, Starting
<1>2. \A q \in conflicts[p] : q \in Pipelines /\ Exists(q) /\ request[q].lane \in ProdLanes
  BY DEF QueueInv, BuildInv, IInv, RefsExist, TypeOK, SchedTypeOK
<1>3. \A q \in Pipelines : Exists(q)' <=> Exists(q)
  BY <1>1, <1>2 DEF Exists
<1>4. \A q \in Pipelines : SameLane(q)' = SameLane(q) /\ (Deb(q)' <=> Deb(q))
  BY <1>1, <1>3 DEF SameLane, InLane, Deb
<1>5. OrderInv'
  BY <1>1, <1>4 DEF QueueInv, OrderInv
<1>6. ClaimInv'
  <2>1. \A x \in Pipelines : step[x] = "superseding" => p \notin claimed[x]
    BY <1>1 DEF IInv, LocksHold, Starting
  <2>2. \A x \in Pipelines : \A q \in claimed[x] : q \in Pipelines
    BY DEF IInv, TypeOK, SchedTypeOK
  <2>. QED BY <1>1, <1>3, <1>4, <2>1, <2>2 DEF QueueInv, ClaimInv, GivesWay
<1>7. BuildInv'
  BY <1>1 DEF QueueInv, BuildInv
<1>8. SupersededInv'
  <2>1. \A q \in Pipelines : status'[q] = "superseded" /\ request'[q].lane \in TestLanes =>
          status[q] = "superseded"
    BY <1>1, <1>2, LanesAssumption
  <2>2. \A q \in Pipelines : status[q] = "superseded" => buildId'[q] = buildId[q]
    BY <1>1
  <2>. QED BY <1>1, <1>3, <2>1, <2>2, SupersededStep
<1>9. DebounceInv'
  <2>1. \A x, y \in Pipelines : Rivals(x, y)' => Rivals(x, y)
    BY <1>1, <1>4 DEF Rivals, Live
  <2>2. \A x, y \in Pipelines : WillSupersede(x, y) => WillSupersede(x, y)'
    BY <1>1 DEF WillSupersede
  <2>3. faults = 0 /\ Deb(p) => step[p] = "done"
    BY <1>1 DEF QueueInv, DebounceInv
  <2>4. \A q \in Pipelines : q # p /\ Running(q)' => Running(q)
    BY <1>1 DEF Running
  <2>. QED BY <1>1, <1>4, <2>1, <2>2, <2>3, <2>4 DEF QueueInv, DebounceInv
<1>. QED BY <1>5, <1>6, <1>7, <1>8, <1>9 DEF QueueInv

(* A crash releases every claim and touches no row. *)
LEMMA CrashKeeps ==
  ASSUME IInv, QueueInv, Crash
  PROVE  QueueInv'
<1>. USE DEF rowVars, outVars
<1>1. faults' # 0
  BY DEF Crash, IInv, TypeOK, SchedTypeOK
<1>2. DebounceInv'
  BY <1>1 DEF DebounceInv
<1>3. OrderInv'
  BY DEF Crash, QueueInv, OrderInv, Deb, Exists
<1>4. ClaimInv' /\ BuildInv'
  BY DEF Crash, QueueInv, ClaimInv, BuildInv, Exists
<1>5. SupersededInv'
  BY SupersededStep DEF Crash, Exists
<1>. QED BY <1>2, <1>3, <1>4, <1>5 DEF QueueInv

(* Every step preserves the invariant of the queue. *)
LEMMA QueueNext ==
  ASSUME IInv, QueueInv, [Next]_vars
  PROVE  QueueInv'
BY AwaySteps, AwayKeeps, InsertSteps, HandlerSteps, RefreshKeeps, BeginSteps, CommitKeeps,
   CrashKeeps

(* The invariant of the queue holds in every reachable state. *)
THEOREM QueueInvariance == Spec => []QueueInv
BY Invariance, QueueInit, QueueNext, PTL DEF Spec

(***************************************************************************)
(* A superseded debounced build gave way to a later request of its pull    *)
(* request or to an immediate one, for any interleaving of the handlers    *)
(* that supersede, refresh and start: under its locks a handler supersedes *)
(* only rows ordered before its own, and a refresh only makes a row later. *)
(***************************************************************************)
THEOREM NoRequestLost == Spec => []LatestRequestSurvives
<1>1. QueueInv => LatestRequestSurvives
  BY DEF QueueInv, SupersededInv
<1> QED
  BY QueueInvariance, <1>1, PTL

(***************************************************************************)
(* The build of a superseded test row was asked to be purged: no start can *)
(* store a build in a row between the purge and the commit, and a row that *)
(* is superseded while pending has none.                                   *)
(***************************************************************************)
THEOREM SupersededPurged == Spec => []SupersededTestBuildPurged
<1>1. QueueInv => SupersededTestBuildPurged
  BY DEF QueueInv, SupersededInv
<1> QED
  BY QueueInvariance, <1>1, PTL

(***************************************************************************)
(* Two debounced builds of one pull request never both run, without a      *)
(* crash: of two live ones, the handler of one has yet to supersede the    *)
(* other, and its own row cannot start before it has.                      *)
(***************************************************************************)
THEOREM DebounceExcludes == Spec => []DebouncedExclusive
<1>1. IInv /\ QueueInv => DebouncedExclusive
  <2>1. \A p \in Pipelines : Running(p) => Exists(p) /\ status[p] \in Live
    BY DEF Running, Exists, Live
  <2>. QED BY <2>1 DEF QueueInv, DebounceInv, DebouncedExclusive, Rivals, WillSupersede, Deb
<1> QED
  BY Invariance, QueueInvariance, <1>1, PTL

-----------------------------------------------------------------------------
(* Success *)

(* A run that ended was dispatched, and its row is not being started. *)
RunsInv ==
  \A p \in Pipelines :
    /\ run[p] # "none" => dispatches[p] > 0
    /\ faults = 0 /\ run[p] \in Results => tx[p] = "none"

(* A status callback knows the build its row will keep. *)
CallsInv ==
  faults = 0 =>
    \A c \in Callers :
      call[c].phase \in {"status", "commit", "retry"} =>
        /\ run[call[c].row] \in Results
        /\ call[c].build = buildId[call[c].row]
        /\ call[c].infra => call[c].value # "success"

CommitInv ==
  faults = 0 =>
    \A p \in Pipelines :
      status[p] = "succeeded" /\ buildId[p] =>
        p \in commitAsked \/ \E c \in Callers : call[c].phase = "commit" /\ call[c].row = p

SuccessInv == RunsInv /\ CallsInv /\ CommitInv

(* Nothing was dispatched and no callback is served. *)
LEMMA SuccessInit == Init => SuccessInv
BY DEF Init, RowsInit, SchedInit, CallInit, SuccessInv, RunsInv, CallsInv, CommitInv, NoCall,
       Results

(* A row whose run ended, or that a callback serves, is not started. *)
LEMMA EndedNotStarted ==
  ASSUME IInv, StartsInv, SuccessInv, faults = 0, NEW p \in Pipelines, run[p] \in Results
  PROVE  tx[p] = "none" /\ (status[p] = "pending" => Prod(p) /\ step[p] = "done")
BY DEF SuccessInv, RunsInv, StartsInv, DispatchInv, Spent, Results

(* Steps that touch no run, no build and no callback. *)
Aside ==
  /\ UNCHANGED <<run, buildId, commitAsked, dispatches, call>>
  /\ faults' = 0 => faults = 0
  /\ \A q \in Pipelines : /\ status'[q] = "succeeded" => status[q] = "succeeded"
                          /\ tx[q] = "none" => tx'[q] = "none"

(* A step aside touches nothing the invariant of success is about. *)
LEMMA AsideKeeps ==
  ASSUME SuccessInv, Aside
  PROVE  SuccessInv'
BY DEF Aside, SuccessInv, RunsInv, CallsInv, CommitInv

(* Every step is aside, or one of those treated below. *)
LEMMA AsideSteps ==
  ASSUME IInv, [Next]_vars
  PROVE  \/ Aside \/ Crash
         \/ /\ UNCHANGED callVars
            /\ \/ \E p \in Pipelines : \/ CreatorStarts(p) \/ StartDispatch(p) \/ LoseReply(p)
                                      \/ StartCommit(p) \/ RunEnds(p)
               \/ \E d \in Drains, p \in Pipelines : DrainStarts(d, p)
         \/ \E c \in Callers, p \in Pipelines : StatusRead(c, p) \/ LogRead(c, p)
         \/ \E c \in Callers : CallStep(c)
<1>. USE DEF rowVars, outVars, schedVars, callVars
<1>1. ASSUME NEW p \in Pipelines, NEW r \in TestRequests \cup ProdRequests, Create(p, r), UNCHANGED callVars
      PROVE  Aside
  BY <1>1 DEF Create, InsertRow, Aside, IInv, TypeOK, RowsTypeOK,
     SchedTypeOK
<1>2. ASSUME NEW p \in Pipelines, Prepare(p), UNCHANGED callVars PROVE Aside
  BY <1>2 DEF Prepare, Aside, IInv, TypeOK, RowsTypeOK, SchedTypeOK
<1>3. ASSUME NEW p \in Pipelines, SupersedeQuery(p), UNCHANGED callVars PROVE Aside
  BY <1>3 DEF SupersedeQuery, Aside, IInv, TypeOK, RowsTypeOK, SchedTypeOK
<1>4. ASSUME NEW p \in Pipelines, SupersedeLock(p), UNCHANGED callVars PROVE Aside
  BY <1>4 DEF SupersedeLock, SetStatus, Aside, IInv, TypeOK, RowsTypeOK,
     SchedTypeOK
<1>5. ASSUME NEW p \in Pipelines, SupersedeCommit(p), UNCHANGED callVars PROVE Aside
  BY <1>5 DEF SupersedeCommit, SetStatus, Aside, IInv, TypeOK, RowsTypeOK,
     SchedTypeOK
<1>6. ASSUME NEW p \in Pipelines, QueueCheck(p) \/ CreatorRefused(p), UNCHANGED callVars
      PROVE  Aside
  BY <1>6 DEF QueueCheck, CreatorRefused, Aside, IInv, TypeOK, RowsTypeOK,
     SchedTypeOK
<1>7. ASSUME NEW p \in Pipelines, DebounceExpires(p), UNCHANGED callVars PROVE Aside
  BY <1>7 DEF DebounceExpires, Aside, IInv, TypeOK, RowsTypeOK, SchedTypeOK
<1>8. ASSUME NEW p \in Pipelines, StartFail(p) \/ StartDeadlock(p), UNCHANGED callVars
      PROVE  Aside
  <2>1. EndStart(p, FALSE) /\ UNCHANGED <<rowVars, outVars, faults>>
    BY <1>8 DEF StartFail, StartDeadlock
  <2>. QED BY <1>8, <2>1 DEF EndStart, Aside, IInv, TypeOK, SchedTypeOK
<1>9. ASSUME NEW d \in Drains, DrainBegin(d), UNCHANGED callVars PROVE Aside
  BY <1>9 DEF DrainBegin, Aside, IInv, TypeOK, RowsTypeOK, SchedTypeOK
<1>10. ASSUME NEW d \in Drains, NEW p \in Pipelines, DrainSkips(d, p), UNCHANGED callVars
      PROVE  Aside
  BY <1>10 DEF DrainSkips, Aside, IInv, TypeOK, RowsTypeOK, SchedTypeOK
<1>11. ASSUME NEW l \in TestLanes, CancelPendingPr(l) \/ RefreshInvalid(l), UNCHANGED callVars
      PROVE  Aside
  BY <1>11 DEF CancelPendingPr, RefreshInvalid, SetStatus, Aside, IInv,
     TypeOK, RowsTypeOK, SchedTypeOK
<1>12. ASSUME NEW l \in TestLanes, RefreshExplicit(l), UNCHANGED callVars PROVE Aside
  BY <1>12 DEF RefreshExplicit, SetStatus, Aside, IInv, TypeOK, RowsTypeOK,
     SchedTypeOK
<1>13. ASSUME NEW p \in Pipelines, TimeoutRead(p) \/ TimeoutKeep(p) PROVE Aside
  BY <1>13 DEF TimeoutRead, TimeoutKeep, Aside, IInv, TypeOK, RowsTypeOK,
     SchedTypeOK
<1>14. ASSUME NEW p \in Pipelines, TimeoutWrite(p) PROVE Aside
  BY <1>14 DEF TimeoutWrite, SetStatus, Aside, IInv, TypeOK, RowsTypeOK,
     SchedTypeOK
<1>15. ASSUME NEW p \in Pipelines, ExpireStale(p) PROVE Aside
  BY <1>15 DEF ExpireStale, SetStatus, Aside, IInv, TypeOK, RowsTypeOK,
     SchedTypeOK
<1>16. ASSUME NEW l \in TestLanes, BotCancelRead(l) PROVE Aside
  BY <1>16 DEF BotCancelRead, Aside, IInv, TypeOK, RowsTypeOK, SchedTypeOK
<1>17. ASSUME BotCancelCommit PROVE Aside
  BY <1>17 DEF BotCancelCommit, SetStatus, Aside, IInv, TypeOK, RowsTypeOK,
     SchedTypeOK
<1>18. ASSUME BotCancelStop PROVE Aside
  BY <1>18 DEF BotCancelStop, CancelPipelines, Aside, IInv, TypeOK,
     RowsTypeOK, SchedTypeOK
<1>19. ASSUME UNCHANGED vars PROVE Aside
  BY <1>19 DEF vars, Aside, IInv, TypeOK, RowsTypeOK, SchedTypeOK
<1>. QED BY <1>1, <1>2, <1>3, <1>4, <1>5, <1>6, <1>7, <1>8, <1>9, <1>10,
            <1>11, <1>12, <1>13, <1>14, <1>15, <1>16, <1>17, <1>18, <1>19
           DEF Next, SchedNext, CreateAny, CreatorStep, StartStep, DrainStep, CallbackNext,
               RunEnds

(* A start that begins is of a row whose run has not ended. *)
LEMMA SuccessBegins ==
  ASSUME IInv, StartsInv, SuccessInv, NEW p \in Pipelines, BeginStart(p), call' = call,
         Prod(p) => step[p] # "done"
  PROVE  SuccessInv'
<1>1. /\ status[p] = "pending"
      /\ \A q \in Pipelines : q # p => tx'[q] = tx[q]
      /\ UNCHANGED <<status, run, buildId, commitAsked, dispatches, call, faults>>
  BY DEF BeginStart, Startable, rowVars, IInv, TypeOK, SchedTypeOK
<1>2. faults = 0 => run[p] \notin Results
  BY <1>1, EndedNotStarted
<1>. QED BY <1>1, <1>2 DEF SuccessInv, RunsInv, CallsInv, CommitInv

(* No step of a start or of a run changes the build a callback has read. *)
LEMMA SuccessStarts ==
  ASSUME IInv, StartsInv, SuccessInv, UNCHANGED callVars, NEW p \in Pipelines,
         \/ CreatorStarts(p) \/ StartDispatch(p) \/ LoseReply(p) \/ StartCommit(p) \/ RunEnds(p)
         \/ \E d \in Drains : DrainStarts(d, p)
  PROVE  SuccessInv'
<1>. USE DEF callVars
<1>0. \A c \in Callers : call[c].phase \in {"status", "commit", "retry"} =>
        call[c].row \in Pipelines
  BY DEF IInv, TypeOK, CallTypeOK
<1>1. CASE CreatorStarts(p)
  BY <1>1, SuccessBegins DEF CreatorStarts
<1>2. ASSUME NEW d \in Drains, DrainStarts(d, p) PROVE SuccessInv'
  <2>1. ~Prod(p)
    BY <1>2, LanesAssumption DEF DrainStarts, NextDue, IInv, PushPrepared, Prod
  <2>. QED BY <1>2, <2>1, SuccessBegins DEF DrainStarts
<1>3. CASE StartDispatch(p) \/ LoseReply(p)
  <2>1. /\ run'[p] = "active" /\ dispatches'[p] > 0
        /\ \A q \in Pipelines : q # p => run'[q] = run[q] /\ dispatches'[q] = dispatches[q]
        /\ \A q \in Pipelines : tx[q] = "none" => tx'[q] = "none"
        /\ UNCHANGED <<status, buildId, commitAsked>>
        /\ faults' = 0 => faults = 0
        /\ tx[p] # "none"
    BY <1>3 DEF StartDispatch, LoseReply, rowVars, IInv, TypeOK, RowsTypeOK, SchedTypeOK
  <2>2. faults = 0 => run[p] \notin Results
    BY <2>1, EndedNotStarted
  <2>. QED BY <1>0, <2>1, <2>2 DEF SuccessInv, RunsInv, CallsInv, CommitInv, Results
<1>4. CASE StartCommit(p)
  <2>1. /\ \A q \in Pipelines : q # p => buildId'[q] = buildId[q] /\ tx'[q] = tx[q]
        /\ tx'[p] = "none" /\ tx[p] # "none"
        /\ \A q \in Pipelines : status'[q] = "succeeded" => q # p /\ status[q] = "succeeded"
        /\ UNCHANGED <<run, dispatches, commitAsked, faults>>
    BY <1>4 DEF StartCommit, EndStart, outVars, IInv, TypeOK, RowsTypeOK, SchedTypeOK
  <2>2. faults = 0 => run[p] \notin Results
    BY <2>1, EndedNotStarted
  <2>. QED BY <1>0, <2>1, <2>2 DEF SuccessInv, RunsInv, CallsInv, CommitInv
<1>5. CASE RunEnds(p)
  <2>1. /\ \A q \in Pipelines : q # p => run'[q] = run[q]
        /\ run[p] = "active" /\ tx[p] = "none" /\ run'[p] \in Results
        /\ UNCHANGED <<status, buildId, dispatches, commitAsked, faults, tx>>
    BY <1>5 DEF RunEnds, rowVars, schedVars, IInv, TypeOK, RowsTypeOK
  <2>. QED BY <1>0, <2>1 DEF SuccessInv, RunsInv, CallsInv, CommitInv, Results
<1>. QED BY <1>1, <1>2, <1>3, <1>4, <1>5

(* A callback that stores SUCCEEDED for a row with a build goes on to commit it. *)
LEMMA SuccessCalls ==
  ASSUME IInv, StartsInv, SuccessInv, NEW c \in Callers,
         CallStep(c) \/ \E p \in Pipelines : StatusRead(c, p) \/ LogRead(c, p)
  PROVE  SuccessInv'
<1>. USE DEF outVars, schedVars
<1>1. /\ UNCHANGED <<run, dispatches, buildId>>
      /\ \A d \in Callers : d # c => call'[d] = call[d]
      /\ commitAsked \subseteq commitAsked'
      /\ faults' = 0 => faults = 0
      /\ \A q \in Pipelines : tx[q] = "none" => tx'[q] = "none"
  BY DEF CallStep, StatusWrite, CommitBuild, AutoRetry, InsertRow, AutoRetryFails, LogWrite, StatusRead, LogRead,
     rowVars, IInv, TypeOK, CallTypeOK
<1>2. RunsInv'
  BY <1>1 DEF SuccessInv, RunsInv
<1>3. CallsInv'
  <2>1. faults' = 0 /\ call'[c].phase \in {"status", "commit", "retry"} =>
          /\ run[call'[c].row] \in Results
          /\ call'[c].build = buildId[call'[c].row]
          /\ call'[c].infra => call'[c].value # "success"
    <3>1. CASE StatusWrite(c)
      <4>1. call'[c] = AfterStatus(call[c]) /\ call[c].phase = "status"
        BY <3>1 DEF StatusWrite, IInv, TypeOK, CallTypeOK
      <4>2. \/ call'[c] = NoCall
            \/ /\ call'[c].row = call[c].row /\ call'[c].build = call[c].build
               /\ call'[c].infra = call[c].infra /\ call'[c].value = call[c].value
        BY <4>1 DEF AfterStatus, IInv, TypeOK, CallTypeOK, Calls
      <4>. QED BY <1>1, <4>1, <4>2 DEF SuccessInv, CallsInv, NoCall
    <3>2. CASE CommitBuild(c) \/ AutoRetry(c) \/ AutoRetryFails(c) \/ LogWrite(c)
      <4>1. call'[c] = NoCall
        BY <3>2 DEF CommitBuild, AutoRetry, AutoRetryFails, LogWrite, IInv, TypeOK, CallTypeOK
      <4>. QED BY <4>1 DEF NoCall
    <3>3. ASSUME NEW p \in Pipelines, StatusRead(c, p)
          PROVE  /\ run[call'[c].row] \in Results
                 /\ call'[c].build = buildId[call'[c].row]
                 /\ call'[c].infra => call'[c].value # "success"
      BY <3>3 DEF StatusRead, IInv, TypeOK, CallTypeOK
    <3>4. ASSUME NEW p \in Pipelines, LogRead(c, p)
          PROVE  call'[c].phase = "log"
      BY <3>4 DEF LogRead, IInv, TypeOK, CallTypeOK
    <3>. QED BY <3>1, <3>2, <3>3, <3>4 DEF CallStep
  <2>. QED BY <1>1, <2>1 DEF SuccessInv, CallsInv
<1>4. CommitInv'
  <2>. SUFFICES ASSUME faults' = 0, NEW q \in Pipelines, status'[q] = "succeeded", buildId'[q]
                PROVE  q \in commitAsked' \/ \E d \in Callers : call'[d].phase = "commit" /\ call'[d].row = q
    BY DEF CommitInv
  <2>1. CASE StatusWrite(c)
    <3>1. /\ call'[c] = AfterStatus(call[c]) /\ call[c].phase = "status" /\ call[c] \in Calls
          /\ status'[q] = status[q] \/ (q = call[c].row
               /\ status'[q] = Outcome(call[c].value, call[c].infra))
      BY <2>1 DEF StatusWrite, SetStatus, IInv, TypeOK, RowsTypeOK, CallTypeOK
    <3>2. CASE status'[q] = status[q]
      BY <1>1, <3>1, <3>2 DEF SuccessInv, CommitInv
    <3>3. CASE q = call[c].row /\ status'[q] = Outcome(call[c].value, call[c].infra)
      <4>1. call[c].value = "success"
        BY <3>3 DEF Outcome
      <4>2. ~call[c].infra /\ call[c].build
        BY <1>1, <3>1, <3>3, <4>1 DEF SuccessInv, CallsInv
      <4>3. call'[c] = [call[c] EXCEPT !.phase = "commit"]
        BY <3>1, <4>1, <4>2 DEF AfterStatus
      <4>. QED BY <3>1, <3>3, <4>3 DEF Calls
    <3>. QED BY <3>1, <3>2, <3>3
  <2>2. CASE CommitBuild(c)
    BY <1>1, <2>2 DEF CommitBuild, rowVars, SuccessInv, CommitInv
  <2>3. CASE AutoRetry(c) \/ AutoRetryFails(c) \/ LogWrite(c)
        \/ \E p \in Pipelines : StatusRead(c, p) \/ LogRead(c, p)
    <3>1. call[c].phase # "commit" /\ status[q] = "succeeded"
      BY <2>3 DEF AutoRetry, InsertRow, AutoRetryFails, LogWrite, StatusRead, LogRead, NoCall,
         rowVars, IInv, TypeOK, RowsTypeOK
    <3>. QED BY <1>1, <3>1 DEF SuccessInv, CommitInv
  <2>. QED BY <2>1, <2>2, <2>3 DEF CallStep
<1>. QED BY <1>2, <1>3, <1>4 DEF SuccessInv

(* Every step preserves the invariant of success. *)
LEMMA SuccessNext ==
  ASSUME IInv, StartsInv, SuccessInv, [Next]_vars
  PROVE  SuccessInv'
<1>1. CASE Crash
  <2>1. faults' # 0
    BY <1>1 DEF Crash, IInv, TypeOK, SchedTypeOK
  <2>. QED BY <1>1, <2>1 DEF Crash, outVars, SuccessInv, RunsInv, CallsInv, CommitInv
<1>. QED BY <1>1, AsideSteps, AsideKeeps, SuccessStarts, SuccessCalls

(* The invariant of success holds in every reachable state. *)
THEOREM SuccessInvariance == Spec => []SuccessInv
BY Invariance, StartsInvariance, SuccessInit, SuccessNext, PTL DEF Spec

(***************************************************************************)
(* Without a crash or a lost reply, a row that succeeded and names a build *)
(* has had it committed once its callbacks are served: the build a status  *)
(* callback read is the one the row keeps, since a row whose run has ended *)
(* is never started again.                                                 *)
(***************************************************************************)
THEOREM SuccessCommitted == Spec => []SucceededIsCommitted
<1>1. SuccessInv => SucceededIsCommitted
  BY DEF SuccessInv, CommitInv, SucceededIsCommitted
<1> QED
  BY SuccessInvariance, <1>1, PTL

-----------------------------------------------------------------------------
(* The limit on spot builds                                                *)

TestRow(p) ==
  Exists(p) /\ request[p].lane \in TestLanes /\ Debounced(request[p].kind)

(* A drain that starts a spot build has set a slot of its capacity aside.  *)
StartedBy(d, p) ==
  /\ drain[d].current = p
  /\ MaxConcurrent > 0 /\ request[p].spot => drain[d].capacity > 0

(* Debounced builds are started by a drain, never by the handler that made  *)
(* them.                                                                   *)
QueuedByDrain ==
  \A p \in Pipelines : TestRow(p) =>
    /\ startAfter[p] # "null"
    /\ step[p] \notin Late
    /\ Starting(p) => \E d \in Drains : StartedBy(d, p)

(* What the drains may still start, by drain.                              *)
Slots == {x \in Drains \X (1..MaxConcurrent) : x[2] <= drain[x[1]].capacity}
Limit == Cardinality(Drains) * MaxConcurrent

(* What runs and what the drains may still start fit together.             *)
Budget ==
  MaxConcurrent > 0 =>
    /\ \A d \in Drains : drain[d].capacity <= MaxConcurrent
    /\ Cardinality(DebouncedSpots) + Cardinality(Slots) <= Limit

SpotInv == QueuedByDrain /\ Budget

(* There are finitely many rows and drains, so that they can be counted.   *)
LEMMA SpotsFinite ==
  /\ IsFiniteSet(DebouncedSpots) /\ Cardinality(DebouncedSpots) \in Nat
  /\ IsFiniteSet(Slots) /\ Cardinality(Slots) \in Nat
  /\ Cardinality(Drains) \in Nat /\ Limit \in Nat
<1>1. IsFiniteSet(DebouncedSpots)
  BY PipelinesAssumption, FS_Subset DEF DebouncedSpots
<1>2. IsFiniteSet(1..MaxConcurrent)
  BY BoundsAssumption, FS_Interval
<1>3. IsFiniteSet(Drains \X (1..MaxConcurrent))
  BY <1>2, DrainsAssumption, FS_Product
<1>4. IsFiniteSet(Slots)
  BY <1>3, FS_Subset DEF Slots
<1>5. Cardinality(Drains) \in Nat
  BY DrainsAssumption, FS_CardinalityType
<1>6. Limit \in Nat
  BY <1>5, BoundsAssumption DEF Limit
<1> QED
  BY <1>1, <1>4, <1>5, <1>6, FS_CardinalityType

(* Nothing runs at first. *)
LEMMA SpotInit == Init => SpotInv
<1> SUFFICES ASSUME Init PROVE SpotInv
  OBVIOUS
<1>1. QueuedByDrain
  BY DEF Init, RowsInit, QueuedByDrain, TestRow, Exists
<1>2. DebouncedSpots = {}
  BY DEF Init, RowsInit, DebouncedSpots, Running
<1>3. Cardinality(DebouncedSpots) = 0
  BY <1>2, FS_EmptySet
<1>4. \A d \in Drains : drain[d].capacity = 0
  BY DEF Init, SchedInit, IdleDrain
<1>5. Slots = {}
  BY <1>4, BoundsAssumption DEF Slots
<1>6. Cardinality(Slots) = 0
  BY <1>5, FS_EmptySet
<1>7. Budget
  BY <1>3, <1>4, <1>6, SpotsFinite, BoundsAssumption DEF Budget
<1> QED
  BY <1>1, <1>7 DEF SpotInv

(* Steps that start, queue or count nothing. *)
Spare ==
  /\ drain' = drain
  /\ \A q \in Pipelines : Exists(q)' =>
       /\ Exists(q) /\ request'[q] = request[q]
       /\ Running(q)' => Running(q)
       /\ Starting(q)' => Starting(q)
       /\ startAfter[q] # "null" => startAfter'[q] # "null"
       /\ step'[q] \in Late => step[q] \in Late \/ startAfter[q] = "null" \/ Prod(q)

(* Fewer rows run, and no drain has more capacity than before. *)
LEMMA BudgetKept ==
  ASSUME IInv, IInv', SpotInv, DebouncedSpots' \subseteq DebouncedSpots,
         \A d \in Drains : drain'[d].capacity <= drain[d].capacity
  PROVE  Budget'
<1>1. Cardinality(DebouncedSpots') <= Cardinality(DebouncedSpots)
      /\ Cardinality(DebouncedSpots') \in Nat
  BY SpotsFinite, FS_Subset, FS_CardinalityType
<1>2. \A d \in Drains : drain[d].capacity \in Nat /\ drain'[d].capacity \in Nat
  BY DEF IInv, TypeOK, SchedTypeOK
<1>3. Slots' \subseteq Slots
  BY <1>2, BoundsAssumption DEF Slots
<1>4. Cardinality(Slots') <= Cardinality(Slots) /\ Cardinality(Slots') \in Nat
  BY <1>3, SpotsFinite, FS_Subset, FS_CardinalityType
<1> QED
  BY <1>1, <1>2, <1>4, SpotsFinite, BoundsAssumption DEF SpotInv, Budget, Limit

(* A spare step keeps the counts. *)
LEMMA SpareKeeps ==
  ASSUME IInv, IInv', SpotInv, Spare
  PROVE  SpotInv'
<1>1. QueuedByDrain'
  <2>. SUFFICES ASSUME NEW q \in Pipelines, TestRow(q)'
                PROVE  /\ startAfter'[q] # "null"
                       /\ step'[q] \notin Late
                       /\ Starting(q)' => \E d \in Drains : StartedBy(d, q)'
    BY DEF QueuedByDrain, Late
  <2>1. TestRow(q) /\ ~Prod(q) /\ request'[q] = request[q]
    BY LanesAssumption DEF Spare, TestRow, Prod
  <2>2. /\ startAfter[q] # "null" /\ step[q] \notin Late
        /\ Starting(q) => \E d \in Drains : StartedBy(d, q)
    BY <2>1 DEF SpotInv, QueuedByDrain
  <2>3. startAfter'[q] # "null" /\ step'[q] \notin Late
    BY <2>1, <2>2 DEF Spare, TestRow
  <2>4. Starting(q)' => \E d \in Drains : StartedBy(d, q)'
    BY <2>1, <2>2 DEF Spare, TestRow, StartedBy
  <2>. QED BY <2>3, <2>4
<1>2. DebouncedSpots' \subseteq DebouncedSpots
  BY DEF Spare, DebouncedSpots, Running, Exists
<1>3. \A d \in Drains : drain'[d].capacity <= drain[d].capacity
  BY DEF Spare, IInv, TypeOK, SchedTypeOK
<1> QED
  BY <1>1, <1>2, <1>3, BudgetKept DEF SpotInv

(* Every step is spare, or one of those treated below. *)
LEMMA SpareSteps ==
  ASSUME IInv, [Next]_vars
  PROVE  \/ Spare \/ Crash
         \/ \E p \in Pipelines : \/ CreatorStarts(p)
                                \/ StartFail(p) \/ StartCommit(p) \/ StartDeadlock(p)
         \/ \E p \in Pipelines, r \in TestRequests \cup ProdRequests : Create(p, r)
         \/ \E c \in Callers : AutoRetry(c)
         \/ \E d \in Drains : DrainBegin(d)
         \/ \E d \in Drains, p \in Pipelines : DrainStarts(d, p) \/ DrainSkips(d, p)
<1>. USE DEF rowVars, outVars, schedVars, Running, Exists, Starting
<1>1. ASSUME NEW p \in Pipelines, Prepare(p) PROVE Spare
  BY <1>1 DEF Prepare, Goto, Late, Prod, Spare, IInv, TypeOK, RowsTypeOK, SchedTypeOK, RefsExist
<1>2. ASSUME NEW p \in Pipelines, SupersedeQuery(p) PROVE Spare
  BY <1>2 DEF SupersedeQuery, Goto, Late, Spare, IInv, TypeOK, RowsTypeOK, SchedTypeOK
<1>3. ASSUME NEW p \in Pipelines, SupersedeLock(p) PROVE Spare
  BY <1>3 DEF SupersedeLock, AfterSupersede, SetStatus, Goto, Late, Spare, IInv, TypeOK,
     RowsTypeOK, SchedTypeOK
<1>4. ASSUME NEW p \in Pipelines, SupersedeCommit(p) PROVE Spare
  BY <1>4 DEF SupersedeCommit, AfterSupersede, SetStatus, Goto, Late, Spare, IInv, TypeOK,
     RowsTypeOK, SchedTypeOK, RefsExist
<1>5. ASSUME NEW p \in Pipelines, QueueCheck(p) \/ CreatorRefused(p) PROVE Spare
  BY <1>5 DEF QueueCheck, CreatorRefused, Goto, Late, Spare, IInv, TypeOK, RowsTypeOK,
     SchedTypeOK
<1>6. ASSUME NEW p \in Pipelines, DebounceExpires(p) PROVE Spare
  BY <1>6 DEF DebounceExpires, Spare, IInv, TypeOK, RowsTypeOK, SchedTypeOK
<1>7. ASSUME NEW p \in Pipelines, StartDispatch(p) \/ LoseReply(p) PROVE Spare
  BY <1>7 DEF StartDispatch, LoseReply, Spare, IInv, TypeOK, RowsTypeOK, SchedTypeOK
<1>8. ASSUME NEW l \in TestLanes, CancelPendingPr(l) \/ RefreshInvalid(l) PROVE Spare
  BY <1>8 DEF CancelPendingPr, RefreshInvalid, ExplicitPending, InLane, SetStatus, Spare, IInv,
     TypeOK, RowsTypeOK, SchedTypeOK
<1>9. ASSUME NEW l \in TestLanes, RefreshExplicit(l) PROVE Spare
  BY <1>9 DEF RefreshExplicit, ExplicitPending, InLane, SetStatus, Spare, IInv, TypeOK,
     RowsTypeOK, SchedTypeOK
<1>10. ASSUME NEW p \in Pipelines, RunEnds(p) \/ TimeoutRead(p) \/ TimeoutKeep(p) PROVE Spare
  BY <1>10 DEF RunEnds, TimeoutRead, TimeoutKeep, Spare, IInv, TypeOK, RowsTypeOK, SchedTypeOK
<1>11. ASSUME NEW p \in Pipelines, TimeoutWrite(p) \/ ExpireStale(p) PROVE Spare
  BY <1>11 DEF TimeoutWrite, ExpireStale, SetStatus, Spare, IInv, TypeOK, RowsTypeOK,
     SchedTypeOK, RefsExist
<1>12. ASSUME NEW c \in Callers, NEW p \in Pipelines, StatusRead(c, p) \/ LogRead(c, p) PROVE Spare
  BY <1>12 DEF StatusRead, LogRead, Spare, IInv, TypeOK, RowsTypeOK, SchedTypeOK
<1>13. ASSUME NEW c \in Callers, StatusWrite(c) PROVE Spare
  <2>1. Exists(call[c].row) /\ Outcome(call[c].value, call[c].infra) # "running"
    BY <1>13 DEF StatusWrite, Outcome, IInv, TypeOK, CallTypeOK
  <2>. QED BY <1>13, <2>1 DEF StatusWrite, SetStatus, Spare, IInv, TypeOK, RowsTypeOK, SchedTypeOK
<1>14. ASSUME NEW c \in Callers, CommitBuild(c) \/ AutoRetryFails(c) \/ LogWrite(c) PROVE Spare
  BY <1>14 DEF CommitBuild, AutoRetryFails, LogWrite, Spare, IInv, TypeOK, RowsTypeOK, SchedTypeOK
<1>15. ASSUME \/ \E l \in TestLanes : BotCancelRead(l)
              \/ BotCancelCommit \/ BotCancelStop
       PROVE  Spare
  BY <1>15 DEF BotCancelRead, BotCancelCommit, BotCancelStop, SetStatus, Spare, IInv, TypeOK,
     RowsTypeOK, SchedTypeOK, RefsExist
<1>16. ASSUME UNCHANGED vars PROVE Spare
  BY <1>16 DEF vars, Spare, IInv, TypeOK, RowsTypeOK, SchedTypeOK
<1>. QED BY <1>1, <1>2, <1>3, <1>4, <1>5, <1>6, <1>7, <1>8, <1>9, <1>10,
            <1>11, <1>12, <1>13, <1>14, <1>15, <1>16
           DEF Next, SchedNext, CreateAny, CreatorStep, StartStep, DrainStep,
               CallbackNext, CallStep

-----------------------------------------------------------------------------

(* A crash leaves the running rows alone, and no drain and no start.       *)
LEMMA SpotCrash ==
  ASSUME IInv, IInv', SpotInv, Crash
  PROVE  SpotInv'
<1>1. QueuedByDrain'
  BY DEF Crash, rowVars, SpotInv, QueuedByDrain, TestRow, Exists, Late, Starting, IInv, TypeOK,
         SchedTypeOK
<1>2. DebouncedSpots' \subseteq DebouncedSpots
  BY DEF Crash, rowVars, DebouncedSpots, Running
<1>3. \A d \in Drains : drain'[d].capacity <= drain[d].capacity
  BY DEF Crash, IdleDrain, IInv, TypeOK, SchedTypeOK
<1> QED
  BY <1>1, <1>2, <1>3, BudgetKept DEF SpotInv

(* A new row of the test repository is debounced and begins with its preparation. *)
LEMMA SpotInsert ==
  ASSUME IInv, IInv', SpotInv, NEW p \in Pipelines, NEW r, NEW o, NEW s,
         InsertRow(p, r, o), Goto(p, s), UNCHANGED <<tx, drain>>,
         r.lane \in TestLanes /\ Debounced(r.kind) => s = "prepare"
  PROVE  SpotInv'
<1>1. /\ status[p] = "absent" /\ status'[p] = "pending" /\ request'[p] = r /\ step'[p] = s
      /\ startAfter'[p] = IF Debounced(r.kind) THEN "future" ELSE "null"
      /\ \A q \in Pipelines : q # p =>
           /\ status'[q] = status[q] /\ request'[q] = request[q] /\ step'[q] = step[q]
           /\ startAfter'[q] = startAfter[q]
  BY DEF InsertRow, NextRow, Exists, Goto, IInv, TypeOK, RowsTypeOK, SchedTypeOK
<1>2. tx[p] = "none"
  BY <1>1 DEF IInv, RefsExist, Exists, Starting
<1>3. QueuedByDrain'
  <2>. SUFFICES ASSUME NEW q \in Pipelines, TestRow(q)'
                PROVE  /\ startAfter'[q] # "null"
                       /\ step'[q] \notin Late
                       /\ Starting(q)' => \E d \in Drains : StartedBy(d, q)'
    BY DEF QueuedByDrain, Late
  <2>1. CASE q = p
    BY <1>1, <1>2, <2>1 DEF TestRow, Late, Starting
  <2>2. CASE q # p
    BY <1>1, <2>2 DEF TestRow, Exists, Starting, StartedBy, SpotInv, QueuedByDrain
  <2>. QED BY <2>1, <2>2
<1>4. DebouncedSpots' \subseteq DebouncedSpots
  BY <1>1 DEF DebouncedSpots, Running
<1>5. \A d \in Drains : drain'[d].capacity <= drain[d].capacity
  BY DEF IInv, TypeOK, SchedTypeOK
<1> QED
  BY <1>3, <1>4, <1>5, BudgetKept DEF SpotInv

(* Both insertions are such ones: retries are of stable or beta. *)
LEMMA SpotInserts ==
  ASSUME IInv, IInv', SpotInv,
         \/ \E p \in Pipelines, r \in TestRequests \cup ProdRequests : Create(p, r)
         \/ \E c \in Callers : AutoRetry(c)
  PROVE  SpotInv'
<1>1. ASSUME NEW p \in Pipelines, NEW r \in TestRequests \cup ProdRequests, Create(p, r)
      PROVE  SpotInv'
  <2>1. Debounced(r.kind) => FirstStep(r.kind) = "prepare"
    BY DEF FirstStep, Prepares, TestKinds, Debounced
  <2>2. /\ Goto(p, FirstStep(r.kind)) /\ UNCHANGED <<tx, drain>>
        /\ \E o \in 0 .. MaxOrder : InsertRow(p, r, o)
    BY <1>1 DEF Create
  <2>. QED BY <2>1, <2>2, SpotInsert
<1>2. ASSUME NEW c \in Callers, AutoRetry(c) PROVE SpotInv'
  <2>1. PICK p \in Pipelines :
          InsertRow(p, RetryOf(request[call[c].row]), 0) /\ Goto(p, "start")
    BY <1>2 DEF AutoRetry
  <2>2. RetryOf(request[call[c].row]).lane \in ProdLanes
    BY <1>2 DEF AutoRetry, RetryOf, IInv, RefsExist
  <2>. QED BY <1>2, <2>1, <2>2, SpotInsert, LanesAssumption DEF AutoRetry
<1> QED
  BY <1>1, <1>2

(* A handler that starts its own row is not one of a test build. *)
LEMMA SpotCreatorStarts ==
  ASSUME IInv, IInv', SpotInv, NEW p \in Pipelines, CreatorStarts(p)
  PROVE  SpotInv'
<1>1. ~TestRow(p)
  BY DEF CreatorStarts, SpotInv, QueuedByDrain, Late
<1>2. /\ UNCHANGED <<status, request, startAfter, drain>>
      /\ \A q \in Pipelines : q # p => tx'[q] = tx[q] /\ step'[q] = step[q]
  BY DEF CreatorStarts, BeginStart, Goto, rowVars, IInv, TypeOK, SchedTypeOK
<1>3. QueuedByDrain'
  BY <1>1, <1>2 DEF SpotInv, QueuedByDrain, TestRow, Exists, Starting, StartedBy
<1>4. DebouncedSpots' \subseteq DebouncedSpots
  BY <1>2 DEF DebouncedSpots, Running
<1>5. \A d \in Drains : drain'[d].capacity <= drain[d].capacity
  BY <1>2 DEF IInv, TypeOK, SchedTypeOK
<1> QED
  BY <1>3, <1>4, <1>5, BudgetKept DEF SpotInv

(* A table of n slots for each member of S. *)
LEMMA SlotTable ==
  ASSUME NEW S, IsFiniteSet(S), NEW n \in Nat
  PROVE  IsFiniteSet(S \X (1..n)) /\ Cardinality(S \X (1..n)) = Cardinality(S) * n
<1>1. IsFiniteSet(1..n) /\ Cardinality(1..n) = n
  BY FS_Interval
<1>2. ASSUME NEW T, IsFiniteSet(T), NEW k, Cardinality(T) = k
      PROVE  IsFiniteSet(S \X T) /\ Cardinality(S \X T) = Cardinality(S) * k
  BY <1>2, FS_Product
<1>. QED BY <1>1, <1>2

(* A drain begins with the capacity that the running rows leave: they are  *)
(* at least the debounced ones.  The other drains have set at most their   *)
(* limits aside.                                                           *)
LEMMA SpotDrainBegin ==
  ASSUME IInv, IInv', SpotInv, NEW d \in Drains, DrainBegin(d)
  PROVE  SpotInv'
<1>1. /\ UNCHANGED <<status, request, startAfter, step, tx>>
      /\ drain[d].current = 0
      /\ drain'[d].capacity = IF CanStartSpot /\ MaxConcurrent > 0
                                THEN MaxConcurrent - RunningSpotBuilds ELSE 0
      /\ \A e \in Drains : e # d => drain'[e] = drain[e]
  BY DEF DrainBegin, rowVars, IInv, TypeOK, SchedTypeOK
<1>2. QueuedByDrain'
  <2>. SUFFICES ASSUME NEW q \in Pipelines, TestRow(q)'
                PROVE  /\ startAfter'[q] # "null"
                       /\ step'[q] \notin Late
                       /\ Starting(q)' => \E e \in Drains : StartedBy(e, q)'
    BY DEF QueuedByDrain, Late
  <2>1. TestRow(q) /\ (Starting(q)' <=> Starting(q))
    BY <1>1 DEF TestRow, Exists, Starting
  <2>2. /\ startAfter[q] # "null" /\ step[q] \notin Late
        /\ Starting(q) => \E e \in Drains : StartedBy(e, q)
    BY <2>1 DEF SpotInv, QueuedByDrain
  <2>3. ASSUME NEW e \in Drains, StartedBy(e, q) PROVE StartedBy(e, q)'
    <3>1. e # d
      BY <1>1, <2>3, PipelinesAssumption DEF StartedBy
    <3>. QED BY <1>1, <2>3, <3>1 DEF StartedBy
  <2>. QED BY <1>1, <2>1, <2>2, <2>3
<1>3. DebouncedSpots' = DebouncedSpots
  BY <1>1 DEF DebouncedSpots, Running
<1>4. CASE ~(CanStartSpot /\ MaxConcurrent > 0)
  <2>1. \A e \in Drains : drain'[e].capacity <= drain[e].capacity
    BY <1>1, <1>4 DEF IInv, TypeOK, SchedTypeOK
  <2>. QED BY <1>2, <1>3, <2>1, BudgetKept DEF SpotInv
<1>5. CASE CanStartSpot /\ MaxConcurrent > 0
  <2>. DEFINE others == {x \in Slots : x[1] # d}
  <2>1. Cardinality(DebouncedSpots) <= RunningSpotBuilds
    <3>1. DebouncedSpots \subseteq {q \in Pipelines : status[q] = "running" /\ request[q].spot}
      BY DEF DebouncedSpots, Running
    <3>2. IsFiniteSet({q \in Pipelines : status[q] = "running" /\ request[q].spot})
      BY PipelinesAssumption, FS_Subset
    <3>. QED BY <3>1, <3>2, FS_Subset DEF RunningSpotBuilds
  <2>2. PICK c \in Nat : /\ c = drain'[d].capacity /\ c <= MaxConcurrent
                         /\ Cardinality(DebouncedSpots) + c <= MaxConcurrent
    BY <1>1, <1>5, <2>1, SpotCount, SpotsFinite, BoundsAssumption DEF CanStartSpot
  <2>. DEFINE own == {d} \X (1..c)
  <2>3. IsFiniteSet(own) /\ Cardinality(own) = c
    <3>1. IsFiniteSet({d}) /\ Cardinality({d}) = 1
      BY FS_Singleton
    <3>. QED BY <3>1, SlotTable
  <2>4. /\ IsFiniteSet(others) /\ Cardinality(others) \in Nat
        /\ Cardinality(others) <= Limit - MaxConcurrent
    <3>1. /\ IsFiniteSet(Drains \ {d})
          /\ Cardinality(Drains \ {d}) = Cardinality(Drains) - 1
      BY DrainsAssumption, FS_RemoveElement
    <3>2. Cardinality(Drains \ {d}) \in Nat /\ MaxConcurrent \in Nat
      BY <3>1, FS_CardinalityType, BoundsAssumption
    <3>3. /\ IsFiniteSet((Drains \ {d}) \X (1..MaxConcurrent))
          /\ Cardinality((Drains \ {d}) \X (1..MaxConcurrent))
               = (Cardinality(Drains) - 1) * MaxConcurrent
      <4>1. /\ IsFiniteSet((Drains \ {d}) \X (1..MaxConcurrent))
            /\ Cardinality((Drains \ {d}) \X (1..MaxConcurrent))
                 = Cardinality(Drains \ {d}) * MaxConcurrent
        BY <3>1, <3>2, SlotTable
      <4>. QED BY <3>1, <4>1
    <3>4. others \subseteq (Drains \ {d}) \X (1..MaxConcurrent)
      BY DEF Slots
    <3>5. (Cardinality(Drains) - 1) * MaxConcurrent = Limit - MaxConcurrent
      BY SpotsFinite, BoundsAssumption DEF Limit
    <3>. QED BY <3>3, <3>4, <3>5, FS_Subset, FS_CardinalityType
  <2>5. /\ Cardinality(Slots') \in Nat
        /\ Cardinality(Slots') <= Cardinality(others) + c
    <3>1. Slots' \subseteq others \cup own
      BY <1>1, <2>2 DEF Slots
    <3>2. /\ IsFiniteSet(others \cup own)
          /\ Cardinality(others \cup own) = Cardinality(others) + c - Cardinality(others \cap own)
      BY <2>3, <2>4, FS_Union
    <3>3. Cardinality(others \cap own) \in Nat
      BY <2>4, FS_Intersection, FS_CardinalityType
    <3>4. /\ IsFiniteSet(Slots') /\ Cardinality(Slots') <= Cardinality(others \cup own)
          /\ Cardinality(Slots') \in Nat
      BY <3>1, <3>2, FS_Subset, FS_CardinalityType
    <3>. QED BY <2>4, <3>2, <3>3, <3>4
  <2>6. \A e \in Drains : drain'[e].capacity <= MaxConcurrent
    BY <1>1, <1>5, <2>2 DEF SpotInv, Budget
  <2>7. Cardinality(DebouncedSpots') + Cardinality(Slots') <= Limit
    BY <1>3, <2>2, <2>4, <2>5, SpotsFinite, BoundsAssumption
  <2>8. Limit' = Limit
    BY DEF Limit
  <2>. QED BY <1>2, <2>6, <2>7, <2>8 DEF SpotInv, Budget
<1> QED
  BY <1>4, <1>5

(* A drain goes on to a row that needs no slot or for which it has one. *)
LEMMA SpotDrainStarts ==
  ASSUME IInv, IInv', SpotInv, NEW d \in Drains, NEW p \in Pipelines, DrainStarts(d, p)
  PROVE  SpotInv'
<1>1. /\ UNCHANGED <<status, request, startAfter, step>>
      /\ drain[d].current = 0 /\ drain'[d].current = p
      /\ drain'[d].capacity = drain[d].capacity
      /\ MaxConcurrent > 0 /\ request[p].spot => drain[d].capacity # 0
      /\ \A e \in Drains : e # d => drain'[e] = drain[e]
      /\ \A q \in Pipelines : q # p => tx'[q] = tx[q]
  BY DEF DrainStarts, NextDue, NoCapacity, BeginStart, rowVars, IInv, TypeOK, SchedTypeOK
<1>2. drain[d].capacity \in Nat
  BY DEF IInv, TypeOK, SchedTypeOK
<1>3. QueuedByDrain'
  <2>. SUFFICES ASSUME NEW q \in Pipelines, TestRow(q)'
                PROVE  /\ startAfter'[q] # "null"
                       /\ step'[q] \notin Late
                       /\ Starting(q)' => \E e \in Drains : StartedBy(e, q)'
    BY DEF QueuedByDrain, Late
  <2>1. startAfter'[q] # "null" /\ step'[q] \notin Late
    BY <1>1 DEF SpotInv, QueuedByDrain, TestRow, Exists
  <2>2. CASE q = p
    BY <1>1, <1>2, <2>1, <2>2 DEF StartedBy
  <2>3. CASE q # p
    <3>1. Starting(q)' => \E e \in Drains : StartedBy(e, q)
      BY <1>1, <2>3 DEF SpotInv, QueuedByDrain, TestRow, Exists, Starting
    <3>2. \A e \in Drains : StartedBy(e, q) => e # d
      BY <1>1, PipelinesAssumption DEF StartedBy
    <3>. QED BY <1>1, <2>1, <3>1, <3>2 DEF StartedBy
  <2>. QED BY <2>2, <2>3
<1>4. DebouncedSpots' \subseteq DebouncedSpots
  BY <1>1 DEF DebouncedSpots, Running
<1>5. \A e \in Drains : drain'[e].capacity <= drain[e].capacity
  BY <1>1 DEF IInv, TypeOK, SchedTypeOK
<1> QED
  BY <1>3, <1>4, <1>5, BudgetKept DEF SpotInv

(* A row that is skipped starts nothing. *)
LEMMA SpotDrainSkips ==
  ASSUME IInv, IInv', SpotInv, NEW d \in Drains, NEW p \in Pipelines, DrainSkips(d, p)
  PROVE  SpotInv'
<1>1. /\ UNCHANGED <<status, request, startAfter, step, tx>>
      /\ drain[d].current = 0
      /\ drain'[d].capacity \in {0, drain[d].capacity}
      /\ \A e \in Drains : e # d => drain'[e] = drain[e]
  BY DEF DrainSkips, NextDue, rowVars, IInv, TypeOK, SchedTypeOK
<1>2. QueuedByDrain'
  BY <1>1, PipelinesAssumption
  DEF SpotInv, QueuedByDrain, TestRow, Exists, Starting, StartedBy
<1>3. DebouncedSpots' \subseteq DebouncedSpots
  BY <1>1 DEF DebouncedSpots, Running
<1>4. \A e \in Drains : drain'[e].capacity <= drain[e].capacity
  BY <1>1 DEF IInv, TypeOK, SchedTypeOK
<1> QED
  BY <1>2, <1>3, <1>4, BudgetKept DEF SpotInv

(* What the end of a start does to the handlers and the drains. *)
LEMMA SpotEnd ==
  ASSUME IInv, IInv', SpotInv, NEW p \in Pipelines, NEW started \in BOOLEAN,
         EndStart(p, started), UNCHANGED <<request, startAfter>>,
         \A q \in Pipelines : Exists(q)' => Exists(q)
  PROVE  /\ QueuedByDrain'
         /\ \A d \in Drains : drain'[d].capacity <= drain[d].capacity
<1>1. /\ tx'[p] = "none"
      /\ \A q \in Pipelines : step'[q] \in {step[q], "done"}
      /\ \A q \in Pipelines : q # p => tx'[q] = tx[q]
      /\ \A d \in Drains : drain[d].current # p => drain'[d] = drain[d]
  BY DEF EndStart, IInv, TypeOK, SchedTypeOK
<1>2. QueuedByDrain'
  <2>. SUFFICES ASSUME NEW q \in Pipelines, TestRow(q)'
                PROVE  /\ startAfter'[q] # "null"
                       /\ step'[q] \notin Late
                       /\ Starting(q)' => \E d \in Drains : StartedBy(d, q)'
    BY DEF QueuedByDrain, Late
  <2>1. TestRow(q)
    BY DEF TestRow
  <2>2. startAfter'[q] # "null" /\ step'[q] \notin Late
    BY <1>1, <2>1 DEF SpotInv, QueuedByDrain, Late
  <2>3. Starting(q)' => \E d \in Drains : StartedBy(d, q)'
    BY <1>1, <2>1 DEF SpotInv, QueuedByDrain, Starting, StartedBy
  <2>. QED BY <2>2, <2>3
<1>3. ASSUME NEW d \in Drains PROVE drain'[d].capacity <= drain[d].capacity
  <2>1. drain[d].capacity \in Nat
    BY DEF IInv, TypeOK, SchedTypeOK
  <2>2. CASE drain[d].current # p
    BY <1>1, <2>1, <2>2
  <2>3. CASE drain[d].current = p
    <3>1. drain'[d].capacity = CapacityLeft(d, p, started)
      BY <2>3 DEF EndStart
    <3>. QED BY <2>1, <3>1 DEF CapacityLeft
  <2>. QED BY <2>2, <2>3
<1> QED
  BY <1>2, <1>3

(* A start that fails gives its slot back at most. *)
LEMMA SpotFails ==
  ASSUME IInv, IInv', SpotInv, NEW p \in Pipelines, StartFail(p) \/ StartDeadlock(p)
  PROVE  SpotInv'
<1>1. PICK started \in BOOLEAN : started = FALSE
  OBVIOUS
<1>2. EndStart(p, started) /\ UNCHANGED <<status, request, startAfter>>
  BY <1>1 DEF StartFail, StartDeadlock, rowVars
<1>3. QueuedByDrain' /\ \A d \in Drains : drain'[d].capacity <= drain[d].capacity
  BY <1>2, SpotEnd DEF Exists
<1>4. DebouncedSpots' \subseteq DebouncedSpots
  BY <1>2 DEF DebouncedSpots, Running
<1> QED
  BY <1>3, <1>4, BudgetKept DEF SpotInv

(* A commit turns the slot that was set aside into a running build. *)
LEMMA SpotCommits ==
  ASSUME IInv, IInv', SpotInv, NEW p \in Pipelines, StartCommit(p)
  PROVE  SpotInv'
<1>1. PICK started \in BOOLEAN : started = TRUE
  OBVIOUS
<1>2. /\ EndStart(p, started) /\ UNCHANGED <<request, startAfter>>
      /\ Starting(p) /\ Exists(p)
      /\ \A q \in Pipelines : q # p => status'[q] \in {status[q], "superseded"}
      /\ \A q \in Pipelines : Exists(q)' => Exists(q)
  BY <1>1 DEF StartCommit, Starting, IInv, RefsExist, Exists
<1>3. QueuedByDrain' /\ \A d \in Drains : drain'[d].capacity <= drain[d].capacity
  BY <1>2, SpotEnd
<1>4. CASE ~TestRow(p) \/ ~request[p].spot
  <2>1. DebouncedSpots' \subseteq DebouncedSpots
    BY <1>2, <1>4 DEF DebouncedSpots, TestRow, Running
  <2>. QED BY <1>3, <2>1, BudgetKept DEF SpotInv
<1>5. CASE TestRow(p) /\ request[p].spot
  <2>1. /\ Cardinality(DebouncedSpots') \in Nat
        /\ Cardinality(DebouncedSpots') <= Cardinality(DebouncedSpots) + 1
    <3>1. DebouncedSpots' \subseteq DebouncedSpots \cup {p}
      BY <1>2 DEF DebouncedSpots, Running
    <3>2. /\ IsFiniteSet(DebouncedSpots \cup {p})
          /\ Cardinality(DebouncedSpots \cup {p})
               \in {Cardinality(DebouncedSpots), Cardinality(DebouncedSpots) + 1}
      BY SpotsFinite, FS_AddElement
    <3>3. /\ IsFiniteSet(DebouncedSpots')
          /\ Cardinality(DebouncedSpots') <= Cardinality(DebouncedSpots \cup {p})
      BY <3>1, <3>2, FS_Subset
    <3>4. Cardinality(DebouncedSpots') \in Nat
      BY <3>3, FS_CardinalityType
    <3>. QED BY <3>2, <3>3, <3>4, SpotsFinite
  <2>2. ASSUME MaxConcurrent > 0
        PROVE  /\ \A d \in Drains : drain'[d].capacity <= MaxConcurrent
               /\ Cardinality(DebouncedSpots') + Cardinality(Slots') <= Limit
    <3>1. PICK d \in Drains : StartedBy(d, p)
      BY <1>2, <1>5 DEF SpotInv, QueuedByDrain
    <3>2. PICK c \in Nat : c = drain[d].capacity
      BY DEF IInv, TypeOK, SchedTypeOK
    <3>3. /\ drain[d].current = p /\ c > 0 /\ c <= MaxConcurrent
          /\ drain'[d].capacity \in {0, c - 1}
      <4>1. drain[d].current = p /\ c > 0
        BY <1>5, <2>2, <3>1, <3>2 DEF StartedBy
      <4>2. drain'[d].capacity = CapacityLeft(d, p, started)
        BY <1>2, <4>1 DEF EndStart
      <4>3. drain'[d].capacity \in {0, c - 1}
        BY <1>1, <1>5, <3>2, <4>1, <4>2 DEF CapacityLeft
      <4>. QED BY <2>2, <3>2, <4>1, <4>3 DEF SpotInv, Budget
    <3>4. \A e \in Drains : /\ drain[e].capacity \in Nat /\ drain'[e].capacity \in Nat
                            /\ drain'[e].capacity <= drain[e].capacity
      BY <1>3 DEF IInv, TypeOK, SchedTypeOK
    <3>5. <<d, c>> \in Slots /\ Slots' \subseteq Slots \ {<<d, c>>}
      <4>1. <<d, c>> \in Slots
        BY <3>2, <3>3, BoundsAssumption DEF Slots
      <4>2. \A x \in Drains \X (1..MaxConcurrent) :
              x[2] <= drain'[x[1]].capacity => x[2] <= drain[x[1]].capacity /\ x # <<d, c>>
        BY <3>2, <3>3, <3>4, BoundsAssumption
      <4>. QED BY <4>1, <4>2 DEF Slots
    <3>6. Cardinality(Slots') \in Nat /\ Cardinality(Slots') <= Cardinality(Slots) - 1
      <4>1. /\ IsFiniteSet(Slots \ {<<d, c>>})
            /\ Cardinality(Slots \ {<<d, c>>}) = Cardinality(Slots) - 1
        BY <3>5, SpotsFinite, FS_RemoveElement
      <4>. QED BY <3>5, <4>1, FS_Subset, FS_CardinalityType
    <3>7. Cardinality(DebouncedSpots) + Cardinality(Slots) <= Limit
      BY <2>2 DEF SpotInv, Budget
    <3>8. \A e \in Drains : drain'[e].capacity <= MaxConcurrent
      BY <2>2, <3>4, BoundsAssumption DEF SpotInv, Budget
    <3>. QED BY <2>1, <3>6, <3>7, <3>8, SpotsFinite
  <2>3. Budget'
    BY <2>2 DEF Budget, Limit
  <2>. QED BY <1>3, <2>3 DEF SpotInv
<1> QED
  BY <1>4, <1>5

(* Every step preserves the invariant of the limit. *)
LEMMA SpotNext ==
  ASSUME IInv, IInv', SpotInv, [Next]_vars
  PROVE  SpotInv'
BY SpareSteps, SpareKeeps, SpotCrash, SpotInserts, SpotCreatorStarts, SpotDrainBegin,
   SpotDrainStarts, SpotDrainSkips, SpotFails, SpotCommits

(***************************************************************************)
(* Whatever members, users and the cron jobs ask for, and whatever fails or*)
(* dies: calls of start_pending_builds that overlap may pass               *)
(* max_concurrent_builds, since each of them counts the running builds     *)
(* once, but together they run no more debounced spot builds than the limit*)
(* for each call; calls that never overlap keep to the limit.  What a call *)
(* may still start and what runs fit this bound, and a start that commits  *)
(* turns one of the first into one of the second.                          *)
(***************************************************************************)
THEOREM SpotLimit == Spec => []SpotCapacity
<1>1. SpotInv => SpotCapacity
  BY SpotsFinite, BoundsAssumption DEF SpotInv, Budget, SpotCapacity, Limit
<1>2. IInv /\ IInv' /\ SpotInv /\ [Next]_vars => SpotInv'
  BY SpotNext
<1>3. Spec => []SpotInv
  BY <1>2, Invariance, SpotInit, PTL DEF Spec
<1> QED
  BY <1>1, <1>3, PTL

===============================================================================
