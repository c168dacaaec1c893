-------------------------- MODULE BuildScheduling --------------------------
(***************************************************************************)
(* How a pipeline gets from a webhook or an API call to a dispatched       *)
(* workflow run: creation, preparation, the supersession of conflicting    *)
(* rows, the queue of test builds and the start transaction.               *)
(*                                                                         *)
(* Handlers are coroutines of one or more server processes that share the  *)
(* database.  Each of their transactions is an action, or a pair of        *)
(* actions when it awaits GitHub or flat-manager between its reads and its *)
(* commit.  What a transaction has not committed is invisible, so it is    *)
(* kept in tx and conflicts; the row locks it holds are Locked.            *)
(***************************************************************************)
EXTENDS PipelineRows

CONSTANTS
  Drains,       \* concurrent calls of start_pending_builds
  TestRequests, \* requests made of the test repository in this instance
  ProdRequests, \* requests made of stable and beta in this instance
  Events,       \* which events of the environment this instance exercises
  MaxFaults     \* bound: lost replies and crashes

ASSUME RequestsAssumption ==
  /\ TestRequests \subseteq [kind : TestKinds, lane : TestLanes, spot : BOOLEAN]
  /\ ProdRequests \subseteq
       [kind : {"push", "reissue"}, lane : ProdLanes, spot : BOOLEAN]

ASSUME DrainsAssumption == IsFiniteSet(Drains)

ASSUME EventsAssumption ==
  Events \subseteq {"drafted", "moved", "closed", "bot cancel", "overdue",
                    "stale", "run ends"}

ASSUME FaultsAssumption == MaxFaults \in Nat

VARIABLES
  step,       \* where the coroutine that created a row is
  tx,         \* the uncommitted start transaction of a row
  conflicts,  \* the rows that transaction is to supersede
  claimed,    \* the rows the supersession made by a row has selected
  drain,      \* the state of each call of start_pending_builds
  faults      \* lost replies and crashes so far

schedVars == <<step, tx, conflicts, claimed, drain, faults>>

Steps == {"none", "prepare", "supersede", "locking", "superseding", "queue",
          "start", "starting", "done"}

IdleDrain == [todo |-> {}, current |-> 0, capacity |-> 0]

SchedTypeOK ==
  /\ step \in [Pipelines -> Steps]
  /\ tx \in [Pipelines -> {"none", "begun", "dispatched"}]
  /\ conflicts \in [Pipelines -> SUBSET Pipelines]
  /\ claimed \in [Pipelines -> SUBSET Pipelines]
  /\ drain \in [Drains -> [todo : SUBSET Pipelines,
                           current : Pipelines \cup {0},
                           capacity : Nat]]
  /\ faults \in 0 .. MaxFaults

SchedInit ==
  /\ step = [p \in Pipelines |-> "none"]
  /\ tx = [p \in Pipelines |-> "none"]
  /\ conflicts = [p \in Pipelines |-> {}]
  /\ claimed = [p \in Pipelines |-> {}]
  /\ drain = [d \in Drains |-> IdleDrain]
  /\ faults = 0

\* Bug: a start does not lock its row.
BugStartUnlocked(p) ==
  \E q \in Pipelines : step[q] = "superseding" /\ p \in {q} \cup claimed[q]

(* Row p is locked, by its own start or by a supersession in its lane. *)
Locked(p) ==
  \/ tx[p] # "none"
  \/ \E q \in Pipelines : step[q] = "superseding" /\ p \in {q} \cup claimed[q]

AllFree(rows) == \A q \in rows : ~Locked(q)

Goto(p, s) == step' = [step EXCEPT ![p] = s]

-----------------------------------------------------------------------------
(* Creation *)

FirstStep(kind) == IF Prepares(kind) THEN "prepare" ELSE "start"

(* create_pipeline commits the pending row.  start_after is computed when  *)
(* the event is handled, so receipt order and insertion order may differ.  *)
Create(p, r) ==
  /\ \E o \in 0 .. MaxOrder :
       /\ Debounced(r.kind) => o > 0 /\ \A q \in Pipelines : order[q] # o
       /\ ~Debounced(r.kind) => o = 0
       /\ InsertRow(p, r, o)
  /\ Goto(p, FirstStep(r.kind))
  /\ UNCHANGED <<outVars, tx, conflicts, claimed, drain, faults>>

CreateAny ==
  \E p \in Pipelines, r \in TestRequests \cup ProdRequests : Create(p, r)

(* prepare_pipeline_for_start stores the build type and the repository. *)
Prepare(p) ==
  /\ step[p] = "prepare"
  /\ ~Locked(p)
  /\ prepared' = [prepared EXCEPT ![p] = TRUE]
  /\ Goto(p, IF status[p] # "pending" THEN "done"
             ELSE IF request[p].lane \in ProdLanes THEN "start"
             ELSE "supersede")
  /\ UNCHANGED <<status, request, startAfter, order, buildId, logUrl, provider,
                 outVars, tx, conflicts, claimed, drain, faults>>

(* A debounced row is left to start_pending_builds. *)
AfterSupersede(p) == IF startAfter[p] # "null" THEN "done" ELSE "queue"

\* Bug: the order of the rows stands for the order of the requests.
BugCreatedAfter(q, p) == startAfter[q] # "null" /\ q > p

(* _request_order of two debounced rows *)
RequestedAfter(q, p) == startAfter[q] # "null" /\ order[q] > order[p]

(* supersede_conflicting_test_pipelines selects the row and every live row *)
(* of its lane FOR UPDATE.  Rows inserted while it waits for the locks are *)
(* missed; the rows it gets are read again.                                *)
SupersedeQuery(p) ==
  /\ step[p] = "supersede"
  /\ claimed' = [claimed EXCEPT ![p] = LiveRows(SameLane(p))]
  /\ Goto(p, "locking")
  /\ UNCHANGED <<rowVars, outVars, tx, conflicts, drain, faults>>

(* With the locks, the row gives way to a newer debounced request, or all  *)
(* the live rows are purged and stopped before they are superseded.        *)
SupersedeLock(p) ==
  LET rivals == LiveRows(claimed[p])
      givesWay == startAfter[p] # "null" /\ \E q \in rivals : RequestedAfter(q, p)
  IN
  /\ step[p] = "locking"
  /\ AllFree({p} \cup claimed[p])
  /\ \/ /\ status[p] # "pending" \/ givesWay
        /\ SetStatus(IF status[p] = "pending" THEN {p} ELSE {}, "superseded")
        /\ claimed' = [claimed EXCEPT ![p] = {}]
        /\ Goto(p, AfterSupersede(p))
        /\ UNCHANGED <<purgeAsked, stopAsked>>
     \/ /\ status[p] = "pending" /\ ~givesWay
        /\ claimed' = [claimed EXCEPT ![p] = rivals]
        /\ CancelPipelines(WithBuild(rivals), WithRun(rivals))
        /\ Goto(p, "superseding")
        /\ UNCHANGED status
  /\ UNCHANGED <<request, startAfter, order, prepared, buildId, logUrl, provider,
                 run, dispatches, commitAsked, tx, conflicts, drain, faults>>

SupersedeCommit(p) ==
  /\ step[p] = "superseding"
  /\ SetStatus(claimed[p], "superseded")
  /\ claimed' = [claimed EXCEPT ![p] = {}]
  /\ Goto(p, AfterSupersede(p))
  /\ UNCHANGED <<request, startAfter, order, prepared, buildId, logUrl, provider,
                 outVars, tx, conflicts, drain, faults>>

(* should_queue_test_build of a row that is not debounced. *)
QueueCheck(p) ==
  /\ step[p] = "queue"
  /\ Goto(p, IF request[p].spot /\ ~CanStartSpot THEN "done" ELSE "start")
  /\ UNCHANGED <<rowVars, outVars, tx, conflicts, claimed, drain, faults>>

-----------------------------------------------------------------------------
(* The start transaction *)

\* Bug: the status is not read again under the lock.
BugStartableUnread(p) == startAfter[p] # "future"

Startable(p) == status[p] = "pending" /\ startAfter[p] # "future"

\* Bug: only running rows are in the way.
BugRunningRivals(p) ==
  IF request[p].lane \in ProdLanes
    THEN {q \in SameLane(p) : status[q] = "running" /\ prepared[q]}
    ELSE {}

(* What _supersede_conflicting_pipelines reads, without a lock. *)
StartRivals(p) ==
  IF request[p].lane \in ProdLanes
    THEN {q \in LiveRows(SameLane(p)) : prepared[q]}
    ELSE {}

\* Bug: RUNNING is committed before the build is created.
BugEarlyRunning(p) ==
  /\ ~Locked(p)
  /\ Startable(p)
  /\ tx' = [tx EXCEPT ![p] = "begun"]
  /\ conflicts' = [conflicts EXCEPT ![p] = StartRivals(p)]
  /\ CancelPipelines(WithBuild(StartRivals(p)), WithRun(StartRivals(p)))
  /\ SetStatus({p}, "running")
  /\ UNCHANGED <<request, startAfter, order, prepared, buildId, logUrl, provider,
                 run, dispatches, commitAsked, claimed, faults>>

(* start_pipeline up to create_build: the row is locked FOR UPDATE, and    *)
(* the builds and runs of the rivals are purged and stopped at once.       *)
BeginStart(p) ==
  /\ ~Locked(p)
  /\ Startable(p)
  /\ tx' = [tx EXCEPT ![p] = "begun"]
  /\ conflicts' = [conflicts EXCEPT ![p] = StartRivals(p)]
  /\ CancelPipelines(WithBuild(StartRivals(p)), WithRun(StartRivals(p)))
  /\ UNCHANGED <<rowVars, run, dispatches, commitAsked, claimed, faults>>

CreatorStarts(p) ==
  /\ step[p] = "start"
  /\ BeginStart(p)
  /\ Goto(p, "starting")
  /\ UNCHANGED drain

(* start_pipeline raises ValueError when the row is not startable. *)
CreatorRefused(p) ==
  /\ step[p] = "start"
  /\ ~Locked(p)
  /\ ~Startable(p)
  /\ Goto(p, "done")
  /\ UNCHANGED <<rowVars, outVars, tx, conflicts, claimed, drain, faults>>

\* Bug: the capacity read before the first start is used for all of them.
BugCapacityKept(d, p, started) ==
  IF drain[d].todo = {p} THEN 0 ELSE drain[d].capacity

(* remaining_capacity of a drain after the start of p; 0 once it is over. *)
CapacityLeft(d, p, started) ==
  IF drain[d].todo = {p} THEN 0
  ELSE IF started /\ request[p].spot /\ drain[d].capacity > 0
    THEN drain[d].capacity - 1
    ELSE drain[d].capacity

(* The start of p returns to its caller. *)
EndStart(p, started) ==
  /\ tx' = [tx EXCEPT ![p] = "none"]
  /\ conflicts' = [conflicts EXCEPT ![p] = {}]
  /\ step' = [step EXCEPT ![p] = IF @ = "starting" THEN "done" ELSE @]
  /\ drain' = [d \in Drains |->
       IF drain[d].current # p THEN drain[d]
       ELSE [todo |-> drain[d].todo \ {p},
             current |-> 0,
             capacity |-> CapacityLeft(d, p, started)]]

(* create_build and the workflow dispatch have succeeded. *)
StartDispatch(p) ==
  /\ tx[p] = "begun"
  /\ tx' = [tx EXCEPT ![p] = "dispatched"]
  /\ run' = [run EXCEPT ![p] = "active"]
  /\ dispatches' = [dispatches EXCEPT ![p] = @ + 1]
  /\ UNCHANGED <<rowVars, purgeAsked, stopAsked, commitAsked,
                 step, conflicts, claimed, drain, faults>>

(* GitHub accepts the dispatch but its reply is lost: the client posts it  *)
(* again, or gives up and the start fails.                                 *)
LoseReply(p) ==
  /\ tx[p] = "begun"
  /\ faults < MaxFaults
  /\ faults' = faults + 1
  /\ run' = [run EXCEPT ![p] = "active"]
  /\ dispatches' = [dispatches EXCEPT ![p] = @ + 1]
  /\ UNCHANGED <<rowVars, purgeAsked, stopAsked, commitAsked,
                 step, tx, conflicts, claimed, drain>>

(* create_build or the dispatch raises: rolled back, the row stays pending. *)
StartFail(p) ==
  /\ tx[p] = "begun"
  /\ EndStart(p, FALSE)
  /\ UNCHANGED <<rowVars, outVars, claimed, faults>>

(* The commit writes the row and every rival, so it waits for their locks. *)
StartCommit(p) ==
  /\ tx[p] = "dispatched"
  /\ AllFree(conflicts[p])
  /\ status' = [q \in Pipelines |-> IF q = p THEN "running"
                                    ELSE IF q \in conflicts[p] THEN "superseded"
                                    ELSE status[q]]
  /\ prepared' = [prepared EXCEPT ![p] = TRUE]
  /\ buildId' = [buildId EXCEPT ![p] = TRUE]
  /\ provider' = [provider EXCEPT ![p] = {"repository"}]
  /\ EndStart(p, TRUE)
  /\ UNCHANGED <<request, startAfter, order, logUrl, outVars, claimed, faults>>

(* A cycle of starts that wait for each other's rows. *)
DeadlockCycle(S) ==
  \A x \in S :
    /\ tx[x] = "dispatched"
    /\ \E y \in S \ {x} : y \in conflicts[x]
    /\ \E z \in S \ {x} : x \in conflicts[z]

\* Bug: nothing breaks the cycle.
BugNoDetection(p) == FALSE /\ EndStart(p, FALSE)

(* The database aborts one of them after its run has been dispatched. *)
StartDeadlock(p) ==
  /\ \E S \in SUBSET Pipelines : p \in S /\ DeadlockCycle(S)
  /\ EndStart(p, FALSE)
  /\ UNCHANGED <<rowVars, outVars, claimed, faults>>

-----------------------------------------------------------------------------
(* start_pending_builds, after every callback and every cron check *)

DueRows ==
  {p \in Pipelines : /\ status[p] = "pending"
                     /\ prepared[p] /\ request[p].lane \in TestLanes
                     /\ request[p].spot \/ startAfter[p] # "null"
                     /\ startAfter[p] # "future"}

(* The capacity and the rows are read once, without locks. *)
DrainBegin(d) ==
  /\ drain[d].todo = {} /\ drain[d].current = 0
  /\ DueRows # {}
  /\ drain' = [drain EXCEPT ![d] =
       [todo |-> DueRows,
        current |-> 0,
        capacity |-> IF CanStartSpot /\ MaxConcurrent > 0
                       THEN MaxConcurrent - RunningSpotBuilds
                       ELSE 0]]
  /\ UNCHANGED <<rowVars, outVars, step, tx, conflicts, claimed, faults>>

(* The oldest row left in the list a drain works through. *)
NextDue(d, p) ==
  /\ drain[d].current = 0
  /\ p \in drain[d].todo
  /\ \A q \in drain[d].todo : p <= q

NoCapacity(d, p) ==
  MaxConcurrent > 0 /\ request[p].spot /\ drain[d].capacity = 0

DrainStarts(d, p) ==
  /\ NextDue(d, p)
  /\ ~NoCapacity(d, p)
  /\ BeginStart(p)
  /\ drain' = [drain EXCEPT ![d] =
       [todo |-> drain[d].todo, current |-> p, capacity |-> drain[d].capacity]]
  /\ UNCHANGED step

DrainSkips(d, p) ==
  /\ NextDue(d, p)
  /\ NoCapacity(d, p) \/ (~Locked(p) /\ ~Startable(p))
  /\ drain' = [drain EXCEPT ![d] =
       [todo |-> drain[d].todo \ {p},
        current |-> 0,
        capacity |-> IF drain[d].todo = {p} THEN 0 ELSE drain[d].capacity]]
  /\ UNCHANGED <<rowVars, outVars, step, tx, conflicts, claimed, faults>>

-----------------------------------------------------------------------------
(* Webhook events that change queued rows *)

(* cancel_pending_pr_builds: the PR is a draft again, closed or excluded.  *)
CancelPendingPr(l) ==
  LET rows == {q \in InLane(l) : status[q] = "pending" /\ request[q].kind = "pr"}
  IN /\ "drafted" \in Events
     /\ rows # {}
     /\ AllFree(rows)
     /\ SetStatus(rows, "cancelled")
     /\ UNCHANGED <<request, startAfter, order, prepared, buildId, logUrl, provider,
                    outVars, schedVars>>

ExplicitPending(l) ==
  {q \in InLane(l) : /\ status[q] = "pending"
                     /\ request[q].kind = "explicit"
                     /\ prepared[q]}

(* refresh_pending_explicit_pr_build: the head moved, so the newest queued *)
(* explicit build is re-pointed and its debounce starts over.              *)
RefreshExplicit(l) ==
  /\ "moved" \in Events
  /\ ExplicitPending(l) # {}
  /\ AllFree(ExplicitPending(l))
  /\ \E p \in ExplicitPending(l), o \in 1 .. MaxOrder :
       /\ \A q \in ExplicitPending(l) : order[q] <= order[p]
       /\ \A q \in Pipelines : order[q] < o
       /\ SetStatus(ExplicitPending(l) \ {p}, "superseded")
       /\ startAfter' = [startAfter EXCEPT ![p] = "future"]
       /\ order' = [order EXCEPT ![p] = o]
  /\ UNCHANGED <<request, prepared, buildId, logUrl, provider, outVars, schedVars>>

(* The same handler when the PR is closed or its details are invalid. *)
RefreshInvalid(l) ==
  /\ "closed" \in Events
  /\ ExplicitPending(l) # {}
  /\ AllFree(ExplicitPending(l))
  /\ SetStatus(ExplicitPending(l), "cancelled")
  /\ UNCHANGED <<request, startAfter, order, prepared, buildId, logUrl, provider,
                 outVars, schedVars>>

(* 300 seconds outlast the handler that inserts the row, unless it died. *)
DebounceExpires(p) ==
  /\ startAfter[p] = "future"
  /\ step[p] = "done"
  /\ startAfter' = [startAfter EXCEPT ![p] = "past"]
  /\ UNCHANGED <<status, request, order, prepared, buildId, logUrl, provider,
                 outVars, schedVars>>

-----------------------------------------------------------------------------

CreatorStep(p) ==
  Prepare(p) \/ SupersedeQuery(p) \/ SupersedeLock(p) \/ SupersedeCommit(p) \/ QueueCheck(p)
    \/ CreatorStarts(p) \/ CreatorRefused(p)

StartStep(p) == StartDispatch(p) \/ StartFail(p) \/ StartCommit(p) \/ StartDeadlock(p)

DrainStep(d) ==
  DrainBegin(d) \/ \E p \in Pipelines : DrainStarts(d, p) \/ DrainSkips(d, p)

SchedNext ==
  \/ CreateAny
  \/ \E p \in Pipelines : CreatorStep(p) \/ StartStep(p) \/ LoseReply(p)
                            \/ DebounceExpires(p)
  \/ \E d \in Drains : DrainStep(d)
  \/ \E l \in TestLanes :
       CancelPendingPr(l) \/ RefreshExplicit(l) \/ RefreshInvalid(l)

=============================================================================
