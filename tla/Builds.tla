------------------------------- MODULE Builds -------------------------------
(***************************************************************************)
(* The build service as a whole: scheduling and callbacks interleave on    *)
(* the pipeline table.  The properties are about what two handlers can do  *)
(* to each other between a read and a commit.                              *)
(***************************************************************************)
EXTENDS BuildCallbacks

vars == <<rowVars, outVars, schedVars, callVars>>

TypeOK == RowsTypeOK /\ SchedTypeOK /\ CallTypeOK

Init == RowsInit /\ SchedInit /\ CallInit

Next ==
  \/ SchedNext /\ UNCHANGED callVars
  \/ CallbackNext
  \/ Crash

Spec == Init /\ [][Next]_vars

(***************************************************************************)
(* Fairness.  A handler that has begun goes on (asyncio runs every ready   *)
(* task, every request has a timeout); cron calls start_pending_builds and *)
(* the job monitor for ever; a transaction queued on a row lock gets it,   *)
(* which is strong fairness since the lock comes and goes.  Nothing is     *)
(* assumed of webhooks, of callbacks or of the workflow run.               *)
(***************************************************************************)
Fairness ==
  /\ \A p \in Pipelines :
       /\ WF_vars(StartStep(p) /\ UNCHANGED callVars)
       /\ SF_vars(CreatorStep(p) /\ UNCHANGED callVars)
       /\ SF_vars(ExpireStale(p))
       /\ WF_vars(TimeoutRead(p))
       /\ SF_vars(TimeoutWrite(p))

FairSpec == Spec /\ Fairness

-----------------------------------------------------------------------------

Running(p) == status[p] = "running"

(***************************************************************************)
(* Two pushes of one application to one of stable and beta are never both  *)
(* running, however their start transactions overlap: each supersedes what *)
(* it reads without a lock, and the row locks of the commits, with the     *)
(* database's deadlock detection, decide between two that read each other. *)
(***************************************************************************)
LaneExclusive ==
  \A p, q \in Pipelines :
    (/\ p # q
     /\ Running(p) /\ Running(q)
     /\ request[p].kind = "push" /\ request[q].kind = "push")
    => request[p].lane # request[q].lane

(***************************************************************************)
(* Two debounced builds of one pull request are never both running, as     *)
(* long as no handler died between inserting its row and superseding: the  *)
(* debounce keeps start_pending_builds away from a row until its handler   *)
(* has superseded the others under their locks.                            *)
(***************************************************************************)
DebouncedExclusive ==
  faults = 0 =>
    \A p, q \in Pipelines :
      (/\ p # q
       /\ Running(p) /\ Running(q)
       /\ request[p].lane \in TestLanes
       /\ Debounced(request[p].kind) /\ Debounced(request[q].kind))
      => request[p].lane # request[q].lane

(***************************************************************************)
(* No workflow is dispatched twice for a row unless a reply was lost or a  *)
(* process died: whoever drains the queue, the lock on the row and the     *)
(* committed status let only one start through.                            *)
(***************************************************************************)
DispatchedOnce == faults = 0 => \A p \in Pipelines : dispatches[p] <= 1

(***************************************************************************)
(* A running row has been prepared, names its flat-manager build and has a *)
(* dispatched run, although all of that is committed only at the end.      *)
(***************************************************************************)
RunningIsStarted ==
  \A p \in Pipelines :
    Running(p) => prepared[p] /\ buildId[p] /\ dispatches[p] > 0

(***************************************************************************)
(* The build of a superseded test pipeline has been asked to be purged:    *)
(* supersession of test builds reads build_id under the row's lock.        *)
(***************************************************************************)
SupersededTestBuildPurged ==
  \A p \in Pipelines :
    (/\ status[p] = "superseded"
     /\ request[p].lane \in TestLanes
     /\ buildId[p])
    => p \in purgeAsked

(***************************************************************************)
(* No request is lost: a debounced build that was superseded gave way to a *)
(* request of its pull request that came later, or to an immediate one,    *)
(* whatever order the rows were inserted in and whatever was refreshed.    *)
(***************************************************************************)
LatestRequestSurvives ==
  \A p \in Pipelines :
    (/\ status[p] = "superseded"
     /\ request[p].lane \in TestLanes
     /\ Debounced(request[p].kind))
    => \E q \in SameLane(p) :
         ~Debounced(request[q].kind) \/ order[q] > order[p]

(***************************************************************************)
(* Overlapping drains of the queue read the same capacity, so that together*)
(* they may run max_concurrent_builds for each of them, and never more; a  *)
(* single one keeps to the limit.  Spot builds of the test repository that *)
(* are not debounced are started by their handlers too, past any limit.    *)
(***************************************************************************)
DebouncedSpots ==
  {p \in Pipelines : /\ Running(p)
                     /\ request[p].lane \in TestLanes
                     /\ Debounced(request[p].kind) /\ request[p].spot}

SpotCapacity ==
  MaxConcurrent > 0 =>
    Cardinality(DebouncedSpots) <= Cardinality(Drains) * MaxConcurrent

(***************************************************************************)
(* Once its callbacks are served, a row that says succeeded and names a    *)
(* flat-manager build has had it committed: the handler takes the build id *)
(* from what it read before it awaited anything.                           *)
(***************************************************************************)
SucceededIsCommitted ==
  faults = 0 =>
    \A p \in Pipelines :
      (status[p] = "succeeded" /\ buildId[p] /\ \A c \in Callers : call[c].row # p)
      => p \in commitAsked

(***************************************************************************)
(* A start transaction always ends, so its row lock is always released,    *)
(* even when several starts wait for each other's rows.                    *)
(***************************************************************************)
StartsEnd == \A p \in Pipelines : tx[p] # "none" ~> tx[p] = "none"

(* No row waits for ever: it is started, superseded, cancelled or expired. *)
LeavesPending == \A p \in Pipelines : status[p] = "pending" ~> status[p] # "pending"

(* No row runs for ever, whatever becomes of its workflow's callbacks. *)
LeavesRunning == \A p \in Pipelines : Running(p) ~> ~Running(p)

-----------------------------------------------------------------------------
(* The inductive invariant behind TypeOK and LaneExclusive. *)

Push(p) == Exists(p) /\ request[p].kind = "push"

Starting(p) == tx[p] # "none"

(* The handlers only hold on to rows that exist; a retry is of stable or beta. *)
RefsExist ==
  /\ \A p \in Pipelines :
       /\ Starting(p) \/ run[p] # "none" => Exists(p)
       /\ \A q \in claimed[p] \cup conflicts[p] : Exists(q)
  /\ \A d \in Drains : \A p \in drain[d].todo : Exists(p)
  /\ \A q \in botCancel.rows \cup timingOut : Exists(q)
  /\ \A c \in Callers :
       call[c].phase = "retry" => request[call[c].row].lane \in ProdLanes

(* A row whose start is under way is pending, and no supersession holds it. *)
LocksHold ==
  /\ \A p \in Pipelines : Starting(p) => status[p] = "pending"
  /\ \A p \in Pipelines : step[p] = "superseding" =>
       \A q \in {p} \cup claimed[p] : ~Starting(q)

(* The handler that created the row has prepared it. *)
Past(p) == step[p] \in {"supersede", "locking", "superseding", "queue", "start"}

(* A push has flat_manager_repo stored before anyone can have to see it. *)
PushPrepared ==
  /\ \A d \in Drains : \A p \in drain[d].todo : request[p].lane \in TestLanes
  /\ \A p \in Pipelines :
       Push(p) /\ (Past(p) \/ Starting(p) \/ Running(p)) => prepared[p]

(* Of two pushes starting in one lane, the later begin has seen the other. *)
StartsSeeEachOther ==
  \A p, q \in Pipelines :
    (/\ p # q
     /\ Push(p) /\ Push(q) /\ request[p].lane = request[q].lane
     /\ Starting(p) /\ Starting(q))
    => q \in conflicts[p] \/ p \in conflicts[q]

(* A push that is starting is about to supersede the one that runs. *)
StartsSeeRunning ==
  \A p, q \in Pipelines :
    (/\ p # q
     /\ Push(p) /\ Push(q) /\ request[p].lane = request[q].lane
     /\ Running(p) /\ Starting(q))
    => p \in conflicts[q]

IInv ==
  /\ TypeOK
  /\ RefsExist
  /\ LocksHold
  /\ PushPrepared
  /\ StartsSeeEachOther
  /\ StartsSeeRunning
  /\ LaneExclusive

-----------------------------------------------------------------------------
(* What the repository's tests say of the program, and its races refute.   *)

(* A status callback never changes a row whose status is final. *)
FinalStaysFinal ==
  [][\A p \in Pipelines :
       status[p] \in Finalized /\ (\E c \in Callers : call[c].phase = "status" /\ StatusWrite(c))
         => status'[p] = status[p]]_vars

=============================================================================
