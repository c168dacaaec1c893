---------------------------- MODULE PipelineRows ----------------------------
(***************************************************************************)
(* The rows of the pipeline table and the requests the service has made of *)
(* GitHub and flat-manager about them.  A row is keyed by its creation     *)
(* order.  What a row asks for (its request) never changes; the columns    *)
(* the handlers race on are one variable each, because SQLAlchemy writes   *)
(* only the columns that changed.                                          *)
(*                                                                         *)
(* A lane is the scope in which pipelines conflict: one application and    *)
(* one git ref for the test repository, one application and one            *)
(* flat-manager repository for stable and beta.                            *)
(***************************************************************************)
EXTENDS Naturals, FiniteSets

CONSTANTS
  Pipelines,      \* row identities, ordered as created_at orders the rows
  TestLanes,      \* lanes whose flat_manager_repo is "test"
  ProdLanes,      \* lanes whose flat_manager_repo is "stable" or "beta"
  NoRequest,      \* the request of a row that does not exist yet
  MaxOrder,       \* bound: webhook receipt times that are told apart
  MaxConcurrent   \* settings.max_concurrent_builds, 0 means unlimited

ASSUME PipelinesAssumption ==
  /\ Pipelines \subseteq Nat \ {0}
  /\ IsFiniteSet(Pipelines)

ASSUME LanesAssumption == TestLanes \cap ProdLanes = {}

ASSUME BoundsAssumption == MaxOrder \in Nat /\ MaxConcurrent \in Nat

Lanes == TestLanes \cup ProdLanes

(* "absent" stands for a row that has not been inserted. *)
PipelineStatus ==
  {"absent", "pending", "running", "failed", "cancelled", "succeeded",
   "superseded", "expired"}

Live == {"pending", "running"}

(* Statuses for which a status callback is answered with a conflict. *)
Finalized == {"succeeded", "cancelled", "superseded", "expired"}

(***************************************************************************)
(* Where a row comes from: an automatic pull-request event, `bot, build`   *)
(* from outside the organisation, `bot, build` from a member or a manual   *)
(* trigger, a push, `bot, retry` on a failure issue, or the retry after an *)
(* infrastructure cancellation.                                            *)
(***************************************************************************)
TestKinds == {"pr", "explicit", "immediate"}
ProdKinds == {"push", "reissue", "autoretry"}

Debounced(kind) == kind \in {"pr", "explicit"}

(* Retries start without the preparation that stores flat_manager_repo.    *)
Prepares(kind) == kind \in TestKinds \cup {"push"}

Request ==
  [kind : TestKinds, lane : TestLanes, spot : BOOLEAN]
    \cup [kind : ProdKinds, lane : ProdLanes, spot : BOOLEAN]

VARIABLES
  status,       \* Pipeline.status
  request,      \* triggered_by, app_id, the ref and the build type in params
  startAfter,   \* params.start_after relative to now: "null", "future", "past"
  order,        \* _request_order of a row that has start_after
  prepared,     \* flat_manager_repo is stored
  buildId,      \* build_id is stored
  logUrl,       \* log_url is stored
  provider,     \* what provider_data names: the workflow's repository, its run
  run,          \* the GitHub workflow run dispatched for the row
  dispatches,   \* how many workflow runs were dispatched for the row
  purgeAsked,   \* rows whose flat-manager build was asked to be purged
  stopAsked,    \* rows whose workflow run was asked to stop
  commitAsked   \* rows whose flat-manager build was asked to be committed

rowVars == <<status, request, startAfter, order, prepared, buildId, logUrl,
             provider>>
outVars == <<run, dispatches, purgeAsked, stopAsked, commitAsked>>

(* A run can be stopped when provider_data names both. *)
Provider == {"repository", "run"}

RunStates == {"none", "active", "success", "failure", "cancelled"}

RowsTypeOK ==
  /\ status \in [Pipelines -> PipelineStatus]
  /\ request \in [Pipelines -> Request \cup {NoRequest}]
  /\ \A p \in Pipelines : status[p] # "absent" => request[p] \in Request
  /\ startAfter \in [Pipelines -> {"null", "future", "past"}]
  /\ order \in [Pipelines -> 0 .. MaxOrder]
  /\ prepared \in [Pipelines -> BOOLEAN]
  /\ buildId \in [Pipelines -> BOOLEAN]
  /\ logUrl \in [Pipelines -> BOOLEAN]
  /\ provider \in [Pipelines -> SUBSET Provider]
  /\ run \in [Pipelines -> RunStates]
  /\ dispatches \in [Pipelines -> Nat]
  /\ purgeAsked \subseteq Pipelines
  /\ stopAsked \subseteq Pipelines
  /\ commitAsked \subseteq Pipelines

RowsInit ==
  /\ status = [p \in Pipelines |-> "absent"]
  /\ request = [p \in Pipelines |-> NoRequest]
  /\ startAfter = [p \in Pipelines |-> "null"]
  /\ order = [p \in Pipelines |-> 0]
  /\ prepared = [p \in Pipelines |-> FALSE]
  /\ buildId = [p \in Pipelines |-> FALSE]
  /\ logUrl = [p \in Pipelines |-> FALSE]
  /\ provider = [p \in Pipelines |-> {}]
  /\ run = [p \in Pipelines |-> "none"]
  /\ dispatches = [p \in Pipelines |-> 0]
  /\ purgeAsked = {}
  /\ stopAsked = {}
  /\ commitAsked = {}

Exists(p) == status[p] # "absent"

InLane(l) == {q \in Pipelines : Exists(q) /\ request[q].lane = l}

SameLane(p) == InLane(request[p].lane) \ {p}

\* Bug: rows that already run are forgotten.
BugOnlyPending(rows) == {q \in rows : status[q] = "pending"}

LiveRows(rows) == {q \in rows : status[q] \in Live}

(* The next row to be inserted. *)
NextRow(p) == ~Exists(p) /\ \A q \in Pipelines : q < p => Exists(q)

(* INSERT of a pending row, and the start_after its handler computed. *)
InsertRow(p, r, o) ==
  /\ NextRow(p)
  /\ status' = [status EXCEPT ![p] = "pending"]
  /\ request' = [request EXCEPT ![p] = r]
  /\ startAfter' = [startAfter EXCEPT ![p] =
                      IF Debounced(r.kind) THEN "future" ELSE "null"]
  /\ order' = [order EXCEPT ![p] = IF Debounced(r.kind) THEN o ELSE 0]
  /\ UNCHANGED <<prepared, buildId, logUrl, provider>>

(* UPDATE of the status column of every row of a set. *)
SetStatus(rows, s) ==
  status' = [q \in Pipelines |-> IF q \in rows THEN s ELSE status[q]]

(***************************************************************************)
(* cancel_pipeline for the rows of a set, given the subset whose build_id  *)
(* and the subset whose run the caller can name.  Failures are logged and  *)
(* swallowed, so only the attempt is recorded.                             *)
(***************************************************************************)
CancelPipelines(withBuild, withRun) ==
  /\ purgeAsked' = purgeAsked \cup withBuild
  /\ stopAsked' = stopAsked \cup withRun

WithBuild(rows) == {q \in rows : buildId[q]}
WithRun(rows) == {q \in rows : provider[q] = Provider}

(* _count_running_spot_builds and _can_start_test_spot_build *)
RunningSpotBuilds ==
  Cardinality({q \in Pipelines : status[q] = "running" /\ request[q].spot})

CanStartSpot == MaxConcurrent = 0 \/ RunningSpotBuilds < MaxConcurrent

=============================================================================
