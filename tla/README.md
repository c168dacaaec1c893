# A TLA+ model of the Flathub build service

The repository is the backend that turns GitHub webhooks into Flatpak builds:
it records a *pipeline* row for every build, starts a GitHub Actions workflow
for it, follows the workflow by callbacks, asks flat-manager to commit and to
publish the result, and keeps pull requests and issues informed. Everything it
decides, it decides from rows of a PostgreSQL database that several coroutines
of several processes (web server, cron jobs) read and write, with calls to
GitHub and flat-manager awaited in between. The model is about those awaits.

## 1. Inventory

| component | state | operations | interacts with | hard behaviour | correct when |
|---|---|---|---|---|---|
| pipeline table (`models/pipeline.py`) | one row per build: status, params (ref, start_after, build type), flat_manager_repo, build_id, log_url, provider_data, job ids | insert, ORM updates of changed columns, `SELECT ... FOR UPDATE` | everything | lost updates: rows are read, awaited upon, and written blindly | statuses follow the lifecycle; final ones stay |
| build scheduling (`pipelines/build.py` 249-656) | uncommitted start transactions, their row locks | create, prepare, supersede, queue, start, drain the queue | webhooks, callbacks, cron, GitHub, flat-manager | overlapping starts, lock waits, deadlocks, a failing or lost dispatch, a crash after insertion | one running build per lane, the newest request wins, one run per row, slots respected, nothing waits for ever |
| workflow callbacks (`pipelines/build.py` 658-1128, `routes/pipelines.py`) | none of their own | metadata, log_url, status, reprocheck, cost | workflow runs (curl retries) | duplicated and late delivery, races with cancellation and supersession | outcome stored once, build committed, cancelled run stopped |
| webhook receiver (`routes/webhooks.py`) | none of its own | filter an event, look whether it is built, create or refresh or cancel builds, `bot` commands, issue retries | GitHub, scheduling, issues | redelivery, handlers GitHub stopped waiting for, events out of order | a push is not built twice, the head is built, drafts wait |
| job monitor (`services/job_monitor.py`) | a session over the rows it selected | expire, time out, follow commit / publish / update-repo jobs, recover from peers | flat-manager, GitHub | overlaps callbacks and publishing; 5 rows at a time | rows do not get stuck |
| publishing (`services/publishing.py`) | a session over COMMITTED rows | group, supersede and purge older, publish newest | flat-manager | overlaps the monitor, lost replies | newest published, published builds not purged |
| merge service (`services/merge.py`) | merge_request rows | validate, dispatch, callback, finalise, retry | GitHub, merge workflow | duplicate callbacks, crash while finalising | one active request per pull request |
| GitHub task queue (`services/github_task.py`) | github_task rows | queue, process with SKIP LOCKED, back off, clean up | GitHub | overlapping workers | each task done or failed after its attempts |
| webhook reconciler (`services/webhook_reconciler.py`) | none | list deliveries, skip stale and built pushes, ask for redelivery | GitHub, the rows | overlap with late handlers and other passes, failing passes | the last push is built in the end, unless its start raised, and a push not twice in a row |
| failure issues (`services/build_failure_issue.py`) | one row per application and repository | reserve, adopt, open, comment, close; `bot, retry` | GitHub issues, callbacks, users | concurrent results, lost replies, handlers that die holding the row, retries that hold nothing | one open issue but for those the service cannot know, it tells of the last result, a retry builds what it reports |
| reproducibility issues (`services/reprocheck_notification.py`) | one row per application | open, close | GitHub issues | as above, without a lock | off by default |
| permission assessment (`services/permission_assessment.py`) | provider_data of a row, an advisory lock per pull request | submit, refresh, report, mark a changed target | decision service, commit statuses | overlapping cron runs, monitor and notifications; the lock is dropped by every commit | an approval is the last word, tries are bounded, the head shows the decision |
| test build penalty (`services/test_build_penalty.py`) | none | read the last rows that ended | webhook receiver | a window over rows of several statuses | a pull request is paused only after that many failures |
| diffoscope cache, retry client, baselines | LRU cache, counters | pure functions | - | boundaries | agree with their definition |
| notifier, dashboards, appstream, manifests, invitations, snapshots | none that others decide on | text, reports | GitHub, web | - | - |

## 2. Plan

Done, in this order:

1. `PipelineRows`, `BuildScheduling`, `BuildCallbacks`, composed in `Builds`,
   instances in `MCBuilds`, proofs in `Builds_proofs` and
   `BuildHandlers_proofs`.
2. `Publication`: SUCCEEDED to PUBLISHED, the monitor and the publisher as
   overlapping transactions over flat-manager's build and job states, with
   proofs in `Publication_proofs`.
3. `MergeRequests`: the lifecycle of a merge with its compare-and-set callback,
   crash and retry, with proofs in `MergeRequests_proofs`.
4. `GithubTasks`: the persistent queue, shown to implement `TaskDelivery`, with
   proofs in `GithubTasks_proofs`.
5. `PermissionReviews`: submissions, refreshes and reports under the advisory
   lock, with proofs in `PermissionReviews_proofs`.
6. `FailureIssues`: the issue of a failing application, with proofs in
   `FailureIssues_proofs`.
7. `WebhookReceiver` and `WebhookDeliveries`, the composition with the
   reconciler, with proofs in `WebhookDeliveries_proofs`.

The safety invariants, the action property and the refinement that the passing
runs check are proved (section 5).

Left:

8. Modules: an abstract specification of what users of the flat-manager
   repository may see, which `Publication` would implement; the reprocheck
   callback and its issue; pull requests that are closed and opened again;
   pure algorithms against reference definitions (the retry baseline,
   `check_run_was_cancelled`, the diffoscope cache).

## 3. Modules

| module | models | lines of code |
|---|---|---|
| `PipelineRows` | the columns of the pipeline table that handlers race on, one variable each, and the requests made of GitHub and flat-manager | `models/pipeline.py`, `build.py` 111-180, 303-319 |
| `BuildScheduling` | creation, preparation, supersession, queue, start transaction, drains, the webhook events that change queued rows | `build.py` 249-656, `webhooks.py` 150-244, 1917-1996 |
| `BuildCallbacks` | status and log_url callbacks, `bot, cancel`, timeouts, expiry, crashes | `build.py` 700-910, `webhooks.py` 1645-1719, `job_monitor.py` 73-92, 267-350 |
| `Builds` | the composition, its fairness, its properties and the inductive invariant | |
| `MCBuilds` | instances for TLC | |
| `Builds_proofs` | TLAPS proofs about `Builds`: types and lanes | |
| `BuildHandlers_proofs` | TLAPS proofs about `Builds`: starts, supersession, success, the limit on spot builds | |
| `Publication` | commit callback, job monitor and publisher as overlapping transactions over flat-manager's builds | `publishing.py`, `job_monitor.py` 62-200, 202-265, 439-796, `build.py` 803-910 |
| `MCPublication` | instances for TLC | |
| `Publication_proofs` | TLAPS proofs about `Publication` | |
| `MergeRequests` | the `/merge` command of a reviewer, its workflow, callback and finalization | `merge.py` 171-333, 552-724, 770-858, 1189-1203, `merge.yml` |
| `MCMergeRequests` | an instance for TLC | |
| `MergeRequests_proofs` | TLAPS proofs about `MergeRequests` | |
| `TaskDelivery` | what the task queue promises, without workers, rows or locks | |
| `GithubTasks` | queued GitHub requests: the handler's transaction, batches of overlapping workers, retries, rollback, cleanup | `github_task.py` 16-165, `github.py` 154-271, 402-428, `cronjob.py` 73-84 |
| `MCGithubTasks` | an instance for TLC | |
| `GithubTasks_proofs` | TLAPS proofs about `GithubTasks` | |
| `PermissionReviews` | submissions, refreshes and reports of permission assessments, the pull request and the decision service around them | `permission_assessment.py`, `routes/permission_assessment.py` |
| `MCPermissionReviews` | an instance for TLC | |
| `PermissionReviews_proofs` | TLAPS proofs about `PermissionReviews` | |
| `FailureIssues` | the row and the issue of a failing application, results, `bot, retry`, users | `build_failure_issue.py`, `webhooks.py` 470-609, `github.py` 683-983 |
| `MCFailureIssues` | an instance for TLC | |
| `FailureIssues_proofs` | TLAPS proofs about `FailureIssues` | |
| `WebhookReceiver` | deliveries of pushes and of one pull request's events, their handlers, the rows they insert or cancel, the penalty | `webhooks.py` 809-1049, 1129-1602, 1862-1943, `test_build_penalty.py` |
| `WebhookDeliveries` | the receiver together with passes of the reconciler | `webhook_reconciler.py` |
| `MCWebhookDeliveries` | an instance for TLC | |
| `WebhookDeliveries_proofs` | TLAPS proofs about `WebhookDeliveries` | |

### How state and actions correspond to the code

*Rows.* `Pipelines` are row identities in creation order. `status`, `order`,
`prepared` (flat_manager_repo is stored), `buildId`, `logUrl` and `provider`
(what provider_data names) are columns; they are separate variables because
SQLAlchemy writes only the columns a session changed, and that is what makes a
lost update lose one column and not another. `request` never changes: where the
row comes from, its lane and whether it runs on a spot runner. A **lane** is the
scope of a conflict: application and git ref for the test repository,
application and flat-manager repository for stable and beta. The kinds are `pr`
(an automatic pull-request event), `explicit` (`bot, build` from outside the
organisation; both are debounced for 300 seconds), `immediate` (`bot, build` of
a member, a manual trigger), `push`, `reissue` (`bot, retry` on a failure issue)
and `autoretry` (after an infrastructure cancellation). `order` is
`_request_order`: the receipt time of the webhook, which is not the order of
insertion; `Create` chooses any unused one.

*Transactions.* A handler's transaction is one action where it awaits nothing
but the database, and two or more where it awaits GitHub or flat-manager
between reading and committing. What is not committed lives in `tx`,
`conflicts` and `claimed`; a row lock is not a variable but the predicate
`Locked`, derived from the transactions that hold it, and every other write of
the row waits for it. `SupersedeQuery` and `SupersedeLock` are two steps because
under READ COMMITTED the rows of a `SELECT ... FOR UPDATE` are chosen by a
snapshot and re-read once their locks are granted. Deadlock detection is
`StartDeadlock`: the database aborts one transaction of a cycle.

*Outside.* Requests to purge a build, to stop a run or to commit a build are
sets of rows for which the request was made; whether they succeed is not
modelled, because the handlers log failures and go on. `run` is the GitHub
workflow run. Dispatch may succeed, fail, or succeed with its reply lost.

*Handlers.* `step` is where the coroutine that created a row is (`create_pipeline`
of `webhooks.py`), `drain` a call of `start_pending_builds` with its local list,
current row and remaining capacity, `call` a callback request between its read
and its commit, with what it read, `botCancel` the command with the ids it read,
`timingOut` the rows the monitor is asking GitHub about.

*Publication.* `row` holds the columns both cron jobs write; a `session` is the
transaction of one of them: the rows as read, the columns changed so far, the
rows its first UPDATE locked. `Commit` overlays the changed columns, and nothing
else, on whatever the rows have become. `age` counts the two windows of the
monitor (24 and 48 hours). `build` is flat-manager: it commits an open build
once, publishes a ready build, runs the jobs and allows a purge at any time.
The lookup and the request of one group of the publisher are one step: the
request succeeds only for a build that is still as it was looked up, so that a
change in between has the effect of a refused request, which is a behaviour of
the model.

*Merges.* `step` is where the task of a command is in `_process_merge`; a
command inserts one row at most, so commands name the rows. The two unique
indexes of the table are `Unique`; none of the properties of merges depends on
them. `repo` remembers which command created the
repository of an application: the code knows only that it exists, and that is
what `OwnRepository` is about. `report` is what the workflow's curl has still to
deliver; it stays until a callback answers that the row is no longer PUSHING, so
every report may be delivered again. `call` is a callback between its read, its
conditional UPDATE, the finalization and the row's last write; the UPDATE is
the only step of the service that compares before it writes. A lost reply is
retried by the HTTP client: `Dispatch` may start two runs, and `CreateRepo` may
create a repository and be refused it. The checks of `Begin` (authorization,
open pull request, blocking labels, head commit, ready build) read nothing that
the service writes except whether the pull request is closed. Finalization is
one step because its requests go to GitHub only; any of them may fail, the one
that closes the pull request too.

*Tasks.* A task is one request: `handler` says whether its handler has still to
send it, has added it to its session (`queued`) or has ended, and `row` is what
is committed. `WorkerBegins` is the `SELECT ... FOR UPDATE SKIP LOCKED` with its
limit; `batch[w].row` is what the worker's session holds and nobody else sees,
`batch[w].todo` what its loop has still to send. The only commit is that of
`get_db` when the job ends (`WorkerCommits`), so RUNNING, the attempt count and
the outcome of every task of the batch are written together or not at all
(`WorkerDies`). `tries` and `taken` are no columns: they count what was really
sent and what GitHub really did. `due` and `age` stand for next_attempt_at and
completed_at; how long a back-off lasts decides nothing else.

*Permissions.* `data` is `provider_data["permission_assessment"]`, `lock` the
transaction-scoped advisory lock of a pull request (or of a pushed build), and
`worker` what a cron run, the monitor or a notification holds between taking the
lock and the commit that releases it: the state it will store (`new`) and the
outcome it will report. A submission that also reports commits in between and
takes the lock again (`recall`). `shown` is the commit status of each head
revision, with the build and the decision it came from; `tries` and `assessed`
are histories. `TargetChanges` includes `notify_target_changed`, which holds no
lock. A reply may be lost after the status was posted (`ReportFails`), and a
worker may die anywhere.

*Issues.* `row` is the committed row of build_failure_issue, `holder` whose
transaction has it locked or is inserting it under the unique index, and
`run[r].mine` the copy this handler works on; `Commit` makes it the row. `issues`
is GitHub: `said` are the commits an issue reports, `body` the commit its body
names, which a user's edit replaces, `ours` whether its title and its first
sentence are still those the service writes: users close issues, open them again
and edit either. A retry reads row and body, starts a build
of what it read and closes the issue, each a step, and holds nothing. A handler
may get no answer, whether or not GitHub did what it was asked (`NoAnswer`), or
die after a request (`Dies`), which rolls its row back. The POST that opens an
issue is sent again when its reply is lost or is a server error, so that one
failure may open several issues (`ReplyLost`, then `CreateIssue`). An *orphan* is
an issue that is not, or no more, the row's affair: the number was lost with a
reply, it was passed over when the row was inserted (it is not `ours` any more,
or an older duplicate), or a user opened it again. An issue of ours that a
dying handler left before there was a row is no orphan: the next row must adopt
it.

*Deliveries.* `delivery` counts the attempts of an event that are on their way
and that failed, and says whether one succeeded; `handler` is a request being
served, which goes on when GitHub stops waiting for it (`AnswerTooLate`).
`received` is before the query for an existing row, `create` after it, with
requests to GitHub in between, and `start` is after the insertion of a push's
row: `start_pipeline` starts it and supersedes the rows that wait, finds it
superseded by another start, or raises (`StartRaises`), which leaves the row
pending and answers GitHub with an error. `built` and `tests` are the rows of the branch
and of the pull request, as far as the receiver decides on them: how a
start works in detail is `BuildScheduling`. A pass of the reconciler lists
events with their failed attempts, then handles them one at a time, asking for
the branch (`Picks`, `SkipsStale`) before it looks at the rows (`SkipsBuilt`,
`Redelivers`). The branch and the pull request share no state, so a behaviour is
`about` one of them.

### Decisions worth knowing

- `DebounceExpires` waits for the handler that inserted the row and `RunEnds`
  for the commit of the start: 300 seconds and a build outlast them. A crash
  ends the handler, so the row of a dead handler does become due.
- The expiring UPDATE of the monitor locks rows for the rest of its transaction
  in `Publication` but is atomic in `BuildCallbacks`, where it only touches rows
  that nobody has worked on for two days.
- A build whose start was aborted after `create_build` is never heard of again
  (its id was rolled back) and is not kept.
- GitHub's concurrency group cancels an older run of the same ref; this is one of
  the ways `RunEnds` says "cancelled".
- `deliveries`, `delivered`, `logged`, `faults`, `attempts` and `MaxOrder` are
  bounds; each has a constant. `faults` counts lost replies and crashes.

## 4. What is checked

Every property of a passing run is also tested on a mutant: a definition with a
plausible bug, kept beside the right one under a name that begins with `Bug`,
on which TLC finds the property violated.

| run | instance | shows |
|---|---|---|
| `queue` | three debounced rows of two pull requests, one slot, one drain | `DebouncedExclusive`, `LatestRequestSurvives`, `SupersededTestBuildPurged`, `SpotCapacity`: supersession with reordered receipt, refresh, draft, close and timeout |
| `callbacks` | two immediate rows of one pull request, two callers, each callback up to twice, `bot, cancel` | `TypeOK`, `SucceededIsCommitted` |
| `retries` | two rows of one stable application: pushes, re-issues, automatic retries, one fault | `RunningIsStarted` |
| `live` | two rows of a test lane and a stable lane, one drain, one fault | `LaneExclusive`, `DispatchedOnce`; `LeavesPending`, `LeavesRunning`, `StartsEnd` under `FairSpec` |
| `publication` | two builds of one application, a monitor, a publisher, a crash | `PublishingIsOut`, `SupersededForNewer` |
| `publication_live` | a row from its insertion on, or two committed ones of one application; a publisher, a monitor that may hold an older reading, two publish jobs of which any may break, two success callbacks | `PublicationTypeOK`, `FailedIsBroken`, `Settles` under `LiveSpec` |
| `merge` | two commands on one pull request, one on another, one application, two callbacks at a time, two runs a request, one crash, lost reply or lost report | `MergeTypeOK`, `FinalizedOnce`, `OwnRepository`, `ClosedIsPushed`; `MergeSettles` under `FairSpec` |
| `tasks` | two requests, two workers, batches of two, two tries, two faults | `TaskTypeOK`, `RepeatedByFaults`, `AttemptsBounded`, and that `GithubTasks` implements `TaskDelivery` (`Delivery`); `TasksSettle` under `FairSpec` |
| `permissions` | two builds of one pull request, two workers, two targets of which one is reviewed, decisions that change, one edit, one fault | `PermissionsOK` (types, and tries bounded however workers overlap), `ApprovalIsLastWord`, `OlderApprovalNeverReturns`; `ReviewShown` under `FairSpec` |
| `issues` | three builds that end in any order, a retry, two actions of users, two faults | `IssueTypeOK`, `OneOpenIssue`, `LastResultStands`, `RetryBuildsReported` |
| `webhooks` | three pushes or three pull-request events, two handlers, a reconciler, two faults, four events and faults in all | `ReconcilerTypeOK`, `BuiltOnce`, `NoNeedlessTest`; `HeadBuilt`, `HeadTested` under `FairSpec` |

The bounds are the smallest in which the races happen. A race in a lane needs
two rows, and one more row, of another lane, to compete for the slot; a lost
update needs two requests in flight, or one and a supersession; a duplicate
needs two deliveries. The third command of `merge` is what a submission must be
kept apart from, the first two compete and retry. `tasks` has as many tasks as a
batch holds, so that one worker may get both, or each one of them; two tries
and two faults are the fewest in which a task is retried, lost and given up. Supersession by three rows in a chain is covered by
`queue`. In `issues` a second build must fail beside the first, and a third is what a
retry starts or what ends after a fault; the two faults are one that leaves an issue without
a row and one that meets it, and the two actions of users change its title or
sentence and give them back, or close it and open it again. The repository is
taken to have fewer than a hundred open issues and pull requests, because
`list_open_github_issues` reads one page. No user opens an issue with the title
and the first sentence of the service. From `Init` two rows are too many for a
liveness check of `Publication`, so `LiveInit` has one row beside an expired one
(`Alone`), or two that are about to be told apart (`Pair`): committed, one of
them older than a day, each with a broken publish job behind it, and perhaps a
monitor that read the first before. TLC reaches each of these states from `Init`,
the last with two monitors. In `webhooks` three pushes let a branch leave a commit and return
to it, and three events make a pull request ready, a draft and ready again; `MaxMoves` is a bound on
events and faults together, so that the longer histories are those with fewer
faults. One pass of the reconciler runs at a time there; that overlapping passes
do not build a push twice in a row is a theorem (section 5). `Limit` is two, the fewest
failures in a row that are a streak. `SYMMETRY` is used for callers in `callbacks`, which checks no liveness.
`CHECK_DEADLOCK FALSE` stands in every configuration because the instance
really stops: its rows are used up and its bounds reached.

The run `final` shows that the code does not do what a test says (section 6).

### Fairness

`Builds`: a handler that has begun goes on (asyncio runs every ready task and
every request has a timeout), so start transactions are weakly fair. A handler
waiting for a row lock that comes and goes gets it in the end, since PostgreSQL
queues waiters: strong fairness for the steps of the creating handler, for
`TimeoutWrite` and `ExpireStale`, both of which cron also repeats. Nothing is
assumed of webhooks, of callbacks or of the workflow run, so `LeavesRunning` is
the timeout's doing and `LeavesPending` holds even if the queue is never drained.

`Publication`: cron runs both jobs again and again (weak fairness of their
steps), flat-manager's jobs end and builds are reviewed, time passes, and a
lookup that is repeated for ever is answered in the end (strong fairness of the
answered lookups). The last assumption is needed: a committed row whose build is
never looked up stays committed, because only SUCCEEDED, PENDING and PUBLISHING
rows expire. Nothing is assumed of how a publish job ends: any may break.
`Settles` names the two ways in which the code leaves a row COMMITTED for ever,
and excuses no other: every publish job of it breaks and it is older than 24
hours, so that the monitor selects it no more (`PublishBreaks`), or a monitor
wrote COMMITTED from an older reading over a row whose build the publisher had
superseded and purged (`CommittedPurged`). The run reaches both: without either
exception TLC finds `Settles` violated.

`MergeRequests`: the task of a command goes on (weak fairness of its steps), and
so does a callback; a run ends, because the workflow has a limit of ten minutes;
a report that is sent again and again is taken in the end (strong fairness of
`CallbackRead`), or is given up, which `ReportLost` says and `orphaned` records.
A server that dies takes tasks and callbacks with it and nothing resumes them:
`MergeSettles` excepts their requests, and the exception is the hazard.

`GithubTasks`: cron starts a worker again and again and a worker goes on (weak
fairness of `WorkerSteps`; each of its requests has a timeout), and time passes
(`BecomesDue`). Nothing is assumed of GitHub, which may refuse a task until it is
given up, nor of handlers. `MaxFaults` bounds how often workers die: a queue
whose every batch is rolled back settles nothing.

`PermissionReviews`: cron runs the refresh again and again, and a worker that
holds the lock goes on (weak fairness; its requests have timeouts). Nothing is
assumed of submissions, of the pull request, of the decisions or of faults.
`ReviewShown` names two cases the code does not repair: a target changed and
changed back before a refresh saw it, and a report of another build of the same
head that failed for good.

`WebhookDeliveries`: GitHub attempts the deliveries it was asked for, handlers
and passes go on (each awaits requests with timeouts), cron starts another pass
and starts the queued builds: weak fairness of each. A pass begins when the attempts asked
for by earlier ones were made, as the minutes between two cron runs are longer
than a delivery. `HeadBuilt` asks that the last
push's row was started. It excepts pushes that failed `MaxAttempts` times, which
the reconciler gives up, and pushes whose start was not made after the row was
inserted and whose delivery failed, which nobody starts and the reconciler takes
for built (`StartFailed`, section 6); `HeadTested` excepts events whose delivery failed,
because the reconciler looks at pushes only.

`FailureIssues` has no liveness: an application that is never built again keeps
its issue.

## 5. What is proved

`Builds_proofs` proves, for every set of rows, lanes, requests, drains and
callers and every bound, from the named assumptions on the constants:

- `TypeCorrect`: `Spec => []TypeOK`;
- `LaneExclusion`: `Spec => []LaneExclusive`.

Both rest on `Invariance: Spec => []IInv`. `LaneExclusive` is not inductive: two
start transactions of one lane may both be about to commit RUNNING. The reason
they cannot both end up running is that they have looked at each other. When the
second one begins, the first is pending or running and has its
flat_manager_repo stored (`PushPrepared`, which holds because a push is prepared
by its handler and is never drained), so the second one read it as a rival:
`StartsSeeEachOther` says of two starting pushes that one has the other in
`conflicts`, and `StartsSeeRunning` that a start has the running push in
`conflicts`. A commit writes every row in `conflicts` and waits for their locks,
and the lock of a starting row is held until its own end (`LocksHold`), so the
commit of one either waits for the other or supersedes it. `RefsExist` says that
handlers hold on to rows that exist, so that creation disturbs none of this.
`TypedStep` proves the types and `RefsExist` action by action, `LockStep` the
rest, with `QuietStep` for the actions that change no status and no transaction;
`FreeWrite`, `BeginSees` and `CommitExcludes` hold the three arguments above.

`BuildHandlers_proofs` proves of the same module, in the same generality and
from `IInv`:

- `RunningRowsStarted`: `Spec => []RunningIsStarted`;
- `OneRunPerRow`: `Spec => []DispatchedOnce`;
- `NoRequestLost`: `Spec => []LatestRequestSurvives`;
- `SupersededPurged`: `Spec => []SupersededTestBuildPurged`;
- `DebounceExcludes`: `Spec => []DebouncedExclusive`;
- `SuccessCommitted`: `Spec => []SucceededIsCommitted`;
- `SpotLimit`: `Spec => []SpotCapacity`, with no condition on drains or requests:
  overlapping drains together run at most `max_concurrent_builds` debounced spot
  builds for each of them, so that a single one keeps the limit.

It has four invariants. `StartsInv` is about starts. A row whose run was
dispatched must not be started again, and a start that fails leaves its row
pending; but before the dispatch it has no run, and after it only a deadlock can
undo the start. Deadlocks need rivals, so they are of stable and beta, whose rows
are started by the handler that created them and by no drain, and that handler
has given up (`Spent`). `QueueInv` is about supersession. `ClaimInv` says that
the rows a handler holds between its purge and its commit are purged and
ordered before its own, which stays so because neither a start nor a refresh
takes a locked row; `DebounceInv` says that of two live debounced rows of one
pull request the handler of one has yet to supersede the other, and that a row
whose handler is not done has not started. `SuccessInv` says that a status
callback knows the build its row will keep: a row whose run has ended was
dispatched, so by `StartsInv` no start of it can follow. `SpotInv` is about the
limit on spot builds. A drain counts the running builds once, so what must stay
below the bound is the number of debounced builds that run plus the slots all
drains have left (`Budget`, `Slots`), and a start that is under way must have a
slot set aside until it commits (`StartedBy`). Debounced test builds are started
by a drain only (`QueuedByDrain`), since a debounced row never reaches the step in
which its handler would start it; builds that members ask for are not debounced,
start past any limit (section 6) and are not counted, but they do lower the
capacity a drain reads. A drain that begins sets at most the limit aside, less
what runs, whatever the others hold (`SpotDrainBegin`). The property holds on the
run's instance and on one with two drains (3.8 million states), where the bound
is reached only by drains that overlap. In each part one lemma
treats the steps that leave its variables alone (`QuietSteps`, `AwaySteps`,
`AsideSteps`, `SpareSteps`) and one lemma each of the others.

`Publication_proofs` proves, for every set of rows and applications and any
number of monitors, publishers, attempts and crashes:

- `PublicationTypeCorrect`: `Spec => []PublicationTypeOK`;
- `PublishedIsOut`: `Spec => []PublishingIsOut`;
- `SupersessionForNewer`: `Spec => []SupersededForNewer`;
- `FailuresAreReal`: `Spec => []FailedIsBroken`.

None of the safety properties is inductive, because a session writes what it decided
from rows it read long before. `OutInv` adds what the sessions hold
(`SessionsOut`: what a session has read or is to write says published only of a
build that is published) and how flat-manager's jobs fit its builds (`JobsFit`).
The decision may be stale when it is written, but a published build never
becomes unpublished again, which is what makes it true still: `JobsFitStep`
proves this, `CheckedOut` and `HandledOut` that the monitor and the publisher
decide rightly, `SessionsOutKept` and `CommitStatus` carry it to the rows.
`SupersedeInv` says in the same way that what a publisher is about to publish
has been committed (`SessionEnded`), and adds `CommitAfterSuccess`: a build is
committed only by the callback that has stored SUCCEEDED, so that a row the
start of a newer build superseded while it ran has no committed build, unless a
newer one has. The stable fact here is that a commit job that has ended has
ended for good (`CommitJobStep`). `BrokenInv` adds to `SupersedeInv` that a session
is to write FAILED only over a build that is broken (`SessionBroken`), and that
rows and sessions name no publish job that is not made yet (`AttemptsFit`), so
that a job read as broken is the current one or has been replaced by a retry.
Nothing broken is mended (`BrokenStep`): a broken publish job can be replaced, but
then more than one was made, and a build that failed its validation can be purged,
but then for a newer one. The last case was missing from `FailedIsBroken` at
first; with two rows and two publishers TLC shows a row that is failed, by a
publisher that read the failed validation, after another has purged its build.

The invariants were model-checked on the instance of `publication`, `BrokenInv`
on one row with two attempts and on the first ten million states of two rows and
two publishers, before they were proved. `CronAssumption` (a run of check-jobs
is not a run of publish) is used where a monitor's session must not be mistaken
for a publisher's, `RowsAssumption` where the newest of a group is newer than
the others.

`MergeRequests_proofs` proves, for any commands, pull requests, applications,
callbacks, runs and faults:

- `MergeTypeCorrect`: `Spec => []MergeTypeOK`;
- `OwnRepositoryOnly`: `Spec => []OwnRepository`;
- `FinalizedOnceOnly`: `Spec => []FinalizedOnce`;
- `ClosedOnlyPushed`: `Spec => []ClosedIsPushed`.

The types need that no more runs go on than were started (`TypeInv`).
`OwnInv` says of everyone who claims a repository (is about to dispatch, has
started a run, or failed to dispatch and may be retried) that it is that of his
pull request: `RepoStep` shows that a repository never changes hands,
`ClaimStep` that a claim begins by creating the repository or with a row of the
same submission that had one. `FinalInv` says that a request has one finalizer
at most and has left PUSHING by then: `FinalizerStep` that one becomes its
finalizer only by taking the row out of PUSHING, `StatusStep` that no row
returns there, `FinalizedStep` that finalizing ends the claim. `PushInv` carries
"pushed" from the run's report to the callback that closes the pull request.

`GithubTasks_proofs` proves, for any tasks, workers, batch size, tries and
faults:

- `TaskTypeCorrect`: `Spec => []TaskTypeOK`;
- `RepeatedOnlyByFaults`: `Spec => []RepeatedByFaults`;
- `AttemptsAreBounded`: `Spec => []AttemptsBounded`;
- `DeliveryImplemented`: `Spec => Delivery`, the refinement of `TaskDelivery`.

All rest on `QueueInv`. `Fits` relates a version of a row to what was really
sent: the two may differ by one try for every fault. `RowInv` says so of rows
that no worker has locked, `BatchInv` of the copy of the worker that has, which
is the row until the task is sent and one try ahead of it then; it also says
that two workers never lock one row. A commit makes the copy the row
(`CommitsStep`); a worker that dies leaves the row as it was, and
`FitsForgotten` shows that the fault pays for the try it forgets. `HandlerInv`
says that a request has no row before its handler ends. For the refinement, a
request that is sent, by its handler or by a worker, is a `Send` of an open task
(`SendRefines`), a commit settles tasks whose copies fit (`SettleRefines`), and
every other step stutters (`StepRefines`).

`PermissionReviews_proofs` proves, for any builds, workers, targets, attempts and
decisions:

- `TriesAreBounded`: `Spec => []PermissionsOK`, the types and the bound on
  submissions;
- `ApprovalStands`: `Spec => []ApprovalIsLastWord`;
- `NoOlderApproval`: `Spec => OlderApprovalNeverReturns`, an action property.

All rest on `ReviewInv`. The advisory lock is dropped by every commit, and a
worker that holds it acts on a copy of the row, an answer of the service and a
look at the pull request that may each be of another moment. `WorkerOK` says
what a worker knows at each step while it holds the lock, `BuildOK` how the
stored assessment, the tries and the decisions of the service fit, `ShownOK` how
what a head revision shows fits the row it is about: an approval is shown only
if the row has reported neither a loss of the assessment nor a later decision.
`Rely` is what a worker may expect of everybody else's steps: its locks stay its
own, nothing is stored under them, a build that gave up stays that way,
decisions get newer. `RelyKeeps` shows that this is enough to keep `WorkerOK`;
each step of a worker is then shown to be relied on by the others
(`AcquireRelied`, `StoresRelied`), to keep `BuildOK` and `ShownOK`, and to lead
from one row of `WorkerOK` to the next. `NewestStays` carries the knowledge that
no newer build of the pull request was submitted from the look to the report:
submissions take the pull request's lock. The only assumption beyond the bounds
is that no worker is called "free", which stands for a lock nobody holds.
`ReviewInv` was model-checked on instances of up to 6.2 million states.

`FailureIssues_proofs` proves, for any builds, retries, users' actions and
faults:

- `TypesHold`: `Spec => []IssueTypeOK`;
- `OneIssueOpen`: `Spec => []OneOpenIssue`;
- `ResultStands`: `Spec => []LastResultStands`;
- `RetriesBuildReported`: `Spec => []RetryBuildsReported`.

All rest on `IssueInv`. The three properties speak of the committed row, but the
handler that holds it works on a copy, so `Held` says of the copy what it must
be for the commit to be right: it equals the row (or is to be inserted, with the
issue it adopted), of the issues that are no orphans (`Alive`) only its own is
open, and one that was seen closed is not open again unless it is an orphan. A
row that is inserted makes orphans of all it passes over (`AdoptKeeps`,
`NewestIsOpen`), and an issue whose reply was lost is one at once
(`ReplyLostKeeps`). `RowIsOpen` and `RowTells` say the
same of the row, `Reported` of what retries have read. Everything others do to
issues meanwhile is `IssuesGrow`: they add reports, open issues, close and
edit them, but never open one again that is no orphan then, nor unsay a report, which is why a decision on what was read
earlier stays right. `OutsideKeeps` is the argument for steps that leave the row
alone, `HandlingKeeps` for those of its holder, `CommitKeeps` and `FaultKeeps`
for those that commit.

`WebhookDeliveries_proofs` proves, for any handlers, overlapping passes, pushes
and faults:

- `PushBuiltOnce`: `Spec => []BuiltOnce`: between two rows of one commit there is
  one of another, unless the commit was handled twice at once, and both are of
  one push only if pushes overlapped or overtook one another;
- `DeliveriesTyped`: `Spec => []ReconcilerTypeOK`;
- `NothingNeedless`: `Spec => []NoNeedlessTest`.

`BuiltInv` is about rows in succession. It says that two handlers that hold one commit received it
while the other did (`HeldTwice`), and that a handler about to insert a row has seen
the newest one to be of another commit, or handles a commit that was handled
twice at once (`NewWhenCreated`). A row of another handler in between is of
another commit, or its handler is such a second one. `OrderInv` adds the order of
pushes: as long as none overlapped or overtook another, rows are in the order of
their pushes and no older than the push a handler is serving (`RowsInOrder`),
because every push that has a row or a handler reached the server (`Arrived`),
so that an older one that comes now is seen to be overtaken. That needs that an
event is attempted twice only after a failure (`OnceUnlessFailed`), which passes
keep because they list failed events only (`PassesHoldFailed`). Then what stands
between two rows of one push is of that push too, and rows in succession are not
of one commit (`OrderBuilds`).

The other two rest on `PullInv`. Its first part, `DeliveryInv`, holds in every
state: what events, rows, handlers and passes refer to exists. Its second part,
`PullInOrder`, holds as long as the events of the pull request neither overlap
nor overtake one another, the condition of `NoNeedlessTest`. Nobody else is busy
then when an event is received (`OneByOne`), so what a handler finds in the
table is still there when it inserts (`NewWhenTested`). Two rows of a commit
that both count (`CountsOnce`) cannot come of `ready_for_review`, which looks
for such a row, nor of `opened` and `synchronize`, which bring a commit no
handled event had (`RowsAreHandled`). The newest handled event decides whether
rows wait (`NoDraftWaits`): a conversion to a draft cancels them, and when all
are handled the newest one says what the pull request is. `PullInv` was
model-checked on the run's instance and on one of three handlers and two passes
(3.1 million states).

Only model-checked: all liveness (`LeavesPending`, `LeavesRunning`, `StartsEnd`,
`MergeSettles`, `ReviewShown`, `Settles`, `TasksSettle`, `HeadBuilt`, `HeadTested`),
because fairness and ENABLED are beyond the prover; whatever would need induction
over data or a RECURSIVE operator, of which the modules have none. `FinalStaysFinal`
is what the code violates.

## 6. Findings

The run `final` checks one sentence of a test; the counterexample is an
interleaving the test does not try: a status callback overwrites a supersession
or a cancellation committed between its read and its write.

Met while modelling builds: two overlapping `start_pending_builds` each read the
capacity before the other starts a build, and together start more spot builds
than `max_concurrent_builds`, and so do a drain and a handler that starts an
immediate build beside it; `bot, cancel` and the log_url callback may overlap
so that neither stops the run of the cancelled row; a cancelled callback
delivered twice at once retries the build twice, and tests/test_pipelines.py
tries one delivery at a time.

Also met while modelling `Publication`, with no sentence in the repository to
hold them against: a monitor that overlaps another can write COMMITTED over a
row superseded and purged in between; a second success callback sets a committed
row back to SUCCEEDED; a committed row older than a day whose publish jobs all break is
followed by neither job and does not expire; the publisher purges an older row whose publish job is
under way; `_update_job_ids` is given the whole reply and never finds an id.
While modelling builds: a retry stores flat_manager_repo only with RUNNING, so a
push that starts beside it does not supersede it; a push that starts beside an
older one supersedes it with the build id it read before it was committed, and
that build is not purged (of test builds `queue` shows that it is). While
modelling merges: `_mark_failed` writes FAILED whatever the row has become, so
that a request whose dispatch reply was lost can say FAILED after its run was
finalized; a repository that is created although the reply says otherwise makes
the pull request neither new nor retryable; a crash while a request is being
dispatched or finalized leaves it active for good, and no job looks for it.
While modelling tasks: a batch is one transaction, so a worker that dies forgets
the tries it has made, and tasks are sent again, beyond max_attempts; and a
commit status queued while GitHub was away may arrive after, and hide, a newer
one. While modelling issues: the code compares no commits, so the success of an
older commit that is built again closes the issue of a newer one that still
fails, and an orphan stays open for ever: a POST that is repeated after a lost reply may open
several issues of which the row names the last, and an issue whose title or
first sentence a user changed before there was a row is not adopted, so that the
next failure opens another. While modelling permissions: a target
that is changed and changed back before a refresh leaves the head marked as
unreviewed. While modelling deliveries: two handlers of one push that both look
before either inserts build it twice; a push whose answer came too late is built
again when a pass that saw it at the head asks for it after a newer push got its
row (rows of commits 1, 2, 1), because only the newest row is looked at;
a push whose `start_pipeline` raises after its row was inserted is never built: the
row stays PENDING, `start_pending_builds` drains rows of the test repository
only, the reconciler finds the row and skips the push, and the row expires after
48 hours; an older push whose handler is slow gets
the newer row and supersedes the build of the head; a branch moved back over a
push that only changed end-of-life keys is taken for built and is not
republished; a branch may move between the reconciler's look at it and the
redelivery. They are listed under `hazards`, or stated with the exception in the
property, with the reason no property states them.

## 7. Not modelled

- The text of comments, issues and commit statuses; GitHub's, flat-manager's and
  the decision service's internals.
- Metadata, cost and reprocheck callbacks, and reproducibility issues, which are
  off by default.
- Of the receiver: `bot, build` comments (their rows are in `BuildScheduling`),
  closing and reopening of a pull request as deliveries (closing is an event of
  `BuildScheduling`), labels, the switch that disables test builds, actors the
  penalty exempts. That the list of changed files is unknown is modelled of
  pushes, where it makes a build, and not of pull requests. In `WebhookReceiver`
  the insertion of a test row and the supersession of its rivals are one step;
  `BuildScheduling` has them apart. The 24 hours a reconciler looks back cover
  every attempt.
- Of the job monitor: which jobs were reported already, and the submission to the
  permission service as part of its session (it is a worker of
  `PermissionReviews`).
- Of merges: the single requests of a finalization, `/merge` on application
  repositories and `/close`, which keep no state.
- Appstream and manifest validation, which parse the metadata of one build;
  inactive repositories, diffoscope reports, the dashboard, invitations and the
  notifier, which keep no state that handlers decide on; schema migrations.
