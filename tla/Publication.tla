---------------------------- MODULE Publication -----------------------------
(***************************************************************************)
(* From a finished workflow to a published build: the status callback asks *)
(* flat-manager to commit the build, the job monitor follows the commit,   *)
(* publish and update-repo jobs, and the publisher asks flat-manager to    *)
(* publish the newest committed build of each application.                 *)
(*                                                                         *)
(* The monitor and the publisher are cron jobs.  Each opens one session,   *)
(* reads its rows, talks to flat-manager for minutes and writes the        *)
(* columns it changed when it commits; they overlap each other, themselves *)
(* and the callbacks, and apart from the rows the monitor expires nothing  *)
(* is locked.                                                              *)
(*                                                                         *)
(* All rows are of one flat-manager repository, stable or beta.            *)
(***************************************************************************)
EXTENDS Naturals, FiniteSets

CONSTANTS
  Pipelines,      \* row identities, ordered by started_at
  AppOf,          \* the application each row builds
  Monitors,       \* concurrent runs of check-jobs
  Publishers,     \* concurrent runs of publish
  MaxDeliveries,  \* bound: success callbacks delivered for one row
  MaxAttempts,    \* bound: publish jobs of one build
  MaxFaults       \* bound: crashes

ASSUME RowsAssumption ==
  /\ Pipelines \subseteq Nat \ {0}
  /\ IsFiniteSet(Pipelines)
  /\ DOMAIN AppOf = Pipelines

ASSUME CronAssumption == Monitors \cap Publishers = {}

ASSUME LimitsAssumption == {MaxDeliveries, MaxAttempts, MaxFaults} \subseteq Nat

VARIABLES
  row,         \* the committed rows
  age,         \* 0: younger than 24 hours, 1: younger than 48, 2: older
  call,        \* the success callback being served for each row
  deliveries,  \* success callbacks accepted for each row
  session,     \* the transaction of each cron job
  build,       \* the builds and jobs of flat-manager
  faults       \* crashes so far

vars == <<row, age, call, deliveries, session, build, faults>>

RowStatus ==
  {"absent", "running", "succeeded", "committed", "publishing", "published",
   "failed", "superseded", "expired"}

(***************************************************************************)
(* commit: commit_job_id is stored.  publish: which publish job of the     *)
(* build publish_job_id names, 0 if none.  update: the row whose publish   *)
(* job queued the job that update_repo_job_id names, 0 if none.  at:       *)
(* published_at, as the rows created before it.                            *)
(***************************************************************************)
Row ==
  [status : RowStatus, commit : BOOLEAN, publish : 0 .. MaxAttempts,
   update : Pipelines \cup {0}, at : SUBSET Pipelines]

JobState == {"none", "new", "ended", "broken"}

Build ==
  [repo : {"uploading", "committing", "validating", "ready", "failed", "purged"},
   commitJob : JobState,
   published : {"unpublished", "publishing", "published"},
   attempts : 0 .. MaxAttempts,
   publishJob : JobState,
   updateJob : JobState]

NewRow ==
  [status |-> "absent", commit |-> FALSE, publish |-> 0, update |-> 0, at |-> {}]

(* A row with the columns in change written over it.                       *)
Overlaid(r, change) ==
  [f \in DOMAIN r |-> IF f \in DOMAIN change THEN change[f] ELSE r[f]]

(***************************************************************************)
(* A session: the rows it selected and has still to process, as it read    *)
(* them; the columns it has changed; the rows its UPDATE has locked; and   *)
(* the rows there were when it began.                                      *)
(***************************************************************************)
SessionOK(s) ==
  /\ DOMAIN s = {"open", "seen", "todo", "change", "expired", "at"}
  /\ s.open \in BOOLEAN
  /\ s.seen \in [Pipelines -> Row]
  /\ {s.todo, s.expired, s.at} \subseteq SUBSET Pipelines
  /\ DOMAIN s.change = Pipelines
  /\ \A p \in Pipelines :
       DOMAIN s.change[p] \subseteq DOMAIN NewRow /\ Overlaid(NewRow, s.change[p]) \in Row

Call == {"idle", "read", "written"}

NewBuild ==
  [repo |-> "uploading", commitJob |-> "none", published |-> "unpublished",
   attempts |-> 0, publishJob |-> "none", updateJob |-> "none"]

NewRows == [p \in Pipelines |-> NewRow]

Unchanged == [p \in Pipelines |-> << >>]

NoSession ==
  [open |-> FALSE, seen |-> NewRows, todo |-> {}, change |-> Unchanged,
   expired |-> {}, at |-> {}]

Crons == Monitors \cup Publishers

PublicationTypeOK ==
  /\ row \in [Pipelines -> Row]
  /\ age \in [Pipelines -> 0 .. 2]
  /\ call \in [Pipelines -> Call]
  /\ deliveries \in [Pipelines -> 0 .. MaxDeliveries]
  /\ DOMAIN session = Crons /\ \A c \in Crons : SessionOK(session[c])
  /\ build \in [Pipelines -> Build]
  /\ faults \in 0 .. MaxFaults

Init ==
  /\ row = NewRows
  /\ age = [p \in Pipelines |-> 0]
  /\ call = [p \in Pipelines |-> "idle"]
  /\ deliveries = [p \in Pipelines |-> 0]
  /\ session = [c \in Crons |-> NoSession]
  /\ build = [p \in Pipelines |-> NewBuild]
  /\ faults = 0

Exists(p) == row[p].status # "absent"

Newer(p) == {q \in Pipelines : q > p /\ AppOf[q] = AppOf[p]}

(* No monitor holds the lock of a row it has expired. *)
Unlocked(rows) == \A c \in Crons : session[c].expired \cap rows = {}

(* The columns that differ.                                                *)
Changes(seen, now) ==
  [f \in {c \in DOMAIN seen : now[c] # seen[c]} |-> now[f]]

Existing == {p \in Pipelines : Exists(p)}

(* The transaction of a cron job that has selected rows.                   *)
Opened(selected, expired) ==
  [open |-> TRUE, todo |-> selected, expired |-> expired,
   seen |-> [p \in Pipelines |-> IF p \in selected THEN row[p] ELSE NewRow],
   change |-> Unchanged, at |-> Existing]

SetRow(p, r) == row' = [row EXCEPT ![p] = r]

SetBuild(p, b) == build' = [build EXCEPT ![p] = b]

-----------------------------------------------------------------------------
(* Rows come and age *)

(* The start transaction commits a row RUNNING and supersedes the rows of  *)
(* the application that still run.                                         *)
Start(p) ==
  /\ ~Exists(p)
  /\ \A q \in Pipelines : q < p => Exists(q)
  /\ row' = [q \in Pipelines |->
       IF q = p THEN [row[q] EXCEPT !.status = "running"]
       ELSE IF AppOf[q] = AppOf[p] /\ row[q].status = "running"
         THEN [row[q] EXCEPT !.status = "superseded"]
       ELSE row[q]]
  /\ UNCHANGED <<age, call, deliveries, session, build, faults>>

Age(p) ==
  /\ Exists(p)
  /\ age[p] < 2
  /\ \A q \in Pipelines : q < p => age[p] < age[q]
  /\ age' = [age EXCEPT ![p] = @ + 1]
  /\ UNCHANGED <<row, call, deliveries, session, build, faults>>

-----------------------------------------------------------------------------
(* handle_status_callback of a success *)

Finalized == {"succeeded", "published", "superseded", "expired"}

CallbackRead(p) ==
  /\ call[p] = "idle"
  /\ Exists(p)
  /\ row[p].status \notin Finalized
  /\ deliveries[p] < MaxDeliveries
  /\ call' = [call EXCEPT ![p] = "read"]
  /\ deliveries' = [deliveries EXCEPT ![p] = @ + 1]
  /\ UNCHANGED <<row, age, session, build, faults>>

\* Bug: the callback's word is stored as it came.
BugCallbackWrite(p) ==
  /\ call[p] = "read"
  /\ Unlocked({p})
  /\ SetRow(p, [row[p] EXCEPT !.status = "success"])
  /\ call' = [call EXCEPT ![p] = "written"]
  /\ UNCHANGED <<age, deliveries, session, build, faults>>

CallbackWrite(p) ==
  /\ call[p] = "read"
  /\ Unlocked({p})
  /\ SetRow(p, [row[p] EXCEPT !.status = "succeeded"])
  /\ call' = [call EXCEPT ![p] = "written"]
  /\ UNCHANGED <<age, deliveries, session, build, faults>>

(* flat-manager commits a build that is still open, once;                  *)
(* fetch_and_store_job_id stores the job unless its request fails.         *)
CallbackCommits(p) ==
  /\ call[p] = "written"
  /\ build[p].repo = "uploading"
  /\ SetBuild(p, [build[p] EXCEPT !.repo = "committing", !.commitJob = "new"])
  /\ \/ Unlocked({p}) /\ SetRow(p, [row[p] EXCEPT !.commit = TRUE])
     \/ UNCHANGED row
  /\ call' = [call EXCEPT ![p] = "idle"]
  /\ UNCHANGED <<age, deliveries, session, faults>>

(* It refuses, or the request is lost: the error is logged. *)
CallbackGivesUp(p) ==
  /\ call[p] = "written"
  /\ call' = [call EXCEPT ![p] = "idle"]
  /\ UNCHANGED <<row, age, deliveries, session, build, faults>>

-----------------------------------------------------------------------------
(* The job monitor *)

(* The UPDATE that expires rows older than STALE_PIPELINE_TIMEOUT. *)
Stale ==
  {p \in Pipelines :
     /\ age[p] = 2
     /\ \/ row[p].status = "succeeded"
        \/ row[p].status = "publishing" /\ row[p].update # 0}

\* Bug: a row waiting for recovery is looked at for a day only.
BugActive ==
  {p \in Pipelines \ Stale :
     row[p].status \in {"succeeded", "committed", "publishing"} /\ age[p] = 0}

(* The rows check_all_active_pipelines selects, except those that run.     *)
Active ==
  {p \in Pipelines \ Stale :
     \/ row[p].status \in {"succeeded", "committed"} /\ age[p] = 0
     \/ row[p].status = "publishing" /\ (row[p].update = 0 \/ age[p] = 0)
     \/ /\ row[p].status = "published" /\ age[p] = 0
        /\ row[p].publish # 0 \/ row[p].update # 0}

MonitorBegin(m) ==
  /\ ~session[m].open
  /\ Active \cup Stale # {}
  /\ Unlocked(Stale)
  /\ session' = [session EXCEPT ![m] = Opened(Active, Stale)]
  /\ UNCHANGED <<row, age, call, deliveries, build, faults>>

(* _fetch_missing_job_ids, which flat-manager may not answer.             *)
WithJobIds(p, r) ==
  {r, [r EXCEPT !.commit = @ \/ build[p].commitJob # "none",
               !.publish = IF @ = 0 THEN build[p].attempts ELSE @]}

(* A publish job that is not the build's latest is broken. *)
PublishJob(p, n) ==
  IF n = build[p].attempts THEN build[p].publishJob ELSE "broken"

\* Bug: a publish job that has started counts as ended.
BugAfterPublishJob(p, r) ==
  IF PublishJob(p, r.publish) = "broken" THEN [r EXCEPT !.status = "failed"]
  ELSE [r EXCEPT !.status = "publishing", !.update = p]

(* _process_publish_job *)
AfterPublishJob(p, r) ==
  IF PublishJob(p, r.publish) = "broken" THEN [r EXCEPT !.status = "failed"]
  ELSE IF PublishJob(p, r.publish) = "ended" /\ build[p].updateJob # "none"
    THEN [r EXCEPT !.status = "publishing", !.update = p]
  ELSE r

\* Bug: a commit job that has not ended counts as broken.
BugAfterCommitJob(p, r) ==
  IF build[p].commitJob = "ended" THEN [r EXCEPT !.status = "committed"]
  ELSE [r EXCEPT !.status = "failed"]

(* _process_succeeded_pipeline *)
AfterCommitJob(p, r) ==
  CASE build[p].commitJob = "ended"  -> [r EXCEPT !.status = "committed"]
    [] build[p].commitJob = "broken" -> [r EXCEPT !.status = "failed"]
    [] OTHER                         -> r

(* _process_update_repo_job *)
AfterUpdateJob(p, r) ==
  CASE build[r.update].updateJob = "ended" ->
         [r EXCEPT !.status = "published", !.at = Existing]
    [] build[r.update].updateJob = "broken" -> [r EXCEPT !.update = 0]
    [] OTHER -> r

(* The rows _attempt_update_repo_recovery may take the job of. *)
Peers(p) ==
  {q \in Pipelines \ {p} :
     row[q].status = "published" /\ row[q].update # 0 /\ p \in row[q].at}

(* _attempt_update_repo_recovery, which misses peers published more than   *)
(* 48 hours ago, and the end of the recovery window.                       *)
AfterRecovery(p, r) ==
  {[r EXCEPT !.status = "published", !.update = row[q].update, !.at = Existing] :
     q \in Peers(p)}
    \cup (IF age[p] = 2 THEN {[r EXCEPT !.status = "failed"]}
          ELSE IF Peers(p) = {} THEN {r} ELSE {})

(* check_and_update_pipeline_jobs, with the job's state looked up. *)
Processed(p, r) ==
  CASE r.status = "succeeded" /\ r.commit       -> {AfterCommitJob(p, r)}
    [] r.status = "committed" /\ r.publish # 0  -> {AfterPublishJob(p, r)}
    [] r.status = "publishing" /\ r.update # 0  -> {AfterUpdateJob(p, r)}
    [] r.status = "publishing" /\ r.update = 0  -> AfterRecovery(p, r)
    [] OTHER                                    -> {r}

(* check_and_update_pipeline_jobs of one row, every lookup of a job either *)
(* answered or not.                                                        *)
MonitorCheck(m, p, answered) ==
  /\ m \in Monitors
  /\ p \in session[m].todo
  /\ LET seen == session[m].seen[p] IN
       \E r \in WithJobIds(p, seen) :
         \E now \in IF answered THEN Processed(p, r) ELSE {r} :
           session' = [session EXCEPT ![m].change[p] = Changes(seen, now),
                                      ![m].todo = @ \ {p}, ![m].seen[p] = NewRow]
  /\ UNCHANGED <<row, age, call, deliveries, build, faults>>

(* The commit of a cron job, with the rows its UPDATE expired; it waits for *)
(* the rows another monitor has locked.                                    *)
Commit(c) ==
  LET s == session[c]
      changed == {p \in Pipelines : s.change[p] # << >>}
  IN
  /\ s.open
  /\ s.todo = {}
  /\ \A d \in Crons \ {c} : session[d].expired \cap changed = {}
  /\ row' = [p \in Pipelines |->
       IF p \in s.expired THEN [row[p] EXCEPT !.status = "expired"]
       ELSE Overlaid(row[p], s.change[p])]
  /\ session' = [session EXCEPT ![c] = NoSession]
  /\ UNCHANGED <<age, call, deliveries, build, faults>>

-----------------------------------------------------------------------------
(* The publisher *)

Committed == {p \in Pipelines : row[p].status = "committed"}

PublisherBegin(b) ==
  /\ ~session[b].open
  /\ Committed # {}
  /\ session' = [session EXCEPT ![b] = Opened(Committed, {})]
  /\ UNCHANGED <<row, age, call, deliveries, build, faults>>

\* Bug: the oldest of the group is published.
BugCandidates(group) == {p \in group : \A q \in group : p <= q}

(* The newest of the group. *)
Candidates(group) == {p \in group : \A q \in group : q <= p}

(* _handle_build_state of the states it does not publish from.             *)
AfterBuildState(p, r, at) ==
  IF build[p].published = "published"
    THEN [r EXCEPT !.status = "published", !.at = at]
  ELSE IF build[p].published = "unpublished" /\ build[p].repo = "failed"
    THEN [r EXCEPT !.status = "failed"]
  ELSE r

(* flat-manager publishes a build that is ready. *)
ReadyToPublish(p) ==
  /\ build[p].published = "unpublished" /\ build[p].repo = "ready"
  /\ build[p].attempts < MaxAttempts

Published(p) ==
  [build[p] EXCEPT !.published = "publishing", !.publishJob = "new", !.attempts = @ + 1]

(* _process_single_publication: the build and the row that may come of it. *)
(* The lookup may fail; fetch_and_store_job_id stores the new job, unless  *)
(* its request fails.                                                      *)
Handled(p, seen, at, answered) ==
  IF ~answered THEN {<<build[p], seen>>}
  ELSE IF ~ReadyToPublish(p) THEN {<<build[p], AfterBuildState(p, seen, at)>>}
  ELSE {<<Published(p), [seen EXCEPT !.publish = IF @ = 0 THEN id ELSE @]>> :
          id \in {0, build[p].attempts + 1}}

(* The group is done: its newest build and row are now new and now, the    *)
(* older rows are superseded and the builds in gone are purged.            *)
GroupDone(b, group, newest, gone, new, now) ==
  /\ session' = [session EXCEPT ![b] =
       [session[b] EXCEPT
          !.change = [p \in Pipelines |->
                        IF p = newest THEN Changes(session[b].seen[p], now)
                        ELSE IF p \in group THEN [status |-> "superseded"]
                        ELSE @[p]],
          !.seen = [p \in Pipelines |-> IF p \in group THEN NewRow ELSE @[p]],
          !.todo = @ \ group]]
  /\ build' = [p \in Pipelines |->
       IF p = newest THEN new
       ELSE IF p \in gone THEN [build[p] EXCEPT !.repo = "purged"]
       ELSE build[p]]

(* _process_pipeline_group: the older rows are superseded and their builds *)
(* purged, which flat-manager may refuse; then the newest is handled.      *)
PublisherGroup(b, a, answered) ==
  LET group == {p \in session[b].todo : AppOf[p] = a} IN
  /\ b \in Publishers
  /\ \E newest \in Candidates(group) : \E gone \in SUBSET (group \ {newest}) :
       \E made \in Handled(newest, session[b].seen[newest], session[b].at, answered) :
         GroupDone(b, group, newest, gone, made[1], made[2])
  /\ UNCHANGED <<row, age, call, deliveries, faults>>

-----------------------------------------------------------------------------
(* flat-manager *)

CommitJobEnds(p) ==
  /\ build[p].commitJob = "new"
  /\ \/ SetBuild(p, [build[p] EXCEPT !.commitJob = "ended",
                       !.repo = IF @ = "committing" THEN "validating" ELSE @])
     \/ SetBuild(p, [build[p] EXCEPT !.commitJob = "broken",
                       !.repo = IF @ = "committing" THEN "failed" ELSE @])
  /\ UNCHANGED <<row, age, call, deliveries, session, faults>>

(* The checks pass, a reviewer decides, or validation fails. *)
Validated(p) ==
  /\ build[p].repo = "validating"
  /\ \E r \in {"ready", "failed"} : SetBuild(p, [build[p] EXCEPT !.repo = r])
  /\ UNCHANGED <<row, age, call, deliveries, session, faults>>

PublishJobEnds(p) ==
  /\ build[p].publishJob = "new"
  /\ \/ \E u \in {"none", "new"} :
          SetBuild(p, [build[p] EXCEPT !.publishJob = "ended",
                         !.published = "published", !.updateJob = u])
     \/ SetBuild(p, [build[p] EXCEPT !.publishJob = "broken",
                       !.published = "unpublished"])
  /\ UNCHANGED <<row, age, call, deliveries, session, faults>>

UpdateJobEnds(p) ==
  /\ build[p].updateJob = "new"
  /\ \E j \in {"ended", "broken"} : SetBuild(p, [build[p] EXCEPT !.updateJob = j])
  /\ UNCHANGED <<row, age, call, deliveries, session, faults>>

-----------------------------------------------------------------------------

(* The server and the cron jobs die; their transactions roll back. *)
Crash ==
  /\ faults < MaxFaults
  /\ faults' = faults + 1
  /\ call' = [p \in Pipelines |-> "idle"]
  /\ session' = [c \in Crons |-> NoSession]
  /\ UNCHANGED <<row, age, deliveries, build>>

CallbackStep(p) ==
  CallbackWrite(p) \/ CallbackCommits(p) \/ CallbackGivesUp(p)

MonitorStep(m) ==
  \/ MonitorBegin(m)
  \/ \E p \in Pipelines, answered \in BOOLEAN : MonitorCheck(m, p, answered)
  \/ Commit(m)

PublisherStep(b) ==
  \/ PublisherBegin(b)
  \/ \E p \in Pipelines, answered \in BOOLEAN : PublisherGroup(b, AppOf[p], answered)
  \/ Commit(b)

JobStep(p) == CommitJobEnds(p) \/ Validated(p) \/ PublishJobEnds(p) \/ UpdateJobEnds(p)

Next ==
  \/ \E p \in Pipelines :
       Start(p) \/ Age(p) \/ CallbackRead(p) \/ CallbackStep(p) \/ JobStep(p)
  \/ \E m \in Monitors : MonitorStep(m)
  \/ \E b \in Publishers : PublisherStep(b)
  \/ Crash

Spec == Init /\ [][Next]_vars

(***************************************************************************)
(* The cron jobs run again and again and a request to the server or to     *)
(* flat-manager that is repeated is answered in the end.  flat-manager     *)
(* ends its jobs, its builds are reviewed, and time passes.                *)
(***************************************************************************)
Fairness ==
  /\ WF_vars(\E p \in Pipelines : Age(p))
  /\ WF_vars(\E p \in Pipelines : CallbackStep(p))
  /\ WF_vars(\E p \in Pipelines : JobStep(p))
  /\ \A m \in Monitors :
       /\ WF_vars(MonitorStep(m))
       /\ \A p \in Pipelines : SF_vars(MonitorCheck(m, p, TRUE))
  /\ \A b \in Publishers :
       /\ WF_vars(PublisherStep(b))
       /\ \A p \in Pipelines : SF_vars(PublisherGroup(b, AppOf[p], TRUE))

FairSpec == Spec /\ Fairness

-----------------------------------------------------------------------------
(* Properties *)

Out(s) == s \in {"publishing", "published"}

(* A row says publishing or published only if flat-manager has published   *)
(* its build: not while the publish job runs, nor after it broke.          *)
PublishingIsOut ==
  \A p \in Pipelines :
    Out(row[p].status) => build[p].published = "published"

(* When the publisher drops a committed build for another of the same      *)
(* application, the other is newer and committed too: an application's     *)
(* newest committed build is never the one that is superseded.             *)
SupersededForNewer ==
  \A p \in Pipelines :
    row[p].status = "superseded" /\ build[p].commitJob = "ended"
      => \E q \in Newer(p) : build[q].commitJob = "ended"

(* A row fails only when something failed: its commit job, the validation  *)
(* of its build, a publish job, or the recovery within 48 hours.  A build  *)
(* that failed its validation may be purged before its row says so, by a   *)
(* publisher that overlaps and drops it for a newer one.                   *)
Broken(p) ==
  \/ build[p].commitJob = "broken"
  \/ build[p].repo = "failed"
  \/ build[p].repo = "purged" /\ \E q \in Newer(p) : build[q].commitJob = "ended"
  \/ build[p].publishJob = "broken" \/ build[p].attempts > 1
  \/ age[p] = 2

FailedIsBroken == \A p \in Pipelines : row[p].status = "failed" => Broken(p)

(* A committed row older than 24 hours that waits for the publisher: the   *)
(* monitor looks at it no more, and no publish job has come to its end.    *)
PublishBreaks(p) ==
  /\ row[p].status = "committed" /\ age[p] > 0
  /\ build[p].publishJob = "broken" /\ build[p].attempts = MaxAttempts

(* A row written committed after the publisher superseded it and purged its*)
(* build, by a monitor that had read it before or on a repeated callback.  *)
CommittedPurged(p) ==
  row[p].status = "committed" /\ build[p].repo = "purged"

(* A row that succeeded is published, fails, is superseded or expires.  The*)
(* two cron jobs leave it committed for ever only if every one of its      *)
(* publish jobs breaks and it is older than 24 hours, or if its build was  *)
(* purged under it: there is no third way for a row to be stuck.           *)
Settles ==
  \A p \in Pipelines :
    row[p].status \in {"succeeded", "committed", "publishing"}
      ~> \/ row[p].status \in {"published", "failed", "superseded", "expired"}
         \/ PublishBreaks(p) \/ CommittedPurged(p)

-----------------------------------------------------------------------------
(* The inductive invariants behind PublishingIsOut, SupersededForNewer and *)
(* FailedIsBroken.                                                         *)

(* A publish job is the one that is publishing the build, and a build that *)
(* is still open has not been asked to be committed.                       *)
JobsFit ==
  \A p \in Pipelines :
    /\ build[p].publishJob = "new" => build[p].published = "publishing"
    /\ build[p].publishJob = "ended" => build[p].published = "published"
    /\ build[p].repo = "uploading" => build[p].commitJob = "none"

(* What a session has read or is to write says no more than flat-manager.  *)
SessionOut(s) ==
  \A p \in Pipelines :
    /\ Out(s.seen[p].status) => build[p].published = "published"
    /\ "status" \in DOMAIN s.change[p] /\ Out(s.change[p].status)
         => build[p].published = "published"

SessionsOut == \A c \in Crons : SessionOut(session[c])

OutInv == PublicationTypeOK /\ JobsFit /\ SessionsOut /\ PublishingIsOut

CommitEnded(p) == build[p].commitJob = "ended"

NewerCommitted(p) == \E q \in Newer(p) : CommitEnded(q)

(* What a publisher is to publish, and what a session is to write.         *)
SessionEnded(c, s) ==
  \A p \in Pipelines :
    /\ c \in Publishers /\ p \in s.todo
         => s.seen[p].status = "committed" /\ CommitEnded(p)
    /\ "status" \in DOMAIN s.change[p] =>
         /\ s.change[p].status = "committed" => CommitEnded(p)
         /\ s.change[p].status = "superseded" => NewerCommitted(p)
         /\ s.change[p].status \notin {"absent", "running"}

(* Committed rows have had their build committed, in every session too.    *)
CommittedEnded ==
  /\ \A p \in Pipelines : row[p].status = "committed" => CommitEnded(p)
  /\ \A c \in Crons : SessionEnded(c, session[c])

(* A build is committed only by the callback that has stored succeeded.    *)
CommitAfterSuccess ==
  \A p \in Pipelines :
    /\ row[p].status \in {"absent", "running"}
         => build[p].commitJob = "none" /\ call[p] # "written"
    /\ row[p].status = "superseded"
         => \/ build[p].commitJob = "none" /\ call[p] # "written"
            \/ NewerCommitted(p)

SupersedeInv ==
  PublicationTypeOK /\ JobsFit /\ CommittedEnded /\ CommitAfterSuccess

(* Publish jobs are counted from 1, and no row, nor what a session has read*)
(* of it or is to write, names one that is not made yet.                   *)
SessionBroken(s) ==
  \A p \in Pipelines :
    /\ s.seen[p].publish <= build[p].attempts
    /\ "publish" \in DOMAIN s.change[p] => s.change[p].publish <= build[p].attempts
    /\ "status" \in DOMAIN s.change[p] /\ s.change[p].status = "failed" => Broken(p)

AttemptsFit ==
  \A p \in Pipelines :
    /\ build[p].publishJob = "broken" => build[p].attempts > 0
    /\ build[p].publishJob = "new" => build[p].attempts > 0
    /\ row[p].publish <= build[p].attempts

BrokenInv ==
  /\ SupersedeInv /\ AttemptsFit /\ FailedIsBroken
  /\ \A c \in Crons : SessionBroken(session[c])

=============================================================================
