-------------------------- MODULE PermissionReviews --------------------------
(***************************************************************************)
(* The assessment of the permissions a build asks for, and its report on   *)
(* the pull request (services/permission_assessment.py and the route the   *)
(* decision service calls).                                                *)
(*                                                                         *)
(* A committed build is submitted to the decision service, three tries at  *)
(* most, and what the service says of the latest submitted build of a pull *)
(* request is read again on every cron run and on every notification, then *)
(* posted as a commit status.  Several workers do this at once (overlapping*)
(* cron runs, the job monitor, the route): a transaction-scoped advisory   *)
(* lock of the pull request is what keeps them apart.  It is released by   *)
(* every commit, so a submission that also reports takes it twice.         *)
(*                                                                         *)
(* One pull request is modelled.  Builds are numbered as created_at orders *)
(* them.  The decision service, the pull request and the commit statuses   *)
(* are outside the service.                                                *)
(***************************************************************************)
EXTENDS Naturals, FiniteSets

CONSTANTS
  Builds,           \* rows of the pipeline table
  PushBuilds,       \* the ones pushed to a branch: assessed, never reported
  Workers,          \* cron runs, monitor runs and notifications under way
  Targets,          \* branches the pull request can be opened against
  EnabledTargets,   \* targets whose channel is in permission_status_repos
  Decisions,        \* what the decision service can say of a build
  MaxAttempts,      \* MAX_ATTEMPTS
  MaxDecisions,     \* bound: decisions up to which moderators take another
  MaxEdits,         \* bound: changes of the pull request
  MaxFaults         \* bound: failed requests, lost replies and dead workers

ASSUME ReviewConstants ==
  /\ Builds \subseteq Nat \ {0}
  /\ IsFiniteSet(Builds)
  /\ PushBuilds \subseteq Builds
  /\ EnabledTargets \subseteq Targets
  /\ {"accepted"} \subseteq Decisions
  /\ Decisions \subseteq {"accepted", "pending", "rejected"}
  /\ MaxAttempts \in Nat \ {0}
  /\ {MaxDecisions, MaxEdits, MaxFaults} \subseteq Nat
  /\ "free" \notin Workers

VARIABLES
  rows,      \* stage of a row and what it was built from
  data,      \* provider_data["permission_assessment"] of a row
  lock,      \* who holds an advisory lock
  worker,    \* where each worker is and what it read
  pull,      \* the pull request
  service,   \* what the decision service holds for a build
  shown,     \* flathub/permissions status of each head revision
  tries,     \* history: submissions of a build that ended, either way
  assessed,  \* history: builds whose assessment was once stored
  faults,    \* history: faults so far
  edits      \* history: changes of the pull request so far

outside == <<pull, service, edits>>
vars == <<rows, data, lock, worker, shown, tries, assessed, faults, outside>>

-----------------------------------------------------------------------------
(* State *)

Outcomes == Decisions \cup {"error", "not_applicable", "target_changed"}

Heads == 1..MaxEdits + 1
Bases == 1..MaxEdits + 1

(* What a report said: the fields its marker compares. *)
NoReport == [outcome |-> "none", decision |-> 0]
Report == [outcome : Outcomes, decision : Nat] \cup {NoReport}

(* base is 0 until a reassessment records the base it was made against.    *)
NoData ==
  [status |-> "none", attempts |-> 0, outcome |-> "none", decision |-> 0,
   base |-> 0, missing |-> FALSE, closed |-> FALSE, reported |-> NoReport]

Data ==
  [status : {"none", "submitted", "skipped", "failed"},
   attempts : 0..MaxAttempts,
   outcome : Outcomes \cup {"none"}, decision : Nat,
   base : Bases \cup {0}, missing : BOOLEAN, closed : BOOLEAN,
   reported : Report]

NoRow == [stage |-> "absent", head |-> 1, target |-> "none", base |-> 1]
Row ==
  [stage : {"building", "committed", "past"}, head : Heads,
   target : Targets, base : Bases] \cup {NoRow}

(* A worker that holds the lock, or is between the two transactions of a   *)
(* submission ("recall"): the build it handles, the state it will store and *)
(* the outcome it has to report.                                           *)
Idle == [pc |-> "idle", build |-> 0, new |-> NoData, outcome |-> "none"]
Work ==
  [pc : {"assess", "recall", "ask", "report"}, build : Builds, new : Data,
   outcome : Outcomes \cup {"none"}] \cup {Idle}

(* The lock is named after the pull request, or after a pushed build.      *)
Lock(b) == IF b \in PushBuilds THEN b ELSE 0
Locks == {0} \cup PushBuilds
Free == "free"

Unassessed == [held |-> FALSE, outcome |-> "accepted", decision |-> 0]
NotShown == [outcome |-> "none", decision |-> 0, by |-> 0]

PermissionTypeOK ==
  /\ rows \in [Builds -> Row]
  /\ data \in [Builds -> Data]
  /\ lock \in [Locks -> Workers \cup {Free}]
  /\ worker \in [Workers -> Work]
  /\ pull \in [open : BOOLEAN, head : Heads, target : Targets, base : Bases]
  /\ service \in [Builds ->
       [held : BOOLEAN, outcome : Decisions, decision : Nat]]
  /\ shown \in [Heads -> [outcome : Outcomes \cup {"none"},
                          decision : Nat, by : Builds \cup {0}]]
  /\ tries \in [Builds -> Nat]
  /\ assessed \subseteq Builds
  /\ faults \in 0..MaxFaults
  /\ edits \in 0..MaxEdits

Init ==
  /\ rows = [b \in Builds |-> NoRow]
  /\ data = [b \in Builds |-> NoData]
  /\ lock = [l \in Locks |-> Free]
  /\ worker = [w \in Workers |-> Idle]
  /\ \E t \in EnabledTargets :
       pull = [open |-> TRUE, head |-> 1, target |-> t, base |-> 1]
  /\ service = [b \in Builds |-> Unassessed]
  /\ shown = [h \in Heads |-> NotShown]
  /\ tries = [b \in Builds |-> 0]
  /\ assessed = {}
  /\ faults = 0
  /\ edits = 0

-----------------------------------------------------------------------------
(* Shared steps *)

Fault == faults < MaxFaults /\ faults' = faults + 1

Enabled(target) == target \in EnabledTargets

Submitted(b) == b \notin PushBuilds /\ data[b].status = "submitted"

(* _latest_submitted: the newest submitted build of the pull request.      *)
Latest(b) == Submitted(b) /\ \A c \in Builds : Submitted(c) => c <= b

BugLatest(b) == Submitted(b)

(* A build is not submitted again once it was, nor after three tries.      *)
Finished(d) ==
  \/ d.status \in {"submitted", "skipped"}
  \/ d.attempts >= MaxAttempts

BugAcquire(w, b) == UNCHANGED lock

(* pg_advisory_xact_lock, held until the transaction ends.                 *)
Acquire(w, b) ==
  /\ lock[Lock(b)] = Free
  /\ lock' = [lock EXCEPT ![Lock(b)] = w]

Release(b) == lock' = [lock EXCEPT ![Lock(b)] = Free]

Go(w, job) == worker' = [worker EXCEPT ![w] = job]
Stop(w) == Go(w, Idle)

Marker(d, outcome) == [outcome |-> outcome, decision |-> d.decision]

(* The service takes a submission and answers with a decision of its own,  *)
(* a new one each time.                                                    *)
Assesses(b) ==
  \E d \in Decisions :
    service' = [service EXCEPT ![b] =
      [held |-> TRUE, outcome |-> d, decision |-> @.decision + 1]]

BugMissing(d) ==
  [d EXCEPT !.status = "failed", !.outcome = "error", !.decision = 0,
            !.missing = TRUE]

(* The assessment a submitted build names is gone from the service.  The   *)
(* build stays submitted, so that no older one becomes the latest.         *)
Missing(d) ==
  [d EXCEPT !.outcome = "error", !.decision = 0, !.missing = TRUE]

-----------------------------------------------------------------------------
(* _submit *)

(* Cron's list of committed rows, or the monitor that committed this one.  *)
(* Whatever the list said, the row is read again under the lock.           *)
SubmitLocks(w) ==
  /\ worker[w] = Idle
  /\ \E b \in Builds :
       /\ rows[b].stage = "committed"
       /\ ~Finished(data[b])
       /\ Acquire(w, b)
       /\ Go(w, [Idle EXCEPT !.pc = "assess", !.build = b])
  /\ UNCHANGED <<rows, data, shown, tries, assessed, faults, outside>>

(* _store: merge the state into the row and commit, which frees the lock.  *)
Stores(b, d) ==
  /\ data' = [data EXCEPT ![b] = d]
  /\ Release(b)
  /\ assessed' = IF d.status = "submitted" THEN assessed \cup {b} ELSE assessed

(* A submission that failed for good or has nothing to assess says so in a *)
(* transaction of its own.                                                 *)
Then(w, outcome) ==
  IF outcome = "none"
    THEN Stop(w)
    ELSE Go(w, [worker[w] EXCEPT !.pc = "recall", !.outcome = outcome])

(* No request can be made of the row, the build has no application ref, or *)
(* it is a pushed one and published already.                               *)
SkipReasons(b) ==
  {"no_request", "no_app_ref"}
    \cup (IF b \in PushBuilds THEN {"published"} ELSE {})

SubmitSkips(w) ==
  /\ worker[w].pc = "assess"
  /\ LET b == worker[w].build IN
       \E reason \in SkipReasons(b) :
         /\ Stores(b, [NoData EXCEPT !.status = "skipped"])
         /\ Then(w, IF reason = "no_app_ref" THEN "not_applicable" ELSE "none")
  /\ UNCHANGED <<rows, shown, tries, faults, outside>>

SubmitSucceeds(w) ==
  /\ worker[w].pc = "assess"
  /\ LET b == worker[w].build IN
       /\ Assesses(b)
       /\ Stores(b, [NoData EXCEPT !.status = "submitted",
                                   !.attempts = data[b].attempts + 1,
                                   !.outcome = service'[b].outcome,
                                   !.decision = service'[b].decision])
       /\ tries' = [tries EXCEPT ![b] = @ + 1]
  /\ Stop(w)
  /\ UNCHANGED <<rows, shown, faults, pull, edits>>

(* The submission never arrived, or was taken and its reply was lost.      *)
Sends(b) == UNCHANGED service \/ Assesses(b)

BugFailedSubmit(b) == [NoData EXCEPT !.status = "failed"]

FailedSubmit(b) ==
  [NoData EXCEPT !.status = "failed", !.attempts = data[b].attempts + 1]

SubmitFails(w) ==
  /\ worker[w].pc = "assess"
  /\ Fault
  /\ LET b == worker[w].build
         d == FailedSubmit(b)
     IN /\ Sends(b)
        /\ tries' = [tries EXCEPT ![b] = @ + 1]
        /\ Stores(b, d)
        /\ Then(w, IF d.attempts >= MaxAttempts THEN "error" ELSE "none")
  /\ UNCHANGED <<rows, shown, pull, edits>>

(* The second transaction of a submission: report what the row says now.   *)
SubmitReports(w) ==
  /\ worker[w].pc = "recall"
  /\ LET b == worker[w].build IN
       /\ Acquire(w, b)
       /\ Go(w, [worker[w] EXCEPT !.pc = "report", !.new = data[b]])
  /\ UNCHANGED <<rows, data, shown, tries, assessed, faults, outside>>

-----------------------------------------------------------------------------
(* _refresh *)

(* A cron run, a notification of the decision service, or the worker that  *)
(* just submitted the build: all look again under the lock for the latest  *)
(* submitted build.                                                        *)
RefreshLocks(w) ==
  /\ worker[w] = Idle
  /\ \E b \in Builds :
       /\ Latest(b)
       /\ ~data[b].closed
       /\ Enabled(rows[b].target)
       /\ Acquire(w, b)
       /\ Go(w, [Idle EXCEPT !.pc = "ask", !.build = b])
  /\ UNCHANGED <<rows, data, shown, tries, assessed, faults, outside>>

(* What was recorded as the base the assessment was made against.          *)
RecordedBase(b) == IF data[b].base # 0 THEN data[b].base ELSE rows[b].base

(* The pull request is closed, or moved on to another head.                *)
RefreshEnds(w) ==
  /\ worker[w].pc = "ask"
  /\ LET b == worker[w].build IN
       \/ ~pull.open /\ Stores(b, [data[b] EXCEPT !.closed = TRUE])
       \/ /\ pull.open /\ pull.head # rows[b].head
          /\ Release(b)
          /\ UNCHANGED <<data, assessed>>
  /\ Stop(w)
  /\ UNCHANGED <<rows, shown, tries, faults, outside>>

Says(w, d, outcome) ==
  Go(w, [worker[w] EXCEPT !.pc = "report", !.new = d, !.outcome = outcome])

Reviewable(b) == pull.open /\ pull.head = rows[b].head

Current(b) == Reviewable(b) /\ pull.target = rows[b].target /\ ~data[b].missing

(* The target differs, or the assessment is known to be gone.              *)
RefreshRepeats(w) ==
  /\ worker[w].pc = "ask"
  /\ LET b == worker[w].build IN
       /\ Reviewable(b) /\ ~Current(b)
       /\ Says(w, data[b],
               IF pull.target # rows[b].target THEN "target_changed" ELSE "error")
  /\ UNCHANGED <<rows, data, lock, shown, tries, assessed, faults, outside>>

(* The target moved under the build: submit it again, for the new base.    *)
RefreshReassesses(w) ==
  /\ worker[w].pc = "ask"
  /\ LET b == worker[w].build IN
       /\ Current(b)
       /\ pull.base # RecordedBase(b)
       /\ Assesses(b)
       /\ Says(w, [data[b] EXCEPT !.outcome = service'[b].outcome,
                                  !.decision = service'[b].decision,
                                  !.base = pull.base],
               service'[b].outcome)
  /\ UNCHANGED <<rows, data, lock, shown, tries, assessed, faults, pull, edits>>

(* Otherwise read the assessment.                                          *)
RefreshReads(w) ==
  /\ worker[w].pc = "ask"
  /\ LET b == worker[w].build
         d == IF service[b].held
                THEN [data[b] EXCEPT !.outcome = service[b].outcome,
                                     !.decision = service[b].decision]
                ELSE Missing(data[b])
     IN /\ Current(b)
        /\ pull.base = RecordedBase(b)
        /\ Says(w, d, d.outcome)
  /\ UNCHANGED <<rows, data, lock, shown, tries, assessed, faults, outside>>

-----------------------------------------------------------------------------
(* _report and the _store that follows it, under the lock of _submit or of *)
(* _refresh                                                                *)

(* Pushed builds and disabled channels are not reported, nor is what the   *)
(* marker says was reported before.                                        *)
NothingToSay(w) ==
  LET b == worker[w].build IN
    \/ b \in PushBuilds
    \/ ~Enabled(rows[b].target)
    \/ worker[w].new.reported = Marker(worker[w].new, worker[w].outcome)

ReportNeedless(w) ==
  /\ worker[w].pc = "report"
  /\ NothingToSay(w)
  /\ Stores(worker[w].build, worker[w].new)
  /\ Stop(w)
  /\ UNCHANGED <<rows, shown, tries, faults, outside>>

Shows(w) ==
  shown' = [shown EXCEPT ![rows[worker[w].build].head] =
              [outcome |-> worker[w].outcome,
               decision |-> worker[w].new.decision,
               by |-> worker[w].build]]

Reported(w) ==
  [worker[w].new EXCEPT !.reported = Marker(worker[w].new, worker[w].outcome)]

ReportPosts(w) ==
  /\ worker[w].pc = "report"
  /\ ~NothingToSay(w)
  /\ Shows(w)
  /\ Stores(worker[w].build, Reported(w))
  /\ Stop(w)
  /\ UNCHANGED <<rows, tries, faults, outside>>

BugUnreported(w) == Reported(w)

Unreported(w) == worker[w].new

(* The status was refused, its reply was lost or the comment failed: the   *)
(* state is kept without the marker, so that the report is tried again.    *)
ReportFails(w) ==
  /\ worker[w].pc = "report"
  /\ ~NothingToSay(w)
  /\ Fault
  /\ Shows(w) \/ UNCHANGED shown
  /\ Stores(worker[w].build, Unreported(w))
  /\ Stop(w)
  /\ UNCHANGED <<rows, tries, outside>>

-----------------------------------------------------------------------------
(* A request of the refresh failed, or the process is stopped: nothing is  *)
(* stored and the lock is freed, but what was sent was sent.               *)
WorkerDies(w) ==
  /\ worker[w] # Idle
  /\ Fault
  /\ CASE worker[w].pc = "assess" ->
             Sends(worker[w].build) /\ UNCHANGED shown
        [] worker[w].pc = "report" /\ ~NothingToSay(w) ->
             (Shows(w) \/ UNCHANGED shown) /\ UNCHANGED service
        [] OTHER -> UNCHANGED <<service, shown>>
  /\ lock' = [l \in Locks |-> IF lock[l] = w THEN Free ELSE lock[l]]
  /\ Stop(w)
  /\ UNCHANGED <<rows, data, tries, assessed, pull, edits>>

-----------------------------------------------------------------------------
(* The pipeline table, the pull request and the decision service *)

RowCreated(b) ==
  /\ rows[b] = NoRow
  /\ pull.open
  /\ \A c \in Builds : c < b => rows[c] # NoRow
  /\ rows' = [rows EXCEPT ![b] =
       [stage |-> "building", head |-> pull.head, target |-> pull.target,
        base |-> pull.base]]
  /\ UNCHANGED <<data, lock, worker, shown, tries, assessed, faults, outside>>

RowCommitted(b) ==
  /\ rows[b].stage = "building"
  /\ rows' = [rows EXCEPT ![b].stage = "committed"]
  /\ UNCHANGED <<data, lock, worker, shown, tries, assessed, faults, outside>>

(* The row outlives LOOKBACK, or is published, superseded or expired (which *)
(* makes no difference once its submission has begun or ended).            *)
RowPasses(b) ==
  /\ rows[b].stage = "committed"
  /\ ~Finished(data[b])
  /\ \A w \in Workers : worker[w].build # b
  /\ rows' = [rows EXCEPT ![b].stage = "past"]
  /\ UNCHANGED <<data, lock, worker, shown, tries, assessed, faults, outside>>

Inside == <<rows, data, lock, worker, tries, assessed, faults>>

Edit == pull.open /\ edits < MaxEdits /\ edits' = edits + 1

PullPushed ==
  /\ Edit
  /\ pull' = [pull EXCEPT !.head = @ + 1]
  /\ UNCHANGED <<Inside, shown, service>>

PullCloses ==
  /\ Edit
  /\ pull' = [pull EXCEPT !.open = FALSE]
  /\ UNCHANGED <<Inside, shown, service>>

BaseMoves ==
  /\ Edit
  /\ pull' = [pull EXCEPT !.base = @ + 1]
  /\ UNCHANGED <<Inside, shown, service>>

(* The pull request is edited; notify_target_changed marks the head as     *)
(* unreviewed without the lock, if either target is a reviewed one.        *)
TargetChanges ==
  /\ Edit
  /\ \E t \in Targets \ {pull.target} :
       /\ pull' = [pull EXCEPT !.target = t]
       /\ shown' =
            IF Enabled(t) \/ Enabled(pull.target)
              THEN [shown EXCEPT ![pull.head] =
                      [NotShown EXCEPT !.outcome = "target_changed"]]
              ELSE shown
  /\ UNCHANGED <<Inside, service>>

Decides(b) ==
  /\ service[b].held /\ service[b].decision < MaxDecisions
  /\ \E d \in Decisions \ {service[b].outcome} :
       service' = [service EXCEPT ![b] =
         [held |-> TRUE, outcome |-> d, decision |-> @.decision + 1]]
  /\ UNCHANGED <<Inside, shown, pull, edits>>

Vanishes(b) ==
  /\ service[b].held
  /\ service' = [service EXCEPT ![b] =
       [held |-> FALSE, outcome |-> @.outcome, decision |-> @.decision]]
  /\ UNCHANGED <<Inside, shown, pull, edits>>

-----------------------------------------------------------------------------
Submits(w) ==
  \/ SubmitLocks(w) \/ SubmitSkips(w) \/ SubmitSucceeds(w)
  \/ SubmitFails(w) \/ SubmitReports(w)

Refreshes(w) ==
  \/ RefreshLocks(w) \/ RefreshEnds(w) \/ RefreshRepeats(w)
  \/ RefreshReassesses(w) \/ RefreshReads(w)

Reports(w) == ReportNeedless(w) \/ ReportPosts(w) \/ ReportFails(w)

Environment ==
  \/ \E b \in Builds :
       \/ RowCreated(b) \/ RowCommitted(b) \/ RowPasses(b)
       \/ Decides(b) \/ Vanishes(b)
  \/ PullPushed \/ PullCloses \/ BaseMoves \/ TargetChanges

Next ==
  \/ \E w \in Workers :
       Submits(w) \/ Refreshes(w) \/ Reports(w) \/ WorkerDies(w)
  \/ Environment

Spec == Init /\ [][Next]_vars

(* Cron runs again and again, and a worker that holds the lock goes on.    *)
(* Nothing is assumed of faults, of the pull request or of the decisions.  *)
Proceeds(w) ==
  \/ SubmitSkips(w) \/ SubmitSucceeds(w) \/ RefreshEnds(w)
  \/ RefreshRepeats(w) \/ RefreshReassesses(w) \/ RefreshReads(w)
  \/ ReportNeedless(w) \/ ReportPosts(w)

Fairness ==
  /\ WF_vars(\E w \in Workers : RefreshLocks(w))
  /\ \A w \in Workers : WF_vars(Proceeds(w))

FairSpec == Spec /\ Fairness

-----------------------------------------------------------------------------
(* Properties *)

(* An approval on a head is the last word: the build that gave it has not  *)
(* recorded a later report, nor the loss of its assessment.  A refresh that*)
(* read an older decision must not overtake one that read a newer one.     *)
ApprovalIsLastWord ==
  \A h \in Heads :
    shown[h].outcome = "accepted" /\ shown[h].by # 0 =>
      LET r == data[shown[h].by].reported IN
        r.outcome # "error" /\ r.decision <= shown[h].decision

(* No approval of an older build is posted once a newer build of the pull  *)
(* request was submitted, whatever became of the newer assessment since.   *)
OlderApprovalNeverReturns ==
  [][\A h \in Heads :
       shown'[h] # shown[h] /\ shown'[h].outcome = "accepted" =>
         \A c \in assessed : c \in PushBuilds \/ c <= shown'[h].by]_vars

(* A build is tried MAX_ATTEMPTS times at most and is not sent again once  *)
(* submitted, however many workers are at it (a worker that died before it *)
(* stored its try is not counted, by the code either).                     *)
TriesBounded ==
  \A b \in Builds :
    /\ tries[b] <= MaxAttempts
    /\ data[b].status \in {"submitted", "failed"} => tries[b] = data[b].attempts

PermissionsOK == PermissionTypeOK /\ TriesBounded

(* What the head of the pull request shows is what the decision service    *)
(* says of its latest submitted build, in the end: a refused status, a lost*)
(* reply or a worker that died is made good by a later refresh.  Two cases *)
(* are left out because the code does not repair them: a target that is    *)
(* changed back before a refresh saw the change, and a report that another *)
(* build of the same head failed for good.                                 *)
Tracked(b) ==
  Latest(b) /\ ~data[b].closed /\ Enabled(rows[b].target) /\ Current(b)

Agrees(b) ==
  LET s == shown[rows[b].head] IN
    \/ s.by = b /\ s.outcome = service[b].outcome /\ service[b].held
    \/ s.by = 0 /\ s.outcome = "target_changed"
    \/ s.by # 0 /\ s.by # b /\ data[s.by].status # "submitted"

ReviewShown == <>[](\A b \in Builds : Tracked(b) /\ service[b].held => Agrees(b))
==============================================================================
