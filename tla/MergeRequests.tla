--------------------------- MODULE MergeRequests ----------------------------
(***************************************************************************)
(* The merge of a submission: a reviewer's /merge command on a pull request *)
(* creates the repository of the application and dispatches a workflow that *)
(* pushes the commit to it; the workflow's callback finalizes the merge,    *)
(* which closes the pull request.                                           *)
(*                                                                         *)
(* Each command is handled by a task of its own that checks GitHub and the  *)
(* table, inserts a merge request and writes its outcome, with an await     *)
(* between any two of these.  A command makes one request at most, so both  *)
(* are named by the command.                                                *)
(***************************************************************************)
EXTENDS Naturals, Sequences, FiniteSets

CONSTANTS
  Requests,    \* the commands, and the merge requests they make
  PrOf,        \* the pull request of each command
  AppOf,       \* the application its manifest names
  Callers,     \* callbacks served at the same time
  MaxRuns,     \* bound: workflow runs started for one request
  MaxFaults,   \* bound: crashes, lost replies and lost reports
  NoRequest

ASSUME RequestsAssumption ==
  /\ DOMAIN PrOf = Requests
  /\ DOMAIN AppOf = Requests
  /\ NoRequest \notin Requests

ASSUME BoundsAssumption == {MaxRuns, MaxFaults} \subseteq Nat

VARIABLES
  step,        \* where the task of each command is
  status,      \* the merge_request rows
  error,       \* their error column
  created,     \* the rows in the order of their created_at
  repo,        \* the command that created the repository of each application
  closed,      \* the pull requests that finalization has closed
  runs,        \* workflow runs started and still running, for each request
  report,      \* what a run of the request has to report
  pushed,      \* the requests whose commit a run has pushed
  call,        \* the callbacks being served
  finalized,   \* how often each request was finalized
  orphaned,    \* the requests that lost their task, their finalizer or their report
  faults       \* crashes, lost replies and lost reports so far

vars ==
  <<step, status, error, created, repo, closed, runs, report, pushed, call, finalized,
    orphaned, faults>>

Prs == {PrOf[r] : r \in Requests}

Apps == {AppOf[r] : r \in Requests}

MergeStatus == {"none", "pushing", "finalizing", "completed", "failed"}

Step ==
  {"idle", "open", "free", "exists", "new", "retry", "dispatch",
   "create_failed", "dispatch_failed", "done"}

MergeError == {"none", "create", "dispatch", "push", "finalize"}

RunCount == [started : 0 .. MaxRuns, running : 0 .. MaxRuns]

Call ==
  [at : {"read", "finalize", "write"},
   request : Requests,
   report : {"success", "failure", "errors"}]

Idle == [at |-> "idle", request |-> NoRequest, report |-> "success"]

MergeTypeOK ==
  /\ step \in [Requests -> Step]
  /\ status \in [Requests -> MergeStatus]
  /\ error \in [Requests -> MergeError]
  /\ created \in Seq(Requests)
  /\ repo \in [Apps -> Requests \cup {NoRequest}]
  /\ closed \subseteq Prs
  /\ runs \in [Requests -> RunCount]
  /\ report \in [Requests -> SUBSET {"success", "failure"}]
  /\ pushed \subseteq Requests
  /\ call \in [Callers -> Call \cup {Idle}]
  /\ finalized \in [Requests -> Nat]
  /\ orphaned \subseteq Requests
  /\ faults \in 0 .. MaxFaults

Init ==
  /\ step = [r \in Requests |-> "idle"]
  /\ status = [r \in Requests |-> "none"]
  /\ error = [r \in Requests |-> "none"]
  /\ created = << >>
  /\ repo = [a \in Apps |-> NoRequest]
  /\ closed = {}
  /\ runs = [r \in Requests |-> [started |-> 0, running |-> 0]]
  /\ report = [r \in Requests |-> {}]
  /\ pushed = {}
  /\ call = [k \in Callers |-> Idle]
  /\ finalized = [r \in Requests |-> 0]
  /\ orphaned = {}
  /\ faults = 0

Active(r) == status[r] \in {"pushing", "finalizing"}

Goto(r, s) == step' = [step EXCEPT ![r] = s]

-----------------------------------------------------------------------------
(* _process_merge *)

(* The pull request is open, its head is the commit the command names, and *)
(* the build of that commit is ready.                                      *)
Begin(r) ==
  /\ step[r] = "idle"
  /\ PrOf[r] \notin closed
  /\ Goto(r, "open")
  /\ UNCHANGED <<status, error, created, repo, closed, runs, report, pushed, call,
                 finalized, orphaned, faults>>

(* _has_active_merge_request *)
CheckActive(r) ==
  /\ step[r] = "open"
  /\ Goto(r, IF \E q \in Requests : Active(q) /\ PrOf[q] = PrOf[r] THEN "done" ELSE "free")
  /\ UNCHANGED <<status, error, created, repo, closed, runs, report, pushed, call,
                 finalized, orphaned, faults>>

(* _check_repo_exists, which takes no answer for no repository.            *)
CheckRepo(r) ==
  /\ step[r] = "free"
  /\ \/ /\ Goto(r, IF repo[AppOf[r]] = NoRequest THEN "new" ELSE "exists")
        /\ UNCHANGED faults
     \/ /\ faults < MaxFaults
        /\ Goto(r, "new")
        /\ faults' = faults + 1
  /\ UNCHANGED <<status, error, created, repo, closed, runs, report, pushed, call,
                 finalized, orphaned>>

\* Bug: the rows of other pull requests count.
BugSubmission(r) == {q \in Requests : AppOf[q] = AppOf[r]}

Submission(r) == {q \in Requests : PrOf[q] = PrOf[r] /\ AppOf[q] = AppOf[r]}

(* The last row of the submission is that of a command whose workflow was  *)
(* not dispatched.                                                         *)
Retryable(r) ==
  \E i \in DOMAIN created :
    /\ created[i] \in Submission(r)
    /\ \A j \in DOMAIN created : j > i => created[j] \notin Submission(r)
    /\ status[created[i]] = "failed" /\ error[created[i]] = "dispatch"

(* _get_retryable_repo_url *)
CheckRetry(r) ==
  /\ step[r] = "exists"
  /\ Goto(r, IF Retryable(r) THEN "retry" ELSE "done")
  /\ UNCHANGED <<status, error, created, repo, closed, runs, report, pushed, call,
                 finalized, orphaned, faults>>

(* What the unique indexes of the table allow.                             *)
Unique(r) ==
  \A q \in Requests : Active(q) => PrOf[q] # PrOf[r] /\ AppOf[q] # AppOf[r]

(* The row is inserted; "new" has then to create the repository.           *)
Insert(r) ==
  /\ step[r] \in {"new", "retry"}
  /\ status[r] = "none"
  /\ \/ /\ Unique(r)
        /\ status' = [status EXCEPT ![r] = "pushing"]
        /\ created' = Append(created, r)
        /\ Goto(r, IF step[r] = "retry" THEN "dispatch" ELSE "new")
     \/ /\ ~Unique(r)
        /\ Goto(r, "done")
        /\ UNCHANGED <<status, created>>
  /\ UNCHANGED <<error, repo, closed, runs, report, pushed, call, finalized,
                 orphaned, faults>>

(* _create_repo: GitHub refuses a name that is taken.  A repository that   *)
(* was created counts as refused when the reply is lost and the request is *)
(* sent again.                                                             *)
CreateRepo(r) ==
  /\ step[r] = "new"
  /\ status[r] # "none"
  /\ \/ /\ repo[AppOf[r]] = NoRequest
        /\ repo' = [repo EXCEPT ![AppOf[r]] = r]
        /\ \/ Goto(r, "dispatch") /\ UNCHANGED faults
           \/ faults < MaxFaults /\ Goto(r, "create_failed") /\ faults' = faults + 1
     \/ /\ Goto(r, "create_failed")
        /\ UNCHANGED <<repo, faults>>
  /\ UNCHANGED <<status, error, created, closed, runs, report, pushed, call,
                 finalized, orphaned>>

StartRun(r) ==
  /\ runs[r].started < MaxRuns
  /\ runs' = [runs EXCEPT ![r] = [started |-> @.started + 1, running |-> @.running + 1]]

(* _dispatch_merge_workflow: the request is sent again when its reply is   *)
(* lost, which starts another run, and fails when it is refused or its     *)
(* last reply is lost.                                                     *)
Dispatch(r) ==
  /\ step[r] = "dispatch"
  /\ \/ StartRun(r) /\ Goto(r, "done") /\ UNCHANGED faults
     \/ /\ faults < MaxFaults
        /\ StartRun(r)
        /\ faults' = faults + 1
        /\ \/ UNCHANGED step
           \/ Goto(r, "dispatch_failed")
     \/ Goto(r, "dispatch_failed") /\ UNCHANGED <<runs, faults>>
  /\ UNCHANGED <<status, error, created, repo, closed, report, pushed, call,
                 finalized, orphaned>>

FailureOf(r) == IF step[r] = "create_failed" THEN "create" ELSE "dispatch"

\* Bug: only the error is stored.
BugMarkFailed(r) ==
  /\ step[r] \in {"create_failed", "dispatch_failed"}
  /\ error' = [error EXCEPT ![r] = FailureOf(r)]
  /\ Goto(r, "done")
  /\ UNCHANGED <<status, created, repo, closed, runs, report, pushed, call, finalized,
                 orphaned, faults>>

(* _mark_failed, whatever has become of the row.                           *)
MarkFailed(r) ==
  /\ step[r] \in {"create_failed", "dispatch_failed"}
  /\ status' = [status EXCEPT ![r] = "failed"]
  /\ error' = [error EXCEPT ![r] = FailureOf(r)]
  /\ Goto(r, "done")
  /\ UNCHANGED <<created, repo, closed, runs, report, pushed, call, finalized,
                 orphaned, faults>>

-----------------------------------------------------------------------------
(* The merge workflow *)

(* A run pushes the commit, or fails, and reports which.  The runs of one  *)
(* application follow each other.                                          *)
RunEnds(r) ==
  /\ runs[r].running > 0
  /\ runs' = [runs EXCEPT ![r].running = @ - 1]
  /\ \/ /\ pushed' = pushed \cup {r}
        /\ report' = [report EXCEPT ![r] = @ \cup {"success"}]
     \/ /\ report' = [report EXCEPT ![r] = @ \cup {"failure"}]
        /\ UNCHANGED pushed
  /\ UNCHANGED <<step, status, error, created, repo, closed, call, finalized,
                 orphaned, faults>>

(* The report is given up after the server has not taken it six times.     *)
ReportLost(r) ==
  /\ report[r] # {}
  /\ faults < MaxFaults
  /\ faults' = faults + 1
  /\ report' = [report EXCEPT ![r] = {}]
  /\ orphaned' = orphaned \cup {r}
  /\ UNCHANGED <<step, status, error, created, repo, closed, runs, pushed, call,
                 finalized>>

-----------------------------------------------------------------------------
(* handle_callback *)

(* The row is read; a report stays, because it is sent until it is         *)
(* answered and the answer may be lost.                                    *)
CallbackRead(k, r) ==
  /\ call[k] = Idle
  /\ \E s \in report[r] :
       IF status[r] = "pushing"
         THEN /\ call' = [call EXCEPT ![k] = [at |-> "read", request |-> r, report |-> s]]
              /\ UNCHANGED report
         ELSE /\ report' = [report EXCEPT ![r] = @ \ {s}]
              /\ UNCHANGED call
  /\ UNCHANGED <<step, status, error, created, repo, closed, runs, pushed,
                 finalized, orphaned, faults>>

\* Bug: the row is updated whatever it has become.
BugCallbackWrite(k) ==
  LET r == call[k].request IN
  /\ call[k].at = "read"
  /\ \/ /\ call[k].report = "success"
        /\ status' = [status EXCEPT ![r] = "finalizing"]
        /\ call' = [call EXCEPT ![k].at = "finalize"]
        /\ UNCHANGED error
     \/ /\ call[k].report = "failure"
        /\ status' = [status EXCEPT ![r] = "failed"]
        /\ error' = [error EXCEPT ![r] = "push"]
        /\ call' = [call EXCEPT ![k] = Idle]
  /\ UNCHANGED <<step, created, repo, closed, runs, report, pushed, finalized,
                 orphaned, faults>>

\* Bug: a report is taken for success.
BugOutcome(k) ==
  LET r == call[k].request IN
  /\ call[k].at = "read"
  /\ \/ /\ status[r] # "pushing"
        /\ call' = [call EXCEPT ![k] = Idle]
        /\ UNCHANGED status
     \/ /\ status[r] = "pushing"
        /\ status' = [status EXCEPT ![r] = "finalizing"]
        /\ call' = [call EXCEPT ![k].at = "finalize"]
  /\ UNCHANGED <<step, error, created, repo, closed, runs, report, pushed, finalized,
                 orphaned, faults>>

(* The row is updated if it is still PUSHING.                              *)
CallbackWrite(k) ==
  LET r == call[k].request IN
  /\ call[k].at = "read"
  /\ \/ /\ status[r] # "pushing"
        /\ call' = [call EXCEPT ![k] = Idle]
        /\ UNCHANGED <<status, error>>
     \/ /\ status[r] = "pushing"
        /\ call[k].report = "success"
        /\ status' = [status EXCEPT ![r] = "finalizing"]
        /\ call' = [call EXCEPT ![k].at = "finalize"]
        /\ UNCHANGED error
     \/ /\ status[r] = "pushing"
        /\ call[k].report = "failure"
        /\ status' = [status EXCEPT ![r] = "failed"]
        /\ error' = [error EXCEPT ![r] = "push"]
        /\ call' = [call EXCEPT ![k] = Idle]
  /\ UNCHANGED <<step, created, repo, closed, runs, report, pushed, finalized,
                 orphaned, faults>>

(* The first half of _finalize: repository and pull request are set up.    *)
(* Every request may fail, the one that closes the pull request too.       *)
Finalize(k) ==
  LET r == call[k].request IN
  /\ call[k].at = "finalize"
  /\ finalized' = [finalized EXCEPT ![r] = @ + 1]
  /\ \/ /\ closed' = closed \cup {PrOf[r]}
        /\ \E s \in {"success", "errors"} :
             call' = [call EXCEPT ![k] = [at |-> "write", request |-> r, report |-> s]]
     \/ /\ call' = [call EXCEPT ![k] = [at |-> "write", request |-> r, report |-> "errors"]]
        /\ UNCHANGED closed
  /\ UNCHANGED <<step, status, error, created, repo, runs, report, pushed,
                 orphaned, faults>>

\* Bug: the errors go where the status belongs.
BugFinalizeWrite(k) ==
  LET r == call[k].request IN
  /\ call[k].at = "write"
  /\ status' = [status EXCEPT ![r] = call[k].report]
  /\ call' = [call EXCEPT ![k] = Idle]
  /\ UNCHANGED <<step, error, created, repo, closed, runs, report, pushed, finalized,
                 orphaned, faults>>

(* Its second half writes the row, whatever has become of it.              *)
FinalizeWrite(k) ==
  LET r == call[k].request
      failed == call[k].report = "errors"
  IN
  /\ call[k].at = "write"
  /\ status' = [status EXCEPT ![r] = IF failed THEN "failed" ELSE "completed"]
  /\ error' = [error EXCEPT ![r] = IF failed THEN "finalize" ELSE "none"]
  /\ call' = [call EXCEPT ![k] = Idle]
  /\ UNCHANGED <<step, created, repo, closed, runs, report, pushed, finalized,
                 orphaned, faults>>

(* The server dies with every task and every callback.                     *)
Crash ==
  /\ faults < MaxFaults
  /\ faults' = faults + 1
  /\ step' = [r \in Requests |-> IF step[r] = "idle" THEN "idle" ELSE "done"]
  /\ call' = [k \in Callers |-> Idle]
  /\ orphaned' = orphaned
       \cup {r \in Requests : step[r] \notin {"idle", "done"}}
       \cup {call[k].request : k \in {c \in Callers : call[c].at \in {"finalize", "write"}}}
  /\ UNCHANGED <<status, error, created, repo, closed, runs, report, pushed, finalized>>

-----------------------------------------------------------------------------

MergeStep(r) ==
  \/ CheckActive(r) \/ CheckRepo(r) \/ CheckRetry(r) \/ Insert(r) \/ CreateRepo(r)
  \/ Dispatch(r) \/ MarkFailed(r)

CallStep(k) == CallbackWrite(k) \/ Finalize(k) \/ FinalizeWrite(k)

Next ==
  \/ \E r \in Requests : Begin(r) \/ MergeStep(r) \/ RunEnds(r) \/ ReportLost(r)
  \/ \E k \in Callers : CallStep(k) \/ \E r \in Requests : CallbackRead(k, r)
  \/ Crash

Spec == Init /\ [][Next]_vars

(***************************************************************************)
(* A task that has begun goes on, a run ends within its ten minutes, and a  *)
(* report that is sent again and again is taken in the end.                 *)
(***************************************************************************)
Fairness ==
  /\ \A r \in Requests :
       /\ WF_vars(MergeStep(r))
       /\ WF_vars(RunEnds(r))
       /\ SF_vars(\E k \in Callers : CallbackRead(k, r))
  /\ \A k \in Callers : WF_vars(CallStep(k))

FairSpec == Spec /\ Fairness

-----------------------------------------------------------------------------
(* Properties *)

(* A merge request is finalized once, although its report is sent until it *)
(* is answered, two runs may report it, and callbacks overlap.             *)
FinalizedOnce == \A r \in Requests : finalized[r] <= 1

(* A workflow is started only for a repository that a command of the same  *)
(* pull request created: a submission is never pushed to the repository of *)
(* an application that exists, or of another submission.                   *)
OwnRepository ==
  \A r \in Requests : runs[r].started > 0 =>
    /\ repo[AppOf[r]] # NoRequest
    /\ PrOf[repo[AppOf[r]]] = PrOf[r]

(* A pull request is closed only when its commit has been pushed.          *)
ClosedIsPushed == \A pr \in closed : \E r \in pushed : PrOf[r] = pr

(* A merge request does not stay active, which would block its pull request *)
(* for ever, unless a crash killed the task that was dispatching it or the  *)
(* callback that was finalizing it, or its report was given up.             *)
MergeSettles ==
  \A r \in Requests : Active(r) ~> ~Active(r) \/ r \in orphaned

-----------------------------------------------------------------------------
(* The inductive invariants. *)

(* No more runs go on than were started. *)
TypeInv ==
  /\ MergeTypeOK
  /\ \A r \in Requests : runs[r].running <= runs[r].started

Own(r) ==
  /\ repo[AppOf[r]] # NoRequest
  /\ PrOf[repo[AppOf[r]]] = PrOf[r]

Claims(r) ==
  \/ step[r] \in {"retry", "dispatch", "dispatch_failed"}
  \/ runs[r].started > 0
  \/ error[r] = "dispatch"

(* Whoever is about to dispatch, has dispatched or may be retried has its  *)
(* own repository.                                                         *)
OwnInv ==
  /\ TypeInv
  /\ \A r \in Requests : Claims(r) => Own(r)

Finalizing(k, r) == call[k].at = "finalize" /\ call[k].request = r

(* A request that is not yet finalized has at most one finalizer, and none *)
(* before it has left PUSHING, to which it never returns.                  *)
FinalInv ==
  /\ TypeInv
  /\ \A r \in Requests :
       /\ finalized[r] <= 1
       /\ finalized[r] = 1 \/ (\E k \in Callers : Finalizing(k, r))
            => status[r] \notin {"none", "pushing"}
       /\ \A k \in Callers : Finalizing(k, r) =>
            /\ finalized[r] = 0
            /\ \A l \in Callers : Finalizing(l, r) => l = k

(* Callback k is to finalize the request, or to try.                        *)
Succeeding(k) ==
  \/ call[k].at = "read" /\ call[k].report = "success"
  \/ call[k].at = "finalize"

(* Success is reported only of a request that was pushed.                  *)
PushInv ==
  /\ TypeInv
  /\ \A r \in Requests : "success" \in report[r] => r \in pushed
  /\ \A k \in Callers : Succeeding(k) => call[k].request \in pushed
  /\ ClosedIsPushed

=============================================================================
