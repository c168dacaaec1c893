---------------------------- MODULE FailureIssues ----------------------------
(***************************************************************************)
(* The GitHub issue that tells of the failing stable or beta builds of an  *)
(* application (services/build_failure_issue.py), and `bot, retry` on it   *)
(* (routes/webhooks.py, handle_issue_retry).                               *)
(*                                                                         *)
(* One application and one flat-manager repository are modelled: one row   *)
(* of build_failure_issue at most.  The handler of a result reserves the   *)
(* row (locks it, or inserts it under the unique index) and holds it while *)
(* it talks to GitHub.  A retry holds nothing: it reads the row, builds    *)
(* again and closes the issue.  Users close issues, open them again and    *)
(* edit them.                                                              *)
(***************************************************************************)
EXTENDS Naturals, Sequences, FiniteSets

CONSTANTS
  Runs,       \* pipelines, numbered; also the commits they were pushed with
  Retriers,   \* `bot, retry` comments being handled
  MaxUser,    \* bound: actions of users on issues
  MaxFaults   \* bound: requests that fail and handlers that die

ASSUME IssueConstants ==
  /\ Runs \subseteq Nat \ {0}
  /\ IsFiniteSet(Runs)
  /\ {MaxUser, MaxFaults} \subseteq Nat

VARIABLES
  run,      \* a pipeline, and where the handler of its result is
  row,      \* the committed row of build_failure_issue
  holder,   \* the run whose handler holds the row
  issues,   \* issues of the repository, by number
  retry,    \* where each retry is
  retried,  \* history: which commit was built again for which issue
  last,     \* history: the last result whose handler met no fault
  orphans,  \* history: issues that are not, or no more, the row's affair
  user,     \* history: actions of users
  faults    \* history: faults

vars ==
  <<run, row, holder, issues, retry, retried, last, orphans, user, faults>>
history == <<retried, user, faults>>

-----------------------------------------------------------------------------
(* State *)

(* number is 0 when there is no active issue, sha when none is recorded.   *)
NoRow == [exists |-> FALSE, number |-> 0, sha |-> 0]
BugCleared == [exists |-> TRUE, number |-> 0, sha |-> row.sha]

(* _clear_active_issue *)
Cleared == [exists |-> TRUE, number |-> 0, sha |-> 0]
Numbers == 1..Len(issues)

(* body is the commit the body names (0: a user wrote something else), ours*)
(* whether title and first sentence are still those of _build_issue_body,  *)
(* said the commits whose failure the issue reports.                       *)
Issue == [open : BOOLEAN, body : Runs \cup {0}, edited : BOOLEAN,
          ours : BOOLEAN, said : SUBSET Runs]

Absent == [pc |-> "absent", sha |-> 0, status |-> "none", mine |-> NoRow,
           seen |-> "none"]
NoRetry == [pc |-> "idle", issue |-> 0, sha |-> 0]
Unknown == [status |-> "unknown", sha |-> 0]

RowType(r) == r \in [exists : BOOLEAN, number : Nat, sha : Runs \cup {0}]

IssueTypeOK ==
  /\ run \in [Runs -> [pc : {"absent", "building", "ended", "adopt", "look",
                             "act", "done"},
                       sha : Runs \cup {0},
                       status : {"none", "failure", "success"},
                       mine : [exists : BOOLEAN, number : Nat,
                               sha : Runs \cup {0}],
                       seen : {"none", "open", "closed"}]]
  /\ RowType(row)
  /\ holder \in Runs \cup {0}
  /\ issues \in Seq(Issue)
  /\ row.number \in 0..Len(issues)
  /\ ~row.exists => row = NoRow
  /\ row.number = 0 => row.sha = 0
  /\ retry \in [Retriers -> [pc : {"idle", "read", "started"}, issue : Nat,
                             sha : Runs \cup {0}]]
  /\ retried \subseteq [issue : Nat, sha : Runs \cup {0}]
  /\ last \in [status : {"unknown", "failure", "success"},
               sha : Runs \cup {0}]
  /\ orphans \subseteq Numbers /\ user \in 0..MaxUser /\ faults \in 0..MaxFaults

Init ==
  /\ run = [r \in Runs |-> Absent]
  /\ row = NoRow
  /\ holder = 0
  /\ issues = <<>>
  /\ retry = [t \in Retriers |-> NoRetry]
  /\ retried = {}
  /\ last = Unknown
  /\ orphans = {}
  /\ user = 0
  /\ faults = 0

-----------------------------------------------------------------------------
(* Pipelines *)

NextRun(r) == run[r] = Absent /\ \A q \in Runs : q < r => run[q] # Absent

Starts(r, sha) ==
  run' = [run EXCEPT ![r] = [Absent EXCEPT !.pc = "building", !.sha = sha]]

Pushed(r) ==
  /\ NextRun(r)
  /\ Starts(r, r)
  /\ UNCHANGED <<row, holder, issues, retry, last, orphans, history>>

(* handle_build_completion, from the status callback.                      *)
Ends(r) ==
  /\ run[r].pc = "building"
  /\ \E s \in {"failure", "success"} :
       run' = [run EXCEPT ![r].pc = "ended", ![r].status = s]
  /\ UNCHANGED <<row, holder, issues, retry, last, orphans, history>>

-----------------------------------------------------------------------------
(* What GitHub does *)

BugHolds(r) == UNCHANGED holder

(* The row lock, or the uncommitted row the unique index makes rivals wait *)
(* for: either way one handler at a time.                                  *)
Holds(r) == holder = 0 /\ holder' = r

Opened(sha) ==
  issues' = Append(issues, [open |-> TRUE, body |-> sha, edited |-> FALSE,
                            ours |-> TRUE, said |-> {sha}])

Commented(n, sha) == issues' = [issues EXCEPT ![n].said = @ \cup {sha}]
Closed(n) == issues' = [issues EXCEPT ![n].open = FALSE]

OpenIssues == {n \in Numbers : issues[n].open}

-----------------------------------------------------------------------------
(* handle_result *)

(* _reserve_state.  A rival's insert that committed first is found by the  *)
(* second SELECT, so the handler works on whatever row is there.           *)
Reserve(r) ==
  /\ run[r].pc = "ended"
  /\ Holds(r)
  /\ run' = [run EXCEPT ![r].pc = IF row.exists THEN "look" ELSE "adopt",
                        ![r].mine = IF row.exists THEN row ELSE Cleared]
  /\ UNCHANGED <<row, issues, retry, last, orphans, history>>

(* Open issues with the title and the first sentence this service writes.  *)
Adoptable == {n \in OpenIssues : issues[n].ours}

NewestOf(n, S) ==
  IF S = {} THEN n = 0 ELSE n \in S /\ \A m \in S : m <= n

BugNewest(n) == n = 0

IsNewest(n) == NewestOf(n, Adoptable)

(* What the new row leaves alone: issues users made their own, and older   *)
(* duplicates, which are only logged.                                      *)
PassedOver ==
  {n \in OpenIssues : ~issues[n].ours \/ \E m \in Adoptable : m > n}

(* _adopt_legacy_issue: a new row takes over the newest issue of ours.     *)
Adopt(r) ==
  /\ run[r].pc = "adopt"
  /\ \E n \in {0} \cup Numbers :
       /\ IsNewest(n)
       /\ run' = [run EXCEPT ![r].pc = "look", ![r].mine.number = n]
  /\ orphans' = PassedOver
  /\ UNCHANGED <<row, holder, issues, retry, last, history>>

(* The transaction commits what the handler made of the row.               *)
Commit(r, result) ==
  /\ row' = result
  /\ holder' = 0
  /\ run' = [run EXCEPT ![r] = [Absent EXCEPT !.pc = "done",
                                              !.sha = run[r].sha]]

Concludes(r) == last' = [status |-> run[r].status, sha |-> run[r].sha]

(* The issue of the row is asked for; with none there is nothing to ask.   *)
Look(r) ==
  /\ run[r].pc = "look"
  /\ run[r].mine.number # 0
  /\ run' = [run EXCEPT ![r].pc = "act",
               ![r].seen = IF issues[run[r].mine.number].open
                             THEN "open" ELSE "closed"]
  /\ UNCHANGED <<row, holder, issues, retry, last, orphans, history>>

NoIssue(r) == run[r].pc = "look" /\ run[r].mine.number = 0
Sees(r, state) == run[r].pc = "act" /\ run[r].seen = state

(* _create_issue, for a row without an issue or with a closed one.         *)
MustCreate(r) == run[r].status = "failure" /\ (NoIssue(r) \/ Sees(r, "closed"))

CreateIssue(r) ==
  /\ MustCreate(r)
  /\ Opened(run[r].sha)
  /\ Commit(r, [exists |-> TRUE, number |-> Len(issues) + 1,
                sha |-> run[r].sha])
  /\ Concludes(r)
  /\ UNCHANGED <<retry, orphans, history>>

BugLatest(r) == run[r].mine

(* The latest failure is the one a retry builds.                           *)
Latest(r) == [run[r].mine EXCEPT !.sha = run[r].sha]

CommentFailure(r) ==
  /\ run[r].status = "failure" /\ Sees(r, "open")
  /\ Commented(run[r].mine.number, run[r].sha)
  /\ Commit(r, Latest(r))
  /\ Concludes(r)
  /\ UNCHANGED <<retry, orphans, history>>

(* A success closes the open issue; a closed one is only forgotten.        *)
SuccessCloses(r) ==
  /\ run[r].status = "success" /\ Sees(r, "open")
  /\ Closed(run[r].mine.number)
  /\ Commit(r, Cleared)
  /\ Concludes(r)
  /\ UNCHANGED <<retry, orphans, history>>

SuccessForgets(r) ==
  /\ run[r].status = "success"
  /\ NoIssue(r) \/ Sees(r, "closed")
  /\ Commit(r, Cleared)
  /\ Concludes(r)
  /\ UNCHANGED <<issues, retry, orphans, history>>

-----------------------------------------------------------------------------
(* Faults of a handler *)

Fault == faults < MaxFaults /\ faults' = faults + 1

(* The issue is opened but the reply is lost, or is a server error, and    *)
(* with it the number.  The client sends the request again (CreateIssue or *)
(* this), gives up (NoAnswer) or dies (Dies).                              *)
ReplyLost(r) ==
  /\ MustCreate(r)
  /\ Fault
  /\ Opened(run[r].sha)
  /\ orphans' = orphans \cup {Len(issues) + 1}
  /\ UNCHANGED <<run, row, holder, retry, last, retried, user>>

(* GitHub does not answer (it may have commented or closed): the handler   *)
(* goes on without, and commits.                                           *)
NoAnswer(r) ==
  /\ Fault
  /\ LET mine == run[r].mine IN
       \/ /\ run[r].pc = "adopt"          \* the new row is deleted again
          /\ Commit(r, NoRow)
          /\ UNCHANGED issues
       \/ /\ run[r].pc = "look" /\ mine.number # 0
          /\ Commit(r, mine)
          /\ UNCHANGED issues
       \/ /\ MustCreate(r)
          /\ Commit(r, Cleared)
          /\ UNCHANGED issues
       \/ /\ run[r].status = "failure" /\ Sees(r, "open")
          /\ Commit(r, mine)
          /\ Commented(mine.number, run[r].sha) \/ UNCHANGED issues
       \/ /\ run[r].status = "success" /\ Sees(r, "open")
          /\ Commit(r, mine)
          /\ Closed(mine.number) \/ UNCHANGED issues
  /\ last' = Unknown
  /\ UNCHANGED <<retry, orphans, retried, user>>

(* The handler dies, possibly after a request: the row is rolled back.  If *)
(* there was none, the next row may adopt what this handler opened.        *)
Dies(r) ==
  /\ holder = r
  /\ Fault
  /\ Commit(r, row)
  /\ \/ UNCHANGED issues
     \/ /\ run[r].status = "failure" /\ Sees(r, "open")
        /\ Commented(run[r].mine.number, run[r].sha)
     \/ /\ run[r].status = "success" /\ Sees(r, "open")
        /\ Closed(run[r].mine.number)
  /\ orphans' = IF row.exists THEN orphans ELSE {}
  /\ last' = Unknown
  /\ UNCHANGED <<retry, retried, user>>

-----------------------------------------------------------------------------
(* handle_issue_retry *)

BugRetrySha(n) == {issues[n].body} \cup ({row.sha} \ {0})

(* get_retry_params: the latest commit of the row that names this issue.   *)
(* Without its log URL, or when the row cannot be read, the commit the body*)
(* of the issue names.                                                     *)
RetrySha(n) ==
  {issues[n].body} \cup (IF row.number = n THEN {row.sha} \ {0} ELSE {})

(* An issue that was edited is refused: its body is not ours any more.     *)
Retryable(n) == ~issues[n].edited

RetryReads(t) ==
  /\ retry[t].pc = "idle"
  /\ \E n \in Numbers :
       /\ Retryable(n)
       /\ \E sha \in RetrySha(n) :
            retry' = [retry EXCEPT ![t] =
                        [pc |-> "read", issue |-> n, sha |-> sha]]
  /\ UNCHANGED <<run, row, holder, issues, last, orphans, history>>

RetryStarts(t) ==
  /\ retry[t].pc = "read"
  /\ \E r \in Runs : NextRun(r) /\ Starts(r, retry[t].sha)
  /\ retry' = [retry EXCEPT ![t].pc = "started"]
  /\ retried' = retried \cup {[issue |-> retry[t].issue, sha |-> retry[t].sha]}
  /\ UNCHANGED <<row, holder, issues, last, orphans, user, faults>>

(* The issue is closed without the row: the next result finds it closed.   *)
RetryCloses(t) ==
  /\ retry[t].pc = "started"
  /\ Closed(retry[t].issue)
  /\ retry' = [retry EXCEPT ![t] = NoRetry]
  /\ UNCHANGED <<run, row, holder, last, orphans, history>>

(* The start is refused, or the issue cannot be closed.                    *)
RetryFails(t) ==
  /\ retry[t].pc # "idle"
  /\ Fault
  /\ retry' = [retry EXCEPT ![t] = NoRetry]
  /\ UNCHANGED <<run, row, holder, issues, last, orphans, retried, user>>

-----------------------------------------------------------------------------
(* Users *)

UserCloses(n) ==
  /\ issues[n].open /\ user < MaxUser
  /\ Closed(n)
  /\ user' = user + 1
  /\ UNCHANGED <<run, row, holder, retry, last, orphans, retried, faults>>

(* The row that names it, if one does, need not know: a handler may have   *)
(* seen it closed, or forget it on this.                                   *)
UserReopens(n) ==
  /\ ~issues[n].open /\ user < MaxUser
  /\ issues' = [issues EXCEPT ![n].open = TRUE]
  /\ orphans' = orphans \cup {n}
  /\ user' = user + 1
  /\ UNCHANGED <<run, row, holder, retry, last, retried, faults>>

(* An edit of the body may keep its first sentence; a new title is no edit *)
(* to is_issue_edited.                                                     *)
UserEdits(n) ==
  /\ user < MaxUser
  /\ \/ \E ours \in BOOLEAN :
          issues' = [issues EXCEPT ![n].edited = TRUE, ![n].body = 0,
                                   ![n].ours = ours]
     \/ issues' = [issues EXCEPT ![n].ours = ~@]
  /\ user' = user + 1
  /\ UNCHANGED <<run, row, holder, retry, last, orphans, retried, faults>>

-----------------------------------------------------------------------------
Handle(r) ==
  \/ Reserve(r) \/ Adopt(r) \/ Look(r) \/ CreateIssue(r) \/ CommentFailure(r)
  \/ SuccessCloses(r) \/ SuccessForgets(r)
  \/ ReplyLost(r) \/ NoAnswer(r) \/ Dies(r)

Retry(t) ==
  RetryReads(t) \/ RetryStarts(t) \/ RetryCloses(t) \/ RetryFails(t)

Next ==
  \/ \E r \in Runs : Pushed(r) \/ Ends(r) \/ Handle(r)
  \/ \E t \in Retriers : Retry(t)
  \/ \E n \in Numbers : UserCloses(n) \/ UserReopens(n) \/ UserEdits(n)

Spec == Init /\ [][Next]_vars

-----------------------------------------------------------------------------
(* Properties *)

(* Once there is a row, results, retries and users in any order leave no   *)
(* open issue but the one it names and the orphans, each of which has its  *)
(* reason: a reply with its number was lost, users changed it or it was an *)
(* older duplicate when the row was inserted, or a user opened it again.   *)
(* An issue of ours that a dying handler left before any row is no orphan. *)
OneOpenIssue ==
  row.exists => OpenIssues \subseteq orphans \cup {row.number}

(* When no result is being handled and the last one met no fault, the row  *)
(* says what that result was: after a failure it names an issue that       *)
(* reports it and the commit a retry would build, after a success no issue *)
(* is left open but the orphans.                                           *)
LastResultStands ==
  holder = 0 =>
    /\ last.status = "failure" =>
         /\ row.number # 0 /\ row.sha = last.sha
         /\ last.sha \in issues[row.number].said
    /\ last.status = "success" =>
         row.number = 0 /\ OpenIssues \subseteq orphans

(* A retry builds a commit whose failure its issue reports, never that of  *)
(* another issue nor what a user wrote into the issue.                     *)
RetryBuildsReported ==
  \A x \in retried : x.sha \in issues[x.issue].said
==============================================================================
