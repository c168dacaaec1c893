--------------------------- MODULE WebhookReceiver ---------------------------
(***************************************************************************)
(* GitHub's webhook deliveries for one repository and how they are handled *)
(* (routes/webhooks.py): pushes to its branch and the events of one pull   *)
(* request.                                                                *)
(*                                                                         *)
(* An event is its number.  GitHub delivers it, perhaps late, and calls an *)
(* attempt failed when the server refuses it, answers with an error or too *)
(* late; a handler whose answer comes too late runs on.  The handler awaits*)
(* GitHub between what it reads of the pipelines and the row it inserts.   *)
(* What becomes of an inserted row in detail is the matter of              *)
(* BuildScheduling; here a pull request's row waits, starts and ends.      *)
(*                                                                         *)
(* The branch and the pull request share no state, so that a behaviour is  *)
(* about one of them.                                                      *)
(***************************************************************************)
EXTENDS Naturals, Sequences, FiniteSets

CONSTANTS
  Handlers,   \* requests the server handles at once, numbered
  MaxPushes,  \* bound: pushes to the branch
  MaxPulls,   \* bound: events of the pull request
  MaxFaults,  \* bound: failed attempts, dying handlers, failed requests
  MaxMoves,   \* bound: events and faults together
  Limit       \* test_build_failure_streak_limit

ASSUME ReceiverConstants ==
  /\ {MaxPushes, MaxPulls, MaxFaults, MaxMoves} \subseteq Nat
  /\ Handlers \subseteq Nat
  /\ Limit \in Nat \ {0}

VARIABLES
  about,      \* what the behaviour is about: "branch" or "pull_request"
  events,     \* what GitHub sent, by number
  head,       \* the commit of the branch
  pr,         \* the pull request
  delivery,   \* of each event: attempts on their way, failed ones, success
  handler,    \* the request each handler is serving
  built,      \* the rows made for pushes, oldest first
  republished,\* pushes that only changed end-of-life keys, and are dealt with
  tests,      \* the rows of the pull request, oldest first
  over,       \* rows that ended too long ago to pause the pull request
  overlap,    \* history: commits of pushes handled twice at once
  late,       \* history: events overlapped or overtook one another
  streak,     \* history: builds of the pull request that failed in a row
  excused,    \* history: events paused after Limit failures in a row
  faults      \* history: faults

github == <<about, events, head, pr>>
receiverVars ==
  <<about, events, head, pr, delivery, handler, built, republished, tests, over,
    overlap, late, streak, excused, faults>>

-----------------------------------------------------------------------------
(* State *)

Most == IF MaxPushes > MaxPulls THEN MaxPushes ELSE MaxPulls
MaxEvents == IF about = "branch" THEN MaxPushes ELSE MaxPulls

PullKinds == {"opened", "synchronize", "ready_for_review",
              "converted_to_draft"}

(* skip: only end-of-life keys changed, or (for a pull request) the actor, *)
(* the application or its inactivity is filtered.                          *)
Event == [kind : PullKinds \cup {"push"}, sha : 1..Most,
          draft : BOOLEAN, skip : BOOLEAN]
Idle == [pc |-> "idle", event |-> 0, row |-> 0, waits |-> FALSE]

(* A row made for a push is of its commit.  One that was started stays so, *)
(* whatever becomes of the build; the others wait or never start.          *)
PushStatuses == {"pending", "started", "superseded"}

Statuses == {"pending", "running", "succeeded", "failed", "cancelled",
             "superseded"}

WebhookTypeOK ==
  /\ about \in {"branch", "pull_request"}
  /\ events \in Seq(Event) /\ Len(events) <= MaxEvents
  /\ head \in 0..MaxEvents
  /\ pr \in [head : 0..MaxEvents, draft : BOOLEAN, skip : BOOLEAN]
  /\ delivery \in Seq([out : Nat, failed : Nat, ok : BOOLEAN])
  /\ Len(delivery) = Len(events)
  /\ handler \in [Handlers -> [pc : {"idle", "received", "create", "start"},
                               event : 0..MaxEvents, row : Nat,
                               waits : BOOLEAN]]
  /\ \A h \in Handlers :
       handler[h].pc = "start" => handler[h].row \in DOMAIN built
  /\ built \in Seq([push : 1..MaxEvents, status : PushStatuses])
  /\ republished \subseteq 1..MaxEvents
  /\ tests \in Seq([sha : 1..MaxEvents, status : Statuses,
                    started : BOOLEAN])
  /\ \A i \in DOMAIN tests :
       /\ tests[i].status \in {"running", "succeeded", "failed"} =>
            tests[i].started
       /\ tests[i].status = "pending" => ~tests[i].started
  /\ over \subseteq DOMAIN tests

ReceiverInit ==
  /\ about \in {"branch", "pull_request"}
  /\ events = <<>>
  /\ head = 0
  /\ pr = [head |-> 0, draft |-> FALSE, skip |-> FALSE]
  /\ delivery = <<>>
  /\ handler = [h \in Handlers |-> Idle]
  /\ built = <<>>
  /\ republished = {}
  /\ tests = <<>>
  /\ over = {}
  /\ overlap = {}
  /\ late = FALSE
  /\ streak = 0
  /\ excused = {}
  /\ faults = 0

IsPull(e) == events[e].kind \in PullKinds
PullEvents == {e \in DOMAIN events : IsPull(e)}
PushEvents == DOMAIN events \ PullEvents

-----------------------------------------------------------------------------
(* Users and GitHub *)

Sends(ref, kind, sha, draft, skip) ==
  /\ about = ref
  /\ Len(events) < MaxEvents /\ Len(events) + faults < MaxMoves
  /\ events' = Append(events, [kind |-> kind, sha |-> sha, draft |-> draft,
                               skip |-> skip])
  /\ delivery' = Append(delivery, [out |-> 1, failed |-> 0, ok |-> FALSE])
  /\ UNCHANGED <<about, handler, built, republished, tests, over, overlap,
                 late, streak, excused, faults>>

NewCommit == Len(events) + 1

(* A new commit, or back to one that was pushed before.                    *)
Push ==
  \E sha \in ({NewCommit} \cup {events[e].sha : e \in PushEvents}) \ {head},
     eol \in BOOLEAN :
    /\ Sends("branch", "push", sha, FALSE, eol)
    /\ head' = sha
    /\ UNCHANGED pr

PullOpened ==
  /\ pr.head = 0
  /\ \E draft, skip \in BOOLEAN :
       /\ Sends("pull_request", "opened", NewCommit, draft, skip)
       /\ pr' = [head |-> NewCommit, draft |-> draft, skip |-> skip]
  /\ UNCHANGED head

PullSynchronized ==
  /\ pr.head # 0
  /\ \E skip \in BOOLEAN :
       /\ Sends("pull_request", "synchronize", NewCommit, pr.draft, skip)
       /\ pr' = [pr EXCEPT !.head = NewCommit, !.skip = skip]
  /\ UNCHANGED head

PullConverted ==
  /\ pr.head # 0
  /\ Sends("pull_request",
           IF pr.draft THEN "ready_for_review" ELSE "converted_to_draft",
           pr.head, ~pr.draft, pr.skip)
  /\ pr' = [pr EXCEPT !.draft = ~@]
  /\ UNCHANGED head

-----------------------------------------------------------------------------
(* Requests *)

Busy(h) == handler[h].pc # "idle"
Serves(h) == events[handler[h].event]
At(h, pc) == handler[h].pc = pc
Goto(h, pc) == handler' = [handler EXCEPT ![h].pc = pc]

Reached(e) == delivery[e].out = 0 \/ delivery[e].failed > 0

(* Another event is being handled, or a later one reached the server.      *)
Overtaken(e) ==
  \/ \E h \in Handlers : Busy(h)
  \/ \E later \in DOMAIN events : later > e /\ Reached(later)

Receives(h, e) ==
  /\ ~Busy(h) /\ \A g \in Handlers : g < h => Busy(g)
  /\ delivery[e].out > 0
  /\ handler' = [handler EXCEPT ![h] = [pc |-> "received", event |-> e,
                                        row |-> 0, waits |-> TRUE]]
  /\ delivery' = [delivery EXCEPT ![e].out = @ - 1]
  /\ late' = (late \/ Overtaken(e))
  /\ overlap' = overlap \cup
       {events[e].sha : g \in {g \in Handlers :
          Busy(g) /\ ~IsPull(e) /\ Serves(g).sha = events[e].sha}}
  /\ UNCHANGED <<github, built, republished, tests, over, streak, excused,
                 faults>>

(* GitHub waits no longer for an answer that was too late.                 *)
Noted(attempts, waits, ok) ==
  IF ~waits THEN attempts
  ELSE IF ok THEN [attempts EXCEPT !.ok = TRUE]
  ELSE [attempts EXCEPT !.failed = @ + 1]

Answers(h, ok) ==
  /\ handler' = [handler EXCEPT ![h] = Idle]
  /\ delivery' = [delivery EXCEPT ![handler[h].event] =
                    Noted(@, handler[h].waits, ok)]

Fault ==
  /\ faults < MaxFaults /\ Len(events) + faults < MaxMoves
  /\ faults' = faults + 1

(* The server is down, or refuses.                                         *)
Refused(e) ==
  /\ delivery[e].out > 0
  /\ Fault
  /\ delivery' = [delivery EXCEPT ![e].out = @ - 1, ![e].failed = @ + 1]
  /\ UNCHANGED <<github, handler, built, republished, tests, over, overlap,
                 late, streak, excused>>

(* Of a pull request nobody asks again, so that it makes no difference.    *)
AnswerTooLate(h) ==
  /\ handler[h].waits /\ ~IsPull(handler[h].event)
  /\ Fault
  /\ handler' = [handler EXCEPT ![h].waits = FALSE]
  /\ delivery' = [delivery EXCEPT ![handler[h].event].failed = @ + 1]
  /\ UNCHANGED <<github, built, republished, tests, over, overlap, late,
                 streak, excused>>

HandlerDies(h) ==
  /\ Busy(h)
  /\ Fault
  /\ Answers(h, FALSE)
  /\ UNCHANGED <<github, built, republished, tests, over, overlap, late,
                 streak, excused>>

-----------------------------------------------------------------------------
(* Pushes *)

CommitOf(i) == events[built[i].push].sha

BugAlreadyBuilt(sha) == FALSE
BugAnyBuilt(sha) == \E i \in DOMAIN built : CommitOf(i) = sha

(* push_already_built: the newest row of the branch is of this commit.     *)
AlreadyBuilt(sha) == built # <<>> /\ CommitOf(Len(built)) = sha

PushIsBuilt(h) ==
  /\ At(h, "received") /\ Serves(h).kind = "push"
  /\ AlreadyBuilt(Serves(h).sha)
  /\ Answers(h, TRUE)
  /\ UNCHANGED <<github, built, republished, tests, over, overlap, late,
                 streak, excused, faults>>

PushIsNew(h) ==
  /\ At(h, "received") /\ Serves(h).kind = "push"
  /\ ~AlreadyBuilt(Serves(h).sha)
  /\ Goto(h, "create")
  /\ UNCHANGED <<github, delivery, built, republished, tests, over, overlap,
                 late, streak, excused, faults>>

(* is_eol_only_push: flathub.json alone changed, in its end-of-life keys.   *)
EolOnly(h) == Serves(h).kind = "push" /\ Serves(h).skip

(* handle_eol_only_push: no row; flat-manager republishes, and the commit  *)
(* shows whether it did.                                                   *)
Republishes(h) ==
  /\ At(h, "create") /\ EolOnly(h)
  /\ republished' = republished \cup {handler[h].event}
  /\ Answers(h, TRUE)
  /\ UNCHANGED <<github, built, tests, over, overlap, late, streak, excused,
                 faults>>

(* create_pipeline inserts the row, and prepares it to be started.  The    *)
(* changed files may be unknown: then it is a build.                       *)
CreatesBuild(h) ==
  /\ At(h, "create") /\ Serves(h).kind = "push"
  /\ IF EolOnly(h) THEN Fault ELSE UNCHANGED faults
  /\ built' = Append(built, [push |-> handler[h].event, status |-> "pending"])
  /\ handler' = [handler EXCEPT ![h].pc = "start", ![h].row = Len(built) + 1]
  /\ UNCHANGED <<github, delivery, republished, tests, over, overlap, late,
                 streak, excused>>

(* start_pipeline: the row starts and supersedes the rows that wait.       *)
Started(rows, i) ==
  [j \in DOMAIN rows |->
     IF j = i THEN [rows[j] EXCEPT !.status = "started"]
     ELSE IF rows[j].status = "pending"
       THEN [rows[j] EXCEPT !.status = "superseded"]
     ELSE rows[j]]

Starting(h, status) ==
  /\ At(h, "start") /\ Serves(h).kind = "push"
  /\ built[handler[h].row].status = status

StartsBuild(h) ==
  /\ Starting(h, "pending")
  /\ built' = Started(built, handler[h].row)
  /\ Answers(h, TRUE)
  /\ UNCHANGED <<github, republished, tests, over, overlap, late, streak,
                 excused, faults>>

(* Another start superseded the row: there is nothing to do.               *)
RowIsSuperseded(h) ==
  /\ Starting(h, "superseded")
  /\ Answers(h, TRUE)
  /\ UNCHANGED <<github, built, republished, tests, over, overlap, late,
                 streak, excused, faults>>

BugStartRaises(h) ==
  /\ Starting(h, "pending")
  /\ Fault
  /\ Answers(h, TRUE)
  /\ UNCHANGED <<github, built, republished, tests, over, overlap, late,
                 streak, excused>>

(* flat-manager or GitHub fails: the start is rolled back, and answered    *)
(* with an error.                                                          *)
StartRaises(h) ==
  /\ Starting(h, "pending")
  /\ Fault
  /\ Answers(h, FALSE)
  /\ UNCHANGED <<github, built, republished, tests, over, overlap, late,
                 streak, excused>>

-----------------------------------------------------------------------------
(* Pull requests *)

(* cancel_pending_pr_builds *)
CancelsPending ==
  tests' = [i \in DOMAIN tests |->
              IF tests[i].status = "pending"
                THEN [tests[i] EXCEPT !.status = "cancelled"] ELSE tests[i]]

(* A draft is not built, nor is anything that waits to be.                 *)
PullIsDraft(h) ==
  /\ At(h, "received") /\ Serves(h).kind \in PullKinds /\ Serves(h).draft
  /\ CancelsPending
  /\ Answers(h, TRUE)
  /\ UNCHANGED <<github, built, republished, over, overlap, late, streak,
                 excused, faults>>

(* A large or an inactive application, a bot, nothing but submodules or but*)
(* end-of-life keys.                                                       *)
Filtered(h) == Serves(h).kind \in PullKinds /\ Serves(h).skip

(* A synchronize cancels what waits all the same.                          *)
PullIsSkipped(h) ==
  /\ At(h, "received") /\ Filtered(h) /\ ~Serves(h).draft
  /\ IF Serves(h).kind = "synchronize" THEN CancelsPending
     ELSE UNCHANGED tests
  /\ Answers(h, TRUE)
  /\ UNCHANGED <<github, built, republished, over, overlap, late, streak,
                 excused, faults>>

BugIsLive(sha) ==
  \E i \in DOMAIN tests :
    tests[i].sha = sha /\ tests[i].status \in {"pending", "running"}

(* ready_for_review: a row of the commit that is, or was, more than queued.*)
HasBuild(sha) ==
  \E i \in DOMAIN tests :
    /\ tests[i].sha = sha
    /\ tests[i].status \notin {"cancelled", "superseded"} \/ tests[i].started

(* get_penalty_until: the last Limit rows that ended all failed, the last  *)
(* of them not too long ago.                                               *)
Counted == {i \in DOMAIN tests : tests[i].status \in {"failed", "succeeded"}}
Recent(n) == {i \in Counted : Cardinality({j \in Counted : j > i}) < n}
BugPaused ==
  /\ Cardinality(Recent(Limit)) = Limit
  /\ \E i \in Recent(Limit) : tests[i].status = "failed" /\ i \notin over
Paused ==
  /\ Cardinality(Recent(Limit)) = Limit
  /\ \A i \in Recent(Limit) : tests[i].status = "failed"
  /\ ~(Recent(Limit) \subseteq over)

WantsTest(h) ==
  /\ At(h, "received") /\ Serves(h).kind \in PullKinds
  /\ ~Serves(h).draft /\ ~Filtered(h)

PullHasBuild(h) ==
  /\ WantsTest(h)
  /\ Serves(h).kind = "ready_for_review" /\ HasBuild(Serves(h).sha)
  /\ Answers(h, TRUE)
  /\ UNCHANGED <<github, built, republished, tests, over, overlap, late,
                 streak, excused, faults>>

Needed(h) ==
  Serves(h).kind = "ready_for_review" => ~HasBuild(Serves(h).sha)

PullIsPaused(h) ==
  /\ WantsTest(h) /\ Needed(h)
  /\ Paused
  /\ IF Serves(h).kind = "synchronize" THEN CancelsPending
     ELSE UNCHANGED tests
  /\ excused' = IF streak >= Limit THEN excused \cup {handler[h].event}
                ELSE excused
  /\ Answers(h, TRUE)
  /\ UNCHANGED <<github, built, republished, over, overlap, late, streak,
                 faults>>

PullIsNew(h) ==
  /\ WantsTest(h) /\ Needed(h)
  /\ ~Paused
  /\ Goto(h, "create")
  /\ UNCHANGED <<github, delivery, built, republished, tests, over, overlap,
                 late, streak, excused, faults>>

Superseded(row) ==
  IF row.status \in {"pending", "running"}
    THEN [row EXCEPT !.status = "superseded"] ELSE row

(* create_pipeline and supersede_conflicting_test_pipelines.               *)
CreatesTest(h) ==
  /\ At(h, "create") /\ Serves(h).kind \in PullKinds
  /\ tests' = Append([i \in DOMAIN tests |-> Superseded(tests[i])],
                     [sha |-> Serves(h).sha, status |-> "pending",
                      started |-> FALSE])
  /\ Answers(h, TRUE)
  /\ UNCHANGED <<github, built, republished, over, overlap, late, streak,
                 excused, faults>>

BugTestStarts(i) ==
  /\ tests[i].status = "pending"
  /\ tests' = [tests EXCEPT ![i].status = "running"]
  /\ UNCHANGED <<github, delivery, handler, built, republished, over, overlap,
                 late, streak, excused, faults>>

(* start_pending_builds, once the debounce is over.                        *)
TestStarts(i) ==
  /\ tests[i].status = "pending"
  /\ tests' = [tests EXCEPT ![i].status = "running", ![i].started = TRUE]
  /\ UNCHANGED <<github, delivery, handler, built, republished, over, overlap,
                 late, streak, excused, faults>>

TestEnds(i) ==
  /\ tests[i].status = "running"
  /\ \E s \in {"succeeded", "failed", "cancelled"} :
       /\ tests' = [tests EXCEPT ![i].status = s]
       /\ streak' = CASE s = "failed" -> streak + 1
                      [] s = "succeeded" -> 0
                      [] s = "cancelled" -> streak
  /\ UNCHANGED <<github, delivery, handler, built, republished, over, overlap,
                 late, excused, faults>>

PenaltyPasses ==
  /\ Paused
  /\ over' = over \cup Counted
  /\ UNCHANGED <<github, delivery, handler, built, republished, tests, overlap,
                 late, streak, excused, faults>>

-----------------------------------------------------------------------------
Users == Push \/ PullOpened \/ PullSynchronized \/ PullConverted

Handles(h) ==
  \/ PushIsBuilt(h) \/ PushIsNew(h) \/ Republishes(h) \/ CreatesBuild(h)
  \/ StartsBuild(h) \/ RowIsSuperseded(h)
  \/ PullIsDraft(h) \/ PullIsSkipped(h) \/ PullHasBuild(h) \/ PullIsPaused(h)
  \/ PullIsNew(h) \/ CreatesTest(h)

Fails == (\E e \in DOMAIN events : Refused(e))
           \/ (\E h \in Handlers :
                 AnswerTooLate(h) \/ HandlerDies(h) \/ StartRaises(h))
==============================================================================
