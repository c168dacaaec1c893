---------------------------- MODULE GithubTasks -----------------------------
(***************************************************************************)
(* The queue of GitHub requests.  A handler whose request GitHub does not   *)
(* answer, or answers with an error of its own, stores it as a task within  *)
(* its transaction.  Cron starts workers that lock a batch of due tasks,    *)
(* skipping those another worker has locked, send them one by one and write *)
(* all their outcomes in one commit.                                        *)
(***************************************************************************)
EXTENDS Naturals, FiniteSets

CONSTANTS
  Tasks,        \* the requests, and the tasks they become
  Workers,      \* runs of github-tasks-process that overlap
  Limit,        \* tasks in a batch
  MaxAttempts,  \* tries before a task is given up
  MaxFaults     \* bound: lost replies and batches that are rolled back

ASSUME TasksAssumption ==
  /\ Limit \in Nat \ {0}
  /\ MaxAttempts \in Nat \ {0}
  /\ MaxFaults \in Nat

VARIABLES
  handler,   \* where the handler of each request is
  row,       \* the github_task rows
  batch,     \* the batch of each worker
  tries,     \* how often workers have sent each request
  taken,     \* how often GitHub has taken it
  faults     \* lost replies and rollbacks so far

vars == <<handler, row, batch, tries, taken, faults>>

TaskStatus == {"none", "pending", "running", "completed", "failed"}

Age == {"young", "old", "deleted"}

Row == [status : TaskStatus, attempts : Nat, due : BOOLEAN, age : Age]

NoRow == [status |-> "none", attempts |-> 0, due |-> FALSE, age |-> "young"]

NewRow == [NoRow EXCEPT !.status = "pending"]

Batch == [locked : SUBSET Tasks, todo : SUBSET Tasks, row : [Tasks -> Row]]

(* The rows a worker has locked, those it has yet to send, and its copies. *)
Idle == [locked |-> {}, todo |-> {}, row |-> [t \in Tasks |-> NoRow]]

TaskTypeOK ==
  /\ handler \in [Tasks -> {"idle", "queued", "done"}]
  /\ row \in [Tasks -> Row]
  /\ \A t \in Tasks : row[t].status # "running"
  /\ batch \in [Workers -> Batch]
  /\ \A w \in Workers : batch[w].todo \subseteq batch[w].locked
  /\ tries \in [Tasks -> Nat]
  /\ taken \in [Tasks -> Nat]
  /\ faults \in 0 .. MaxFaults

Init ==
  /\ handler = [t \in Tasks |-> "idle"]
  /\ row = [t \in Tasks |-> NoRow]
  /\ batch = [w \in Workers |-> Idle]
  /\ tries = [t \in Tasks |-> 0]
  /\ taken = [t \in Tasks |-> 0]
  /\ faults = 0

Fault == faults < MaxFaults /\ faults' = faults + 1

-----------------------------------------------------------------------------
(* Handlers *)

(* The handler's own request is taken, refused for good, or not answered,  *)
(* although GitHub may have taken it, and becomes a task.                  *)
Ask(t) ==
  /\ handler[t] = "idle"
  /\ \/ /\ taken' = [taken EXCEPT ![t] = @ + 1]
        /\ handler' = [handler EXCEPT ![t] = "done"]
        /\ UNCHANGED faults
     \/ /\ \E h \in {"queued", "done"} : handler' = [handler EXCEPT ![t] = h]
        /\ UNCHANGED <<taken, faults>>
     \/ /\ taken' = [taken EXCEPT ![t] = @ + 1]
        /\ Fault
        /\ \E h \in {"idle", "queued"} : handler' = [handler EXCEPT ![t] = h]
  /\ UNCHANGED <<row, batch, tries>>

(* The handler's transaction commits the task, or is rolled back with it.  *)
HandlerEnds(t) ==
  /\ handler[t] = "queued"
  /\ handler' = [handler EXCEPT ![t] = "done"]
  /\ \/ row' = [row EXCEPT ![t] = NewRow]
     \/ UNCHANGED row
  /\ UNCHANGED <<batch, tries, taken, faults>>

-----------------------------------------------------------------------------
(* Workers *)

\* Bug: rows are read without a lock.
BugLocked(t) == FALSE

Locked(t) == \E w \in Workers : t \in batch[w].locked

Due == {t \in Tasks : row[t].status = "pending" /\ row[t].due /\ ~Locked(t)}

(* The worker locks its batch, which holds all due tasks or Limit of them. *)
WorkerBegins(w) ==
  /\ batch[w] = Idle
  /\ Due # {}
  /\ \E b \in SUBSET Due :
       /\ Cardinality(b) <= Limit
       /\ b = Due \/ Cardinality(b) = Limit
       /\ batch' = [batch EXCEPT ![w] = [locked |-> b, todo |-> b, row |-> row]]
  /\ UNCHANGED <<handler, row, tries, taken, faults>>

(* A task is marked RUNNING in the transaction. *)
Running(r) == [r EXCEPT !.status = "running", !.attempts = r.attempts + 1]

\* Bug: one try too many.
BugFailed(r) ==
  IF r.attempts > MaxAttempts
    THEN [r EXCEPT !.status = "failed"]
    ELSE [r EXCEPT !.status = "pending", !.due = FALSE]

\* Bug: one try too few.
BugFailedEarly(r) ==
  IF r.attempts + 1 >= MaxAttempts
    THEN [r EXCEPT !.status = "failed"]
    ELSE [r EXCEPT !.status = "pending", !.due = FALSE]

\* Bug: a task that is to be tried again keeps its status.
BugFailedKept(r) ==
  IF r.attempts >= MaxAttempts
    THEN [r EXCEPT !.status = "failed"]
    ELSE [r EXCEPT !.due = FALSE]

(* _handle_task_failure *)
Failed(r) ==
  IF r.attempts >= MaxAttempts
    THEN [r EXCEPT !.status = "failed"]
    ELSE [r EXCEPT !.status = "pending", !.due = FALSE]

(* A task of the batch is sent, once: it is taken, refused, or not         *)
(* answered although GitHub has taken it.                                  *)
WorkerSends(w, t) ==
  LET r == Running(batch[w].row[t])
      Becomes(s) ==
        batch' = [batch EXCEPT ![w] = [locked |-> batch[w].locked,
                                       todo |-> batch[w].todo \ {t},
                                       row |-> [batch[w].row EXCEPT ![t] = s]]]
  IN
  /\ t \in batch[w].todo
  /\ tries' = [tries EXCEPT ![t] = @ + 1]
  /\ \/ /\ taken' = [taken EXCEPT ![t] = @ + 1]
        /\ Becomes([r EXCEPT !.status = "completed"])
        /\ UNCHANGED faults
     \/ /\ Becomes(Failed(r))
        /\ UNCHANGED <<taken, faults>>
     \/ /\ taken' = [taken EXCEPT ![t] = @ + 1]
        /\ Fault
        /\ Becomes(Failed(r))
  /\ UNCHANGED <<handler, row>>

(* All outcomes are committed. *)
WorkerCommits(w) ==
  /\ batch[w].locked # {}
  /\ batch[w].todo = {}
  /\ row' = [t \in Tasks |-> IF t \in batch[w].locked THEN batch[w].row[t] ELSE row[t]]
  /\ batch' = [batch EXCEPT ![w] = Idle]
  /\ UNCHANGED <<handler, tries, taken, faults>>

(* The worker dies, or its transaction fails, with whatever it has sent.   *)
WorkerDies(w) ==
  /\ batch[w] # Idle
  /\ Fault
  /\ batch' = [batch EXCEPT ![w] = Idle]
  /\ UNCHANGED <<handler, row, tries, taken>>

-----------------------------------------------------------------------------
(* Time passes: a task is due, and a settled one grows old. *)

BecomesDue(t) ==
  /\ row[t].status = "pending"
  /\ ~row[t].due
  /\ row' = [row EXCEPT ![t].due = TRUE]
  /\ UNCHANGED <<handler, batch, tries, taken, faults>>

Settled(t) == row[t].status \in {"completed", "failed"}

GrowsOld(t) ==
  /\ Settled(t)
  /\ row[t].age = "young"
  /\ row' = [row EXCEPT ![t].age = "old"]
  /\ UNCHANGED <<handler, batch, tries, taken, faults>>

(* cleanup_old_tasks *)
Cleanup ==
  /\ \E t \in Tasks : Settled(t) /\ row[t].age = "old"
  /\ row' = [t \in Tasks |->
               IF Settled(t) /\ row[t].age = "old" THEN [row[t] EXCEPT !.age = "deleted"]
               ELSE row[t]]
  /\ UNCHANGED <<handler, batch, tries, taken, faults>>

-----------------------------------------------------------------------------

WorkerSteps(w) ==
  \/ WorkerBegins(w)
  \/ \E t \in Tasks : WorkerSends(w, t)
  \/ WorkerCommits(w)

Next ==
  \/ \E t \in Tasks : Ask(t) \/ HandlerEnds(t) \/ BecomesDue(t) \/ GrowsOld(t)
  \/ \E w \in Workers : WorkerSteps(w) \/ WorkerDies(w)
  \/ Cleanup

Spec == Init /\ [][Next]_vars

(* Cron starts a worker every time, a worker goes on, and time passes.     *)
Fairness ==
  /\ \A w \in Workers : WF_vars(WorkerSteps(w))
  /\ \A t \in Tasks : WF_vars(BecomesDue(t))

FairSpec == Spec /\ Fairness

-----------------------------------------------------------------------------
(* Properties *)

(* GitHub takes a request twice only when a reply was lost or a batch was   *)
(* rolled back after it: overlapping workers do not send the same task.     *)
RepeatedByFaults == \A t \in Tasks : taken[t] <= 1 + faults

(* A task is sent max_attempts times at most, but for those a rollback has  *)
(* made it forget.                                                          *)
AttemptsBounded == \A t \in Tasks : tries[t] <= MaxAttempts + faults

(* A queued task is settled in the end, whatever dies in between.           *)
TasksSettle == \A t \in Tasks : row[t].status = "pending" ~> Settled(t)

(* The queue keeps what TaskDelivery promises of the tasks it settles.      *)
Promised ==
  INSTANCE TaskDelivery WITH
    outcome <- [t \in Tasks |-> IF Settled(t) THEN row[t].status ELSE "open"]

Delivery == Promised!Spec

-----------------------------------------------------------------------------
(* The inductive invariant. *)

(* What a version of a row says of a task sent n times and taken k times:  *)
(* every rollback and lost reply accounts for one try it does not know of. *)
Fits(r, n, k, f) ==
  /\ r.attempts <= n /\ n <= r.attempts + f
  /\ r.attempts <= MaxAttempts
  /\ k <= 1 + f
  /\ r.status = "pending" => r.attempts < MaxAttempts /\ k <= f
  /\ r.status = "completed" => k > 0
  /\ r.status = "failed" => r.attempts = MaxAttempts
  /\ r.status # "running"

RowInv == \A t \in Tasks : ~Locked(t) => Fits(row[t], tries[t], taken[t], faults)

(* A task is locked by one worker, whose copy is the row until it is sent, *)
(* and one try ahead of it then.                                           *)
BatchInv ==
  \A w \in Workers : \A t \in batch[w].locked :
    /\ \A v \in Workers : t \in batch[v].locked => v = w
    /\ row[t].status = "pending"
    /\ row[t].due
    /\ row[t].attempts < MaxAttempts
    /\ Fits(batch[w].row[t], tries[t], taken[t], faults)
    /\ t \in batch[w].todo => batch[w].row[t] = row[t]
    /\ t \notin batch[w].todo =>
         batch[w].row[t].attempts = row[t].attempts + 1 /\ batch[w].row[t].status # "none"

(* A request that its handler has not settled has no row. *)
HandlerInv ==
  \A t \in Tasks : handler[t] # "done" =>
    row[t] = NoRow /\ tries[t] = 0 /\ taken[t] <= faults

QueueInv == TaskTypeOK /\ RowInv /\ BatchInv /\ HandlerInv

=============================================================================
