------------------------ MODULE GithubTasks_proofs -------------------------
(***************************************************************************)
(* Theorems about GithubTasks, for any tasks, workers and bounds: its types *)
(* and safety properties, and that it implements TaskDelivery.              *)
(***************************************************************************)
EXTENDS GithubTasks, TLAPS

(* What becomes of a row stays a row. *)
LEMMA RowTypes ==
  /\ NoRow \in Row /\ NewRow \in Row
  /\ \A r \in Row : Running(r) \in Row /\ Failed(r) \in Row
  /\ \A r \in Row : [Running(r) EXCEPT !.status = "completed"] \in Row
<1>1. NoRow \in Row /\ NewRow \in Row
  BY DEF NoRow, NewRow, Row, TaskStatus, Age
<1>2. ASSUME NEW r \in Row
      PROVE  Running(r) \in Row /\ [Running(r) EXCEPT !.status = "completed"] \in Row
  <2>1. Running(r) \in Row
    <3>1. r.attempts + 1 \in Nat /\ "running" \in TaskStatus
      BY DEF Row, TaskStatus
    <3> DEFINE n == r.attempts + 1
    <3> HIDE DEF n
    <3>2. [r EXCEPT !.status = "running", !.attempts = n] \in Row
      BY <3>1 DEF Row, n
    <3> QED BY <3>2 DEF Running, n
  <2> QED BY <2>1 DEF Row, TaskStatus
<1>3. ASSUME NEW r \in Row
      PROVE  Failed(r) \in Row
  BY DEF Failed, Row, TaskStatus
<1> QED BY <1>1, <1>2, <1>3

(* A row fits as well after further faults. *)
LEMMA FitsLater ==
  ASSUME NEW r \in Row, NEW n \in Nat, NEW k \in Nat, NEW f \in Nat, NEW g \in Nat,
         Fits(r, n, k, f), f <= g
  PROVE  Fits(r, n, k, g)
BY TasksAssumption DEF Fits, Row

(* The copy of a worker fits once the task is sent. *)
LEMMA FitsSent ==
  ASSUME NEW r \in Row, NEW n \in Nat, NEW k \in Nat, NEW f \in Nat,
         Fits(r, n, k, f), r.status = "pending",
         NEW s \in Row, s.attempts = r.attempts + 1
  PROVE  /\ s = [Running(r) EXCEPT !.status = "completed"] => Fits(s, n + 1, k + 1, f)
         /\ s = Failed(Running(r)) =>
              Fits(s, n + 1, k, f) /\ Fits(s, n + 1, k + 1, f + 1)
<1> USE TasksAssumption
<1>1. Running(r) \in Row /\ Running(r).attempts = r.attempts + 1
  BY RowTypes DEF Running, Row
<1>2. s = [Running(r) EXCEPT !.status = "completed"] => s.status = "completed"
  BY <1>1 DEF Row
<1>3. s = Failed(Running(r)) =>
        s.status = IF r.attempts + 1 >= MaxAttempts THEN "failed" ELSE "pending"
  BY <1>1 DEF Failed, Row
<1>4. s.attempts \in Nat /\ r.attempts \in Nat
  BY DEF Row
<1> QED BY <1>2, <1>3, <1>4 DEF Fits

(* What becomes of a row that is sent. *)
LEMMA SentAttempts ==
  ASSUME NEW r \in Row
  PROVE  /\ Failed(Running(r)).attempts = r.attempts + 1
         /\ Failed(Running(r)).status # "none"
         /\ [Running(r) EXCEPT !.status = "completed"].attempts = r.attempts + 1
         /\ [Running(r) EXCEPT !.status = "completed"].status # "none"
<1>1. Running(r) \in Row /\ Running(r).attempts = r.attempts + 1
  BY RowTypes DEF Running, Row
<1>2. Failed(Running(r)).attempts = Running(r).attempts /\ Failed(Running(r)).status # "none"
  BY <1>1 DEF Failed, Row
<1>3. /\ [Running(r) EXCEPT !.status = "completed"].attempts = Running(r).attempts
      /\ [Running(r) EXCEPT !.status = "completed"].status # "none"
  BY <1>1 DEF Row
<1> QED BY <1>1, <1>2, <1>3

(* The row fits when the worker that was one try ahead of it dies. *)
LEMMA FitsForgotten ==
  ASSUME NEW r \in Row, NEW c \in Row, NEW n \in Nat, NEW k \in Nat, NEW f \in Nat,
         Fits(c, n, k, f), c.attempts = r.attempts + 1,
         r.status = "pending", r.attempts < MaxAttempts
  PROVE  Fits(r, n, k, f + 1)
BY TasksAssumption DEF Fits, Row

LEMMA QueueInit ==
  ASSUME Init
  PROVE  QueueInv
<1> USE TasksAssumption
<1>1. Idle \in Batch /\ Idle.locked = {}
  BY RowTypes DEF Idle, Batch
<1>2. TaskTypeOK
  <2>1. batch \in [Workers -> Batch] /\ \A w \in Workers : batch[w].todo \subseteq batch[w].locked
    BY <1>1 DEF Init, Idle
  <2>2. row \in [Tasks -> Row] /\ \A t \in Tasks : row[t].status # "running"
    BY RowTypes DEF Init, NoRow
  <2> QED BY <2>1, <2>2 DEF Init, TaskTypeOK
<1>3. \A w \in Workers : batch[w].locked = {}
  BY <1>1 DEF Init
<1>4. \A t \in Tasks : Fits(row[t], tries[t], taken[t], faults)
  BY DEF Init, Fits, NoRow
<1>5. HandlerInv
  BY DEF Init, HandlerInv
<1> QED BY <1>2, <1>3, <1>4, <1>5 DEF QueueInv, BatchInv, RowInv

-----------------------------------------------------------------------------
(* Types *)

LEMMA TypeStep ==
  ASSUME TaskTypeOK, BatchInv, [Next]_vars
  PROVE  TaskTypeOK'
<1> USE TasksAssumption DEF TaskTypeOK
<1>1. ASSUME NEW t \in Tasks, Ask(t)
      PROVE  TaskTypeOK'
  <2>1. handler' \in [Tasks -> {"idle", "queued", "done"}]
    BY <1>1 DEF Ask
  <2>2. taken' \in [Tasks -> Nat]
    BY <1>1 DEF Ask
  <2>3. faults' \in 0 .. MaxFaults
    BY <1>1 DEF Ask, Fault
  <2> QED BY <1>1, <2>1, <2>2, <2>3 DEF Ask
<1>2. ASSUME NEW t \in Tasks, HandlerEnds(t)
      PROVE  TaskTypeOK'
  <2>1. row' \in [Tasks -> Row] /\ \A u \in Tasks : row'[u].status # "running"
    <3>1. NewRow \in Row /\ NewRow.status = "pending"
      BY RowTypes DEF NewRow, NoRow
    <3> QED BY <1>2, <3>1 DEF HandlerEnds
  <2> QED BY <1>2, <2>1 DEF HandlerEnds
<1>3. ASSUME NEW t \in Tasks, BecomesDue(t) \/ GrowsOld(t)
      PROVE  TaskTypeOK'
  <2>1. \/ row' = [row EXCEPT ![t] = [row[t] EXCEPT !.due = TRUE]]
        \/ row' = [row EXCEPT ![t] = [row[t] EXCEPT !.age = "old"]]
    BY <1>3 DEF BecomesDue, GrowsOld
  <2>2. /\ [row[t] EXCEPT !.due = TRUE] \in Row
        /\ [row[t] EXCEPT !.age = "old"] \in Row
        /\ [row[t] EXCEPT !.due = TRUE].status = row[t].status
        /\ [row[t] EXCEPT !.age = "old"].status = row[t].status
    BY DEF Row, Age
  <2>3. row' \in [Tasks -> Row] /\ \A u \in Tasks : row'[u].status # "running"
    BY <2>1, <2>2
  <2> QED BY <1>3, <2>3 DEF BecomesDue, GrowsOld
<1>4. ASSUME NEW w \in Workers, WorkerBegins(w)
      PROVE  TaskTypeOK'
  <2>1. PICK b \in SUBSET Due : batch' = [batch EXCEPT ![w] = [locked |-> b, todo |-> b, row |-> row]]
    BY <1>4 DEF WorkerBegins
  <2>2. [locked |-> b, todo |-> b, row |-> row] \in Batch
    BY <2>1 DEF Batch, Due
  <2>3. batch' \in [Workers -> Batch] /\ \A v \in Workers : batch'[v].todo \subseteq batch'[v].locked
    BY <2>1, <2>2
  <2> QED BY <1>4, <2>3 DEF WorkerBegins
<1>5. ASSUME NEW w \in Workers, NEW t \in Tasks, WorkerSends(w, t)
      PROVE  TaskTypeOK'
  <2>1. batch[w] \in Batch /\ batch[w].row[t] \in Row
    BY DEF Batch
  <2>2. PICK s \in Row :
          batch' = [batch EXCEPT ![w] = [locked |-> batch[w].locked,
                                         todo |-> batch[w].todo \ {t},
                                         row |-> [batch[w].row EXCEPT ![t] = s]]]
    BY <1>5, <2>1, RowTypes DEF WorkerSends
  <2>3. [locked |-> batch[w].locked, todo |-> batch[w].todo \ {t},
         row |-> [batch[w].row EXCEPT ![t] = s]] \in Batch
    BY <2>1 DEF Batch
  <2>4. batch' \in [Workers -> Batch] /\ \A v \in Workers : batch'[v].todo \subseteq batch'[v].locked
    BY <2>2, <2>3
  <2>5. tries' \in [Tasks -> Nat] /\ taken' \in [Tasks -> Nat]
    BY <1>5 DEF WorkerSends
  <2>6. faults' \in 0 .. MaxFaults
    BY <1>5 DEF WorkerSends, Fault
  <2> QED BY <1>5, <2>4, <2>5, <2>6 DEF WorkerSends
<1>6. Idle \in Batch /\ Idle.todo \subseteq Idle.locked
  BY RowTypes DEF Idle, Batch
<1>7. ASSUME NEW w \in Workers, WorkerDies(w)
      PROVE  TaskTypeOK'
  <2>1. batch' \in [Workers -> Batch] /\ \A v \in Workers : batch'[v].todo \subseteq batch'[v].locked
    BY <1>6, <1>7 DEF WorkerDies
  <2> QED BY <1>7, <2>1 DEF WorkerDies, Fault
<1>8. CASE Cleanup
  <2>1. ASSUME NEW u \in Tasks
        PROVE  row'[u] \in Row /\ row'[u].status # "running"
    <3>1. row[u] \in Row
      OBVIOUS
    <3>2. [row[u] EXCEPT !.age = "deleted"] \in Row
          /\ [row[u] EXCEPT !.age = "deleted"].status = row[u].status
      BY <3>1 DEF Row, Age
    <3> QED BY <1>8, <3>1, <3>2 DEF Cleanup
  <2>2. row' \in [Tasks -> Row]
    BY <1>8, <2>1 DEF Cleanup
  <2> QED BY <1>8, <2>1, <2>2 DEF Cleanup
<1>9. CASE UNCHANGED vars
  BY <1>9 DEF vars
<1>10. ASSUME NEW w \in Workers, WorkerCommits(w)
       PROVE  TaskTypeOK'
  <2>1. \A u \in Tasks : batch[w].row[u] \in Row
    BY DEF Batch
  <2>2. row' \in [Tasks -> Row]
    BY <1>10, <2>1 DEF WorkerCommits
  <2>3. \A u \in Tasks : row'[u].status # "running"
    BY <1>10 DEF WorkerCommits, BatchInv, Fits
  <2>4. batch' \in [Workers -> Batch] /\ \A v \in Workers : batch'[v].todo \subseteq batch'[v].locked
    BY <1>6, <1>10 DEF WorkerCommits
  <2> QED BY <1>10, <2>2, <2>3, <2>4 DEF WorkerCommits
<1> HIDE DEF TaskTypeOK
<1> QED
  BY <1>1, <1>2, <1>3, <1>4, <1>5, <1>7, <1>8, <1>9, <1>10 DEF Next, WorkerSteps

-----------------------------------------------------------------------------
(* The invariant *)

LEMMA Typed ==
  ASSUME TaskTypeOK
  PROVE  /\ \A t \in Tasks : row[t] \in Row /\ tries[t] \in Nat /\ taken[t] \in Nat
         /\ faults \in Nat
         /\ \A w \in Workers : \A t \in Tasks : batch[w].row[t] \in Row
         /\ \A w \in Workers : batch[w].locked \subseteq Tasks
BY TasksAssumption DEF TaskTypeOK, Batch

(* A row that is locked is no NoRow, and what is not pending is not locked. *)
LEMMA LockedRow ==
  ASSUME QueueInv, NEW t \in Tasks, Locked(t)
  PROVE  row[t].status = "pending" /\ row[t].due /\ row[t] # NoRow /\ handler[t] = "done"
BY DEF QueueInv, BatchInv, HandlerInv, Locked, NoRow

(* Steps of a request's handler. *)
LEMMA AskStep ==
  ASSUME QueueInv, NEW t \in Tasks, Ask(t)
  PROVE  RowInv' /\ BatchInv' /\ HandlerInv'
<1> USE TasksAssumption
<1>1. TaskTypeOK /\ TaskTypeOK'
  BY TypeStep DEF QueueInv, Next
<1>2. /\ row[t] = NoRow /\ tries[t] = 0 /\ taken[t] <= faults /\ ~Locked(t)
      /\ handler[t] = "idle"
  BY LockedRow DEF QueueInv, Ask, HandlerInv
<1>3. row' = row /\ batch' = batch /\ tries' = tries /\ faults' \in Nat /\ faults <= faults'
  BY <1>1, Typed DEF Ask, Fault, TaskTypeOK
<1>4. \A u \in Tasks \ {t} : taken'[u] = taken[u] /\ handler'[u] = handler[u]
  BY <1>1 DEF Ask, TaskTypeOK
<1>5. \/ taken'[t] = taken[t] + 1 /\ handler'[t] = "done" /\ faults' = faults
      \/ taken'[t] = taken[t] /\ faults' = faults
      \/ taken'[t] = taken[t] + 1 /\ faults' = faults + 1
  BY <1>1 DEF Ask, Fault, TaskTypeOK
<1>6. HandlerInv'
  <2>1. ASSUME NEW u \in Tasks, handler'[u] # "done"
        PROVE  row'[u] = NoRow /\ tries'[u] = 0 /\ taken'[u] <= faults'
    <3>1. CASE u = t
      BY <1>1, <1>2, <1>3, <1>5, <2>1, <3>1, Typed
    <3>2. CASE u # t
      BY <1>1, <1>3, <1>4, <2>1, <3>2, Typed DEF QueueInv, HandlerInv
    <3> QED BY <3>1, <3>2
  <2> QED BY <2>1 DEF HandlerInv
<1>7. RowInv'
  <2>1. ASSUME NEW u \in Tasks, ~Locked(u)
        PROVE  Fits(row[u], tries[u], taken'[u], faults')
    <3>1. CASE u = t
      <4>1. taken'[t] <= 1 + faults'
        BY <1>1, <1>2, <1>3, <1>5, Typed
      <4> QED BY <1>2, <1>3, <3>1, <4>1 DEF Fits, NoRow
    <3>2. CASE u # t
      BY <1>1, <1>3, <1>4, <2>1, <3>2, Typed, FitsLater DEF QueueInv, RowInv
    <3> QED BY <3>1, <3>2
  <2> QED BY <1>3, <2>1 DEF RowInv, Locked
<1>8. BatchInv'
  <2>1. ASSUME NEW w \in Workers, NEW u \in batch[w].locked
        PROVE  Fits(batch[w].row[u], tries[u], taken'[u], faults')
    <3>1. u \in Tasks /\ u # t
      BY <1>1, <1>2, Typed DEF Locked
    <3>2. Fits(batch[w].row[u], tries[u], taken[u], faults)
      BY DEF QueueInv, BatchInv
    <3> QED BY <1>1, <1>3, <1>4, <3>1, <3>2, Typed, FitsLater
  <2> QED BY <1>3, <2>1 DEF QueueInv, BatchInv
<1> QED BY <1>6, <1>7, <1>8

(* Steps that change rows no worker has locked, and keep them fitting. *)
LEMMA RowsStep ==
  ASSUME QueueInv, NEW R \in SUBSET Tasks,
         UNCHANGED <<batch, tries, taken, faults>>,
         \A t \in Tasks \ R : row'[t] = row[t] /\ handler'[t] = handler[t],
         \A t \in R : ~Locked(t) /\ handler'[t] = "done",
         \A t \in R : Fits(row'[t], tries[t], taken[t], faults)
  PROVE  RowInv' /\ BatchInv' /\ HandlerInv'
<1>1. \A w \in Workers : \A t \in batch[w].locked : t \in Tasks \ R
  BY Typed DEF QueueInv, Locked
<1>2. RowInv'
  BY DEF QueueInv, RowInv, Locked
<1>3. BatchInv'
  BY <1>1 DEF QueueInv, BatchInv
<1>4. HandlerInv'
  BY DEF QueueInv, HandlerInv
<1> QED BY <1>2, <1>3, <1>4

LEMMA HandlerEndsStep ==
  ASSUME QueueInv, NEW t \in Tasks, HandlerEnds(t)
  PROVE  RowInv' /\ BatchInv' /\ HandlerInv'
<1> USE TasksAssumption
<1>1. TaskTypeOK
  BY DEF QueueInv
<1>2. row[t] = NoRow /\ tries[t] = 0 /\ taken[t] <= faults /\ ~Locked(t)
  BY LockedRow DEF QueueInv, HandlerEnds, HandlerInv
<1>3. Fits(NoRow, tries[t], taken[t], faults) /\ Fits(NewRow, tries[t], taken[t], faults)
  BY <1>1, <1>2, Typed DEF Fits, NoRow, NewRow
<1>4. row'[t] \in {NoRow, NewRow}
  BY <1>1, <1>2 DEF HandlerEnds, TaskTypeOK
<1>5. handler'[t] = "done" /\ UNCHANGED <<batch, tries, taken, faults>>
  BY <1>1 DEF HandlerEnds, TaskTypeOK
<1>6. \A u \in Tasks \ {t} : row'[u] = row[u] /\ handler'[u] = handler[u]
  BY <1>1 DEF HandlerEnds, TaskTypeOK
<1> QED BY <1>2, <1>3, <1>4, <1>5, <1>6, RowsStep, {t} \in SUBSET Tasks

(* Time: the rows that change are not locked, and keep what Fits reads. *)
LEMMA TimeStep ==
  ASSUME QueueInv, (\E t \in Tasks : BecomesDue(t) \/ GrowsOld(t)) \/ Cleanup
  PROVE  RowInv' /\ BatchInv' /\ HandlerInv'
<1> DEFINE R == {t \in Tasks : row'[t] # row[t]}
<1>1. TaskTypeOK
  BY DEF QueueInv
<1>2. UNCHANGED <<handler, batch, tries, taken, faults>>
  BY DEF BecomesDue, GrowsOld, Cleanup
<1>3. ASSUME NEW u \in R
      PROVE  /\ row[u].status # "none"
             /\ row[u].status # "pending" \/ ~row[u].due
             /\ row'[u].status = row[u].status
             /\ row'[u].attempts = row[u].attempts
  <2>1. row[u] \in Row
    BY <1>1, Typed
  <2>2. ASSUME NEW t \in Tasks, BecomesDue(t)
        PROVE  u = t /\ row'[u] = [row[u] EXCEPT !.due = TRUE]
    BY <1>1, <2>2 DEF BecomesDue, TaskTypeOK
  <2>3. ASSUME NEW t \in Tasks, GrowsOld(t)
        PROVE  u = t /\ row'[u] = [row[u] EXCEPT !.age = "old"]
    BY <1>1, <2>3 DEF GrowsOld, TaskTypeOK
  <2>4. CASE \E t \in Tasks : BecomesDue(t)
    BY <2>1, <2>2, <2>4 DEF Row, BecomesDue
  <2>5. CASE \E t \in Tasks : GrowsOld(t)
    BY <2>1, <2>3, <2>5 DEF Row, GrowsOld, Settled
  <2>6. CASE Cleanup
    BY <2>1, <2>6 DEF Row, Cleanup, Settled
  <2> QED BY <2>4, <2>5, <2>6
<1>4. \A t \in R : ~Locked(t) /\ handler'[t] = "done"
  BY <1>2, <1>3, LockedRow DEF QueueInv, HandlerInv, NoRow
<1>5. \A t \in R : Fits(row'[t], tries[t], taken[t], faults)
  BY <1>3, <1>4 DEF QueueInv, RowInv, Fits
<1>6. \A t \in Tasks \ R : row'[t] = row[t] /\ handler'[t] = handler[t]
  BY <1>2
<1> HIDE DEF R
<1>7. R \in SUBSET Tasks
  BY DEF R
<1> QED BY <1>2, <1>4, <1>5, <1>6, <1>7, RowsStep

(* Steps of a worker. *)
LEMMA BeginsStep ==
  ASSUME QueueInv, NEW w \in Workers, WorkerBegins(w)
  PROVE  RowInv' /\ BatchInv' /\ HandlerInv'
<1>1. TaskTypeOK
  BY DEF QueueInv
<1>2. UNCHANGED <<handler, row, tries, taken, faults>>
  BY DEF WorkerBegins
<1>3. PICK b \in SUBSET Due : batch' = [batch EXCEPT ![w] = [locked |-> b, todo |-> b, row |-> row]]
  BY DEF WorkerBegins
<1>4. batch'[w] = [locked |-> b, todo |-> b, row |-> row] /\ \A v \in Workers \ {w} : batch'[v] = batch[v]
  BY <1>1, <1>3 DEF TaskTypeOK
<1>5. \A t \in b : t \in Tasks /\ ~Locked(t) /\ row[t].status = "pending" /\ row[t].due
  BY DEF Due
<1>6. batch[w].locked = {}
  BY DEF WorkerBegins, Idle
<1>7. RowInv'
  BY <1>2, <1>4, <1>6 DEF QueueInv, RowInv, Locked
<1>8. BatchInv'
  <2>1. ASSUME NEW t \in b
        PROVE  /\ row[t].status = "pending" /\ row[t].due /\ row[t].attempts < MaxAttempts
               /\ Fits(row[t], tries[t], taken[t], faults)
    BY <1>5 DEF QueueInv, RowInv, Fits
  <2>2. ASSUME NEW v \in Workers, NEW t \in batch'[v].locked, NEW x \in Workers, t \in batch'[x].locked
        PROVE  x = v
    BY <1>4, <1>5, <2>2 DEF QueueInv, BatchInv, Locked
  <2>3. ASSUME NEW v \in Workers, NEW t \in batch'[v].locked
        PROVE  /\ row[t].status = "pending"
               /\ row[t].due
               /\ row[t].attempts < MaxAttempts
               /\ Fits(batch'[v].row[t], tries[t], taken[t], faults)
               /\ t \in batch'[v].todo => batch'[v].row[t] = row[t]
               /\ t \notin batch'[v].todo =>
                    /\ batch'[v].row[t].attempts = row[t].attempts + 1
                    /\ batch'[v].row[t].status # "none"
    <3>1. CASE v = w
      BY <1>4, <2>1, <3>1
    <3>2. CASE v # w
      BY <1>4, <3>2 DEF QueueInv, BatchInv
    <3> QED BY <3>1, <3>2
  <2> QED BY <1>2, <2>2, <2>3 DEF BatchInv
<1>9. HandlerInv'
  BY <1>2 DEF QueueInv, HandlerInv
<1> QED BY <1>7, <1>8, <1>9

LEMMA SendsStep ==
  ASSUME QueueInv, NEW w \in Workers, NEW t \in Tasks, WorkerSends(w, t)
  PROVE  RowInv' /\ BatchInv' /\ HandlerInv'
<1> DEFINE r == batch[w].row[t]
<1>1. TaskTypeOK /\ TaskTypeOK'
  BY TypeStep DEF QueueInv, Next, WorkerSteps
<1>2. t \in batch[w].todo /\ t \in batch[w].locked /\ r \in Row
  BY <1>1, Typed DEF WorkerSends, TaskTypeOK
<1>3. r = row[t] /\ r.status = "pending" /\ Fits(r, tries[t], taken[t], faults)
  BY <1>2 DEF QueueInv, BatchInv
<1>4. PICK s \in Row :
        /\ batch' = [batch EXCEPT ![w] = [locked |-> batch[w].locked,
                                          todo |-> batch[w].todo \ {t},
                                          row |-> [batch[w].row EXCEPT ![t] = s]]]
        /\ \/ /\ s = [Running(r) EXCEPT !.status = "completed"]
              /\ taken' = [taken EXCEPT ![t] = @ + 1] /\ UNCHANGED faults
           \/ s = Failed(Running(r)) /\ UNCHANGED <<taken, faults>>
           \/ /\ s = Failed(Running(r))
              /\ taken' = [taken EXCEPT ![t] = @ + 1] /\ faults' = faults + 1
  BY <1>2, RowTypes DEF WorkerSends, Fault
<1>5. UNCHANGED <<handler, row>> /\ tries' = [tries EXCEPT ![t] = @ + 1]
  BY DEF WorkerSends
<1>6. /\ faults' \in Nat /\ faults <= faults' /\ tries'[t] = tries[t] + 1
      /\ \A u \in Tasks \ {t} : tries'[u] = tries[u] /\ taken'[u] = taken[u]
  BY <1>1, <1>4, <1>5, Typed DEF TaskTypeOK
<1>7. s.attempts = r.attempts + 1 /\ s.status # "none"
  BY <1>2, <1>4, SentAttempts
<1>8. Fits(s, tries'[t], taken'[t], faults')
  <2>1. \/ s = [Running(r) EXCEPT !.status = "completed"] /\ taken'[t] = taken[t] + 1 /\ faults' = faults
        \/ s = Failed(Running(r)) /\ taken'[t] = taken[t] /\ faults' = faults
        \/ s = Failed(Running(r)) /\ taken'[t] = taken[t] + 1 /\ faults' = faults + 1
    BY <1>1, <1>4 DEF TaskTypeOK
  <2> HIDE DEF r
  <2>2. /\ s = [Running(r) EXCEPT !.status = "completed"] =>
             Fits(s, tries[t] + 1, taken[t] + 1, faults)
        /\ s = Failed(Running(r)) =>
             /\ Fits(s, tries[t] + 1, taken[t], faults)
             /\ Fits(s, tries[t] + 1, taken[t] + 1, faults + 1)
    <3>1. tries[t] \in Nat /\ taken[t] \in Nat /\ faults \in Nat
      BY <1>1, Typed
    <3> QED BY <1>2, <1>3, <1>7, <3>1, FitsSent
  <2> QED BY <1>6, <2>1, <2>2
<1> HIDE DEF r
<1>9. /\ batch'[w] = [locked |-> batch[w].locked, todo |-> batch[w].todo \ {t},
                      row |-> [batch[w].row EXCEPT ![t] = s]]
      /\ \A v \in Workers \ {w} : batch'[v] = batch[v]
      /\ \A v \in Workers : batch'[v].locked = batch[v].locked
  BY <1>1, <1>4 DEF TaskTypeOK
<1>10. batch'[w].row[t] = s /\ \A u \in Tasks \ {t} : batch'[w].row[u] = batch[w].row[u]
  BY <1>1, <1>9 DEF TaskTypeOK, Batch
<1>11. RowInv'
  <2>1. ASSUME NEW u \in Tasks, ~Locked(u)
        PROVE  Fits(row[u], tries'[u], taken'[u], faults')
    <3>1. u # t
      BY <1>2, <2>1 DEF Locked
    <3>2. Fits(row[u], tries[u], taken[u], faults)
      BY <2>1 DEF QueueInv, RowInv
    <3>3. row[u] \in Row /\ tries[u] \in Nat /\ taken[u] \in Nat /\ faults \in Nat
      BY <1>1, Typed
    <3> QED BY <1>6, <3>1, <3>2, <3>3, FitsLater
  <2> QED BY <1>5, <1>9, <2>1 DEF RowInv, Locked
<1>12. BatchInv'
  <2>1. ASSUME NEW v \in Workers, NEW u \in batch[v].locked
        PROVE  /\ Fits(batch'[v].row[u], tries'[u], taken'[u], faults')
               /\ u \in batch'[v].todo => batch'[v].row[u] = row[u]
               /\ u \notin batch'[v].todo =>
                    /\ batch'[v].row[u].attempts = row[u].attempts + 1
                    /\ batch'[v].row[u].status # "none"
    <3>1. CASE u = t
      <4>1. v = w
        BY <1>2, <3>1 DEF QueueInv, BatchInv
      <4>2. t \notin batch'[w].todo /\ batch'[w].row[t] = s
        BY <1>9, <1>10
      <4> QED BY <1>3, <1>7, <1>8, <3>1, <4>1, <4>2
    <3>2. CASE u # t
      <4>1. u \in Tasks /\ batch[v].row[u] \in Row /\ tries[u] \in Nat /\ taken[u] \in Nat
            /\ faults \in Nat
        BY <1>1, Typed
      <4>2. batch'[v].row[u] = batch[v].row[u] /\ (u \in batch'[v].todo <=> u \in batch[v].todo)
        <5>1. CASE v = w
          <6>1. batch'[w].row[u] = batch[w].row[u] /\ batch'[w].todo = batch[w].todo \ {t}
            BY <1>9, <1>10, <3>2, <4>1
          <6> QED BY <3>2, <5>1, <6>1
        <5>2. CASE v # w
          BY <1>9, <5>2
        <5> QED BY <5>1, <5>2
      <4>3. Fits(batch[v].row[u], tries[u], taken[u], faults)
        BY DEF QueueInv, BatchInv
      <4>4. Fits(batch[v].row[u], tries'[u], taken'[u], faults')
        BY <1>6, <3>2, <4>1, <4>3, FitsLater
      <4> QED BY <4>2, <4>4 DEF QueueInv, BatchInv
    <3> QED BY <3>1, <3>2
  <2> QED BY <1>5, <1>9, <2>1 DEF QueueInv, BatchInv
<1>13. HandlerInv'
  <2>1. handler[t] = "done"
    BY <1>2, LockedRow DEF Locked
  <2>2. ASSUME NEW u \in Tasks, handler[u] # "done"
        PROVE  row[u] = NoRow /\ tries'[u] = 0 /\ taken'[u] <= faults'
    BY <1>1, <1>6, <2>1, <2>2, Typed DEF QueueInv, HandlerInv
  <2> QED BY <1>5, <2>2 DEF HandlerInv
<1> QED BY <1>11, <1>12, <1>13

LEMMA CommitsStep ==
  ASSUME QueueInv, NEW w \in Workers, WorkerCommits(w)
  PROVE  RowInv' /\ BatchInv' /\ HandlerInv'
<1>1. TaskTypeOK
  BY DEF QueueInv
<1>2. UNCHANGED <<handler, tries, taken, faults>>
  BY DEF WorkerCommits
<1>3. /\ batch'[w].locked = {}
      /\ \A v \in Workers \ {w} : batch'[v] = batch[v]
  BY <1>1 DEF WorkerCommits, TaskTypeOK, Idle
<1>4. \A t \in Tasks : row'[t] = IF t \in batch[w].locked THEN batch[w].row[t] ELSE row[t]
  BY DEF WorkerCommits
<1>5. RowInv'
  <2>1. ASSUME NEW t \in Tasks, \A v \in Workers : t \notin batch'[v].locked
        PROVE  Fits(row'[t], tries[t], taken[t], faults)
    <3>1. CASE t \in batch[w].locked
      BY <1>4, <3>1 DEF QueueInv, BatchInv
    <3>2. CASE t \notin batch[w].locked
      BY <1>3, <1>4, <2>1, <3>2 DEF QueueInv, RowInv, Locked
    <3> QED BY <3>1, <3>2
  <2> QED BY <1>2, <2>1 DEF RowInv, Locked
<1>6. BatchInv'
  <2>1. ASSUME NEW v \in Workers, NEW t \in batch'[v].locked
        PROVE  v # w /\ batch'[v] = batch[v] /\ row'[t] = row[t] /\ t \in Tasks
    <3>1. v # w /\ batch'[v] = batch[v]
      BY <1>3
    <3>2. t \in Tasks /\ t \notin batch[w].locked
      BY <1>1, <3>1, Typed DEF QueueInv, BatchInv
    <3> QED BY <1>4, <3>1, <3>2
  <2>2. ASSUME NEW v \in Workers, NEW t \in batch'[v].locked, NEW x \in Workers, t \in batch'[x].locked
        PROVE  x = v
    BY <2>1, <2>2 DEF QueueInv, BatchInv
  <2>3. ASSUME NEW v \in Workers, NEW t \in batch'[v].locked
        PROVE  /\ row'[t].status = "pending"
               /\ row'[t].due
               /\ row'[t].attempts < MaxAttempts
               /\ Fits(batch'[v].row[t], tries[t], taken[t], faults)
               /\ t \in batch'[v].todo => batch'[v].row[t] = row'[t]
               /\ t \notin batch'[v].todo =>
                    /\ batch'[v].row[t].attempts = row'[t].attempts + 1
                    /\ batch'[v].row[t].status # "none"
    BY <2>1 DEF QueueInv, BatchInv
  <2> QED BY <1>2, <2>2, <2>3 DEF BatchInv
<1>7. HandlerInv'
  <2>1. ASSUME NEW t \in Tasks, handler[t] # "done"
        PROVE  row'[t] = row[t]
    BY <1>4, <2>1, LockedRow DEF Locked
  <2> QED BY <1>2, <2>1 DEF QueueInv, HandlerInv
<1> QED BY <1>5, <1>6, <1>7

(* What the worker has sent is forgotten, and counted as a fault. *)
LEMMA DiesStep ==
  ASSUME QueueInv, NEW w \in Workers, WorkerDies(w)
  PROVE  RowInv' /\ BatchInv' /\ HandlerInv'
<1>1. TaskTypeOK
  BY DEF QueueInv
<1>2. UNCHANGED <<handler, row, tries, taken>> /\ faults' = faults + 1
  BY DEF WorkerDies, Fault
<1>3. faults \in Nat /\ faults' \in Nat /\ faults <= faults'
  BY <1>1, <1>2, Typed
<1>4. /\ batch'[w].locked = {}
      /\ \A v \in Workers \ {w} : batch'[v] = batch[v]
  BY <1>1 DEF WorkerDies, TaskTypeOK, Idle
<1>5. RowInv'
  <2>1. ASSUME NEW t \in Tasks, \A v \in Workers : t \notin batch'[v].locked
        PROVE  Fits(row[t], tries[t], taken[t], faults')
    <3>1. row[t] \in Row /\ tries[t] \in Nat /\ taken[t] \in Nat /\ batch[w].row[t] \in Row
      BY <1>1, Typed
    <3>2. CASE ~Locked(t)
      BY <1>3, <3>1, <3>2, FitsLater DEF QueueInv, RowInv
    <3>3. CASE t \in batch[w].todo /\ t \in batch[w].locked
      BY <1>3, <3>1, <3>3, FitsLater DEF QueueInv, BatchInv
    <3>4. CASE t \notin batch[w].todo /\ t \in batch[w].locked
      <4>1. /\ Fits(batch[w].row[t], tries[t], taken[t], faults)
            /\ batch[w].row[t].attempts = row[t].attempts + 1
            /\ row[t].status = "pending" /\ row[t].attempts < MaxAttempts
        BY <3>4 DEF QueueInv, BatchInv
      <4> QED BY <1>2, <1>3, <3>1, <4>1, FitsForgotten
    <3> QED BY <1>4, <2>1, <3>2, <3>3, <3>4 DEF Locked
  <2> QED BY <1>2, <2>1 DEF RowInv, Locked
<1>6. BatchInv'
  <2>1. ASSUME NEW v \in Workers, NEW t \in batch'[v].locked
        PROVE  /\ v # w /\ batch'[v] = batch[v]
               /\ Fits(batch[v].row[t], tries[t], taken[t], faults')
    <3>1. v # w /\ batch'[v] = batch[v]
      BY <1>4
    <3>2. batch[v].row[t] \in Row /\ tries[t] \in Nat /\ taken[t] \in Nat
      BY <1>1, <3>1, Typed
    <3>3. Fits(batch[v].row[t], tries[t], taken[t], faults)
      BY <3>1 DEF QueueInv, BatchInv
    <3> QED BY <1>3, <3>1, <3>2, <3>3, FitsLater
  <2> QED BY <1>2, <2>1 DEF QueueInv, BatchInv
<1>7. HandlerInv'
  BY <1>1, <1>2, <1>3, Typed DEF QueueInv, HandlerInv
<1> QED BY <1>5, <1>6, <1>7

LEMMA QueueStep ==
  ASSUME QueueInv, [Next]_vars
  PROVE  QueueInv'
<1>1. TaskTypeOK'
  BY TypeStep DEF QueueInv
<1>2. RowInv' /\ BatchInv' /\ HandlerInv'
  <2>1. CASE UNCHANGED vars
    BY <2>1 DEF vars, QueueInv, RowInv, BatchInv, HandlerInv, Locked
  <2>2. CASE Next
    BY <2>2, AskStep, HandlerEndsStep, TimeStep, BeginsStep, SendsStep, CommitsStep, DiesStep
    DEF Next, WorkerSteps
  <2> QED BY <2>1, <2>2
<1> QED BY <1>1, <1>2 DEF QueueInv

THEOREM QueueInvariant == Spec => []QueueInv
BY QueueInit, QueueStep, PTL DEF Spec

(* Every variable keeps its type, and no committed row is RUNNING.          *)
THEOREM TaskTypeCorrect == Spec => []TaskTypeOK
<1>1. QueueInv => TaskTypeOK
  BY DEF QueueInv
<1> QED BY <1>1, QueueInvariant, PTL

(* A task that GitHub took twice was in a fault between.                    *)
THEOREM RepeatedOnlyByFaults == Spec => []RepeatedByFaults
<1>1. QueueInv => RepeatedByFaults
  BY DEF QueueInv, RowInv, BatchInv, RepeatedByFaults, Fits, Locked
<1> QED BY <1>1, QueueInvariant, PTL

(* A task is sent MaxAttempts times, and once more for every rollback.      *)
THEOREM AttemptsAreBounded == Spec => []AttemptsBounded
<1>1. ASSUME NEW r \in Row, NEW n \in Nat, NEW k \in Nat, NEW f \in Nat, Fits(r, n, k, f)
      PROVE  n <= MaxAttempts + f
  BY <1>1, TasksAssumption DEF Fits, Row
<1>2. QueueInv => AttemptsBounded
  <2>1. ASSUME QueueInv, NEW t \in Tasks
        PROVE  \E r \in Row : Fits(r, tries[t], taken[t], faults)
    BY <2>1, Typed DEF QueueInv, RowInv, BatchInv, Locked
  <2> QED BY <1>1, <2>1, Typed DEF AttemptsBounded, QueueInv
<1> QED BY <1>2, QueueInvariant, PTL

-----------------------------------------------------------------------------
(* Refinement *)

LEMMA PromisedInit ==
  ASSUME Init
  PROVE  Promised!Init
BY DEF Init, Promised!Init, Settled, NoRow

(* Sending a task, by its handler or a worker, is a Send. *)
LEMMA SendRefines ==
  ASSUME QueueInv, NEW t \in Tasks, Ask(t) \/ \E w \in Workers : WorkerSends(w, t)
  PROVE  Promised!Next
<1>1. TaskTypeOK
  BY DEF QueueInv
<1>2. row[t].status \in {"none", "pending"}
  BY <1>1 DEF QueueInv, HandlerInv, BatchInv, NoRow, Ask, WorkerSends, TaskTypeOK
<1>3. row' = row
  BY DEF Ask, WorkerSends
<1>4. PICK tried \in {0, 1}, took \in {0, 1} :
        /\ tries' = [tries EXCEPT ![t] = @ + tried]
        /\ taken' = [taken EXCEPT ![t] = @ + took]
  <2>1. tries' = [tries EXCEPT ![t] = @ + 0] \/ tries' = [tries EXCEPT ![t] = @ + 1]
    BY <1>1, Typed DEF Ask, WorkerSends, TaskTypeOK
  <2>2. taken' = [taken EXCEPT ![t] = @ + 0] \/ taken' = [taken EXCEPT ![t] = @ + 1]
    BY <1>1, Typed DEF Ask, WorkerSends, TaskTypeOK
  <2> QED BY <2>1, <2>2
<1>5. Promised!Send(t, tried, took)
  BY <1>2, <1>3, <1>4 DEF Promised!Send, Settled
<1> QED BY <1>5 DEF Promised!Next

(* Every other step settles some open tasks, or none. *)
LEMMA SettleRefines ==
  ASSUME QueueInv, QueueInv', UNCHANGED <<tries, taken>>,
         \A t \in Tasks : Settled(t) => row'[t].status = row[t].status,
         \A t \in Tasks : ~Settled(t) /\ Settled(t)' => Fits(row'[t], tries[t], taken[t], faults)
  PROVE  Promised!Next
<1> DEFINE outcome == [t \in Tasks |-> IF Settled(t) THEN row[t].status ELSE "open"]
<1>1. \A t \in Tasks : outcome'[t] \in {"open", "completed", "failed"}
  BY DEF Settled
<1>2. ASSUME NEW t \in Tasks, outcome'[t] # outcome[t]
      PROVE  /\ outcome[t] = "open"
             /\ outcome'[t] = "completed" => taken[t] > 0
             /\ outcome'[t] = "failed" => tries[t] >= MaxAttempts
  <2>1. ~Settled(t) /\ Settled(t)'
    BY <1>2 DEF Settled
  <2>2. Fits(row'[t], tries[t], taken[t], faults)
    BY <2>1
  <2>3. row'[t].attempts \in Nat /\ tries[t] \in Nat /\ MaxAttempts \in Nat
    BY Typed, TasksAssumption DEF QueueInv, TaskTypeOK, Row
  <2> QED BY <2>1, <2>2, <2>3 DEF Fits, Settled
<1>3. Promised!Settle
  BY <1>1, <1>2 DEF Promised!Settle
<1> QED BY <1>3 DEF Promised!Next

LEMMA StepRefines ==
  ASSUME QueueInv, QueueInv', [Next]_vars
  PROVE  [Promised!Next]_(Promised!vars)
<1>1. TaskTypeOK
  BY DEF QueueInv
<1>2. CASE UNCHANGED row /\ UNCHANGED <<tries, taken>>
  BY <1>2 DEF Promised!vars, Settled
<1>3. ASSUME NEW t \in Tasks, HandlerEnds(t)
      PROVE  Promised!Next
  <2>1. row[t] = NoRow
    BY <1>3 DEF QueueInv, HandlerInv, HandlerEnds
  <2>2. row'[t].status \in {"none", "pending"} /\ \A u \in Tasks \ {t} : row'[u] = row[u]
    BY <1>1, <1>3, <2>1 DEF HandlerEnds, TaskTypeOK, NoRow, NewRow
  <2> QED BY <1>3, <2>1, <2>2, SettleRefines DEF HandlerEnds, Settled, NoRow
<1>4. ASSUME NEW t \in Tasks, BecomesDue(t) \/ GrowsOld(t)
      PROVE  Promised!Next
  <2>1. row[t] \in Row /\ \A u \in Tasks \ {t} : row'[u] = row[u]
    BY <1>1, <1>4, Typed DEF BecomesDue, GrowsOld, TaskTypeOK
  <2>2. row'[t] \in {[row[t] EXCEPT !.due = TRUE], [row[t] EXCEPT !.age = "old"]}
    BY <1>1, <1>4 DEF BecomesDue, GrowsOld, TaskTypeOK
  <2>3. row'[t].status = row[t].status
    BY <2>1, <2>2 DEF Row
  <2> QED BY <1>4, <2>1, <2>3, SettleRefines DEF BecomesDue, GrowsOld, Settled
<1>5. CASE Cleanup
  <2>1. ASSUME NEW u \in Tasks
        PROVE  row'[u].status = row[u].status
    <3>1. row[u] \in Row
      BY <1>1, Typed
    <3> QED BY <1>5, <3>1 DEF Cleanup, Row
  <2> QED BY <1>5, <2>1, SettleRefines DEF Cleanup, Settled
<1>6. ASSUME NEW w \in Workers, WorkerCommits(w)
      PROVE  Promised!Next
  <2>1. ASSUME NEW u \in Tasks
        PROVE  /\ u \in batch[w].locked => Fits(row'[u], tries[u], taken[u], faults) /\ ~Settled(u)
               /\ u \notin batch[w].locked => row'[u] = row[u]
    BY <1>6, <2>1 DEF WorkerCommits, QueueInv, BatchInv, Settled
  <2> QED BY <1>6, <2>1, SettleRefines DEF WorkerCommits, Settled
<1>7. ASSUME NEW w \in Workers, WorkerBegins(w) \/ WorkerDies(w)
      PROVE  UNCHANGED row /\ UNCHANGED <<tries, taken>>
  BY <1>7 DEF WorkerBegins, WorkerDies
<1>8. UNCHANGED vars => UNCHANGED row /\ UNCHANGED <<tries, taken>>
  BY DEF vars
<1> QED BY <1>2, <1>3, <1>4, <1>5, <1>6, <1>7, <1>8, SendRefines DEF Next, WorkerSteps

(* The queue implements TaskDelivery.                                       *)
THEOREM DeliveryImplemented == Spec => Delivery
<1>1. Init => Promised!Init
  BY PromisedInit
<1>2. QueueInv /\ QueueInv' /\ [Next]_vars => [Promised!Next]_(Promised!vars)
  BY StepRefines
<1> QED BY <1>1, <1>2, QueueInvariant, PTL DEF Spec, Delivery, Promised!Spec

=============================================================================
