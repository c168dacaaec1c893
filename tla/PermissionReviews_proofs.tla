----------------------- MODULE PermissionReviews_proofs ----------------------
(***************************************************************************)
(* Proofs about PermissionReviews, for any builds, workers, targets and    *)
(* bounds: tries are bounded, an approval on a head is the last word of the*)
(* build that gave it, and no older build is approved after a newer one    *)
(* was submitted.                                                          *)
(*                                                                         *)
(* The advisory lock is dropped by every commit, so the argument is by     *)
(* what a worker that holds it knows (WorkerOK) and what a step of anybody *)
(* else leaves alone (Rely).  The rows are never locked: only              *)
(* the assessment kept in them is.                                         *)
(***************************************************************************)
EXTENDS PermissionReviews, TLAPS

Holding(w) == worker[w].pc \in {"assess", "ask", "report"}

(* A build that ended without a submission stays that way.                 *)
GaveUp(d) == Finished(d) /\ d.status # "submitted"

(* No newer build of the pull request was ever submitted.                  *)
Newest(b) == b \notin PushBuilds /\ \A c \in assessed : c \in PushBuilds \/ c <= b

(* What the worker that asked for the state of a build carries to its      *)
(* report: the counters and the marker are the stored ones, its decision is*)
(* one the service made, and if it approves the build then the assessment  *)
(* was never lost and no later decision was reported.                      *)
ReportOK(w) ==
  LET b == worker[w].build
      d == worker[w].new
  IN /\ d.status = data[b].status
     /\ d.attempts = data[b].attempts
     /\ d.reported = data[b].reported
     /\ d.decision <= service[b].decision
     /\ data[b].missing => d.missing
     /\ worker[w].outcome = "error" /\ d.status = "submitted" => d.missing
     /\ worker[w].outcome = "accepted" =>
          /\ d.status = "submitted"
          /\ ~d.missing
          /\ d.reported.decision <= d.decision
          /\ Newest(b)

WorkerOK(w) ==
  LET b == worker[w].build IN
    /\ Holding(w) => lock[Lock(b)] = w
    /\ worker[w] # Idle => rows[b] # NoRow
    /\ worker[w].pc = "assess" => ~Finished(data[b])
    /\ worker[w].pc = "recall" =>
         GaveUp(data[b]) /\ worker[w].outcome \in {"not_applicable", "error"}
    /\ worker[w].pc = "ask" => data[b].status = "submitted" /\ Newest(b)
    /\ worker[w].pc = "report" => worker[w].outcome # "none" /\ ReportOK(w)

BuildOK(b) ==
  LET d == data[b] IN
    /\ tries[b] <= MaxAttempts
    /\ d.status = "none" => tries[b] = 0 /\ d.attempts = 0
    /\ d.status \in {"submitted", "failed"} => tries[b] = d.attempts
    /\ d.status = "submitted" <=> b \in assessed
    /\ d.status # "none" => rows[b] # NoRow
    /\ d.decision <= service[b].decision
    /\ d.reported.decision <= service[b].decision
    /\ d.status = "submitted" /\ d.reported.outcome = "error" => d.missing

ShownOK(h) ==
  LET b == shown[h].by IN
    b # 0 =>
      /\ rows[b] # NoRow /\ rows[b].head = h
      /\ shown[h].outcome = "accepted" =>
           /\ data[b].reported.outcome # "error"
           /\ data[b].reported.decision <= shown[h].decision

ReviewInv ==
  /\ PermissionTypeOK
  /\ pull.head <= edits + 1 /\ pull.base <= edits + 1
  /\ \A w \in Workers : WorkerOK(w)
  /\ \A b \in Builds : BuildOK(b)
  /\ \A h \in Heads : ShownOK(h)

-----------------------------------------------------------------------------
(* Operators                                                               *)

(* A state with no assessment is one a row can keep. *)
LEMMA NoDataTyped == NoData \in Data
BY ReviewConstants DEF NoData, Data, Report, NoReport, Outcomes

(* Pushed builds have a lock each, the others share the pull request's. *)
LEMMA LockTyped ==
  ASSUME NEW b \in Builds
  PROVE  Lock(b) \in Locks /\ (b \notin PushBuilds => Lock(b) = 0)
BY DEF Lock, Locks

(* A worker that is about a build is one of the working states. *)
LEMMA WorkTyped ==
  ASSUME PermissionTypeOK, NEW w \in Workers, worker[w].pc # "idle"
  PROVE  /\ worker[w].build \in Builds /\ worker[w].new \in Data
         /\ worker[w].outcome \in Outcomes \cup {"none"}
         /\ worker[w].pc \in {"assess", "recall", "ask", "report"}
         /\ worker[w] # Idle
         /\ worker[w] \in [pc : {"assess", "recall", "ask", "report"}, build : Builds,
                          new : Data, outcome : Outcomes \cup {"none"}]
BY DEF PermissionTypeOK, Work, Idle

(* The fields of a stored assessment. *)
LEMMA DataFields ==
  ASSUME NEW d \in Data
  PROVE  /\ d.status \in {"none", "submitted", "skipped", "failed"}
         /\ d.attempts \in 0..MaxAttempts /\ d.outcome \in Outcomes \cup {"none"}
         /\ d.decision \in Nat /\ d.base \in Bases \cup {0}
         /\ d.missing \in BOOLEAN /\ d.closed \in BOOLEAN /\ d.reported \in Report
         /\ d.reported.decision \in Nat
BY DEF Data, Report, NoReport

-----------------------------------------------------------------------------
(* Types                                                                   *)

Typing == PermissionTypeOK /\ pull.head <= edits + 1 /\ pull.base <= edits + 1

(* Storing a typed state keeps the rows, the locks and the history typed. *)
LEMMA StoresTyped ==
  ASSUME PermissionTypeOK, NEW b \in Builds, NEW d \in Data, Stores(b, d)
  PROVE  /\ data' \in [Builds -> Data] /\ lock' \in [Locks -> Workers \cup {Free}]
         /\ assessed' \subseteq Builds
BY LockTyped DEF PermissionTypeOK, Stores, Release

(* A submission answered by the service leaves its answers typed. *)
LEMMA AssessesTyped ==
  ASSUME PermissionTypeOK, NEW b \in Builds, Assesses(b)
  PROVE  /\ service' \in [Builds ->
              [held : BOOLEAN, outcome : Decisions, decision : Nat]]
         /\ service'[b].outcome \in Decisions
         /\ service'[b].decision = service[b].decision + 1
         /\ service'[b].decision \in Nat
         /\ \A c \in Builds : service[c].decision <= service'[c].decision
BY DEF PermissionTypeOK, Assesses

(* A working worker goes on, or stops. *)
LEMMA GoTyped ==
  ASSUME PermissionTypeOK, NEW w \in Workers, NEW j \in Work,
         worker' = [worker EXCEPT ![w] = j]
  PROVE  worker' \in [Workers -> Work] /\ worker'[w] = j
         /\ \A v \in Workers \ {w} : worker'[v] = worker[v]
BY DEF PermissionTypeOK

(* A worker that stops is idle. *)
LEMMA StopTyped ==
  ASSUME PermissionTypeOK, NEW w \in Workers, Stop(w)
  PROVE  worker' \in [Workers -> Work] /\ worker'[w] = Idle
         /\ \A v \in Workers \ {w} : worker'[v] = worker[v]
BY GoTyped DEF Stop, Go, Work

(* What is shown is typed, and on a head of the pull request. *)
LEMMA ShowsTyped ==
  ASSUME PermissionTypeOK, NEW w \in Workers, worker[w].pc # "idle", Shows(w)
  PROVE  /\ shown' \in [Heads -> [outcome : Outcomes \cup {"none"},
                                  decision : Nat, by : Builds \cup {0}]]
         /\ rows[worker[w].build].head \in Heads
<1>1. /\ worker[w].build \in Builds /\ worker[w].new.decision \in Nat
      /\ worker[w].outcome \in Outcomes \cup {"none"}
  BY WorkTyped, DataFields
<1>2. rows[worker[w].build] \in Row
  BY <1>1 DEF PermissionTypeOK
<1>3. 1 \in Heads
  BY ReviewConstants DEF Heads
<1>4. rows[worker[w].build].head \in Heads
  BY <1>2, <1>3 DEF Row, NoRow
<1>. QED BY <1>1, <1>4 DEF Shows, PermissionTypeOK

(* A mark is a report once an outcome was found. *)
LEMMA MarkerTyped ==
  ASSUME NEW d \in Data, NEW o \in Outcomes
  PROVE  Marker(d, o) \in Report /\ [d EXCEPT !.reported = Marker(d, o)] \in Data
<1>1. Marker(d, o) \in Report
  BY DEF Marker, Report, Data
<1>. QED BY <1>1 DEF Data

(* The worker that moved, and the others. *)
Moved(w, c, b, d, o) ==
  /\ worker' \in [Workers -> Work]
  /\ worker'[w] # Idle /\ worker'[w].pc = c /\ worker'[w].build = b
  /\ worker'[w].new = d /\ worker'[w].outcome = o
  /\ \A v \in Workers \ {w} : worker'[v] = worker[v]

(* A worker that does the job it goes for. *)
LEMMA MovedTyped ==
  ASSUME PermissionTypeOK, NEW w \in Workers, NEW j,
         NEW c \in {"assess", "recall", "ask", "report"}, NEW b \in Builds,
         NEW d \in Data, NEW o \in Outcomes \cup {"none"},
         j \in [pc : {c}, build : {b}, new : {d}, outcome : {o}],
         worker' = [worker EXCEPT ![w] = j]
  PROVE  Moved(w, c, b, d, o)
<1>1. j \in Work /\ j.pc = c /\ j.build = b /\ j.new = d /\ j.outcome = o
  BY DEF Work
<1>2. j # Idle
  BY <1>1 DEF Idle
<1>. QED BY <1>1, <1>2, GoTyped DEF Moved

(* A worker that begins work is typed. *)
LEMMA BeginTyped ==
  ASSUME PermissionTypeOK, NEW w \in Workers, NEW b \in Builds,
         NEW c \in {"assess", "recall", "ask", "report"}, Acquire(w, b),
         Go(w, [Idle EXCEPT !.pc = c, !.build = b])
  PROVE  /\ lock' \in [Locks -> Workers \cup {Free}]
         /\ Moved(w, c, b, NoData, "none")
<1>1. [Idle EXCEPT !.pc = c, !.build = b] \in
        [pc : {c}, build : {b}, new : {NoData}, outcome : {"none"}]
  BY DEF Idle
<1>2. lock' \in [Locks -> Workers \cup {Free}]
  BY LockTyped DEF PermissionTypeOK, Acquire
<1>. QED BY <1>1, <1>2, MovedTyped, NoDataTyped DEF Go

(* What a refresh will report is typed, once it has an outcome. *)
LEMMA SaysTyped ==
  ASSUME PermissionTypeOK, NEW w \in Workers, worker[w].pc = "ask",
         NEW d \in Data, NEW o \in Outcomes, Says(w, d, o)
  PROVE  Moved(w, "report", worker[w].build, d, o)
<1>. DEFINE j == [worker[w] EXCEPT !.pc = "report", !.new = d, !.outcome = o]
<1>1. j \in [pc : {"report"}, build : {worker[w].build}, new : {d}, outcome : {o}]
  BY WorkTyped
<1>2. worker[w].build \in Builds
  BY WorkTyped
<1>. HIDE DEF j
<1>3. worker' = [worker EXCEPT ![w] = j]
  BY DEF Says, Go, j
<1>. QED BY <1>1, <1>2, <1>3, MovedTyped

(* A submission that ends, with or without something to say. *)
LEMMA ThenTyped ==
  ASSUME PermissionTypeOK, NEW w \in Workers, worker[w].pc = "assess",
         NEW o \in Outcomes \cup {"none"}, Then(w, o)
  PROVE  /\ worker' \in [Workers -> Work]
         /\ o = "none" => worker'[w] = Idle
         /\ o # "none" => Moved(w, "recall", worker[w].build, worker[w].new, o)
         /\ \A v \in Workers \ {w} : worker'[v] = worker[v]
<1>1. CASE o = "none"
  BY <1>1, StopTyped DEF Then
<1>2. CASE o # "none"
  <2>. DEFINE j == [worker[w] EXCEPT !.pc = "recall", !.outcome = o]
  <2>1. j \in [pc : {"recall"}, build : {worker[w].build}, new : {worker[w].new},
               outcome : {o}]
    BY WorkTyped
  <2>2. worker[w].build \in Builds /\ worker[w].new \in Data
    BY WorkTyped
  <2>. HIDE DEF j
  <2>3. worker' = [worker EXCEPT ![w] = j]
    BY <1>2 DEF Then, Go, j
  <2>4. Moved(w, "recall", worker[w].build, worker[w].new, o)
    BY <2>1, <2>2, <2>3, MovedTyped
  <2>. QED BY <1>2, <2>4 DEF Moved
<1>. QED BY <1>1, <1>2

(* A submission that is about to report reads its row again. *)
LEMMA RecallTyped ==
  ASSUME PermissionTypeOK, NEW w \in Workers, worker[w].pc = "recall",
         SubmitReports(w)
  PROVE  /\ Moved(w, "report", worker[w].build, data[worker[w].build], worker[w].outcome)
         /\ lock' \in [Locks -> Workers \cup {Free}]
         /\ Acquire(w, worker[w].build)
<1>. DEFINE b == worker[w].build
            j == [worker[w] EXCEPT !.pc = "report", !.new = data[b]]
<1>1. b \in Builds /\ worker[w].outcome \in Outcomes \cup {"none"}
  BY WorkTyped
<1>2. data[b] \in Data
  BY <1>1 DEF PermissionTypeOK
<1>3. j \in [pc : {"report"}, build : {b}, new : {data[b]}, outcome : {worker[w].outcome}]
  BY <1>1, <1>2, WorkTyped
<1>. HIDE DEF j
<1>4. worker' = [worker EXCEPT ![w] = j] /\ Acquire(w, b)
  BY DEF SubmitReports, Go, j
<1>5. lock' \in [Locks -> Workers \cup {Free}]
  BY <1>1, <1>4, LockTyped DEF PermissionTypeOK, Acquire
<1>. QED BY <1>1, <1>2, <1>3, <1>4, <1>5, MovedTyped

(* The state kept of an assessment that is gone is typed. *)
LEMMA MissingTyped == ASSUME NEW d \in Data PROVE Missing(d) \in Data /\ "error" \in Outcomes
BY DEF Data, Missing, Outcomes

(* A fault is counted. *)
LEMMA FaultTyped == ASSUME PermissionTypeOK, Fault PROVE faults' \in 0..MaxFaults
BY ReviewConstants DEF PermissionTypeOK, Fault

(* The states a submission stores. *)
LEMMA TriedTyped ==
  ASSUME NEW d \in Data, ~Finished(d), NEW o \in Outcomes \cup {"none"}, NEW n \in Nat,
         NEW s \in {"submitted", "failed"}
  PROVE  /\ [NoData EXCEPT !.status = s, !.attempts = d.attempts + 1] \in Data
         /\ [NoData EXCEPT !.status = s, !.attempts = d.attempts + 1,
                           !.outcome = o, !.decision = n] \in Data
         /\ [NoData EXCEPT !.status = "skipped"] \in Data
<1>1. d.attempts + 1 \in 0..MaxAttempts
  BY ReviewConstants, DataFields DEF Finished
<1>. QED BY <1>1, NoDataTyped DEF NoData, Data

-----------------------------------------------------------------------------
(* What a worker relies on                                                 *)

(* A step of others, as a worker sees it: nobody takes its lock or stores  *)
(* under it, a build given up stays given up, decisions only get newer and *)
(* rows stay.                                                              *)
Rely(v) ==
  /\ worker'[v] = worker[v]
  /\ \A l \in Locks : lock[l] = v => lock'[l] = v
  /\ \A b \in Builds :
       /\ lock[Lock(b)] = v => data'[b] = data[b] /\ (b \in assessed' => b \in assessed)
       /\ GaveUp(data[b]) => GaveUp(data'[b])
       /\ service[b].decision <= service'[b].decision
       /\ rows[b] # NoRow => rows'[b] # NoRow

(* Whoever holds a lock knows that no newer build was submitted, as long   *)
(* as others store nothing under it.                                       *)
LEMMA NewestStays ==
  ASSUME PermissionTypeOK, PermissionTypeOK', NEW v \in Workers, NEW b \in Builds,
         lock[Lock(b)] = v, Rely(v), Newest(b)
  PROVE  Newest(b)'
<1>1. ASSUME NEW c \in assessed', c \notin PushBuilds PROVE c <= b
  <2>1. c \in Builds
    BY <1>1 DEF PermissionTypeOK
  <2>2. Lock(c) = Lock(b)
    BY <1>1, <2>1, LockTyped DEF Newest
  <2>3. c \in assessed
    BY <1>1, <2>1, <2>2 DEF Rely
  <2>. QED BY <1>1, <2>3 DEF Newest
<1>. QED BY <1>1 DEF Newest

(* A worker that does not move keeps what it knows. *)
LEMMA RelyKeeps ==
  ASSUME PermissionTypeOK, PermissionTypeOK', NEW v \in Workers, WorkerOK(v), Rely(v)
  PROVE  WorkerOK(v)'
<1>0. worker'[v] = worker[v]
  BY DEF Rely
<1>1. CASE worker[v].pc = "idle"
  <2>1. worker[v] = Idle
    BY <1>1 DEF PermissionTypeOK, Work
  <2>. QED BY <1>0, <2>1 DEF WorkerOK, Holding, Idle
<1>2. CASE worker[v].pc # "idle"
  <2>. PICK b \in Builds : b = worker[v].build
    BY <1>2, WorkTyped
  <2>0. b = worker'[v].build /\ worker[v] # Idle
    BY <1>0, <1>2, WorkTyped
  <2>1. rows'[b] # NoRow
    BY <2>0 DEF WorkerOK, Rely
  <2>2. CASE worker[v].pc = "recall"
    <3>1. GaveUp(data'[b]) /\ worker[v].outcome \in {"not_applicable", "error"}
      BY <2>0, <2>2 DEF WorkerOK, Rely
    <3>. QED BY <1>0, <2>1, <2>2, <3>1 DEF WorkerOK, Holding, GaveUp, Finished
  <2>3. CASE Holding(v)
    <3>1. lock[Lock(b)] = v /\ Lock(b) \in Locks
      BY <2>0, <2>3, LockTyped DEF WorkerOK
    <3>2. lock'[Lock(b)] = v /\ data'[b] = data[b]
          /\ service[b].decision <= service'[b].decision
      BY <2>0, <3>1 DEF Rely
    <3>3. Newest(b) => Newest(b)'
      BY <2>0, <3>1, NewestStays
    <3>4. CASE worker[v].pc = "report"
      <4>1. ReportOK(v) /\ worker[v].outcome # "none"
        BY <3>4 DEF WorkerOK
      <4>2. service[b].decision \in Nat /\ service'[b].decision \in Nat
            /\ worker[v].new.decision \in Nat
        BY <1>2, <2>0, WorkTyped, DataFields DEF PermissionTypeOK
      <4>3. ReportOK(v)'
        BY <1>0, <3>2, <3>3, <4>1, <4>2 DEF ReportOK
      <4>. QED BY <1>0, <2>1, <3>2, <3>4, <4>1, <4>3 DEF WorkerOK, Holding
    <3>5. CASE worker[v].pc # "report"
      BY <1>0, <2>1, <2>3, <3>2, <3>3, <3>5 DEF WorkerOK, Holding, Finished
    <3>. QED BY <3>4, <3>5
  <2>. QED BY <1>2, <2>2, <2>3, WorkTyped DEF Holding
<1>. QED BY <1>1, <1>2

-----------------------------------------------------------------------------
(* The steps of the pipeline table, the pull request and the decision      *)
(* service                                                                 *)

(* No worker moves, nothing is stored, decisions only get newer, and rows  *)
(* stay what they were built from.                                         *)
Around ==
  /\ UNCHANGED <<data, lock, worker, tries, assessed, faults>>
  /\ \A b \in Builds :
       /\ service[b].decision <= service'[b].decision
       /\ rows[b] # NoRow => rows'[b] # NoRow /\ rows'[b].head = rows[b].head
  /\ \A h \in Heads : shown'[h] = shown[h] \/ shown'[h].by = 0

(* Such a step takes nothing from any worker or build. *)
LEMMA AroundKeeps ==
  ASSUME ReviewInv, Typing', Around
  PROVE  ReviewInv'
<1>1. ASSUME NEW v \in Workers PROVE WorkerOK(v)'
  <2>1. Rely(v)
    BY DEF Around, Rely, GaveUp, Finished
  <2>. QED BY <2>1, RelyKeeps DEF ReviewInv, Typing
<1>2. ASSUME NEW b \in Builds PROVE BuildOK(b)'
  <2>1. BuildOK(b) /\ data[b] \in Data
    BY DEF ReviewInv, PermissionTypeOK
  <2>2. data[b].decision \in Nat /\ data[b].reported.decision \in Nat
        /\ service[b].decision \in Nat /\ service'[b].decision \in Nat
    BY <2>1, DataFields DEF ReviewInv, PermissionTypeOK, Typing
  <2>. QED BY <2>1, <2>2 DEF Around, BuildOK
<1>3. ASSUME NEW h \in Heads PROVE ShownOK(h)'
  <2>1. CASE shown'[h].by = 0
    BY <2>1 DEF ShownOK
  <2>2. CASE shown'[h] = shown[h] /\ shown'[h].by # 0
    <3>1. shown[h].by \in Builds /\ ShownOK(h)
      BY <2>2 DEF ReviewInv, PermissionTypeOK
    <3>. QED BY <2>2, <3>1 DEF Around, ShownOK
  <2>. QED BY <2>1, <2>2 DEF Around
<1>. QED BY <1>1, <1>2, <1>3 DEF ReviewInv, Typing

(* The rows of the table. *)
LEMMA RowSteps ==
  ASSUME ReviewInv, NEW b \in Builds, RowCreated(b) \/ RowCommitted(b) \/ RowPasses(b)
  PROVE  ReviewInv'
<1>1. rows[b] \in Row /\ UNCHANGED <<data, lock, worker, shown, tries, assessed, faults, outside>>
  BY DEF RowCreated, RowCommitted, RowPasses, ReviewInv, PermissionTypeOK
<1>2. rows' \in [Builds -> Row] /\ Around
  <2>1. CASE RowCreated(b)
    BY <1>1, <2>1 DEF RowCreated, ReviewInv, PermissionTypeOK, Row, NoRow, Around, outside
  <2>2. CASE RowCommitted(b)
    BY <1>1, <2>2 DEF RowCommitted, ReviewInv, PermissionTypeOK, Row, NoRow, Around, outside
  <2>3. CASE RowPasses(b)
    BY <1>1, <2>3 DEF RowPasses, ReviewInv, PermissionTypeOK, Row, NoRow, Around, outside
  <2>. QED BY <2>1, <2>2, <2>3
<1>3. Typing'
  BY <1>1, <1>2 DEF Typing, ReviewInv, PermissionTypeOK, outside
<1>. QED BY <1>2, <1>3, AroundKeeps

(* The pull request. *)
LEMMA PullSteps ==
  ASSUME ReviewInv, PullPushed \/ PullCloses \/ BaseMoves \/ TargetChanges
  PROVE  ReviewInv'
<1>1. UNCHANGED <<Inside, service>> /\ Edit
  BY DEF PullPushed, PullCloses, BaseMoves, TargetChanges
<1>2. /\ pull' \in [open : BOOLEAN, head : Heads, target : Targets, base : Bases]
      /\ pull'.head <= edits' + 1 /\ pull'.base <= edits' + 1
  <2>0. /\ pull \in [open : BOOLEAN, head : Heads, target : Targets, base : Bases]
        /\ pull.head <= edits + 1 /\ pull.base <= edits + 1
        /\ edits \in 0..MaxEdits /\ edits < MaxEdits /\ edits' = edits + 1
        /\ MaxEdits \in Nat
    BY <1>1, ReviewConstants DEF Edit, ReviewInv, PermissionTypeOK
  <2>. USE <2>0 DEF Heads, Bases
  <2>1. CASE pull' = [pull EXCEPT !.head = @ + 1]
    BY <2>1
  <2>2. CASE pull' = [pull EXCEPT !.open = FALSE]
    <3>1. pull' = [open |-> FALSE, head |-> pull.head, target |-> pull.target,
                   base |-> pull.base]
      BY <2>2
    <3>. QED BY <3>1
  <2>3. CASE pull' = [pull EXCEPT !.base = @ + 1]
    BY <2>3
  <2>4. ASSUME NEW t \in Targets, pull' = [pull EXCEPT !.target = t]
        PROVE  /\ pull' \in [open : BOOLEAN, head : Heads, target : Targets, base : Bases]
               /\ pull'.head <= edits' + 1 /\ pull'.base <= edits' + 1
    BY <2>4
  <2>. QED BY <2>1, <2>2, <2>3, <2>4 DEF PullPushed, PullCloses, BaseMoves, TargetChanges
<1>3. /\ shown' \in [Heads -> [outcome : Outcomes \cup {"none"}, decision : Nat,
                               by : Builds \cup {0}]]
      /\ \A h \in Heads : shown'[h] = shown[h] \/ shown'[h].by = 0
  <2>1. CASE UNCHANGED shown
    BY <2>1 DEF ReviewInv, PermissionTypeOK
  <2>2. CASE shown' = [shown EXCEPT ![pull.head] =
                         [NotShown EXCEPT !.outcome = "target_changed"]]
    BY <2>2 DEF ReviewInv, PermissionTypeOK, NotShown, Outcomes
  <2>. QED BY <2>1, <2>2 DEF PullPushed, PullCloses, BaseMoves, TargetChanges
<1>4. edits' \in 0..MaxEdits
  BY <1>1, ReviewConstants DEF Edit, ReviewInv, PermissionTypeOK
<1>5. Typing'
  BY <1>1, <1>2, <1>3, <1>4 DEF Inside, Typing, ReviewInv, PermissionTypeOK
<1>6. Around
  BY <1>1, <1>3 DEF Around, Inside, ReviewInv, PermissionTypeOK
<1>. QED BY <1>5, <1>6, AroundKeeps

(* The decision service. *)
LEMMA ServiceSteps ==
  ASSUME ReviewInv, NEW b \in Builds, Decides(b) \/ Vanishes(b)
  PROVE  ReviewInv'
<1>1. UNCHANGED <<Inside, shown, pull, edits>>
  BY DEF Decides, Vanishes
<1>2. /\ service' \in [Builds -> [held : BOOLEAN, outcome : Decisions, decision : Nat]]
      /\ \A c \in Builds : service[c].decision <= service'[c].decision
  <2>0. service \in [Builds -> [held : BOOLEAN, outcome : Decisions, decision : Nat]]
    BY DEF ReviewInv, PermissionTypeOK
  <2>1. ASSUME NEW d \in Decisions,
               service' = [service EXCEPT ![b] =
                 [held |-> TRUE, outcome |-> d, decision |-> @.decision + 1]]
        PROVE  /\ service' \in [Builds -> [held : BOOLEAN, outcome : Decisions, decision : Nat]]
               /\ \A c \in Builds : service[c].decision <= service'[c].decision
    BY <2>0, <2>1
  <2>2. CASE service' = [service EXCEPT ![b] =
               [held |-> FALSE, outcome |-> @.outcome, decision |-> @.decision]]
    BY <2>0, <2>2
  <2>. QED BY <2>1, <2>2 DEF Decides, Vanishes
<1>3. Typing'
  BY <1>1, <1>2 DEF Inside, Typing, ReviewInv, PermissionTypeOK
<1>4. Around
  BY <1>1, <1>2 DEF Around, Inside
<1>. QED BY <1>3, <1>4, AroundKeeps

-----------------------------------------------------------------------------
(* The steps of a worker                                                   *)

Others(w) ==
  /\ rows' = rows
  /\ \A v \in Workers \ {w} : worker'[v] = worker[v]
  /\ \A b \in Builds : service[b].decision <= service'[b].decision

(* A step that stores nothing leaves the builds as they were. *)
LEMMA BuildsKept ==
  ASSUME ReviewInv, Typing', NEW w \in Workers, Others(w), UNCHANGED <<data, tries, assessed>>
  PROVE  \A b \in Builds : BuildOK(b)'
<1>. SUFFICES ASSUME NEW b \in Builds PROVE BuildOK(b)'
  OBVIOUS
<1>1. BuildOK(b) /\ data[b] \in Data
  BY DEF ReviewInv, PermissionTypeOK
<1>2. data[b].decision \in Nat /\ data[b].reported.decision \in Nat
      /\ service[b].decision \in Nat /\ service'[b].decision \in Nat
  BY <1>1, DataFields DEF ReviewInv, PermissionTypeOK, Typing
<1>. QED BY <1>1, <1>2 DEF Others, BuildOK

(* A step that stores and shows nothing leaves what is shown right. *)
LEMMA ShownKept ==
  ASSUME ReviewInv, NEW w \in Workers, Others(w), UNCHANGED <<data, shown>>
  PROVE  \A h \in Heads : ShownOK(h)'
<1>. SUFFICES ASSUME NEW h \in Heads, shown[h].by # 0 PROVE ShownOK(h)'
  BY DEF ShownOK
<1>1. shown[h].by \in Builds /\ ShownOK(h)
  BY DEF ReviewInv, PermissionTypeOK
<1>. QED BY <1>1 DEF Others, ShownOK

(* The invariant after a step of a worker: the other workers saw nothing   *)
(* they rely on change.                                                    *)
LEMMA WorkerKeeps ==
  ASSUME ReviewInv, Typing', NEW w \in Workers, WorkerOK(w)',
         \A v \in Workers \ {w} : Rely(v),
         \A b \in Builds : BuildOK(b)', \A h \in Heads : ShownOK(h)'
  PROVE  ReviewInv'
<1>1. ASSUME NEW v \in Workers PROVE WorkerOK(v)'
  BY RelyKeeps DEF ReviewInv, Typing
<1>. QED BY <1>1 DEF ReviewInv, Typing

(* A lock that was free was nobody's. *)
LEMMA AcquireRelied ==
  ASSUME ReviewInv, NEW w \in Workers, NEW b \in Builds, Acquire(w, b), Others(w),
         UNCHANGED <<data, assessed>>
  PROVE  (\A v \in Workers \ {w} : Rely(v)) /\ lock'[Lock(b)] = w
<1>1. lock[Lock(b)] = Free /\ Lock(b) \in Locks /\ lock' = [lock EXCEPT ![Lock(b)] = w]
  BY LockTyped DEF Acquire
<1>2. lock \in [Locks -> Workers \cup {Free}] /\ Free \notin Workers
  BY ReviewConstants DEF ReviewInv, PermissionTypeOK, Free
<1>3. ASSUME NEW v \in Workers \ {w} PROVE Rely(v)
  BY <1>1, <1>2 DEF Others, Rely, GaveUp, Finished
<1>. QED BY <1>1, <1>2, <1>3

(* Storing under the lock changes what nobody else relies on. *)
LEMMA StoresRelied ==
  ASSUME ReviewInv, NEW w \in Workers, NEW b \in Builds, b = worker[w].build,
         Holding(w), NEW d \in Data, Stores(b, d), Others(w),
         GaveUp(data[b]) => GaveUp(d)
  PROVE  /\ \A v \in Workers \ {w} : Rely(v)
         /\ data'[b] = d /\ \A c \in Builds \ {b} : data'[c] = data[c]
<1>1. lock[Lock(b)] = w /\ Lock(b) \in Locks /\ lock' = [lock EXCEPT ![Lock(b)] = Free]
  BY LockTyped DEF ReviewInv, WorkerOK, Stores, Release
<1>2. data'[b] = d /\ \A c \in Builds \ {b} : data'[c] = data[c]
  BY DEF ReviewInv, PermissionTypeOK, Stores
<1>3. lock \in [Locks -> Workers \cup {Free}]
  BY DEF ReviewInv, PermissionTypeOK
<1>4. ASSUME NEW v \in Workers \ {w} PROVE Rely(v)
  <2>1. \A l \in Locks : lock[l] = v => lock'[l] = v
    BY <1>1, <1>3
  <2>2. ASSUME NEW c \in Builds
        PROVE  /\ lock[Lock(c)] = v => data'[c] = data[c] /\ (c \in assessed' => c \in assessed)
               /\ GaveUp(data[c]) => GaveUp(data'[c])
    <3>1. CASE c = b
      BY <1>1, <1>2, <3>1
    <3>2. CASE c # b
      BY <1>2, <3>2 DEF Stores, GaveUp, Finished
    <3>. QED BY <3>1, <3>2
  <2>. QED BY <2>1, <2>2 DEF Others, Rely
<1>. QED BY <1>2, <1>4

(* Storing a build right leaves the other builds right. *)
LEMMA StoresBuilds ==
  ASSUME ReviewInv, Typing', NEW w \in Workers, NEW b \in Builds, NEW d \in Data,
         Stores(b, d), Others(w), BuildOK(b)',
         \A c \in Builds \ {b} : data'[c] = data[c] /\ tries'[c] = tries[c]
  PROVE  \A c \in Builds : BuildOK(c)'
<1>. SUFFICES ASSUME NEW c \in Builds \ {b} PROVE BuildOK(c)'
  OBVIOUS
<1>1. BuildOK(c) /\ data[c] \in Data
  BY DEF ReviewInv, PermissionTypeOK
<1>2. data[c].decision \in Nat /\ data[c].reported.decision \in Nat
      /\ service[c].decision \in Nat /\ service'[c].decision \in Nat
  BY <1>1, DataFields DEF ReviewInv, PermissionTypeOK, Typing
<1>3. c \in assessed' <=> c \in assessed
  BY DEF Stores
<1>. QED BY <1>1, <1>2, <1>3 DEF Others, BuildOK

(* What is shown stays right when a state is stored with the marker it had,*)
(* or with none.                                                           *)
LEMMA StoresShown ==
  ASSUME ReviewInv, NEW w \in Workers, NEW b \in Builds, Others(w), UNCHANGED shown,
         \A c \in Builds \ {b} : data'[c] = data[c],
         data'[b].reported \in {data[b].reported, NoReport}
  PROVE  \A h \in Heads : ShownOK(h)'
<1>. SUFFICES ASSUME NEW h \in Heads, shown[h].by # 0 PROVE ShownOK(h)'
  BY DEF ShownOK
<1>1. shown[h].by \in Builds /\ ShownOK(h) /\ shown[h].decision \in Nat
  BY DEF ReviewInv, PermissionTypeOK
<1>. QED BY <1>1 DEF Others, ShownOK, NoReport

(* The state a submission stores, and what it goes on to. *)
LEMMA SubmissionEnds ==
  ASSUME ReviewInv, Typing', NEW w \in Workers, worker[w].pc = "assess",
         NEW b \in Builds, b = worker[w].build,
         NEW d \in Data, Stores(b, d), Others(w), UNCHANGED shown, d.reported = NoReport,
         d.decision <= service'[b].decision, d.status # "none",
         \A c \in Builds \ {b} : tries'[c] = tries[c],
         d.status = "skipped" => tries'[b] = tries[b],
         d.status \in {"submitted", "failed"} =>
           tries'[b] = tries[b] + 1 /\ d.attempts = data[b].attempts + 1,
         \/ worker'[w] = Idle
         \/ /\ worker'[w] # Idle /\ worker'[w].pc = "recall" /\ worker'[w].build = b
            /\ worker'[w].outcome \in {"not_applicable", "error"} /\ GaveUp(d)
  PROVE  ReviewInv'
<1>1. WorkerOK(w) /\ BuildOK(b) /\ Holding(w) /\ worker[w] # Idle
  BY DEF ReviewInv, Holding, Idle
<1>2. ~Finished(data[b]) /\ rows[b] # NoRow
  BY <1>1 DEF WorkerOK
<1>3. /\ \A v \in Workers \ {w} : Rely(v)
      /\ data'[b] = d /\ \A c \in Builds \ {b} : data'[c] = data[c]
  BY <1>1, <1>2, StoresRelied DEF GaveUp
<1>4. BuildOK(b)'
  <2>1. data[b].status \in {"none", "failed"} /\ tries[b] = data[b].attempts
    <3>1. data[b] \in Data
      BY DEF ReviewInv, PermissionTypeOK
    <3>. QED BY <1>1, <1>2, <3>1, DataFields DEF Finished, BuildOK
  <2>2. d.attempts \in 0..MaxAttempts /\ tries[b] \in Nat
        /\ d.status \in {"none", "submitted", "skipped", "failed"}
    BY DataFields DEF ReviewInv, PermissionTypeOK
  <2>3. tries'[b] <= MaxAttempts
        /\ (d.status \in {"submitted", "failed"} => tries'[b] = d.attempts)
    BY <1>1, <2>1, <2>2, ReviewConstants DEF BuildOK
  <2>4. d.status = "submitted" <=> b \in assessed'
    BY <1>1, <2>1 DEF Stores, BuildOK
  <2>5. service'[b].decision \in Nat
    BY DEF Typing, PermissionTypeOK
  <2>. QED BY <1>2, <1>3, <2>2, <2>3, <2>4, <2>5 DEF BuildOK, Others, NoReport
<1>5. WorkerOK(w)'
  BY <1>2, <1>3 DEF WorkerOK, Holding, GaveUp, Finished, Idle, Others
<1>6. \A c \in Builds : BuildOK(c)'
  BY <1>3, <1>4, StoresBuilds
<1>7. \A h \in Heads : ShownOK(h)'
  BY <1>3, StoresShown
<1>. QED BY <1>3, <1>5, <1>6, <1>7, WorkerKeeps

(* A submission begins: the row was read again under the lock. *)
LEMMA SubmitLocksStep ==
  ASSUME ReviewInv, NEW w \in Workers, SubmitLocks(w)
  PROVE  ReviewInv'
<1>0. PICK b \in Builds : /\ rows[b].stage = "committed" /\ ~Finished(data[b])
                          /\ Acquire(w, b)
                          /\ Go(w, [Idle EXCEPT !.pc = "assess", !.build = b])
  BY DEF SubmitLocks
<1>1. UNCHANGED <<rows, data, shown, tries, assessed, faults, outside>>
  BY DEF SubmitLocks
<1>2. lock' \in [Locks -> Workers \cup {Free}] /\ Moved(w, "assess", b, NoData, "none")
  BY <1>0, BeginTyped DEF ReviewInv
<1>3. Typing'
  BY <1>1, <1>2 DEF Moved, Typing, ReviewInv, PermissionTypeOK, outside
<1>4. Others(w)
  BY <1>1, <1>2 DEF Others, Moved, outside, ReviewInv, PermissionTypeOK
<1>5. (\A v \in Workers \ {w} : Rely(v)) /\ lock'[Lock(b)] = w
  BY <1>0, <1>1, <1>4, AcquireRelied
<1>6. WorkerOK(w)'
  BY <1>0, <1>1, <1>2, <1>5 DEF WorkerOK, Moved, Holding, Finished, NoRow
<1>. QED BY <1>1, <1>3, <1>4, <1>5, <1>6, BuildsKept, ShownKept, WorkerKeeps

(* A refresh begins: the build is the newest submitted one. *)
LEMMA RefreshLocksStep ==
  ASSUME ReviewInv, NEW w \in Workers, RefreshLocks(w)
  PROVE  ReviewInv'
<1>0. PICK b \in Builds : /\ Latest(b) /\ Acquire(w, b)
                          /\ Go(w, [Idle EXCEPT !.pc = "ask", !.build = b])
  BY DEF RefreshLocks
<1>1. UNCHANGED <<rows, data, shown, tries, assessed, faults, outside>>
  BY DEF RefreshLocks
<1>2. lock' \in [Locks -> Workers \cup {Free}] /\ Moved(w, "ask", b, NoData, "none")
  BY <1>0, BeginTyped DEF ReviewInv
<1>3. Typing'
  BY <1>1, <1>2 DEF Moved, Typing, ReviewInv, PermissionTypeOK, outside
<1>4. Others(w)
  BY <1>1, <1>2 DEF Others, Moved, outside, ReviewInv, PermissionTypeOK
<1>5. (\A v \in Workers \ {w} : Rely(v)) /\ lock'[Lock(b)] = w
  BY <1>0, <1>1, <1>4, AcquireRelied
<1>6. data[b].status = "submitted" /\ rows[b] # NoRow
  BY <1>0 DEF Latest, Submitted, ReviewInv, BuildOK
<1>7. Newest(b)
  <2>1. ASSUME NEW c \in assessed, c \notin PushBuilds PROVE c <= b
    <3>1. c \in Builds
      BY DEF ReviewInv, PermissionTypeOK
    <3>2. data[c].status = "submitted"
      BY <3>1 DEF ReviewInv, BuildOK
    <3>. QED BY <1>0, <2>1, <3>1, <3>2 DEF Latest, Submitted
  <2>. QED BY <1>0, <2>1 DEF Newest, Latest, Submitted
<1>8. WorkerOK(w)'
  BY <1>1, <1>2, <1>5, <1>6, <1>7 DEF WorkerOK, Moved, Holding, Newest
<1>. QED BY <1>1, <1>3, <1>4, <1>5, <1>8, BuildsKept, ShownKept, WorkerKeeps

(* A submission that gave up takes the lock again and reads the row. *)
LEMMA SubmitReportsStep ==
  ASSUME ReviewInv, NEW w \in Workers, SubmitReports(w)
  PROVE  ReviewInv'
<1>. PICK b \in Builds : b = worker[w].build
  BY WorkTyped DEF SubmitReports, ReviewInv
<1>0. worker[w].pc = "recall" /\ worker[w] # Idle
  BY DEF SubmitReports, Idle
<1>1. UNCHANGED <<rows, data, shown, tries, assessed, faults, outside>>
  BY DEF SubmitReports
<1>2. /\ lock' \in [Locks -> Workers \cup {Free}] /\ Acquire(w, b)
      /\ Moved(w, "report", b, data[b], worker[w].outcome)
  BY <1>0, RecallTyped DEF ReviewInv
<1>3. Typing'
  BY <1>1, <1>2 DEF Moved, Typing, ReviewInv, PermissionTypeOK, outside
<1>4. Others(w)
  BY <1>1, <1>2 DEF Others, Moved, outside, ReviewInv, PermissionTypeOK
<1>5. (\A v \in Workers \ {w} : Rely(v)) /\ lock'[Lock(b)] = w
  BY <1>1, <1>2, <1>4, AcquireRelied
<1>6. /\ data[b].status # "submitted" /\ rows[b] # NoRow
      /\ worker[w].outcome \in {"not_applicable", "error"}
      /\ data[b].decision <= service[b].decision
  BY <1>0 DEF ReviewInv, WorkerOK, BuildOK, GaveUp
<1>7. ReportOK(w)'
  BY <1>1, <1>2, <1>6 DEF ReportOK, Moved, outside
<1>8. WorkerOK(w)'
  BY <1>1, <1>2, <1>5, <1>6, <1>7 DEF WorkerOK, Moved, Holding
<1>. QED BY <1>1, <1>3, <1>4, <1>5, <1>8, BuildsKept, ShownKept, WorkerKeeps

(* Nothing to submit: the row is marked, and maybe said to be so. *)
LEMMA SubmitSkipsStep ==
  ASSUME ReviewInv, NEW w \in Workers, SubmitSkips(w)
  PROVE  ReviewInv'
<1>. PICK b \in Builds : b = worker[w].build
  BY WorkTyped DEF SubmitSkips, ReviewInv
<1>. DEFINE d == [NoData EXCEPT !.status = "skipped"]
<1>0. worker[w].pc = "assess" /\ UNCHANGED <<rows, shown, tries, faults, outside>>
  BY DEF SubmitSkips
<1>1. /\ d \in Data /\ d.reported = NoReport /\ d.decision = 0 /\ d.status = "skipped"
  BY NoDataTyped DEF NoData, Data
<1>2. PICK o \in {"none", "not_applicable"} : Then(w, o) /\ Stores(b, d)
  BY DEF SubmitSkips
<1>. HIDE DEF d
<1>3. o \in Outcomes \cup {"none"}
  BY DEF Outcomes
<1>4. /\ worker' \in [Workers -> Work]
      /\ o = "none" => worker'[w] = Idle
      /\ o # "none" => Moved(w, "recall", worker[w].build, worker[w].new, o)
      /\ \A v \in Workers \ {w} : worker'[v] = worker[v]
  BY <1>0, <1>2, <1>3, ThenTyped DEF ReviewInv
<1>5. Typing'
  BY <1>0, <1>1, <1>2, <1>4, StoresTyped DEF Typing, ReviewInv, PermissionTypeOK, outside
<1>6. Others(w) /\ service'[b].decision \in Nat
  BY <1>0, <1>4 DEF Others, outside, ReviewInv, PermissionTypeOK
<1>7. \/ worker'[w] = Idle
      \/ /\ worker'[w] # Idle /\ worker'[w].pc = "recall" /\ worker'[w].build = b
         /\ worker'[w].outcome \in {"not_applicable", "error"} /\ GaveUp(d)
  BY <1>1, <1>4 DEF Moved, GaveUp, Finished
<1>. QED BY <1>0, <1>1, <1>2, <1>5, <1>6, <1>7, SubmissionEnds DEF outside

(* The service took the build: its answer is stored. *)
LEMMA SubmitSucceedsStep ==
  ASSUME ReviewInv, NEW w \in Workers, SubmitSucceeds(w)
  PROVE  ReviewInv'
<1>. PICK b \in Builds : b = worker[w].build
  BY WorkTyped DEF SubmitSucceeds, ReviewInv
<1>. DEFINE d == [NoData EXCEPT !.status = "submitted",
                                !.attempts = data[b].attempts + 1,
                                !.outcome = service'[b].outcome,
                                !.decision = service'[b].decision]
<1>0. /\ worker[w].pc = "assess" /\ UNCHANGED <<rows, shown, faults, pull, edits>>
      /\ Assesses(b) /\ Stop(w) /\ tries' = [tries EXCEPT ![b] = @ + 1]
      /\ Stores(b, d)
  BY DEF SubmitSucceeds
<1>1. /\ service' \in [Builds -> [held : BOOLEAN, outcome : Decisions, decision : Nat]]
      /\ service'[b].outcome \in Decisions /\ service'[b].decision \in Nat
      /\ \A c \in Builds : service[c].decision <= service'[c].decision
  BY <1>0, AssessesTyped DEF ReviewInv
<1>2. ~Finished(data[b]) /\ data[b] \in Data
  BY <1>0 DEF ReviewInv, WorkerOK, PermissionTypeOK
<1>3. d \in Data
  BY <1>1, <1>2, TriedTyped DEF Outcomes
<1>4. d.reported = NoReport /\ d.decision = service'[b].decision /\ d.status = "submitted"
      /\ d.attempts = data[b].attempts + 1
  BY DEF NoData
<1>. HIDE DEF d
<1>5. /\ worker' \in [Workers -> Work] /\ worker'[w] = Idle
      /\ \A v \in Workers \ {w} : worker'[v] = worker[v]
  BY <1>0, StopTyped DEF ReviewInv
<1>6. tries' \in [Builds -> Nat] /\ tries'[b] = tries[b] + 1
      /\ \A c \in Builds \ {b} : tries'[c] = tries[c]
  BY <1>0 DEF ReviewInv, PermissionTypeOK
<1>7. Typing'
  BY <1>0, <1>1, <1>3, <1>5, <1>6, StoresTyped DEF Typing, ReviewInv, PermissionTypeOK
<1>8. Others(w)
  BY <1>0, <1>1, <1>5 DEF Others
<1>. QED BY <1>0, <1>1, <1>3, <1>4, <1>5, <1>6, <1>7, <1>8, SubmissionEnds

(* The submission failed, or its reply was lost: one try less. *)
LEMMA SubmitFailsStep ==
  ASSUME ReviewInv, NEW w \in Workers, SubmitFails(w)
  PROVE  ReviewInv'
<1>. PICK b \in Builds : b = worker[w].build
  BY WorkTyped DEF SubmitFails, ReviewInv
<1>. DEFINE d == FailedSubmit(b)
<1>0. /\ worker[w].pc = "assess" /\ UNCHANGED <<rows, shown, pull, edits>>
      /\ Sends(b) /\ Fault /\ tries' = [tries EXCEPT ![b] = @ + 1]
      /\ Stores(b, d)
  BY DEF SubmitFails
<1>1. /\ service' \in [Builds -> [held : BOOLEAN, outcome : Decisions, decision : Nat]]
      /\ \A c \in Builds : service[c].decision <= service'[c].decision
  <2>1. CASE Assesses(b)
    BY <2>1, AssessesTyped DEF ReviewInv
  <2>2. CASE UNCHANGED service
    BY <2>2 DEF ReviewInv, PermissionTypeOK
  <2>. QED BY <1>0, <2>1, <2>2 DEF Sends
<1>2. ~Finished(data[b]) /\ data[b] \in Data
  BY <1>0 DEF ReviewInv, WorkerOK, PermissionTypeOK
<1>3. d \in Data
  BY <1>2, TriedTyped DEF FailedSubmit
<1>4. d.reported = NoReport /\ d.decision = 0 /\ d.status = "failed"
      /\ d.attempts = data[b].attempts + 1
  BY DEF NoData, FailedSubmit
<1>. HIDE DEF d
<1>5. PICK o \in {"none", "error"} : /\ Then(w, o)
                                     /\ o = "error" => d.attempts >= MaxAttempts
  BY DEF SubmitFails, d
<1>6. /\ worker' \in [Workers -> Work]
      /\ o = "none" => worker'[w] = Idle
      /\ o # "none" => Moved(w, "recall", worker[w].build, worker[w].new, o)
      /\ \A v \in Workers \ {w} : worker'[v] = worker[v]
  BY <1>0, <1>5, ThenTyped DEF ReviewInv, Outcomes
<1>7. tries' \in [Builds -> Nat] /\ tries'[b] = tries[b] + 1
      /\ \A c \in Builds \ {b} : tries'[c] = tries[c]
  BY <1>0 DEF ReviewInv, PermissionTypeOK
<1>8. Typing'
  BY <1>0, <1>1, <1>3, <1>6, <1>7, StoresTyped, FaultTyped
  DEF Typing, ReviewInv, PermissionTypeOK
<1>9. Others(w) /\ service'[b].decision \in Nat
  BY <1>0, <1>1, <1>6 DEF Others
<1>10. \/ worker'[w] = Idle
       \/ /\ worker'[w] # Idle /\ worker'[w].pc = "recall" /\ worker'[w].build = b
          /\ worker'[w].outcome \in {"not_applicable", "error"} /\ GaveUp(d)
  BY <1>4, <1>5, <1>6 DEF Moved, GaveUp, Finished
<1>. QED BY <1>0, <1>1, <1>3, <1>4, <1>6, <1>7, <1>8, <1>9, <1>10, SubmissionEnds

(* The pull request is closed or moved on: the worker lets go. *)
LEMMA RefreshEndsStep ==
  ASSUME ReviewInv, NEW w \in Workers, RefreshEnds(w)
  PROVE  ReviewInv'
<1>. PICK b \in Builds : b = worker[w].build
  BY WorkTyped DEF RefreshEnds, ReviewInv
<1>0. /\ worker[w].pc = "ask" /\ UNCHANGED <<rows, shown, tries, faults, outside>>
      /\ Stop(w) /\ Holding(w)
  BY DEF RefreshEnds, Holding
<1>1. /\ worker' \in [Workers -> Work] /\ worker'[w] = Idle
      /\ \A v \in Workers \ {w} : worker'[v] = worker[v]
  BY <1>0, StopTyped DEF ReviewInv
<1>2. Others(w)
  BY <1>0, <1>1 DEF Others, outside, ReviewInv, PermissionTypeOK
<1>3. WorkerOK(w)'
  BY <1>1 DEF WorkerOK, Holding, Idle
<1>4. WorkerOK(w) /\ BuildOK(b) /\ data[b] \in Data /\ lock[Lock(b)] = w
  BY <1>0 DEF ReviewInv, PermissionTypeOK, WorkerOK
<1>5. CASE Stores(b, [data[b] EXCEPT !.closed = TRUE])
  <2>. DEFINE d == [data[b] EXCEPT !.closed = TRUE]
  <2>1. /\ d \in Data /\ d.status = data[b].status /\ d.reported = data[b].reported
        /\ d.attempts = data[b].attempts /\ d.decision = data[b].decision
        /\ d.missing = data[b].missing
    BY <1>4 DEF Data
  <2>. HIDE DEF d
  <2>2. Stores(b, d)
    BY <1>5 DEF d
  <2>3. Typing'
    BY <1>0, <1>1, <2>1, <2>2, StoresTyped DEF Typing, ReviewInv, PermissionTypeOK, outside
  <2>4. /\ \A v \in Workers \ {w} : Rely(v)
        /\ data'[b] = d /\ \A c \in Builds \ {b} : data'[c] = data[c]
    BY <1>0, <1>2, <2>1, <2>2, StoresRelied DEF GaveUp, Finished
  <2>5. BuildOK(b)'
    BY <1>0, <1>4, <2>1, <2>2, <2>4 DEF BuildOK, Stores, outside
  <2>6. \A c \in Builds : BuildOK(c)'
    BY <1>0, <1>2, <2>1, <2>2, <2>3, <2>4, <2>5, StoresBuilds
  <2>7. \A h \in Heads : ShownOK(h)'
    BY <1>0, <1>2, <2>1, <2>4, StoresShown
  <2>. QED BY <1>3, <2>3, <2>4, <2>6, <2>7, WorkerKeeps
<1>6. CASE Release(b) /\ UNCHANGED <<data, assessed>>
  <2>1. lock' \in [Locks -> Workers \cup {Free}]
    BY <1>6, LockTyped DEF Release, ReviewInv, PermissionTypeOK
  <2>2. Typing'
    BY <1>0, <1>1, <1>6, <2>1 DEF Typing, ReviewInv, PermissionTypeOK, outside
  <2>3. \A v \in Workers \ {w} : \A l \in Locks : lock[l] = v => lock'[l] = v
    BY <1>4, <1>6, LockTyped DEF Release, ReviewInv, PermissionTypeOK
  <2>4. \A v \in Workers \ {w} : Rely(v)
    BY <1>2, <1>6, <2>3 DEF Rely, Others, GaveUp, Finished
  <2>. QED BY <1>0, <1>2, <1>3, <1>6, <2>2, <2>4, BuildsKept, ShownKept, WorkerKeeps
<1>. QED BY <1>5, <1>6 DEF RefreshEnds

(* A refresh found something to report: it keeps the lock. *)
LEMMA SaysKeeps ==
  ASSUME ReviewInv, Typing', NEW w \in Workers, worker[w].pc = "ask", Others(w),
         UNCHANGED <<data, tries, assessed, shown, lock>>,
         NEW d, NEW o, Moved(w, "report", worker[w].build, d, o), o # "none", ReportOK(w)'
  PROVE  ReviewInv'
<1>. PICK b \in Builds : b = worker[w].build
  BY WorkTyped DEF ReviewInv
<1>1. WorkerOK(w) /\ Holding(w) /\ worker[w] # Idle
  BY DEF ReviewInv, Holding, Idle
<1>2. lock'[Lock(b)] = w /\ rows'[b] # NoRow
  BY <1>1 DEF WorkerOK, Others
<1>3. WorkerOK(w)'
  BY <1>2 DEF WorkerOK, Moved, Holding
<1>4. \A v \in Workers \ {w} : Rely(v)
  BY DEF Rely, Others, GaveUp, Finished
<1>. QED BY <1>3, <1>4, BuildsKept, ShownKept, WorkerKeeps

(* The target differs, or the assessment is known to be gone. *)
LEMMA RefreshRepeatsStep ==
  ASSUME ReviewInv, NEW w \in Workers, RefreshRepeats(w)
  PROVE  ReviewInv'
<1>. PICK b \in Builds : b = worker[w].build
  BY WorkTyped DEF RefreshRepeats, ReviewInv
<1>0. /\ worker[w].pc = "ask"
      /\ UNCHANGED <<rows, data, lock, shown, tries, assessed, faults, outside>>
  BY DEF RefreshRepeats
<1>1. PICK o \in {"target_changed", "error"} :
        Says(w, data[b], o) /\ (o = "error" => data[b].missing)
  BY DEF RefreshRepeats, Current
<1>2. data[b] \in Data /\ o \in Outcomes /\ BuildOK(b)
  BY DEF Outcomes, ReviewInv, PermissionTypeOK
<1>3. Moved(w, "report", b, data[b], o)
  BY <1>0, <1>1, <1>2, SaysTyped DEF ReviewInv
<1>4. Typing' /\ Others(w)
  BY <1>0, <1>3 DEF Moved, Typing, Others, ReviewInv, PermissionTypeOK, outside
<1>5. ReportOK(w)'
  BY <1>0, <1>1, <1>2, <1>3 DEF ReportOK, Moved, BuildOK, outside
<1>. QED BY <1>0, <1>3, <1>4, <1>5, SaysKeeps

(* The base moved: the build was submitted again, and has a new decision. *)
LEMMA RefreshReassessesStep ==
  ASSUME ReviewInv, NEW w \in Workers, RefreshReassesses(w)
  PROVE  ReviewInv'
<1>. PICK b \in Builds : b = worker[w].build
  BY WorkTyped DEF RefreshReassesses, ReviewInv
<1>. DEFINE o == service'[b].outcome
            d == [data[b] EXCEPT !.outcome = o, !.decision = service'[b].decision,
                                 !.base = pull.base]
<1>0. /\ worker[w].pc = "ask" /\ Assesses(b) /\ ~data[b].missing /\ Says(w, d, o)
      /\ UNCHANGED <<rows, data, lock, shown, tries, assessed, faults, pull, edits>>
  BY DEF RefreshReassesses, Current
<1>1. /\ service' \in [Builds -> [held : BOOLEAN, outcome : Decisions, decision : Nat]]
      /\ o \in Decisions /\ service'[b].decision \in Nat
      /\ \A c \in Builds : service[c].decision <= service'[c].decision
  BY <1>0, AssessesTyped DEF ReviewInv
<1>2. data[b] \in Data /\ o \in Outcomes /\ o \notin {"error", "none"} /\ BuildOK(b)
      /\ WorkerOK(w) /\ pull.base \in Bases /\ service[b].decision \in Nat
  BY <1>1, ReviewConstants DEF Outcomes, ReviewInv, PermissionTypeOK
<1>3. /\ d \in Data /\ d.status = data[b].status /\ d.attempts = data[b].attempts
      /\ d.reported = data[b].reported /\ d.missing = data[b].missing
      /\ d.decision = service'[b].decision
  BY <1>1, <1>2 DEF Data
<1>4. Moved(w, "report", b, d, o)
  BY <1>0, <1>2, <1>3, SaysTyped DEF ReviewInv
<1>5. Typing' /\ Others(w)
  BY <1>0, <1>1, <1>4 DEF Moved, Typing, Others, ReviewInv, PermissionTypeOK
<1>6. /\ data[b].status = "submitted" /\ Newest(b) /\ data[b].reported.decision \in Nat
      /\ data[b].reported.decision <= d.decision
  BY <1>0, <1>1, <1>2, <1>3, DataFields DEF WorkerOK, BuildOK
<1>. HIDE DEF d, o
<1>7. ReportOK(w)'
  BY <1>0, <1>1, <1>2, <1>3, <1>4, <1>6 DEF ReportOK, Moved, Newest
<1>. QED BY <1>0, <1>2, <1>4, <1>5, <1>7, SaysKeeps

(* The assessment was read, or is gone. *)
LEMMA RefreshReadsStep ==
  ASSUME ReviewInv, NEW w \in Workers, RefreshReads(w)
  PROVE  ReviewInv'
<1>. PICK b \in Builds : b = worker[w].build
  BY WorkTyped DEF RefreshReads, ReviewInv
<1>. DEFINE d == IF service[b].held
                   THEN [data[b] EXCEPT !.outcome = service[b].outcome,
                                        !.decision = service[b].decision]
                   ELSE Missing(data[b])
<1>0. /\ worker[w].pc = "ask" /\ ~data[b].missing /\ Says(w, d, d.outcome)
      /\ UNCHANGED <<rows, data, lock, shown, tries, assessed, faults, outside>>
  BY DEF RefreshReads, Current
<1>2. data[b] \in Data /\ BuildOK(b) /\ WorkerOK(w) /\ service[b].decision \in Nat
      /\ service[b].outcome \in Outcomes \ {"error", "none"}
  BY ReviewConstants DEF Outcomes, ReviewInv, PermissionTypeOK
<1>3. /\ d \in Data /\ d.status = data[b].status /\ d.attempts = data[b].attempts
      /\ d.reported = data[b].reported /\ d.outcome \in Outcomes
      /\ d.outcome # "none" /\ d.decision <= service[b].decision
      /\ d.outcome = "error" => d.missing
      /\ d.outcome = "accepted" => ~d.missing /\ d.decision = service[b].decision
  <2>1. CASE service[b].held
    <3>1. /\ d \in Data /\ d.status = data[b].status /\ d.attempts = data[b].attempts
          /\ d.reported = data[b].reported /\ d.missing = data[b].missing
          /\ d.outcome = service[b].outcome /\ d.decision = service[b].decision
      BY <1>2, <2>1 DEF Data
    <3>2. ~d.missing /\ d.outcome \in Outcomes \ {"error", "none"}
      BY <1>0, <1>2, <3>1
    <3>3. d.decision <= service[b].decision
      BY <1>2, <3>1
    <3>. HIDE DEF d
    <3>. QED BY <3>1, <3>2, <3>3
  <2>2. CASE ~service[b].held
    <3>1. d \in Data /\ "error" \in Outcomes
      BY <1>2, <2>2, MissingTyped
    <3>2. /\ d.status = data[b].status /\ d.attempts = data[b].attempts
          /\ d.reported = data[b].reported /\ d.missing
          /\ d.outcome = "error" /\ d.decision = 0
      BY <1>2, <2>2 DEF Data, Missing
    <3>. QED BY <1>2, <3>1, <3>2
  <2>. QED BY <2>1, <2>2
<1>. HIDE DEF d
<1>4. Moved(w, "report", b, d, d.outcome)
  BY <1>0, <1>3, SaysTyped DEF ReviewInv
<1>5. Typing' /\ Others(w)
  BY <1>0, <1>4 DEF Moved, Typing, Others, ReviewInv, PermissionTypeOK, outside
<1>6. /\ data[b].status = "submitted" /\ Newest(b) /\ data[b].reported.decision \in Nat
      /\ data[b].reported.decision <= service[b].decision
  BY <1>0, <1>2, DataFields DEF WorkerOK, BuildOK
<1>7. ReportOK(w)'
  BY <1>0, <1>2, <1>3, <1>4, <1>6 DEF ReportOK, Moved, Newest, outside
<1>. QED BY <1>0, <1>3, <1>4, <1>5, <1>7, SaysKeeps

-----------------------------------------------------------------------------
(* Reports                                                                 *)

(* A head that shows a new report shows what the build recorded, or more   *)
(* than it recorded: the marker is either stored with the status or left.  *)
LEMMA ShowsKeeps ==
  ASSUME ReviewInv, NEW w \in Workers, worker[w].pc = "report",
         NEW b \in Builds, b = worker[w].build, rows' = rows,
         \A c \in Builds \ {b} : data'[c] = data[c],
         \/ Shows(w) /\ data'[b].reported = Marker(worker[w].new, worker[w].outcome)
         \/ (Shows(w) \/ UNCHANGED shown) /\ data'[b].reported = data[b].reported
  PROVE  \A h \in Heads : ShownOK(h)'
<1>. SUFFICES ASSUME NEW h \in Heads, shown'[h].by # 0 PROVE ShownOK(h)'
  BY DEF ShownOK
<1>0. WorkerOK(w) /\ ReportOK(w) /\ BuildOK(b) /\ worker[w] # Idle /\ rows[b] # NoRow
  BY DEF ReviewInv, WorkerOK, Idle
<1>1. ShownOK(h) /\ shown[h].by \in Builds \cup {0}
  BY DEF ReviewInv, PermissionTypeOK
<1>2. CASE Shows(w) /\ h = rows[b].head
  <2>1. /\ shown'[h].by = b /\ shown'[h].outcome = worker[w].outcome
        /\ shown'[h].decision = worker[w].new.decision
    BY <1>2 DEF Shows, ReviewInv, PermissionTypeOK
  <2>2. worker[w].outcome = "accepted" =>
          /\ data[b].reported.outcome # "error"
          /\ data[b].reported.decision <= worker[w].new.decision
    BY <1>0 DEF ReportOK, BuildOK
  <2>3. worker[w].new.decision \in Nat
    BY WorkTyped, DataFields DEF ReviewInv
  <2>. QED BY <1>0, <1>2, <2>1, <2>2, <2>3 DEF ShownOK, Marker
<1>3. CASE Shows(w) /\ h # rows[b].head
  <2>1. shown'[h] = shown[h]
    BY <1>3 DEF Shows, ReviewInv, PermissionTypeOK
  <2>2. shown[h].by # b
    BY <1>1, <1>3, <2>1 DEF ShownOK
  <2>. QED BY <1>1, <2>1, <2>2 DEF ShownOK
<1>4. CASE UNCHANGED shown /\ data'[b].reported = data[b].reported
  BY <1>1, <1>4 DEF ShownOK
<1>. QED BY <1>2, <1>3, <1>4

(* The state a report stores: with its marker, or as it was carried. *)
LEMMA ReportEnds ==
  ASSUME ReviewInv, Typing', NEW w \in Workers, worker[w].pc = "report",
         NEW b \in Builds, b = worker[w].build, NEW d \in Data, Stores(b, d),
         UNCHANGED <<rows, tries, service>>,
         worker'[w] = Idle, \A v \in Workers \ {w} : worker'[v] = worker[v],
         d.status = worker[w].new.status, d.attempts = worker[w].new.attempts,
         d.decision = worker[w].new.decision, d.missing = worker[w].new.missing,
         d.reported \in {worker[w].new.reported, Marker(worker[w].new, worker[w].outcome)},
         \A h \in Heads : ShownOK(h)'
  PROVE  ReviewInv'
<1>1. /\ Holding(w) /\ WorkerOK(w) /\ BuildOK(b) /\ ReportOK(w)
      /\ data[b] \in Data /\ worker[w].new \in Data
  BY WorkTyped DEF Holding, ReviewInv, WorkerOK, PermissionTypeOK
<1>2. Others(w)
  BY DEF Others, ReviewInv, PermissionTypeOK
<1>3. /\ \A v \in Workers \ {w} : Rely(v)
      /\ data'[b] = d /\ \A c \in Builds \ {b} : data'[c] = data[c]
  BY <1>1, <1>2, StoresRelied DEF ReportOK, GaveUp, Finished
<1>4. BuildOK(b)'
  <2>1. d.status = data[b].status /\ d.attempts = data[b].attempts
        /\ d.decision <= service[b].decision
    BY <1>1 DEF ReportOK
  <2>2. d.status = "submitted" <=> b \in assessed'
    BY <1>1, <2>1 DEF BuildOK, Stores
  <2>3. /\ d.reported.decision <= service[b].decision
        /\ d.status = "submitted" /\ d.reported.outcome = "error" => d.missing
    <3>1. CASE d.reported = worker[w].new.reported
      BY <1>1, <2>1, <3>1 DEF ReportOK, BuildOK
    <3>2. CASE d.reported = Marker(worker[w].new, worker[w].outcome)
      BY <1>1, <2>1, <3>2 DEF ReportOK, Marker
    <3>. QED BY <3>1, <3>2
  <2>. QED BY <1>1, <1>3, <2>1, <2>2, <2>3 DEF BuildOK
<1>5. \A c \in Builds : BuildOK(c)'
  BY <1>2, <1>3, <1>4, StoresBuilds
<1>6. WorkerOK(w)'
  BY DEF WorkerOK, Holding, Idle
<1>. QED BY <1>3, <1>5, <1>6, WorkerKeeps

(* Nothing to say: the state is kept. *)
LEMMA ReportNeedlessStep ==
  ASSUME ReviewInv, NEW w \in Workers, ReportNeedless(w)
  PROVE  ReviewInv'
<1>. PICK b \in Builds : b = worker[w].build
  BY WorkTyped DEF ReportNeedless, ReviewInv
<1>0. /\ worker[w].pc = "report" /\ UNCHANGED <<rows, shown, tries, faults, outside>>
      /\ Stop(w) /\ Stores(b, worker[w].new)
  BY DEF ReportNeedless
<1>1. worker[w].new \in Data /\ ReportOK(w)
  BY <1>0, WorkTyped DEF ReviewInv, WorkerOK
<1>2. /\ worker' \in [Workers -> Work] /\ worker'[w] = Idle
      /\ \A v \in Workers \ {w} : worker'[v] = worker[v]
  BY <1>0, StopTyped DEF ReviewInv
<1>3. Typing'
  BY <1>0, <1>1, <1>2, StoresTyped DEF Typing, ReviewInv, PermissionTypeOK, outside
<1>4. data'[b] = worker[w].new /\ \A c \in Builds \ {b} : data'[c] = data[c]
  BY <1>0 DEF Stores, ReviewInv, PermissionTypeOK
<1>5. \A h \in Heads : ShownOK(h)'
  BY <1>0, <1>1, <1>4, ShowsKeeps DEF ReportOK
<1>. QED BY <1>0, <1>1, <1>2, <1>3, <1>5, ReportEnds DEF outside

(* The status is posted and the marker stored. *)
LEMMA ReportPostsStep ==
  ASSUME ReviewInv, NEW w \in Workers, ReportPosts(w)
  PROVE  ReviewInv'
<1>. PICK b \in Builds : b = worker[w].build
  BY WorkTyped DEF ReportPosts, ReviewInv
<1>. DEFINE d == Reported(w)
<1>0. /\ worker[w].pc = "report" /\ UNCHANGED <<rows, tries, faults, outside>>
      /\ Stop(w) /\ Shows(w) /\ Stores(b, d)
  BY DEF ReportPosts
<1>1. worker[w].new \in Data /\ worker[w].outcome \in Outcomes
  BY <1>0, WorkTyped DEF ReviewInv, WorkerOK
<1>2. /\ d \in Data /\ d.status = worker[w].new.status
      /\ d.attempts = worker[w].new.attempts /\ d.decision = worker[w].new.decision
      /\ d.missing = worker[w].new.missing
      /\ d.reported = Marker(worker[w].new, worker[w].outcome)
  <2>1. d \in Data
    BY <1>1, MarkerTyped DEF Reported
  <2>. QED BY <1>1, <2>1 DEF Reported, Data
<1>. HIDE DEF d
<1>3. /\ worker' \in [Workers -> Work] /\ worker'[w] = Idle
      /\ \A v \in Workers \ {w} : worker'[v] = worker[v]
  BY <1>0, StopTyped DEF ReviewInv
<1>4. Typing'
  BY <1>0, <1>2, <1>3, StoresTyped, ShowsTyped
  DEF Typing, ReviewInv, PermissionTypeOK, outside
<1>5. data'[b] = d /\ \A c \in Builds \ {b} : data'[c] = data[c]
  BY <1>0 DEF Stores, ReviewInv, PermissionTypeOK
<1>6. \A h \in Heads : ShownOK(h)'
  BY <1>0, <1>2, <1>5, ShowsKeeps
<1>. QED BY <1>0, <1>2, <1>3, <1>4, <1>6, ReportEnds DEF outside

(* The status was lost, or its reply: the state is kept without marker. *)
LEMMA ReportFailsStep ==
  ASSUME ReviewInv, NEW w \in Workers, ReportFails(w)
  PROVE  ReviewInv'
<1>. PICK b \in Builds : b = worker[w].build
  BY WorkTyped DEF ReportFails, ReviewInv
<1>0. /\ worker[w].pc = "report" /\ UNCHANGED <<rows, tries, outside>>
      /\ Stop(w) /\ Fault /\ (Shows(w) \/ UNCHANGED shown) /\ Stores(b, worker[w].new)
  BY DEF ReportFails, Unreported
<1>1. worker[w].new \in Data /\ ReportOK(w)
  BY <1>0, WorkTyped DEF ReviewInv, WorkerOK
<1>2. /\ worker' \in [Workers -> Work] /\ worker'[w] = Idle
      /\ \A v \in Workers \ {w} : worker'[v] = worker[v]
  BY <1>0, StopTyped DEF ReviewInv
<1>3. Typing'
  BY <1>0, <1>1, <1>2, StoresTyped, ShowsTyped, FaultTyped
  DEF Typing, ReviewInv, PermissionTypeOK, outside
<1>4. data'[b] = worker[w].new /\ \A c \in Builds \ {b} : data'[c] = data[c]
  BY <1>0 DEF Stores, ReviewInv, PermissionTypeOK
<1>5. \A h \in Heads : ShownOK(h)'
  BY <1>0, <1>1, <1>4, ShowsKeeps DEF ReportOK
<1>. QED BY <1>0, <1>1, <1>2, <1>3, <1>5, ReportEnds DEF outside

-----------------------------------------------------------------------------
(* A worker that dies, and the theorems                                    *)

(* Whatever it had sent, nothing was stored; its lock is free again. *)
LEMMA WorkerDiesStep ==
  ASSUME ReviewInv, NEW w \in Workers, WorkerDies(w)
  PROVE  ReviewInv'
<1>0. /\ Fault /\ Stop(w) /\ UNCHANGED <<rows, data, tries, assessed, pull, edits>>
      /\ lock' = [l \in Locks |-> IF lock[l] = w THEN Free ELSE lock[l]]
      /\ worker[w].pc # "idle"
  BY DEF WorkerDies, ReviewInv, PermissionTypeOK, Work
<1>. PICK b \in Builds : b = worker[w].build
  BY <1>0, WorkTyped DEF ReviewInv
<1>1. \/ worker[w].pc = "assess" /\ Sends(b) /\ UNCHANGED shown
      \/ worker[w].pc = "report" /\ (Shows(w) \/ UNCHANGED shown) /\ UNCHANGED service
      \/ UNCHANGED <<service, shown>>
  BY DEF WorkerDies
<1>2. /\ service' \in [Builds -> [held : BOOLEAN, outcome : Decisions, decision : Nat]]
      /\ \A c \in Builds : service[c].decision <= service'[c].decision
  <2>1. CASE Assesses(b)
    BY <2>1, AssessesTyped DEF ReviewInv
  <2>2. CASE UNCHANGED service
    BY <2>2 DEF ReviewInv, PermissionTypeOK
  <2>. QED BY <1>1, <2>1, <2>2 DEF Sends
<1>3. /\ worker' \in [Workers -> Work] /\ worker'[w] = Idle
      /\ \A v \in Workers \ {w} : worker'[v] = worker[v]
  BY <1>0, StopTyped DEF ReviewInv
<1>4. lock' \in [Locks -> Workers \cup {Free}]
  BY <1>0 DEF ReviewInv, PermissionTypeOK
<1>5. shown' \in [Heads -> [outcome : Outcomes \cup {"none"}, decision : Nat,
                            by : Builds \cup {0}]]
  BY <1>0, <1>1, ShowsTyped DEF ReviewInv, PermissionTypeOK
<1>6. Typing'
  BY <1>0, <1>2, <1>3, <1>4, <1>5, FaultTyped DEF Typing, ReviewInv, PermissionTypeOK
<1>7. Others(w)
  BY <1>0, <1>2, <1>3 DEF Others
<1>8. \A v \in Workers \ {w} : Rely(v)
  BY <1>0, <1>7 DEF Others, Rely, GaveUp, Finished
<1>9. WorkerOK(w)'
  BY <1>3 DEF WorkerOK, Holding, Idle
<1>10. \A h \in Heads : ShownOK(h)'
  <2>1. CASE UNCHANGED shown
    BY <1>0, <1>7, <2>1, ShownKept
  <2>2. CASE worker[w].pc = "report" /\ Shows(w)
    BY <1>0, <2>2, ShowsKeeps
  <2>. QED BY <1>1, <2>1, <2>2
<1>. QED BY <1>0, <1>6, <1>7, <1>8, <1>9, <1>10, BuildsKept, WorkerKeeps

(* No row, no assessment, no lock and no report. *)
LEMMA ReviewInit == Init => ReviewInv
<1>. SUFFICES ASSUME Init PROVE ReviewInv
  OBVIOUS
<1>1. 1 \in Heads /\ 1 \in Bases /\ MaxFaults \in Nat /\ MaxEdits \in Nat /\ MaxAttempts \in Nat
  BY ReviewConstants DEF Heads, Bases
<1>2. /\ pull \in [open : BOOLEAN, head : Heads, target : Targets, base : Bases]
      /\ pull.head <= edits + 1 /\ pull.base <= edits + 1 /\ edits = 0
  BY <1>1, ReviewConstants DEF Init
<1>3. "accepted" \in Decisions
  BY ReviewConstants
<1>4. PermissionTypeOK
  BY <1>1, <1>2, <1>3, NoDataTyped DEF Init, PermissionTypeOK, Row, Work, Unassessed, NotShown
<1>5. ASSUME NEW w \in Workers PROVE WorkerOK(w)
  BY DEF Init, WorkerOK, Holding, Idle
<1>6. ASSUME NEW b \in Builds PROVE BuildOK(b)
  BY <1>1 DEF Init, BuildOK, NoData, NoReport, Unassessed
<1>7. ASSUME NEW h \in Heads PROVE ShownOK(h)
  BY DEF Init, ShownOK, NotShown
<1>. QED BY <1>2, <1>4, <1>5, <1>6, <1>7 DEF ReviewInv

(* A step that changes nothing. *)
LEMMA ReviewStutter == ASSUME ReviewInv, UNCHANGED vars PROVE ReviewInv'
<1>1. Typing'
  BY DEF vars, outside, Typing, ReviewInv, PermissionTypeOK
<1>2. Around
  BY DEF vars, outside, Around, ReviewInv, PermissionTypeOK
<1>. QED BY <1>1, <1>2, AroundKeeps

(* Every step keeps the invariant. *)
LEMMA ReviewNext == ASSUME ReviewInv, [Next]_vars PROVE ReviewInv'
<1>1. ASSUME NEW w \in Workers, Submits(w) PROVE ReviewInv'
  BY <1>1, SubmitLocksStep, SubmitSkipsStep, SubmitSucceedsStep, SubmitFailsStep,
     SubmitReportsStep DEF Submits
<1>2. ASSUME NEW w \in Workers, Refreshes(w) PROVE ReviewInv'
  BY <1>2, RefreshLocksStep, RefreshEndsStep, RefreshRepeatsStep, RefreshReassessesStep,
     RefreshReadsStep DEF Refreshes
<1>3. ASSUME NEW w \in Workers, Reports(w) PROVE ReviewInv'
  BY <1>3, ReportNeedlessStep, ReportPostsStep, ReportFailsStep DEF Reports
<1>4. CASE Environment
  BY <1>4, RowSteps, ServiceSteps, PullSteps DEF Environment
<1>. QED BY <1>1, <1>2, <1>3, <1>4, WorkerDiesStep, ReviewStutter DEF Next

(* The invariant of the locks, the rows and what is shown. *)
LEMMA ReviewSafe == Spec => []ReviewInv
BY ReviewInit, ReviewNext, PTL DEF Spec

(* Types, and tries: however many cron runs, monitors and notifications    *)
(* overlap, a build is tried MAX_ATTEMPTS times at most and never again    *)
(* once it was submitted.                                                  *)
THEOREM TriesAreBounded == Spec => []PermissionsOK
<1>1. ReviewInv => PermissionsOK
  BY DEF ReviewInv, BuildOK, PermissionsOK, TriesBounded
<1>. QED BY <1>1, ReviewSafe, PTL

(* An approval shown on a head is the last word of the build that gave it: *)
(* no refresh that read an older decision overtakes it.                    *)
THEOREM ApprovalStands == Spec => []ApprovalIsLastWord
<1>1. ReviewInv => ApprovalIsLastWord
  BY DEF ReviewInv, ShownOK, ApprovalIsLastWord
<1>. QED BY <1>1, ReviewSafe, PTL

(* Once a newer build of the pull request was submitted, no worker posts   *)
(* the approval of an older one, even one it read before.                  *)
THEOREM NoOlderApproval == Spec => OlderApprovalNeverReturns
<1>. DEFINE Never ==
       \A h \in Heads :
         shown'[h] # shown[h] /\ shown'[h].outcome = "accepted" =>
           \A c \in assessed : c \in PushBuilds \/ c <= shown'[h].by
<1>1. ASSUME ReviewInv, NEW w \in Workers, worker[w].pc = "report", Shows(w) PROVE Never
  <2>1. worker[w].build \in Builds /\ ReportOK(w)
    BY <1>1, WorkTyped DEF ReviewInv, WorkerOK
  <2>2. ASSUME NEW h \in Heads, shown'[h] # shown[h]
        PROVE  shown'[h].by = worker[w].build /\ shown'[h].outcome = worker[w].outcome
    BY <1>1, <2>2 DEF Shows, ReviewInv, PermissionTypeOK
  <2>. QED BY <2>1, <2>2 DEF ReportOK, Newest
<1>2. ASSUME ReviewInv, TargetChanges PROVE Never
  BY <1>2 DEF TargetChanges, NotShown, ReviewInv, PermissionTypeOK
<1>3. ASSUME UNCHANGED shown PROVE Never
  BY <1>3
<1>4. ASSUME ReviewInv, [Next]_vars PROVE Never
  <2>1. ASSUME NEW w \in Workers, Submits(w) PROVE UNCHANGED shown
    BY <2>1 DEF Submits, SubmitLocks, SubmitSkips, SubmitSucceeds, SubmitFails, SubmitReports
  <2>2. ASSUME NEW w \in Workers, Refreshes(w) PROVE UNCHANGED shown
    BY <2>2 DEF Refreshes, RefreshLocks, RefreshEnds, RefreshRepeats, RefreshReassesses,
       RefreshReads
  <2>3. ASSUME NEW w \in Workers, Reports(w)
        PROVE  UNCHANGED shown \/ (worker[w].pc = "report" /\ Shows(w))
    BY <2>3 DEF Reports, ReportNeedless, ReportPosts, ReportFails
  <2>4. ASSUME NEW w \in Workers, WorkerDies(w)
        PROVE  UNCHANGED shown \/ (worker[w].pc = "report" /\ Shows(w))
    BY <2>4 DEF WorkerDies
  <2>5. ASSUME Environment PROVE UNCHANGED shown \/ TargetChanges
    BY <2>5 DEF Environment, RowCreated, RowCommitted, RowPasses, Decides, Vanishes,
       PullPushed, PullCloses, BaseMoves
  <2>6. UNCHANGED vars => UNCHANGED shown
    BY DEF vars
  <2>. QED BY <1>1, <1>2, <1>3, <1>4, <2>1, <2>2, <2>3, <2>4, <2>5, <2>6 DEF Next
<1>5. ReviewInv /\ [Next]_vars => [Never]_vars
  BY <1>4
<1>. QED BY <1>5, ReviewSafe, PTL DEF Spec, OlderApprovalNeverReturns
==============================================================================
