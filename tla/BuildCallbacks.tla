-------------------------- MODULE BuildCallbacks ---------------------------
(***************************************************************************)
(* What happens to a dispatched pipeline until it succeeds, fails or is    *)
(* given up: the callbacks its workflow posts (curl retries them, so they  *)
(* are delivered late and more than once), `bot, cancel`, the timeout of   *)
(* the job monitor and the expiry of rows nobody started.                  *)
(*                                                                         *)
(* None of these handlers locks the row.  They read it, await GitHub or    *)
(* flat-manager, and write the status they computed from what they read.   *)
(***************************************************************************)
EXTENDS BuildScheduling

CONSTANTS
  Callers,       \* concurrent callback requests
  MaxDeliveries  \* bound: callbacks of each kind delivered for one row

ASSUME DeliveriesAssumption == MaxDeliveries \in Nat

VARIABLES
  call,         \* the callback request each caller is serving
  delivered,    \* status callbacks accepted for each row
  logged,       \* log_url callbacks accepted for each row
  botCancel,    \* the `bot, cancel` command in progress
  timingOut     \* rows the monitor found overdue and is asking GitHub about

callVars == <<call, delivered, logged, botCancel, timingOut>>

Results == {"success", "failure", "cancelled"}

NoCall == [phase |-> "idle", row |-> 0, seen |-> "absent", value |-> "success",
           infra |-> FALSE, build |-> FALSE, known |-> {}]

Calls ==
  [phase : {"idle", "status", "commit", "retry", "log"},
   row : Pipelines \cup {0},
   seen : PipelineStatus,
   value : Results,
   infra : BOOLEAN,
   build : BOOLEAN,
   known : SUBSET Provider]

NoCancel == [phase |-> "idle", rows |-> {}, builds |-> {}, runs |-> {}]

CallTypeOK ==
  /\ call \in [Callers -> Calls]
  /\ \A c \in Callers : call[c].phase # "idle" =>
       /\ call[c].row \in Pipelines
       /\ Exists(call[c].row)
  /\ delivered \in [Pipelines -> 0 .. MaxDeliveries]
  /\ logged \in [Pipelines -> 0 .. MaxDeliveries]
  /\ botCancel \in [phase : {"idle", "read", "committed"},
                    rows : SUBSET Pipelines,
                    builds : SUBSET Pipelines,
                    runs : SUBSET Pipelines]
  /\ timingOut \subseteq Pipelines

CallInit ==
  /\ call = [c \in Callers |-> NoCall]
  /\ delivered = [p \in Pipelines |-> 0]
  /\ logged = [p \in Pipelines |-> 0]
  /\ botCancel = NoCancel
  /\ timingOut = {}

-----------------------------------------------------------------------------
(* The workflow run *)

(* A run takes minutes: it outlasts the commit that follows its dispatch. *)
RunEnds(p) ==
  /\ "run ends" \in Events
  /\ run[p] = "active"
  /\ tx[p] = "none"
  /\ \E r \in Results : run' = [run EXCEPT ![p] = r]
  /\ UNCHANGED <<rowVars, dispatches, purgeAsked, stopAsked, commitAsked,
                 schedVars, callVars>>

-----------------------------------------------------------------------------
(* handle_status_callback *)

(* The row is read and checked; a failure or a cancellation is looked up   *)
(* on GitHub, which may say that the infrastructure cancelled the run.     *)
StatusRead(c, p) ==
  /\ call[c] = NoCall
  /\ run[p] \in Results
  /\ status[p] \notin Finalized
  /\ delivered[p] < MaxDeliveries
  /\ delivered' = [delivered EXCEPT ![p] = @ + 1]
  /\ \E infra \in BOOLEAN :
       /\ infra => run[p] # "success"
       /\ call' = [call EXCEPT ![c] =
            [phase |-> "status", row |-> p, seen |-> status[p],
             value |-> run[p], infra |-> infra, build |-> buildId[p], known |-> {}]]
  /\ UNCHANGED <<rowVars, outVars, schedVars, logged, botCancel, timingOut>>

\* Bug: the word of the callback is stored.
BugRawOutcome(value, infra) == IF value = "success" THEN "success" ELSE "failed"

Outcome(value, infra) ==
  IF value = "success" THEN "succeeded"
  ELSE IF value = "failure" /\ ~infra THEN "failed"
  ELSE "cancelled"

\* Bug: only the builds of stable and beta are committed.
BugTestNotCommitted(k) ==
  IF k.value = "success" /\ k.build /\ request[k.row].lane \in ProdLanes
    THEN [k EXCEPT !.phase = "commit"]
    ELSE NoCall

AfterStatus(k) ==
  IF /\ k.infra
     /\ request[k.row].lane \in ProdLanes
     /\ request[k.row].kind # "autoretry"
    THEN [k EXCEPT !.phase = "retry"]
    ELSE IF k.value = "success" /\ k.build
      THEN [k EXCEPT !.phase = "commit"]
      ELSE NoCall

(* The commit writes the status unless it is the one that was read. *)
StatusWrite(c) ==
  LET k == call[c]
      new == Outcome(k.value, k.infra)
  IN /\ k.phase = "status"
     /\ ~Locked(k.row)
     /\ IF new = k.seen THEN UNCHANGED status ELSE SetStatus({k.row}, new)
     /\ call' = [call EXCEPT ![c] = AfterStatus(k)]
     /\ UNCHANGED <<request, startAfter, order, prepared, buildId, logUrl, provider,
                    outVars, schedVars, delivered, logged, botCancel, timingOut>>

(* flat-manager is asked to commit the build; errors are logged. *)
CommitBuild(c) ==
  /\ call[c].phase = "commit"
  /\ commitAsked' = commitAsked \cup {call[c].row}
  /\ call' = [call EXCEPT ![c] = NoCall]
  /\ UNCHANGED <<rowVars, run, dispatches, purgeAsked, stopAsked, schedVars,
                 delivered, logged, botCancel, timingOut>>

RetryOf(r) == [kind |-> "autoretry", lane |-> r.lane, spot |-> r.spot]

(* _auto_retry_on_demand inserts a copy of the row and starts it. *)
AutoRetry(c) ==
  /\ call[c].phase = "retry"
  /\ \E p \in Pipelines :
       /\ InsertRow(p, RetryOf(request[call[c].row]), 0)
       /\ Goto(p, "start")
  /\ call' = [call EXCEPT ![c] = NoCall]
  /\ UNCHANGED <<outVars, tx, conflicts, claimed, drain, faults,
                 delivered, logged, botCancel, timingOut>>

(* The insertion fails, or the instance has no row left. *)
AutoRetryFails(c) ==
  /\ call[c].phase = "retry"
  /\ call' = [call EXCEPT ![c] = NoCall]
  /\ UNCHANGED <<rowVars, outVars, schedVars,
                 delivered, logged, botCancel, timingOut>>

-----------------------------------------------------------------------------
(* handle_log_url_callback *)

LogRead(c, p) ==
  /\ call[c] = NoCall
  /\ run[p] # "none"
  /\ ~logUrl[p]
  /\ logged[p] < MaxDeliveries
  /\ logged' = [logged EXCEPT ![p] = @ + 1]
  /\ call' = [call EXCEPT ![c] =
       [phase |-> "log", row |-> p, seen |-> status[p],
        value |-> "success", infra |-> FALSE, build |-> FALSE,
        known |-> provider[p]]]
  /\ UNCHANGED <<rowVars, outVars, schedVars, delivered, botCancel, timingOut>>

(* The run is added to provider_data as it was read; a row that was read as *)
(* cancelled has its run stopped, which needs the repository too.           *)
LogWrite(c) ==
  LET p == call[c].row
      known == call[c].known \cup {"run"}
  IN
  /\ call[c].phase = "log"
  /\ ~Locked(p)
  /\ logUrl' = [logUrl EXCEPT ![p] = TRUE]
  /\ provider' = [provider EXCEPT ![p] = known]
  /\ CancelPipelines({}, IF call[c].seen = "cancelled" /\ known = Provider
                           THEN {p} ELSE {})
  /\ call' = [call EXCEPT ![c] = NoCall]
  /\ UNCHANGED <<status, request, startAfter, order, prepared, buildId,
                 run, dispatches, commitAsked, schedVars,
                 delivered, logged, botCancel, timingOut>>

-----------------------------------------------------------------------------
(* `bot, cancel` on a pull request *)

BotCancelRead(l) ==
  LET rows == {q \in InLane(l) : status[q] \in Live} IN
  /\ "bot cancel" \in Events
  /\ botCancel = NoCancel
  /\ rows # {}
  /\ botCancel' = [phase |-> "read", rows |-> rows,
                   builds |-> WithBuild(rows), runs |-> WithRun(rows)]
  /\ UNCHANGED <<rowVars, outVars, schedVars, call, delivered, logged, timingOut>>

BotCancelCommit ==
  /\ botCancel.phase = "read"
  /\ AllFree(botCancel.rows)
  /\ SetStatus(botCancel.rows, "cancelled")
  /\ botCancel' = [botCancel EXCEPT !.phase = "committed"]
  /\ UNCHANGED <<request, startAfter, order, prepared, buildId, logUrl, provider,
                 outVars, schedVars, call, delivered, logged, timingOut>>

(* cancel_pipeline with the build ids and run ids as they were read. *)
BotCancelStop ==
  /\ botCancel.phase = "committed"
  /\ CancelPipelines(botCancel.builds, botCancel.runs)
  /\ botCancel' = NoCancel
  /\ UNCHANGED <<rowVars, run, dispatches, commitAsked, schedVars,
                 call, delivered, logged, timingOut>>

-----------------------------------------------------------------------------
(* The job monitor *)

\* Bug: a row that never reported its run is not looked at.
BugTimeoutNeedsRun(p) ==
  /\ "overdue" \in Events
  /\ status[p] = "running"
  /\ logUrl[p]
  /\ p \notin timingOut
  /\ timingOut' = timingOut \cup {p}
  /\ UNCHANGED <<rowVars, outVars, schedVars, call, delivered, logged, botCancel>>

(* _expire_timed_out_running_build: a running row past its cutoff, then    *)
(* the jobs of its run are read from GitHub.                               *)
TimeoutRead(p) ==
  /\ "overdue" \in Events
  /\ status[p] = "running"
  /\ p \notin timingOut
  /\ timingOut' = timingOut \cup {p}
  /\ UNCHANGED <<rowVars, outVars, schedVars, call, delivered, logged, botCancel>>

(* The run started too long ago. *)
TimeoutWrite(p) ==
  /\ p \in timingOut
  /\ ~Locked(p)
  /\ SetStatus({p}, "cancelled")
  /\ timingOut' = timingOut \ {p}
  /\ UNCHANGED <<request, startAfter, order, prepared, buildId, logUrl, provider,
                 outVars, schedVars, call, delivered, logged, botCancel>>

(* GitHub did not answer, or the run was queued and is not overdue. *)
TimeoutKeep(p) ==
  /\ p \in timingOut
  /\ timingOut' = timingOut \ {p}
  /\ UNCHANGED <<rowVars, outVars, schedVars, call, delivered, logged, botCancel>>

\* Bug: only rows whose preparation was committed expire.
BugExpirePrepared(p) ==
  /\ "stale" \in Events
  /\ status[p] = "pending"
  /\ prepared[p]
  /\ step[p] = "done"
  /\ ~Locked(p)
  /\ SetStatus({p}, "expired")
  /\ UNCHANGED <<request, startAfter, order, prepared, buildId, logUrl, provider,
                 outVars, schedVars, callVars>>

(* A row still pending 48 hours after its creation, long after the handler *)
(* that created it returned or died.                                       *)
ExpireStale(p) ==
  /\ "stale" \in Events
  /\ status[p] = "pending"
  /\ step[p] = "done"
  /\ ~Locked(p)
  /\ SetStatus({p}, "expired")
  /\ UNCHANGED <<request, startAfter, order, prepared, buildId, logUrl, provider,
                 outVars, schedVars, callVars>>

-----------------------------------------------------------------------------

(***************************************************************************)
(* The server and the cron job die: transactions roll back, their locks    *)
(* are released and the coroutines are gone.                               *)
(***************************************************************************)
Crash ==
  /\ faults < MaxFaults
  /\ faults' = faults + 1
  /\ step' = [p \in Pipelines |-> IF step[p] = "none" THEN "none" ELSE "done"]
  /\ tx' = [p \in Pipelines |-> "none"]
  /\ conflicts' = [p \in Pipelines |-> {}]
  /\ claimed' = [p \in Pipelines |-> {}]
  /\ drain' = [d \in Drains |-> IdleDrain]
  /\ call' = [c \in Callers |-> NoCall]
  /\ botCancel' = NoCancel
  /\ timingOut' = {}
  /\ UNCHANGED <<rowVars, outVars, delivered, logged>>

CallStep(c) ==
  \/ StatusWrite(c) \/ CommitBuild(c) \/ AutoRetry(c) \/ AutoRetryFails(c)
  \/ LogWrite(c)

CallbackNext ==
  \/ \E p \in Pipelines :
       RunEnds(p) \/ TimeoutRead(p) \/ TimeoutWrite(p) \/ TimeoutKeep(p)
         \/ ExpireStale(p)
  \/ \E c \in Callers, p \in Pipelines : StatusRead(c, p) \/ LogRead(c, p)
  \/ \E c \in Callers : CallStep(c)
  \/ \E l \in TestLanes : BotCancelRead(l)
  \/ BotCancelCommit
  \/ BotCancelStop

=============================================================================
