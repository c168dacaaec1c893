----------------------- MODULE MergeRequests_proofs ------------------------
(***************************************************************************)
(* Theorems about MergeRequests, for any commands, pull requests and        *)
(* applications, and any number of callbacks, runs and faults.              *)
(***************************************************************************)
EXTENDS MergeRequests, TLAPS

LEMMA TypeInit ==
  ASSUME Init
  PROVE  TypeInv
<1> USE RequestsAssumption, BoundsAssumption
<1>1. [started |-> 0, running |-> 0] \in RunCount
  BY DEF RunCount
<1>3. /\ step \in [Requests -> Step]
      /\ status \in [Requests -> MergeStatus]
      /\ error \in [Requests -> MergeError]
  BY DEF Init, Step, MergeStatus, MergeError
<1>4. /\ runs \in [Requests -> RunCount]
      /\ \A r \in Requests : runs[r].running <= runs[r].started
      /\ call \in [Callers -> Call \cup {Idle}]
  BY <1>1 DEF Init
<1>5. repo \in [Apps -> Requests \cup {NoRequest}] /\ created \in Seq(Requests)
  BY DEF Init
<1> QED BY <1>3, <1>4, <1>5 DEF Init, TypeInv, MergeTypeOK

(* Every step keeps the types. *)
LEMMA TypeStep ==
  ASSUME TypeInv, [Next]_vars
  PROVE  TypeInv'
<1> USE RequestsAssumption, BoundsAssumption DEF TypeInv, MergeTypeOK
<1>1. ASSUME NEW r \in Requests, Begin(r)
      PROVE  TypeInv'
  BY <1>1 DEF Begin, Goto, Step
<1>2. ASSUME NEW r \in Requests, CheckActive(r)
      PROVE  TypeInv'
  <2>1. step' \in [Requests -> Step]
    BY <1>2 DEF CheckActive, Goto, Step
  <2> QED BY <1>2, <2>1 DEF CheckActive
<1>3. ASSUME NEW r \in Requests, CheckRepo(r)
      PROVE  TypeInv'
  <2>1. step' \in [Requests -> Step]
    BY <1>3 DEF CheckRepo, Goto, Step
  <2>2. faults' \in 0 .. MaxFaults
    BY <1>3 DEF CheckRepo
  <2> QED BY <1>3, <2>1, <2>2 DEF CheckRepo
<1>4. ASSUME NEW r \in Requests, CheckRetry(r)
      PROVE  TypeInv'
  <2>1. step' \in [Requests -> Step]
    BY <1>4 DEF CheckRetry, Goto, Step
  <2> QED BY <1>4, <2>1 DEF CheckRetry
<1>5. ASSUME NEW r \in Requests, Insert(r)
      PROVE  TypeInv'
  <2>1. step' \in [Requests -> Step]
    BY <1>5 DEF Insert, Goto, Step
  <2>2. status' \in [Requests -> MergeStatus]
    BY <1>5 DEF Insert, MergeStatus
  <2>3. created' \in Seq(Requests)
    <3>1. Append(created, r) \in Seq(Requests)
      OBVIOUS
    <3> QED BY <1>5, <3>1 DEF Insert
  <2> QED BY <1>5, <2>1, <2>2, <2>3 DEF Insert
<1>6. ASSUME NEW r \in Requests, CreateRepo(r)
      PROVE  TypeInv'
  <2>1. step' \in [Requests -> Step]
    BY <1>6 DEF CreateRepo, Goto, Step
  <2>2. repo' \in [Apps -> Requests \cup {NoRequest}]
    BY <1>6 DEF CreateRepo
  <2>3. faults' \in 0 .. MaxFaults
    BY <1>6 DEF CreateRepo
  <2> QED BY <1>6, <2>1, <2>2, <2>3 DEF CreateRepo
<1>7. ASSUME NEW r \in Requests, Dispatch(r)
      PROVE  TypeInv'
  <2>1. step' \in [Requests -> Step]
    BY <1>7 DEF Dispatch, Goto, Step
  <2>2. faults' \in 0 .. MaxFaults
    BY <1>7 DEF Dispatch
  <2>3. /\ runs' \in [Requests -> RunCount]
        /\ \A q \in Requests : runs'[q].running <= runs'[q].started
    <3>1. CASE StartRun(r)
      <4> DEFINE new == [started |-> runs[r].started + 1, running |-> runs[r].running + 1]
      <4>1. runs[r] \in RunCount
        OBVIOUS
      <4>2. new \in RunCount /\ new.running <= new.started
        BY <3>1, <4>1 DEF StartRun, RunCount
      <4>3. runs' = [runs EXCEPT ![r] = new]
        BY <3>1, <4>1 DEF StartRun, RunCount
      <4> QED BY <4>2, <4>3
    <3> QED BY <1>7, <3>1 DEF Dispatch
  <2> QED BY <1>7, <2>1, <2>2, <2>3 DEF Dispatch
<1>8. ASSUME NEW r \in Requests, MarkFailed(r)
      PROVE  TypeInv'
  <2>1. step' \in [Requests -> Step]
    BY <1>8 DEF MarkFailed, Goto, Step
  <2>2. /\ status' \in [Requests -> MergeStatus]
        /\ error' \in [Requests -> MergeError]
    BY <1>8 DEF MarkFailed, FailureOf, MergeStatus, MergeError
  <2> QED BY <1>8, <2>1, <2>2 DEF MarkFailed
<1>9. ASSUME NEW r \in Requests, RunEnds(r)
      PROVE  TypeInv'
  <2>1. /\ runs' \in [Requests -> RunCount]
        /\ \A q \in Requests : runs'[q].running <= runs'[q].started
    <3> DEFINE new == [runs[r] EXCEPT !.running = runs[r].running - 1]
    <3>1. runs[r] \in RunCount
      OBVIOUS
    <3>2. new \in RunCount /\ new.running <= new.started
      BY <1>9, <3>1 DEF RunEnds, RunCount
    <3>3. runs' = [runs EXCEPT ![r] = new]
      BY <1>9, <3>1 DEF RunEnds, RunCount
    <3> QED BY <3>2, <3>3
  <2>2. /\ pushed' \subseteq Requests
        /\ report' \in [Requests -> SUBSET {"success", "failure"}]
    <3>1. \A s \in {"success", "failure"} : report[r] \cup {s} \subseteq {"success", "failure"}
      OBVIOUS
    <3>2. PICK s \in {"success", "failure"} : report' = [report EXCEPT ![r] = @ \cup {s}]
      BY <1>9 DEF RunEnds
    <3>3. report' \in [Requests -> SUBSET {"success", "failure"}]
      BY <3>1, <3>2
    <3>4. pushed' \subseteq Requests
      BY <1>9 DEF RunEnds
    <3> QED BY <3>3, <3>4
  <2> QED BY <1>9, <2>1, <2>2 DEF RunEnds
<1>10. ASSUME NEW r \in Requests, ReportLost(r)
       PROVE  TypeInv'
  BY <1>10 DEF ReportLost
<1>11. ASSUME NEW k \in Callers, NEW r \in Requests, CallbackRead(k, r)
       PROVE  TypeInv'
  <2>1. report' \in [Requests -> SUBSET {"success", "failure"}]
    BY <1>11 DEF CallbackRead
  <2>2. PICK s \in report[r] :
          \/ call' = [call EXCEPT ![k] = [at |-> "read", request |-> r, report |-> s]]
          \/ UNCHANGED call
    BY <1>11 DEF CallbackRead
  <2>3. s \in {"success", "failure"}
    OBVIOUS
  <2>4. [at |-> "read", request |-> r, report |-> s] \in Call
    BY <2>3 DEF Call
  <2>5. call' \in [Callers -> Call \cup {Idle}]
    BY <2>2, <2>4
  <2> QED BY <1>11, <2>1, <2>5 DEF CallbackRead
<1>12. ASSUME NEW k \in Callers, CallbackWrite(k)
       PROVE  TypeInv'
  <2>1. call[k] \in Call
    BY <1>12 DEF CallbackWrite, Idle
  <2>2. /\ status' \in [Requests -> MergeStatus]
        /\ error' \in [Requests -> MergeError]
    <3>1. call[k].request \in Requests
      BY <2>1 DEF Call
    <3>2. status' \in [Requests -> MergeStatus]
      BY <1>12, <3>1 DEF CallbackWrite, MergeStatus
    <3>3. error' \in [Requests -> MergeError]
      BY <1>12, <3>1 DEF CallbackWrite, MergeError
    <3> QED BY <3>2, <3>3
  <2>3. [call[k] EXCEPT !.at = "finalize"] \in Call
    BY <2>1 DEF Call
  <2>4. call' \in [Callers -> Call \cup {Idle}]
    BY <1>12, <2>3 DEF CallbackWrite
  <2> QED BY <1>12, <2>2, <2>4 DEF CallbackWrite
<1>13. ASSUME NEW k \in Callers, Finalize(k)
       PROVE  TypeInv'
  <2>1. call[k] \in Call
    BY <1>13 DEF Finalize, Idle
  <2>2. call[k].request \in Requests
    BY <2>1 DEF Call
  <2>3. \A s \in {"success", "errors"} :
          [at |-> "write", request |-> call[k].request, report |-> s] \in Call
    BY <2>2 DEF Call
  <2>4. call' \in [Callers -> Call \cup {Idle}]
    BY <1>13, <2>3 DEF Finalize
  <2>5. closed' \subseteq Prs
    BY <1>13, <2>2 DEF Finalize, Prs
  <2>6. finalized' \in [Requests -> Nat]
    BY <1>13, <2>2 DEF Finalize
  <2> QED BY <1>13, <2>4, <2>5, <2>6 DEF Finalize
<1>14. ASSUME NEW k \in Callers, FinalizeWrite(k)
       PROVE  TypeInv'
  <2>1. /\ status' \in [Requests -> MergeStatus]
        /\ error' \in [Requests -> MergeError]
    BY <1>14 DEF FinalizeWrite, MergeStatus, MergeError
  <2>2. call' \in [Callers -> Call \cup {Idle}]
    BY <1>14 DEF FinalizeWrite
  <2> QED BY <1>14, <2>1, <2>2 DEF FinalizeWrite
<1>15. CASE Crash
  <2>1. step' \in [Requests -> Step]
    BY <1>15 DEF Crash, Step
  <2>2. call' \in [Callers -> Call \cup {Idle}]
    BY <1>15 DEF Crash
  <2>3. orphaned' \subseteq Requests
    <3>1. \A k \in Callers : call[k].at \in {"finalize", "write"} => call[k].request \in Requests
      BY DEF Call, Idle
    <3> QED BY <1>15, <3>1 DEF Crash
  <2> QED BY <1>15, <2>1, <2>2, <2>3 DEF Crash
<1>16. CASE UNCHANGED vars
  BY <1>16 DEF vars
<1> QED
  BY <1>1, <1>2, <1>3, <1>4, <1>5, <1>6, <1>7, <1>8, <1>9, <1>10, <1>11, <1>12, <1>13,
     <1>14, <1>15, <1>16 DEF Next, MergeStep, CallStep

(* Every variable has its type, for any bounds. *)
THEOREM MergeTypeCorrect == Spec => []MergeTypeOK
<1>1. Init => TypeInv
  BY TypeInit
<1>2. TypeInv /\ [Next]_vars => TypeInv'
  BY TypeStep
<1>3. TypeInv => MergeTypeOK
  BY DEF TypeInv
<1> QED BY <1>1, <1>2, <1>3, PTL DEF Spec

-----------------------------------------------------------------------------
(* Repositories *)

(* A repository, once created, keeps the command that created it, and only *)
(* CreateRepo creates one.                                                 *)
LEMMA RepoStep ==
  ASSUME TypeInv, [Next]_vars, NEW q \in Requests, Own(q)
  PROVE  Own(q)'
<1>1. repo[AppOf[q]] # NoRequest => repo'[AppOf[q]] = repo[AppOf[q]]
  <2>1. ASSUME NEW r \in Requests, CreateRepo(r)
        PROVE  repo[AppOf[q]] # NoRequest => repo'[AppOf[q]] = repo[AppOf[q]]
    <3>1. AppOf[q] \in Apps /\ repo \in [Apps -> Requests \cup {NoRequest}]
      BY DEF Apps, TypeInv, MergeTypeOK
    <3>2. CASE repo[AppOf[r]] = NoRequest /\ repo' = [repo EXCEPT ![AppOf[r]] = r]
      BY <3>1, <3>2
    <3>3. CASE UNCHANGED repo
      BY <3>3
    <3> QED BY <2>1, <3>2, <3>3 DEF CreateRepo
  <2>2. ASSUME NEW r \in Requests,
               \/ Begin(r) \/ CheckActive(r) \/ CheckRepo(r) \/ CheckRetry(r) \/ Insert(r)
               \/ Dispatch(r) \/ MarkFailed(r) \/ RunEnds(r) \/ ReportLost(r)
        PROVE  UNCHANGED repo
    BY <2>2 DEF Begin, CheckActive, CheckRepo, CheckRetry, Insert, Dispatch, MarkFailed,
                RunEnds, ReportLost
  <2>3. ASSUME NEW k \in Callers, CallStep(k) \/ \E r \in Requests : CallbackRead(k, r)
        PROVE  UNCHANGED repo
    BY <2>3 DEF CallStep, CallbackRead, CallbackWrite, Finalize, FinalizeWrite
  <2>4. CASE Crash \/ UNCHANGED vars
    BY <2>4 DEF Crash, vars
  <2> QED BY <2>1, <2>2, <2>3, <2>4 DEF Next, MergeStep
<1> QED BY <1>1 DEF Own

(* Whoever starts to claim a repository has its own. *)
LEMMA ClaimStep ==
  ASSUME OwnInv, [Next]_vars, NEW q \in Requests, Claims(q)'
  PROVE  Own(q)'
<1> USE RequestsAssumption DEF OwnInv, TypeInv, MergeTypeOK
<1>1. CASE Claims(q)
  BY <1>1, RepoStep
<1>2. CASE Own(q)
  BY <1>2, RepoStep
<1>3. CASE UNCHANGED <<step, runs, error>>
  BY <1>1, <1>3 DEF Claims
<1>4. ASSUME NEW r \in Requests, Begin(r) \/ CheckActive(r) \/ CheckRepo(r)
      PROVE  Claims(q)
  BY <1>4 DEF Begin, CheckActive, CheckRepo, Goto, Claims
<1>5. ASSUME NEW r \in Requests, CheckRetry(r)
      PROVE  Claims(q) \/ Own(q)
  <2>1. CASE Retryable(r) /\ q = r
    <3>1. PICK i \in DOMAIN created : created[i] \in Submission(r) /\ error[created[i]] = "dispatch"
      BY <2>1 DEF Retryable
    <3>2. created[i] \in Requests
      BY <3>1 DEF Submission
    <3>3. Own(created[i])
      BY <3>1, <3>2 DEF Claims
    <3> QED BY <2>1, <3>1, <3>3 DEF Own, Submission
  <2>2. CASE ~(Retryable(r) /\ q = r)
    BY <1>5, <2>2 DEF CheckRetry, Goto, Claims
  <2> QED BY <2>1, <2>2
<1>6. ASSUME NEW r \in Requests, Insert(r)
      PROVE  Claims(q)
  BY <1>6 DEF Insert, Goto, Claims
<1>7. ASSUME NEW r \in Requests, CreateRepo(r)
      PROVE  Claims(q) \/ Own(q)'
  <2>1. CASE q = r /\ repo' = [repo EXCEPT ![AppOf[r]] = r]
    <3>1. AppOf[q] \in Apps /\ repo \in [Apps -> Requests \cup {NoRequest}]
      BY DEF Apps
    <3>2. repo'[AppOf[q]] = q
      BY <2>1, <3>1
    <3> QED BY <3>2 DEF Own
  <2>2. CASE q = r /\ Goto(r, "create_failed")
    BY <1>7, <2>2 DEF CreateRepo, Goto, Claims
  <2>3. CASE q # r
    BY <1>7, <2>3 DEF CreateRepo, Goto, Claims
  <2> QED BY <1>7, <2>1, <2>2, <2>3 DEF CreateRepo
<1>8. ASSUME NEW r \in Requests, Dispatch(r)
      PROVE  Claims(q)
  <2>1. CASE q = r
    BY <1>8, <2>1 DEF Dispatch, Claims
  <2>2. CASE q # r
    BY <1>8, <2>2 DEF Dispatch, StartRun, Goto, Claims
  <2> QED BY <2>1, <2>2
<1>9. ASSUME NEW r \in Requests, MarkFailed(r)
      PROVE  Claims(q)
  BY <1>9 DEF MarkFailed, FailureOf, Goto, Claims
<1>10. ASSUME NEW r \in Requests, RunEnds(r) \/ ReportLost(r)
       PROVE  Claims(q)
  <2>1. runs'[q].started = runs[q].started
    <3>1. runs[r] \in RunCount /\ runs[q] \in RunCount
      OBVIOUS
    <3>2. CASE runs' = [runs EXCEPT ![r].running = @ - 1]
      BY <3>1, <3>2 DEF RunCount
    <3> QED BY <1>10, <3>2 DEF RunEnds, ReportLost
  <2> QED BY <1>10, <2>1 DEF RunEnds, ReportLost, Claims
<1>11. ASSUME NEW k \in Callers, CallStep(k)
       PROVE  Claims(q)
  BY <1>11 DEF CallStep, CallbackWrite, Finalize, FinalizeWrite, Claims
<1>12. ASSUME NEW k \in Callers, NEW r \in Requests, CallbackRead(k, r)
       PROVE  Claims(q)
  BY <1>12 DEF CallbackRead, Claims
<1>13. CASE Crash
  BY <1>1, <1>13 DEF Crash, Claims
<1>14. CASE UNCHANGED vars
  BY <1>3, <1>14 DEF vars
<1> QED
  BY <1>1, <1>2, <1>4, <1>5, <1>6, <1>7, <1>8, <1>9, <1>10, <1>11, <1>12, <1>13, <1>14
     DEF Next, MergeStep

(* A workflow is started only for a repository that a command of the same  *)
(* pull request created.                                                   *)
THEOREM OwnRepositoryOnly == Spec => []OwnRepository
<1>1. Init => OwnInv
  <2>1. ASSUME Init PROVE TypeInv
    BY <2>1, TypeInit
  <2>2. ASSUME Init, NEW q \in Requests PROVE ~Claims(q)
    BY <2>2 DEF Init, Claims
  <2> QED BY <2>1, <2>2 DEF OwnInv
<1>2. OwnInv /\ [Next]_vars => OwnInv'
  BY TypeStep, ClaimStep DEF OwnInv
<1>3. OwnInv => OwnRepository
  BY DEF OwnInv, OwnRepository, Claims, Own
<1> QED BY <1>1, <1>2, <1>3, PTL DEF Spec

-----------------------------------------------------------------------------
(* Finalization *)

(* A row that has left PUSHING does not return to it. *)
LEMMA StatusStep ==
  ASSUME TypeInv, [Next]_vars, NEW q \in Requests, status[q] \notin {"none", "pushing"}
  PROVE  status'[q] \notin {"none", "pushing"}
<1> USE DEF TypeInv, MergeTypeOK
<1>1. ASSUME NEW r \in Requests, Insert(r)
      PROVE  status'[q] \notin {"none", "pushing"}
  BY <1>1 DEF Insert
<1>2. ASSUME NEW r \in Requests, MarkFailed(r)
      PROVE  status'[q] \notin {"none", "pushing"}
  BY <1>2 DEF MarkFailed
<1>3. ASSUME NEW r \in Requests,
             \/ Begin(r) \/ CheckActive(r) \/ CheckRepo(r) \/ CheckRetry(r) \/ CreateRepo(r)
             \/ Dispatch(r) \/ RunEnds(r) \/ ReportLost(r)
      PROVE  UNCHANGED status
  BY <1>3 DEF Begin, CheckActive, CheckRepo, CheckRetry, CreateRepo, Dispatch, RunEnds,
              ReportLost
<1>4. ASSUME NEW k \in Callers, CallbackWrite(k)
      PROVE  status'[q] \notin {"none", "pushing"}
  BY <1>4 DEF CallbackWrite
<1>5. ASSUME NEW k \in Callers, FinalizeWrite(k)
      PROVE  status'[q] \notin {"none", "pushing"}
  BY <1>5 DEF FinalizeWrite
<1>6. ASSUME NEW k \in Callers, Finalize(k) \/ \E r \in Requests : CallbackRead(k, r)
      PROVE  UNCHANGED status
  BY <1>6 DEF Finalize, CallbackRead
<1>7. CASE Crash \/ UNCHANGED vars
  BY <1>7 DEF Crash, vars
<1> QED
  BY <1>1, <1>2, <1>3, <1>4, <1>5, <1>6, <1>7 DEF Next, MergeStep, CallStep

(* Only the callback that takes a row out of PUSHING is to finalize it. *)
LEMMA FinalizerStep ==
  ASSUME TypeInv, [Next]_vars, NEW q \in Requests, NEW k \in Callers, Finalizing(k, q)'
  PROVE  \/ Finalizing(k, q)
         \/ /\ status[q] = "pushing"
            /\ status'[q] = "finalizing"
            /\ UNCHANGED finalized
            /\ \A l \in Callers : l # k => call'[l] = call[l]
<1> USE DEF TypeInv, MergeTypeOK
<1>1. CASE UNCHANGED call
  BY <1>1 DEF Finalizing
<1>2. ASSUME NEW r \in Requests,
             \/ Begin(r) \/ CheckActive(r) \/ CheckRepo(r) \/ CheckRetry(r) \/ Insert(r)
             \/ CreateRepo(r) \/ Dispatch(r) \/ MarkFailed(r) \/ RunEnds(r) \/ ReportLost(r)
      PROVE  UNCHANGED call
  BY <1>2 DEF Begin, CheckActive, CheckRepo, CheckRetry, Insert, CreateRepo, Dispatch,
              MarkFailed, RunEnds, ReportLost
<1>3. ASSUME NEW l \in Callers, NEW r \in Requests, CallbackRead(l, r)
      PROVE  Finalizing(k, q)
  <2>1. PICK s : \/ call' = [call EXCEPT ![l] = [at |-> "read", request |-> r, report |-> s]]
                 \/ UNCHANGED call
    BY <1>3 DEF CallbackRead
  <2>2. CASE call' = [call EXCEPT ![l] = [at |-> "read", request |-> r, report |-> s]]
    <3>1. l # k => call'[k] = call[k]
      BY <2>2
    <3>2. l = k => call'[k].at = "read"
      BY <2>2
    <3> QED BY <3>1, <3>2 DEF Finalizing
  <2>3. CASE UNCHANGED call
    BY <2>3 DEF Finalizing
  <2> QED BY <2>1, <2>2, <2>3
<1>4. ASSUME NEW l \in Callers, CallbackWrite(l)
      PROVE  \/ Finalizing(k, q)
             \/ /\ status[q] = "pushing"
                /\ status'[q] = "finalizing"
                /\ UNCHANGED finalized
                /\ \A c \in Callers : c # k => call'[c] = call[c]
  <2>1. CASE l # k
    <3>1. call'[k] = call[k]
      BY <1>4, <2>1 DEF CallbackWrite
    <3> QED BY <3>1 DEF Finalizing
  <2>2. CASE l = k /\ call' = [call EXCEPT ![k] = Idle]
    BY <2>2 DEF Finalizing, Idle
  <2>3. CASE /\ l = k
             /\ status[call[k].request] = "pushing"
             /\ status' = [status EXCEPT ![call[k].request] = "finalizing"]
             /\ call' = [call EXCEPT ![k].at = "finalize"]
    <3>1. call[k] \in Call
      BY <1>4, <2>3 DEF CallbackWrite, Idle
    <3>2. call'[k].request = call[k].request
      BY <2>3, <3>1 DEF Call
    <3> QED BY <1>4, <2>3, <3>2 DEF CallbackWrite, Finalizing
  <2> QED BY <1>4, <2>1, <2>2, <2>3 DEF CallbackWrite
<1>5. ASSUME NEW l \in Callers, Finalize(l)
      PROVE  Finalizing(k, q)
  <2>1. PICK s : call' = [call EXCEPT ![l] =
                            [at |-> "write", request |-> call[l].request, report |-> s]]
    BY <1>5 DEF Finalize
  <2> QED BY <2>1 DEF Finalizing
<1>6. ASSUME NEW l \in Callers, FinalizeWrite(l)
      PROVE  Finalizing(k, q)
  BY <1>6 DEF FinalizeWrite, Finalizing, Idle
<1>7. CASE Crash
  BY <1>7 DEF Crash, Finalizing, Idle
<1>8. CASE UNCHANGED vars
  BY <1>1, <1>8 DEF vars
<1> QED
  BY <1>1, <1>2, <1>3, <1>4, <1>5, <1>6, <1>7, <1>8 DEF Next, MergeStep, CallStep

(* A request is finalized by its finalizer, who is then done with it. *)
LEMMA FinalizedStep ==
  ASSUME TypeInv, [Next]_vars, NEW q \in Requests
  PROVE  \/ finalized'[q] = finalized[q]
         \/ \E k \in Callers :
              /\ Finalizing(k, q)
              /\ finalized'[q] = finalized[q] + 1
              /\ ~Finalizing(k, q)'
<1> USE DEF TypeInv, MergeTypeOK
<1>1. ASSUME NEW r \in Requests,
             \/ Begin(r) \/ CheckActive(r) \/ CheckRepo(r) \/ CheckRetry(r) \/ Insert(r)
             \/ CreateRepo(r) \/ Dispatch(r) \/ MarkFailed(r) \/ RunEnds(r) \/ ReportLost(r)
      PROVE  UNCHANGED finalized
  BY <1>1 DEF Begin, CheckActive, CheckRepo, CheckRetry, Insert, CreateRepo, Dispatch,
              MarkFailed, RunEnds, ReportLost
<1>2. ASSUME NEW k \in Callers,
             \/ CallbackWrite(k) \/ FinalizeWrite(k) \/ \E r \in Requests : CallbackRead(k, r)
      PROVE  UNCHANGED finalized
  BY <1>2 DEF CallbackWrite, FinalizeWrite, CallbackRead
<1>3. ASSUME NEW k \in Callers, Finalize(k)
      PROVE  \/ finalized'[q] = finalized[q]
             \/ /\ Finalizing(k, q)
                /\ finalized'[q] = finalized[q] + 1
                /\ ~Finalizing(k, q)'
  <2>1. PICK s : call' = [call EXCEPT ![k] =
                            [at |-> "write", request |-> call[k].request, report |-> s]]
    BY <1>3 DEF Finalize
  <2>2. call'[k].at = "write"
    BY <2>1
  <2>3. finalized' = [finalized EXCEPT ![call[k].request] = @ + 1] /\ call[k].at = "finalize"
    BY <1>3 DEF Finalize
  <2> QED BY <2>2, <2>3 DEF Finalizing
<1>4. CASE Crash \/ UNCHANGED vars
  BY <1>4 DEF Crash, vars
<1> QED
  BY <1>1, <1>2, <1>3, <1>4 DEF Next, MergeStep, CallStep

LEMMA FinalStep ==
  ASSUME FinalInv, [Next]_vars
  PROVE  FinalInv'
<1> USE DEF FinalInv
<1>1. TypeInv'
  BY TypeStep
<1>2. ASSUME NEW r \in Requests
      PROVE  finalized[r] \in {0, 1} /\ finalized'[r] \in {0, 1}
  <2>1. finalized[r] \in {0, 1}
    BY DEF TypeInv, MergeTypeOK
  <2>2. CASE finalized'[r] = finalized[r]
    BY <2>1, <2>2
  <2>3. ASSUME NEW k \in Callers, Finalizing(k, r), finalized'[r] = finalized[r] + 1
        PROVE  finalized'[r] = 1
    BY <2>3
  <2> QED BY <2>1, <2>2, <2>3, FinalizedStep
<1>3. ASSUME NEW r \in Requests,
             finalized'[r] = 1 \/ \E k \in Callers : Finalizing(k, r)'
      PROVE  status'[r] \notin {"none", "pushing"}
  <2>1. CASE finalized[r] = 1 \/ \E k \in Callers : Finalizing(k, r)
    BY <2>1, StatusStep
  <2>2. CASE \E k \in Callers : Finalizing(k, r)'
    BY <2>1, <2>2, FinalizerStep
  <2>3. CASE finalized'[r] # finalized[r]
    BY <2>1, <2>3, FinalizedStep
  <2> QED BY <1>3, <2>1, <2>2, <2>3
<1>4. ASSUME NEW r \in Requests, NEW k \in Callers, Finalizing(k, r)'
      PROVE  finalized'[r] = 0 /\ \A l \in Callers : Finalizing(l, r)' => l = k
  <2>1. CASE Finalizing(k, r)
    <3>1. finalized[r] = 0 /\ status[r] # "pushing" /\ \A l \in Callers : Finalizing(l, r) => l = k
      BY <2>1
    <3>2. finalized'[r] = 0
      BY <1>4, <3>1, FinalizedStep
    <3>3. ASSUME NEW l \in Callers, Finalizing(l, r)'
          PROVE  l = k
      BY <3>1, <3>3, FinalizerStep
    <3> QED BY <3>2, <3>3
  <2>2. CASE ~Finalizing(k, r)
    <3>1. /\ status[r] = "pushing"
          /\ UNCHANGED finalized
          /\ \A l \in Callers : l # k => call'[l] = call[l]
      BY <1>4, <2>2, FinalizerStep
    <3>2. finalized'[r] = 0
      BY <1>2, <3>1
    <3>3. ASSUME NEW l \in Callers, Finalizing(l, r)', l # k
          PROVE  FALSE
      BY <3>1, <3>3 DEF Finalizing
    <3> QED BY <3>2, <3>3
  <2> QED BY <2>1, <2>2
<1>5. \A r \in Requests : finalized'[r] <= 1
  BY <1>2
<1> QED BY <1>1, <1>3, <1>4, <1>5

(* A merge request is finalized once, however often its report is sent.    *)
THEOREM FinalizedOnceOnly == Spec => []FinalizedOnce
<1>1. Init => FinalInv
  <2>1. ASSUME Init PROVE TypeInv
    BY <2>1, TypeInit
  <2>2. ASSUME Init, NEW r \in Requests
        PROVE  finalized[r] = 0 /\ \A k \in Callers : ~Finalizing(k, r)
    BY <2>2 DEF Init, Finalizing, Idle
  <2> QED BY <2>1, <2>2 DEF FinalInv
<1>2. FinalInv /\ [Next]_vars => FinalInv'
  BY FinalStep
<1>3. FinalInv => FinalizedOnce
  BY DEF FinalInv, FinalizedOnce
<1> QED BY <1>1, <1>2, <1>3, PTL DEF Spec

-----------------------------------------------------------------------------
(* Closed pull requests *)

LEMMA PushStep ==
  ASSUME PushInv, [Next]_vars
  PROVE  PushInv'
<1> USE DEF PushInv, TypeInv, MergeTypeOK
<1>1. TypeInv'
  BY TypeStep
<1>2. ASSUME UNCHANGED <<report, call, closed, pushed>>
      PROVE  PushInv'
  BY <1>1, <1>2 DEF Succeeding, ClosedIsPushed
<1>3. ASSUME NEW r \in Requests,
             \/ Begin(r) \/ CheckActive(r) \/ CheckRepo(r) \/ CheckRetry(r) \/ Insert(r)
             \/ CreateRepo(r) \/ Dispatch(r) \/ MarkFailed(r)
      PROVE  PushInv'
  <2>1. UNCHANGED <<report, call, closed, pushed>>
    BY <1>3 DEF Begin, CheckActive, CheckRepo, CheckRetry, Insert, CreateRepo, Dispatch,
                MarkFailed
  <2> QED BY <1>2, <2>1
<1>4. ASSUME NEW r \in Requests, RunEnds(r)
      PROVE  PushInv'
  <2>1. UNCHANGED <<call, closed>> /\ pushed \subseteq pushed'
    BY <1>4 DEF RunEnds
  <2>2. ASSUME NEW q \in Requests, "success" \in report'[q]
        PROVE  q \in pushed'
    <3>1. CASE q # r
      BY <1>4, <2>1, <2>2, <3>1 DEF RunEnds
    <3>2. CASE q = r /\ r \in pushed'
      BY <3>2
    <3>3. CASE q = r /\ report' = [report EXCEPT ![r] = @ \cup {"failure"}]
      BY <2>1, <2>2, <3>3
    <3> QED BY <1>4, <3>1, <3>2, <3>3 DEF RunEnds
  <2> QED BY <1>1, <2>1, <2>2 DEF Succeeding, ClosedIsPushed
<1>5. ASSUME NEW r \in Requests, ReportLost(r)
      PROVE  PushInv'
  BY <1>1, <1>5 DEF ReportLost, Succeeding, ClosedIsPushed
<1>6. ASSUME NEW k \in Callers, NEW r \in Requests, CallbackRead(k, r)
      PROVE  PushInv'
  <2>1. UNCHANGED <<closed, pushed>>
    BY <1>6 DEF CallbackRead
  <2>2. \A q \in Requests : report'[q] \subseteq report[q]
    BY <1>6 DEF CallbackRead
  <2>3. PICK s \in report[r] :
          \/ call' = [call EXCEPT ![k] = [at |-> "read", request |-> r, report |-> s]]
          \/ UNCHANGED call
    BY <1>6 DEF CallbackRead
  <2>4. ASSUME NEW l \in Callers, Succeeding(l)'
        PROVE  call'[l].request \in pushed
    <3>1. CASE call'[l] = call[l]
      BY <2>4, <3>1 DEF Succeeding
    <3>2. CASE l = k /\ call'[l] = [at |-> "read", request |-> r, report |-> s]
      BY <2>4, <3>2 DEF Succeeding
    <3> QED BY <2>3, <3>1, <3>2
  <2> QED BY <1>1, <2>1, <2>2, <2>4 DEF ClosedIsPushed
<1>7. ASSUME NEW k \in Callers, CallbackWrite(k)
      PROVE  PushInv'
  <2>1. UNCHANGED <<report, closed, pushed>>
    BY <1>7 DEF CallbackWrite
  <2>2. ASSUME NEW l \in Callers, Succeeding(l)'
        PROVE  call'[l].request \in pushed
    <3>1. CASE l # k
      <4>1. call'[l] = call[l]
        BY <1>7, <3>1 DEF CallbackWrite
      <4> QED BY <2>2, <4>1 DEF Succeeding
    <3>2. CASE l = k /\ call' = [call EXCEPT ![k] = Idle]
      BY <2>2, <3>2 DEF Succeeding, Idle
    <3>3. CASE /\ l = k
               /\ call[k].report = "success"
               /\ call' = [call EXCEPT ![k].at = "finalize"]
      <4>1. call[k] \in Call /\ call[k].at = "read"
        BY <1>7 DEF CallbackWrite, Idle
      <4>2. call'[k].request = call[k].request
        BY <3>3, <4>1 DEF Call
      <4> QED BY <3>3, <4>1, <4>2 DEF Succeeding
    <3> QED BY <1>7, <3>1, <3>2, <3>3 DEF CallbackWrite
  <2> QED BY <1>1, <2>1, <2>2 DEF ClosedIsPushed
<1>8. ASSUME NEW k \in Callers, Finalize(k)
      PROVE  PushInv'
  <2>1. UNCHANGED <<report, pushed>>
    BY <1>8 DEF Finalize
  <2>2. call[k].request \in pushed
    BY <1>8 DEF Finalize, Succeeding
  <2>3. closed' \subseteq closed \cup {PrOf[call[k].request]}
    BY <1>8 DEF Finalize
  <2>4. PICK s : call' = [call EXCEPT ![k] =
                            [at |-> "write", request |-> call[k].request, report |-> s]]
    BY <1>8 DEF Finalize
  <2>5. ASSUME NEW l \in Callers, Succeeding(l)'
        PROVE  call'[l].request \in pushed
    <3>1. l # k /\ call'[l] = call[l]
      <4>1. call'[k].at = "write"
        BY <2>4
      <4> QED BY <2>4, <2>5, <4>1 DEF Succeeding
    <3> QED BY <2>5, <3>1 DEF Succeeding
  <2>6. ClosedIsPushed'
    BY <2>1, <2>2, <2>3 DEF ClosedIsPushed
  <2> QED BY <1>1, <2>1, <2>5, <2>6
<1>9. ASSUME NEW k \in Callers, FinalizeWrite(k)
      PROVE  PushInv'
  <2>1. UNCHANGED <<report, closed, pushed>> /\ call' = [call EXCEPT ![k] = Idle]
    BY <1>9 DEF FinalizeWrite
  <2>2. \A l \in Callers : Succeeding(l)' => call'[l].request \in pushed
    BY <2>1 DEF Succeeding, Idle
  <2> QED BY <1>1, <2>1, <2>2 DEF ClosedIsPushed
<1>10. CASE Crash
  <2>1. \A l \in Callers : ~Succeeding(l)'
    BY <1>10 DEF Crash, Succeeding, Idle
  <2> QED BY <1>1, <1>10, <2>1 DEF Crash, ClosedIsPushed
<1>11. CASE UNCHANGED vars
  BY <1>2, <1>11 DEF vars
<1> QED
  BY <1>3, <1>4, <1>5, <1>6, <1>7, <1>8, <1>9, <1>10, <1>11 DEF Next, MergeStep, CallStep

(* A pull request is closed only when its commit has been pushed.          *)
THEOREM ClosedOnlyPushed == Spec => []ClosedIsPushed
<1>1. Init => PushInv
  <2>1. ASSUME Init PROVE TypeInv
    BY <2>1, TypeInit
  <2>2. ASSUME Init PROVE \A k \in Callers : ~Succeeding(k)
    BY <2>2 DEF Init, Succeeding, Idle
  <2> QED BY <2>1, <2>2 DEF Init, PushInv, ClosedIsPushed
<1>2. PushInv /\ [Next]_vars => PushInv'
  BY PushStep
<1>3. PushInv => ClosedIsPushed
  BY DEF PushInv
<1> QED BY <1>1, <1>2, <1>3, PTL DEF Spec

=============================================================================
