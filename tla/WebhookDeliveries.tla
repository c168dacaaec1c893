-------------------------- MODULE WebhookDeliveries --------------------------
(***************************************************************************)
(* The receiver of WebhookReceiver together with the cron job that asks    *)
(* GitHub to deliver failed pushes again (services/webhook_reconciler.py). *)
(*                                                                         *)
(* A pass lists the failed and the successful deliveries once, and then    *)
(* looks at the branch, at the rows and asks for the redelivery one event  *)
(* at a time, while GitHub, the users and the receiver go on.  All attempts*)
(* fall into the 24 hours a pass looks back.                               *)
(***************************************************************************)
EXTENDS WebhookReceiver

CONSTANTS
  Reconcilers,  \* passes of the cron job that may overlap
  MaxAttempts   \* MAX_ATTEMPTS

ASSUME ReconcilerConstants == MaxAttempts \in Nat \ {0}

VARIABLE
  reconciler    \* what each pass listed, and the event it is at

vars == <<receiverVars, reconciler>>

Nothing == [todo |-> {}, at |-> 0]

ReconcilerTypeOK ==
  /\ WebhookTypeOK
  /\ \A r \in Reconcilers :
       /\ reconciler[r].todo \subseteq (1..MaxEvents) \X (1..MaxAttempts)
       /\ reconciler[r].at \in 0..MaxEvents

Init == ReceiverInit /\ reconciler = [r \in Reconcilers |-> Nothing]

-----------------------------------------------------------------------------
(* The reconciler *)

(* GitHub attempts what a pass asked for before the next pass.             *)
Attempted(e) == delivery[e].failed > 0 /\ delivery[e].out = 0

(* Pushes with failed attempts and none that succeeded.                    *)
Undelivered == {e \in PushEvents : Attempted(e) /\ ~delivery[e].ok}

Exhausted(failed) == failed >= MaxAttempts

(* The attempts of an event are counted as they are listed.                *)
Lists(r) ==
  /\ reconciler[r] = Nothing
  /\ LET open == {e \in Undelivered : ~Exhausted(delivery[e].failed)} IN
       /\ open # {}
       /\ reconciler' = [reconciler EXCEPT ![r].todo =
                           {<<e, delivery[e].failed>> : e \in open}]
  /\ UNCHANGED receiverVars

Drops(r, x) ==
  reconciler' = [reconciler EXCEPT ![r] = [todo |-> @.todo \ {x}, at |-> 0]]

(* A push the branch has left behind is not delivered again.               *)
SkipsStale(r, x) ==
  /\ reconciler[r].at = 0
  /\ head # events[x[1]].sha
  /\ Drops(r, x)
  /\ UNCHANGED receiverVars

Picks(r, x) ==
  /\ reconciler[r].at = 0
  /\ head = events[x[1]].sha
  /\ reconciler' = [reconciler EXCEPT ![r].at = x[1]]
  /\ UNCHANGED receiverVars

SkipsBuilt(r, x) ==
  /\ reconciler[r].at = x[1]
  /\ AlreadyBuilt(events[x[1]].sha)
  /\ Drops(r, x)
  /\ UNCHANGED receiverVars

Redelivers(r, x) ==
  /\ reconciler[r].at = x[1]
  /\ ~AlreadyBuilt(events[x[1]].sha)
  /\ delivery' = [delivery EXCEPT ![x[1]].out = @ + 1]
  /\ Drops(r, x)
  /\ UNCHANGED <<github, handler, built, republished, tests, over, overlap,
                 late, streak, excused, faults>>

(* A request of the pass fails: the next pass lists the event again.       *)
PassFails(r, x) ==
  /\ reconciler[r].at \in {0, x[1]}
  /\ Fault
  /\ Drops(r, x)
  /\ UNCHANGED <<github, delivery, handler, built, republished, tests, over,
                 overlap, late, streak, excused>>

Reconciles(r, x) ==
  \/ SkipsStale(r, x) \/ Picks(r, x) \/ SkipsBuilt(r, x) \/ Redelivers(r, x)

Reconcile(r) == Lists(r) \/ \E x \in reconciler[r].todo : Reconciles(r, x)

-----------------------------------------------------------------------------
Next ==
  \/ Users /\ UNCHANGED reconciler
  \/ Fails /\ UNCHANGED reconciler
  \/ \E h \in Handlers, e \in DOMAIN events :
       Receives(h, e) /\ UNCHANGED reconciler
  \/ \E h \in Handlers : Handles(h) /\ UNCHANGED reconciler
  \/ \E i \in DOMAIN tests :
       (TestStarts(i) \/ TestEnds(i)) /\ UNCHANGED reconciler
  \/ PenaltyPasses /\ UNCHANGED reconciler
  \/ \E r \in Reconcilers : Reconcile(r)
  \/ \E r \in Reconcilers : \E x \in reconciler[r].todo : PassFails(r, x)

Spec == Init /\ [][Next]_vars

(* GitHub delivers what it was asked to deliver, handlers and passes end,  *)
(* and cron starts another pass and the queued builds.                     *)
Fairness ==
  /\ \A e \in 1..Most :
       WF_vars(\E h \in Handlers : e \in DOMAIN events /\ Receives(h, e)
                                     /\ UNCHANGED reconciler)
  /\ \A h \in Handlers : WF_vars(Handles(h) /\ UNCHANGED reconciler)
  /\ \A r \in Reconcilers : WF_vars(Reconcile(r))
  /\ \A i \in 1..MaxPulls :
       WF_vars(i \in DOMAIN tests /\ TestStarts(i) /\ UNCHANGED reconciler)

FairSpec == Spec /\ Fairness

-----------------------------------------------------------------------------
(* Properties *)

(* A commit gets a second row only if the server handled it twice at once, *)
(* or if a row of another commit was inserted between the two.  The push of*)
(* that commit alone makes no second row even then, unless pushes overlap  *)
(* or overtake one another: not by late answers, errors and refusals, and  *)
(* not by redeliveries of however many passes.                             *)
BuiltOnce ==
  \A i, j \in DOMAIN built :
    i < j /\ CommitOf(i) = CommitOf(j) =>
      \/ CommitOf(i) \in overlap
      \/ /\ \E k \in (i + 1)..(j - 1) : CommitOf(k) # CommitOf(i)
         /\ built[i].push = built[j].push => late

(* A commit of a pull request that was opened, or was made ready for       *)
(* review, is not tested again when it is made ready for review, unless its*)
(* events overlapped or overtook one another.                              *)
TestedOnce ==
  late \/ \A i, j \in DOMAIN tests :
    tests[i].started /\ tests[j].started /\ tests[i].sha = tests[j].sha =>
      i = j

(* While a pull request is a draft no build of it waits to be started, once*)
(* its events were handled in their order.                                 *)
InOrder == ~late /\ \A e \in PullEvents : delivery[e].ok
DraftsWait ==
  pr.draft /\ InOrder => \A i \in DOMAIN tests : tests[i].status # "pending"

(* No build of a pull request runs that nobody asked for.                  *)
NoNeedlessTest == TestedOnce /\ DraftsWait

NewestPush(e) == e \in PushEvents /\ \A f \in PushEvents : f <= e
NewestPull(e) == e \in PullEvents /\ \A f \in PullEvents : f <= e

(* The start of a row of the commit failed, and GitHub was told: the row   *)
(* waits, nobody starts it, and the reconciler takes the push for built.   *)
StartFailed(sha) ==
  \E i \in DOMAIN built : /\ CommitOf(i) = sha
                          /\ built[i].status = "pending"
                          /\ delivery[built[i].push].failed > 0

(* The last push of the branch has its build started (or, when it only     *)
(* changes end-of-life keys, is republished), whatever deliveries failed,  *)
(* unless so many failed that the reconciler gives up, or the start itself *)
(* failed.  Its row is the newest of the branch unless pushes overlapped or*)
(* overtook one another; then an older push may have superseded it.        *)
PushSettled(e) ==
  \/ AlreadyBuilt(events[e].sha) /\ built[Len(built)].status = "started"
  \/ late /\ \E i \in DOMAIN built : CommitOf(i) = events[e].sha
                                     /\ built[i].status # "pending"
  \/ e \in republished
  \/ Exhausted(delivery[e].failed)
  \/ StartFailed(events[e].sha)
HeadBuilt ==
  \A e \in 1..Most :
    (e \in DOMAIN events /\ NewestPush(e))
      ~> (~NewestPush(e) \/ PushSettled(e))

(* The head of a pull request that is ready for review gets its test build *)
(* unless an event was lost, overtaken or filtered, or it was paused after *)
(* the builds before it had really failed, Limit of them in a row.         *)
WantsBuild(e) ==
  /\ e \in DOMAIN events /\ NewestPull(e)
  /\ ~pr.draft /\ ~pr.skip /\ ~late
  /\ \A f \in PullEvents : delivery[f].failed = 0
  /\ e \notin excused
HeadTested ==
  \A e \in 1..Most :
    WantsBuild(e)
      ~> (~WantsBuild(e) \/ \E i \in DOMAIN tests :
                              tests[i].sha = pr.head /\ tests[i].started)
==============================================================================
