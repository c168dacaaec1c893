---------------------------- MODULE TaskDelivery ----------------------------
(***************************************************************************)
(* What the queue of GitHub requests promises of every queued task: it is   *)
(* completed only when GitHub has taken its request, given up only after    *)
(* MaxAttempts tries, and once it is settled its request is not sent again. *)
(***************************************************************************)
EXTENDS Naturals

CONSTANTS Tasks, MaxAttempts

VARIABLES
  outcome,   \* of each task
  tries,     \* how often the queue has sent its request
  taken      \* how often GitHub has taken it

vars == <<outcome, tries, taken>>

Init ==
  /\ outcome = [t \in Tasks |-> "open"]
  /\ tries = [t \in Tasks |-> 0]
  /\ taken = [t \in Tasks |-> 0]

(* The request is sent, by the queue or by the handler that may queue it.  *)
Send(t, tried, took) ==
  /\ outcome[t] = "open"
  /\ tries' = [tries EXCEPT ![t] = @ + tried]
  /\ taken' = [taken EXCEPT ![t] = @ + took]
  /\ UNCHANGED outcome

(* Some open tasks are settled. *)
Settle ==
  /\ outcome' \in [Tasks -> {"open", "completed", "failed"}]
  /\ \A t \in Tasks : outcome'[t] # outcome[t] =>
       /\ outcome[t] = "open"
       /\ outcome'[t] = "completed" => taken[t] > 0
       /\ outcome'[t] = "failed" => tries[t] >= MaxAttempts
  /\ UNCHANGED <<tries, taken>>

Next ==
  \/ \E t \in Tasks, tried, took \in {0, 1} : Send(t, tried, took)
  \/ Settle

Spec == Init /\ [][Next]_vars

=============================================================================
