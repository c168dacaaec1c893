-------------------------- MODULE MCMergeRequests ---------------------------
(* Instances of MergeRequests for TLC. *)
EXTENDS MergeRequests

CONSTANTS app, pr, other

(* Two commands on one pull request and one on another, all of which name  *)
(* the same application.                                                   *)
Submissions == [r \in Requests |-> IF r = 3 THEN other ELSE pr]

SameApp == [r \in Requests |-> app]

=============================================================================
