-------------------------- MODULE MCFailureIssues --------------------------
(* Instance of FailureIssues for TLC. *)
EXTENDS FailureIssues
==============================================================================
