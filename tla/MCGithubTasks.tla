--------------------------- MODULE MCGithubTasks ----------------------------
(* Instances of GithubTasks for TLC. *)
EXTENDS GithubTasks

=============================================================================
