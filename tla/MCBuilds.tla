------------------------------ MODULE MCBuilds ------------------------------
(* Instances of Builds for TLC. *)
EXTENDS Builds, TLC

CONSTANTS pr1, pr2, stable, d1, d2, c1, c2

RowsOf(kinds, l, spots) == {[kind |-> k, lane |-> l, spot |-> s] : k \in kinds, s \in spots}

\* Debounced pull-request builds of one pull request.
PullRequests == RowsOf({"pr", "explicit"}, pr1, {TRUE})

\* Builds of a member or of a manual trigger, and debounced ones beside them.
Immediates == RowsOf({"immediate"}, pr1, {TRUE})
MixedRequests == RowsOf({"pr", "immediate"}, pr1, {TRUE, FALSE})

\* Debounced builds of two pull requests; those on request need no spot runner.
TwoPullRequests ==
  RowsOf({"pr"}, pr1, {TRUE}) \cup RowsOf({"explicit"}, pr1, {FALSE})
    \cup RowsOf({"pr"}, pr2, {TRUE})

Pushes == RowsOf({"push"}, stable, {TRUE})
PushesAndRetries == RowsOf({"push", "reissue"}, stable, {TRUE})

CallersSymmetry == Permutations(Callers)

=============================================================================
