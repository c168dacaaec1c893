------------------------- MODULE FailureIssues_proofs -------------------------
(***************************************************************************)
(* Proofs about FailureIssues, for any number of builds, retries, users'   *)
(* actions and faults: types, at most one open issue, the row tells of the *)
(* last result, and a retry builds a commit its issue reports.             *)
(***************************************************************************)
EXTENDS FailureIssues, TLAPS

Shas == Runs \cup {0}
AnyRow == [exists : BOOLEAN, number : Nat, sha : Shas]
Phases == {"absent", "building", "ended", "adopt", "look", "act", "done"}
AnyRun == [pc : Phases, sha : Shas, status : {"none", "failure", "success"},
           mine : AnyRow, seen : {"none", "open", "closed"}]
AnyRetry == [pc : {"idle", "read", "started"}, issue : Nat, sha : Shas]
Results == [status : {"unknown", "failure", "success"}, sha : Shas]

(* The open issues that the row has to know.                               *)
Alive == OpenIssues \ orphans

-----------------------------------------------------------------------------
(* The parts of the inductive invariant                                    *)

Types ==
  /\ run \in [Runs -> AnyRun]
  /\ holder \in Shas
  /\ issues \in Seq(Issue)
  /\ retry \in [Retriers -> AnyRetry]
  /\ retried \subseteq [issue : Nat, sha : Shas]
  /\ last \in Results
  /\ orphans \subseteq Numbers /\ user \in 0..MaxUser /\ faults \in 0..MaxFaults

(* A row, and the issues as they are: it names one, and a commit that one  *)
(* reports.                                                                *)
GoodRow(x) ==
  /\ x \in AnyRow
  /\ x.number \in 0..Len(issues)
  /\ x.number = 0 => x.sha = 0
  /\ x.sha # 0 => x.sha \in issues[x.number].said

Working == {"adopt", "look", "act"}

(* The handler that holds the row works on a copy of it; of a row it is    *)
(* about to insert, on the issue it adopted.                               *)
Held(r) ==
  /\ run[r].status # "none"
  /\ run[r].mine.exists /\ GoodRow(run[r].mine)
  /\ IF row.exists THEN run[r].mine = row ELSE run[r].mine.sha = 0
  /\ run[r].pc = "adopt" => ~row.exists
  /\ run[r].pc # "adopt" /\ ~row.exists => Alive \subseteq {run[r].mine.number}
  /\ run[r].pc = "act" =>
       /\ run[r].mine.number # 0 /\ run[r].seen # "none"
       /\ run[r].seen = "closed" => run[r].mine.number \notin Alive

Handling ==
  \A r \in Runs :
    /\ run[r].pc \in Working <=> holder = r
    /\ run[r].pc # "absent" => run[r].sha \in Runs
    /\ run[r].pc = "ended" => run[r].status # "none"
    /\ holder = r => Held(r)

(* Of the issues that are no orphans only the row's is open; without a row *)
(* no result has been dealt with.                                          *)
RowIsOpen(x) ==
  IF x.exists THEN Alive \subseteq {x.number}
  ELSE x = NoRow /\ last.status = "unknown"

Reported ==
  /\ \A n \in Numbers : issues[n].edited \/ issues[n].body \in issues[n].said
  /\ \A t \in Retriers : retry[t].pc # "idle" =>
       retry[t].issue \in Numbers /\ retry[t].sha \in issues[retry[t].issue].said
  /\ \A x \in retried : x.issue \in Numbers /\ x.sha \in issues[x.issue].said

(* LastResultStands, while a handler holds the row too.                    *)
RowTells(x) ==
  /\ last.status = "failure" =>
       x.number # 0 /\ x.sha = last.sha /\ last.sha \in issues[x.number].said
  /\ last.status = "success" => x.number = 0 /\ Alive = {}

IssueInv ==
  Types /\ GoodRow(row) /\ Handling /\ RowIsOpen(row) /\ Reported /\ RowTells(row)

-----------------------------------------------------------------------------
(* Issues                                                                  *)

(* What any step may do to the issues: open one, close, edit, comment, and *)
(* open one again that is an orphan from then on.                          *)
IssuesGrow ==
  /\ issues' \in Seq(Issue) /\ Len(issues) \in Nat /\ Len(issues') \in Nat
  /\ Len(issues) <= Len(issues')
  /\ \A n \in Numbers :
       /\ issues[n].said \subseteq issues'[n].said
       /\ issues'[n].open => issues[n].open \/ n \in orphans'
       /\ ~issues'[n].edited => ~issues[n].edited /\ issues'[n].body = issues[n].body

LEMMA SameIssues ==
  ASSUME Types, UNCHANGED issues
  PROVE  IssuesGrow /\ Len(issues') = Len(issues)
BY DEF Types, IssuesGrow, Issue

LEMMA OpenedGrows ==
  ASSUME Types, NEW sha \in Runs, Opened(sha)
  PROVE  /\ IssuesGrow
         /\ Len(issues') = Len(issues) + 1
         /\ issues'[Len(issues) + 1].open
         /\ issues'[Len(issues) + 1].body = sha
         /\ issues'[Len(issues) + 1].said = {sha}
         /\ \A n \in Numbers : issues'[n] = issues[n]
<1>. DEFINE x == [open |-> TRUE, body |-> sha, edited |-> FALSE, ours |-> TRUE,
                  said |-> {sha}]
<1>1. x \in Issue /\ x.open /\ x.body = sha /\ x.said = {sha}
  BY DEF Issue
<1>2. issues' = Append(issues, x) /\ issues \in Seq(Issue)
  BY DEF Opened, Types
<1>. HIDE DEF x
<1>3. /\ issues' \in Seq(Issue) /\ Len(issues') = Len(issues) + 1
      /\ Len(issues) \in Nat
      /\ issues'[Len(issues) + 1] = x
      /\ \A n \in 1..Len(issues) : issues'[n] = issues[n]
  BY <1>1, <1>2
<1>. QED BY <1>1, <1>3 DEF IssuesGrow, Numbers

LEMMA CommentedGrows ==
  ASSUME Types, NEW n \in Numbers, NEW sha \in Runs, Commented(n, sha)
  PROVE  /\ IssuesGrow /\ Len(issues') = Len(issues)
         /\ sha \in issues'[n].said
<1>1. issues[n] \in Issue
  BY DEF Types, Numbers
<1>2. DEFINE x == [issues[n] EXCEPT !.said = @ \cup {sha}]
<1>3. /\ x \in Issue /\ x.open = issues[n].open /\ x.body = issues[n].body
      /\ x.edited = issues[n].edited /\ x.said = issues[n].said \cup {sha}
  BY <1>1 DEF Issue
<1>4. issues' = [issues EXCEPT ![n] = x]
  BY DEF Commented
<1>. HIDE DEF x
<1>5. /\ issues' \in Seq(Issue) /\ Len(issues') = Len(issues) /\ Len(issues) \in Nat
      /\ \A i \in 1..Len(issues) : issues'[i] = IF i = n THEN x ELSE issues[i]
  BY <1>3, <1>4 DEF Types, Numbers
<1>. QED BY <1>3, <1>5 DEF IssuesGrow, Numbers

LEMMA ClosedGrows ==
  ASSUME Types, NEW n \in Numbers, Closed(n)
  PROVE  /\ IssuesGrow /\ Len(issues') = Len(issues)
         /\ ~issues'[n].open
<1>1. issues[n] \in Issue
  BY DEF Types, Numbers
<1>2. DEFINE x == [issues[n] EXCEPT !.open = FALSE]
<1>3. /\ x \in Issue /\ ~x.open /\ x.body = issues[n].body
      /\ x.edited = issues[n].edited /\ x.said = issues[n].said
  BY <1>1 DEF Issue
<1>4. issues' = [issues EXCEPT ![n] = x]
  BY DEF Closed
<1>. HIDE DEF x
<1>5. /\ issues' \in Seq(Issue) /\ Len(issues') = Len(issues) /\ Len(issues) \in Nat
      /\ \A i \in 1..Len(issues) : issues'[i] = IF i = n THEN x ELSE issues[i]
  BY <1>3, <1>4 DEF Types, Numbers
<1>. QED BY <1>3, <1>5 DEF IssuesGrow, Numbers

(* A good row stays good.                                                  *)
LEMMA GrowKeepsRow ==
  ASSUME IssuesGrow, NEW x, GoodRow(x)
  PROVE  /\ x.number \in 0..Len(issues')
         /\ x.sha # 0 => x.sha \in issues'[x.number].said
BY DEF IssuesGrow, GoodRow, Numbers

LEMMA GrowKeepsRetries ==
  ASSUME IssuesGrow, Types, Reported, UNCHANGED <<retry, retried>>,
         \A n \in Len(issues) + 1 .. Len(issues') : issues'[n].body \in issues'[n].said
  PROVE  Reported'
<1>1. \A n \in Numbers : n \in Numbers' /\ issues[n].said \subseteq issues'[n].said
  BY DEF IssuesGrow, Numbers
<1>2. \A n \in Numbers' : issues'[n].edited \/ issues'[n].body \in issues'[n].said
  BY DEF IssuesGrow, Reported, Numbers
<1>. QED BY <1>1, <1>2 DEF Reported

-----------------------------------------------------------------------------
(* Steps of users, pipelines and retries                                   *)

LEMMA OutsideKeeps ==
  ASSUME IssueInv, UNCHANGED <<row, holder, last>>,
         IssuesGrow, Len(issues') = Len(issues), Reported',
         orphans \subseteq orphans', orphans' \subseteq Numbers,
         run' \in [Runs -> AnyRun], retry' \in [Retriers -> AnyRetry],
         retried' \subseteq [issue : Nat, sha : Shas],
         user' \in 0..MaxUser, faults' \in 0..MaxFaults,
         \A q \in Runs :
           \/ run'[q] = run[q]
           \/ /\ run[q].pc \notin Working /\ run'[q].pc \notin Working
              /\ run'[q].pc # "absent" => run'[q].sha \in Runs
              /\ run'[q].pc = "ended" => run'[q].status # "none"
  PROVE  IssueInv'
<1>1. Types'
  BY DEF IssueInv, Types, IssuesGrow, Numbers
<1>2. /\ Numbers' = Numbers
      /\ Alive' \subseteq Alive
  BY DEF IssuesGrow, Numbers, OpenIssues, Alive
<1>3. GoodRow(row)'
  BY GrowKeepsRow DEF IssueInv, GoodRow
<1>4. RowIsOpen(row)'
  BY <1>2 DEF IssueInv, RowIsOpen
<1>5. RowTells(row)'
  <2>1. row.number # 0 => issues[row.number].said \subseteq issues'[row.number].said
    BY DEF IssueInv, GoodRow, IssuesGrow, Numbers
  <2>. QED BY <1>2, <2>1 DEF IssueInv, RowTells
<1>6. Handling'
  <2>. SUFFICES ASSUME NEW q \in Runs
                PROVE  /\ run'[q].pc \in Working <=> holder = q
                       /\ run'[q].pc # "absent" => run'[q].sha \in Runs
                       /\ run'[q].pc = "ended" => run'[q].status # "none"
                       /\ holder = q => Held(q)'
    BY DEF Handling
  <2>1. CASE run'[q] = run[q]
    <3>1. Held(q) => Held(q)'
      <4>. SUFFICES ASSUME Held(q) PROVE Held(q)'
        OBVIOUS
      <4>1. GoodRow(run[q].mine)'
        BY <2>1, GrowKeepsRow DEF Held, GoodRow
      <4>2. run[q].pc = "act" =>
              (run[q].seen = "closed" => run[q].mine.number \notin Alive')
        BY <1>2 DEF Held
      <4>. QED BY <2>1, <4>1, <4>2, <1>2 DEF Held
    <3>. QED BY <2>1, <3>1 DEF IssueInv, Handling
  <2>2. CASE run'[q] # run[q]
    BY <2>2 DEF IssueInv, Handling
  <2>. QED BY <2>1, <2>2
<1>. QED BY <1>1, <1>3, <1>4, <1>5, <1>6 DEF IssueInv

(* A build that starts.                                                    *)
LEMMA StartsKeeps ==
  ASSUME IssueInv, NEW r \in Runs, NEW sha \in Runs, NextRun(r), Starts(r, sha)
  PROVE  /\ run' \in [Runs -> AnyRun]
         /\ \A q \in Runs :
              \/ run'[q] = run[q]
              \/ /\ run[q].pc \notin Working /\ run'[q].pc \notin Working
                 /\ run'[q].pc # "absent" => run'[q].sha \in Runs
                 /\ run'[q].pc = "ended" => run'[q].status # "none"
<1>. DEFINE y == [Absent EXCEPT !.pc = "building", !.sha = sha]
<1>1. y \in AnyRun /\ y.pc = "building" /\ y.sha \in Runs /\ Absent.pc = "absent"
  BY DEF AnyRun, Absent, NoRow, AnyRow, Phases, Shas
<1>2. run' = [run EXCEPT ![r] = y] /\ run[r] = Absent
  BY DEF Starts, NextRun
<1>. HIDE DEF y
<1>3. /\ run' \in [Runs -> AnyRun]
      /\ \A q \in Runs : run'[q] = IF q = r THEN y ELSE run[q]
  BY <1>1, <1>2 DEF IssueInv, Types
<1>. QED BY <1>1, <1>2, <1>3 DEF Working

LEMMA PushedKeeps == ASSUME IssueInv, NEW r \in Runs, Pushed(r) PROVE IssueInv'
<1>1. /\ UNCHANGED <<row, holder, issues, retry, last, orphans, retried, user, faults>>
      /\ NextRun(r) /\ Starts(r, r)
  BY DEF Pushed, history
<1>2. IssuesGrow /\ Len(issues') = Len(issues)
  BY <1>1, SameIssues DEF IssueInv
<1>3. Reported'
  BY <1>1 DEF IssueInv, Reported, Numbers
<1>. HIDE DEF NextRun, Starts
<1>. QED BY <1>1, <1>2, <1>3, StartsKeeps, OutsideKeeps DEF IssueInv, Types

LEMMA EndsKeeps == ASSUME IssueInv, NEW r \in Runs, Ends(r) PROVE IssueInv'
<1>1. /\ UNCHANGED <<row, holder, issues, retry, last, orphans, retried, user, faults>>
      /\ run[r].pc = "building"
  BY DEF Ends, history
<1>2. PICK s \in {"failure", "success"} :
        run' = [run EXCEPT ![r].pc = "ended", ![r].status = s]
  BY DEF Ends
<1>3. run[r] \in AnyRun /\ run[r].sha \in Runs
  BY <1>1 DEF IssueInv, Types, Handling
<1>. DEFINE y == [run[r] EXCEPT !.pc = "ended", !.status = s]
<1>4. y \in AnyRun /\ y.pc = "ended" /\ y.sha \in Runs /\ y.status # "none"
  BY <1>3 DEF AnyRun, Phases
<1>5. run' = [run EXCEPT ![r] = y]
  BY <1>2 DEF IssueInv, Types
<1>. HIDE DEF y
<1>6. /\ run' \in [Runs -> AnyRun]
      /\ \A q \in Runs : run'[q] = IF q = r THEN y ELSE run[q]
  BY <1>4, <1>5 DEF IssueInv, Types
<1>7. \A q \in Runs :
           \/ run'[q] = run[q]
           \/ /\ run[q].pc \notin Working /\ run'[q].pc \notin Working
              /\ run'[q].pc # "absent" => run'[q].sha \in Runs
              /\ run'[q].pc = "ended" => run'[q].status # "none"
  BY <1>1, <1>4, <1>6 DEF Working
<1>8. IssuesGrow /\ Len(issues') = Len(issues)
  BY <1>1, SameIssues DEF IssueInv
<1>9. Reported'
  BY <1>1 DEF IssueInv, Reported, Numbers
<1>. QED BY <1>1, <1>6, <1>7, <1>8, <1>9, OutsideKeeps DEF IssueInv, Types

LEMMA RetryKeeps == ASSUME IssueInv, NEW t \in Retriers, Retry(t) PROVE IssueInv'
<1>1. CASE RetryReads(t)
  <2>1. /\ UNCHANGED <<run, row, holder, issues, last, orphans, retried, user, faults>>
    BY <1>1 DEF RetryReads, history
  <2>2. PICK n \in Numbers : Retryable(n) /\ \E sha \in RetrySha(n) :
            retry' = [retry EXCEPT ![t] = [pc |-> "read", issue |-> n, sha |-> sha]]
    BY <1>1 DEF RetryReads
  <2>3. PICK sha \in RetrySha(n) :
            retry' = [retry EXCEPT ![t] = [pc |-> "read", issue |-> n, sha |-> sha]]
    BY <2>2
  <2>4. n \in Nat /\ sha \in issues[n].said /\ issues[n].said \subseteq Runs
    <3>1. issues[n] \in Issue /\ n \in Nat
      BY DEF IssueInv, Types, Numbers
    <3>2. issues[n].body \in issues[n].said
      BY <2>2 DEF IssueInv, Reported, Retryable
    <3>3. row.number = n /\ row.sha # 0 => row.sha \in issues[n].said
      BY DEF IssueInv, GoodRow
    <3>. QED BY <3>1, <3>2, <3>3, <2>3 DEF RetrySha, Issue
  <2>. DEFINE y == [pc |-> "read", issue |-> n, sha |-> sha]
  <2>5. y \in AnyRetry /\ y.issue = n /\ y.sha = sha
    BY <2>4 DEF AnyRetry, Shas
  <2>. HIDE DEF y
  <2>6. /\ retry' \in [Retriers -> AnyRetry]
        /\ \A u \in Retriers : retry'[u] = IF u = t THEN y ELSE retry[u]
    BY <2>3, <2>5 DEF IssueInv, Types, y
  <2>7. Reported'
    BY <2>1, <2>4, <2>5, <2>6 DEF IssueInv, Reported, Numbers
  <2>8. IssuesGrow /\ Len(issues') = Len(issues)
    BY <2>1, SameIssues DEF IssueInv
  <2>. QED BY <2>1, <2>6, <2>7, <2>8, OutsideKeeps DEF IssueInv, Types
<1>2. CASE RetryStarts(t)
  <2>1. /\ UNCHANGED <<row, holder, issues, last, orphans, user, faults>>
        /\ retry[t].pc = "read"
        /\ retry' = [retry EXCEPT ![t].pc = "started"]
        /\ retried' = retried \cup {[issue |-> retry[t].issue, sha |-> retry[t].sha]}
    BY <1>2 DEF RetryStarts
  <2>2. /\ retry[t].issue \in Numbers /\ retry[t].sha \in issues[retry[t].issue].said
        /\ retry[t] \in AnyRetry
    BY <2>1 DEF IssueInv, Reported, Types
  <2>3. retry[t].sha \in Runs
    <3>1. issues[retry[t].issue] \in Issue
      BY <2>2 DEF IssueInv, Types, Numbers
    <3>. QED BY <2>2, <3>1 DEF Issue
  <2>4. PICK r \in Runs : NextRun(r) /\ Starts(r, retry[t].sha)
    BY <1>2 DEF RetryStarts
  <2>. DEFINE y == [retry[t] EXCEPT !.pc = "started"]
  <2>5. y \in AnyRetry /\ y.issue = retry[t].issue /\ y.sha = retry[t].sha
    BY <2>2 DEF AnyRetry
  <2>6. retry' = [retry EXCEPT ![t] = y]
    BY <2>1
  <2>. HIDE DEF y
  <2>7. /\ retry' \in [Retriers -> AnyRetry]
        /\ \A u \in Retriers : retry'[u] = IF u = t THEN y ELSE retry[u]
    BY <2>5, <2>6 DEF IssueInv, Types
  <2>. DEFINE x == [issue |-> retry[t].issue, sha |-> retry[t].sha]
  <2>8. /\ x \in [issue : Nat, sha : Shas] /\ x.issue \in Numbers
        /\ x.sha \in issues[x.issue].said
    BY <2>2 DEF AnyRetry
  <2>9. retried' = retried \cup {x}
    BY <2>1
  <2>. HIDE DEF x
  <2>10. Reported'
    BY <2>1, <2>2, <2>5, <2>7, <2>8, <2>9 DEF IssueInv, Reported, Numbers
  <2>11. IssuesGrow /\ Len(issues') = Len(issues)
    BY <2>1, SameIssues DEF IssueInv
  <2>12. retried' \subseteq [issue : Nat, sha : Shas]
    BY <2>8, <2>9 DEF IssueInv, Types
  <2>. QED BY <2>1, <2>3, <2>4, <2>7, <2>10, <2>11, <2>12, StartsKeeps, OutsideKeeps
           DEF IssueInv, Types
<1>3. CASE RetryCloses(t) \/ RetryFails(t)
  <2>1. /\ UNCHANGED <<run, row, holder, last, orphans, retried, user>>
        /\ retry' = [retry EXCEPT ![t] = NoRetry] /\ retry[t].pc # "idle"
        /\ faults' \in 0..MaxFaults
        /\ UNCHANGED issues \/ Closed(retry[t].issue)
    BY <1>3, IssueConstants DEF RetryCloses, RetryFails, history, Fault, IssueInv, Types
  <2>2. retry[t].issue \in Numbers
    BY <2>1 DEF IssueInv, Reported
  <2>3. IssuesGrow /\ Len(issues') = Len(issues)
    BY <2>1, <2>2, SameIssues, ClosedGrows DEF IssueInv
  <2>4. NoRetry \in AnyRetry /\ NoRetry.pc = "idle"
    BY DEF NoRetry, AnyRetry, Shas
  <2>5. /\ retry' \in [Retriers -> AnyRetry]
        /\ \A u \in Retriers : retry'[u] = IF u = t THEN NoRetry ELSE retry[u]
    BY <2>1, <2>4 DEF IssueInv, Types
  <2>6. Reported'
    <3>1. /\ Numbers' = Numbers
          /\ \A n \in Numbers :
               /\ issues[n].said \subseteq issues'[n].said
               /\ ~issues'[n].edited => ~issues[n].edited /\ issues'[n].body = issues[n].body
      BY <2>3 DEF IssuesGrow, Numbers
    <3>. QED BY <3>1, <2>1, <2>4, <2>5 DEF IssueInv, Reported
  <2>. QED BY <2>1, <2>3, <2>5, <2>6, OutsideKeeps DEF IssueInv, Types
<1>. QED BY <1>1, <1>2, <1>3 DEF Retry

LEMMA UserKeeps ==
  ASSUME IssueInv, NEW n \in Numbers, UserCloses(n) \/ UserReopens(n) \/ UserEdits(n)
  PROVE  IssueInv'
<1>1. /\ UNCHANGED <<run, row, holder, retry, last, retried, faults>>
      /\ user' \in 0..MaxUser
      /\ orphans' \in {orphans, orphans \cup {n}}
  BY IssueConstants DEF UserCloses, UserReopens, UserEdits, IssueInv, Types
<1>2. issues[n] \in Issue /\ issues \in Seq(Issue)
  BY DEF IssueInv, Types, Numbers
<1>3. IssuesGrow /\ Len(issues') = Len(issues)
  <2>1. CASE UserCloses(n)
    BY <2>1, ClosedGrows DEF UserCloses, IssueInv
  <2>2. SUFFICES ASSUME UserReopens(n) \/ UserEdits(n)
                 PROVE  IssuesGrow /\ Len(issues') = Len(issues)
    BY <2>1
  <2>3. PICK x \in Issue :
          /\ issues' = [issues EXCEPT ![n] = x]
          /\ x.said = issues[n].said
          /\ x.open => issues[n].open \/ n \in orphans'
          /\ ~x.edited => ~issues[n].edited /\ x.body = issues[n].body
    <3>1. CASE UserReopens(n)
      <4>. DEFINE x == [issues[n] EXCEPT !.open = TRUE]
      <4>1. /\ x \in Issue /\ x.said = issues[n].said
            /\ x.edited = issues[n].edited /\ x.body = issues[n].body
        BY <1>2 DEF Issue
      <4>2. issues' = [issues EXCEPT ![n] = x] /\ n \in orphans'
        BY <3>1 DEF UserReopens
      <4>. HIDE DEF x
      <4>. QED BY <4>1, <4>2
    <3>2. CASE UserEdits(n)
      <4>1. CASE issues' = [issues EXCEPT ![n].ours = ~@]
        <5>. DEFINE x == [issues[n] EXCEPT !.ours = ~@]
        <5>1. /\ x \in Issue /\ x.said = issues[n].said /\ x.open = issues[n].open
              /\ x.edited = issues[n].edited /\ x.body = issues[n].body
          BY <1>2 DEF Issue
        <5>2. issues' = [issues EXCEPT ![n] = x]
          BY <4>1
        <5>. HIDE DEF x
        <5>. QED BY <5>1, <5>2
      <4>2. ASSUME NEW o \in BOOLEAN,
                   issues' = [issues EXCEPT ![n].edited = TRUE, ![n].body = 0, ![n].ours = o]
            PROVE  \E x \in Issue :
                     /\ issues' = [issues EXCEPT ![n] = x]
                     /\ x.said = issues[n].said /\ x.edited /\ x.open = issues[n].open
        <5>. DEFINE x == [issues[n] EXCEPT !.edited = TRUE, !.body = 0, !.ours = o]
        <5>1. /\ x \in Issue /\ x.said = issues[n].said /\ x.open = issues[n].open
              /\ x.edited
          BY <1>2 DEF Issue
        <5>2. issues' = [issues EXCEPT ![n] = x]
          BY <4>2, <1>2 DEF Numbers
        <5>. HIDE DEF x
        <5>. QED BY <5>1, <5>2
      <4>. QED BY <3>2, <4>1, <4>2 DEF UserEdits
    <3>. QED BY <2>2, <3>1, <3>2
  <2>4. /\ issues' \in Seq(Issue) /\ Len(issues') = Len(issues) /\ Len(issues) \in Nat
        /\ \A i \in 1..Len(issues) : issues'[i] = IF i = n THEN x ELSE issues[i]
    BY <1>2, <2>3 DEF Numbers
  <2>. QED BY <2>3, <2>4 DEF IssuesGrow, Numbers
<1>4. Reported'
  BY <1>1, <1>3, GrowKeepsRetries DEF IssueInv, IssuesGrow
<1>. QED BY <1>1, <1>3, <1>4, OutsideKeeps DEF IssueInv, Types

-----------------------------------------------------------------------------
(* What a handler knows                                                    *)

LEMMA Holding ==
  ASSUME IssueInv, NEW r \in Runs, run[r].pc \in Working \/ holder = r
  PROVE  /\ holder = r /\ run[r].pc \in Working /\ Held(r)
         /\ run[r] \in AnyRun /\ run[r].sha \in Runs /\ r # 0
         /\ run[r].status \in {"failure", "success"}
<1>1. holder = r /\ run[r].pc \in Working /\ Held(r)
  BY DEF IssueInv, Handling
<1>2. run[r] \in AnyRun /\ run[r].sha \in Runs
  BY <1>1 DEF IssueInv, Types, Handling, Working
<1>. QED BY <1>1, <1>2, IssueConstants DEF Held, AnyRun

(* Of the issues that are no orphans only the handler's own is open.       *)
LEMMA OnlyMine ==
  ASSUME IssueInv, NEW r \in Runs, run[r].pc \in {"look", "act"}
  PROVE  Alive \subseteq {run[r].mine.number}
<1>1. Held(r)
  BY Holding DEF Working
<1>. QED BY <1>1 DEF Held, IssueInv, RowIsOpen

LEMMA NothingOpen ==
  ASSUME IssueInv, NEW r \in Runs, NoIssue(r) \/ Sees(r, "closed")
  PROVE  Alive = {}
<1>1. run[r].pc \in {"look", "act"} /\ Held(r)
  BY Holding DEF NoIssue, Sees, Working
<1>2. run[r].mine.number \notin Alive
  BY <1>1 DEF NoIssue, Sees, Held, OpenIssues, Numbers, Alive
<1>. QED BY <1>1, <1>2, OnlyMine

(* What an open issue that the handler sees is.                            *)
LEMMA MineIsIssue ==
  ASSUME IssueInv, NEW r \in Runs, Sees(r, "open")
  PROVE  run[r].mine.number \in Numbers
<1>1. Held(r) /\ run[r].pc = "act"
  BY Holding DEF Sees, Working
<1>. QED BY <1>1 DEF Held, GoodRow, Numbers, IssueInv, Types

(* A step that leaves the handler with the row.                            *)
LEMMA HandlingSteps ==
  ASSUME IssueInv, NEW r \in Runs, holder \in {0, r}, holder' = r,
         UNCHANGED <<row, retry, last, retried, user>>, faults' \in 0..MaxFaults,
         IssuesGrow, Reported', orphans' \subseteq Numbers',
         RowIsOpen(row)', RowTells(row)',
         run' \in [Runs -> AnyRun],
         \A q \in Runs : q # r => run'[q] = run[q],
         run'[r].pc \in Working, run'[r].sha \in Runs, Held(r)'
  PROVE  IssueInv'
<1>1. Types'
  BY DEF IssueInv, Types, IssuesGrow, Shas
<1>2. GoodRow(row)'
  BY GrowKeepsRow DEF IssueInv, GoodRow
<1>3. Handling'
  <2>1. \A q \in Runs : q # r => run[q].pc \notin Working
    BY IssueConstants DEF IssueInv, Handling
  <2>. QED BY <2>1 DEF IssueInv, Handling, Working
<1>. QED BY <1>1, <1>2, <1>3 DEF IssueInv

LEMMA HandlingKeeps ==
  ASSUME IssueInv, NEW r \in Runs, holder \in {0, r}, holder' = r,
         UNCHANGED <<row, issues, retry, last, orphans, retried, user, faults>>,
         run' \in [Runs -> AnyRun],
         \A q \in Runs : q # r => run'[q] = run[q],
         run'[r].pc \in Working, run'[r].sha \in Runs, Held(r)'
  PROVE  IssueInv'
<1>1. RowIsOpen(row)' /\ RowTells(row)' /\ Reported'
  BY DEF IssueInv, RowIsOpen, RowTells, Alive, OpenIssues, Numbers, Reported
<1>2. IssuesGrow
  BY SameIssues DEF IssueInv
<1>3. orphans' \subseteq Numbers' /\ faults' \in 0..MaxFaults
  BY DEF IssueInv, Types, Numbers
<1>. QED BY <1>1, <1>2, <1>3, HandlingSteps

(* A step that commits the row.                                            *)
LEMMA CommitKeeps ==
  ASSUME IssueInv, NEW r \in Runs, holder = r, NEW result, Commit(r, result),
         UNCHANGED <<retry, retried, user>>, faults' \in 0..MaxFaults,
         IssuesGrow, Reported', last' \in Results, orphans' \subseteq Numbers',
         GoodRow(row)', RowIsOpen(row)', RowTells(row)'
  PROVE  IssueInv'
<1>. DEFINE y == [Absent EXCEPT !.pc = "done", !.sha = run[r].sha]
<1>1. run[r].sha \in Runs /\ r # 0
  BY Holding
<1>2. y \in AnyRun /\ y.pc = "done" /\ y.sha \in Runs
  BY <1>1 DEF AnyRun, Absent, NoRow, AnyRow, Phases, Shas
<1>3. run' = [run EXCEPT ![r] = y] /\ holder' = 0
  BY DEF Commit
<1>. HIDE DEF y
<1>4. /\ run' \in [Runs -> AnyRun]
      /\ \A q \in Runs : run'[q] = IF q = r THEN y ELSE run[q]
  BY <1>2, <1>3 DEF IssueInv, Types
<1>5. Types'
  BY <1>3, <1>4 DEF IssueInv, Types, IssuesGrow, Shas
<1>6. Handling'
  <2>1. \A q \in Runs : q # r => run[q].pc \notin Working
    BY DEF IssueInv, Handling
  <2>. QED BY <1>2, <1>3, <1>4, <2>1, IssueConstants DEF IssueInv, Handling, Working
<1>. QED BY <1>5, <1>6 DEF IssueInv

(* The open issues after a step.                                           *)
LEMMA OpenAfterGrowth ==
  ASSUME IssuesGrow, Len(issues') = Len(issues), orphans \subseteq orphans'
  PROVE  Numbers' = Numbers /\ Alive' \subseteq Alive
BY DEF IssuesGrow, OpenIssues, Numbers, Alive

LEMMA OpenAfterOpened ==
  ASSUME IssuesGrow, Len(issues') = Len(issues) + 1, orphans \subseteq orphans'
  PROVE  /\ Len(issues) + 1 \in Numbers' /\ Numbers \subseteq Numbers'
         /\ Alive' \subseteq Alive \cup ({Len(issues) + 1} \ orphans')
<1>1. Numbers' = Numbers \cup {Len(issues) + 1}
  BY DEF IssuesGrow, Numbers
<1>. QED BY <1>1 DEF IssuesGrow, OpenIssues, Alive

-----------------------------------------------------------------------------
(* Steps of a handler                                                      *)

LEMMA ReserveKeeps == ASSUME IssueInv, NEW r \in Runs, Reserve(r) PROVE IssueInv'
<1>1. /\ run[r].pc = "ended" /\ holder = 0 /\ holder' = r
      /\ UNCHANGED <<row, issues, retry, last, orphans, retried, user, faults>>
  BY DEF Reserve, Holds, history
<1>2. run[r] \in AnyRun /\ run[r].sha \in Runs /\ run[r].status # "none"
  BY <1>1 DEF IssueInv, Types, Handling
<1>3. Cleared \in AnyRow /\ Cleared.exists /\ Cleared.number = 0 /\ Cleared.sha = 0
  BY DEF Cleared, AnyRow, Shas
<1>4. row \in AnyRow /\ row.exists \in BOOLEAN
  BY DEF IssueInv, GoodRow, AnyRow
<1>. DEFINE p == IF row.exists THEN "look" ELSE "adopt"
            m == IF row.exists THEN row ELSE Cleared
            y == [run[r] EXCEPT !.pc = p, !.mine = m]
<1>5. p \in Phases /\ p \in {"look", "adopt"} /\ (p = "adopt" => ~row.exists)
  BY DEF Phases
<1>6. m \in AnyRow /\ m.exists /\ IF row.exists THEN m = row ELSE m = Cleared
  BY <1>3, <1>4
<1>7. run' = [run EXCEPT ![r].pc = p, ![r].mine = m]
  BY DEF Reserve
<1>. HIDE DEF p, m
<1>8. /\ y \in AnyRun /\ y.pc = p /\ y.mine = m /\ y.sha = run[r].sha
      /\ y.status = run[r].status
  BY <1>2, <1>5, <1>6 DEF AnyRun
<1>9. run' = [run EXCEPT ![r] = y]
  BY <1>7 DEF IssueInv, Types
<1>. HIDE DEF y
<1>10. /\ run' \in [Runs -> AnyRun]
       /\ \A q \in Runs : run'[q] = IF q = r THEN y ELSE run[q]
  BY <1>8, <1>9 DEF IssueInv, Types
<1>11. GoodRow(m)
  <2>1. GoodRow(Cleared)
    BY <1>3 DEF GoodRow, IssueInv, Types
  <2>. QED BY <1>6, <2>1 DEF IssueInv
<1>12. Held(r)'
  <2>1. GoodRow(run[r].mine)'
    BY <1>1, <1>8, <1>10, <1>11 DEF GoodRow
  <2>2. /\ run'[r].pc # "act" /\ (run'[r].pc # "adopt" => row'.exists)
        /\ (run'[r].pc = "adopt" => ~row'.exists)
        /\ run'[r].status # "none" /\ run'[r].mine.exists
        /\ IF row'.exists THEN run'[r].mine = row' ELSE run'[r].mine.sha = 0
    BY <1>1, <1>2, <1>3, <1>5, <1>6, <1>8, <1>10 DEF p
  <2>. QED BY <2>1, <2>2 DEF Held
<1>. QED BY <1>1, <1>2, <1>5, <1>8, <1>10, <1>12, HandlingKeeps DEF Working

LEMMA NewestIsOpen ==
  ASSUME Types, NEW n, IsNewest(n)
  PROVE  n \in 0..Len(issues) /\ OpenIssues \subseteq PassedOver \cup {n}
<1>1. Adoptable \subseteq OpenIssues /\ OpenIssues \subseteq Numbers
  BY DEF Adoptable, OpenIssues
<1>2. Len(issues) \in Nat
  BY DEF Types
<1>3. n \in 0..Len(issues)
  <2>1. CASE Adoptable = {}
    BY <1>2, <2>1 DEF IsNewest, NewestOf
  <2>2. CASE Adoptable # {}
    <3>1. n \in Adoptable
      BY <2>2 DEF IsNewest, NewestOf
    <3>. QED BY <1>1, <1>2, <3>1 DEF Numbers
  <2>. QED BY <2>1, <2>2
<1>4. ASSUME NEW i \in OpenIssues, i # n PROVE i \in PassedOver
  <2>1. CASE i \in Adoptable
    <3>1. n \in Adoptable /\ i <= n
      BY <2>1 DEF IsNewest, NewestOf
    <3>2. n > i
      BY <1>1, <1>2, <1>4, <3>1 DEF Numbers
    <3>. QED BY <3>1, <3>2 DEF PassedOver
  <2>2. CASE i \notin Adoptable
    BY <2>2 DEF PassedOver, Adoptable
  <2>. QED BY <2>1, <2>2
<1>. QED BY <1>3, <1>4

LEMMA AdoptKeeps == ASSUME IssueInv, NEW r \in Runs, Adopt(r) PROVE IssueInv'
<1>0. PICK n \in {0} \cup Numbers :
        /\ IsNewest(n)
        /\ run' = [run EXCEPT ![r].pc = "look", ![r].mine.number = n]
  BY DEF Adopt
<1>1. /\ run[r].pc = "adopt"
      /\ run' = [run EXCEPT ![r].pc = "look", ![r].mine.number = n]
      /\ UNCHANGED <<row, holder, issues, retry, last, retried, user, faults>>
      /\ orphans' = PassedOver
  BY <1>0 DEF Adopt, history
<1>2. /\ holder = r /\ Held(r) /\ run[r] \in AnyRun /\ run[r].sha \in Runs
      /\ run[r].status # "none"
  BY <1>1, Holding DEF Working
<1>3. /\ ~row.exists /\ row = NoRow /\ last.status = "unknown"
      /\ run[r].mine \in AnyRow /\ run[r].mine.exists /\ run[r].mine.sha = 0
  BY <1>1, <1>2 DEF Held, IssueInv, RowIsOpen, GoodRow
<1>4. n \in 0..Len(issues) /\ OpenIssues \subseteq PassedOver \cup {n}
  BY <1>0, NewestIsOpen DEF IssueInv
<1>5. n \in Nat
  BY <1>4 DEF IssueInv, Types
<1>. DEFINE m == [run[r].mine EXCEPT !.number = n]
            y == [run[r] EXCEPT !.pc = "look", !.mine = m]
<1>6. m \in AnyRow /\ m.exists /\ m.number = n /\ m.sha = 0
  BY <1>3, <1>5 DEF AnyRow
<1>7. run' = [run EXCEPT ![r] = y]
  BY <1>1, <1>2 DEF IssueInv, Types, AnyRun
<1>. HIDE DEF m
<1>8. /\ y \in AnyRun /\ y.pc = "look" /\ y.mine = m /\ y.sha = run[r].sha
      /\ y.status = run[r].status
  BY <1>2, <1>6 DEF AnyRun, Phases
<1>. HIDE DEF y
<1>9. /\ run' \in [Runs -> AnyRun]
      /\ \A q \in Runs : run'[q] = IF q = r THEN y ELSE run[q]
  BY <1>7, <1>8 DEF IssueInv, Types
<1>10. /\ OpenIssues' = OpenIssues /\ Numbers' = Numbers
       /\ Alive' = OpenIssues \ PassedOver
  BY <1>1 DEF OpenIssues, Numbers, Alive
<1>11. Held(r)'
  <2>1. GoodRow(run[r].mine)'
    BY <1>1, <1>4, <1>6, <1>8, <1>9 DEF GoodRow
  <2>. QED BY <2>1, <1>1, <1>2, <1>3, <1>4, <1>6, <1>8, <1>9, <1>10 DEF Held
<1>12. RowIsOpen(row)' /\ RowTells(row)'
  BY <1>1, <1>3 DEF RowIsOpen, RowTells, NoRow
<1>13. IssuesGrow /\ Reported'
  BY <1>1, <1>10, SameIssues DEF IssueInv, Reported
<1>14. orphans' \subseteq Numbers' /\ faults' \in 0..MaxFaults
  BY <1>1, <1>10 DEF PassedOver, OpenIssues, IssueInv, Types
<1>. QED BY <1>1, <1>2, <1>8, <1>9, <1>11, <1>12, <1>13, <1>14, HandlingSteps DEF Working

LEMMA LookKeeps == ASSUME IssueInv, NEW r \in Runs, Look(r) PROVE IssueInv'
<1>. DEFINE s == IF issues[run[r].mine.number].open THEN "open" ELSE "closed"
<1>1. /\ run[r].pc = "look" /\ run[r].mine.number # 0
      /\ run' = [run EXCEPT ![r].pc = "act", ![r].seen = s]
      /\ UNCHANGED <<row, holder, issues, retry, last, orphans, retried, user, faults>>
  BY DEF Look, history
<1>2. /\ holder = r /\ Held(r) /\ run[r] \in AnyRun /\ run[r].sha \in Runs
  BY <1>1, Holding DEF Working
<1>3. s \in {"open", "closed"} /\ (s = "closed" => run[r].mine.number \notin Alive)
  BY DEF Alive, OpenIssues
<1>. HIDE DEF s
<1>. DEFINE y == [run[r] EXCEPT !.pc = "act", !.seen = s]
<1>4. /\ y \in AnyRun /\ y.pc = "act" /\ y.mine = run[r].mine /\ y.sha = run[r].sha
      /\ y.status = run[r].status /\ y.seen = s
  BY <1>2, <1>3 DEF AnyRun, Phases
<1>5. run' = [run EXCEPT ![r] = y]
  BY <1>1 DEF IssueInv, Types
<1>. HIDE DEF y
<1>6. /\ run' \in [Runs -> AnyRun]
      /\ \A q \in Runs : run'[q] = IF q = r THEN y ELSE run[q]
  BY <1>4, <1>5 DEF IssueInv, Types
<1>7. Held(r)'
  <2>1. GoodRow(run[r].mine)'
    BY <1>1, <1>2, <1>4, <1>6 DEF GoodRow, Held
  <2>2. Alive' = Alive
    BY <1>1 DEF OpenIssues, Numbers, Alive
  <2>. QED BY <2>1, <2>2, <1>1, <1>2, <1>3, <1>4, <1>6 DEF Held
<1>. QED BY <1>1, <1>2, <1>4, <1>6, <1>7, HandlingKeeps DEF Working

-----------------------------------------------------------------------------
(* Steps of a handler that commit                                          *)

LEMMA AfterOpened ==
  ASSUME IssueInv, NEW sha \in Runs, Opened(sha), UNCHANGED <<retry, retried>>,
         orphans \subseteq orphans'
  PROVE  /\ IssuesGrow /\ Reported'
         /\ Len(issues) \in Nat /\ Len(issues') = Len(issues) + 1
         /\ Len(issues) + 1 \in Numbers' /\ Numbers \subseteq Numbers'
         /\ Alive' \subseteq Alive \cup ({Len(issues) + 1} \ orphans')
         /\ sha \in issues'[Len(issues) + 1].said
<1>1. /\ IssuesGrow /\ Len(issues') = Len(issues) + 1 /\ Len(issues) \in Nat
      /\ issues'[Len(issues) + 1].body = sha /\ issues'[Len(issues) + 1].said = {sha}
  BY OpenedGrows DEF IssueInv, IssuesGrow
<1>2. \A n \in Len(issues) + 1 .. Len(issues') : issues'[n].body \in issues'[n].said
  BY <1>1
<1>. HIDE DEF Opened
<1>. QED BY <1>1, <1>2, GrowKeepsRetries, OpenAfterOpened DEF IssueInv

LEMMA AfterUpdate ==
  ASSUME IssueInv, IssuesGrow, Len(issues') = Len(issues), UNCHANGED <<retry, retried>>
  PROVE  /\ Reported' /\ Numbers' = Numbers
         /\ orphans \subseteq orphans' => Alive' \subseteq Alive
<1>1. \A n \in Len(issues) + 1 .. Len(issues') : issues'[n].body \in issues'[n].said
  BY DEF IssuesGrow
<1>2. Numbers' = Numbers
  BY DEF Numbers
<1>3. Reported'
  BY <1>1, GrowKeepsRetries DEF IssueInv
<1>. QED BY <1>2, <1>3, OpenAfterGrowth

LEMMA GoodResult ==
  ASSUME IssuesGrow, NEW x, GoodRow(x), row' = x
  PROVE  GoodRow(row)'
BY GrowKeepsRow DEF GoodRow

LEMMA GoodCleared ==
  ASSUME IssueInv
  PROVE  GoodRow(Cleared) /\ Cleared.exists /\ Cleared.number = 0 /\ Cleared.sha = 0
BY DEF Cleared, GoodRow, AnyRow, Shas, IssueInv, Types

LEMMA CreateKeeps == ASSUME IssueInv, NEW r \in Runs, CreateIssue(r) PROVE IssueInv'
<1>. DEFINE x == [exists |-> TRUE, number |-> Len(issues) + 1, sha |-> run[r].sha]
<1>1. /\ Opened(run[r].sha) /\ Commit(r, x)
      /\ last' = [status |-> run[r].status, sha |-> run[r].sha]
      /\ run[r].status = "failure" /\ (NoIssue(r) \/ Sees(r, "closed"))
      /\ UNCHANGED <<retry, orphans, retried, user, faults>>
  BY DEF CreateIssue, Concludes, MustCreate, history
<1>2. run[r].pc \in Working
  BY <1>1 DEF NoIssue, Sees, Working
<1>3. holder = r /\ run[r].sha \in Runs
  BY <1>2, Holding
<1>4. /\ IssuesGrow /\ Reported' /\ Len(issues) \in Nat /\ Len(issues') = Len(issues) + 1
      /\ Len(issues) + 1 \in Numbers' /\ Numbers \subseteq Numbers'
      /\ Alive' \subseteq Alive \cup {Len(issues) + 1}
      /\ run[r].sha \in issues'[Len(issues) + 1].said
  BY <1>1, <1>3, AfterOpened
<1>5. Alive = {}
  BY <1>1, NothingOpen
<1>6. row' = x /\ x.exists /\ x.number = Len(issues) + 1 /\ x.sha = run[r].sha
  BY <1>1 DEF Commit
<1>7. x \in AnyRow
  BY <1>3, <1>4 DEF AnyRow, Shas
<1>. HIDE DEF x
<1>8. GoodRow(row)'
  BY <1>4, <1>6, <1>7 DEF GoodRow, Numbers
<1>9. RowIsOpen(row)'
  BY <1>1, <1>4, <1>5, <1>6 DEF RowIsOpen
<1>10. last'.status = "failure" /\ last'.sha = run[r].sha /\ last' \in Results
  BY <1>1, <1>3 DEF Results, Shas
<1>11. RowTells(row)'
  BY <1>4, <1>6, <1>10 DEF RowTells
<1>12. faults' \in 0..MaxFaults /\ orphans' \subseteq Numbers'
  BY <1>1, <1>4 DEF IssueInv, Types
<1>. QED BY <1>1, <1>3, <1>4, <1>8, <1>9, <1>10, <1>11, <1>12, CommitKeeps

LEMMA CommentKeeps == ASSUME IssueInv, NEW r \in Runs, CommentFailure(r) PROVE IssueInv'
<1>. DEFINE n == run[r].mine.number
<1>1. /\ Sees(r, "open") /\ Commented(n, run[r].sha) /\ Commit(r, Latest(r))
      /\ last' = [status |-> run[r].status, sha |-> run[r].sha]
      /\ run[r].status = "failure"
      /\ UNCHANGED <<retry, orphans, retried, user, faults>>
  BY DEF CommentFailure, Concludes, history
<1>2. run[r].pc = "act" /\ run[r].pc \in Working
  BY <1>1 DEF Sees, Working
<1>3. holder = r /\ Held(r) /\ run[r].sha \in Runs /\ run[r].mine \in AnyRow
  BY <1>2, Holding DEF Held, GoodRow
<1>4. n \in Numbers /\ n # 0
  BY <1>1, MineIsIssue DEF Numbers
<1>5. IssuesGrow /\ Len(issues') = Len(issues) /\ run[r].sha \in issues'[n].said
  BY <1>1, <1>3, <1>4, CommentedGrows DEF IssueInv
<1>6. Reported' /\ Numbers' = Numbers /\ Alive' \subseteq Alive
  BY <1>1, <1>5, AfterUpdate
<1>7. /\ row' = Latest(r) /\ row' \in AnyRow /\ row'.exists
      /\ row'.number = n /\ row'.sha = run[r].sha
  BY <1>1, <1>3 DEF Commit, Latest, Held, AnyRow, Shas
<1>. HIDE DEF n
<1>8. GoodRow(row)'
  BY <1>4, <1>5, <1>6, <1>7 DEF GoodRow, Numbers
<1>9. Alive \subseteq {n}
  BY <1>2, OnlyMine DEF n
<1>10. RowIsOpen(row)'
  BY <1>1, <1>6, <1>7, <1>9 DEF RowIsOpen
<1>11. last'.status = "failure" /\ last'.sha = run[r].sha /\ last' \in Results
  BY <1>1, <1>3 DEF Results, Shas
<1>12. RowTells(row)'
  BY <1>4, <1>5, <1>7, <1>11 DEF RowTells
<1>13. faults' \in 0..MaxFaults /\ orphans' \subseteq Numbers'
  BY <1>1, <1>6 DEF IssueInv, Types
<1>. QED BY <1>1, <1>3, <1>5, <1>6, <1>8, <1>10, <1>11, <1>12, <1>13, CommitKeeps

LEMMA SuccessKeeps ==
  ASSUME IssueInv, NEW r \in Runs, SuccessCloses(r) \/ SuccessForgets(r)
  PROVE  IssueInv'
<1>1. /\ Commit(r, Cleared) /\ run[r].status = "success"
      /\ last' = [status |-> run[r].status, sha |-> run[r].sha]
      /\ UNCHANGED <<retry, orphans, retried, user, faults>>
      /\ run[r].pc \in Working
  BY DEF SuccessCloses, SuccessForgets, Concludes, NoIssue, Sees, Working, history
<1>2. holder = r /\ run[r].sha \in Runs
  BY <1>1, Holding
<1>3. /\ IssuesGrow /\ Len(issues') = Len(issues)
      /\ Alive' = {}
  <2>1. CASE SuccessCloses(r)
    <3>1. Sees(r, "open") /\ Closed(run[r].mine.number)
      BY <2>1 DEF SuccessCloses
    <3>2. run[r].mine.number \in Numbers
      BY <3>1, MineIsIssue
    <3>3. /\ IssuesGrow /\ Len(issues') = Len(issues)
          /\ ~issues'[run[r].mine.number].open
      BY <3>1, <3>2, ClosedGrows DEF IssueInv
    <3>4. Alive' \subseteq Alive
      BY <1>1, <3>3, OpenAfterGrowth
    <3>5. Alive \subseteq {run[r].mine.number}
      BY <3>1, OnlyMine DEF Sees
    <3>6. run[r].mine.number \notin Alive'
      BY <3>3 DEF OpenIssues, Alive
    <3>. QED BY <3>3, <3>4, <3>5, <3>6
  <2>2. CASE SuccessForgets(r)
    <3>1. (NoIssue(r) \/ Sees(r, "closed")) /\ UNCHANGED issues
      BY <2>2 DEF SuccessForgets
    <3>2. Alive = {}
      BY <3>1, NothingOpen
    <3>3. IssuesGrow /\ Len(issues') = Len(issues)
      BY <3>1, SameIssues DEF IssueInv
    <3>. QED BY <1>1, <3>2, <3>3, OpenAfterGrowth
  <2>. QED BY <2>1, <2>2
<1>4. Reported' /\ Numbers' = Numbers
  BY <1>1, <1>3, AfterUpdate
<1>5. row' = Cleared
  BY <1>1 DEF Commit
<1>6. GoodRow(row)' /\ row'.exists /\ row'.number = 0
  BY <1>3, <1>5, GoodCleared, GoodResult
<1>7. RowIsOpen(row)'
  BY <1>1, <1>3, <1>6 DEF RowIsOpen
<1>8. last'.status = "success" /\ last' \in Results
  BY <1>1, <1>2 DEF Results, Shas
<1>9. RowTells(row)'
  BY <1>1, <1>3, <1>6, <1>8 DEF RowTells
<1>10. faults' \in 0..MaxFaults /\ orphans' \subseteq Numbers'
  BY <1>1, <1>4 DEF IssueInv, Types
<1>. QED BY <1>1, <1>2, <1>3, <1>4, <1>6, <1>7, <1>8, <1>9, <1>10, CommitKeeps

-----------------------------------------------------------------------------
(* Faults of a handler                                                     *)

LEMMA FaultKeeps ==
  ASSUME IssueInv, NEW r \in Runs, holder = r, NEW result, Commit(r, result),
         Fault, last' = Unknown, UNCHANGED <<retry, retried, user>>,
         IssuesGrow, Reported', orphans' \subseteq Numbers',
         GoodRow(row)', RowIsOpen(row)'
  PROVE  IssueInv'
<1>1. last' \in Results /\ last'.status = "unknown"
  BY DEF Unknown, Results, Shas
<1>2. RowTells(row)'
  BY <1>1 DEF RowTells
<1>3. faults' \in 0..MaxFaults
  BY IssueConstants DEF Fault, IssueInv, Types
<1>. QED BY <1>1, <1>2, <1>3, CommitKeeps

(* The row is left as it was or names what may be open, and nothing opens. *)
LEMMA QuietFaultKeeps ==
  ASSUME IssueInv, NEW r \in Runs, holder = r, NEW result, Commit(r, result),
         Fault, last' = Unknown, UNCHANGED <<retry, retried, user, orphans>>,
         IssuesGrow, Len(issues') = Len(issues), GoodRow(result),
         \/ result = row
         \/ result.exists /\ Alive \subseteq {result.number}
  PROVE  IssueInv'
<1>1. Reported' /\ Numbers' = Numbers /\ Alive' \subseteq Alive
  BY AfterUpdate
<1>2. row' = result
  BY DEF Commit
<1>3. GoodRow(row)'
  BY <1>2, GoodResult
<1>4. RowIsOpen(row)'
  <2>1. CASE result = row
    BY <2>1, <1>1, <1>2 DEF IssueInv, RowIsOpen, Unknown
  <2>2. CASE result.exists /\ Alive \subseteq {result.number}
    BY <2>2, <1>1, <1>2 DEF RowIsOpen
  <2>. QED BY <2>1, <2>2
<1>5. orphans' \subseteq Numbers'
  BY <1>1 DEF IssueInv, Types
<1>. QED BY <1>1, <1>3, <1>4, <1>5, FaultKeeps

(* A request about the issue the handler saw open.                         *)
LEMMA RequestGrows ==
  ASSUME IssueInv, NEW r \in Runs, Sees(r, "open"),
         \/ Commented(run[r].mine.number, run[r].sha)
         \/ Closed(run[r].mine.number)
         \/ UNCHANGED issues
  PROVE  IssuesGrow /\ Len(issues') = Len(issues)
<1>1. run[r].mine.number \in Numbers
  BY MineIsIssue
<1>2. run[r].sha \in Runs
  BY Holding DEF Sees, Working
<1>. HIDE DEF Commented, Closed
<1>. QED BY <1>1, <1>2, SameIssues, CommentedGrows, ClosedGrows DEF IssueInv

LEMMA ReplyLostKeeps == ASSUME IssueInv, NEW r \in Runs, ReplyLost(r) PROVE IssueInv'
<1>. DEFINE n == Len(issues) + 1
<1>1. /\ NoIssue(r) \/ Sees(r, "closed")
      /\ Opened(run[r].sha) /\ orphans' = orphans \cup {n}
      /\ UNCHANGED <<run, row, holder, retry, last, retried, user>>
      /\ faults' \in 0..MaxFaults
  BY IssueConstants DEF ReplyLost, MustCreate, Fault, IssueInv, Types
<1>2. /\ run[r].pc \in {"look", "act"} /\ run[r].pc \in Working
      /\ holder = r /\ Held(r) /\ run[r].sha \in Runs
  BY <1>1, Holding DEF NoIssue, Sees, Working
<1>3. /\ IssuesGrow /\ Reported' /\ n \in Numbers' /\ Numbers \subseteq Numbers'
      /\ Alive' \subseteq Alive \cup ({n} \ orphans')
  BY <1>1, <1>2, AfterOpened
<1>4. Alive' = {} /\ Alive = {}
  BY <1>1, <1>3, NothingOpen
<1>5. RowIsOpen(row)'
  BY <1>1, <1>4 DEF IssueInv, RowIsOpen
<1>6. RowTells(row)'
  <2>1. row.number # 0 => issues[row.number].said \subseteq issues'[row.number].said
    BY <1>3 DEF IssueInv, GoodRow, IssuesGrow, Numbers
  <2>. QED BY <1>1, <1>4, <2>1 DEF IssueInv, RowTells
<1>7. Held(r)'
  <2>1. GoodRow(run[r].mine)'
    BY <1>1, <1>2, <1>3, GrowKeepsRow DEF Held, GoodRow
  <2>. QED BY <1>1, <1>2, <1>4, <2>1 DEF Held
<1>8. orphans' \subseteq Numbers'
  BY <1>1, <1>3 DEF IssueInv, Types
<1>. QED BY <1>1, <1>2, <1>3, <1>5, <1>6, <1>7, <1>8, HandlingSteps DEF IssueInv, Types

LEMMA NoAnswerKeeps == ASSUME IssueInv, NEW r \in Runs, NoAnswer(r) PROVE IssueInv'
<1>. DEFINE mine == run[r].mine
<1>1. Fault /\ last' = Unknown /\ UNCHANGED <<retry, retried, user, orphans>>
  BY DEF NoAnswer
<1>2. CASE run[r].pc = "adopt" /\ Commit(r, NoRow) /\ UNCHANGED issues
  <2>1. holder = r /\ ~row.exists
    BY <1>2, Holding DEF Working, Held
  <2>2. row = NoRow /\ GoodRow(NoRow)
    BY <2>1 DEF IssueInv, RowIsOpen
  <2>3. IssuesGrow /\ Len(issues') = Len(issues)
    BY <1>2, SameIssues DEF IssueInv
  <2>. QED BY <1>1, <1>2, <2>1, <2>2, <2>3, QuietFaultKeeps
<1>3. CASE /\ run[r].pc = "look" /\ mine.number # 0
           /\ Commit(r, mine) /\ UNCHANGED issues
  <2>1. holder = r /\ mine.exists /\ GoodRow(mine)
    BY <1>3, Holding DEF Working, Held
  <2>2. Alive \subseteq {mine.number}
    BY <1>3, OnlyMine
  <2>3. IssuesGrow /\ Len(issues') = Len(issues)
    BY <1>3, SameIssues DEF IssueInv
  <2>. QED BY <1>1, <1>3, <2>1, <2>2, <2>3, QuietFaultKeeps
<1>4. CASE MustCreate(r) /\ Commit(r, Cleared) /\ UNCHANGED issues
  <2>1. NoIssue(r) \/ Sees(r, "closed")
    BY <1>4 DEF MustCreate
  <2>2. Alive = {}
    BY <2>1, NothingOpen
  <2>3. holder = r
    BY <2>1, Holding DEF NoIssue, Sees, Working
  <2>4. IssuesGrow /\ Len(issues') = Len(issues)
    BY <1>4, SameIssues DEF IssueInv
  <2>5. GoodRow(Cleared) /\ Cleared.exists
    BY GoodCleared
  <2>. QED BY <1>1, <1>4, <2>2, <2>3, <2>4, <2>5, QuietFaultKeeps
<1>5. CASE /\ Sees(r, "open") /\ Commit(r, mine)
           /\ Commented(mine.number, run[r].sha) \/ Closed(mine.number)
                \/ UNCHANGED issues
  <2>1. run[r].pc = "act"
    BY <1>5 DEF Sees
  <2>2. holder = r /\ mine.exists /\ GoodRow(mine)
    BY <2>1, Holding DEF Working, Held
  <2>3. Alive \subseteq {mine.number}
    BY <2>1, OnlyMine
  <2>4. IssuesGrow /\ Len(issues') = Len(issues)
    BY <1>5, RequestGrows
  <2>. QED BY <1>1, <1>5, <2>2, <2>3, <2>4, QuietFaultKeeps
<1>. QED BY <1>2, <1>3, <1>4, <1>5 DEF NoAnswer

LEMMA DiesKeeps == ASSUME IssueInv, NEW r \in Runs, Dies(r) PROVE IssueInv'
<1>1. /\ holder = r /\ Fault /\ last' = Unknown /\ Commit(r, row)
      /\ UNCHANGED <<retry, retried, user>>
      /\ orphans' = IF row.exists THEN orphans ELSE {}
  BY DEF Dies
<1>2. GoodRow(row) /\ row' = row
  BY <1>1 DEF IssueInv, Commit
<1>3. IssuesGrow /\ Len(issues') = Len(issues)
  <2>1. CASE UNCHANGED issues
    BY <2>1, SameIssues DEF IssueInv
  <2>2. CASE /\ Sees(r, "open")
             /\ Commented(run[r].mine.number, run[r].sha) \/ Closed(run[r].mine.number)
    BY <2>2, RequestGrows
  <2>. QED BY <2>1, <2>2 DEF Dies
<1>4. Reported' /\ Numbers' = Numbers
  BY <1>1, <1>3, AfterUpdate
<1>5. RowIsOpen(row)'
  <2>1. row.exists => Alive' \subseteq Alive
    BY <1>1, <1>3, AfterUpdate
  <2>. QED BY <1>1, <1>2, <2>1 DEF IssueInv, RowIsOpen, Unknown
<1>6. GoodRow(row)'
  BY <1>2, <1>3, GoodResult
<1>7. orphans' \subseteq Numbers'
  BY <1>1, <1>4 DEF IssueInv, Types
<1>. QED BY <1>1, <1>3, <1>4, <1>5, <1>6, <1>7, FaultKeeps

-----------------------------------------------------------------------------
(* The invariant, and what follows                                         *)

LEMMA InitInv == Init => IssueInv
<1>. SUFFICES ASSUME Init PROVE IssueInv
  OBVIOUS
<1>1. Absent \in AnyRun /\ Absent.pc = "absent" /\ NoRow \in AnyRow
  BY DEF Absent, AnyRun, NoRow, AnyRow, Phases, Shas
<1>2. NoRetry \in AnyRetry /\ NoRetry.pc = "idle"
  BY DEF NoRetry, AnyRetry, Shas
<1>3. Unknown \in Results /\ Unknown.status = "unknown"
  BY DEF Unknown, Results, Shas
<1>4. issues = <<>> /\ Len(issues) = 0 /\ issues \in Seq(Issue) /\ Numbers = {}
  BY DEF Init, Numbers
<1>5. Alive = {}
  BY <1>4 DEF OpenIssues, Alive
<1>6. Types
  BY <1>1, <1>2, <1>3, <1>4, IssueConstants DEF Init, Types, Shas
<1>7. GoodRow(row)
  BY <1>1, <1>4 DEF Init, GoodRow, NoRow
<1>8. Handling
  BY <1>1, IssueConstants DEF Init, Handling, Working
<1>9. RowIsOpen(row)
  BY <1>3 DEF Init, RowIsOpen, NoRow
<1>10. Reported
  BY <1>2, <1>4 DEF Init, Reported
<1>11. RowTells(row)
  BY <1>3 DEF Init, RowTells
<1>. QED BY <1>6, <1>7, <1>8, <1>9, <1>10, <1>11 DEF IssueInv

LEMMA StepInv == IssueInv /\ [Next]_vars => IssueInv'
<1>. SUFFICES ASSUME IssueInv, [Next]_vars PROVE IssueInv'
  OBVIOUS
<1>1. ASSUME NEW r \in Runs, Pushed(r) \/ Ends(r) PROVE IssueInv'
  BY <1>1, PushedKeeps, EndsKeeps
<1>2. ASSUME NEW r \in Runs, Handle(r) PROVE IssueInv'
  BY <1>2, ReserveKeeps, AdoptKeeps, LookKeeps, CreateKeeps, CommentKeeps,
     SuccessKeeps, ReplyLostKeeps, NoAnswerKeeps, DiesKeeps DEF Handle
<1>3. ASSUME NEW t \in Retriers, Retry(t) PROVE IssueInv'
  BY <1>3, RetryKeeps
<1>4. ASSUME NEW n \in Numbers, UserCloses(n) \/ UserReopens(n) \/ UserEdits(n)
      PROVE  IssueInv'
  BY <1>4, UserKeeps
<1>5. CASE UNCHANGED vars
  BY <1>5 DEF vars, history, IssueInv, Types, GoodRow, Handling, Held, RowIsOpen, Reported,
              RowTells, Alive, OpenIssues, Numbers
<1>. QED BY <1>1, <1>2, <1>3, <1>4, <1>5 DEF Next

LEMMA AlwaysInv == Spec => []IssueInv
BY InitInv, StepInv, PTL DEF Spec

(* The row, the copies of it that handlers work on and the commits retries *)
(* took from it keep their types, and the row names an issue that exists.  *)
THEOREM TypesHold == Spec => []IssueTypeOK
<1>1. IssueInv => IssueTypeOK
  BY DEF IssueInv, Types, GoodRow, RowIsOpen, IssueTypeOK, RowType, AnyRun, AnyRow,
         AnyRetry, Results, Phases, Shas, NoRow
<1>. QED BY <1>1, AlwaysInv, PTL

(* However handlers, retries, users and faults interleave, _reserve_state  *)
(* and _adopt_legacy_issue leave no open issue but the row's and orphans.  *)
THEOREM OneIssueOpen == Spec => []OneOpenIssue
<1>1. IssueInv => OneOpenIssue
  BY DEF IssueInv, RowIsOpen, OneOpenIssue, Alive
<1>. QED BY <1>1, AlwaysInv, PTL

(* Between two results the row says what the last one was, if its handler  *)
(* met no fault: users and retries change issues, never that.              *)
THEOREM ResultStands == Spec => []LastResultStands
<1>1. IssueInv => LastResultStands
  BY DEF IssueInv, RowTells, LastResultStands, Alive
<1>. QED BY <1>1, AlwaysInv, PTL

(* get_retry_params only returns a commit whose failure the issue reports, *)
(* although a retry holds no lock while results change row and issues.     *)
THEOREM RetriesBuildReported == Spec => []RetryBuildsReported
<1>1. IssueInv => RetryBuildsReported
  BY DEF IssueInv, Reported, RetryBuildsReported
<1>. QED BY <1>1, AlwaysInv, PTL

==============================================================================
