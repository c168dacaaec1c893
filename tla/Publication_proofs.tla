------------------------ MODULE Publication_proofs -------------------------
(***************************************************************************)
(* Machine-checked proofs about Publication, for any set of rows and       *)
(* applications, any number of overlapping monitors and publishers and any *)
(* number of deliveries, attempts and crashes.                             *)
(***************************************************************************)
EXTENDS Publication, TLAPS

(* Writing changed columns over a row gives a row. *)
LEMMA OverlaidTyped ==
  ASSUME NEW r \in Row, NEW change,
         DOMAIN change \subseteq DOMAIN NewRow, Overlaid(NewRow, change) \in Row
  PROVE  Overlaid(r, change) \in Row
BY DEF Overlaid, Row, NewRow

(* The changed columns of a row are columns of a row. *)
LEMMA ChangesTyped ==
  ASSUME NEW seen \in Row, NEW now \in Row
  PROVE  /\ DOMAIN Changes(seen, now) \subseteq DOMAIN NewRow
         /\ Overlaid(NewRow, Changes(seen, now)) \in Row
         /\ "status" \in DOMAIN Changes(seen, now) =>
              Changes(seen, now).status = now.status /\ now.status # seen.status
<1> DEFINE c == Changes(seen, now)
<1>1. DOMAIN seen = {"status", "commit", "publish", "update", "at"}
  BY DEF Row
<1>2. /\ DOMAIN c = {f \in DOMAIN seen : now[f] # seen[f]}
      /\ \A f \in DOMAIN c : c[f] = now[f]
  BY DEF Changes
<1>3. DOMAIN c \subseteq DOMAIN NewRow
  BY <1>1, <1>2 DEF NewRow
<1>4. Overlaid(NewRow, c) \in Row
  <2> DEFINE o == Overlaid(NewRow, c)
  <2>1. o = [f \in {"status", "commit", "publish", "update", "at"} |->
               IF f \in DOMAIN c THEN now[f] ELSE NewRow[f]]
    BY <1>2 DEF Overlaid, NewRow
  <2>2. o = [status |-> o.status, commit |-> o.commit, publish |-> o.publish,
             update |-> o.update, at |-> o.at]
    BY <2>1
  <2>3. /\ o.status \in RowStatus /\ o.commit \in BOOLEAN /\ o.publish \in 0 .. MaxAttempts
        /\ o.update \in Pipelines \cup {0} /\ o.at \in SUBSET Pipelines
    <3>1. /\ now.status \in RowStatus /\ now.commit \in BOOLEAN
          /\ now.publish \in 0 .. MaxAttempts
          /\ now.update \in Pipelines \cup {0} /\ now.at \in SUBSET Pipelines
      BY DEF Row
    <3>2. /\ NewRow.status \in RowStatus /\ NewRow.commit \in BOOLEAN
          /\ NewRow.publish \in 0 .. MaxAttempts
          /\ NewRow.update \in Pipelines \cup {0} /\ NewRow.at \in SUBSET Pipelines
      BY LimitsAssumption DEF NewRow, RowStatus
    <3>3. /\ o.status \in {now.status, NewRow.status}
          /\ o.commit \in {now.commit, NewRow.commit}
          /\ o.publish \in {now.publish, NewRow.publish}
          /\ o.update \in {now.update, NewRow.update}
          /\ o.at \in {now.at, NewRow.at}
      BY <2>1
    <3> HIDE DEF o
    <3> QED
      BY <3>1, <3>2, <3>3
  <2> HIDE DEF o
  <2>4. o \in Row
    BY <2>2, <2>3 DEF Row
  <2> QED
    BY <2>4 DEF o
<1> QED
  BY <1>1, <1>2, <1>3, <1>4

LEMMA NewRowTyped == NewRow \in Row
BY LimitsAssumption DEF NewRow, Row, RowStatus

LEMMA UnchangedTyped ==
  /\ DOMAIN Unchanged = Pipelines
  /\ \A p \in Pipelines : /\ DOMAIN Unchanged[p] = {}
                          /\ Overlaid(NewRow, Unchanged[p]) \in Row
<1>1. \A p \in Pipelines : Unchanged[p] = << >>
  BY DEF Unchanged
<1>2. DOMAIN << >> = {}
  OBVIOUS
<1>3. Overlaid(NewRow, << >>) = NewRow
  BY <1>2 DEF Overlaid, NewRow
<1> QED
  BY <1>1, <1>2, <1>3, NewRowTyped DEF Unchanged

LEMMA NoSessionTyped == SessionOK(NoSession)
BY NewRowTyped, UnchangedTyped DEF SessionOK, NoSession, NewRows

LEMMA OpenedTyped ==
  ASSUME PublicationTypeOK,
         NEW selected \in SUBSET Pipelines, NEW expired \in SUBSET Pipelines
  PROVE  SessionOK(Opened(selected, expired))
BY NewRowTyped, UnchangedTyped DEF SessionOK, Opened, PublicationTypeOK, Existing

(* What a check makes of a row is a row. *)
LEMMA CheckedTyped ==
  ASSUME PublicationTypeOK, NEW p \in Pipelines, NEW seen \in Row,
         NEW r \in WithJobIds(p, seen), NEW now \in {r} \cup Processed(p, r)
  PROVE  r \in Row /\ now \in Row
<1>1. r \in Row
  BY DEF WithJobIds, Row, PublicationTypeOK, Build
<1>2. ASSUME now \in Processed(p, r) PROVE now \in Row
  <2>1. AfterCommitJob(p, r) \in Row
    BY <1>1 DEF AfterCommitJob, Row, RowStatus
  <2>2. AfterPublishJob(p, r) \in Row
    BY <1>1 DEF AfterPublishJob, Row, RowStatus
  <2>3. AfterUpdateJob(p, r) \in Row
    BY <1>1 DEF AfterUpdateJob, Row, RowStatus, Existing
  <2>4. AfterRecovery(p, r) \subseteq Row
    <3>1. \A q \in Peers(p) : row[q].update \in Pipelines \cup {0}
      BY DEF Peers, PublicationTypeOK, Row
    <3>2. Existing \in SUBSET Pipelines
      BY DEF Existing
    <3>3. \A u \in Pipelines \cup {0} :
            [r EXCEPT !.status = "published", !.update = u, !.at = Existing] \in Row
      BY <1>1, <3>2 DEF Row, RowStatus
    <3>4. [r EXCEPT !.status = "failed"] \in Row
      BY <1>1 DEF Row, RowStatus
    <3> QED
      BY <1>1, <3>1, <3>3, <3>4 DEF AfterRecovery
  <2> QED
    BY <1>1, <1>2, <2>1, <2>2, <2>3, <2>4 DEF Processed
<1> QED
  BY <1>1, <1>2

(* The types hold initially and are kept by every step. *)
LEMMA InitTyped == Init => PublicationTypeOK
BY NewRowTyped, NoSessionTyped, LimitsAssumption
DEF Init, PublicationTypeOK, NewRows, NewBuild, Build, JobState, Call

(* Replacing one session by a well-formed one. *)
LEMMA SessionsTyped ==
  ASSUME PublicationTypeOK, NEW c \in Crons, NEW s, SessionOK(s),
         session' = [session EXCEPT ![c] = s]
  PROVE  DOMAIN session' = Crons /\ \A d \in Crons : SessionOK(session'[d])
BY DEF PublicationTypeOK

(* A session that is done with a row and has changed some of its columns.  *)
LEMMA ProcessedTyped ==
  ASSUME PublicationTypeOK, NEW c \in Crons, NEW p \in Pipelines, NEW change,
         DOMAIN change \subseteq DOMAIN NewRow, Overlaid(NewRow, change) \in Row
  PROVE  SessionOK([session[c] EXCEPT !.change = [@ EXCEPT ![p] = change],
                                      !.todo = @ \ {p},
                                      !.seen = [@ EXCEPT ![p] = NewRow]])
BY NewRowTyped DEF PublicationTypeOK, SessionOK

(* What a step of the publisher makes of its session. *)
LEMMA GroupTyped ==
  ASSUME PublicationTypeOK, NEW c \in Crons, NEW group \in SUBSET Pipelines,
         NEW newest \in group, NEW now \in Row
  PROVE  SessionOK([session[c] EXCEPT
           !.change = [p \in Pipelines |->
                         IF p = newest THEN Changes(session[c].seen[p], now)
                         ELSE IF p \in group THEN [status |-> "superseded"]
                         ELSE @[p]],
           !.seen = [p \in Pipelines |-> IF p \in group THEN NewRow ELSE @[p]],
           !.todo = @ \ group])
<1> DEFINE super == [status |-> "superseded"]
<1>1. DOMAIN super \subseteq DOMAIN NewRow
  BY DEF NewRow
<1>2. Overlaid(NewRow, super) = [NewRow EXCEPT !.status = "superseded"]
  BY DEF Overlaid, NewRow
<1>3. Overlaid(NewRow, super) \in Row
  BY <1>2, NewRowTyped DEF Row, RowStatus
<1>4. session[c].seen[newest] \in Row
  BY DEF PublicationTypeOK, SessionOK
<1>5. /\ DOMAIN Changes(session[c].seen[newest], now) \subseteq DOMAIN NewRow
      /\ Overlaid(NewRow, Changes(session[c].seen[newest], now)) \in Row
  BY <1>4, ChangesTyped
<1> HIDE DEF super
<1> QED
  BY <1>1, <1>3, <1>5, NewRowTyped DEF PublicationTypeOK, SessionOK, super

(* What the publisher makes of the newest row and build has their types.   *)
LEMMA OutcomeTyped ==
  ASSUME PublicationTypeOK, NEW b \in Crons, NEW p \in Pipelines, NEW answered \in BOOLEAN,
         NEW made \in Handled(p, session[b].seen[p], session[b].at, answered)
  PROVE  made[1] \in Build /\ made[2] \in Row
<1> DEFINE seen == session[b].seen[p]
<1>1. seen \in Row /\ session[b].at \in SUBSET Pipelines /\ build[p] \in Build
  BY DEF PublicationTypeOK, SessionOK
<1> HIDE DEF seen
<1>2. AfterBuildState(p, seen, session[b].at) \in Row
  BY <1>1 DEF AfterBuildState, Row, RowStatus
<1>3. CASE ~answered \/ ~ReadyToPublish(p)
  <2>1. made = <<build[p], seen>> \/ made = <<build[p], AfterBuildState(p, seen, session[b].at)>>
    BY <1>3 DEF Handled, seen
  <2> QED
    BY <1>1, <1>2, <2>1
<1>4. CASE answered /\ ReadyToPublish(p)
  <2>1. PICK id \in {0, build[p].attempts + 1} :
          made = <<Published(p), [seen EXCEPT !.publish = IF @ = 0 THEN id ELSE @]>>
    BY <1>4 DEF Handled, seen
  <2>2. build[p].attempts + 1 \in 0 .. MaxAttempts /\ 0 \in 0 .. MaxAttempts
    BY <1>1, <1>4, LimitsAssumption DEF ReadyToPublish, Build
  <2>3. Published(p) \in Build
    BY <1>1, <2>2 DEF Published, Build, JobState
  <2>4. [seen EXCEPT !.publish = IF @ = 0 THEN id ELSE @] \in Row
    BY <1>1, <2>1, <2>2 DEF Row
  <2> QED
    BY <2>1, <2>3, <2>4
<1> QED
  BY <1>3, <1>4

(* Replacing one build by a well-formed one. *)
LEMMA BuildsTyped ==
  ASSUME PublicationTypeOK, NEW p \in Pipelines, NEW b \in Build, SetBuild(p, b)
  PROVE  build' \in [Pipelines -> Build]
BY DEF PublicationTypeOK, SetBuild

(* A step of flat-manager gives a build. *)
LEMMA JobStepTyped ==
  ASSUME PublicationTypeOK, NEW p \in Pipelines, JobStep(p)
  PROVE  build' \in [Pipelines -> Build]
<1> DEFINE b == build[p]
<1>1. b \in Build
  BY DEF PublicationTypeOK
<1>2. CASE CommitJobEnds(p)
  <2>1. \A j \in {"ended", "broken"}, r \in {"validating", "failed"} :
          [b EXCEPT !.commitJob = j, !.repo = IF @ = "committing" THEN r ELSE @] \in Build
    BY <1>1 DEF Build, JobState
  <2> QED
    BY <1>2, <2>1, BuildsTyped DEF CommitJobEnds
<1>3. CASE Validated(p)
  <2>1. \A r \in {"ready", "failed"} : [b EXCEPT !.repo = r] \in Build
    BY <1>1 DEF Build
  <2> QED
    BY <1>3, <2>1, BuildsTyped DEF Validated
<1>4. CASE PublishJobEnds(p)
  <2>1. \A u \in {"none", "new"} :
          [b EXCEPT !.publishJob = "ended", !.published = "published", !.updateJob = u] \in Build
    BY <1>1 DEF Build, JobState
  <2>2. [b EXCEPT !.publishJob = "broken", !.published = "unpublished"] \in Build
    BY <1>1 DEF Build, JobState
  <2> QED
    BY <1>4, <2>1, <2>2, BuildsTyped DEF PublishJobEnds
<1>5. CASE UpdateJobEnds(p)
  <2>1. \A j \in {"ended", "broken"} : [b EXCEPT !.updateJob = j] \in Build
    BY <1>1 DEF Build, JobState
  <2> QED
    BY <1>5, <2>1, BuildsTyped DEF UpdateJobEnds
<1> QED
  BY <1>2, <1>3, <1>4, <1>5 DEF JobStep

(* Every step keeps the types. *)
LEMMA TypeStep ==
  ASSUME PublicationTypeOK, [Next]_vars
  PROVE  PublicationTypeOK'
<1> USE DEF PublicationTypeOK
<1>1. ASSUME NEW p \in Pipelines, Start(p) PROVE PublicationTypeOK'
  BY <1>1 DEF Start, Row, RowStatus
<1>2. ASSUME NEW p \in Pipelines, Age(p) PROVE PublicationTypeOK'
  BY <1>2 DEF Age
<1>3. ASSUME NEW p \in Pipelines, CallbackRead(p) PROVE PublicationTypeOK'
  BY <1>3, LimitsAssumption DEF CallbackRead, Call
<1>4. ASSUME NEW p \in Pipelines, CallbackWrite(p) PROVE PublicationTypeOK'
  BY <1>4 DEF CallbackWrite, SetRow, Row, RowStatus, Call
<1>5. ASSUME NEW p \in Pipelines, CallbackCommits(p) PROVE PublicationTypeOK'
  <2>0. row[p] \in Row /\ build[p] \in Build
    OBVIOUS
  <2>1. [row[p] EXCEPT !.commit = TRUE] \in Row
    BY <2>0 DEF Row
  <2>2. [build[p] EXCEPT !.repo = "committing", !.commitJob = "new"] \in Build
    BY <2>0 DEF Build, JobState
  <2>3. row' \in [Pipelines -> Row]
    BY <1>5, <2>1 DEF CallbackCommits, SetRow
  <2>4. build' \in [Pipelines -> Build]
    BY <1>5, <2>2 DEF CallbackCommits, SetBuild
  <2>5. call' \in [Pipelines -> Call]
    BY <1>5 DEF CallbackCommits, Call
  <2> QED
    BY <1>5, <2>3, <2>4, <2>5 DEF CallbackCommits
<1>6. ASSUME NEW p \in Pipelines, CallbackGivesUp(p) PROVE PublicationTypeOK'
  BY <1>6 DEF CallbackGivesUp, Call
<1>7. ASSUME NEW p \in Pipelines, JobStep(p) PROVE PublicationTypeOK'
  BY <1>7, JobStepTyped
  DEF JobStep, CommitJobEnds, Validated, PublishJobEnds, UpdateJobEnds
<1>8. ASSUME NEW m \in Monitors, MonitorBegin(m) PROVE PublicationTypeOK'
  <2>1. SessionOK(Opened(Active, Stale))
    BY OpenedTyped DEF Active, Stale
  <2>2. DOMAIN session' = Crons /\ \A d \in Crons : SessionOK(session'[d])
    BY <1>8, <2>1, SessionsTyped DEF MonitorBegin, Crons
  <2> QED
    BY <1>8, <2>2 DEF MonitorBegin
<1>9. ASSUME NEW m \in Monitors, NEW p \in Pipelines, NEW answered \in BOOLEAN,
             MonitorCheck(m, p, answered)
      PROVE  PublicationTypeOK'
  <2> DEFINE seen == session[m].seen[p]
  <2>1. m \in Crons /\ seen \in Row
    BY DEF Crons, SessionOK
  <2>2. \E r \in WithJobIds(p, seen) : \E now \in {r} \cup Processed(p, r) :
          session' = [session EXCEPT ![m].change[p] = Changes(seen, now),
                                     ![m].todo = @ \ {p}, ![m].seen[p] = NewRow]
    BY <1>9 DEF MonitorCheck
  <2>21. PICK r \in WithJobIds(p, seen) : \E now \in {r} \cup Processed(p, r) :
          session' = [session EXCEPT ![m].change[p] = Changes(seen, now),
                                     ![m].todo = @ \ {p}, ![m].seen[p] = NewRow]
    BY <2>2
  <2>22. PICK now \in {r} \cup Processed(p, r) :
          session' = [session EXCEPT ![m].change[p] = Changes(seen, now),
                                     ![m].todo = @ \ {p}, ![m].seen[p] = NewRow]
    BY <2>21
  <2>3. now \in Row
    BY <2>1, CheckedTyped
  <2>4. SessionOK([session[m] EXCEPT !.change = [@ EXCEPT ![p] = Changes(seen, now)],
                                     !.todo = @ \ {p},
                                     !.seen = [@ EXCEPT ![p] = NewRow]])
    BY <2>1, <2>3, ChangesTyped, ProcessedTyped
  <2>5. session' = [session EXCEPT ![m] =
          [session[m] EXCEPT !.change = [@ EXCEPT ![p] = Changes(seen, now)],
                             !.todo = @ \ {p},
                             !.seen = [@ EXCEPT ![p] = NewRow]]]
    BY <2>22
  <2>6. DOMAIN session' = Crons /\ \A d \in Crons : SessionOK(session'[d])
    BY <2>1, <2>4, <2>5, SessionsTyped
  <2> QED
    BY <1>9, <2>6 DEF MonitorCheck
<1>10. ASSUME NEW c \in Crons, Commit(c) PROVE PublicationTypeOK'
  <2>1. DOMAIN session' = Crons /\ \A d \in Crons : SessionOK(session'[d])
    BY <1>10, NoSessionTyped, SessionsTyped DEF Commit
  <2>2. \A p \in Pipelines : Overlaid(row[p], session[c].change[p]) \in Row
    BY OverlaidTyped DEF SessionOK
  <2>3. row' \in [Pipelines -> Row]
    <3>1. \A p \in Pipelines : [row[p] EXCEPT !.status = "expired"] \in Row
      BY DEF Row, RowStatus
    <3> QED
      BY <1>10, <2>2, <3>1 DEF Commit
  <2> QED
    BY <1>10, <2>1, <2>3 DEF Commit
<1>11. ASSUME NEW b \in Publishers, PublisherBegin(b) PROVE PublicationTypeOK'
  <2>1. SessionOK(Opened(Committed, {}))
    BY OpenedTyped DEF Committed
  <2>2. DOMAIN session' = Crons /\ \A d \in Crons : SessionOK(session'[d])
    BY <1>11, <2>1, SessionsTyped DEF PublisherBegin, Crons
  <2> QED
    BY <1>11, <2>2 DEF PublisherBegin
<1>12. ASSUME NEW b \in Publishers, NEW a, NEW answered \in BOOLEAN,
              PublisherGroup(b, a, answered)
       PROVE  PublicationTypeOK'
  <2> DEFINE group == {p \in session[b].todo : AppOf[p] = a}
  <2>0. PICK newest \in Candidates(group) : \E gone \in SUBSET (group \ {newest}) :
          \E made \in Handled(newest, session[b].seen[newest], session[b].at, answered) :
            GroupDone(b, group, newest, gone, made[1], made[2])
    BY <1>12 DEF PublisherGroup
  <2>1. PICK gone \in SUBSET (group \ {newest}) :
          \E made \in Handled(newest, session[b].seen[newest], session[b].at, answered) :
            GroupDone(b, group, newest, gone, made[1], made[2])
    BY <2>0
  <2>11. PICK made \in Handled(newest, session[b].seen[newest], session[b].at, answered) :
            GroupDone(b, group, newest, gone, made[1], made[2])
    BY <2>1
  <2>2. b \in Crons /\ group \in SUBSET Pipelines /\ newest \in group
    BY DEF Crons, SessionOK, Candidates
  <2>3. made[1] \in Build /\ made[2] \in Row
    BY <2>2, OutcomeTyped
  <2> HIDE DEF group
  <2> DEFINE s == [session[b] EXCEPT
                     !.change = [p \in Pipelines |->
                                   IF p = newest THEN Changes(session[b].seen[p], made[2])
                                   ELSE IF p \in group THEN [status |-> "superseded"]
                                   ELSE @[p]],
                     !.seen = [p \in Pipelines |-> IF p \in group THEN NewRow ELSE @[p]],
                     !.todo = @ \ group]
  <2>40. session' = [session EXCEPT ![b] = s]
    BY <2>11 DEF GroupDone
  <2>41. SessionOK(s)
    <3>1. newest \in Pipelines
      BY <2>2
    <3> QED
      BY <2>2, <2>3, <3>1, GroupTyped
  <2> HIDE DEF s
  <2>4. DOMAIN session' = Crons /\ \A d \in Crons : SessionOK(session'[d])
    BY <2>40, <2>41, <2>2, SessionsTyped
  <2>5. build' \in [Pipelines -> Build]
    <3>1. \A p \in Pipelines : [build[p] EXCEPT !.repo = "purged"] \in Build
      BY DEF Build
    <3> QED
      BY <2>11, <2>3, <3>1 DEF GroupDone
  <2> QED
    BY <1>12, <2>4, <2>5 DEF PublisherGroup
<1>13. ASSUME Crash PROVE PublicationTypeOK'
  BY <1>13, NoSessionTyped, LimitsAssumption DEF Crash, Call
<1>14. ASSUME UNCHANGED vars PROVE PublicationTypeOK'
  BY <1>14 DEF vars
<1> QED
  BY <1>1, <1>2, <1>3, <1>4, <1>5, <1>6, <1>7, <1>8, <1>9, <1>10, <1>11, <1>12, <1>13, <1>14
  DEF Next, CallbackStep, MonitorStep, PublisherStep, Crons

(* The types are right in every reachable state: whatever a cron job that  *)
(* read its rows minutes ago writes is a row.                              *)
THEOREM PublicationTypeCorrect == Spec => []PublicationTypeOK
<1>1. PublicationTypeOK /\ [Next]_vars => PublicationTypeOK'
  BY TypeStep
<1> QED
  BY <1>1, InitTyped, PTL DEF Spec

-----------------------------------------------------------------------------
(* PublishingIsOut *)

(* The status of a row that was written over. *)
LEMMA OverlaidStatus ==
  ASSUME NEW r \in Row, NEW change
  PROVE  Overlaid(r, change).status =
           IF "status" \in DOMAIN change THEN change.status ELSE r.status
BY DEF Overlaid, Row

(* The status a commit gives a row: the session's, its own, or expired.    *)
LEMMA CommitStatus ==
  ASSUME PublicationTypeOK, NEW c \in Crons, Commit(c), NEW p \in Pipelines
  PROVE  \/ row'[p].status = "expired"
         \/ row'[p].status = row[p].status
         \/ /\ "status" \in DOMAIN session[c].change[p]
            /\ row'[p].status = session[c].change[p].status
<1>1. row[p] \in Row
  BY DEF PublicationTypeOK
<1>2. row'[p] = IF p \in session[c].expired THEN [row[p] EXCEPT !.status = "expired"]
                ELSE Overlaid(row[p], session[c].change[p])
  BY DEF Commit
<1>3. CASE p \in session[c].expired
  BY <1>1, <1>2, <1>3 DEF Row
<1>4. CASE p \notin session[c].expired
  BY <1>1, <1>2, <1>4, OverlaidStatus
<1> QED
  BY <1>3, <1>4

LEMMA UnchangedStatus == \A p \in Pipelines : "status" \notin DOMAIN Unchanged[p]
BY UnchangedTyped

(* What the monitor makes of a row is out only if the row it read was, or  *)
(* the build's publish job has ended.                                      *)
LEMMA CheckedOut ==
  ASSUME PublicationTypeOK, JobsFit, NEW p \in Pipelines, NEW seen \in Row,
         NEW r \in WithJobIds(p, seen), NEW now \in {r} \cup Processed(p, r),
         Out(now.status)
  PROVE  Out(seen.status) \/ build[p].published = "published"
<1>1. r \in Row /\ r.status = seen.status
  <2>1. r \in Row
    BY CheckedTyped
  <2>2. r.status = seen.status
    BY DEF WithJobIds, Row
  <2> QED
    BY <2>1, <2>2
<1>2. CASE r.status \in {"publishing", "published"}
  BY <1>1, <1>2 DEF Out
<1>3. CASE r.status = "committed" /\ now = AfterPublishJob(p, r)
  BY <1>1, <1>3 DEF AfterPublishJob, PublishJob, JobsFit, Out, Row
<1>4. CASE r.status = "succeeded" /\ now = AfterCommitJob(p, r)
  BY <1>1, <1>4 DEF AfterCommitJob, Out, Row
<1> QED
  BY <1>1, <1>2, <1>3, <1>4 DEF Processed, Out

(* The same of the publisher. *)
LEMMA HandledOut ==
  ASSUME NEW p \in Pipelines, NEW seen \in Row, NEW at, NEW answered \in BOOLEAN,
         NEW made \in Handled(p, seen, at, answered), Out(made[2].status)
  PROVE  Out(seen.status) \/ build[p].published = "published"
BY DEF Handled, AfterBuildState, Out, Row

(* Every step keeps JobsFit, and a build that is published stays so.       *)
LEMMA JobsFitStep ==
  ASSUME PublicationTypeOK, JobsFit, [Next]_vars
  PROVE  /\ JobsFit'
         /\ \A p \in Pipelines :
              build[p].published = "published" => build'[p].published = "published"
<1> USE DEF JobsFit
<1>1. \A p \in Pipelines : build[p] \in Build
  BY DEF PublicationTypeOK
<1>2. ASSUME NEW p \in Pipelines, CallbackCommits(p)
      PROVE  /\ JobsFit'
             /\ \A q \in Pipelines :
                  build[q].published = "published" => build'[q].published = "published"
  BY <1>1, <1>2 DEF CallbackCommits, SetBuild, PublicationTypeOK, Build
<1>3. ASSUME NEW p \in Pipelines, JobStep(p)
      PROVE  /\ JobsFit'
             /\ \A q \in Pipelines :
                  build[q].published = "published" => build'[q].published = "published"
  <2>0. build \in [Pipelines -> Build] /\ build[p] \in Build
    BY DEF PublicationTypeOK
  <2>1. /\ \A q \in Pipelines \ {p} : build'[q] = build[q]
        /\ build[p].published = "published" => build'[p].published = "published"
        /\ build'[p].publishJob = "new" => build'[p].published = "publishing"
        /\ build'[p].publishJob = "ended" => build'[p].published = "published"
        /\ build'[p].repo = "uploading" => build'[p].commitJob = "none"
    <3>1. CASE CommitJobEnds(p)
      <4>1. build[p].repo # "uploading"
        BY <3>1 DEF CommitJobEnds
      <4>2. CASE SetBuild(p, [build[p] EXCEPT !.commitJob = "ended",
                                !.repo = IF @ = "committing" THEN "validating" ELSE @])
        BY <2>0, <4>1, <4>2 DEF SetBuild, Build
      <4>3. CASE SetBuild(p, [build[p] EXCEPT !.commitJob = "broken",
                                !.repo = IF @ = "committing" THEN "failed" ELSE @])
        BY <2>0, <4>1, <4>3 DEF SetBuild, Build
      <4> QED
        BY <3>1, <4>2, <4>3 DEF CommitJobEnds
    <3>2. CASE Validated(p)
      BY <2>0, <3>2 DEF Validated, SetBuild, Build
    <3>3. CASE PublishJobEnds(p)
      BY <2>0, <3>3 DEF PublishJobEnds, SetBuild, Build
    <3>4. CASE UpdateJobEnds(p)
      BY <2>0, <3>4 DEF UpdateJobEnds, SetBuild, Build
    <3> QED
      BY <1>3, <3>1, <3>2, <3>3, <3>4 DEF JobStep
  <2> QED
    BY <2>1
<1>4. ASSUME NEW b \in Publishers, NEW a, NEW answered \in BOOLEAN,
             PublisherGroup(b, a, answered)
      PROVE  /\ JobsFit'
             /\ \A q \in Pipelines :
                  build[q].published = "published" => build'[q].published = "published"
  <2>1. PICK newest, gone, made :
          /\ newest \in Candidates({p \in session[b].todo : AppOf[p] = a})
          /\ gone \subseteq {p \in session[b].todo : AppOf[p] = a}
          /\ made \in Handled(newest, session[b].seen[newest], session[b].at, answered)
          /\ GroupDone(b, {p \in session[b].todo : AppOf[p] = a}, newest, gone,
                       made[1], made[2])
    BY <1>4 DEF PublisherGroup
  <2>2. newest \in Pipelines
    BY <2>1 DEF Candidates, PublicationTypeOK, SessionOK, Crons
  <2>3. \/ made[1] = build[newest]
        \/ made[1] = Published(newest) /\ ReadyToPublish(newest)
    BY <2>1 DEF Handled
  <2>4. \A q \in Pipelines :
          \/ build'[q] = build[q]
          \/ build'[q] = [build[q] EXCEPT !.repo = "purged"]
          \/ build'[q] = Published(q) /\ ReadyToPublish(q)
    BY <2>1, <2>2, <2>3 DEF GroupDone
  <2>5. ASSUME NEW q \in Pipelines
        PROVE  /\ build[q].published = "published" => build'[q].published = "published"
               /\ build'[q].publishJob = "new" => build'[q].published = "publishing"
               /\ build'[q].publishJob = "ended" => build'[q].published = "published"
               /\ build'[q].repo = "uploading" => build'[q].commitJob = "none"
    <3>1. build[q] \in Build
      BY <1>1
    <3>2. CASE build'[q] = build[q]
      BY <3>2
    <3>3. CASE build'[q] = [build[q] EXCEPT !.repo = "purged"]
      BY <3>1, <3>3 DEF Build
    <3>4. CASE build'[q] = Published(q) /\ ReadyToPublish(q)
      BY <3>1, <3>4 DEF Published, ReadyToPublish, Build
    <3> QED
      BY <2>4, <3>2, <3>3, <3>4
  <2> QED
    BY <2>5
<1>5. ASSUME UNCHANGED build
      PROVE  /\ JobsFit'
             /\ \A q \in Pipelines :
                  build[q].published = "published" => build'[q].published = "published"
  BY <1>5
<1> QED
  BY <1>2, <1>3, <1>4, <1>5
  DEF Next, vars, CallbackStep, MonitorStep, PublisherStep, Start, Age, CallbackRead,
      CallbackWrite, CallbackGivesUp, MonitorBegin, MonitorCheck, Commit, PublisherBegin, Crash

(* A session that begins, or is over, says no more than flat-manager.      *)
LEMMA NewSessionsOut ==
  ASSUME OutInv, NEW selected \in SUBSET Pipelines, NEW expired
  PROVE  SessionOut(Opened(selected, expired)) /\ SessionOut(NoSession)
<1>1. ~Out(NewRow.status)
  BY DEF Out, NewRow
<1> QED
  BY <1>1, UnchangedStatus
  DEF OutInv, PublishingIsOut, SessionOut, Opened, NoSession, NewRows

(* Replacing one session by one that says no more than flat-manager keeps  *)
(* SessionsOut, if published builds stay so.                               *)
LEMMA SessionsOutKept ==
  ASSUME OutInv, NEW c \in Crons, NEW s, SessionOut(s), session' = [session EXCEPT ![c] = s],
         \A p \in Pipelines :
           build[p].published = "published" => build'[p].published = "published"
  PROVE  SessionsOut'
BY DEF OutInv, PublicationTypeOK, SessionsOut, SessionOut

(* Every step keeps OutInv. *)
LEMMA OutStep ==
  ASSUME OutInv, [Next]_vars
  PROVE  OutInv'
<1>1. PublicationTypeOK /\ JobsFit /\ SessionsOut /\ PublishingIsOut
  BY DEF OutInv
<1>2. PublicationTypeOK'
  BY <1>1, TypeStep
<1>3. /\ JobsFit'
      /\ \A p \in Pipelines :
           build[p].published = "published" => build'[p].published = "published"
  BY <1>1, JobsFitStep
<1>4. SessionsOut'
  <2>1. ASSUME NEW m \in Monitors, MonitorBegin(m) PROVE SessionsOut'
    BY <1>3, <2>1, NewSessionsOut, SessionsOutKept DEF MonitorBegin, Active, Stale, Crons
  <2>2. ASSUME NEW m \in Monitors, NEW p \in Pipelines, NEW answered \in BOOLEAN,
               MonitorCheck(m, p, answered)
        PROVE  SessionsOut'
    <3> DEFINE seen == session[m].seen[p]
    <3>1. m \in Crons /\ seen \in Row /\ SessionOK(session[m])
      BY <1>1 DEF Crons, SessionOK, PublicationTypeOK
    <3>2. PICK r, now :
            /\ r \in WithJobIds(p, seen) /\ now \in {r} \cup Processed(p, r)
            /\ session' = [session EXCEPT ![m].change[p] = Changes(seen, now),
                                          ![m].todo = @ \ {p}, ![m].seen[p] = NewRow]
      BY <2>2 DEF MonitorCheck
    <3>3. now \in Row
      BY <1>1, <3>1, <3>2, CheckedTyped
    <3> DEFINE s == [session[m] EXCEPT !.change = [@ EXCEPT ![p] = Changes(seen, now)],
                                       !.todo = @ \ {p},
                                       !.seen = [@ EXCEPT ![p] = NewRow]]
    <3>4. session' = [session EXCEPT ![m] = s]
      BY <3>2
    <3>5. ASSUME "status" \in DOMAIN Changes(seen, now), Out(Changes(seen, now).status)
          PROVE  build[p].published = "published"
      <4>1. Out(now.status)
        BY <3>1, <3>3, <3>5, ChangesTyped
      <4>2. Out(seen.status) => build[p].published = "published"
        BY <1>1, <3>1 DEF SessionsOut, SessionOut
      <4> QED
        BY <1>1, <3>1, <3>2, <4>1, <4>2, CheckedOut
    <3>6. \A q \in Pipelines :
            /\ s.change[q] = IF q = p THEN Changes(seen, now) ELSE session[m].change[q]
            /\ s.seen[q] = IF q = p THEN NewRow ELSE session[m].seen[q]
      BY <3>1 DEF SessionOK
    <3>7. SessionOut(s)
      BY <1>1, <3>1, <3>5, <3>6 DEF SessionOut, SessionsOut, NewRow, Out
    <3> HIDE DEF s
    <3> QED
      BY <1>3, <3>1, <3>4, <3>7, SessionsOutKept
  <2>3. ASSUME NEW c \in Crons, Commit(c) PROVE SessionsOut'
    BY <1>3, <2>3, NewSessionsOut, SessionsOutKept DEF Commit
  <2>4. ASSUME NEW b \in Publishers, PublisherBegin(b) PROVE SessionsOut'
    BY <1>3, <2>4, NewSessionsOut, SessionsOutKept DEF PublisherBegin, Committed, Crons
  <2>5. ASSUME NEW b \in Publishers, NEW a, NEW answered \in BOOLEAN,
               PublisherGroup(b, a, answered)
        PROVE  SessionsOut'
    <3> DEFINE group == {p \in session[b].todo : AppOf[p] = a}
    <3>1. PICK newest, gone, made :
            /\ newest \in Candidates(group)
            /\ gone \subseteq group
            /\ made \in Handled(newest, session[b].seen[newest], session[b].at, answered)
            /\ GroupDone(b, group, newest, gone, made[1], made[2])
      BY <2>5 DEF PublisherGroup
    <3>2. b \in Crons /\ SessionOK(session[b]) /\ newest \in Pipelines
      BY <1>1, <3>1 DEF Candidates, PublicationTypeOK, SessionOK, Crons
    <3> DEFINE seen == session[b].seen[newest]
    <3>3. seen \in Row /\ made[2] \in Row
      BY <1>1, <3>1, <3>2, OutcomeTyped DEF SessionOK
    <3>4. ASSUME "status" \in DOMAIN Changes(seen, made[2]), Out(Changes(seen, made[2]).status)
          PROVE  build[newest].published = "published"
      <4>1. Out(made[2].status)
        BY <3>3, <3>4, ChangesTyped
      <4>2. Out(seen.status) => build[newest].published = "published"
        BY <1>1, <3>2 DEF SessionsOut, SessionOut
      <4> QED
        BY <3>1, <3>2, <3>3, <4>1, <4>2, HandledOut
    <3> HIDE DEF group
    <3> DEFINE s == session'[b]
    <3>5. session' = [session EXCEPT ![b] = s]
      BY <1>1, <3>1, <3>2 DEF GroupDone, PublicationTypeOK
    <3>6. \A q \in Pipelines :
            /\ s.change[q] = IF q = newest THEN Changes(seen, made[2])
                             ELSE IF q \in group THEN [status |-> "superseded"]
                             ELSE session[b].change[q]
            /\ s.seen[q] = IF q \in group THEN NewRow ELSE session[b].seen[q]
      BY <1>1, <3>1, <3>2 DEF GroupDone, PublicationTypeOK, SessionOK
    <3>7. SessionOut(s)
      BY <1>1, <3>2, <3>4, <3>6 DEF SessionOut, SessionsOut, NewRow, Out
    <3> HIDE DEF s
    <3> QED
      BY <1>3, <3>2, <3>5, <3>7, SessionsOutKept
  <2>6. ASSUME Crash PROVE SessionsOut'
    BY <1>3, <2>6, NewSessionsOut DEF Crash, SessionsOut, SessionOut
  <2>7. ASSUME UNCHANGED session PROVE SessionsOut'
    BY <1>1, <1>3, <2>7 DEF SessionsOut, SessionOut
  <2> QED
    BY <2>1, <2>2, <2>3, <2>4, <2>5, <2>6, <2>7
    DEF Next, vars, CallbackStep, MonitorStep, PublisherStep, JobStep, Crons, Start, Age,
        CallbackRead, CallbackWrite, CallbackCommits, CallbackGivesUp,
        CommitJobEnds, Validated, PublishJobEnds, UpdateJobEnds
<1>5. PublishingIsOut'
  <2>1. ASSUME NEW p \in Pipelines, Start(p) PROVE PublishingIsOut'
    BY <1>1, <2>1 DEF Start, PublishingIsOut, Out, PublicationTypeOK, Row
  <2>2. ASSUME NEW p \in Pipelines, CallbackWrite(p) PROVE PublishingIsOut'
    BY <1>1, <2>2 DEF CallbackWrite, SetRow, PublishingIsOut, Out, PublicationTypeOK, Row
  <2>3. ASSUME NEW p \in Pipelines, CallbackCommits(p) PROVE PublishingIsOut'
    <3>1. \A q \in Pipelines : row'[q].status = row[q].status
      BY <1>1, <2>3 DEF CallbackCommits, SetRow, PublicationTypeOK, Row
    <3> QED
      BY <1>1, <1>3, <3>1 DEF PublishingIsOut
  <2>4. ASSUME NEW c \in Crons, Commit(c) PROVE PublishingIsOut'
    BY <1>1, <1>3, <2>4, CommitStatus DEF PublishingIsOut, SessionsOut, SessionOut, Out
  <2>5. ASSUME UNCHANGED row PROVE PublishingIsOut'
    BY <1>1, <1>3, <2>5 DEF PublishingIsOut
  <2> QED
    BY <2>1, <2>2, <2>3, <2>4, <2>5
    DEF Next, vars, CallbackStep, MonitorStep, PublisherStep, JobStep, Crons, Age,
        CallbackRead, CallbackGivesUp, MonitorBegin, MonitorCheck, PublisherBegin,
        PublisherGroup, CommitJobEnds, Validated, PublishJobEnds, UpdateJobEnds, Crash
<1> QED
  BY <1>2, <1>3, <1>4, <1>5 DEF OutInv

(* A row says publishing or published only if flat-manager has published   *)
(* its build, however the monitors, the publishers and the callbacks       *)
(* overlap and whatever they read before they wrote.                       *)
THEOREM PublishedIsOut == Spec => []PublishingIsOut
<1>1. Init => OutInv
  <2>1. ASSUME Init PROVE SessionsOut
    BY <2>1, UnchangedStatus DEF Init, SessionsOut, SessionOut, NoSession, NewRows, NewRow, Out
  <2> QED
    BY <2>1, InitTyped
    DEF Init, OutInv, JobsFit, PublishingIsOut, NewBuild, NewRows, NewRow, Out
<1>2. OutInv /\ [Next]_vars => OutInv'
  BY OutStep
<1>3. OutInv => PublishingIsOut
  BY DEF OutInv
<1> QED
  BY <1>1, <1>2, <1>3, PTL DEF Spec

-----------------------------------------------------------------------------
(* SupersededForNewer *)

(* What the commit of build q has done stays done, and a step asks for it   *)
(* only while the callback of q is at work.                                *)
CommitKept(q) ==
  /\ build[q].commitJob = "ended" => build'[q].commitJob = "ended"
  /\ build'[q].commitJob # "none" => build[q].commitJob # "none" \/ call[q] = "written"

LEMMA CommitJobStep ==
  ASSUME PublicationTypeOK, JobsFit, [Next]_vars
  PROVE  \A q \in Pipelines : CommitKept(q)
<1>1. build \in [Pipelines -> Build] /\ \A q \in Pipelines : build[q] \in Build
  BY DEF PublicationTypeOK
<1>2. ASSUME NEW p \in Pipelines, CallbackCommits(p), NEW q \in Pipelines PROVE CommitKept(q)
  <2>1. call[p] = "written" /\ build[p].commitJob = "none"
    BY <1>2 DEF CallbackCommits, JobsFit
  <2>2. q # p => build'[q] = build[q]
    BY <1>1, <1>2 DEF CallbackCommits, SetBuild
  <2> QED
    BY <2>1, <2>2 DEF CommitKept
<1>3. ASSUME NEW p \in Pipelines, JobStep(p), NEW q \in Pipelines PROVE CommitKept(q)
  <2>1. q # p => build'[q] = build[q]
    BY <1>1, <1>3 DEF JobStep, CommitJobEnds, Validated, PublishJobEnds, UpdateJobEnds, SetBuild
  <2>2. build[p].commitJob = "new" \/ build'[p].commitJob = build[p].commitJob
    <3>1. CASE CommitJobEnds(p)
      BY <3>1 DEF CommitJobEnds
    <3>2. CASE Validated(p)
      BY <1>1, <3>2 DEF Validated, SetBuild, Build
    <3>3. CASE PublishJobEnds(p)
      BY <1>1, <3>3 DEF PublishJobEnds, SetBuild, Build
    <3>4. CASE UpdateJobEnds(p)
      BY <1>1, <3>4 DEF UpdateJobEnds, SetBuild, Build
    <3> QED
      BY <1>3, <3>1, <3>2, <3>3, <3>4 DEF JobStep
  <2> QED
    BY <2>1, <2>2 DEF CommitKept
<1>4. ASSUME NEW b \in Publishers, NEW a, NEW answered \in BOOLEAN,
             PublisherGroup(b, a, answered), NEW q \in Pipelines
      PROVE  CommitKept(q)
  <2>1. PICK newest, gone, made :
          /\ newest \in Candidates({p \in session[b].todo : AppOf[p] = a})
          /\ made \in Handled(newest, session[b].seen[newest], session[b].at, answered)
          /\ GroupDone(b, {p \in session[b].todo : AppOf[p] = a}, newest, gone,
                       made[1], made[2])
    BY <1>4 DEF PublisherGroup
  <2>2. newest \in Pipelines
    BY <2>1 DEF Candidates, PublicationTypeOK, SessionOK, Crons
  <2>3. made[1].commitJob = build[newest].commitJob
    <3>1. build[newest] \in Build
      BY <1>1, <2>2
    <3>2. made[1] = build[newest] \/ made[1] = Published(newest)
      BY <2>1 DEF Handled
    <3> QED
      BY <3>1, <3>2 DEF Published, Build
  <2>4. build'[q].commitJob = build[q].commitJob
    BY <1>1, <2>1, <2>3 DEF GroupDone, Build
  <2> QED
    BY <2>4 DEF CommitKept
<1>5. ASSUME UNCHANGED build, NEW q \in Pipelines PROVE CommitKept(q)
  BY <1>5 DEF CommitKept
<1> QED
  BY <1>2, <1>3, <1>4, <1>5
  DEF Next, vars, CallbackStep, MonitorStep, PublisherStep, Start, Age, CallbackRead,
      CallbackWrite, CallbackGivesUp, MonitorBegin, MonitorCheck, Commit, PublisherBegin, Crash

(* What has been committed stays so. *)
LEMMA CommittedKept ==
  ASSUME \A q \in Pipelines : CommitKept(q)
  PROVE  \A p \in Pipelines : /\ CommitEnded(p) => CommitEnded(p)'
                              /\ NewerCommitted(p) => NewerCommitted(p)'
BY DEF CommitKept, CommitEnded, NewerCommitted, Newer

(* A session that begins, or is over, says no more than was committed.     *)
LEMMA NewSessionsEnded ==
  ASSUME SupersedeInv, NEW c \in Crons, NEW selected \in SUBSET Pipelines, NEW expired,
         c \in Publishers => selected \subseteq Committed
  PROVE  SessionEnded(c, Opened(selected, expired)) /\ SessionEnded(c, NoSession)
BY UnchangedStatus
DEF SupersedeInv, CommittedEnded, SessionEnded, Opened, NoSession, Committed

LEMMA SessionsEndedKept ==
  ASSUME SupersedeInv, \A q \in Pipelines : CommitKept(q),
         NEW c \in Crons, NEW s, SessionEnded(c, s), session' = [session EXCEPT ![c] = s]
  PROVE  \A d \in Crons : SessionEnded(d, session[d])'
<1>1. \A p \in Pipelines : /\ CommitEnded(p) => CommitEnded(p)'
                           /\ NewerCommitted(p) => NewerCommitted(p)'
  BY CommittedKept
<1>2. \A d \in Crons : session'[d] = IF d = c THEN s ELSE session[d]
  BY DEF SupersedeInv, PublicationTypeOK
<1>3. \A d \in Crons : SessionEnded(d, session[d])
  BY DEF SupersedeInv, CommittedEnded
<1> QED
  BY <1>1, <1>2, <1>3 DEF SessionEnded

(* The monitor writes committed only if the commit job has ended, and it   *)
(* supersedes nothing.                                                     *)
LEMMA CheckedEnded ==
  ASSUME PublicationTypeOK, NEW p \in Pipelines, NEW seen \in Row,
         NEW r \in WithJobIds(p, seen), NEW now \in {r} \cup Processed(p, r),
         now.status # seen.status
  PROVE  /\ now.status = "committed" => CommitEnded(p)
         /\ now.status \notin {"superseded", "absent", "running"}
<1>1. r \in Row /\ r.status = seen.status
  <2>1. r \in Row
    BY CheckedTyped
  <2>2. r.status = seen.status
    BY DEF WithJobIds, Row
  <2> QED
    BY <2>1, <2>2
<1>2. CASE now = AfterCommitJob(p, r)
  BY <1>1, <1>2 DEF AfterCommitJob, Row, CommitEnded
<1>3. CASE now = AfterPublishJob(p, r)
  BY <1>1, <1>3 DEF AfterPublishJob, Row
<1>4. CASE now = AfterUpdateJob(p, r)
  BY <1>1, <1>4 DEF AfterUpdateJob, Row
<1>5. CASE now \in AfterRecovery(p, r)
  <2>1. \/ \E q \in Peers(p) :
             now = [r EXCEPT !.status = "published", !.update = row[q].update, !.at = Existing]
        \/ now = [r EXCEPT !.status = "failed"]
        \/ now = r
    BY <1>5 DEF AfterRecovery
  <2>2. now.status \in {"published", "failed", r.status}
    BY <1>1, <2>1 DEF Row
  <2> QED
    BY <1>1, <2>2
<1> QED
  BY <1>1, <1>2, <1>3, <1>4, <1>5 DEF Processed

(* The publisher makes the newest row published or failed, if anything.    *)
LEMMA HandledEnded ==
  ASSUME NEW p \in Pipelines, NEW seen \in Row, NEW at, NEW answered \in BOOLEAN,
         NEW made \in Handled(p, seen, at, answered), made[2].status # seen.status
  PROVE  made[2].status \in {"published", "failed"}
<1>1. CASE made[2] = seen
  BY <1>1
<1>2. CASE made[2] = AfterBuildState(p, seen, at)
  BY <1>2 DEF AfterBuildState, Row
<1>3. CASE \E id \in {0, build[p].attempts + 1} :
             made[2] = [seen EXCEPT !.publish = IF @ = 0 THEN id ELSE @]
  BY <1>3 DEF Row
<1> QED
  BY <1>1, <1>2, <1>3 DEF Handled

(* Every step keeps what sessions are to write within what was committed.  *)
LEMMA SessionsEndedStep ==
  ASSUME SupersedeInv, [Next]_vars
  PROVE  \A d \in Crons : SessionEnded(d, session[d])'
<1> DEFINE Kept == \A d \in Crons : SessionEnded(d, session[d])'
<1>1. PublicationTypeOK /\ JobsFit /\ \A d \in Crons : SessionEnded(d, session[d])
  BY DEF SupersedeInv, CommittedEnded
<1>2. \A q \in Pipelines : CommitKept(q)
  BY <1>1, CommitJobStep
<1>3. ASSUME NEW m \in Monitors, MonitorBegin(m) PROVE Kept
  <2>1. m \in Crons /\ m \notin Publishers
    BY CronAssumption DEF Crons
  <2> QED
    BY <1>2, <1>3, <2>1, NewSessionsEnded, SessionsEndedKept DEF MonitorBegin, Active
<1>4. ASSUME NEW m \in Monitors, NEW p \in Pipelines, NEW answered \in BOOLEAN,
             MonitorCheck(m, p, answered)
      PROVE  Kept
  <2> DEFINE seen == session[m].seen[p]
  <2>1. m \in Crons /\ seen \in Row /\ SessionOK(session[m]) /\ m \notin Publishers
    BY <1>1, CronAssumption DEF Crons, SessionOK, PublicationTypeOK
  <2>2. PICK r, now :
          /\ r \in WithJobIds(p, seen) /\ now \in {r} \cup Processed(p, r)
          /\ session' = [session EXCEPT ![m].change[p] = Changes(seen, now),
                                        ![m].todo = @ \ {p}, ![m].seen[p] = NewRow]
    BY <1>4 DEF MonitorCheck
  <2>3. now \in Row
    BY <1>1, <2>1, <2>2, CheckedTyped
  <2> DEFINE s == [session[m] EXCEPT !.change = [@ EXCEPT ![p] = Changes(seen, now)],
                                     !.todo = @ \ {p},
                                     !.seen = [@ EXCEPT ![p] = NewRow]]
  <2>4. session' = [session EXCEPT ![m] = s]
    BY <2>2
  <2>5. ASSUME "status" \in DOMAIN Changes(seen, now)
        PROVE  /\ Changes(seen, now).status = "committed" => CommitEnded(p)
               /\ Changes(seen, now).status \notin {"superseded", "absent", "running"}
    <3>1. Changes(seen, now).status = now.status /\ now.status # seen.status
      BY <2>1, <2>3, <2>5, ChangesTyped
    <3> QED
      BY <1>1, <2>1, <2>2, <3>1, CheckedEnded
  <2>6. \A q \in Pipelines :
          s.change[q] = IF q = p THEN Changes(seen, now) ELSE session[m].change[q]
    BY <2>1 DEF SessionOK
  <2>7. SessionEnded(m, s)
    BY <1>1, <2>1, <2>5, <2>6 DEF SessionEnded
  <2> HIDE DEF s
  <2> QED
    BY <1>2, <2>1, <2>4, <2>7, SessionsEndedKept
<1>5. ASSUME NEW c \in Crons, Commit(c) PROVE Kept
  BY <1>2, <1>5, NewSessionsEnded, SessionsEndedKept DEF Commit
<1>6. ASSUME NEW b \in Publishers, PublisherBegin(b) PROVE Kept
  BY <1>2, <1>6, NewSessionsEnded, SessionsEndedKept DEF PublisherBegin, Committed, Crons
<1>7. ASSUME NEW b \in Publishers, NEW a, NEW answered \in BOOLEAN,
             PublisherGroup(b, a, answered)
      PROVE  Kept
  <2> DEFINE group == {p \in session[b].todo : AppOf[p] = a}
  <2>1. PICK newest, gone, made :
          /\ newest \in Candidates(group)
          /\ made \in Handled(newest, session[b].seen[newest], session[b].at, answered)
          /\ GroupDone(b, group, newest, gone, made[1], made[2])
    BY <1>7 DEF PublisherGroup
  <2>2. /\ b \in Crons /\ SessionOK(session[b]) /\ group \subseteq Pipelines
        /\ newest \in group /\ \A q \in group : q <= newest
    BY <1>1, <2>1 DEF Candidates, PublicationTypeOK, SessionOK, Crons
  <2> DEFINE seen == session[b].seen[newest]
  <2>3. seen \in Row /\ made[2] \in Row
    BY <1>1, <2>1, <2>2, OutcomeTyped DEF SessionOK
  <2>4. "status" \in DOMAIN Changes(seen, made[2]) =>
          Changes(seen, made[2]).status \in {"published", "failed"}
    <3>1. "status" \in DOMAIN Changes(seen, made[2]) =>
            Changes(seen, made[2]).status = made[2].status /\ made[2].status # seen.status
      BY <2>3, ChangesTyped
    <3> QED
      BY <2>1, <2>2, <2>3, <3>1, HandledEnded
  <2>5. ASSUME NEW q \in group, q # newest PROVE NewerCommitted(q)
    <3>1. newest \in Newer(q)
      <4>1. q \in Nat /\ newest \in Nat /\ q <= newest /\ newest \in Pipelines
        BY <2>2, <2>5, RowsAssumption
      <4>2. AppOf[newest] = AppOf[q]
        BY <2>2, <2>5
      <4> QED
        BY <2>5, <4>1, <4>2 DEF Newer
    <3>2. CommitEnded(newest)
      BY <1>1, <2>2 DEF SessionEnded
    <3> QED
      BY <3>1, <3>2 DEF NewerCommitted
  <2> DEFINE s == session'[b]
  <2>6. session' = [session EXCEPT ![b] = s]
    BY <1>1, <2>1, <2>2 DEF GroupDone, PublicationTypeOK
  <2>7. /\ s.todo = session[b].todo \ group
        /\ \A q \in Pipelines :
             /\ s.change[q] = IF q = newest THEN Changes(seen, made[2])
                              ELSE IF q \in group THEN [status |-> "superseded"]
                              ELSE session[b].change[q]
             /\ s.seen[q] = IF q \in group THEN NewRow ELSE session[b].seen[q]
    BY <1>1, <2>1, <2>2 DEF GroupDone, PublicationTypeOK, SessionOK
  <2> HIDE DEF group, s
  <2>8. SessionEnded(b, s)
    BY <1>1, <2>2, <2>4, <2>5, <2>7 DEF SessionEnded
  <2> QED
    BY <1>2, <2>2, <2>6, <2>8, SessionsEndedKept
<1>8. ASSUME Crash PROVE Kept
  BY <1>8, UnchangedStatus DEF Crash, SessionEnded, NoSession
<1>9. ASSUME UNCHANGED session PROVE Kept
  <2>1. \A p \in Pipelines : /\ CommitEnded(p) => CommitEnded(p)'
                             /\ NewerCommitted(p) => NewerCommitted(p)'
    BY <1>2, CommittedKept
  <2> QED
    BY <1>1, <1>9, <2>1 DEF SessionEnded
<1> QED
  BY <1>3, <1>4, <1>5, <1>6, <1>7, <1>8, <1>9
  DEF Next, vars, CallbackStep, MonitorStep, PublisherStep, JobStep, Crons, Start, Age,
      CallbackRead, CallbackWrite, CallbackCommits, CallbackGivesUp,
      CommitJobEnds, Validated, PublishJobEnds, UpdateJobEnds

(* Every step keeps SupersedeInv. *)
LEMMA SupersedeStep ==
  ASSUME SupersedeInv, [Next]_vars
  PROVE  SupersedeInv'
<1>1. PublicationTypeOK /\ JobsFit /\ CommittedEnded /\ CommitAfterSuccess
  BY DEF SupersedeInv
<1>2. PublicationTypeOK' /\ JobsFit' /\ \A d \in Crons : SessionEnded(d, session[d])'
  BY <1>1, TypeStep, JobsFitStep, SessionsEndedStep
<1>3. \A q \in Pipelines :
        /\ row[q] \in Row /\ CommitKept(q)
        /\ CommitEnded(q) => CommitEnded(q)'
        /\ NewerCommitted(q) => NewerCommitted(q)'
  BY <1>1, CommitJobStep, CommittedKept DEF PublicationTypeOK
<1> DEFINE Fits == \A q \in Pipelines :
             /\ row'[q].status = "committed" => CommitEnded(q)'
             /\ row'[q].status \in {"absent", "running"}
                  => build'[q].commitJob = "none" /\ call'[q] # "written"
             /\ row'[q].status = "superseded"
                  => \/ build'[q].commitJob = "none" /\ call'[q] # "written"
                     \/ NewerCommitted(q)'
<1>4. Fits
  <2>1. ASSUME NEW p \in Pipelines, Start(p) PROVE Fits
    <3>1. UNCHANGED <<call, build>>
      BY <2>1 DEF Start
    <3>2. \A q \in Pipelines :
            \/ row'[q].status = row[q].status
            \/ /\ row[q].status \in {"absent", "running"}
               /\ row'[q].status \in {"running", "superseded"}
      BY <1>3, <2>1 DEF Start, Exists, Row
    <3> QED
      BY <1>1, <1>3, <3>1, <3>2 DEF CommitAfterSuccess, CommittedEnded
  <2>2. ASSUME NEW p \in Pipelines, CallbackWrite(p) PROVE Fits
    <3>1. UNCHANGED build /\ call' = [call EXCEPT ![p] = "written"]
      BY <2>2 DEF CallbackWrite
    <3>2. \A q \in Pipelines :
            row'[q].status = IF q = p THEN "succeeded" ELSE row[q].status
      BY <1>1, <1>3, <2>2 DEF CallbackWrite, SetRow, PublicationTypeOK, Row
    <3> QED
      BY <1>1, <1>3, <3>1, <3>2 DEF CommitAfterSuccess, CommittedEnded, PublicationTypeOK
  <2>3. ASSUME NEW c \in Crons, Commit(c) PROVE Fits
    <3>1. UNCHANGED <<call, build>>
      BY <2>3 DEF Commit
    <3> QED
      BY <1>1, <1>3, <2>3, <3>1, CommitStatus
      DEF CommitAfterSuccess, CommittedEnded, SessionEnded
  <2>4. ASSUME \A q \in Pipelines : /\ row'[q].status = row[q].status
                                    /\ call'[q] = "written" => call[q] = "written"
        PROVE  Fits
    BY <1>1, <1>3, <2>4 DEF CommitAfterSuccess, CommittedEnded, CommitKept
  <2>5. ASSUME NEW p \in Pipelines, CallbackCommits(p) PROVE Fits
    <3>1. \A q \in Pipelines : row'[q].status = row[q].status
      BY <1>1, <1>3, <2>5 DEF CallbackCommits, SetRow, PublicationTypeOK, Row
    <3>2. \A q \in Pipelines : call'[q] = "written" => call[q] = "written"
      BY <1>1, <2>5 DEF CallbackCommits, PublicationTypeOK
    <3> QED
      BY <2>4, <3>1, <3>2
  <2>6. ASSUME NEW p \in Pipelines, CallbackRead(p) \/ CallbackGivesUp(p) PROVE Fits
    BY <1>1, <2>4, <2>6 DEF CallbackRead, CallbackGivesUp, PublicationTypeOK
  <2>7. ASSUME Crash PROVE Fits
    BY <2>4, <2>7 DEF Crash
  <2>8. ASSUME UNCHANGED <<row, call>> PROVE Fits
    BY <2>4, <2>8
  <2> QED
    BY <2>1, <2>2, <2>3, <2>5, <2>6, <2>7, <2>8
    DEF Next, vars, CallbackStep, MonitorStep, PublisherStep, JobStep, Crons, Age,
        MonitorBegin, MonitorCheck, PublisherBegin, PublisherGroup,
        CommitJobEnds, Validated, PublishJobEnds, UpdateJobEnds
<1> QED
  BY <1>2, <1>4 DEF SupersedeInv, CommittedEnded, CommitAfterSuccess

(* Nothing is committed, and no session open. *)
LEMMA SupersedeInit == Init => SupersedeInv
<1>1. ASSUME Init PROVE CommittedEnded
  BY <1>1, UnchangedStatus
  DEF Init, CommittedEnded, SessionEnded, NoSession, NewRows, NewRow
<1> QED
  BY <1>1, InitTyped
  DEF Init, SupersedeInv, JobsFit, CommitAfterSuccess, NewBuild, NewRows, NewRow

(* When a committed build is superseded, a newer build of the application  *)
(* has been committed too, however the publishers overlap.                 *)
THEOREM SupersessionForNewer == Spec => []SupersededForNewer
<1>1. Init => SupersedeInv
  BY SupersedeInit
<1>2. SupersedeInv /\ [Next]_vars => SupersedeInv'
  BY SupersedeStep
<1>3. SupersedeInv => SupersededForNewer
  BY DEF SupersedeInv, CommitAfterSuccess, SupersededForNewer, NewerCommitted, CommitEnded
<1> QED
  BY <1>1, <1>2, <1>3, PTL DEF Spec

-----------------------------------------------------------------------------
(* FailedIsBroken                                                          *)

(* What is broken stays so, and publish jobs only get more. *)
StaysBroken(p) ==
  /\ Broken(p) => Broken(p)'
  /\ build[p].attempts <= build'[p].attempts
  /\ build'[p].publishJob \in {"new", "broken"} => build'[p].attempts > 0

(* A build whose job ends is as broken as it was, or more. *)
LEMMA JobStepBroken ==
  ASSUME BrokenInv, NEW p \in Pipelines, JobStep(p), \A q \in Pipelines : CommitKept(q)
  PROVE  \A q \in Pipelines : StaysBroken(q)
<1>1. /\ build \in [Pipelines -> Build] /\ age' = age
      /\ \A q \in Pipelines : build[q] \in Build /\ (NewerCommitted(q) => NewerCommitted(q)')
  BY CommittedKept
  DEF BrokenInv, SupersedeInv, PublicationTypeOK, JobStep, CommitJobEnds, Validated,
      PublishJobEnds, UpdateJobEnds
<1>2. /\ \A q \in Pipelines \ {p} : build'[q] = build[q]
      /\ build[p].commitJob = "broken" => build'[p].commitJob = "broken"
      /\ build[p].repo \in {"failed", "purged"} => build'[p].repo = build[p].repo
      /\ build'[p].attempts = build[p].attempts
      /\ build'[p].publishJob = build[p].publishJob \/ build[p].publishJob = "new"
  <2>1. CASE CommitJobEnds(p)
    BY <1>1, <2>1 DEF CommitJobEnds, SetBuild, Build
  <2>2. CASE Validated(p)
    BY <1>1, <2>2 DEF Validated, SetBuild, Build
  <2>3. CASE PublishJobEnds(p)
    BY <1>1, <2>3 DEF PublishJobEnds, SetBuild, Build
  <2>4. CASE UpdateJobEnds(p)
    BY <1>1, <2>4 DEF UpdateJobEnds, SetBuild, Build
  <2>. QED BY <2>1, <2>2, <2>3, <2>4 DEF JobStep
<1>3. ASSUME NEW q \in Pipelines PROVE StaysBroken(q)
  <2>1. build[q].attempts \in Nat /\ (build[q].publishJob \in {"new", "broken"} =>
                                        build[q].attempts > 0)
    BY <1>1, LimitsAssumption DEF BrokenInv, AttemptsFit, Build
  <2>2. /\ build[q].commitJob = "broken" => build'[q].commitJob = "broken"
        /\ build[q].repo \in {"failed", "purged"} => build'[q].repo = build[q].repo
        /\ build'[q].attempts = build[q].attempts
        /\ build'[q].publishJob = build[q].publishJob \/ build[q].publishJob = "new"
    BY <1>2
  <2>. QED BY <1>1, <2>1, <2>2 DEF StaysBroken, Broken, NewerCommitted, CommitEnded
<1>. QED BY <1>3

(* A build that failed its validation is purged for a newer one, and a     *)
(* publish job that broke is followed by the next.                         *)
LEMMA GroupBroken ==
  ASSUME BrokenInv, NEW b \in Publishers, NEW a, NEW answered \in BOOLEAN,
         PublisherGroup(b, a, answered), \A q \in Pipelines : CommitKept(q)
  PROVE  \A q \in Pipelines : StaysBroken(q)
<1>1. /\ \A q \in Pipelines : build[q] \in Build /\ (NewerCommitted(q) => NewerCommitted(q)')
      /\ SessionOK(session[b]) /\ SessionEnded(b, session[b]) /\ age' = age
  BY CommittedKept
  DEF BrokenInv, SupersedeInv, CommittedEnded, PublicationTypeOK, PublisherGroup, Crons
<1>. DEFINE group == {p \in session[b].todo : AppOf[p] = a}
<1>2. PICK newest, gone, made :
        /\ newest \in Candidates(group) /\ gone \subseteq group \ {newest}
        /\ made \in Handled(newest, session[b].seen[newest], session[b].at, answered)
        /\ GroupDone(b, group, newest, gone, made[1], made[2])
  BY DEF PublisherGroup
<1>3. group \subseteq Pipelines /\ newest \in group /\ \A q \in group : q <= newest
  BY <1>1, <1>2 DEF Candidates, SessionOK
<1>4. made[1] = build[newest] \/ (made[1] = Published(newest) /\ ReadyToPublish(newest))
  BY <1>2 DEF Handled
<1>5. ASSUME NEW q \in gone PROVE NewerCommitted(q)
  <2>1. newest \in Newer(q)
    <3>1. q \in Nat /\ newest \in Nat /\ q <= newest /\ newest # q /\ newest \in Pipelines
      BY <1>2, <1>3, <1>5, RowsAssumption
    <3>2. AppOf[newest] = AppOf[q]
      BY <1>2, <1>3, <1>5
    <3>. QED BY <3>1, <3>2 DEF Newer
  <2>2. CommitEnded(newest)
    BY <1>1, <1>3 DEF SessionEnded
  <2>. QED BY <2>1, <2>2 DEF NewerCommitted
<1>6. ASSUME NEW q \in Pipelines PROVE StaysBroken(q)
  <2>1. build[q] \in Build /\ build[q].attempts \in Nat
        /\ (build[q].publishJob \in {"new", "broken"} => build[q].attempts > 0)
    BY <1>1, LimitsAssumption DEF BrokenInv, AttemptsFit, Build
  <2>2. \/ build'[q] = build[q]
        \/ q \in gone /\ build'[q] = [build[q] EXCEPT !.repo = "purged"]
        \/ build'[q] = Published(q) /\ ReadyToPublish(q)
    BY <1>2, <1>3, <1>4 DEF GroupDone
  <2>3. CASE build'[q] = build[q]
    BY <1>1, <2>1, <2>3 DEF StaysBroken, Broken, NewerCommitted, CommitEnded
  <2>4. CASE q \in gone /\ build'[q] = [build[q] EXCEPT !.repo = "purged"]
    <3>1. /\ build'[q].commitJob = build[q].commitJob /\ build'[q].repo = "purged"
          /\ build'[q].publishJob = build[q].publishJob
          /\ build'[q].attempts = build[q].attempts
      BY <2>1, <2>4 DEF Build
    <3>2. NewerCommitted(q)'
      BY <1>1, <1>5, <2>4
    <3>. QED BY <1>1, <2>1, <3>1, <3>2 DEF StaysBroken, Broken, NewerCommitted, CommitEnded
  <2>5. CASE build'[q] = Published(q) /\ ReadyToPublish(q)
    <3>1. /\ build'[q].commitJob = build[q].commitJob /\ build'[q].repo = build[q].repo
          /\ build'[q].attempts = build[q].attempts + 1 /\ build[q].repo = "ready"
      BY <2>1, <2>5 DEF Published, ReadyToPublish, Build
    <3>. QED BY <1>1, <2>1, <3>1 DEF StaysBroken, Broken
  <2>. QED BY <2>2, <2>3, <2>4, <2>5
<1>. QED BY <1>6

(* What is broken stays so in every step. *)
LEMMA BrokenStep ==
  ASSUME BrokenInv, [Next]_vars
  PROVE  \A q \in Pipelines : StaysBroken(q)
<1>1. /\ \A q \in Pipelines : build[q] \in Build /\ age[q] \in 0 .. 2
      /\ PublicationTypeOK /\ JobsFit /\ AttemptsFit
  BY DEF BrokenInv, SupersedeInv, PublicationTypeOK
<1>2. \A q \in Pipelines : CommitKept(q)
  BY <1>1, CommitJobStep
<1>3. \A q \in Pipelines : NewerCommitted(q) => NewerCommitted(q)'
  BY <1>2, CommittedKept
<1>4. ASSUME NEW p \in Pipelines, CallbackCommits(p), NEW q \in Pipelines PROVE StaysBroken(q)
  <2>1. /\ build'[q].commitJob = build[q].commitJob \/ build[q].commitJob = "none"
        /\ build[q].repo \in {"failed", "purged"} => build'[q].repo = build[q].repo
        /\ build'[q].publishJob = build[q].publishJob
        /\ build'[q].attempts = build[q].attempts /\ age' = age
    BY <1>1, <1>4 DEF CallbackCommits, SetBuild, PublicationTypeOK, Build, JobsFit
  <2>2. build[q].attempts \in Nat
    BY <1>1, LimitsAssumption DEF Build
  <2>. QED BY <1>1, <1>3, <2>1, <2>2
    DEF StaysBroken, Broken, AttemptsFit, NewerCommitted, CommitEnded
<1>5. ASSUME UNCHANGED build, \A p \in Pipelines : age[p] = 2 => age'[p] = 2,
             NEW q \in Pipelines
      PROVE  StaysBroken(q)
  <2>1. build[q].attempts \in Nat
    BY <1>1, LimitsAssumption DEF Build
  <2>. QED BY <1>1, <1>3, <1>5, <2>1
    DEF StaysBroken, Broken, AttemptsFit, NewerCommitted, CommitEnded
<1>6. ASSUME NEW p \in Pipelines, Age(p), NEW q \in Pipelines PROVE StaysBroken(q)
  <2>1. UNCHANGED build /\ \A r \in Pipelines : age[r] = 2 => age'[r] = 2
    BY <1>1, <1>6 DEF Age, PublicationTypeOK
  <2>. QED BY <1>5, <2>1
<1>7. ASSUME UNCHANGED <<build, age>>, NEW q \in Pipelines PROVE StaysBroken(q)
  BY <1>5, <1>7
<1>. QED
  BY <1>2, <1>4, <1>6, <1>7, JobStepBroken, GroupBroken
  DEF Next, vars, CallbackStep, MonitorStep, PublisherStep, Start, CallbackRead,
      CallbackWrite, CallbackGivesUp, MonitorBegin, MonitorCheck, Commit, PublisherBegin, Crash

(* A session that begins, or is over, names no job that is not made yet.   *)
LEMMA NewSessionsBroken ==
  ASSUME BrokenInv, NEW selected \in SUBSET Pipelines, NEW expired
  PROVE  SessionBroken(Opened(selected, expired)) /\ SessionBroken(NoSession)
<1>1. \A p \in Pipelines :
        /\ DOMAIN Unchanged[p] = {} /\ NewRow.publish = 0
        /\ 0 <= build[p].attempts /\ row[p].publish <= build[p].attempts
  BY UnchangedTyped, LimitsAssumption
  DEF BrokenInv, SupersedeInv, AttemptsFit, PublicationTypeOK, Build, NewRow
<1>. QED BY <1>1 DEF SessionBroken, Opened, NoSession, NewRows

(* The publish jobs a session has read and is to write are numbers.        *)
LEMMA PublishTyped ==
  ASSUME NEW s, SessionOK(s), NEW p \in Pipelines
  PROVE  /\ s.seen[p].publish \in Nat
         /\ "publish" \in DOMAIN s.change[p] => s.change[p].publish \in Nat
<1>1. s.seen[p] \in Row /\ Overlaid(NewRow, s.change[p]) \in Row
  BY DEF SessionOK
<1>2. "publish" \in DOMAIN s.change[p] =>
        Overlaid(NewRow, s.change[p]).publish = s.change[p].publish
  BY DEF Overlaid, NewRow
<1>. QED BY <1>1, <1>2, LimitsAssumption DEF Row

(* Replacing one session by such a one keeps the others so.                *)
LEMMA SessionsBrokenKept ==
  ASSUME BrokenInv, PublicationTypeOK', \A q \in Pipelines : StaysBroken(q),
         NEW c \in Crons, NEW s, SessionBroken(s)',
         session' = [session EXCEPT ![c] = s]
  PROVE  \A d \in Crons : SessionBroken(session[d])'
<1>. SUFFICES ASSUME NEW d \in Crons, d # c, NEW p \in Pipelines
     PROVE  /\ session[d].seen[p].publish <= build'[p].attempts
            /\ "publish" \in DOMAIN session[d].change[p] =>
                 session[d].change[p].publish <= build'[p].attempts
            /\ "status" \in DOMAIN session[d].change[p] /\ session[d].change[p].status = "failed"
                 => Broken(p)'
  BY DEF BrokenInv, SupersedeInv, PublicationTypeOK, SessionBroken
<1>1. SessionOK(session[d]) /\ SessionBroken(session[d]) /\ StaysBroken(p)
      /\ build[p] \in Build /\ build'[p] \in Build
  BY DEF BrokenInv, SupersedeInv, PublicationTypeOK
<1>2. build[p].attempts \in Nat /\ build'[p].attempts \in Nat
      /\ session[d].seen[p].publish \in Nat
      /\ ("publish" \in DOMAIN session[d].change[p] => session[d].change[p].publish \in Nat)
  BY <1>1, PublishTyped, LimitsAssumption DEF Build
<1>. QED BY <1>1, <1>2 DEF SessionBroken, StaysBroken

(* What changed of a row is what it is now. *)
LEMMA ChangedTo ==
  ASSUME NEW seen \in Row, NEW now \in Row
  PROVE  /\ "publish" \in DOMAIN Changes(seen, now) =>
              Changes(seen, now).publish = now.publish
         /\ "status" \in DOMAIN Changes(seen, now) =>
              Changes(seen, now).status = now.status /\ now.status # seen.status
BY ChangesTyped DEF Changes

(* The monitor fails a row only if something is broken, and takes the      *)
(* publish job of a row from flat-manager.                                 *)
LEMMA CheckedBroken ==
  ASSUME BrokenInv, NEW p \in Pipelines, NEW seen \in Row, seen.publish <= build[p].attempts,
         NEW r \in WithJobIds(p, seen), NEW now \in {r} \cup Processed(p, r)
  PROVE  /\ now.publish <= build[p].attempts
         /\ now.status = "failed" /\ seen.status # "failed" => Broken(p)
<1>1. /\ PublicationTypeOK /\ build[p] \in Build /\ build[p].attempts \in Nat
      /\ build[p].publishJob = "broken" => build[p].attempts > 0
  BY LimitsAssumption
  DEF BrokenInv, SupersedeInv, PublicationTypeOK, AttemptsFit, Build
<1>2. /\ r \in Row /\ r.status = seen.status /\ r.publish \in Nat
      /\ r.publish <= build[p].attempts
  <2>1. r \in Row
    BY <1>1, CheckedTyped
  <2>2. r.status = seen.status /\ r.publish \in {seen.publish, build[p].attempts}
    BY DEF WithJobIds, Row
  <2>. QED BY <1>1, <2>1, <2>2, LimitsAssumption DEF Row
<1>3. CASE r.status = "succeeded" /\ now = AfterCommitJob(p, r)
  BY <1>2, <1>3 DEF AfterCommitJob, Broken, Row
<1>4. CASE r.status = "committed" /\ r.publish # 0 /\ now = AfterPublishJob(p, r)
  <2>1. PublishJob(p, r.publish) = "broken" => Broken(p)
    <3>1. CASE r.publish = build[p].attempts
      BY <3>1 DEF PublishJob, Broken
    <3>2. CASE r.publish # build[p].attempts
      BY <1>1, <1>2, <1>4, <3>2 DEF Broken
    <3>. QED BY <3>1, <3>2
  <2>2. /\ now.publish = r.publish
        /\ now.status = "failed" => PublishJob(p, r.publish) = "broken"
    BY <1>2, <1>4 DEF AfterPublishJob, Row
  <2>. QED BY <1>2, <2>1, <2>2
<1>5. CASE r.status = "publishing" /\ now = AfterUpdateJob(p, r)
  BY <1>2, <1>5 DEF AfterUpdateJob, Row
<1>6. CASE r.status = "publishing" /\ now \in AfterRecovery(p, r)
  <2>1. \/ \E q \in Peers(p) :
             now = [r EXCEPT !.status = "published", !.update = row[q].update, !.at = Existing]
        \/ age[p] = 2 /\ now = [r EXCEPT !.status = "failed"]
        \/ now = r
    BY <1>6 DEF AfterRecovery
  <2>2. /\ now.publish = r.publish
        /\ now.status = "failed" => age[p] = 2
    BY <1>2, <1>6, <2>1 DEF Row
  <2>. QED BY <1>2, <2>2 DEF Broken
<1>7. CASE now = r
  BY <1>2, <1>7
<1>. QED BY <1>3, <1>4, <1>5, <1>6, <1>7 DEF Processed

(* The publisher fails a row only if its build failed validation, and      *)
(* stores no publish job but the one it started.                           *)
LEMMA HandledBroken ==
  ASSUME PublicationTypeOK, NEW p \in Pipelines, NEW seen \in Row, NEW at,
         NEW answered \in BOOLEAN, seen.publish <= build[p].attempts,
         NEW made \in Handled(p, seen, at, answered)
  PROVE  /\ made[2].publish <= made[1].attempts
         /\ made[2].status = "failed" /\ seen.status # "failed" => Broken(p)
<1>1. build[p] \in Build /\ build[p].attempts \in Nat /\ seen.publish \in Nat
  BY LimitsAssumption DEF PublicationTypeOK, Build, Row
<1>2. CASE made = <<build[p], seen>>
  BY <1>1, <1>2
<1>3. CASE made = <<build[p], AfterBuildState(p, seen, at)>>
  BY <1>1, <1>3 DEF AfterBuildState, Broken, Row
<1>4. ASSUME NEW id \in {0, build[p].attempts + 1},
             made = <<Published(p), [seen EXCEPT !.publish = IF @ = 0 THEN id ELSE @]>>
      PROVE  made[2].publish <= made[1].attempts /\ made[2].status = seen.status
  <2>1. Published(p).attempts = build[p].attempts + 1
    BY <1>1 DEF Published, Build
  <2>2. made[2].publish \in {id, seen.publish} /\ made[2].status = seen.status
    BY <1>4 DEF Row
  <2>. QED BY <1>1, <1>4, <2>1, <2>2
<1>. QED BY <1>2, <1>3, <1>4 DEF Handled

(* Every step keeps what sessions have read and are to write so.           *)
LEMMA SessionsBrokenStep ==
  ASSUME BrokenInv, [Next]_vars
  PROVE  \A d \in Crons : SessionBroken(session[d])'
<1>. DEFINE Kept == \A d \in Crons : SessionBroken(session[d])'
<1>1. /\ PublicationTypeOK /\ \A d \in Crons : SessionBroken(session[d]) /\ SessionOK(session[d])
  BY DEF BrokenInv, SupersedeInv, PublicationTypeOK
<1>2. (\A q \in Pipelines : StaysBroken(q)) /\ PublicationTypeOK'
  BY <1>1, BrokenStep, TypeStep
<1>3. ASSUME UNCHANGED <<build, age>>, NEW s, SessionBroken(s) PROVE SessionBroken(s)'
  BY <1>3 DEF SessionBroken, Broken, Newer
<1>4. ASSUME NEW m \in Monitors, MonitorBegin(m) PROVE Kept
  <2>1. session' = [session EXCEPT ![m] = Opened(Active, Stale)]
        /\ UNCHANGED <<build, age>> /\ m \in Crons
    BY <1>4 DEF MonitorBegin, Crons
  <2>. DEFINE s == Opened(Active, Stale)
  <2>2. SessionBroken(s)
    BY NewSessionsBroken DEF Active
  <2>. HIDE DEF s
  <2>3. PICK t : t = s
    OBVIOUS
  <2>4. SessionBroken(t)'
    BY <1>3, <2>1, <2>2, <2>3
  <2>. QED BY <1>2, <2>1, <2>3, <2>4, SessionsBrokenKept DEF s
<1>5. ASSUME NEW b \in Publishers, PublisherBegin(b) PROVE Kept
  <2>1. session' = [session EXCEPT ![b] = Opened(Committed, {})]
        /\ UNCHANGED <<build, age>> /\ b \in Crons
    BY <1>5 DEF PublisherBegin, Crons
  <2>. DEFINE s == Opened(Committed, {})
  <2>2. SessionBroken(s)
    BY NewSessionsBroken DEF Committed
  <2>. HIDE DEF s
  <2>3. PICK t : t = s
    OBVIOUS
  <2>4. SessionBroken(t)'
    BY <1>3, <2>1, <2>2, <2>3
  <2>. QED BY <1>2, <2>1, <2>3, <2>4, SessionsBrokenKept DEF s
<1>6. ASSUME NEW c \in Crons, Commit(c) PROVE Kept
  <2>1. session' = [session EXCEPT ![c] = NoSession] /\ UNCHANGED <<build, age>>
    BY <1>6 DEF Commit
  <2>2. SessionBroken(NoSession)
    BY NewSessionsBroken
  <2>3. PICK t : t = NoSession
    OBVIOUS
  <2>4. SessionBroken(t)'
    BY <1>3, <2>1, <2>2, <2>3
  <2>. QED BY <1>2, <2>1, <2>3, <2>4, SessionsBrokenKept
<1>7. ASSUME NEW m \in Monitors, NEW p \in Pipelines, NEW answered \in BOOLEAN,
             MonitorCheck(m, p, answered)
      PROVE  Kept
  <2>. DEFINE seen == session[m].seen[p]
  <2>1. /\ m \in Crons /\ seen \in Row /\ SessionOK(session[m]) /\ SessionBroken(session[m])
        /\ seen.publish <= build[p].attempts /\ UNCHANGED <<build, age>>
    BY <1>1, <1>7 DEF Crons, SessionOK, PublicationTypeOK, SessionBroken, MonitorCheck
  <2>2. PICK r, now :
          /\ r \in WithJobIds(p, seen) /\ now \in {r} \cup Processed(p, r)
          /\ session' = [session EXCEPT ![m].change[p] = Changes(seen, now),
                                        ![m].todo = @ \ {p}, ![m].seen[p] = NewRow]
    BY <1>7 DEF MonitorCheck
  <2>3. now \in Row
    BY <1>1, <2>1, <2>2, CheckedTyped
  <2>4. PICK s : s = [session[m] EXCEPT !.change = [@ EXCEPT ![p] = Changes(seen, now)],
                                        !.todo = @ \ {p},
                                        !.seen = [@ EXCEPT ![p] = NewRow]]
    OBVIOUS
  <2>5. session' = [session EXCEPT ![m] = s]
    BY <2>2, <2>4
  <2>6. /\ "publish" \in DOMAIN Changes(seen, now) =>
             Changes(seen, now).publish <= build[p].attempts
        /\ "status" \in DOMAIN Changes(seen, now) /\ Changes(seen, now).status = "failed"
             => Broken(p)
    BY <2>1, <2>2, <2>3, ChangedTo, CheckedBroken
  <2>7. \A q \in Pipelines :
          /\ s.change[q] = IF q = p THEN Changes(seen, now) ELSE session[m].change[q]
          /\ s.seen[q] = IF q = p THEN NewRow ELSE session[m].seen[q]
    BY <2>1, <2>4 DEF SessionOK
  <2>8. NewRow.publish <= build[p].attempts
    BY <1>1, LimitsAssumption DEF NewRow, PublicationTypeOK, Build
  <2>9. SessionBroken(s)
    BY <2>1, <2>6, <2>7, <2>8 DEF SessionBroken
  <2>10. SessionBroken(s)'
    BY <1>3, <2>1, <2>9
  <2>. QED BY <1>2, <2>1, <2>5, <2>10, SessionsBrokenKept
<1>8. ASSUME NEW b \in Publishers, NEW a, NEW answered \in BOOLEAN,
             PublisherGroup(b, a, answered)
      PROVE  Kept
  <2>. DEFINE group == {p \in session[b].todo : AppOf[p] = a}
  <2>1. PICK newest, gone, made :
          /\ newest \in Candidates(group)
          /\ made \in Handled(newest, session[b].seen[newest], session[b].at, answered)
          /\ GroupDone(b, group, newest, gone, made[1], made[2])
    BY <1>8 DEF PublisherGroup
  <2>2. /\ b \in Crons /\ SessionOK(session[b]) /\ group \subseteq Pipelines
        /\ newest \in group /\ SessionBroken(session[b])
    BY <1>1, <2>1 DEF Candidates, PublicationTypeOK, SessionOK, Crons
  <2>. DEFINE seen == session[b].seen[newest]
  <2>3. /\ seen \in Row /\ made[2] \in Row /\ seen.publish <= build[newest].attempts
        /\ build'[newest] = made[1]
    BY <1>1, <2>1, <2>2, OutcomeTyped DEF SessionOK, SessionBroken, GroupDone
  <2>4. /\ "publish" \in DOMAIN Changes(seen, made[2]) =>
             Changes(seen, made[2]).publish <= build'[newest].attempts
        /\ "status" \in DOMAIN Changes(seen, made[2]) /\ Changes(seen, made[2]).status = "failed"
             => Broken(newest)
    BY <1>1, <2>1, <2>2, <2>3, ChangedTo, HandledBroken
  <2>5. PICK s : s = session'[b]
    OBVIOUS
  <2>6. session' = [session EXCEPT ![b] = s]
    BY <1>1, <2>1, <2>2, <2>5 DEF GroupDone, PublicationTypeOK
  <2>7. \A q \in Pipelines :
          /\ s.change[q] = IF q = newest THEN Changes(seen, made[2])
                           ELSE IF q \in group THEN [status |-> "superseded"]
                           ELSE session[b].change[q]
          /\ s.seen[q] = IF q \in group THEN NewRow ELSE session[b].seen[q]
    BY <1>1, <2>1, <2>2, <2>5 DEF GroupDone, PublicationTypeOK, SessionOK
  <2>8. ASSUME NEW q \in Pipelines
        PROVE  /\ s.seen[q].publish <= build'[q].attempts
               /\ "publish" \in DOMAIN s.change[q] => s.change[q].publish <= build'[q].attempts
               /\ "status" \in DOMAIN s.change[q] /\ s.change[q].status = "failed" => Broken(q)'
    <3>1. /\ build[q].attempts \in Nat /\ build'[q].attempts \in Nat
          /\ build[q].attempts <= build'[q].attempts /\ (Broken(q) => Broken(q)')
          /\ session[b].seen[q].publish \in Nat
          /\ ("publish" \in DOMAIN session[b].change[q] => session[b].change[q].publish \in Nat)
          /\ NewRow.publish = 0
      BY <1>1, <1>2, <2>2, PublishTyped, LimitsAssumption
      DEF StaysBroken, PublicationTypeOK, Build, NewRow
    <3>2. /\ session[b].seen[q].publish <= build'[q].attempts
          /\ "publish" \in DOMAIN session[b].change[q] =>
               session[b].change[q].publish <= build'[q].attempts
          /\ "status" \in DOMAIN session[b].change[q] /\ session[b].change[q].status = "failed"
               => Broken(q)'
      BY <2>2, <3>1 DEF SessionBroken
    <3>3. s.seen[q].publish <= build'[q].attempts
      BY <2>7, <3>1, <3>2
    <3>4. CASE q = newest
      <4>1. s.change[q] = Changes(seen, made[2])
        BY <2>7, <3>4
      <4>. QED BY <2>4, <3>1, <3>3, <3>4, <4>1
    <3>5. CASE q # newest /\ q \in group
      <4>1. s.change[q] = [status |-> "superseded"]
        BY <2>7, <3>5
      <4>. QED BY <3>3, <4>1
    <3>6. CASE q # newest /\ q \notin group
      <4>1. s.change[q] = session[b].change[q]
        BY <2>7, <3>6
      <4>. QED BY <3>2, <3>3, <4>1
    <3>. QED BY <3>4, <3>5, <3>6
  <2>9. SessionBroken(s)'
    BY <2>8 DEF SessionBroken
  <2>. HIDE DEF group
  <2>. QED BY <1>2, <2>2, <2>6, <2>9, SessionsBrokenKept
<1>9. ASSUME Crash PROVE Kept
  <2>1. SessionBroken(NoSession) /\ UNCHANGED <<build, age>>
        /\ \A d \in Crons : session'[d] = NoSession
    BY <1>9, NewSessionsBroken DEF Crash
  <2>2. PICK t : t = NoSession
    OBVIOUS
  <2>3. SessionBroken(t)'
    BY <1>3, <2>1, <2>2
  <2>. QED BY <2>1, <2>2, <2>3 DEF SessionBroken
<1>10. ASSUME UNCHANGED session PROVE Kept
  <2>1. ASSUME NEW d \in Crons, NEW p \in Pipelines
        PROVE  /\ session[d].seen[p].publish <= build'[p].attempts
               /\ "publish" \in DOMAIN session[d].change[p] =>
                    session[d].change[p].publish <= build'[p].attempts
               /\ "status" \in DOMAIN session[d].change[p] /\ session[d].change[p].status = "failed"
                    => Broken(p)'
    <3>1. SessionOK(session[d]) /\ SessionBroken(session[d]) /\ StaysBroken(p)
      BY <1>1, <1>2
    <3>2. build[p].attempts \in Nat /\ build'[p].attempts \in Nat
          /\ session[d].seen[p].publish \in Nat
          /\ ("publish" \in DOMAIN session[d].change[p] =>
                session[d].change[p].publish \in Nat)
      BY <1>1, <1>2, <3>1, PublishTyped, LimitsAssumption DEF PublicationTypeOK, Build
    <3>. QED BY <3>1, <3>2 DEF SessionBroken, StaysBroken
  <2>. QED BY <1>10, <2>1 DEF SessionBroken
<1>. QED
  BY <1>4, <1>5, <1>6, <1>7, <1>8, <1>9, <1>10
  DEF Next, vars, CallbackStep, MonitorStep, PublisherStep, JobStep, Crons, Start, Age,
      CallbackRead, CallbackWrite, CallbackCommits, CallbackGivesUp,
      CommitJobEnds, Validated, PublishJobEnds, UpdateJobEnds

(* The publish job a commit leaves in a row: the session's or its own.     *)
LEMMA CommitPublish ==
  ASSUME PublicationTypeOK, NEW c \in Crons, Commit(c), NEW p \in Pipelines
  PROVE  \/ row'[p].publish = row[p].publish
         \/ /\ "publish" \in DOMAIN session[c].change[p]
            /\ row'[p].publish = session[c].change[p].publish
<1>1. row[p] \in Row
  BY DEF PublicationTypeOK
<1>2. row'[p] = IF p \in session[c].expired THEN [row[p] EXCEPT !.status = "expired"]
                ELSE Overlaid(row[p], session[c].change[p])
  BY DEF Commit
<1>3. Overlaid(row[p], session[c].change[p]).publish =
        IF "publish" \in DOMAIN session[c].change[p] THEN session[c].change[p].publish
        ELSE row[p].publish
  BY <1>1 DEF Overlaid, Row
<1>. QED BY <1>1, <1>2, <1>3 DEF Row

(* Every step keeps BrokenInv. *)
LEMMA BrokenInvStep ==
  ASSUME BrokenInv, [Next]_vars
  PROVE  BrokenInv'
<1>1. /\ PublicationTypeOK /\ SupersedeInv /\ AttemptsFit /\ FailedIsBroken
      /\ \A d \in Crons : SessionBroken(session[d])
  BY DEF BrokenInv, SupersedeInv
<1>2. /\ SupersedeInv' /\ PublicationTypeOK' /\ \A q \in Pipelines : StaysBroken(q)
      /\ \A d \in Crons : SessionBroken(session[d])'
  BY <1>1, SupersedeStep, BrokenStep, SessionsBrokenStep DEF SupersedeInv
<1>. DEFINE Fits == \A q \in Pipelines :
              /\ row'[q].publish <= build'[q].attempts
              /\ row'[q].status = "failed" => Broken(q)'
<1>3. \A q \in Pipelines :
        /\ row[q] \in Row /\ row[q].publish \in Nat
        /\ build[q].attempts \in Nat /\ build'[q].attempts \in Nat
        /\ build[q].attempts <= build'[q].attempts /\ (Broken(q) => Broken(q)')
        /\ row[q].publish <= build[q].attempts
        /\ row[q].status = "failed" => Broken(q)
  BY <1>1, <1>2, LimitsAssumption
  DEF PublicationTypeOK, Row, Build, StaysBroken, AttemptsFit, FailedIsBroken
<1>4. ASSUME \A q \in Pipelines : /\ row'[q].publish = row[q].publish
                                  /\ row'[q].status \in {row[q].status, "running", "superseded",
                                                         "succeeded"}
      PROVE  Fits
  BY <1>3, <1>4
<1>5. Fits
  <2>1. ASSUME NEW p \in Pipelines, Start(p) PROVE Fits
    BY <1>3, <1>4, <2>1 DEF Start, Row
  <2>2. ASSUME NEW p \in Pipelines, CallbackWrite(p) PROVE Fits
    <3>1. row' = [row EXCEPT ![p] = [row[p] EXCEPT !.status = "succeeded"]]
      BY <2>2 DEF CallbackWrite, SetRow
    <3>. QED BY <1>1, <1>3, <1>4, <3>1 DEF PublicationTypeOK, Row
  <2>3. ASSUME NEW p \in Pipelines, CallbackCommits(p) PROVE Fits
    BY <1>1, <1>3, <1>4, <2>3 DEF CallbackCommits, SetRow, PublicationTypeOK, Row
  <2>4. ASSUME NEW c \in Crons, Commit(c), NEW q \in Pipelines
        PROVE  /\ row'[q].publish <= build'[q].attempts
               /\ row'[q].status = "failed" => Broken(q)'
    <3>1. UNCHANGED build /\ SessionBroken(session[c])
      BY <1>1, <2>4 DEF Commit
    <3>2. row'[q].publish <= build'[q].attempts
      BY <1>1, <1>3, <2>4, <3>1, CommitPublish DEF SessionBroken
    <3>3. row'[q].status = "failed" => Broken(q)
      BY <1>1, <1>3, <2>4, <3>1, CommitStatus DEF SessionBroken
    <3>. QED BY <1>3, <3>2, <3>3
  <2>5. ASSUME UNCHANGED row PROVE Fits
    BY <1>4, <2>5
  <2>. QED
    BY <2>1, <2>2, <2>3, <2>4, <2>5
    DEF Next, vars, CallbackStep, MonitorStep, PublisherStep, JobStep, Crons, Age,
        CallbackRead, CallbackGivesUp, MonitorBegin, MonitorCheck, PublisherBegin,
        PublisherGroup, CommitJobEnds, Validated, PublishJobEnds, UpdateJobEnds, Crash
<1>6. AttemptsFit' /\ FailedIsBroken'
  BY <1>2, <1>5 DEF AttemptsFit, FailedIsBroken, StaysBroken
<1>. QED BY <1>2, <1>6 DEF BrokenInv

(* A row fails only when something failed, however the cron jobs that read *)
(* it minutes ago overlap: nothing that broke is ever mended, and the only *)
(* trace that is lost is that of a build purged for a newer one.           *)
THEOREM FailuresAreReal == Spec => []FailedIsBroken
<1>1. Init => BrokenInv
  <2>. SUFFICES ASSUME Init PROVE BrokenInv
    OBVIOUS
  <2>1. SupersedeInv
    BY SupersedeInit
  <2>2. AttemptsFit /\ FailedIsBroken
    BY DEF Init, AttemptsFit, FailedIsBroken, NewRows, NewRow, NewBuild
  <2>3. SessionBroken(NoSession)
    BY UnchangedTyped DEF Init, SessionBroken, NoSession, NewRows, NewRow, NewBuild
  <2>. QED BY <2>1, <2>2, <2>3 DEF Init, BrokenInv
<1>2. BrokenInv /\ [Next]_vars => BrokenInv'
  BY BrokenInvStep
<1>3. BrokenInv => FailedIsBroken
  BY DEF BrokenInv
<1>. QED BY <1>1, <1>2, <1>3, PTL DEF Spec

=============================================================================
