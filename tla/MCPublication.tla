-------------------------- MODULE MCPublication ----------------------------
(* Instances of Publication for TLC. *)
EXTENDS Publication

CONSTANTS app

(* Two builds of one application, one after the other. *)
OneApp == [p \in Pipelines |-> app]

-----------------------------------------------------------------------------
(* Where the liveness checks start, in states that Spec reaches.           *)

Expired == [NewRow EXCEPT !.status = "expired"]
FirstRow == [NewRow EXCEPT !.status = "committed", !.commit = TRUE]
Unpublished == [NewBuild EXCEPT !.repo = "ready", !.commitJob = "ended",
                                !.attempts = 1, !.publishJob = "broken"]

(* A row from its insertion on; the one before it has expired.             *)
Alone ==
  /\ row = <<Expired, NewRow>>
  /\ age = <<2, 0>>
  /\ deliveries = <<MaxDeliveries, 0>>
  /\ session = [c \in Crons |-> NoSession]
  /\ build = <<NewBuild, NewBuild>>

(* Both builds are committed and ready, and each had a publish job that    *)
(* broke.  The first row is older than 24 hours; a second success callback *)
(* may have set the second one back.                                       *)
Pair(second, monitoring) ==
  /\ row = <<FirstRow, [FirstRow EXCEPT !.status = second]>>
  /\ age = <<1, 0>>
  /\ deliveries = [p \in Pipelines |-> MaxDeliveries]
  /\ session = [c \in Crons |->
       IF c \in Monitors THEN monitoring ELSE NoSession]
  /\ build = <<Unpublished, Unpublished>>

(* A monitor that read the first row before another monitor, which is done,*)
(* wrote committed, and has still to write committed itself.               *)
Overlapping ==
  [NoSession EXCEPT !.open = TRUE, !.at = Pipelines,
                    !.change[1] = [status |-> "committed"]]

LiveInit ==
  /\ \/ Alone
     \/ Pair("succeeded", NoSession)
     \/ Pair("committed", Overlapping)
  /\ call = [p \in Pipelines |-> "idle"]
  /\ faults = 0

LiveSpec == LiveInit /\ [][Next]_vars /\ Fairness
=============================================================================
