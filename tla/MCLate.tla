------------------------------- MODULE MCLate -------------------------------
(***************************************************************************)
(* Small instances of LateRequests for TLC.                                *)
(***************************************************************************)
EXTENDS LateRequests, Functions

CONSTANTS l1, l2, i1, i2

MCImages == {i1, i2}
MCLabels == {l1, l2}

(* Two DeviceConfigs that differ in every field the operator reads. *)
MCSpec1 ==
  [useInTreeDrivers |-> FALSE, driversImage |-> i1, devicePluginImage |-> i1,
   customSchedulerImage |-> i1, schedulerExtensionImage |-> i1,
   imageRepoSecret |-> Absent, selector |-> Absent]

MCSpec2 ==
  [useInTreeDrivers |-> FALSE, driversImage |-> i2, devicePluginImage |-> i2,
   customSchedulerImage |-> i2, schedulerExtensionImage |-> i2,
   imageRepoSecret |-> "secret", selector |-> {l2}]

MCOneSpec  == {MCSpec1}
MCTwoSpecs == {MCSpec1, MCSpec2}
MCSecrets  == {"secret"}

(* A DeviceConfig that has got all it asked for: a state the runs of the  *)
(* extended module reach, to start from where the way there is of no      *)
(* interest.                                                               *)
Settled ==
  /\ dc = [uid |-> 1, spec |-> MCSpec1, fins |-> {Operator}, deleting |-> FALSE]
  /\ dcCache = dc /\ dcWatch = <<>>
  /\ obj = [k \in Children |-> [spec |-> Desired(k, MCSpec1), owner |-> 1, kmm |-> FALSE,
                                deleting |-> FALSE]]
  /\ objCache = obj /\ objWatch = [k \in Children |-> <<>>]
  /\ uid = 1 /\ edits = 0 /\ aliens = 0
  /\ queued = FALSE /\ pc = "idle" /\ wdc = None /\ faults = 0
  /\ late = {}

SettledSpec == Settled /\ [][LateNext]_lateVars

(* Then it is edited twice, or deleted and made anew.  At most MaxLag      *)
(* events, of all watches together, are on their way.                      *)
MaxLag   == 5
LagBound == FoldFunction(LAMBDA w, n : Len(w) + n, Len(dcWatch), objWatch) <= MaxLag

EditedOrRemade == 2 * uid + edits <= 4 /\ LagBound
=============================================================================
