---------------------------- MODULE MCReconciler ----------------------------
(***************************************************************************)
(* Small instances of DeviceConfigReconciler for TLC.                      *)
(***************************************************************************)
EXTENDS OwnedResourcesRefinement

CONSTANTS l1, l2, i1, i2, f1

MCImages  == {i1, i2}
MCLabels  == {l1, l2}
MCForeign == {f1}

(* Two DeviceConfigs that differ in every field the operator reads: the    *)
(* first leaves out what is optional.  The third asks for the in-tree      *)
(* drivers.                                                                *)
MCSpec1 ==
  [useInTreeDrivers |-> FALSE, driversImage |-> i1, devicePluginImage |-> i1,
   customSchedulerImage |-> i1, schedulerExtensionImage |-> i1,
   imageRepoSecret |-> Absent, selector |-> Absent]

MCSpec2 ==
  [useInTreeDrivers |-> FALSE, driversImage |-> i2, devicePluginImage |-> i2,
   customSchedulerImage |-> i2, schedulerExtensionImage |-> i2,
   imageRepoSecret |-> "secret", selector |-> {l2}]

MCInTreeSpec == [MCSpec1 EXCEPT !.useInTreeDrivers = TRUE]

(* DeviceConfigs that differ in their selectors alone. *)
MCSelecting(labels) == [MCSpec1 EXCEPT !.selector = labels]
MCSelectors         == {MCSelecting({l1}), MCSelecting({l2}), MCSelecting({l1, l2})}

MCOneSpec  == {MCSpec1}
MCTwoSpecs == {MCSpec1, MCSpec2}
MCInTree   == {MCInTreeSpec}
MCSecrets  == {"secret"}

MCSchedulers == {"scheduler", "extension"}
MCAnyOwner   == {NoOwner, Stranger} \cup Uids
MCNoOwner    == {NoOwner}

(* What may come together in one behaviour: a controller of somebody else  *)
(* instead of an edit and a fault, and then only one of the specs.         *)
Interference ==
  /\ edits + faults + 2 * aliens <= 2
  /\ aliens # 0 /\ dc # None => dc.spec = MCSpec1

(* One of all of these, and an edit that leaves out what is optional.  It *)
(* limits nothing that fairness is about.                                  *)
OneDisturbance ==
  /\ edits + faults + aliens <= 1
  /\ edits = 0 /\ dc # None => dc.spec = MCSpec2

RecoveringSpec == Init /\ [][Next /\ OneDisturbance']_vars /\ Fairness
=============================================================================
