---------------------------- MODULE MCLifecycle -----------------------------
(***************************************************************************)
(* Small instances of OperatorLifecycle for TLC: the file of               *)
(* config/manager/controller_manager_config.yaml, and what may become of   *)
(* it when it is edited.                                                   *)
(***************************************************************************)
EXTENDS OperatorLifecycle

CONSTANTS p1, p2, p3, gpue, other

MCPods == {p1, p2, p3}
MCIds  == {gpue, other}

AsShipped  == [healthProbeBindAddress |-> TRUE, enabled |-> TRUE, resourceID |-> gpue]
Renamed    == [AsShipped EXCEPT !.resourceID = other]
Unprobed   == [enabled |-> TRUE, resourceID |-> gpue]
Nameless   == [healthProbeBindAddress |-> TRUE, enabled |-> TRUE]
Unelected  == [healthProbeBindAddress |-> TRUE]
Misspelled == [healthProbeBindAddress |-> TRUE, leaderElect |-> TRUE, resourceID |-> gpue]

MCFiles == {AsShipped, Renamed, Unprobed, Nameless, Unelected, Misspelled, Unreadable}
=============================================================================
