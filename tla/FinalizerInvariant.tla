------------------------- MODULE FinalizerInvariant -------------------------
(***************************************************************************)
(* Why FinalizerProtects holds: an inductive invariant about the states of *)
(* the DeviceConfig between the worker's copy, the cache and the server.   *)
(***************************************************************************)
EXTENDS DeviceConfigReconciler

(***************************************************************************)
(* The states on their way, oldest first: Seen(0) is the cached copy and   *)
(* the last one is the server's.                                           *)
(***************************************************************************)
Lag      == Len(dcWatch)
Ages     == 0..Lag
Seen(i)  == IF i = 0 THEN dcCache ELSE dcWatch[i]

HasFinalizer(d) == d # None /\ Operator \in d.fins

(* The server holds the very DeviceConfig d, still with the finalizer. *)
Protected(d) == Live(d.uid) /\ Operator \in dc.fins

CacheReaches == Seen(Lag) = dc

UidsCount == \A i \in Ages : Seen(i) # None => Seen(i).uid \in 1..uid

(***************************************************************************)
(* Between two states of one DeviceConfig there are only states of it, and *)
(* a deletion once asked for is not taken back.                            *)
(***************************************************************************)
Follows(i, m) ==
  /\ Seen(m) # None /\ Seen(m).uid = Seen(i).uid
  /\ Seen(i).deleting => Seen(m).deleting

Unbroken ==
  \A i, j \in Ages :
    i <= j /\ Seen(i) # None /\ Seen(j) # None /\ Seen(i).uid = Seen(j).uid
      => \A m \in i..j : Follows(i, m)

(***************************************************************************)
(* The finalizer on the server is the finalizer everywhere: no state on    *)
(* its way has it for an earlier DeviceConfig.                             *)
(***************************************************************************)
OneProtected ==
  dc # None /\ Operator \in dc.fins =>
    \A i \in Ages : HasFinalizer(Seen(i)) => Seen(i).uid = dc.uid

(***************************************************************************)
(* The finalizer goes only when the cache knows of the deletion.           *)
(***************************************************************************)
DeletionSeen(u) == dcCache # None /\ dcCache.uid = u /\ dcCache.deleting

ReleasedWhenSeen ==
  \A i \in Ages :
    HasFinalizer(Seen(i)) => Protected(Seen(i)) \/ DeletionSeen(Seen(i).uid)

FinalizingTheDeleted ==
  pc = "finalize" /\ HasFinalizer(wdc) /\ HasFinalizer(dc) => DeletionSeen(dc.uid)

ProtectedFromTheStart ==
  pc = "setFinalizer" =>
    /\ HasFinalizer(wdc) => Protected(wdc)
    /\ \A i \in Ages : HasFinalizer(Seen(i)) => Protected(Seen(i))

(***************************************************************************)
(* The inductive invariant: from states of which it holds no step, of the  *)
(* worker, the caches, users or a crash, leads to one of which it does     *)
(* not.  (The finalizer handling of setFinalizer and finalizeDeviceConfig.)*)
(***************************************************************************)
FinalizerInv ==
  /\ CacheReaches
  /\ UidsCount
  /\ Unbroken
  /\ OneProtected
  /\ ReleasedWhenSeen
  /\ FinalizingTheDeleted
  /\ ProtectedFromTheStart
  /\ FinalizerProtects
=============================================================================
