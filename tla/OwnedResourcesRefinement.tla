---------------------- MODULE OwnedResourcesRefinement ----------------------
(***************************************************************************)
(* DeviceConfigReconciler implements OwnedResources: what is promised is   *)
(* read off the API server, whatever caches and worker believe.            *)
(***************************************************************************)
EXTENDS FinalizerInvariant

OwnerOf(o) == IF o = None THEN None ELSE o.owner

CurrentUid == IF dc = None THEN None ELSE dc.uid
Asked      == dc # None /\ dc.deleting
OwnerMap   == [k \in Children |-> OwnerOf(obj[k])]

Promise == INSTANCE OwnedResources WITH
  Kinds     <- Children,
  Nobody    <- None,
  Outsiders <- AlienOwners,
  latest    <- uid,
  current   <- CurrentUid,
  held      <- HasFinalizer(dc),
  asked     <- Asked,
  owner     <- OwnerMap

(***************************************************************************)
(* However old the cache is, and wherever runs fail or the operator        *)
(* crashes, its requests (setFinalizer, the handlers,                      *)
(* finalizeDeviceConfig) do to the server only what OwnedResources allows. *)
(***************************************************************************)
KeepsThePromise == Promise!OwnedSpec
=============================================================================
