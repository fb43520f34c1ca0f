----------------------- MODULE DeviceConfigReconciler -----------------------
(***************************************************************************)
(* The operator's one controller                                           *)
(* (internal/controllers/device_config_reconciler.go), from the events     *)
(* that put the DeviceConfig on its work queue to the requests its single  *)
(* worker sends, one step per request to the server, against the cluster   *)
(* of module KubeCluster.                                                  *)
(***************************************************************************)
EXTENDS KubeCluster

CONSTANTS
  EmptyImageAdmitted,  \* may a container have no image (plain servers: no)
  MaxFaults            \* how many requests fail, or operators crash

ASSUME WorkerAssumption == EmptyImageAdmitted \in BOOLEAN /\ MaxFaults \in Nat

VARIABLES
  queued,  \* the DeviceConfig is on the work queue
  pc,      \* the worker's next request: an object's kind, or one of these:
           \* "idle", "setFinalizer", "finalize"
  wdc,     \* the worker's own copy of the DeviceConfig
  faults   \* requests failed and crashes so far

workerVars == <<queued, pc, wdc, faults>>
vars       == <<clusterVars, workerVars>>

WorkerTypeOK ==
  /\ queued \in BOOLEAN
  /\ pc \in Children \cup {"idle", "setFinalizer", "finalize"}
  /\ wdc \in DeviceConfig \cup {None}
  /\ pc # "idle" => wdc # None
  /\ faults \in Nat

(***************************************************************************)
(* Every variable has its type, and a running worker has a DeviceConfig.   *)
(***************************************************************************)
TypeOK == ClusterTypeOK /\ WorkerTypeOK

Init ==
  /\ ClusterInit
  /\ queued = FALSE /\ pc = "idle" /\ wdc = None /\ faults = 0

(***************************************************************************)
(* Definitions named X_why are variants of X with a plausible bug.  They   *)
(* are not part of the specification: each shows that some property below  *)
(* would notice the bug.                                                   *)
(***************************************************************************)

-----------------------------------------------------------------------------
(***************************************************************************)
(* Events.  SetupWithManager watches the DeviceConfig itself, and Modules, *)
(* DaemonSets and Deployments on behalf of a DeviceConfig that is their    *)
(* controller, before or after the change, whatever its uid.  Once in ten  *)
(* hours the cache replays what it holds.                                  *)
(***************************************************************************)
(* A predicate that lets only changes of the generation through. *)
DeliverDC_GenerationOnly ==
  /\ dcWatch # <<>>
  /\ dcCache' = Head(dcWatch) /\ dcWatch' = Tail(dcWatch)
  /\ queued' = (queued \/ dcCache = None \/ dcCache' = None
                 \/ dcCache'.spec # dcCache.spec \/ dcCache'.deleting # dcCache.deleting)
  /\ UNCHANGED <<dc, objVars, uid, edits, aliens, pc, wdc, faults>>

DeliverDC ==
  /\ dcWatch # <<>>
  /\ dcCache' = Head(dcWatch) /\ dcWatch' = Tail(dcWatch)
  /\ queued' = TRUE
  /\ UNCHANGED <<dc, objVars, uid, edits, aliens, pc, wdc, faults>>

Owned(o) == o # None /\ o.owner \in Uids

DeliverChild_OldObjectIgnored(k) ==
  /\ objWatch[k] # <<>>
  /\ objCache' = [objCache EXCEPT ![k] = Head(objWatch[k])]
  /\ objWatch' = [objWatch EXCEPT ![k] = Tail(@)]
  /\ queued' = (queued \/ Owned(Head(objWatch[k])))
  /\ UNCHANGED <<obj, dcVars, uid, edits, aliens, pc, wdc, faults>>

DeliverChild(k) ==
  /\ objWatch[k] # <<>>
  /\ objCache' = [objCache EXCEPT ![k] = Head(objWatch[k])]
  /\ objWatch' = [objWatch EXCEPT ![k] = Tail(@)]
  /\ queued' = (queued \/ Owned(objCache[k]) \/ Owned(Head(objWatch[k])))
  /\ UNCHANGED <<obj, dcVars, uid, edits, aliens, pc, wdc, faults>>

Resync ==
  /\ dcCache # None /\ ~queued
  /\ queued' = TRUE
  /\ UNCHANGED <<clusterVars, pc, wdc, faults>>

-----------------------------------------------------------------------------
(***************************************************************************)
(* Moves of the worker.  A reconciliation that returns an error is put     *)
(* back on the queue, one that returns nil is not.                         *)
(***************************************************************************)
Goto(step) == pc' = step /\ UNCHANGED <<queued, wdc>>
Done       == pc' = "idle" /\ wdc' = None /\ UNCHANGED queued
Fail       == pc' = "idle" /\ wdc' = None /\ queued' = TRUE

(***************************************************************************)
(* The queue hands the DeviceConfig out; reconcile.AsReconciler reads it   *)
(* from the cache and stops if it is not there.                            *)
(***************************************************************************)
Reconcile_NotFoundReconciled ==
  /\ pc = "idle" /\ queued
  /\ queued' = FALSE
  /\ wdc' = dcCache
  /\ pc' = "setFinalizer"
  /\ UNCHANGED <<clusterVars, faults>>

Reconcile_DeletionIgnored ==
  /\ pc = "idle" /\ queued
  /\ queued' = FALSE
  /\ wdc' = dcCache
  /\ pc' = IF dcCache = None THEN "idle" ELSE "setFinalizer"
  /\ UNCHANGED <<clusterVars, faults>>

Reconcile ==
  /\ pc = "idle" /\ queued
  /\ queued' = FALSE
  /\ wdc' = dcCache
  /\ pc' = CASE dcCache = None     -> "idle"
             [] dcCache # None /\ dcCache.deleting  -> "finalize"
             [] dcCache # None /\ ~dcCache.deleting -> "setFinalizer"
  /\ UNCHANGED <<clusterVars, faults>>

(***************************************************************************)
(* setFinalizer: nothing to do if the copy has the finalizer.  Otherwise a *)
(* patch replaces the whole list of finalizers by the copy's list and the  *)
(* operator's, and the server's answer is decoded into the copy, which is  *)
(* then of the server's DeviceConfig, but for the optional fields that     *)
(* only the older copy had.                                                *)
(***************************************************************************)
PatchFinalizers(fs) ==
  IF dc # None /\ FinalizersAccepted(dc, fs)
    THEN WriteDC(WithFinalizers(dc, fs))
    ELSE UNCHANGED dcVars

FinalizerPatchFails(fs) == dc = None \/ ~FinalizersAccepted(dc, fs)

SetFinalizer_ErrorDropped ==
  /\ pc = "setFinalizer"
  /\ LET fs == wdc.fins \cup {Operator} IN
       IF Operator \in wdc.fins THEN UNCHANGED dcVars ELSE PatchFinalizers(fs)
  /\ Goto("module")
  /\ UNCHANGED <<objVars, uid, edits, aliens, faults>>

SetFinalizer_ListReplaced ==
  /\ pc = "setFinalizer"
  /\ IF Operator \in wdc.fins
       THEN Goto("module") /\ UNCHANGED dcVars
       ELSE /\ PatchFinalizers({Operator})
            /\ IF FinalizerPatchFails({Operator}) THEN Fail ELSE Goto("module")
  /\ UNCHANGED <<objVars, uid, edits, aliens, faults>>

SetFinalizer ==
  /\ pc = "setFinalizer"
  /\ IF Operator \in wdc.fins
       THEN Goto("module") /\ UNCHANGED dcVars
       ELSE LET fs == wdc.fins \cup {Operator} IN
            /\ PatchFinalizers(fs)
            /\ IF FinalizerPatchFails(fs)
                 THEN Fail
                 ELSE /\ pc' = "module" /\ wdc' = Decoded(wdc, WithFinalizers(dc, fs))
                      /\ UNCHANGED queued
  /\ UNCHANGED <<objVars, uid, edits, aliens, faults>>

-----------------------------------------------------------------------------
(***************************************************************************)
(* controllerutil.CreateOrPatch as the handlers use it: the cache decides  *)
(* between a create and a patch from the cached copy, whose contents and   *)
(* controller reference are set from the worker's copy of the              *)
(* DeviceConfig.  SetControllerReference refuses an object of another      *)
(* controller, but takes one of an earlier DeviceConfig of the same name.  *)
(* The handlers set whole specs, without the server's defaults, so there   *)
(* is always a difference and a patch is always sent.                      *)
(***************************************************************************)
Admitted(k) ==
  k = "module" \/ Desired(k, wdc.spec).image # "" \/ EmptyImageAdmitted

NewObject_NoOwner(k) ==
  [spec |-> Desired(k, wdc.spec), owner |-> NoOwner, kmm |-> FALSE, deleting |-> FALSE]

NewObject(k) ==
  [spec |-> Desired(k, wdc.spec), owner |-> wdc.uid, kmm |-> FALSE, deleting |-> FALSE]

PatchedObject_OwnerKept(k) ==
  [obj[k] EXCEPT !.spec = MergePatch(objCache[k].spec, Desired(k, wdc.spec), @)]

PatchedObject(k) ==
  [obj[k] EXCEPT
     !.spec  = MergePatch(objCache[k].spec, Desired(k, wdc.spec), @),
     !.owner = MergeField(objCache[k].owner, wdc.uid, @)]

CreateFails(k) == obj[k] # None \/ ~Admitted(k)

PatchFails_NoAdoption(k) ==
  objCache[k].owner # wdc.uid \/ obj[k] = None \/ ~Admitted(k)

PatchFails_AnyController(k) == obj[k] = None \/ ~Admitted(k)

PatchFails(k) == objCache[k].owner = Stranger \/ obj[k] = None \/ ~Admitted(k)

Create(k, Continue) ==
  /\ objCache[k] = None
  /\ IF CreateFails(k) THEN Fail /\ UNCHANGED objVars
                       ELSE Continue /\ WriteObj(k, NewObject(k))

Patch(k, Continue) ==
  /\ objCache[k] # None
  /\ IF PatchFails(k) THEN Fail /\ UNCHANGED objVars
                      ELSE Continue /\ WriteObj(k, PatchedObject(k))

CreateOrPatch(k, Continue) ==
  /\ pc = k
  /\ Create(k, Continue) \/ Patch(k, Continue)
  /\ UNCHANGED <<dcVars, uid, edits, aliens, faults>>

HandleKMMModule_MetricsNext == CreateOrPatch("module", Goto("metrics"))

(* Reconcile calls the handlers in this order; an error ends the run. *)
HandleKMMModule                == CreateOrPatch("module", Goto("scheduler"))
HandleCustomScheduler          == CreateOrPatch("scheduler", Goto("extension"))
HandleCustomSchedulerExtension == CreateOrPatch("extension", Goto("metrics"))
HandleNodeMetrics              == CreateOrPatch("metrics", Done)

-----------------------------------------------------------------------------
(***************************************************************************)
(* finalizeDeviceConfig: delete the metrics DaemonSet if the cache has it, *)
(* else the Module if the cache has it, else take the finalizer off.  Each *)
(* returns without a requeue: the deletion's own event is to bring the     *)
(* DeviceConfig back.                                                      *)
(***************************************************************************)
DeleteChild(k) ==
  /\ IF obj[k] = None THEN Fail /\ UNCHANGED objVars
                      ELSE Done /\ WriteObj(k, Deleted(obj[k]))
  /\ UNCHANGED <<dcVars, uid, edits, aliens, faults>>

FinalizeMetrics_OnlyOwned ==
  /\ pc = "finalize" /\ objCache["metrics"] # None
  /\ IF Owned(objCache["metrics"])
       THEN DeleteChild("metrics")
       ELSE Done /\ UNCHANGED <<objVars, dcVars, uid, edits, aliens, faults>>

FinalizeMetrics ==
  /\ pc = "finalize" /\ objCache["metrics"] # None
  /\ DeleteChild("metrics")

FinalizeModule_MetricsIgnored ==
  /\ pc = "finalize" /\ objCache["module"] # None
  /\ DeleteChild("module")

FinalizeModule ==
  /\ pc = "finalize" /\ objCache["metrics"] = None /\ objCache["module"] # None
  /\ DeleteChild("module")

RemoveFinalizer_NoReturn ==
  /\ pc = "finalize" /\ objCache["metrics"] = None /\ objCache["module"] = None
  /\ LET fs == wdc.fins \ {Operator}
     IN  /\ PatchFinalizers(fs)
         /\ IF FinalizerPatchFails(fs) THEN Fail ELSE Goto("setFinalizer")
  /\ UNCHANGED <<objVars, uid, edits, aliens, faults>>

(* The patch is empty, so changes nothing, if the copy has no finalizer. *)
RemoveFinalizer ==
  /\ pc = "finalize" /\ objCache["metrics"] = None /\ objCache["module"] = None
  /\ LET fs == IF Operator \in wdc.fins \/ dc = None THEN wdc.fins \ {Operator}
                                                     ELSE dc.fins
     IN  /\ PatchFinalizers(fs)
         /\ IF FinalizerPatchFails(fs) THEN Fail ELSE Done
  /\ UNCHANGED <<objVars, uid, edits, aliens, faults>>

-----------------------------------------------------------------------------
(***************************************************************************)
(* A request that fails for a reason outside this model, before it changes *)
(* anything.  A crash, or the loss of leadership: the next operator reads  *)
(* everything afresh and is told of every object there is.                 *)
(***************************************************************************)
Fault ==
  /\ pc # "idle" /\ faults < MaxFaults
  /\ faults' = faults + 1
  /\ Fail
  /\ UNCHANGED clusterVars

Restart ==
  /\ faults < MaxFaults
  /\ faults' = faults + 1
  /\ pc' = "idle" /\ wdc' = None
  /\ dcCache' = dc /\ dcWatch' = <<>>
  /\ objCache' = obj /\ objWatch' = [k \in Children |-> <<>>]
  /\ queued' = (dc # None \/ \E k \in Children : Owned(obj[k]))
  /\ UNCHANGED <<dc, obj, uid, edits, aliens>>

Deliver == DeliverDC \/ \E k \in Children : DeliverChild(k)

Handle == \/ HandleKMMModule
          \/ HandleCustomScheduler
          \/ HandleCustomSchedulerExtension
          \/ HandleNodeMetrics

Finalize == FinalizeMetrics \/ FinalizeModule \/ RemoveFinalizer

Worker == Reconcile \/ SetFinalizer \/ Handle \/ Finalize

Next ==
  \/ Environment /\ UNCHANGED workerVars
  \/ Deliver
  \/ Resync
  \/ Worker
  \/ Fault
  \/ Restart

Spec == Init /\ [][Next]_vars

(***************************************************************************)
(* Fairness: watches deliver, the worker goes on, the garbage collector    *)
(* and KMM do their work and other controllers take their finalizers off.  *)
(* Nothing makes a user, a fault, a crash or the ten-hour resync happen.   *)
(***************************************************************************)
Fairness ==
  /\ WF_vars(DeliverDC)
  /\ \A k \in Children : WF_vars(DeliverChild(k))
  /\ WF_vars(Worker)
  /\ \A k \in Children : WF_vars(GarbageCollect(k) /\ UNCHANGED workerVars)
  /\ WF_vars(KMMRelease /\ UNCHANGED workerVars)
  /\ \A f \in Foreign : WF_vars(ForeignFinalizerRemove(f) /\ UNCHANGED workerVars)

FairSpec == Spec /\ Fairness

-----------------------------------------------------------------------------
(***************************************************************************)
(* Safety.  While the worker creates and patches objects for a             *)
(* DeviceConfig, that very DeviceConfig is on the server with the          *)
(* operator's finalizer, however old the worker's copy is: its deletion    *)
(* cannot complete behind the worker's back, and no object is made for one *)
(* that is gone.  (Reconcile goes on to the handlers only after            *)
(* setFinalizer; finalizeDeviceConfig takes the finalizer off.)            *)
(***************************************************************************)
FinalizerProtects ==
  pc \in Children => Live(wdc.uid) /\ Operator \in dc.fins

(***************************************************************************)
(* No lost wakeup: when the queue is empty, the worker idle and no event   *)
(* under way, there is nothing left for the operator to do.  A             *)
(* DeviceConfig that stays has its four objects as it asks for them; one   *)
(* that is being deleted waits for KMM to unload, or no longer for the     *)
(* operator.  (finalizeDeviceConfig and the handlers return nil and rely   *)
(* on the watches of SetupWithManager to be called again.)                 *)
(***************************************************************************)
Quiet ==
  /\ pc = "idle" /\ ~queued
  /\ dcWatch = <<>> /\ \A k \in Children : objWatch[k] = <<>>

Conforms(k) ==
  /\ obj[k] # None
  /\ obj[k].spec = Desired(k, dc.spec) /\ obj[k].owner = dc.uid

WaitsForKMM ==
  obj["metrics"] = None /\ obj["module"] # None /\ obj["module"].deleting

QuietMeansDone ==
  Quiet /\ dc # None =>
    IF dc.deleting THEN Operator \notin dc.fins \/ WaitsForKMM
                   ELSE Operator \in dc.fins /\ \A k \in Children : Conforms(k)

(***************************************************************************)
(* Teardown goes metrics, Module, finalizer: the worker deletes the Module *)
(* only when the DaemonSet is gone, and takes the finalizer off only when  *)
(* both are, or when the server has news of them the cache has not seen.   *)
(***************************************************************************)
GoneOrUnseen(k) == obj[k] = None \/ objWatch[k] # <<>>

ReleasesFinalizer ==
  dc # None /\ Operator \in dc.fins /\ (dc' = None \/ Operator \notin dc'.fins)

TeardownOrder ==
  [][/\ pc = "finalize" /\ pc' = "idle" /\ obj'["module"] # obj["module"]
          => GoneOrUnseen("metrics")
     /\ ReleasesFinalizer => GoneOrUnseen("metrics") /\ GoneOrUnseen("module")]_vars

(***************************************************************************)
(* The worker gives an object only to the DeviceConfig that is live: it    *)
(* never hands one back to an earlier DeviceConfig of the same name, whose *)
(* objects the garbage collector takes.                                    *)
(***************************************************************************)
OwnerIsLive ==
  [][pc # pc' => \A k \in Children :
       obj'[k] # None /\ (obj[k] = None \/ obj'[k].owner # obj[k].owner)
         => Live(obj'[k].owner)]_vars

(***************************************************************************)
(* Owner references and finalizers are lists, which a merge patch replaces *)
(* as a whole.  The worker takes an object from another controller only if *)
(* the cache has not seen yet that it has one (CreateOrPatch and           *)
(* SetControllerReference in the handlers) ...                             *)
(***************************************************************************)
StrangersLeftAlone ==
  [][pc # pc' => \A k \in Children :
       /\ obj[k] # None /\ obj[k].owner = Stranger
       /\ obj'[k] # None /\ obj'[k].owner # Stranger
       => objWatch[k] # <<>>]_vars

(***************************************************************************)
(* ... and it loses another controller's finalizer only if its copy of the *)
(* DeviceConfig is from before that finalizer was added (setFinalizer and  *)
(* finalizeDeviceConfig).                                                  *)
(***************************************************************************)
ForeignFinalizersKept ==
  [][pc # pc' /\ dc # None =>
       \A f \in dc.fins \ {Operator} :
         dc' = None \/ f \notin dc'.fins => f \notin wdc.fins]_vars

-----------------------------------------------------------------------------
(***************************************************************************)
(* Liveness, under FairSpec.  Once users leave a DeviceConfig alone, its   *)
(* objects of kinds ks come to be as it asks for them and stay so.         *)
(***************************************************************************)
Realised(k) == dc # None /\ Conforms(k) /\ ~obj[k].deleting

StaysWanted == <>[](dc # None /\ ~dc.deleting)

ModuleAndSchedulersRealised ==
  StaysWanted => <>[](\A k \in Children \ {"metrics"} : Realised(k))

AllRealised == StaysWanted => <>[](\A k \in Children : Realised(k))

(***************************************************************************)
(* A deletion that was asked for completes, without waiting for a resync.  *)
(***************************************************************************)
DeletionCompletes ==
  \A u \in Uids : (Live(u) /\ dc.deleting) ~> ~Live(u)

(***************************************************************************)
(* An object of the operator's name that nobody controls is deleted by     *)
(* name, but its events wake nobody: the deletion then takes a resync.     *)
(***************************************************************************)
ResyncCompletesDeletion == WF_vars(Resync) => DeletionCompletes

(***************************************************************************)
(* When the DeviceConfig is gone for good, so are its objects in the end,  *)
(* those included that the finalizer did not wait for.                     *)
(***************************************************************************)
NothingLeftBehind ==
  <>[](dc = None) => <>[](\A k \in Children : obj[k] = None)

-----------------------------------------------------------------------------
(***************************************************************************)
(* What the repository says and the code does not do.  The log line of     *)
(* finalizeDeviceConfig, "module already deleted, removing finalizer", is  *)
(* about the cache: the Module may be there.                               *)
(***************************************************************************)
ModuleGoneBeforeFinalizer ==
  [][ReleasesFinalizer => obj["module"] = None]_vars

(***************************************************************************)
(* useInTreeDrivers: "if the in-tree driver should be used instead of OOT  *)
(* drivers".  Nothing reads it: the Module removes the in-tree driver.     *)
(***************************************************************************)
InTreeDriverKept ==
  LET mod == obj["module"] IN
  dc # None /\ dc.spec.useInTreeDrivers /\ mod # None /\ mod.owner = dc.uid =>
    mod.spec.kernelMappings.inTreeModulesToRemove = {}

(***************************************************************************)
(* The selector "describes on which nodes the GPU Operator should enable   *)
(* the GPU device".  A merge patch of a map takes out the labels that the  *)
(* cached Module has and the DeviceConfig has not, whatever else the       *)
(* Module has by then: edits in quick succession can leave no label, and   *)
(* the kernel module goes to nodes that no DeviceConfig ever selected.     *)
(***************************************************************************)
Targets(selector) == {node \in SUBSET Labels : selector \subseteq node}

OnlySelectedNodes ==
  obj["module"] # None =>
    \A node \in Targets(obj["module"].spec.selector) :
      \E s \in Specs : node \in Targets(GetNodeSelector(s))
=============================================================================
