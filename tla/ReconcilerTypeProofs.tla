------------------------ MODULE ReconcilerTypeProofs ------------------------
(***************************************************************************)
(* Type correctness of the reconciler in its cluster, for every choice of  *)
(* the constants, and what the operators of DesiredState return, for every *)
(* set of images, labels and DeviceConfigs.                                *)
(***************************************************************************)
EXTENDS DeviceConfigReconciler, TLAPS

-----------------------------------------------------------------------------
(* What a DeviceConfig asks for is a possible contents of each object. *)
LEMMA DesiredType ==
  ASSUME NEW k \in Children, NEW s \in DeviceConfigSpec
  PROVE  Desired(k, s) \in Contents(k)
<1>1. s \in DeviceConfigSpec  OBVIOUS
<1>2. CASE k = "module"
  <2>1. GetNodeSelector(s) \in SUBSET Labels
    BY <1>1, LabelAssumption DEF GetNodeSelector, DeviceConfigSpec
  <2>2. s.devicePluginImage \in Images /\ s.imageRepoSecret \in Secrets \cup {Absent}
    BY <1>1 DEF DeviceConfigSpec
  <2>3. KernelMappings(s) \in {KernelMappings(t) : t \in DeviceConfigSpec}  OBVIOUS
  <2> QED  BY <1>2, <2>1, <2>2, <2>3 DEF Desired, ModuleSpec, Contents, ModuleContents
<1>3. CASE k = "metrics"
  BY <1>3 DEF Desired, MetricsSpec, Contents, MetricsContents
<1>4. CASE k \in {"scheduler", "extension"}
  BY <1>1, <1>4 DEF Desired, SchedulerSpec, ExtensionSpec, Contents, SchedulerContents,
                    DeviceConfigSpec
<1> QED  BY <1>2, <1>3, <1>4 DEF Children

(* Decoding an answer into a copy gives a DeviceConfig's spec. *)
LEMMA DecodedType ==
  ASSUME NEW copy \in DeviceConfigSpec, NEW answer \in DeviceConfigSpec
  PROVE  DecodedSpec(copy, answer) \in DeviceConfigSpec
<1>1. (copy.useInTreeDrivers \/ answer.useInTreeDrivers) \in BOOLEAN
  BY DEF DeviceConfigSpec
<1>2. DecodedField(copy.imageRepoSecret, answer.imageRepoSecret) \in Secrets \cup {Absent}
  BY DEF DeviceConfigSpec, DecodedField
<1>3. DecodedMap(copy.selector, answer.selector) \in (SUBSET Labels) \cup {Absent}
  BY DEF DeviceConfigSpec, DecodedMap, DecodedField
<1> QED  BY <1>1, <1>2, <1>3 DEF DeviceConfigSpec, DecodedSpec

(* So is an object without any of the operator's fields. *)
LEMMA BlankType == \A k \in Children : Blank(k) \in Contents(k)
  BY DEF Blank, Contents, ModuleContents, MetricsContents, SchedulerContents, Children

(* A merge patch mixes contents into contents. *)
LEMMA MergeType ==
  ASSUME NEW k \in Children,
         NEW base \in Contents(k), NEW want \in Contents(k), NEW live \in Contents(k)
  PROVE  MergePatch(base, want, live) \in Contents(k)
<1>1. CASE k = "module"
  <2> USE <1>1 DEF Contents, ModuleContents
  <2>1. /\ DOMAIN want = {"kernelMappings", "devicePluginImage", "imageRepoSecret", "selector"}
        /\ base.selector \in SUBSET Labels
        /\ want.selector \in SUBSET Labels
        /\ live.selector \in SUBSET Labels
    OBVIOUS
  <2>2. MergeMap(base.selector, want.selector, live.selector) \in SUBSET Labels
    BY <2>1 DEF MergeMap
  <2>3. MergePatch(base, want, live) =
          [kernelMappings    |-> MergeField(base.kernelMappings, want.kernelMappings, live.kernelMappings),
           devicePluginImage |-> MergeField(base.devicePluginImage, want.devicePluginImage, live.devicePluginImage),
           imageRepoSecret   |-> MergeField(base.imageRepoSecret, want.imageRepoSecret, live.imageRepoSecret),
           selector          |-> MergeMap(base.selector, want.selector, live.selector)]
    BY <2>1 DEF MergePatch
  <2> QED  BY <2>2, <2>3 DEF MergeField
<1>2. CASE k = "metrics"
  <2> USE <1>2 DEF Contents, MetricsContents
  <2>1. DOMAIN want = {"image", "nodeSelector"}  OBVIOUS
  <2>2. MergePatch(base, want, live) =
          [image        |-> MergeField(base.image, want.image, live.image),
           nodeSelector |-> MergeField(base.nodeSelector, want.nodeSelector, live.nodeSelector)]
    BY <2>1 DEF MergePatch
  <2> QED  BY <2>2 DEF MergeField
<1>3. CASE k \in {"scheduler", "extension"}
  <2>0. Contents(k) = SchedulerContents  BY <1>3 DEF Contents
  <2>1. DOMAIN want = {"image", "schedulerName"}  BY <2>0 DEF SchedulerContents
  <2>2. MergePatch(base, want, live) =
          [image         |-> MergeField(base.image, want.image, live.image),
           schedulerName |-> MergeField(base.schedulerName, want.schedulerName, live.schedulerName)]
    BY <2>1 DEF MergePatch
  <2>3. /\ MergeField(base.image, want.image, live.image) \in Images \cup {Absent}
        /\ MergeField(base.schedulerName, want.schedulerName, live.schedulerName)
             \in {"default-scheduler", "neuron-scheduler", Absent}
    BY <2>0 DEF SchedulerContents, MergeField
  <2> QED  BY <2>0, <2>2, <2>3 DEF SchedulerContents
<1> QED  BY <1>1, <1>2, <1>3 DEF Children

(* A patch computed from the object as it is on the server gives exactly   *)
(* the wanted contents.                                                    *)
LEMMA FreshPatchConforms ==
  ASSUME NEW k \in Children, NEW want \in Contents(k), NEW live \in Contents(k)
  PROVE  MergePatch(live, want, live) = want
<1>1. \A f \in DOMAIN want : MergeField(live[f], want[f], live[f]) = want[f]
  BY DEF MergeField
<1>2. \A f \in DOMAIN want : f = "selector" => MergeMap(live[f], want[f], live[f]) = want[f]
  <2> SUFFICES ASSUME NEW f \in DOMAIN want, f = "selector"
               PROVE  MergeMap(live[f], want[f], live[f]) = want[f]
    OBVIOUS
  <2>1. live[f] \ (live[f] \ want[f]) = live[f] \cap want[f]  OBVIOUS
  <2>2. (live[f] \cap want[f]) \cup (want[f] \ live[f]) = want[f]  OBVIOUS
  <2> QED  BY <2>1, <2>2 DEF MergeMap
<1>3. want = [f \in DOMAIN want |-> want[f]]
  BY DEF Contents, ModuleContents, MetricsContents, SchedulerContents, Children
<1> QED  BY <1>1, <1>2, <1>3 DEF MergePatch

-----------------------------------------------------------------------------
LEMMA WriteDCType ==
  ASSUME DCTypeOK, NEW v \in DeviceConfig \cup {None}, WriteDC(v)
  PROVE  DCTypeOK'
  BY DEF DCTypeOK, WriteDC

LEMMA WriteObjType ==
  ASSUME ObjTypeOK, NEW k \in Children, NEW v \in Object(k) \cup {None}, WriteObj(k, v)
  PROVE  ObjTypeOK'
<1>1. /\ DOMAIN obj' = Children
      /\ DOMAIN objCache' = Children
      /\ DOMAIN objWatch' = Children
  BY DEF ObjTypeOK, WriteObj
<1>2. ASSUME NEW j \in Children
      PROVE  /\ obj'[j] \in Object(j) \cup {None}
             /\ objCache'[j] \in Object(j) \cup {None}
             /\ objWatch'[j] \in Seq(Object(j) \cup {None})
  BY <1>2 DEF ObjTypeOK, WriteObj
<1> QED  BY <1>1, <1>2 DEF ObjTypeOK

(* Replacing the finalizers, and the mark of a deletion, keep the types. *)
LEMMA WithFinalizersType ==
  ASSUME NEW d \in DeviceConfig, NEW fs \in SUBSET ({Operator} \cup Foreign)
  PROVE  WithFinalizers(d, fs) \in DeviceConfig \cup {None}
  BY DEF WithFinalizers, DeviceConfig

(* The worker's copy after an answer of the server has been decoded into it. *)
LEMMA DecodedCopyType ==
  ASSUME NEW d \in DeviceConfig, NEW a \in DeviceConfig
  PROVE  /\ Decoded(d, a) \in DeviceConfig
         /\ Decoded(d, a).uid = a.uid
         /\ Decoded(d, a).fins = a.fins
         /\ Decoded(d, a).deleting = a.deleting
<1>1. d.spec \in DeviceConfigSpec /\ a.spec \in DeviceConfigSpec  BY DEF DeviceConfig
<1>2. DecodedSpec(d.spec, a.spec) \in DeviceConfigSpec  BY <1>1, DecodedType
<1> QED  BY <1>2 DEF Decoded, DeviceConfig

LEMMA DeletedType ==
  ASSUME NEW k \in Children, NEW o \in Object(k)
  PROVE  Deleted(o) \in Object(k) \cup {None}
  BY DEF Deleted, Object

LEMMA InitType == Init => TypeOK
<1> SUFFICES ASSUME Init PROVE TypeOK  OBVIOUS
<1> USE DEF Init, ClusterInit
<1>1. DCTypeOK  BY DEF DCTypeOK
<1>2. ObjTypeOK
  <2>1. \A k \in Children : obj[k] = None /\ objCache[k] = None /\ objWatch[k] = <<>>
    OBVIOUS
  <2>2. /\ DOMAIN obj = Children
        /\ DOMAIN objCache = Children
        /\ DOMAIN objWatch = Children
    OBVIOUS
  <2> QED  BY <2>1, <2>2 DEF ObjTypeOK
<1>3. CountersTypeOK  BY BoundsAssumption DEF CountersTypeOK
<1>4. WorkerTypeOK  BY DEF WorkerTypeOK
<1> QED  BY <1>1, <1>2, <1>3, <1>4 DEF TypeOK, ClusterTypeOK

(* What users, other controllers, the garbage collector and KMM do. *)
LEMMA EnvironmentType ==
  ASSUME TypeOK, Environment, UNCHANGED workerVars
  PROVE  TypeOK'
<1> USE DEF TypeOK, ClusterTypeOK
<1>w. WorkerTypeOK'  BY DEF WorkerTypeOK, workerVars
<1>1. ASSUME NEW s \in Specs, UserCreate(s)
      PROVE  ClusterTypeOK'
  <2>1. [uid |-> uid + 1, spec |-> s, fins |-> {}, deleting |-> FALSE] \in DeviceConfig
    BY <1>1, BoundsAssumption, SpecsAssumption
    DEF UserCreate, CountersTypeOK, DeviceConfig, Uids
  <2>2. DCTypeOK'  BY <1>1, <2>1, WriteDCType DEF UserCreate
  <2>3. ObjTypeOK'  BY <1>1 DEF UserCreate, objVars, ObjTypeOK
  <2>4. CountersTypeOK'  BY <1>1, BoundsAssumption DEF UserCreate, CountersTypeOK
  <2> QED  BY <2>2, <2>3, <2>4
<1>2. ASSUME NEW s \in Specs, UserEdit(s)
      PROVE  ClusterTypeOK'
  <2>1. [dc EXCEPT !.spec = s] \in DeviceConfig
    BY <1>2, SpecsAssumption DEF UserEdit, DCTypeOK, DeviceConfig
  <2>2. DCTypeOK'  BY <1>2, <2>1, WriteDCType DEF UserEdit
  <2>3. ObjTypeOK'  BY <1>2 DEF UserEdit, objVars, ObjTypeOK
  <2>4. CountersTypeOK'  BY <1>2 DEF UserEdit, CountersTypeOK
  <2> QED  BY <2>2, <2>3, <2>4
<1>3. CASE UserDelete
  <2>1. (IF dc.fins = {} THEN None ELSE [dc EXCEPT !.deleting = TRUE])
          \in DeviceConfig \cup {None}
    BY <1>3 DEF UserDelete, DCTypeOK, DeviceConfig
  <2>2. DCTypeOK'  BY <1>3, <2>1, WriteDCType DEF UserDelete
  <2>3. ObjTypeOK'  BY <1>3 DEF UserDelete, objVars, ObjTypeOK
  <2>4. CountersTypeOK'  BY <1>3 DEF UserDelete, CountersTypeOK
  <2> QED  BY <1>w, <2>2, <2>3, <2>4
<1>4. ASSUME NEW f \in Foreign, ForeignFinalizerAdd(f)
      PROVE  ClusterTypeOK'
  <2>1. dc \in DeviceConfig /\ dc.fins \cup {f} \in SUBSET ({Operator} \cup Foreign)
    BY <1>4 DEF ForeignFinalizerAdd, DCTypeOK, DeviceConfig
  <2>2. DCTypeOK'
    BY <1>4, <2>1, WithFinalizersType, WriteDCType DEF ForeignFinalizerAdd
  <2>3. ObjTypeOK'  BY <1>4 DEF ForeignFinalizerAdd, objVars, ObjTypeOK
  <2>4. CountersTypeOK'  BY <1>4 DEF ForeignFinalizerAdd, CountersTypeOK
  <2> QED  BY <2>2, <2>3, <2>4
<1>5. ASSUME NEW f \in Foreign, ForeignFinalizerRemove(f)
      PROVE  ClusterTypeOK'
  <2>1. dc \in DeviceConfig /\ dc.fins \ {f} \in SUBSET ({Operator} \cup Foreign)
    BY <1>5 DEF ForeignFinalizerRemove, DCTypeOK, DeviceConfig
  <2>2. DCTypeOK'
    BY <1>5, <2>1, WithFinalizersType, WriteDCType DEF ForeignFinalizerRemove
  <2>3. ObjTypeOK'  BY <1>5 DEF ForeignFinalizerRemove, objVars, ObjTypeOK
  <2>4. CountersTypeOK'  BY <1>5 DEF ForeignFinalizerRemove, CountersTypeOK
  <2> QED  BY <2>2, <2>3, <2>4
<1>6. ASSUME NEW k \in Children, NEW v \in Object(k) \cup {None}, Touch(k, v)
      PROVE  ClusterTypeOK'
  <2>1. ObjTypeOK'  BY <1>6, WriteObjType DEF Touch
  <2>2. DCTypeOK'  BY <1>6 DEF Touch, dcVars, DCTypeOK
  <2>3. CountersTypeOK'  BY <1>6 DEF Touch, CountersTypeOK
  <2> QED  BY <2>1, <2>2, <2>3
<1>7. ASSUME NEW k \in Children, NEW o \in AlienOwners, AlienCreate(k, o)
      PROVE  ClusterTypeOK'
  <2>1. [spec |-> Blank(k), owner |-> o, kmm |-> FALSE, deleting |-> FALSE] \in Object(k)
    BY BlankType, NamesAssumption DEF Object
  <2> QED  BY <1>6, <1>7, <2>1 DEF AlienCreate
<1>8. ASSUME NEW k \in Children, AlienEdit(k)
      PROVE  ClusterTypeOK'
  <2>1. [obj[k] EXCEPT !.spec = Blank(k)] \in Object(k)
    BY <1>8, BlankType DEF AlienEdit, ObjTypeOK, Object
  <2> QED  BY <1>6, <1>8, <2>1 DEF AlienEdit
<1>9. ASSUME NEW k \in Children, AlienDelete(k)
      PROVE  ClusterTypeOK'
  <2>1. Deleted(obj[k]) \in Object(k) \cup {None}
    BY <1>9, DeletedType DEF AlienDelete, ObjTypeOK
  <2> QED  BY <1>6, <1>9, <2>1 DEF AlienDelete
<1>10. ASSUME NEW k \in Children, GarbageCollect(k)
       PROVE  ClusterTypeOK'
  <2>1. Deleted(obj[k]) \in Object(k) \cup {None}
    BY <1>10, DeletedType DEF GarbageCollect, ObjTypeOK
  <2>2. ObjTypeOK'  BY <1>10, <2>1, WriteObjType DEF GarbageCollect
  <2>3. DCTypeOK'  BY <1>10 DEF GarbageCollect, dcVars, DCTypeOK
  <2>4. CountersTypeOK'  BY <1>10 DEF GarbageCollect, CountersTypeOK
  <2> QED  BY <2>2, <2>3, <2>4
<1>11. CASE KMMClaim
  <2>1. /\ "module" \in Children
        /\ [obj["module"] EXCEPT !.kmm = TRUE] \in Object("module")
    BY <1>11 DEF KMMClaim, ObjTypeOK, Object, Children
  <2>2. ObjTypeOK'  BY <1>11, <2>1, WriteObjType DEF KMMClaim
  <2>3. DCTypeOK'  BY <1>11 DEF KMMClaim, dcVars, DCTypeOK
  <2>4. CountersTypeOK'  BY <1>11 DEF KMMClaim, CountersTypeOK
  <2> QED  BY <1>w, <2>2, <2>3, <2>4
<1>12. CASE KMMRelease
  <2>1. "module" \in Children  BY DEF Children
  <2>2. ObjTypeOK'  BY <1>12, <2>1, WriteObjType DEF KMMRelease
  <2>3. DCTypeOK'  BY <1>12 DEF KMMRelease, dcVars, DCTypeOK
  <2>4. CountersTypeOK'  BY <1>12 DEF KMMRelease, CountersTypeOK
  <2> QED  BY <1>w, <2>2, <2>3, <2>4
<1> QED
  BY <1>w, <1>1, <1>2, <1>3, <1>4, <1>5, <1>7, <1>8, <1>9, <1>10, <1>11, <1>12
  DEF Environment

(* What the caches and the work queue do. *)
LEMMA DeliverType ==
  ASSUME TypeOK, Deliver \/ Resync
  PROVE  TypeOK'
<1> USE DEF TypeOK, ClusterTypeOK
<1>1. CASE DeliverDC
  <2>1. DCTypeOK'  BY <1>1 DEF DeliverDC, DCTypeOK
  <2>2. ObjTypeOK'  BY <1>1 DEF DeliverDC, objVars, ObjTypeOK
  <2>3. CountersTypeOK' /\ WorkerTypeOK'
    BY <1>1 DEF DeliverDC, CountersTypeOK, WorkerTypeOK
  <2> QED  BY <2>1, <2>2, <2>3
<1>2. ASSUME NEW k \in Children, DeliverChild(k)
      PROVE  TypeOK'
  <2>1. DCTypeOK'  BY <1>2 DEF DeliverChild, dcVars, DCTypeOK
  <2>2. ObjTypeOK'
    <3>1. /\ Head(objWatch[k]) \in Object(k) \cup {None}
          /\ Tail(objWatch[k]) \in Seq(Object(k) \cup {None})
      BY <1>2 DEF DeliverChild, ObjTypeOK
    <3>2. /\ DOMAIN obj' = Children
          /\ DOMAIN objCache' = Children
          /\ DOMAIN objWatch' = Children
      BY <1>2 DEF DeliverChild, ObjTypeOK
    <3>3. ASSUME NEW j \in Children
          PROVE  /\ obj'[j] \in Object(j) \cup {None}
                 /\ objCache'[j] \in Object(j) \cup {None}
                 /\ objWatch'[j] \in Seq(Object(j) \cup {None})
      BY <1>2, <3>1 DEF DeliverChild, ObjTypeOK
    <3> QED  BY <3>2, <3>3 DEF ObjTypeOK
  <2>3. CountersTypeOK'  BY <1>2 DEF DeliverChild, CountersTypeOK
  <2>4. queued' \in BOOLEAN
    BY <1>2, Zenon DEF DeliverChild, Owned, WorkerTypeOK
  <2>5. WorkerTypeOK'  BY <1>2, <2>4 DEF DeliverChild, WorkerTypeOK
  <2> QED  BY <2>1, <2>2, <2>3, <2>5
<1>3. CASE Resync
  BY <1>3 DEF Resync, clusterVars, DCTypeOK, ObjTypeOK, CountersTypeOK, WorkerTypeOK
<1> QED  BY <1>1, <1>2, <1>3 DEF Deliver

(* Replacing the finalizers of the DeviceConfig on the server. *)
LEMMA PatchFinalizersType ==
  ASSUME DCTypeOK, NEW fs \in SUBSET ({Operator} \cup Foreign), PatchFinalizers(fs)
  PROVE  DCTypeOK'
<1>1. CASE dc # None /\ FinalizersAccepted(dc, fs)
  <2>1. WithFinalizers(dc, fs) \in DeviceConfig \cup {None}
    BY <1>1, WithFinalizersType DEF DCTypeOK
  <2> QED  BY <1>1, <2>1, WriteDCType DEF PatchFinalizers
<1>2. CASE ~(dc # None /\ FinalizersAccepted(dc, fs))
  BY <1>2 DEF PatchFinalizers, dcVars, DCTypeOK
<1> QED  BY <1>1, <1>2

(* The objects that creates and patches put on the server. *)
LEMMA WrittenObjectType ==
  ASSUME TypeOK, NEW k \in Children, wdc # None
  PROVE  /\ NewObject(k) \in Object(k)
         /\ objCache[k] # None /\ obj[k] # None => PatchedObject(k) \in Object(k)
<1>1. wdc \in DeviceConfig /\ wdc.spec \in DeviceConfigSpec /\ wdc.uid \in Owners
  BY DEF TypeOK, WorkerTypeOK, DeviceConfig, Owners
<1>2. Desired(k, wdc.spec) \in Contents(k)  BY <1>1, DesiredType
<1>3. NewObject(k) \in Object(k)  BY <1>1, <1>2 DEF NewObject, Object
<1>4. ASSUME objCache[k] # None, obj[k] # None
      PROVE  PatchedObject(k) \in Object(k)
  <2>1. obj[k] \in Object(k) /\ objCache[k] \in Object(k)
    BY <1>4 DEF TypeOK, ClusterTypeOK, ObjTypeOK
  <2>2. MergePatch(objCache[k].spec, Desired(k, wdc.spec), obj[k].spec) \in Contents(k)
    BY <1>2, <2>1, MergeType DEF Object
  <2>3. MergeField(objCache[k].owner, wdc.uid, obj[k].owner) \in Owners
    BY <1>1, <2>1 DEF MergeField, Object
  <2> QED  BY <2>1, <2>2, <2>3 DEF PatchedObject, Object
<1> QED  BY <1>3, <1>4

LEMMA WorkerMovesType ==
  ASSUME WorkerTypeOK, UNCHANGED faults
  PROVE  /\ Done \/ Fail => WorkerTypeOK'
         /\ \A step \in Children \cup {"setFinalizer", "finalize"} :
              wdc # None /\ Goto(step) => WorkerTypeOK'
  BY DEF WorkerTypeOK, Done, Fail, Goto

(* One handler: a create or a patch. *)
LEMMA CreateOrPatchType ==
  ASSUME TypeOK, NEW k \in Children, NEW next \in Children,
         CreateOrPatch(k, Goto(next)) \/ CreateOrPatch(k, Done)
  PROVE  TypeOK'
<1> USE DEF TypeOK, ClusterTypeOK
<1>1. wdc # None
  BY DEF CreateOrPatch, WorkerTypeOK, Children
<1>2. /\ Fail \/ Goto(next) \/ Done
      /\ UNCHANGED <<dcVars, uid, edits, aliens, faults>>
      /\ \/ UNCHANGED objVars
         \/ WriteObj(k, NewObject(k))
         \/ objCache[k] # None /\ obj[k] # None /\ WriteObj(k, PatchedObject(k))
  BY DEF CreateOrPatch, Create, Patch, CreateFails, PatchFails
<1>3. WorkerTypeOK'  BY <1>1, <1>2, WorkerMovesType
<1>4. DCTypeOK' /\ CountersTypeOK'  BY <1>2 DEF dcVars, DCTypeOK, CountersTypeOK
<1>5. ObjTypeOK'
  BY <1>1, <1>2, WrittenObjectType, WriteObjType DEF objVars, ObjTypeOK
<1> QED  BY <1>3, <1>4, <1>5

(* What the worker does. *)
LEMMA WorkerType ==
  ASSUME TypeOK, Worker
  PROVE  TypeOK'
<1> USE DEF TypeOK, ClusterTypeOK
<1>1. CASE Reconcile
  <2>1. DCTypeOK' /\ ObjTypeOK' /\ CountersTypeOK'
    BY <1>1 DEF Reconcile, clusterVars, DCTypeOK, ObjTypeOK, CountersTypeOK
  <2>2. /\ pc' \in {"idle", "setFinalizer", "finalize"}
        /\ pc' # "idle" => wdc' # None
    <3>1. CASE dcCache = None  BY <1>1, <3>1 DEF Reconcile
    <3>2. CASE dcCache # None
      BY <1>1, <3>2 DEF Reconcile, DCTypeOK, DeviceConfig
    <3> QED  BY <3>1, <3>2
  <2>3. WorkerTypeOK'  BY <1>1, <2>2 DEF Reconcile, WorkerTypeOK, DCTypeOK
  <2> QED  BY <2>1, <2>3
<1>2. CASE SetFinalizer
  <2> DEFINE fs == wdc.fins \cup {Operator}
  <2>1. wdc \in DeviceConfig /\ fs \in SUBSET ({Operator} \cup Foreign)
    BY <1>2 DEF SetFinalizer, WorkerTypeOK, DeviceConfig
  <2>2. ObjTypeOK' /\ CountersTypeOK'
    BY <1>2 DEF SetFinalizer, objVars, ObjTypeOK, CountersTypeOK
  <2>3. CASE Operator \in wdc.fins
    <3>1. Goto("module") /\ UNCHANGED <<dcVars, faults>>
      BY <1>2, <2>3 DEF SetFinalizer
    <3>2. WorkerTypeOK' /\ DCTypeOK'
      BY <2>1, <3>1, NoneAssumption DEF Goto, dcVars, WorkerTypeOK, DCTypeOK, Children
    <3> QED  BY <2>2, <3>2
  <2>4. CASE Operator \notin wdc.fins
    <3>1. PatchFinalizers(fs) /\ UNCHANGED faults
      BY <1>2, <2>4 DEF SetFinalizer
    <3>2. DCTypeOK'  BY <2>1, <3>1, PatchFinalizersType
    <3>3. WorkerTypeOK'
      <4>1. CASE FinalizerPatchFails(fs)
        <5>1. Fail  BY <1>2, <2>4, <4>1 DEF SetFinalizer
        <5> QED  BY <3>1, <5>1, WorkerMovesType
      <4>2. CASE ~FinalizerPatchFails(fs)
        <5>1. /\ dc \in DeviceConfig
              /\ pc' = "module" /\ wdc' = Decoded(wdc, WithFinalizers(dc, fs))
              /\ UNCHANGED queued
          BY <1>2, <2>4, <4>2 DEF SetFinalizer, FinalizerPatchFails, DCTypeOK
        <5>2. wdc' \in DeviceConfig
          <6>1. WithFinalizers(dc, fs) \in DeviceConfig
            BY <2>1, <5>1 DEF WithFinalizers, DeviceConfig
          <6> QED  BY <2>1, <5>1, <6>1, DecodedCopyType
        <5>3. wdc' # None  BY <5>2, NoneAssumption
        <5> QED  BY <3>1, <5>1, <5>2, <5>3 DEF WorkerTypeOK, Children
      <4> QED  BY <4>1, <4>2
    <3> QED  BY <2>2, <3>2, <3>3
  <2> QED  BY <2>3, <2>4
<1>3. CASE Handle
  <2>1. {"module", "scheduler", "extension", "metrics"} = Children  BY DEF Children
  <2> QED
    BY <1>3, <2>1, CreateOrPatchType
    DEF Handle, HandleKMMModule, HandleCustomScheduler,
        HandleCustomSchedulerExtension, HandleNodeMetrics
<1>4. ASSUME NEW k \in Children, DeleteChild(k)
      PROVE  TypeOK'
  <2>1. ObjTypeOK'
    <3>1. CASE obj[k] = None  BY <1>4, <3>1 DEF DeleteChild, objVars, ObjTypeOK
    <3>2. CASE obj[k] # None
      <4>1. Deleted(obj[k]) \in Object(k) \cup {None}
        BY <3>2, DeletedType DEF ObjTypeOK
      <4> QED  BY <1>4, <3>2, <4>1, WriteObjType DEF DeleteChild
    <3> QED  BY <3>1, <3>2
  <2>2. DCTypeOK' /\ CountersTypeOK'
    BY <1>4 DEF DeleteChild, dcVars, DCTypeOK, CountersTypeOK
  <2>3. WorkerTypeOK'  BY <1>4, WorkerMovesType DEF DeleteChild
  <2> QED  BY <2>1, <2>2, <2>3
<1>5. CASE FinalizeMetrics \/ FinalizeModule
  BY <1>4, <1>5 DEF FinalizeMetrics, FinalizeModule, Children
<1>6. CASE RemoveFinalizer
  <2>1. PICK fs : /\ fs = IF Operator \in wdc.fins \/ dc = None
                           THEN wdc.fins \ {Operator} ELSE dc.fins
                  /\ PatchFinalizers(fs) /\ (Done \/ Fail)
    BY <1>6 DEF RemoveFinalizer
  <2>2. fs \in SUBSET ({Operator} \cup Foreign)
    BY <1>6, <2>1 DEF RemoveFinalizer, WorkerTypeOK, DCTypeOK, DeviceConfig
  <2>3. DCTypeOK'  BY <2>1, <2>2, PatchFinalizersType
  <2>4. ObjTypeOK' /\ CountersTypeOK'
    BY <1>6 DEF RemoveFinalizer, objVars, ObjTypeOK, CountersTypeOK
  <2>5. WorkerTypeOK'  BY <1>6, <2>1, WorkerMovesType DEF RemoveFinalizer
  <2> QED  BY <2>3, <2>4, <2>5
<1> QED  BY <1>1, <1>2, <1>3, <1>5, <1>6 DEF Worker, Finalize

(* Failures and crashes. *)
LEMMA FailureType ==
  ASSUME TypeOK, Fault \/ Restart
  PROVE  TypeOK'
<1> USE DEF TypeOK, ClusterTypeOK
<1>1. CASE Fault
  <2>1. DCTypeOK' /\ ObjTypeOK' /\ CountersTypeOK'
    BY <1>1 DEF Fault, clusterVars, DCTypeOK, ObjTypeOK, CountersTypeOK
  <2>2. WorkerTypeOK'  BY <1>1 DEF Fault, Fail, WorkerTypeOK
  <2> QED  BY <2>1, <2>2
<1>2. CASE Restart
  <2>1. DCTypeOK'  BY <1>2 DEF Restart, DCTypeOK
  <2>2. ObjTypeOK'
    <3>1. /\ DOMAIN objWatch' = Children
          /\ \A k \in Children : objWatch'[k] = <<>>
      BY <1>2 DEF Restart
    <3>2. obj' = obj /\ objCache' = obj  BY <1>2 DEF Restart
    <3>3. ASSUME NEW j \in Children
          PROVE  objWatch'[j] \in Seq(Object(j) \cup {None})
      <4>1. \A S : <<>> \in Seq(S)  OBVIOUS
      <4> QED  BY <3>1, <4>1, Zenon
    <3>4. ASSUME NEW j \in Children
          PROVE  /\ obj'[j] \in Object(j) \cup {None}
                 /\ objCache'[j] \in Object(j) \cup {None}
      BY <3>2 DEF ObjTypeOK
    <3>5. DOMAIN obj' = Children /\ DOMAIN objCache' = Children
      BY <3>2 DEF ObjTypeOK
    <3> QED  BY <3>1, <3>3, <3>4, <3>5 DEF ObjTypeOK
  <2>3. CountersTypeOK'  BY <1>2 DEF Restart, CountersTypeOK
  <2>4. queued' \in BOOLEAN  BY <1>2, Zenon DEF Restart
  <2>5. WorkerTypeOK'  BY <1>2, <2>4 DEF Restart, WorkerTypeOK
  <2> QED  BY <2>1, <2>2, <2>3, <2>5
<1> QED  BY <1>1, <1>2

LEMMA NextType == TypeOK /\ [Next]_vars => TypeOK'
<1> SUFFICES ASSUME TypeOK, [Next]_vars PROVE TypeOK'  OBVIOUS
<1>1. CASE UNCHANGED vars
  BY <1>1 DEF vars, clusterVars, workerVars, TypeOK, ClusterTypeOK, DCTypeOK, ObjTypeOK,
              CountersTypeOK, WorkerTypeOK
<1>2. CASE Environment /\ UNCHANGED workerVars  BY <1>2, EnvironmentType
<1>3. CASE Deliver \/ Resync  BY <1>3, DeliverType
<1>4. CASE Worker  BY <1>4, WorkerType
<1>5. CASE Fault \/ Restart  BY <1>5, FailureType
<1> QED  BY <1>1, <1>2, <1>3, <1>4, <1>5 DEF Next

(***************************************************************************)
(* Every variable of the reconciler and its cluster always has its type,   *)
(* and a running worker always has a DeviceConfig in hand.                 *)
(***************************************************************************)
THEOREM TypeCorrect == Spec => []TypeOK
<1>1. Init => TypeOK  BY InitType
<1>2. TypeOK /\ [Next]_vars => TypeOK'  BY NextType
<1> QED  BY <1>1, <1>2, PTL DEF Spec

(***************************************************************************)
(* A handler that reads its object as it is on the server succeeds in one  *)
(* request, unless the object is another controller's or the server        *)
(* refuses the image, and leaves it with exactly what the worker's copy of *)
(* the DeviceConfig asks for, and owned by it (CreateOrPatch in the three  *)
(* handlers; whatever the object was before, nothing of it stays).         *)
(***************************************************************************)
HandledAsWanted(k) ==
  /\ obj'[k] # None
  /\ obj'[k].spec = Desired(k, wdc.spec) /\ obj'[k].owner = wdc.uid

THEOREM FreshHandlersConform ==
  Spec => [][\A k \in Children :
               /\ Handle /\ pc = k /\ objCache[k] = obj[k]
               /\ Admitted(k) /\ (obj[k] # None => obj[k].owner # Stranger)
               => HandledAsWanted(k)]_vars
<1>1. ASSUME TypeOK, NEW k \in Children, Handle, pc = k, objCache[k] = obj[k],
             Admitted(k), obj[k] # None => obj[k].owner # Stranger
      PROVE  HandledAsWanted(k)
  <2>0. /\ ObjTypeOK /\ wdc # None /\ wdc \in DeviceConfig /\ wdc.spec \in DeviceConfigSpec
        /\ None \notin Object(k)
    BY <1>1, NoneAssumption DEF TypeOK, ClusterTypeOK, WorkerTypeOK, DeviceConfig, Children
  <2>1. \/ objCache[k] = None /\ WriteObj(k, NewObject(k))
        \/ objCache[k] # None /\ WriteObj(k, PatchedObject(k))
    BY <1>1 DEF Handle, HandleKMMModule, HandleCustomScheduler, HandleCustomSchedulerExtension,
       HandleNodeMetrics, CreateOrPatch, Create, Patch, CreateFails, PatchFails
  <2>2. CASE objCache[k] = None /\ WriteObj(k, NewObject(k))
    <3>1. obj'[k] = NewObject(k) /\ NewObject(k) \in Object(k)
      BY <1>1, <2>0, <2>2, WrittenObjectType DEF WriteObj, ObjTypeOK
    <3>2. NewObject(k).spec = Desired(k, wdc.spec) /\ NewObject(k).owner = wdc.uid
      BY DEF NewObject
    <3> QED
      BY <2>0, <3>1, <3>2 DEF HandledAsWanted
  <2>3. CASE objCache[k] # None /\ WriteObj(k, PatchedObject(k))
    <3>1. obj'[k] = PatchedObject(k) /\ obj[k] \in Object(k) /\ PatchedObject(k) \in Object(k)
      BY <1>1, <2>0, <2>3, WrittenObjectType DEF WriteObj, ObjTypeOK
    <3>2. /\ PatchedObject(k).spec = MergePatch(obj[k].spec, Desired(k, wdc.spec), obj[k].spec)
          /\ PatchedObject(k).owner = MergeField(obj[k].owner, wdc.uid, obj[k].owner)
      BY <1>1, <3>1 DEF PatchedObject, Object
    <3>3. obj[k].spec \in Contents(k) /\ Desired(k, wdc.spec) \in Contents(k)
      BY <2>0, <3>1, DesiredType DEF Object
    <3>4. PatchedObject(k).spec = Desired(k, wdc.spec) /\ PatchedObject(k).owner = wdc.uid
      BY <3>2, <3>3, FreshPatchConforms DEF MergeField
    <3> QED
      BY <2>0, <3>1, <3>4 DEF HandledAsWanted
  <2> QED
    BY <2>1, <2>2, <2>3
<1>2. TypeOK /\ [Next]_vars =>
        [\A k \in Children :
               /\ Handle /\ pc = k /\ objCache[k] = obj[k]
               /\ Admitted(k) /\ (obj[k] # None => obj[k].owner # Stranger)
               => HandledAsWanted(k)]_vars
  BY <1>1
<1> QED
  BY <1>2, TypeCorrect, PTL DEF Spec
=============================================================================
