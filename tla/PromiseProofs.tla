--------------------------- MODULE PromiseProofs ----------------------------
(***************************************************************************)
(* DeviceConfigReconciler implements OwnedResources, for every value of    *)
(* the constants: every step maps to a step of OwnedResources or changes   *)
(* nothing of what it speaks about.                                        *)
(***************************************************************************)
EXTENDS OwnedResourcesRefinement, FinalizerProofs

Stutter == UNCHANGED <<uid, CurrentUid, HasFinalizer(dc), Asked, OwnerMap>>

PromiseStep == Promise!OwnedNext \/ Stutter

-----------------------------------------------------------------------------
(***************************************************************************)
(* Steps that leave the objects, or the DeviceConfig, as they are.         *)
(***************************************************************************)
LEMMA SameObjects == ASSUME UNCHANGED obj PROVE UNCHANGED OwnerMap
  BY DEF OwnerMap, OwnerOf

LEMMA SameDeviceConfig ==
  ASSUME UNCHANGED dc PROVE UNCHANGED <<CurrentUid, HasFinalizer(dc), Asked>>
  BY DEF CurrentUid, HasFinalizer, Asked

LEMMA NothingChanged ==
  ASSUME UNCHANGED <<dc, obj, uid>> PROVE PromiseStep
  BY SameObjects, SameDeviceConfig DEF PromiseStep, Stutter

(***************************************************************************)
(* A write of an object: it disappears, keeps its owner, or is given to    *)
(* the DeviceConfig that is held.                                          *)
(***************************************************************************)
LEMMA ObjectWritten ==
  ASSUME TypeOK, NEW k \in Children, NEW v, WriteObj(k, v), UNCHANGED <<dc, uid>>,
         \/ v = None
         \/ OwnerOf(v) = OwnerOf(obj[k])
         \/ HasFinalizer(dc) /\ OwnerOf(v) = dc.uid
         \/ obj[k] = None /\ OwnerOf(v) \in AlienOwners
  PROVE  PromiseStep
<1>1. OwnerMap' = [OwnerMap EXCEPT ![k] = OwnerOf(v)]
  BY DEF OwnerMap, WriteObj, TypeOK, ClusterTypeOK, ObjTypeOK
<1>2. OwnerMap[k] = OwnerOf(obj[k])
  BY DEF OwnerMap
<1>3. UNCHANGED <<uid, CurrentUid, HasFinalizer(dc), Asked>>
  BY SameDeviceConfig
<1>4. CASE v = None
  <2>1. OwnerOf(v) = None
    BY <1>4 DEF OwnerOf
  <2>2. Promise!Lose(k)
    BY <1>1, <1>3, <2>1 DEF Promise!Lose
  <2> QED
    BY <2>2 DEF PromiseStep, Promise!OwnedNext
<1>5. CASE OwnerOf(v) = OwnerOf(obj[k])
  <2>1. OwnerMap' = OwnerMap
    BY <1>1, <1>2, <1>5 DEF OwnerMap
  <2> QED
    BY <1>3, <2>1 DEF PromiseStep, Stutter
<1>6. CASE HasFinalizer(dc) /\ OwnerOf(v) = dc.uid
  <2>1. CurrentUid = dc.uid
    BY <1>6 DEF CurrentUid, HasFinalizer
  <2>2. Promise!Give(k)
    BY <1>1, <1>3, <1>6, <2>1 DEF Promise!Give
  <2> QED
    BY <2>2 DEF PromiseStep, Promise!OwnedNext
<1>7. CASE obj[k] = None /\ OwnerOf(v) \in AlienOwners
  <2>1. OwnerMap[k] = None
    BY <1>2, <1>7 DEF OwnerOf
  <2>2. Promise!MadeElsewhere(k)
    BY <1>1, <1>3, <1>7, <2>1 DEF Promise!MadeElsewhere
  <2> QED
    BY <2>2 DEF PromiseStep, Promise!OwnedNext
<1> QED
  BY <1>4, <1>5, <1>6, <1>7

LEMMA DeletedKeepsOwner ==
  ASSUME NEW k \in Children, NEW o \in Object(k)
  PROVE  Deleted(o) = None \/ OwnerOf(Deleted(o)) = OwnerOf(o)
<1>1. o # None /\ [o EXCEPT !.deleting = TRUE] \in Object(k)
  BY NoneAssumption DEF Object
<1>2. [o EXCEPT !.deleting = TRUE] # None /\ [o EXCEPT !.deleting = TRUE].owner = o.owner
  BY <1>1, NoneAssumption DEF Object
<1> QED
  BY <1>1, <1>2 DEF Deleted, OwnerOf

(***************************************************************************)
(* A write of the list of finalizers of the DeviceConfig that is there.    *)
(***************************************************************************)
LEMMA FinalizersWritten ==
  ASSUME TypeOK, dc # None, NEW fs \in SUBSET ({Operator} \cup Foreign),
         WriteDC(WithFinalizers(dc, fs)), UNCHANGED <<obj, uid>>,
         Operator \in fs /\ Operator \notin dc.fins => ~dc.deleting,
         Operator \notin fs /\ Operator \in dc.fins => dc.deleting
  PROVE  PromiseStep
<1>1. dc \in DeviceConfig /\ UNCHANGED <<uid, OwnerMap>>
  BY SameObjects DEF TypeOK, ClusterTypeOK, DCTypeOK
<1>2. dc' = WithFinalizers(dc, fs) /\ CurrentUid = dc.uid /\ CurrentUid # None
  BY <1>1, NamesAssumption DEF WriteDC, CurrentUid, DeviceConfig, Owners
<1>3. CASE dc.deleting /\ fs = {}
  <2>1. dc' = None
    BY <1>2, <1>3 DEF WithFinalizers
  <2>2. CurrentUid' = None /\ HasFinalizer(dc)' = FALSE /\ Asked' = FALSE /\ Asked
    BY <1>3, <2>1 DEF CurrentUid, HasFinalizer, Asked
  <2>3. CASE HasFinalizer(dc)
    <3>1. Promise!LetGo
      BY <1>1, <1>2, <2>2, <2>3 DEF Promise!LetGo
    <3> QED
      BY <3>1 DEF PromiseStep, Promise!OwnedNext
  <2>4. CASE ~HasFinalizer(dc)
    <3>0. HasFinalizer(dc) = FALSE
      BY <2>4 DEF HasFinalizer
    <3>1. Promise!Vanish
      BY <1>1, <1>2, <2>2, <3>0 DEF Promise!Vanish
    <3> QED
      BY <3>1 DEF PromiseStep, Promise!OwnedNext
  <2> QED
    BY <2>3, <2>4
<1>4. CASE ~(dc.deleting /\ fs = {})
  <2>1. dc' = [dc EXCEPT !.fins = fs] /\ dc' \in DeviceConfig
    BY <1>1, <1>2, <1>4 DEF WithFinalizers, DeviceConfig
  <2>2. dc' # None /\ dc'.fins = fs /\ dc'.uid = dc.uid /\ dc'.deleting = dc.deleting
    BY <1>1, <2>1, NoneAssumption DEF DeviceConfig
  <2>3. UNCHANGED <<CurrentUid, Asked>>
    BY <2>2 DEF CurrentUid, Asked
  <2>4. HasFinalizer(dc)' = (Operator \in fs) /\ HasFinalizer(dc) = (Operator \in dc.fins)
    BY <2>2 DEF HasFinalizer
  <2>5. Asked <=> dc.deleting
    BY <1>1 DEF Asked, DeviceConfig
  <2>6. CASE Operator \in fs /\ Operator \notin dc.fins
    <3>1. Promise!Hold
      BY <1>1, <1>2, <2>3, <2>4, <2>5, <2>6 DEF Promise!Hold
    <3> QED
      BY <3>1 DEF PromiseStep, Promise!OwnedNext
  <2>7. CASE Operator \notin fs /\ Operator \in dc.fins
    <3>1. HasFinalizer(dc) /\ HasFinalizer(dc)' = FALSE
      BY <2>2, <2>7 DEF HasFinalizer
    <3>2. Asked
      BY <2>5, <2>7
    <3>3. Promise!LetGo
      BY <1>1, <2>3, <3>1, <3>2 DEF Promise!LetGo
    <3> QED
      BY <3>3 DEF PromiseStep, Promise!OwnedNext
  <2>8. CASE Operator \in fs <=> Operator \in dc.fins
    <3>1. Stutter
      BY <1>1, <2>3, <2>4, <2>8 DEF Stutter
    <3> QED
      BY <3>1 DEF PromiseStep
  <2> QED
    BY <2>6, <2>7, <2>8
<1> QED
  BY <1>3, <1>4

-----------------------------------------------------------------------------
LEMMA InitPromise == Init => Promise!OwnedInit
  BY DEF Init, ClusterInit, Promise!OwnedInit, CurrentUid, HasFinalizer, Asked, OwnerMap,
     OwnerOf

LEMMA EnvironmentPromise ==
  ASSUME TypeOK, Environment
  PROVE  PromiseStep
<1>0. /\ dc \in DeviceConfig \cup {None} /\ uid \in 0..MaxUid
      /\ \A k \in Children : obj[k] \in Object(k) \cup {None}
  BY DEF TypeOK, ClusterTypeOK, DCTypeOK, ObjTypeOK, CountersTypeOK
<1>1. ASSUME NEW s \in Specs, UserCreate(s) PROVE PromiseStep
  <2> DEFINE d == [uid |-> uid + 1, spec |-> s, fins |-> {}, deleting |-> FALSE]
  <2>1. /\ dc = None /\ dc' = d /\ uid' = uid + 1 /\ UNCHANGED OwnerMap
    BY <1>1, SameObjects DEF UserCreate, WriteDC, objVars
  <2>2. d \in DeviceConfig
    <3>1. uid + 1 \in Uids
      BY <1>0, <1>1, BoundsAssumption DEF UserCreate, Uids
    <3> QED
      BY <3>1, SpecsAssumption DEF DeviceConfig
  <2>3. d # None
    BY <2>2, NoneAssumption
  <2>4. /\ CurrentUid = None /\ CurrentUid' = uid + 1
        /\ HasFinalizer(dc) = FALSE /\ HasFinalizer(dc)' = FALSE
        /\ Asked = FALSE /\ Asked' = FALSE
    BY <2>1, <2>3 DEF CurrentUid, HasFinalizer, Asked
  <2>5. Promise!Appear
    BY <2>1, <2>4 DEF Promise!Appear
  <2> QED
    BY <2>5 DEF PromiseStep, Promise!OwnedNext
<1>2. ASSUME NEW s \in Specs, UserEdit(s) PROVE PromiseStep
  <2>1. /\ dc # None /\ dc' = [dc EXCEPT !.spec = s] /\ UNCHANGED <<uid, OwnerMap>>
    BY <1>2, SameObjects DEF UserEdit, WriteDC, objVars
  <2>2. dc' \in DeviceConfig
    BY <1>0, <2>1, SpecsAssumption DEF DeviceConfig
  <2>3. /\ dc' # None /\ dc'.uid = dc.uid /\ dc'.fins = dc.fins /\ dc'.deleting = dc.deleting
    BY <1>0, <2>1, <2>2, NoneAssumption DEF DeviceConfig
  <2> QED
    BY <2>1, <2>3 DEF PromiseStep, Stutter, CurrentUid, HasFinalizer, Asked
<1>3. CASE UserDelete
  <2>1. dc \in DeviceConfig /\ dc # None /\ UNCHANGED <<uid, OwnerMap>>
    BY <1>0, <1>3, SameObjects DEF UserDelete, objVars
  <2>2. CurrentUid = dc.uid /\ CurrentUid # None
    BY <2>1, NamesAssumption DEF CurrentUid, DeviceConfig, Owners
  <2>3. CASE dc.fins = {}
    <3>1. /\ CurrentUid' = None /\ HasFinalizer(dc) = FALSE /\ HasFinalizer(dc)' = FALSE
          /\ Asked' = FALSE
      BY <1>3, <2>3 DEF UserDelete, WriteDC, CurrentUid, HasFinalizer, Asked
    <3>2. Promise!Vanish
      BY <2>1, <2>2, <3>1 DEF Promise!Vanish
    <3> QED
      BY <3>2 DEF PromiseStep, Promise!OwnedNext
  <2>4. CASE dc.fins # {}
    <3>1. dc' = [dc EXCEPT !.deleting = TRUE] /\ dc' \in DeviceConfig
      BY <1>3, <2>1, <2>4 DEF UserDelete, WriteDC, DeviceConfig
    <3>2. dc' # None /\ dc'.uid = dc.uid /\ dc'.fins = dc.fins /\ dc'.deleting = TRUE
      BY <2>1, <3>1, NoneAssumption DEF DeviceConfig
    <3>3. UNCHANGED <<CurrentUid, HasFinalizer(dc)>> /\ Asked' = TRUE
      BY <2>1, <3>2 DEF CurrentUid, HasFinalizer, Asked
    <3>4. Promise!Ask
      BY <2>1, <2>2, <3>3 DEF Promise!Ask
    <3> QED
      BY <3>4 DEF PromiseStep, Promise!OwnedNext
  <2> QED
    BY <2>3, <2>4
<1>4. ASSUME NEW f \in Foreign, ForeignFinalizerAdd(f) \/ ForeignFinalizerRemove(f)
      PROVE  PromiseStep
  <2>1. f # Operator /\ dc # None /\ dc.fins \in SUBSET ({Operator} \cup Foreign)
    BY <1>0, <1>4, NamesAssumption
    DEF ForeignFinalizerAdd, ForeignFinalizerRemove, DeviceConfig
  <2>2. PICK fs \in SUBSET ({Operator} \cup Foreign) :
          /\ WriteDC(WithFinalizers(dc, fs)) /\ UNCHANGED <<obj, uid>>
          /\ Operator \in fs <=> Operator \in dc.fins
    BY <1>4, <2>1 DEF ForeignFinalizerAdd, ForeignFinalizerRemove, objVars
  <2> QED
    BY <2>1, <2>2, FinalizersWritten
<1>5. ASSUME NEW k \in Children, NEW o \in AlienOwners, AlienCreate(k, o) PROVE PromiseStep
  <2> DEFINE v == [spec |-> Blank(k), owner |-> o, kmm |-> FALSE, deleting |-> FALSE]
  <2>1. WriteObj(k, v) /\ UNCHANGED <<dc, uid>> /\ obj[k] = None
    BY <1>5 DEF AlienCreate, Touch, dcVars
  <2>2. v \in Object(k)
    BY BlankType, NamesAssumption DEF Object
  <2>3. OwnerOf(v) = o
    BY <2>2, NoneAssumption DEF OwnerOf
  <2> QED
    BY <2>1, <2>3, ObjectWritten
<1>6. ASSUME NEW k \in Children, AlienEdit(k) PROVE PromiseStep
  <2> DEFINE v == [obj[k] EXCEPT !.spec = Blank(k)]
  <2>1. WriteObj(k, v) /\ UNCHANGED <<dc, uid>> /\ obj[k] \in Object(k)
    BY <1>0, <1>6 DEF AlienEdit, Touch, dcVars
  <2>2. v \in Object(k) /\ v.owner = obj[k].owner
    BY <2>1, BlankType DEF Object
  <2>3. OwnerOf(v) = OwnerOf(obj[k])
    BY <2>1, <2>2, NoneAssumption DEF OwnerOf
  <2> QED
    BY <2>1, <2>3, ObjectWritten
<1>7. ASSUME NEW k \in Children, AlienDelete(k) \/ GarbageCollect(k) PROVE PromiseStep
  <2>1. /\ WriteObj(k, Deleted(obj[k])) /\ UNCHANGED <<dc, uid>> /\ obj[k] \in Object(k)
    BY <1>0, <1>7 DEF AlienDelete, Touch, GarbageCollect, dcVars
  <2> QED
    BY <2>1, DeletedKeepsOwner, ObjectWritten
<1>8. CASE KMMClaim
  <2> DEFINE v == [obj["module"] EXCEPT !.kmm = TRUE]
  <2>1. /\ WriteObj("module", v) /\ UNCHANGED <<dc, uid>> /\ "module" \in Children
        /\ obj["module"] \in Object("module")
    BY <1>0, <1>8 DEF KMMClaim, dcVars, Children
  <2>2. v \in Object("module") /\ v.owner = obj["module"].owner
    BY <2>1 DEF Object
  <2>3. OwnerOf(v) = OwnerOf(obj["module"])
    BY <2>1, <2>2, NoneAssumption DEF OwnerOf
  <2> QED
    BY <2>1, <2>3, ObjectWritten
<1>9. CASE KMMRelease
  BY <1>9, ObjectWritten, "module" \in Children DEF KMMRelease, dcVars, Children
<1> QED
  BY <1>1, <1>2, <1>3, <1>4, <1>5, <1>6, <1>7, <1>8, <1>9 DEF Environment

-----------------------------------------------------------------------------
LEMMA FinalizerRequestPromise ==
  ASSUME TypeOK, FinalizerInv, SetFinalizer \/ RemoveFinalizer
  PROVE  PromiseStep
<1>0. wdc \in DeviceConfig /\ dc \in DeviceConfig \cup {None}
  BY DEF SetFinalizer, RemoveFinalizer, TypeOK, WorkerTypeOK, ClusterTypeOK, DCTypeOK
<1>1. CASE UNCHANGED dcVars
  <2>1. UNCHANGED <<dc, obj, uid>>
    BY <1>1 DEF SetFinalizer, RemoveFinalizer, dcVars, objVars
  <2> QED
    BY <2>1, NothingChanged
<1>2. CASE ~UNCHANGED dcVars /\ SetFinalizer
  <2> DEFINE fs == wdc.fins \cup {Operator}
  <2>1. /\ dc # None /\ FinalizersAccepted(dc, fs) /\ WriteDC(WithFinalizers(dc, fs))
        /\ UNCHANGED <<obj, uid>>
    BY <1>2 DEF SetFinalizer, PatchFinalizers, objVars
  <2>2. fs \in SUBSET ({Operator} \cup Foreign) /\ Operator \in fs
    BY <1>0 DEF DeviceConfig
  <2>3. Operator \notin dc.fins => ~dc.deleting
    BY <2>1 DEF FinalizersAccepted
  <2> HIDE DEF fs
  <2> QED
    BY <2>1, <2>2, <2>3, FinalizersWritten
<1>3. CASE ~UNCHANGED dcVars /\ RemoveFinalizer
  <2> DEFINE fs == IF Operator \in wdc.fins \/ dc = None THEN wdc.fins \ {Operator} ELSE dc.fins
  <2>1. /\ dc # None /\ WriteDC(WithFinalizers(dc, fs)) /\ UNCHANGED <<obj, uid>>
        /\ pc = "finalize"
    BY <1>3 DEF RemoveFinalizer, PatchFinalizers, objVars
  <2>2. fs \in SUBSET ({Operator} \cup Foreign)
    BY <1>0, <2>1 DEF DeviceConfig
  <2>3. Operator \in fs => Operator \in dc.fins
    BY <2>1
  <2>4. ASSUME Operator \notin fs, Operator \in dc.fins PROVE dc.deleting
    <3>1. HasFinalizer(wdc) /\ HasFinalizer(dc)
      BY <1>0, <2>1, <2>4, NoneAssumption DEF HasFinalizer
    <3>2. DeletionSeen(dc.uid)
      BY <2>1, <3>1 DEF FinalizerInv, FinalizingTheDeleted
    <3>3. /\ Seen(0) = dcCache /\ Seen(Lag) = dc /\ 0 \in Ages /\ Lag \in Ages
          /\ Lag \in Nat
      BY LagType DEF FinalizerInv, CacheReaches, TypeOK, ClusterTypeOK
    <3>4. Follows(0, Lag)
      BY <2>1, <3>2, <3>3 DEF FinalizerInv, Unbroken, DeletionSeen, Ages
    <3> QED
      BY <3>2, <3>3, <3>4 DEF Follows, DeletionSeen
  <2> HIDE DEF fs
  <2> QED
    BY <2>1, <2>2, <2>3, <2>4, FinalizersWritten
<1> QED
  BY <1>1, <1>2, <1>3

(***************************************************************************)
(* What is created or patched is given to the worker's DeviceConfig, which *)
(* FinalizerProtects says is the one that is held.                         *)
(***************************************************************************)
LEMMA HandlePromise ==
  ASSUME TypeOK, FinalizerProtects, NEW k \in Children, NEW next \in Children,
         CreateOrPatch(k, Goto(next)) \/ CreateOrPatch(k, Done)
  PROVE  PromiseStep
<1>0. /\ wdc # None /\ HasFinalizer(dc) /\ dc.uid = wdc.uid /\ UNCHANGED <<dc, uid>>
      /\ obj[k] \in Object(k) \cup {None}
  BY DEF CreateOrPatch, FinalizerProtects, Live, HasFinalizer, TypeOK, WorkerTypeOK, dcVars,
         ClusterTypeOK, ObjTypeOK, Children
<1>1. CASE UNCHANGED objVars
  BY <1>0, <1>1, NothingChanged DEF objVars
<1>2. CASE ~UNCHANGED objVars /\ objCache[k] = None
  <2>1. WriteObj(k, NewObject(k))
    BY <1>2 DEF CreateOrPatch, Create, Patch
  <2>2. NewObject(k) # None /\ NewObject(k).owner = wdc.uid
    BY <1>0, WrittenObjectType, NoneAssumption DEF NewObject
  <2>3. OwnerOf(NewObject(k)) = dc.uid
    BY <1>0, <2>2 DEF OwnerOf
  <2> QED
    BY <1>0, <2>1, <2>3, ObjectWritten
<1>3. CASE ~UNCHANGED objVars /\ objCache[k] # None
  <2>1. WriteObj(k, PatchedObject(k)) /\ obj[k] # None
    BY <1>3 DEF CreateOrPatch, Create, Patch, PatchFails
  <2>2. PatchedObject(k) # None /\ PatchedObject(k).owner \in {wdc.uid, obj[k].owner}
    BY <1>0, <1>3, <2>1, WrittenObjectType, NoneAssumption
    DEF PatchedObject, MergeField, Object
  <2>3. OwnerOf(PatchedObject(k)) = dc.uid \/ OwnerOf(PatchedObject(k)) = OwnerOf(obj[k])
    BY <1>0, <2>1, <2>2 DEF OwnerOf
  <2> QED
    BY <1>0, <2>1, <2>3, ObjectWritten
<1> QED
  BY <1>1, <1>2, <1>3

LEMMA DeletePromise ==
  ASSUME TypeOK, FinalizeMetrics \/ FinalizeModule
  PROVE  PromiseStep
<1>1. PICK k \in Children : DeleteChild(k)
  BY DEF FinalizeMetrics, FinalizeModule, Children
<1>2. UNCHANGED <<dc, uid>> /\ obj[k] \in Object(k) \cup {None}
  BY <1>1 DEF DeleteChild, dcVars, TypeOK, ClusterTypeOK, ObjTypeOK
<1>3. CASE obj[k] = None
  BY <1>1, <1>2, <1>3, NothingChanged DEF DeleteChild, objVars
<1>4. CASE obj[k] # None
  BY <1>1, <1>2, <1>4, DeletedKeepsOwner, ObjectWritten DEF DeleteChild
<1> QED
  BY <1>3, <1>4

LEMMA NextPromise ==
  ASSUME TypeOK, FinalizerInv, [Next]_vars
  PROVE  PromiseStep
<1>1. CASE Environment
  BY <1>1, EnvironmentPromise
<1>2. CASE Deliver \/ Resync \/ Reconcile \/ Fault \/ Restart \/ UNCHANGED vars
  <2>1. UNCHANGED <<dc, obj, uid>>
    BY <1>2 DEF Deliver, DeliverDC, DeliverChild, Resync, Reconcile, Fault, Restart, vars,
       clusterVars, dcVars, objVars
  <2> QED
    BY <2>1, NothingChanged
<1>3. CASE SetFinalizer \/ RemoveFinalizer
  BY <1>3, FinalizerRequestPromise
<1>4. CASE Handle
  BY <1>4, HandlePromise
  DEF Handle, HandleKMMModule, HandleCustomScheduler, HandleCustomSchedulerExtension,
      HandleNodeMetrics, Children, FinalizerInv
<1>5. CASE FinalizeMetrics \/ FinalizeModule
  BY <1>5, DeletePromise
<1> QED
  BY <1>1, <1>2, <1>3, <1>4, <1>5 DEF Next, Worker, Finalize

(***************************************************************************)
(* The operator implements OwnedResources, whatever is created, edited,    *)
(* deleted or touched by others, in whatever order, and however often      *)
(* requests fail or the operator crashes (every handler of                 *)
(* device_config_reconciler.go).                                           *)
(***************************************************************************)
THEOREM PromiseKept == Spec => KeepsThePromise
<1>1. Init => Promise!OwnedInit
  BY InitPromise
<1>2. TypeOK /\ FinalizerInv /\ [Next]_vars => [Promise!OwnedNext]_Promise!ownedVars
  BY NextPromise DEF PromiseStep, Stutter, Promise!ownedVars
<1> QED
  BY <1>1, <1>2, TypeCorrect, FinalizerInvariance, PTL
  DEF Spec, KeepsThePromise, Promise!OwnedSpec
=============================================================================
