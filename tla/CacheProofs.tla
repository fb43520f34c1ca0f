---------------------------- MODULE CacheProofs -----------------------------
(***************************************************************************)
(* What the worker may rely on although it reads from a cache: once every  *)
(* change has been delivered the cache is right.  From this follow the     *)
(* order of the teardown and what is left of other controllers' marks.     *)
(***************************************************************************)
EXTENDS ReconcilerTypeProofs

(* The newest state of object k that the watch carries is the server's. *)
Newest(k) == IF Len(objWatch[k]) = 0 THEN objCache[k] ELSE objWatch[k][Len(objWatch[k])]

CacheCoherent == \A k \in Children : Newest(k) = obj[k]

-----------------------------------------------------------------------------
LEMMA WriteKeepsCoherence ==
  ASSUME ObjTypeOK, CacheCoherent, NEW k \in Children, NEW v, WriteObj(k, v)
  PROVE  CacheCoherent'
<1> SUFFICES ASSUME NEW j \in Children PROVE Newest(j)' = obj'[j]
  BY DEF CacheCoherent
<1>1. obj'[j] = IF j = k THEN v ELSE obj[j]
  BY DEF WriteObj, ObjTypeOK
<1>2. CASE j # k \/ v = obj[k]
  <2>1. objWatch'[j] = objWatch[j] /\ objCache' = objCache /\ obj'[j] = obj[j]
    BY <1>1, <1>2 DEF WriteObj, ObjTypeOK
  <2> QED
    BY <2>1 DEF Newest, CacheCoherent
<1>3. CASE j = k /\ v # obj[k]
  <2>1. objWatch'[k] = Append(objWatch[k], v)
    BY <1>3 DEF WriteObj, ObjTypeOK
  <2>2. /\ Len(objWatch[k]) \in Nat /\ Len(objWatch'[k]) = Len(objWatch[k]) + 1
        /\ objWatch'[k][Len(objWatch[k]) + 1] = v
    BY <2>1 DEF ObjTypeOK
  <2> QED
    BY <1>1, <1>3, <2>2 DEF Newest
<1> QED
  BY <1>2, <1>3

LEMMA SameKeepsCoherence ==
  ASSUME CacheCoherent, UNCHANGED objVars PROVE CacheCoherent'
  BY DEF CacheCoherent, Newest, objVars

LEMMA DeliveryKeepsCoherence ==
  ASSUME ObjTypeOK, CacheCoherent, NEW k \in Children, DeliverChild(k)
  PROVE  CacheCoherent'
<1> SUFFICES ASSUME NEW j \in Children PROVE Newest(j)' = obj'[j]
  BY DEF CacheCoherent
<1>1. CASE j # k
  <2>1. objWatch'[j] = objWatch[j] /\ objCache'[j] = objCache[j] /\ obj' = obj
    BY <1>1 DEF DeliverChild, ObjTypeOK
  <2> QED
    BY <2>1 DEF Newest, CacheCoherent
<1>2. CASE j = k
  <2> DEFINE q == objWatch[k]
  <2>1. /\ objWatch'[k] = Tail(q) /\ objCache'[k] = Head(q) /\ obj' = obj
        /\ q # <<>> /\ q \in Seq(Object(k) \cup {None})
    BY DEF DeliverChild, ObjTypeOK
  <2>2. obj[k] = q[Len(q)]
    BY <2>1 DEF Newest, CacheCoherent
  <2>3. /\ Len(q) \in Nat \ {0} /\ Len(Tail(q)) = Len(q) - 1 /\ Head(q) = q[1]
        /\ \A i \in 1..(Len(q) - 1) : Tail(q)[i] = q[i + 1]
    BY <2>1
  <2> HIDE DEF q
  <2>4. CASE Len(q) = 1
    <3>1. Len(objWatch'[k]) = 0 /\ objCache'[k] = q[Len(q)]
      BY <2>1, <2>3, <2>4
    <3> QED
      BY <1>2, <2>1, <2>2, <3>1 DEF Newest
  <2>5. CASE Len(q) # 1
    <3>1. Len(q) - 1 \in 1..(Len(q) - 1) /\ (Len(q) - 1) + 1 = Len(q)
      BY <2>3, <2>5
    <3>2. Tail(q)[Len(q) - 1] = q[Len(q)]
      BY <2>3, <3>1
    <3>3. Len(objWatch'[k]) # 0 /\ objWatch'[k][Len(objWatch'[k])] = q[Len(q)]
      BY <2>1, <2>3, <2>5, <3>2
    <3> QED
      BY <1>2, <2>1, <2>2, <3>3 DEF Newest
  <2> QED
    BY <2>4, <2>5
<1> QED
  BY <1>1, <1>2

LEMMA EnvironmentKeepsCoherence ==
  ASSUME TypeOK, CacheCoherent, Environment
  PROVE  CacheCoherent'
<1>0. ObjTypeOK /\ "module" \in Children
  BY DEF TypeOK, ClusterTypeOK, Children
<1>1. CASE UNCHANGED objVars
  BY <1>1, SameKeepsCoherence
<1>2. CASE \E k \in Children : \E v : WriteObj(k, v)
  BY <1>0, <1>2, WriteKeepsCoherence
<1>3. (UNCHANGED objVars) \/ \E k \in Children : \E v : WriteObj(k, v)
  BY <1>0
  DEF Environment, UserCreate, UserEdit, UserDelete, ForeignFinalizerAdd,
      ForeignFinalizerRemove, AlienCreate, AlienEdit, AlienDelete, Touch, GarbageCollect,
      KMMClaim, KMMRelease
<1> QED
  BY <1>1, <1>2, <1>3

LEMMA WorkerKeepsCoherence ==
  ASSUME TypeOK, CacheCoherent, Worker
  PROVE  CacheCoherent'
<1>0. ObjTypeOK
  BY DEF TypeOK, ClusterTypeOK
<1>1. (UNCHANGED objVars) \/ \E k \in Children : \E v : WriteObj(k, v)
  <2>1. CASE Reconcile \/ SetFinalizer \/ RemoveFinalizer
    BY <2>1 DEF Reconcile, SetFinalizer, RemoveFinalizer, clusterVars, objVars
  <2>2. CASE Handle
    BY <2>2
    DEF Handle, HandleKMMModule, HandleCustomScheduler, HandleCustomSchedulerExtension,
        HandleNodeMetrics, CreateOrPatch, Create, Patch, Children
  <2>3. CASE FinalizeMetrics \/ FinalizeModule
    BY <2>3 DEF FinalizeMetrics, FinalizeModule, DeleteChild, Children
  <2> QED
    BY <2>1, <2>2, <2>3 DEF Worker, Finalize
<1> QED
  BY <1>0, <1>1, SameKeepsCoherence, WriteKeepsCoherence

LEMMA NextKeepsCoherence ==
  ASSUME TypeOK, CacheCoherent, [Next]_vars
  PROVE  CacheCoherent'
<1>1. CASE Environment
  BY <1>1, EnvironmentKeepsCoherence
<1>2. CASE DeliverDC \/ Resync \/ Fault \/ UNCHANGED vars
  BY <1>2, SameKeepsCoherence DEF DeliverDC, Resync, Fault, vars, clusterVars, objVars
<1>3. ASSUME NEW k \in Children, DeliverChild(k) PROVE CacheCoherent'
  BY <1>3, DeliveryKeepsCoherence DEF TypeOK, ClusterTypeOK
<1>4. CASE Restart
  BY <1>4 DEF Restart, CacheCoherent, Newest
<1>5. CASE Worker
  BY <1>5, WorkerKeepsCoherence
<1> QED
  BY <1>1, <1>2, <1>3, <1>4, <1>5 DEF Next, Deliver

LEMMA CoherenceInvariance == Spec => [](TypeOK /\ CacheCoherent)
<1>1. Init => CacheCoherent
  BY DEF Init, ClusterInit, CacheCoherent, Newest
<1>2. TypeOK /\ CacheCoherent /\ [Next]_vars => CacheCoherent'
  BY NextKeepsCoherence
<1> QED
  BY <1>1, <1>2, TypeCorrect, PTL DEF Spec

LEMMA NothingUnseen ==
  ASSUME CacheCoherent, NEW k \in Children, objWatch[k] = <<>>
  PROVE  objCache[k] = obj[k]
  BY DEF CacheCoherent, Newest

-----------------------------------------------------------------------------
LEMMA OnlyTheWorkerReleases ==
  ASSUME TypeOK, [Next]_vars, ReleasesFinalizer
  PROVE  RemoveFinalizer
<1>0. dc # None /\ dc \in DeviceConfig /\ Operator \in dc.fins
  BY DEF ReleasesFinalizer, TypeOK, ClusterTypeOK, DCTypeOK
<1>1. ~Environment
  <2>1. ASSUME NEW s \in Specs, UserCreate(s) \/ UserEdit(s) PROVE FALSE
    <3>1. dc' = [dc EXCEPT !.spec = s]
      BY <1>0, <2>1 DEF UserCreate, UserEdit, WriteDC
    <3>2. dc' \in DeviceConfig /\ dc'.fins = dc.fins
      BY <1>0, <3>1, SpecsAssumption DEF DeviceConfig
    <3> QED
      BY <1>0, <3>2, NoneAssumption DEF ReleasesFinalizer
  <2>2. CASE UserDelete
    <3>1. dc' = [dc EXCEPT !.deleting = TRUE]
      BY <1>0, <2>2 DEF UserDelete, WriteDC
    <3>2. dc' \in DeviceConfig /\ dc'.fins = dc.fins
      BY <1>0, <3>1 DEF DeviceConfig
    <3> QED
      BY <1>0, <3>2, NoneAssumption DEF ReleasesFinalizer
  <2>3. ASSUME NEW f \in Foreign, ForeignFinalizerAdd(f) \/ ForeignFinalizerRemove(f)
        PROVE  FALSE
    <3>1. PICK fs \in SUBSET ({Operator} \cup Foreign) :
            dc' = WithFinalizers(dc, fs) /\ Operator \in fs
      BY <1>0, <2>3, NamesAssumption
      DEF ForeignFinalizerAdd, ForeignFinalizerRemove, WriteDC, DeviceConfig
    <3>2. dc' \in DeviceConfig /\ dc'.fins = fs
      BY <1>0, <3>1 DEF WithFinalizers, DeviceConfig
    <3> QED
      BY <3>1, <3>2, NoneAssumption DEF ReleasesFinalizer
  <2>4. UNCHANGED dc => FALSE
    BY DEF ReleasesFinalizer
  <2> QED
    BY <2>1, <2>2, <2>3, <2>4
    DEF Environment, AlienCreate, AlienEdit, AlienDelete, Touch, GarbageCollect, KMMClaim,
        KMMRelease, dcVars
<1>2. ~SetFinalizer
  <2> SUFFICES ASSUME SetFinalizer PROVE FALSE
    OBVIOUS
  <2> DEFINE fs == wdc.fins \cup {Operator}
  <2>1. dc' = dc \/ dc' = WithFinalizers(dc, fs)
    BY DEF SetFinalizer, PatchFinalizers, WriteDC, dcVars
  <2>2. wdc \in DeviceConfig
    BY DEF SetFinalizer, TypeOK, WorkerTypeOK
  <2>3. dc' = WithFinalizers(dc, fs) => dc' \in DeviceConfig /\ dc'.fins = fs
    BY <1>0, <2>2 DEF WithFinalizers, DeviceConfig
  <2> QED
    BY <2>1, <2>3, NoneAssumption DEF ReleasesFinalizer
<1>3. UNCHANGED dc => FALSE
  BY DEF ReleasesFinalizer
<1>4. Deliver \/ Resync \/ Reconcile \/ Handle \/ FinalizeMetrics \/ FinalizeModule \/ Fault
        \/ Restart \/ UNCHANGED vars => UNCHANGED dc
  BY DEF Deliver, DeliverDC, DeliverChild, Resync, Reconcile, Handle, HandleKMMModule,
     HandleCustomScheduler, HandleCustomSchedulerExtension, HandleNodeMetrics, CreateOrPatch,
     FinalizeMetrics, FinalizeModule, DeleteChild, Fault, Restart, vars, clusterVars, dcVars
<1> QED
  BY <1>1, <1>2, <1>3, <1>4 DEF Next, Worker, Finalize

(***************************************************************************)
(* The worker takes the finalizer off, and deletes the Module, only when   *)
(* what has to go before is gone or has changed unseen                     *)
(* (finalizeDeviceConfig).                                                 *)
(***************************************************************************)
THEOREM TeardownKeepsOrder == Spec => TeardownOrder
<1> DEFINE Ordered ==
      /\ pc = "finalize" /\ pc' = "idle" /\ obj'["module"] # obj["module"]
           => GoneOrUnseen("metrics")
      /\ ReleasesFinalizer => GoneOrUnseen("metrics") /\ GoneOrUnseen("module")
<1>1. ASSUME TypeOK, CacheCoherent, [Next]_vars PROVE Ordered
  <2>0. "metrics" \in Children /\ "module" \in Children
    BY DEF Children
  <2>1. \A k \in Children : objCache[k] = None => GoneOrUnseen(k)
    BY <1>1, NothingUnseen DEF GoneOrUnseen
  <2>2. ASSUME pc = "finalize", pc' = "idle", obj'["module"] # obj["module"]
        PROVE  GoneOrUnseen("metrics")
    <3>1. ~(Environment /\ UNCHANGED workerVars)
      BY <2>2 DEF workerVars
    <3>2. FinalizeModule \/ FinalizeMetrics
      BY <1>1, <2>2, <3>1
      DEF Next, Deliver, DeliverDC, DeliverChild, Resync, Worker, Reconcile, SetFinalizer,
          Handle, HandleKMMModule, HandleCustomScheduler, HandleCustomSchedulerExtension,
          HandleNodeMetrics, CreateOrPatch, Finalize, RemoveFinalizer, Fault, Restart,
          clusterVars, workerVars, objVars, vars
    <3>3. CASE FinalizeModule
      BY <2>0, <2>1, <3>3 DEF FinalizeModule
    <3>4. CASE FinalizeMetrics
      BY <1>1, <2>0, <2>2, <3>4
      DEF FinalizeMetrics, DeleteChild, WriteObj, objVars, TypeOK, ClusterTypeOK, ObjTypeOK
    <3> QED
      BY <3>2, <3>3, <3>4
  <2>3. ReleasesFinalizer => GoneOrUnseen("metrics") /\ GoneOrUnseen("module")
    BY <1>1, <2>0, <2>1, OnlyTheWorkerReleases DEF RemoveFinalizer
  <2> QED
    BY <2>2, <2>3
<1>2. TypeOK /\ CacheCoherent /\ [Next]_vars => [Ordered]_vars
  BY <1>1
<1> QED
  BY <1>2, CoherenceInvariance, PTL DEF Spec, TeardownOrder

-----------------------------------------------------------------------------
(* The worker's moves, apart from everything it is called by. *)
LEMMA OnlyTheWorkerMoves ==
  ASSUME [Next]_vars, pc # pc'
  PROVE  Worker \/ UNCHANGED <<dc, obj>>
  BY DEF Next, Deliver, DeliverDC, DeliverChild, Resync, Fault, Restart, workerVars,
     clusterVars, vars

(***************************************************************************)
(* The worker takes an object from another controller only if the cache    *)
(* has not seen yet that it has one (CreateOrPatch in the handlers).       *)
(***************************************************************************)
THEOREM StrangersKeepTheirs == Spec => StrangersLeftAlone
<1> DEFINE Kept == pc # pc' => \A k \in Children :
                     /\ obj[k] # None /\ obj[k].owner = Stranger
                     /\ obj'[k] # None /\ obj'[k].owner # Stranger
                     => objWatch[k] # <<>>
<1>1. ASSUME TypeOK, CacheCoherent, [Next]_vars PROVE Kept
  <2> SUFFICES ASSUME pc # pc', NEW k \in Children, obj[k] # None,
                      obj[k].owner = Stranger, obj'[k] # None, obj'[k].owner # Stranger,
                      objWatch[k] = <<>>
               PROVE  FALSE
    OBVIOUS
  <2>0. /\ obj[k] \in Object(k) /\ DOMAIN obj = Children /\ objCache[k] = obj[k]
        /\ Object(k) \cap {None} = {}
    BY <1>1, NothingUnseen, NoneAssumption DEF TypeOK, ClusterTypeOK, ObjTypeOK
  <2>1. Worker
    BY <1>1, OnlyTheWorkerMoves
  <2>2. obj # obj'
    OBVIOUS
  <2>3. CASE Handle
    <3>1. PICK j \in Children :
            \/ objCache[j] = None /\ ~CreateFails(j) /\ WriteObj(j, NewObject(j))
            \/ objCache[j] # None /\ ~PatchFails(j) /\ WriteObj(j, PatchedObject(j))
      BY <2>2, <2>3
      DEF Handle, HandleKMMModule, HandleCustomScheduler, HandleCustomSchedulerExtension,
          HandleNodeMetrics, CreateOrPatch, Create, Patch, Children, objVars
    <3>2. j = k
      BY <2>0, <3>1 DEF WriteObj
    <3> QED
      BY <2>0, <3>1, <3>2 DEF PatchFails, CreateFails
  <2>4. CASE Finalize
    <3>1. PICK j \in Children : WriteObj(j, Deleted(obj[j]))
      BY <2>2, <2>4
      DEF Finalize, FinalizeMetrics, FinalizeModule, RemoveFinalizer, DeleteChild, Children,
          objVars
    <3>2. j = k
      BY <2>0, <3>1 DEF WriteObj
    <3>3. obj'[k] = Deleted(obj[k])
      BY <2>0, <3>1, <3>2 DEF WriteObj
    <3>4. Deleted(obj[k]) # None => Deleted(obj[k]).owner = obj[k].owner
      BY <2>0 DEF Deleted, Object
    <3> QED
      BY <3>3, <3>4
  <2> QED
    BY <2>1, <2>2, <2>3, <2>4 DEF Worker, Reconcile, SetFinalizer, clusterVars, objVars
<1>2. TypeOK /\ CacheCoherent /\ [Next]_vars => [Kept]_vars
  BY <1>1
<1> QED
  BY <1>2, CoherenceInvariance, PTL DEF Spec, StrangersLeftAlone

(***************************************************************************)
(* The worker loses another controller's finalizer only if its copy of the *)
(* DeviceConfig does not have it (setFinalizer, finalizeDeviceConfig).     *)
(***************************************************************************)
THEOREM OthersFinalizersStay == Spec => ForeignFinalizersKept
<1> DEFINE Kept == pc # pc' /\ dc # None =>
                     \A f \in dc.fins \ {Operator} :
                       dc' = None \/ f \notin dc'.fins => f \notin wdc.fins
<1>1. ASSUME TypeOK, [Next]_vars PROVE Kept
  <2> SUFFICES ASSUME pc # pc', dc # None, NEW f \in dc.fins \ {Operator},
                      dc' = None \/ f \notin dc'.fins
               PROVE  f \notin wdc.fins
    OBVIOUS
  <2>1. Worker /\ dc # dc' /\ dc \in DeviceConfig
    BY <1>1, OnlyTheWorkerMoves DEF TypeOK, ClusterTypeOK, DCTypeOK
  <2>2. ASSUME NEW fs \in SUBSET ({Operator} \cup Foreign), dc' = WithFinalizers(dc, fs)
        PROVE  f \notin fs
    <3>1. CASE dc.deleting /\ fs = {}
      BY <3>1
    <3>2. CASE ~(dc.deleting /\ fs = {})
      <4>1. dc'.fins = fs /\ dc' \in DeviceConfig
        BY <2>1, <2>2, <3>2 DEF WithFinalizers, DeviceConfig
      <4> QED
        BY <4>1, NoneAssumption
    <3> QED
      BY <3>1, <3>2
  <2>3. CASE SetFinalizer
    <3>1. wdc.fins \cup {Operator} \in SUBSET ({Operator} \cup Foreign)
      BY <1>1, <2>3 DEF SetFinalizer, TypeOK, WorkerTypeOK, DeviceConfig
    <3> QED
      BY <2>1, <2>2, <2>3, <3>1 DEF SetFinalizer, PatchFinalizers, WriteDC, dcVars
  <2>4. CASE RemoveFinalizer
    <3>1. wdc.fins \in SUBSET ({Operator} \cup Foreign)
      BY <1>1, <2>4 DEF RemoveFinalizer, TypeOK, WorkerTypeOK, DeviceConfig
    <3> QED
      BY <2>1, <2>2, <2>4, <3>1 DEF RemoveFinalizer, PatchFinalizers, WriteDC, dcVars, DeviceConfig
  <2>5. ~Reconcile /\ ~Handle /\ ~FinalizeMetrics /\ ~FinalizeModule
    BY <2>1
    DEF Reconcile, Handle, HandleKMMModule, HandleCustomScheduler,
        HandleCustomSchedulerExtension, HandleNodeMetrics, CreateOrPatch, FinalizeMetrics,
        FinalizeModule, DeleteChild, clusterVars, dcVars
  <2> QED
    BY <2>1, <2>3, <2>4, <2>5 DEF Worker, Finalize
<1>2. TypeOK /\ [Next]_vars => [Kept]_vars
  BY <1>1
<1> QED
  BY <1>2, TypeCorrect, PTL DEF Spec, ForeignFinalizersKept
=============================================================================
