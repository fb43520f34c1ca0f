---------------------------- MODULE WakeupProofs ----------------------------
(***************************************************************************)
(* Why no wakeup is lost (QuietMeansDone), also when requests outlive      *)
(* their sender and the next operator starts from an old list: something   *)
(* that will call the worker is on its way, or nothing is left to do, or   *)
(* the worker is about to do it.                                           *)
(***************************************************************************)
EXTENDS LateRequests, CacheProofs, FinalizerProofs

-----------------------------------------------------------------------------
(***************************************************************************)
(* The invariant.  An event wakes the DeviceConfig if it is one of the     *)
(* DeviceConfig's own, or if the object it is about is controlled by one   *)
(* before or after; the old state is that of the event before it.          *)
(***************************************************************************)
News(k) ==
  /\ objWatch[k] # <<>>
  /\ Owned(objCache[k]) \/ \E i \in DOMAIN objWatch[k] : Owned(objWatch[k][i])

Coming   == dcWatch # <<>> \/ \E k \in Children : News(k)
WillWake == queued \/ Coming

(* The Module and the metrics DaemonSet are deleted by name.  Nobody hears *)
(* of that if no DeviceConfig controls them.                               *)
TeardownOwned ==
  \A k \in {"module", "metrics"} : obj[k] # None => Owned(obj[k])

(* Nothing is left to do.  Of a deletion this says something only if it is *)
(* heard of.                                                               *)
AtRest(heard) ==
  dc # None =>
    IF dc.deleting THEN heard => Operator \notin dc.fins \/ WaitsForKMM
                   ELSE Operator \in dc.fins /\ \A k \in Children : Conforms(k)

(* The objects that a reconciliation writes before it comes to step.       *)
HandledBefore(step) ==
  CASE step = "scheduler" -> {"module"}
    [] step = "extension" -> {"module", "scheduler"}
    [] step = "metrics"   -> {"module", "scheduler", "extension"}
    [] OTHER              -> {}

(* The worker has the DeviceConfig as it is, and has done what comes before *)
(* its next step.                                                           *)
Underway ==
  /\ pc # "idle" /\ dc = wdc
  /\ pc = "finalize" <=> dc.deleting
  /\ pc \in Children => Operator \in dc.fins
  /\ \A k \in HandledBefore(pc) : Conforms(k)

WakeInv(heard) ==
  WillWake \/ (pc = "idle" /\ AtRest(heard)) \/ Underway

(* What it rests on: the types, and that caches are right in the end.  KMM *)
(* holds Modules only: the metrics DaemonSet goes at once.                 *)
Unheld(k) == obj[k] # None => ~obj[k].kmm

Base == TypeOK /\ CacheCoherent /\ CacheReaches /\ Unheld("metrics")

-----------------------------------------------------------------------------
(***************************************************************************)
(* What any step writes to the server: nothing, a DeviceConfig or one      *)
(* object.  Only KMM makes KMM hold an object, and only a stranger makes   *)
(* one that no DeviceConfig controls.                                      *)
(***************************************************************************)
Proper(k, v) ==
  /\ v \in Object(k) \cup {None}
  /\ v # None =>
       /\ v.kmm => k = "module" \/ (obj[k] # None /\ obj[k].kmm)
       /\ \/ v.owner \in Uids \/ k \in AlienKinds
          \/ obj[k] # None /\ v.owner = obj[k].owner

ServerWrite ==
  \/ UNCHANGED <<dcVars, objVars>>
  \/ UNCHANGED objVars /\ \E v \in DeviceConfig \cup {None} : WriteDC(v)
  \/ UNCHANGED dcVars /\ \E k \in Children : \E v : Proper(k, v) /\ WriteObj(k, v)

LEMMA DeletedProper ==
  ASSUME ObjTypeOK, NEW k \in Children, obj[k] # None
  PROVE  Proper(k, Deleted(obj[k]))
<1>1. obj[k] \in Object(k)
  BY DEF ObjTypeOK
<1>2. Deleted(obj[k]) # None =>
        Deleted(obj[k]).kmm = obj[k].kmm /\ Deleted(obj[k]).owner = obj[k].owner
  BY <1>1 DEF Deleted, Object
<1> QED
  BY <1>1, <1>2, DeletedType DEF Proper

LEMMA EnvironmentWrites ==
  ASSUME TypeOK, Environment
  PROVE  ServerWrite
<1>0. DCTypeOK /\ ObjTypeOK /\ CountersTypeOK /\ "module" \in Children
  BY DEF TypeOK, ClusterTypeOK, Children
<1>1. ASSUME NEW s \in Specs, UserCreate(s) PROVE ServerWrite
  <2>1. [uid |-> uid + 1, spec |-> s, fins |-> {}, deleting |-> FALSE] \in DeviceConfig
    BY <1>0, <1>1, BoundsAssumption, SpecsAssumption
    DEF UserCreate, CountersTypeOK, DeviceConfig, Uids
  <2> QED
    BY <1>1, <2>1 DEF UserCreate, ServerWrite
<1>2. ASSUME NEW s \in Specs, UserEdit(s) PROVE ServerWrite
  <2>1. [dc EXCEPT !.spec = s] \in DeviceConfig
    BY <1>0, <1>2, SpecsAssumption DEF UserEdit, DCTypeOK, DeviceConfig
  <2> QED
    BY <1>2, <2>1 DEF UserEdit, ServerWrite
<1>3. CASE UserDelete
  <2>1. (IF dc.fins = {} THEN None ELSE [dc EXCEPT !.deleting = TRUE])
          \in DeviceConfig \cup {None}
    BY <1>0, <1>3 DEF UserDelete, DCTypeOK, DeviceConfig
  <2> QED
    BY <1>3, <2>1 DEF UserDelete, ServerWrite
<1>4. ASSUME NEW f \in Foreign, ForeignFinalizerAdd(f) \/ ForeignFinalizerRemove(f)
      PROVE  ServerWrite
  <2>1. /\ dc \in DeviceConfig
        /\ dc.fins \cup {f} \in SUBSET ({Operator} \cup Foreign)
        /\ dc.fins \ {f} \in SUBSET ({Operator} \cup Foreign)
    BY <1>0, <1>4 DEF ForeignFinalizerAdd, ForeignFinalizerRemove, DCTypeOK, DeviceConfig
  <2>2. /\ WithFinalizers(dc, dc.fins \cup {f}) \in DeviceConfig \cup {None}
        /\ WithFinalizers(dc, dc.fins \ {f}) \in DeviceConfig \cup {None}
    BY <2>1, WithFinalizersType
  <2> QED
    BY <1>4, <2>2 DEF ForeignFinalizerAdd, ForeignFinalizerRemove, ServerWrite
<1>5. ASSUME NEW k \in Children, NEW o \in AlienOwners, AlienCreate(k, o) PROVE ServerWrite
  <2> DEFINE v == [spec |-> Blank(k), owner |-> o, kmm |-> FALSE, deleting |-> FALSE]
  <2>1. v \in Object(k)
    BY BlankType, NamesAssumption DEF Object
  <2>2. Proper(k, v) /\ WriteObj(k, v) /\ UNCHANGED dcVars
    BY <1>5, <2>1 DEF AlienCreate, Touch, Proper
  <2> QED
    BY <2>2 DEF ServerWrite
<1>6. ASSUME NEW k \in Children, AlienEdit(k) PROVE ServerWrite
  <2> DEFINE v == [obj[k] EXCEPT !.spec = Blank(k)]
  <2>1. obj[k] \in Object(k) /\ v \in Object(k) /\ v.kmm = obj[k].kmm /\ v.owner = obj[k].owner
    BY <1>0, <1>6, BlankType DEF AlienEdit, ObjTypeOK, Object
  <2>2. Proper(k, v) /\ WriteObj(k, v) /\ UNCHANGED dcVars
    BY <1>6, <2>1 DEF AlienEdit, Touch, Proper
  <2> QED
    BY <2>2 DEF ServerWrite
<1>7. ASSUME NEW k \in Children, AlienDelete(k) \/ GarbageCollect(k) PROVE ServerWrite
  BY <1>0, <1>7, DeletedProper DEF AlienDelete, Touch, GarbageCollect, ServerWrite
<1>8. CASE KMMClaim
  <2> DEFINE v == [obj["module"] EXCEPT !.kmm = TRUE]
  <2>1. v \in Object("module") /\ v.owner = obj["module"].owner
    BY <1>0, <1>8 DEF KMMClaim, ObjTypeOK, Object
  <2>2. Proper("module", v) /\ WriteObj("module", v) /\ UNCHANGED dcVars
    BY <1>8, <2>1 DEF KMMClaim, Proper
  <2> QED
    BY <1>0, <2>2 DEF ServerWrite
<1>9. CASE KMMRelease
  BY <1>0, <1>9 DEF KMMRelease, ServerWrite, Proper
<1> QED
  BY <1>1, <1>2, <1>3, <1>4, <1>5, <1>6, <1>7, <1>8, <1>9 DEF Environment

LEMMA FinalizersWrite ==
  ASSUME DCTypeOK, NEW fs \in SUBSET ({Operator} \cup Foreign), PatchFinalizers(fs),
         UNCHANGED objVars
  PROVE  ServerWrite
<1>1. dc # None => WithFinalizers(dc, fs) \in DeviceConfig \cup {None}
  BY WithFinalizersType DEF DCTypeOK
<1> QED
  BY <1>1 DEF PatchFinalizers, ServerWrite

LEMMA HandlerWrites ==
  ASSUME TypeOK, NEW k \in Children, NEW next \in Children,
         CreateOrPatch(k, Goto(next)) \/ CreateOrPatch(k, Done)
  PROVE  ServerWrite
<1>0. ObjTypeOK /\ wdc # None /\ wdc.uid \in Uids
  BY DEF CreateOrPatch, TypeOK, ClusterTypeOK, WorkerTypeOK, Children, DeviceConfig
<1>1. CASE UNCHANGED objVars
  BY <1>1 DEF CreateOrPatch, ServerWrite
<1>2. CASE WriteObj(k, NewObject(k))
  <2>1. Proper(k, NewObject(k))
    BY <1>0, WrittenObjectType DEF Proper, NewObject
  <2> QED
    BY <1>2, <2>1 DEF CreateOrPatch, ServerWrite
<1>3. CASE objCache[k] # None /\ obj[k] # None /\ WriteObj(k, PatchedObject(k))
  <2>1. PatchedObject(k) \in Object(k) /\ obj[k] \in Object(k)
    BY <1>0, <1>3, WrittenObjectType DEF ObjTypeOK
  <2>2. /\ PatchedObject(k).kmm = obj[k].kmm
        /\ PatchedObject(k).owner \in {wdc.uid, obj[k].owner}
    BY <2>1 DEF PatchedObject, MergeField, Object
  <2>3. Proper(k, PatchedObject(k))
    BY <1>0, <1>3, <2>1, <2>2 DEF Proper
  <2> QED
    BY <1>3, <2>3 DEF CreateOrPatch, ServerWrite
<1> QED
  BY <1>1, <1>2, <1>3 DEF CreateOrPatch, Create, Patch, PatchFails

LEMMA WorkerWrites ==
  ASSUME TypeOK, Worker
  PROVE  ServerWrite
<1>0. DCTypeOK /\ ObjTypeOK /\ WorkerTypeOK
  BY DEF TypeOK, ClusterTypeOK
<1>1. CASE Reconcile
  BY <1>1 DEF Reconcile, ServerWrite, clusterVars, dcVars, objVars
<1>2. CASE SetFinalizer
  <2>1. wdc.fins \cup {Operator} \in SUBSET ({Operator} \cup Foreign)
    BY <1>0, <1>2 DEF SetFinalizer, WorkerTypeOK, DeviceConfig
  <2>2. UNCHANGED objVars /\ (UNCHANGED dcVars \/ PatchFinalizers(wdc.fins \cup {Operator}))
    BY <1>2 DEF SetFinalizer
  <2> QED
    BY <1>0, <2>1, <2>2, FinalizersWrite DEF ServerWrite
<1>3. CASE Handle
  BY <1>3, HandlerWrites
  DEF Handle, HandleKMMModule, HandleCustomScheduler, HandleCustomSchedulerExtension,
      HandleNodeMetrics, Children
<1>4. CASE FinalizeMetrics \/ FinalizeModule
  BY <1>0, <1>4, DeletedProper
  DEF FinalizeMetrics, FinalizeModule, DeleteChild, ServerWrite, Children
<1>5. CASE RemoveFinalizer
  <2>1. PICK fs : /\ fs = IF Operator \in wdc.fins \/ dc = None
                           THEN wdc.fins \ {Operator} ELSE dc.fins
                  /\ PatchFinalizers(fs) /\ UNCHANGED objVars
    BY <1>5 DEF RemoveFinalizer
  <2>2. fs \in SUBSET ({Operator} \cup Foreign)
    BY <1>0, <1>5, <2>1 DEF RemoveFinalizer, WorkerTypeOK, DCTypeOK, DeviceConfig
  <2> QED
    BY <1>0, <2>1, <2>2, FinalizersWrite
<1> QED
  BY <1>1, <1>2, <1>3, <1>4, <1>5 DEF Worker, Finalize

(***************************************************************************)
(* Every write keeps the types, and what the cache will see right.         *)
(***************************************************************************)
LEMMA WriteKeepsBase ==
  ASSUME Base, ServerWrite
  PROVE  /\ DCTypeOK' /\ ObjTypeOK'
         /\ CacheCoherent' /\ CacheReaches' /\ Unheld("metrics")'
<1>0. DCTypeOK /\ ObjTypeOK /\ "metrics" \in Children
  BY DEF Base, TypeOK, ClusterTypeOK, Children
<1>1. CASE UNCHANGED objVars
  <2>1. ObjTypeOK' /\ Unheld("metrics")'
    BY <1>0, <1>1 DEF objVars, ObjTypeOK, Unheld, Base
  <2>2. CacheCoherent'
    BY <1>1, SameKeepsCoherence DEF Base
  <2>3. CASE UNCHANGED dcVars
    BY <1>0, <2>1, <2>2, <2>3 DEF dcVars, DCTypeOK, CacheReaches, Seen, Lag, Base
  <2>4. ASSUME NEW v \in DeviceConfig \cup {None}, WriteDC(v) PROVE DCTypeOK' /\ CacheReaches'
    <3>1. /\ dc' = v /\ Lag \in Ages /\ Seen(Lag) = dc
          /\ \A i \in Ages : Seen(i)' = Seen(i)
          /\ (v = dc /\ Lag' = Lag) \/ Seen(Lag)' = v
      BY <1>0, <2>4, SeenAfterWrite, LagType DEF CacheReaches, Base
    <3> QED
      BY <1>0, <2>4, <3>1, WriteDCType DEF CacheReaches
  <2> QED
    BY <1>1, <2>1, <2>2, <2>3, <2>4 DEF ServerWrite
<1>2. ASSUME UNCHANGED dcVars, NEW k \in Children, NEW v, Proper(k, v), WriteObj(k, v)
      PROVE  DCTypeOK' /\ ObjTypeOK' /\ CacheCoherent' /\ CacheReaches' /\ Unheld("metrics")'
  <2>1. DCTypeOK' /\ CacheReaches'
    BY <1>0, <1>2 DEF dcVars, DCTypeOK, CacheReaches, Seen, Lag, Base
  <2>2. ObjTypeOK' /\ CacheCoherent'
    BY <1>0, <1>2, WriteObjType, WriteKeepsCoherence DEF Base, Proper
  <2>3. obj' = [obj EXCEPT ![k] = v] /\ DOMAIN obj = Children
    BY <1>0, <1>2 DEF WriteObj, ObjTypeOK
  <2>4. Unheld("metrics")'
    BY <1>0, <1>2, <2>3 DEF Unheld, Proper, Base
  <2> QED
    BY <2>1, <2>2, <2>4
<1> QED
  BY <1>1, <1>2 DEF ServerWrite

(* Only a stranger makes a Module or a DaemonSet of that name his own. *)
LEMMA WriteKeepsTeardownOwned ==
  ASSUME ObjTypeOK, TeardownOwned, ServerWrite, AlienKinds \cap {"module", "metrics"} = {}
  PROVE  TeardownOwned'
<1>1. CASE UNCHANGED objVars
  BY <1>1 DEF objVars, TeardownOwned, Owned
<1>2. ASSUME NEW k \in Children, NEW v, Proper(k, v), WriteObj(k, v)
      PROVE  TeardownOwned'
  <2>1. obj' = [obj EXCEPT ![k] = v] /\ DOMAIN obj = Children
    BY <1>2 DEF WriteObj, ObjTypeOK
  <2>2. k \in {"module", "metrics"} /\ v # None => Owned(v)
    BY <1>2 DEF Proper, Owned, TeardownOwned
  <2> QED
    BY <2>1, <2>2 DEF TeardownOwned, Owned
<1> QED
  BY <1>1, <1>2 DEF ServerWrite

LEMMA StepWrites ==
  ASSUME TypeOK, [Next]_vars
  PROVE  ServerWrite \/ DeliverDC \/ (\E k \in Children : DeliverChild(k)) \/ Restart
<1>1. UNCHANGED clusterVars => ServerWrite
  BY DEF clusterVars, ServerWrite, dcVars, objVars
<1> QED
  BY <1>1, EnvironmentWrites, WorkerWrites DEF Next, Deliver, Resync, Fault, vars

LEMMA NextKeepsBase ==
  ASSUME Base, [Next]_vars
  PROVE  Base'
<1>1. TypeOK' /\ CacheCoherent'
  BY NextType, NextKeepsCoherence DEF Base
<1>2. CASE ServerWrite
  BY <1>1, <1>2, WriteKeepsBase DEF Base
<1>3. CASE DeliverDC
  <2>1. /\ dc' = dc /\ Lag' = Lag - 1 /\ Lag \in Nat \ {0} /\ Seen(Lag) = dc
        /\ \A i \in Ages' : i + 1 \in Ages /\ Seen(i)' = Seen(i + 1)
    BY <1>3, SeenAfterDelivery DEF Base, TypeOK, ClusterTypeOK, CacheReaches
  <2>2. PICK n : n = Lag - 1
    OBVIOUS
  <2>3. n \in Ages' /\ n + 1 = Lag /\ Lag' = n
    BY <2>1, <2>2 DEF Ages
  <2>4. Seen(n)' = dc
    BY <2>1, <2>3
  <2>5. CacheReaches'
    BY <2>1, <2>3, <2>4 DEF CacheReaches
  <2> QED
    BY <1>1, <1>3, <2>5 DEF Base, Unheld, DeliverDC, objVars
<1>4. CASE \E k \in Children : DeliverChild(k)
  BY <1>1, <1>4 DEF Base, Unheld, DeliverChild, dcVars, CacheReaches, Seen, Lag
<1>5. CASE Restart
  BY <1>1, <1>5 DEF Base, Unheld, Restart, CacheReaches, Seen, Lag
<1> QED
  BY <1>2, <1>3, <1>4, <1>5, StepWrites DEF Base

-----------------------------------------------------------------------------
(***************************************************************************)
(* What comes stays on its way until it is delivered, and a write to an    *)
(* object that a DeviceConfig controls, before or after, is news.          *)
(***************************************************************************)
LEMMA WriteIsNews ==
  ASSUME ObjTypeOK, CacheCoherent, NEW k \in Children, NEW v, WriteObj(k, v),
         v # obj[k], Owned(obj[k]) \/ Owned(v)
  PROVE  News(k)'
<1>0. PICK q : q = objWatch[k]
  OBVIOUS
<1>1. objWatch'[k] = Append(q, v) /\ objCache'[k] = objCache[k] /\ q \in Seq(Object(k) \cup {None})
  BY <1>0 DEF WriteObj, ObjTypeOK
<1>2. /\ Len(q) \in Nat /\ DOMAIN Append(q, v) = 1..(Len(q) + 1)
      /\ Append(q, v)[Len(q) + 1] = v /\ Append(q, v) # <<>>
      /\ Len(q) # 0 => Len(q) \in 1..(Len(q) + 1) /\ Append(q, v)[Len(q)] = q[Len(q)]
  BY <1>1
<1>3. obj[k] = IF Len(q) = 0 THEN objCache[k] ELSE q[Len(q)]
  BY <1>0 DEF CacheCoherent, Newest
<1>4. CASE Owned(v)
  BY <1>1, <1>2, <1>4 DEF News, Owned
<1>5. CASE Owned(obj[k])
  BY <1>1, <1>2, <1>3, <1>5 DEF News, Owned
<1> QED
  BY <1>4, <1>5

LEMMA WriteKeepsNews ==
  ASSUME ObjTypeOK, NEW k \in Children, NEW v, WriteObj(k, v), NEW j \in Children, News(j)
  PROVE  News(j)'
<1> DEFINE q == objWatch[j]
<1>1. /\ objCache'[j] = objCache[j] /\ q \in Seq(Object(j) \cup {None})
      /\ objWatch'[j] = q \/ objWatch'[j] = Append(q, v)
  BY DEF WriteObj, ObjTypeOK
<1>2. /\ objWatch'[j] # <<>> /\ DOMAIN q \subseteq DOMAIN objWatch'[j]
      /\ \A i \in DOMAIN q : objWatch'[j][i] = q[i]
  BY <1>1 DEF News
<1> QED
  BY <1>1, <1>2 DEF News, Owned

LEMMA WriteKeepsComing ==
  ASSUME ObjTypeOK, DCTypeOK, Coming, ServerWrite
  PROVE  Coming'
<1>1. CASE UNCHANGED objVars
  <2>1. \A k \in Children : News(k) => News(k)'
    BY <1>1 DEF objVars, News, Owned
  <2>2. dcWatch # <<>> => dcWatch' # <<>>
    BY <1>1 DEF ServerWrite, dcVars, WriteDC, WriteObj, DCTypeOK
  <2> QED
    BY <2>1, <2>2 DEF Coming
<1>2. ASSUME UNCHANGED dcVars, NEW k \in Children, NEW v, WriteObj(k, v) PROVE Coming'
  BY <1>2, WriteKeepsNews DEF Coming, dcVars
<1> QED
  BY <1>1, <1>2 DEF ServerWrite

(* A DeviceConfig that changes is news. *)
LEMMA ChangeIsComing ==
  ASSUME DCTypeOK, NEW v, WriteDC(v), v # dc
  PROVE  Coming'
<1>1. dcWatch' # <<>>
  BY DEF WriteDC, DCTypeOK
<1> QED
  BY <1>1 DEF Coming

(***************************************************************************)
(* The rest and the work of the worker are not disturbed unheard.          *)
(***************************************************************************)
LEMMA HandledChildren == \A step : HandledBefore(step) \subseteq Children
  BY DEF HandledBefore, Children

LEMMA SameView ==
  ASSUME NEW heard \in BOOLEAN, UNCHANGED <<dc, pc, wdc>>,
         \A k \in Children : obj'[k] = obj[k]
  PROVE  /\ (pc = "idle" /\ AtRest(heard)) => (pc = "idle" /\ AtRest(heard))'
         /\ Underway => Underway'
<1>1. /\ \A k \in Children : Conforms(k)' <=> Conforms(k)
      /\ \A k \in HandledBefore(pc) : Conforms(k)' <=> Conforms(k)
      /\ WaitsForKMM' <=> WaitsForKMM
  BY HandledChildren DEF Conforms, WaitsForKMM, Children
<1> QED
  BY <1>1 DEF AtRest, Underway

LEMMA ServerKeepsWake ==
  ASSUME Base, NEW heard \in BOOLEAN, heard => TeardownOwned /\ TeardownOwned',
         ServerWrite, UNCHANGED <<queued, pc, wdc>>, WakeInv(heard)
  PROVE  WakeInv(heard)'
<1>0. DCTypeOK /\ ObjTypeOK /\ CacheCoherent
  BY DEF Base, TypeOK, ClusterTypeOK
<1>1. CASE WillWake
  BY <1>0, <1>1, WriteKeepsComing DEF WillWake, WakeInv
<1>2. CASE UNCHANGED dc /\ \A k \in Children : obj'[k] = obj[k]
  BY <1>1, <1>2, SameView DEF WakeInv
<1>3. ASSUME NEW v, WriteDC(v), v # dc PROVE WakeInv(heard)'
  BY <1>0, <1>3, ChangeIsComing DEF WakeInv, WillWake
<1>4. ASSUME UNCHANGED dcVars, NEW k \in Children, NEW v, Proper(k, v), WriteObj(k, v),
             v # obj[k], ~WillWake
      PROVE  WakeInv(heard)'
  <2>1. CASE Owned(obj[k]) \/ Owned(v)
    BY <1>0, <1>4, <2>1, WriteIsNews DEF WakeInv, WillWake, Coming
  <2>2. CASE ~Owned(obj[k]) /\ ~Owned(v)
    <3>1. dc' = dc /\ dc \in DeviceConfig \cup {None} /\ \A j \in Children \ {k} : obj'[j] = obj[j]
      BY <1>0, <1>4 DEF dcVars, DCTypeOK, WriteObj, ObjTypeOK
    <3>2. dc # None => ~Conforms(k)
      BY <2>2, <3>1 DEF Conforms, Owned, DeviceConfig
    <3>3. \A j \in Children \ {k} : Conforms(j)' <=> Conforms(j)
      BY <3>1 DEF Conforms
    <3>4. heard => k \notin {"module", "metrics"}
      <4>1. obj'[k] = v
        BY <1>0, <1>4 DEF WriteObj, ObjTypeOK
      <4> QED
        BY <1>4, <2>2, <4>1 DEF TeardownOwned, Owned
    <3>5. heard => (WaitsForKMM' <=> WaitsForKMM)
      BY <3>1, <3>4 DEF WaitsForKMM, Children
    <3>6. pc = "idle" /\ AtRest(heard) => (pc = "idle" /\ AtRest(heard))'
      BY <1>4, <3>1, <3>2, <3>3, <3>5 DEF AtRest
    <3>7. Underway => Underway'
      <4>1. HandledBefore(pc)' = HandledBefore(pc) /\ HandledBefore(pc) \subseteq Children
        BY HandledChildren
      <4>2. Underway => dc # None
        BY DEF Underway, Base, TypeOK, WorkerTypeOK
      <4> QED
        BY <3>1, <3>2, <3>3, <4>1, <4>2 DEF Underway
    <3> QED
      BY <1>4, <3>6, <3>7 DEF WakeInv
  <2> QED
    BY <2>1, <2>2
<1>5. ASSUME NEW k \in Children, NEW v, WriteObj(k, v), v = obj[k]
      PROVE  \A j \in Children : obj'[j] = obj[j]
  BY <1>0, <1>5 DEF WriteObj, ObjTypeOK
<1>6. ASSUME NEW v, WriteDC(v), v = dc PROVE UNCHANGED dc
  BY <1>6 DEF WriteDC
<1> QED
  BY <1>1, <1>2, <1>3, <1>4, <1>5, <1>6 DEF ServerWrite, dcVars, objVars

(* The cache takes an event: it wakes the DeviceConfig, or was no news. *)
LEMMA DeliveryKeepsWake ==
  ASSUME Base, NEW heard \in BOOLEAN, NEW k \in Children, DeliverChild(k), WakeInv(heard)
  PROVE  WakeInv(heard)'
<1>0. PICK q : q = objWatch[k]
  OBVIOUS
<1>1. /\ q \in Seq(Object(k) \cup {None}) /\ q # <<>>
      /\ objWatch'[k] = Tail(q) /\ objCache'[k] = Head(q)
      /\ UNCHANGED <<obj, dcVars, pc, wdc>>
      /\ queued' = (queued \/ Owned(objCache[k]) \/ Owned(Head(q)))
  BY <1>0 DEF DeliverChild, Base, TypeOK, ClusterTypeOK, ObjTypeOK
<1>2. /\ Len(q) \in Nat \ {0} /\ DOMAIN q = 1..Len(q) /\ Head(q) = q[1]
      /\ DOMAIN Tail(q) = 1..(Len(q) - 1)
      /\ \A i \in 1..(Len(q) - 1) : Tail(q)[i] = q[i + 1]
      /\ Len(q) # 1 => Tail(q) # <<>>
  <2>1. Len(q) \in Nat \ {0} /\ DOMAIN q = 1..Len(q) /\ Head(q) = q[1]
    BY <1>1
  <2>2. /\ Tail(q) \in Seq(Object(k) \cup {None}) /\ Len(Tail(q)) = Len(q) - 1
        /\ \A i \in 1..(Len(q) - 1) : Tail(q)[i] = q[i + 1]
    BY <1>1
  <2>3. DOMAIN Tail(q) = 1..Len(Tail(q))
    BY <2>2
  <2>4. Len(q) # 1 => Tail(q) # <<>>
    BY <2>1, <2>2
  <2> QED
    BY <2>1, <2>2, <2>3, <2>4
<1>3. ASSUME WillWake, ~queued' PROVE WillWake'
  <2>1. ~queued /\ ~Owned(objCache[k]) /\ ~Owned(q[1])
    BY <1>1, <1>2, <1>3
  <2>2. CASE dcWatch # <<>>
    BY <1>1, <2>2 DEF WillWake, Coming, dcVars
  <2>3. ASSUME NEW j \in Children \ {k}, News(j) PROVE WillWake'
    <3>1. objWatch'[j] = objWatch[j] /\ objCache'[j] = objCache[j]
      BY DEF DeliverChild, Base, TypeOK, ClusterTypeOK, ObjTypeOK
    <3>2. News(j)'
      BY <2>3, <3>1 DEF News, Owned
    <3> QED
      BY <3>2 DEF WillWake, Coming
  <2>4. CASE News(k)
    <3>1. PICK i \in DOMAIN q : Owned(q[i])
      BY <1>0, <2>1, <2>4 DEF News
    <3>2. i # 1 /\ i \in 1..Len(q)
      BY <1>2, <2>1, <3>1
    <3>3. i - 1 \in 1..(Len(q) - 1) /\ (i - 1) + 1 = i /\ Len(q) # 1
      BY <1>2, <3>2
    <3>4. i - 1 \in DOMAIN Tail(q) /\ Tail(q)[i - 1] = q[i] /\ Tail(q) # <<>>
      BY <1>2, <3>3
    <3>5. News(k)'
      BY <1>1, <3>1, <3>4 DEF News, Owned
    <3> QED
      BY <3>5 DEF WillWake, Coming
  <2> QED
    BY <1>3, <2>1, <2>2, <2>3, <2>4 DEF WillWake, Coming
<1>4. UNCHANGED <<dc, pc, wdc>> /\ \A j \in Children : obj'[j] = obj[j]
  BY <1>1 DEF dcVars
<1> QED
  BY <1>3, <1>4, SameView DEF WakeInv, WillWake

-----------------------------------------------------------------------------
(***************************************************************************)
(* The worker's steps.                                                     *)
(***************************************************************************)
LEMMA ReconcileKeepsWake ==
  ASSUME Base, NEW heard \in BOOLEAN, Reconcile
  PROVE  WakeInv(heard)'
<1>1. CASE Coming
  <2>1. Coming'
    BY <1>1 DEF Reconcile, Coming, News, Owned, clusterVars
  <2> QED
    BY <2>1 DEF WakeInv, WillWake
<1>2. CASE ~Coming
  <2>1. wdc' = dc' /\ dc' = dc /\ dcCache = dc /\ dc \in DeviceConfig \cup {None}
    BY <1>2
    DEF Reconcile, Coming, Base, CacheReaches, Seen, Lag, clusterVars, TypeOK, ClusterTypeOK,
        DCTypeOK
  <2>2. CASE dc = None
    BY <2>1, <2>2 DEF Reconcile, WakeInv, AtRest
  <2>3. CASE dc # None
    <3>1. dc.deleting \in BOOLEAN
      BY <2>1, <2>3 DEF DeviceConfig
    <3>2. pc' = IF dc.deleting THEN "finalize" ELSE "setFinalizer"
      BY <2>1, <2>3, <3>1 DEF Reconcile
    <3> QED
      BY <2>1, <3>1, <3>2 DEF WakeInv, Underway, HandledBefore, Children
  <2> QED
    BY <2>2, <2>3
<1> QED
  BY <1>1, <1>2

LEMMA SetFinalizerKeepsWake ==
  ASSUME Base, NEW heard \in BOOLEAN, SetFinalizer, Underway
  PROVE  WakeInv(heard)'
<1>1. wdc \in DeviceConfig /\ dc = wdc /\ dc # None /\ ~dc.deleting /\ DCTypeOK
  BY DEF SetFinalizer, Underway, Base, TypeOK, WorkerTypeOK, ClusterTypeOK, DeviceConfig
<1>2. CASE Operator \in wdc.fins
  BY <1>1, <1>2 DEF SetFinalizer, Goto, WakeInv, Underway, HandledBefore, dcVars, Children
<1>3. CASE Operator \notin wdc.fins
  <2> DEFINE fs == wdc.fins \cup {Operator}
  <2>1. WithFinalizers(dc, fs) = [dc EXCEPT !.fins = fs] /\ FinalizersAccepted(dc, fs)
    BY <1>1 DEF WithFinalizers, FinalizersAccepted
  <2>2. WithFinalizers(dc, fs) # dc
    BY <1>1, <1>3, <2>1 DEF DeviceConfig
  <2>3. WriteDC(WithFinalizers(dc, fs))
    BY <1>1, <1>3, <2>1 DEF SetFinalizer, PatchFinalizers
  <2>4. Coming'
    BY <1>1, <2>2, <2>3, ChangeIsComing
  <2> QED
    BY <2>4 DEF WakeInv, WillWake
<1> QED
  BY <1>2, <1>3

(* A handler fails and is tried again, or its object is as it should be,   *)
(* or changed behind the cache: that is news.                              *)
LEMMA HandlerConforms ==
  ASSUME Base, NEW k \in Children, NEW next \in Children, pc = k, Underway,
         CreateOrPatch(k, Goto(next)) \/ CreateOrPatch(k, Done)
  PROVE  \/ WillWake'
         \/ /\ UNCHANGED dc /\ Conforms(k)'
            /\ \A j \in Children \ {k} : obj'[j] = obj[j]
<1>0. /\ ObjTypeOK /\ CacheCoherent /\ dc = wdc /\ wdc \in DeviceConfig /\ wdc # None
      /\ wdc.uid \in Uids /\ wdc.spec \in DeviceConfigSpec /\ UNCHANGED dcVars
      /\ None \notin Object(k)
  BY NoneAssumption
  DEF Underway, Base, TypeOK, ClusterTypeOK, WorkerTypeOK, DeviceConfig, CreateOrPatch, Children
<1>1. CASE Fail
  BY <1>1 DEF Fail, WillWake
<1>2. CASE WriteObj(k, NewObject(k))
  <2>1. NewObject(k) \in Object(k)
    BY <1>0, WrittenObjectType DEF Base
  <2>2. obj'[k] = NewObject(k) /\ \A j \in Children \ {k} : obj'[j] = obj[j]
    BY <1>0, <1>2 DEF WriteObj, ObjTypeOK
  <2>3. NewObject(k).spec = Desired(k, wdc.spec) /\ NewObject(k).owner = wdc.uid
    BY DEF NewObject
  <2> QED
    BY <1>0, <2>1, <2>2, <2>3 DEF Conforms, dcVars
<1>3. CASE objCache[k] # None /\ obj[k] # None /\ WriteObj(k, PatchedObject(k))
  <2>1. /\ obj[k] \in Object(k) /\ objCache[k] \in Object(k) /\ PatchedObject(k) \in Object(k)
        /\ obj'[k] = PatchedObject(k) /\ \A j \in Children \ {k} : obj'[j] = obj[j]
    BY <1>0, <1>3, WrittenObjectType DEF WriteObj, ObjTypeOK, Base
  <2>2. /\ PatchedObject(k).spec = MergePatch(objCache[k].spec, Desired(k, wdc.spec), obj[k].spec)
        /\ PatchedObject(k).owner = MergeField(objCache[k].owner, wdc.uid, obj[k].owner)
    BY <2>1 DEF PatchedObject, Object
  <2>3. CASE objWatch[k] = <<>>
    <3>1. objCache[k] = obj[k]
      BY <1>0, <2>3, NothingUnseen
    <3>2. obj[k].spec \in Contents(k) /\ Desired(k, wdc.spec) \in Contents(k)
      BY <1>0, <2>1, DesiredType DEF Object
    <3>3. PatchedObject(k).spec = Desired(k, wdc.spec) /\ PatchedObject(k).owner = wdc.uid
      BY <2>2, <3>1, <3>2, FreshPatchConforms DEF MergeField
    <3> QED
      BY <1>0, <2>1, <3>3 DEF Conforms, dcVars
  <2>4. CASE objWatch[k] # <<>>
    <3>1. CASE objCache[k].owner = wdc.uid
      <4>1. News(k)
        BY <1>0, <1>3, <2>4, <3>1 DEF News, Owned
      <4>2. News(k)'
        BY <1>0, <1>3, <4>1, WriteKeepsNews
      <4> QED
        BY <4>2 DEF WillWake, Coming
    <3>2. CASE objCache[k].owner # wdc.uid
      <4>1. PatchedObject(k).owner = wdc.uid /\ Owned(PatchedObject(k))
        BY <1>0, <2>1, <2>2, <3>2 DEF MergeField, Owned
      <4>2. CASE PatchedObject(k) # obj[k]
        BY <1>0, <1>3, <4>1, <4>2, WriteIsNews DEF WillWake, Coming
      <4>3. CASE PatchedObject(k) = obj[k]
        <5>1. obj[k] = objWatch[k][Len(objWatch[k])] /\ Len(objWatch[k]) \in DOMAIN objWatch[k]
          BY <1>0, <2>4 DEF CacheCoherent, Newest, ObjTypeOK
        <5>2. News(k)
          BY <2>4, <4>1, <4>3, <5>1 DEF News
        <5>3. News(k)'
          BY <1>0, <1>3, <5>2, WriteKeepsNews
        <5> QED
          BY <5>3 DEF WillWake, Coming
      <4> QED
        BY <4>2, <4>3
    <3> QED
      BY <3>1, <3>2
  <2> QED
    BY <2>3, <2>4
<1> QED
  BY <1>1, <1>2, <1>3 DEF CreateOrPatch, Create, Patch, PatchFails

LEMMA HandleKeepsWake ==
  ASSUME Base, NEW heard \in BOOLEAN, Handle, Underway
  PROVE  WakeInv(heard)'
<1>0. /\ dc = wdc /\ Operator \in dc.fins /\ ~dc.deleting /\ dc # None
      /\ \A j \in HandledBefore(pc) : Conforms(j)
  BY DEF Handle, HandleKMMModule, HandleCustomScheduler, HandleCustomSchedulerExtension,
         HandleNodeMetrics, CreateOrPatch, Underway, Base, TypeOK, WorkerTypeOK, DeviceConfig,
         Children
<1>1. ASSUME NEW k \in Children, NEW next \in Children, pc = k, CreateOrPatch(k, Goto(next)),
             HandledBefore(next) = HandledBefore(k) \cup {k}, k \notin HandledBefore(k)
      PROVE  WakeInv(heard)'
  <2>1. CASE UNCHANGED dc /\ Conforms(k)' /\ \A j \in Children \ {k} : obj'[j] = obj[j]
    <3>1. CASE Fail
      BY <3>1 DEF Fail, WakeInv, WillWake
    <3>2. CASE Goto(next)
      <4>1. \A j \in HandledBefore(next) : Conforms(j)'
        BY <1>0, <1>1, <2>1, HandledChildren DEF Conforms
      <4>2. pc' = next /\ wdc' = wdc /\ next # "idle" /\ next # "finalize"
        BY <3>2 DEF Goto, Children
      <4>3. Underway'
        BY <1>0, <2>1, <4>1, <4>2 DEF Underway
      <4> QED
        BY <4>3 DEF WakeInv
    <3> QED
      BY <1>1, <3>1, <3>2 DEF CreateOrPatch, Create, Patch
  <2> QED
    BY <1>1, <2>1, HandlerConforms DEF WakeInv
<1>2. CASE pc = "metrics" /\ CreateOrPatch("metrics", Done)
  <2>0. "metrics" \in Children /\ HandledBefore("metrics") = Children \ {"metrics"}
    BY DEF HandledBefore, Children
  <2>1. CASE UNCHANGED dc /\ Conforms("metrics")'
             /\ \A j \in Children \ {"metrics"} : obj'[j] = obj[j]
    <3>1. CASE Fail
      BY <3>1 DEF Fail, WakeInv, WillWake
    <3>2. CASE Done
      <4>1. \A j \in Children : Conforms(j)'
        BY <1>0, <1>2, <2>0, <2>1 DEF Conforms
      <4>2. AtRest(heard)' /\ pc' = "idle"
        BY <1>0, <2>1, <3>2, <4>1 DEF AtRest, Done
      <4> QED
        BY <4>2 DEF WakeInv
    <3> QED
      BY <1>2, <3>1, <3>2 DEF CreateOrPatch, Create, Patch
  <2> QED
    BY <1>2, <2>0, <2>1, HandlerConforms DEF WakeInv
<1>3. /\ {"module", "scheduler", "extension", "metrics"} \subseteq Children
      /\ HandledBefore("scheduler") = HandledBefore("module") \cup {"module"}
      /\ HandledBefore("extension") = HandledBefore("scheduler") \cup {"scheduler"}
      /\ HandledBefore("metrics") = HandledBefore("extension") \cup {"extension"}
      /\ "module" \notin HandledBefore("module")
      /\ "scheduler" \notin HandledBefore("scheduler")
      /\ "extension" \notin HandledBefore("extension")
  BY DEF HandledBefore, Children
<1>4. CASE HandleKMMModule
  BY <1>1, <1>3, <1>4 DEF HandleKMMModule, CreateOrPatch
<1>5. CASE HandleCustomScheduler
  BY <1>1, <1>3, <1>5 DEF HandleCustomScheduler, CreateOrPatch
<1>6. CASE HandleCustomSchedulerExtension
  BY <1>1, <1>3, <1>6 DEF HandleCustomSchedulerExtension, CreateOrPatch
<1>7. CASE HandleNodeMetrics
  BY <1>2, <1>7 DEF HandleNodeMetrics, CreateOrPatch
<1> QED
  BY <1>4, <1>5, <1>6, <1>7 DEF Handle

(* A deletion is heard of, or was asked for before, or fails.              *)
LEMMA FinalizeKeepsWake ==
  ASSUME Base, NEW heard \in BOOLEAN, heard => TeardownOwned, Finalize, Underway
  PROVE  WakeInv(heard)'
<1>0. /\ ObjTypeOK /\ DCTypeOK /\ CacheCoherent /\ pc = "finalize"
      /\ dc = wdc /\ dc \in DeviceConfig /\ dc # None /\ dc.deleting
      /\ "metrics" \in Children /\ "module" \in Children
  BY DEF Base, TypeOK, ClusterTypeOK, WorkerTypeOK, Finalize, FinalizeMetrics, FinalizeModule,
         RemoveFinalizer, Underway, Children
<1>1. CASE Fail
  BY <1>1 DEF Fail, WakeInv, WillWake
<1>2. ASSUME NEW k \in {"metrics", "module"}, obj[k] # None, Done,
             WriteObj(k, Deleted(obj[k])), UNCHANGED dcVars,
             k = "module" => objCache["metrics"] = None
      PROVE  WakeInv(heard)'
  <2>0. k \in Children /\ obj[k] \in Object(k) /\ dc' = dc /\ pc' = "idle"
    BY <1>0, <1>2 DEF ObjTypeOK, dcVars, Done
  <2>1. CASE ~heard
    BY <1>0, <2>0, <2>1 DEF WakeInv, AtRest
  <2>2. CASE heard /\ Deleted(obj[k]) # obj[k]
    BY <1>0, <1>2, <2>0, <2>2, WriteIsNews DEF TeardownOwned, WakeInv, WillWake, Coming
  <2>3. CASE heard /\ Deleted(obj[k]) = obj[k]
    <3>1. k = "module" /\ obj[k].deleting
      BY <1>0, <1>2, <2>0, <2>3 DEF Deleted, Object, Unheld, Base
    <3>2. \A j \in Children : obj'[j] = obj[j]
      BY <1>0, <1>2, <2>3 DEF WriteObj, ObjTypeOK
    <3>3. CASE obj["metrics"] = None
      <4>1. WaitsForKMM'
        BY <1>0, <1>2, <3>1, <3>2, <3>3 DEF WaitsForKMM
      <4> QED
        BY <1>0, <2>0, <4>1 DEF WakeInv, AtRest
    <3>4. CASE obj["metrics"] # None
      <4>1. objWatch["metrics"] # <<>>
        BY <1>0, <1>2, <3>1, <3>4, NothingUnseen
      <4>2. /\ obj["metrics"] = objWatch["metrics"][Len(objWatch["metrics"])]
            /\ Len(objWatch["metrics"]) \in DOMAIN objWatch["metrics"]
        BY <1>0, <4>1 DEF CacheCoherent, Newest, ObjTypeOK
      <4>3. News("metrics")
        BY <2>3, <3>4, <4>1, <4>2 DEF News, TeardownOwned
      <4>4. News("metrics")'
        BY <1>0, <1>2, <2>0, <4>3, WriteKeepsNews
      <4> QED
        BY <1>0, <4>4 DEF WakeInv, WillWake, Coming
    <3> QED
      BY <3>3, <3>4
  <2> QED
    BY <2>1, <2>2, <2>3
<1>3. CASE FinalizeMetrics
  BY <1>1, <1>2, <1>3 DEF FinalizeMetrics, DeleteChild
<1>4. CASE FinalizeModule
  BY <1>1, <1>2, <1>4 DEF FinalizeModule, DeleteChild
<1>5. CASE RemoveFinalizer
  <2>1. PICK fs : /\ fs = IF Operator \in dc.fins THEN dc.fins \ {Operator} ELSE dc.fins
                  /\ PatchFinalizers(fs) /\ (Fail \/ Done)
    BY <1>0, <1>5 DEF RemoveFinalizer
  <2>2. WriteDC(WithFinalizers(dc, fs))
    BY <1>0, <2>1 DEF PatchFinalizers, FinalizersAccepted
  <2>3. CASE WithFinalizers(dc, fs) # dc
    BY <1>0, <2>2, <2>3, ChangeIsComing DEF WakeInv, WillWake
  <2>4. CASE WithFinalizers(dc, fs) = dc /\ Done
    <3>1. dc' = dc /\ pc' = "idle"
      BY <2>2, <2>4 DEF WriteDC, Done
    <3>2. Operator \notin dc.fins
      BY <1>0, <2>1, <2>4 DEF WithFinalizers, DeviceConfig
    <3> QED
      BY <1>0, <3>1, <3>2 DEF WakeInv, AtRest
  <2> QED
    BY <1>1, <2>1, <2>3, <2>4
<1> QED
  BY <1>3, <1>4, <1>5 DEF Finalize

LEMMA WorkerKeepsWake ==
  ASSUME Base, NEW heard \in BOOLEAN, heard => TeardownOwned, Worker, WakeInv(heard)
  PROVE  WakeInv(heard)'
<1>1. CASE Reconcile
  BY <1>1, ReconcileKeepsWake
<1>2. CASE WillWake /\ ~Reconcile
  <2>1. Coming => Coming'
    BY WorkerWrites, WriteKeepsComing DEF Base, TypeOK, ClusterTypeOK
  <2>2. queued => queued'
    BY <1>2
    DEF Worker, SetFinalizer, Handle, HandleKMMModule, HandleCustomScheduler,
        HandleCustomSchedulerExtension, HandleNodeMetrics, CreateOrPatch, Create, Patch,
        Finalize, FinalizeMetrics, FinalizeModule, DeleteChild, RemoveFinalizer, Goto, Done, Fail
  <2> QED
    BY <1>2, <2>1, <2>2 DEF WakeInv, WillWake
<1>3. CASE Underway /\ ~Reconcile
  BY <1>3, SetFinalizerKeepsWake, HandleKeepsWake, FinalizeKeepsWake DEF Worker
<1>4. ~Reconcile => pc # "idle"
  BY DEF Worker, SetFinalizer, Handle, HandleKMMModule, HandleCustomScheduler,
         HandleCustomSchedulerExtension, HandleNodeMetrics, CreateOrPatch, Finalize,
         FinalizeMetrics, FinalizeModule, RemoveFinalizer
<1> QED
  BY <1>1, <1>2, <1>3, <1>4 DEF WakeInv

(* The next operator reads everything afresh. *)
LEMMA RestartKeepsWake ==
  ASSUME NEW heard \in BOOLEAN, Restart
  PROVE  WakeInv(heard)'
<1>1. CASE dc # None
  BY <1>1 DEF Restart, WakeInv, WillWake
<1>2. CASE dc = None
  BY <1>2 DEF Restart, WakeInv, AtRest
<1> QED
  BY <1>1, <1>2

LEMMA NextKeepsWake ==
  ASSUME Base, NEW heard \in BOOLEAN, heard => TeardownOwned /\ TeardownOwned',
         [Next]_vars, WakeInv(heard)
  PROVE  WakeInv(heard)'
<1>1. CASE Environment /\ UNCHANGED workerVars
  BY <1>1, EnvironmentWrites, ServerKeepsWake DEF workerVars, Base
<1>2. CASE UNCHANGED vars
  <2>1. UNCHANGED <<queued, pc, wdc>> /\ ServerWrite
    BY <1>2 DEF vars, clusterVars, workerVars, ServerWrite, dcVars, objVars
  <2> QED
    BY <2>1, ServerKeepsWake
<1>3. CASE DeliverDC \/ Resync \/ Fault
  BY <1>3 DEF DeliverDC, Resync, Fault, Fail, WakeInv, WillWake
<1> QED
  BY <1>1, <1>2, <1>3, DeliveryKeepsWake, WorkerKeepsWake, RestartKeepsWake DEF Next, Deliver

LEMMA InitWake == Init => Base /\ TeardownOwned /\ \A heard \in BOOLEAN : WakeInv(heard)
<1> SUFFICES ASSUME Init PROVE Base /\ TeardownOwned /\ \A heard \in BOOLEAN : WakeInv(heard)
  OBVIOUS
<1>1. Base
  BY InitType
  DEF Init, ClusterInit, Base, CacheCoherent, Newest, CacheReaches, Seen, Lag, Unheld, Children
<1>2. TeardownOwned /\ \A heard \in BOOLEAN : WakeInv(heard)
  BY DEF Init, ClusterInit, TeardownOwned, WakeInv, AtRest, Children
<1> QED
  BY <1>1, <1>2

LEMMA QuietIsAtRest ==
  ASSUME NEW heard \in BOOLEAN, WakeInv(heard), Quiet
  PROVE  AtRest(heard)
  BY DEF WakeInv, WillWake, Coming, News, Quiet, Underway

-----------------------------------------------------------------------------
(***************************************************************************)
(* Without late requests.                                                  *)
(***************************************************************************)
LEMMA WakeInvariance == Spec /\ []TeardownOwned => []WakeInv(TRUE)
<1>1. Init => Base /\ WakeInv(TRUE)
  BY InitWake
<1>2. Base /\ [Next]_vars => Base'
  BY NextKeepsBase
<1>3. Base /\ WakeInv(TRUE) /\ TeardownOwned /\ TeardownOwned' /\ [Next]_vars => WakeInv(TRUE)'
  BY NextKeepsWake
<1> QED
  BY <1>1, <1>2, <1>3, PTL DEF Spec

(***************************************************************************)
(* The operator, called by events alone, is called often enough            *)
(* (SetupWithManager; the handlers and finalizeDeviceConfig return nil):   *)
(* when nothing is under way there is nothing left to do.  Only of objects *)
(* that are deleted by name is it assumed that a DeviceConfig controls     *)
(* them.  Without that it is not so: the deletion of another one's         *)
(* DaemonSet wakes nobody, and waits for the next resync.                  *)
(***************************************************************************)
THEOREM NoWakeupLost == Spec /\ []TeardownOwned => []QuietMeansDone
<1>1. WakeInv(TRUE) => QuietMeansDone
  BY QuietIsAtRest DEF QuietMeansDone, AtRest
<1> QED
  BY <1>1, WakeInvariance, PTL

(***************************************************************************)
(* That is so when strangers make no Module and no metrics DaemonSet of    *)
(* the operator's names, whatever they do to those there are and whatever  *)
(* schedulers they make.                                                   *)
(***************************************************************************)
THEOREM QuietIsDone ==
  ASSUME AlienKinds \cap {"module", "metrics"} = {}
  PROVE  Spec => []QuietMeansDone
<1>1. Init => Base /\ TeardownOwned
  BY InitWake
<1>2. Base /\ [Next]_vars => Base'
  BY NextKeepsBase
<1>3. Base /\ TeardownOwned /\ [Next]_vars => TeardownOwned'
  <2> SUFFICES ASSUME Base, TeardownOwned, [Next]_vars PROVE TeardownOwned'
    OBVIOUS
  <2>1. CASE ServerWrite
    BY <2>1, WriteKeepsTeardownOwned DEF Base, TypeOK, ClusterTypeOK
  <2>2. CASE DeliverDC \/ (\E k \in Children : DeliverChild(k)) \/ Restart
    BY <2>2 DEF DeliverDC, DeliverChild, Restart, objVars, TeardownOwned, Owned
  <2> QED
    BY <2>1, <2>2, StepWrites DEF Base
<1> QED
  BY <1>1, <1>2, <1>3, NoWakeupLost, PTL DEF Spec

-----------------------------------------------------------------------------
(***************************************************************************)
(* With late requests: the server carries them out as any other write, and *)
(* what they carry was proper when they were sent.                         *)
(***************************************************************************)
ProperRequest(r) ==
  \/ r.op = "finalizers" /\ r.fins \in SUBSET ({Operator} \cup Foreign)
  \/ r.op = "create" /\ r.kind \in Children /\ r.object \in Object(r.kind)
       /\ ~r.object.kmm /\ r.object.owner \in Uids
  \/ r.op = "patch" /\ r.kind \in Children /\ r.base \in Object(r.kind)
       /\ r.want \in Contents(r.kind) /\ r.owner \in Uids
  \/ r.op = "delete" /\ r.kind \in Children

LateBase == Base /\ \A r \in late : ProperRequest(r)

LEMMA RequestIsProper ==
  ASSUME TypeOK
  PROVE  \A r \in {Request} \ {None} : ProperRequest(r)
<1>0. pc # "idle" => wdc \in DeviceConfig /\ wdc # None
  BY DEF TypeOK, WorkerTypeOK
<1>1. ASSUME pc # "idle", NEW fs \in SUBSET wdc.fins
      PROVE  /\ ProperRequest(FinalizersRequest(fs))
             /\ ProperRequest(FinalizersRequest(fs \cup {Operator}))
  BY <1>0, <1>1 DEF FinalizersRequest, ProperRequest, DeviceConfig
<1>2. ASSUME NEW k \in Children, pc = k PROVE ProperRequest(CreateRequest(k))
  <2>1. NewObject(k) \in Object(k) /\ wdc.uid \in Uids
    BY <1>0, <1>2, WrittenObjectType DEF Children, DeviceConfig
  <2>2. ~NewObject(k).kmm /\ NewObject(k).owner = wdc.uid
    BY DEF NewObject
  <2> QED
    BY <2>1, <2>2 DEF CreateRequest, ProperRequest
<1>3. ASSUME NEW k \in Children, pc = k, objCache[k] # None PROVE ProperRequest(PatchRequest(k))
  <2>1. objCache[k] \in Object(k) /\ wdc.uid \in Uids /\ wdc.spec \in DeviceConfigSpec
    BY <1>0, <1>3 DEF TypeOK, ClusterTypeOK, ObjTypeOK, Children, DeviceConfig
  <2>2. Desired(k, wdc.spec) \in Contents(k)
    BY <2>1, DesiredType
  <2> QED
    BY <2>1, <2>2 DEF PatchRequest, ProperRequest
<1>4. ProperRequest(DeleteRequest("metrics")) /\ ProperRequest(DeleteRequest("module"))
  BY DEF DeleteRequest, ProperRequest, Children
<1>5. wdc.fins \in SUBSET wdc.fins /\ wdc.fins \ {Operator} \in SUBSET wdc.fins
  OBVIOUS
<1> QED
  BY <1>1, <1>2, <1>3, <1>4, <1>5 DEF Request, Children

LEMMA LandWrites ==
  ASSUME DCTypeOK, ObjTypeOK, NEW r, ProperRequest(r), Land(r)
  PROVE  ServerWrite /\ UNCHANGED <<uid, edits, aliens, workerVars>>
<1>1. CASE r.op = "finalizers" /\ PatchFinalizers(r.fins) /\ UNCHANGED objVars
  BY <1>1, FinalizersWrite DEF ProperRequest, Land
<1>2. CASE r.op = "create" /\ LandCreate(r) /\ UNCHANGED dcVars
  <2>1. r.kind \in Children /\ Proper(r.kind, r.object)
    BY <1>2 DEF ProperRequest, Proper
  <2> QED
    BY <1>2, <2>1 DEF LandCreate, ServerWrite, Land
<1>3. CASE r.op = "patch" /\ LandPatch(r) /\ UNCHANGED dcVars
  <2> DEFINE o == obj[r.kind]
             v == [o EXCEPT !.spec  = MergePatch(r.base.spec, r.want, @),
                            !.owner = MergeField(r.base.owner, r.owner, @)]
  <2>1. /\ r.kind \in Children /\ r.base \in Object(r.kind) /\ r.want \in Contents(r.kind)
        /\ r.owner \in Uids
    BY <1>3 DEF ProperRequest
  <2>2. CASE UNCHANGED objVars
    BY <1>3, <2>2 DEF ServerWrite, Land
  <2>3. CASE o # None /\ WriteObj(r.kind, v)
    <3>1. o \in Object(r.kind)
      BY <2>1, <2>3 DEF ObjTypeOK
    <3>2. MergePatch(r.base.spec, r.want, o.spec) \in Contents(r.kind)
      BY <2>1, <3>1, MergeType DEF Object
    <3>3. MergeField(r.base.owner, r.owner, o.owner) \in {r.owner, o.owner}
      BY DEF MergeField
    <3>4. v \in Object(r.kind) /\ v.kmm = o.kmm /\ v.owner \in {r.owner, o.owner}
      BY <2>1, <3>1, <3>2, <3>3 DEF Object, Owners
    <3>5. Proper(r.kind, v)
      BY <2>1, <2>3, <3>4 DEF Proper
    <3> QED
      BY <1>3, <2>1, <2>3, <3>5 DEF ServerWrite, Land
  <2> QED
    BY <1>3, <2>2, <2>3 DEF LandPatch
<1>4. CASE r.op = "delete" /\ LandDelete(r) /\ UNCHANGED dcVars
  <2>1. r.kind \in Children
    BY <1>4 DEF ProperRequest
  <2> QED
    BY <1>4, <2>1, DeletedProper DEF LandDelete, ServerWrite, Land
<1> QED
  BY <1>1, <1>2, <1>3, <1>4 DEF Land

(* A step is one of the operator that sends in time, or a write, or the    *)
(* start of an operator from an old list.                                  *)
LEMMA LateSteps ==
  ASSUME LateBase, [LateNext]_lateVars
  PROVE  \/ [Next]_vars
         \/ ServerWrite /\ UNCHANGED <<uid, edits, aliens, workerVars>>
         \/ RestartBehind
  BY LandWrites
  DEF LateBase, Base, TypeOK, ClusterTypeOK, LateNext, lateVars, Disconnected, TakenOver, Next

LEMMA LateKeepsBase ==
  ASSUME LateBase, [LateNext]_lateVars
  PROVE  LateBase'
<1>1. Base'
  <2>1. CASE ServerWrite /\ UNCHANGED <<uid, edits, aliens, workerVars>>
    <3>1. CountersTypeOK' /\ WorkerTypeOK'
      BY <2>1
      DEF LateBase, Base, TypeOK, ClusterTypeOK, CountersTypeOK, workerVars, WorkerTypeOK
    <3> QED
      BY <2>1, <3>1, WriteKeepsBase DEF LateBase, Base, TypeOK, ClusterTypeOK
  <2>2. CASE RestartBehind
    <3>1. queued' \in BOOLEAN
      BY <2>2, Zenon DEF RestartBehind
    <3>2. WorkerTypeOK'
      BY <2>2, <3>1 DEF RestartBehind, LateBase, Base, TypeOK, WorkerTypeOK
    <3>3. UNCHANGED clusterVars
      BY <2>2 DEF RestartBehind
    <3> QED
      BY <3>2, <3>3
      DEF clusterVars, LateBase, Base, TypeOK, ClusterTypeOK, DCTypeOK, ObjTypeOK, CountersTypeOK,
          CacheCoherent, Newest, CacheReaches, Seen, Lag, Unheld
  <2> QED
    BY <2>1, <2>2, LateSteps, NextKeepsBase DEF LateBase
<1>2. late' \subseteq late \cup ({Request} \ {None})
  BY DEF LateNext, lateVars, Disconnected, TakenOver, Land
<1>3. \A r \in late' : ProperRequest(r)
  BY <1>2, RequestIsProper DEF LateBase, Base
<1>4. \A r : ProperRequest(r)' <=> ProperRequest(r)
  BY DEF ProperRequest
<1> QED
  BY <1>1, <1>3, <1>4 DEF LateBase

(* An old list shows what the last operator had seen: the rest is to come. *)
LEMMA RestartBehindKeepsWake ==
  ASSUME Base, NEW heard \in BOOLEAN, RestartBehind
  PROVE  WakeInv(heard)'
<1>1. CASE dcCache # None
  BY <1>1 DEF RestartBehind, WakeInv, WillWake
<1>2. CASE dcWatch # <<>>
  BY <1>2 DEF RestartBehind, WakeInv, WillWake, Coming, clusterVars
<1>3. CASE dcCache = None /\ dcWatch = <<>>
  <2>1. dc = None
    BY <1>3 DEF Base, CacheReaches, Seen, Lag
  <2> QED
    BY <2>1 DEF RestartBehind, WakeInv, AtRest, clusterVars
<1> QED
  BY <1>1, <1>2, <1>3

LEMMA LateKeepsWake ==
  ASSUME LateBase, NEW heard \in BOOLEAN, heard => TeardownOwned /\ TeardownOwned',
         [LateNext]_lateVars, WakeInv(heard)
  PROVE  WakeInv(heard)'
<1>1. CASE ServerWrite /\ UNCHANGED <<uid, edits, aliens, workerVars>>
  BY <1>1, ServerKeepsWake DEF LateBase, workerVars
<1> QED
  BY <1>1, LateSteps, NextKeepsWake, RestartBehindKeepsWake DEF LateBase

LEMMA LateInvariance ==
  /\ LateSpec => [](LateBase /\ WakeInv(FALSE))
  /\ LateSpec /\ []TeardownOwned => []WakeInv(TRUE)
<1>1. LateInit => LateBase /\ WakeInv(TRUE) /\ WakeInv(FALSE)
  BY InitWake DEF LateInit, LateBase
<1>2. LateBase /\ [LateNext]_lateVars => LateBase'
  BY LateKeepsBase
<1>3. LateBase /\ WakeInv(FALSE) /\ [LateNext]_lateVars => WakeInv(FALSE)'
  BY LateKeepsWake
<1>4. LateBase /\ WakeInv(TRUE) /\ TeardownOwned /\ TeardownOwned' /\ [LateNext]_lateVars
        => WakeInv(TRUE)'
  BY LateKeepsWake
<1> QED
  BY <1>1, <1>2, <1>3, <1>4, PTL DEF LateSpec

(***************************************************************************)
(* Whatever requests of operators that are gone still do, and however old  *)
(* the list is from which the next one starts, when nothing is under way   *)
(* the objects are as the DeviceConfig asks for them, or its deletion      *)
(* waits for KMM only; the same is assumed of what is deleted by name      *)
(* (the lease of controller_manager_config.yaml recalls no request).       *)
(***************************************************************************)
THEOREM LateRequestsHeal == LateSpec /\ []TeardownOwned => []QuietMeansDone
<1>1. WakeInv(TRUE) => QuietMeansDone
  BY QuietIsAtRest DEF QuietMeansDone, AtRest
<1> QED
  BY <1>1, LateInvariance, PTL

(***************************************************************************)
(* So it is when strangers make no Module and no metrics DaemonSet.        *)
(***************************************************************************)
THEOREM LateQuietIsDone ==
  ASSUME AlienKinds \cap {"module", "metrics"} = {}
  PROVE  LateSpec => []QuietMeansDone
<1>1. LateInit => LateBase /\ TeardownOwned
  BY InitWake DEF LateInit, LateBase
<1>2. LateBase /\ [LateNext]_lateVars => LateBase'
  BY LateKeepsBase
<1>3. LateBase /\ TeardownOwned /\ [LateNext]_lateVars => TeardownOwned'
  <2> SUFFICES ASSUME LateBase, TeardownOwned, [LateNext]_lateVars PROVE TeardownOwned'
    OBVIOUS
  <2>1. CASE ServerWrite
    BY <2>1, WriteKeepsTeardownOwned DEF LateBase, Base, TypeOK, ClusterTypeOK
  <2>2. CASE DeliverDC \/ (\E k \in Children : DeliverChild(k)) \/ Restart \/ RestartBehind
    BY <2>2
    DEF DeliverDC, DeliverChild, Restart, RestartBehind, clusterVars, objVars, TeardownOwned, Owned
  <2> QED
    BY <2>1, <2>2, LateSteps, StepWrites DEF LateBase, Base
<1> QED
  BY <1>1, <1>2, <1>3, LateRequestsHeal, PTL DEF LateSpec

(***************************************************************************)
(* Whoever controls what: a DeviceConfig that stays is never left without  *)
(* its finalizer or with an object that is not as it asks for (Reconcile;  *)
(* a patch from an old copy, or one that lands late, is followed by an     *)
(* event that brings the worker back).                                     *)
(***************************************************************************)
THEOREM QuietConforms ==
  LateSpec => [](Quiet /\ dc # None /\ ~dc.deleting
                   => Operator \in dc.fins /\ \A k \in Children : Conforms(k))
<1>1. WakeInv(FALSE) /\ Quiet /\ dc # None /\ ~dc.deleting
        => Operator \in dc.fins /\ \A k \in Children : Conforms(k)
  BY QuietIsAtRest DEF AtRest
<1> QED
  BY <1>1, LateInvariance, PTL
=============================================================================
