-------------------------- MODULE FinalizerProofs ---------------------------
(***************************************************************************)
(* FinalizerInv is inductive, so FinalizerProtects holds of every          *)
(* behaviour, however far the cache lags and whatever crashes.             *)
(***************************************************************************)
EXTENDS FinalizerInvariant, ReconcilerTypeProofs

(***************************************************************************)
(* What the states on their way become when the server's DeviceConfig is   *)
(* written, and when the cache takes the oldest of them.                   *)
(***************************************************************************)
LEMMA LagType ==
  ASSUME DCTypeOK
  PROVE  /\ Lag \in Nat
         /\ \A i \in Ages : Seen(i) \in DeviceConfig \cup {None}
         /\ Seen(0) = dcCache /\ 0 \in Ages /\ Lag \in Ages
  BY DEF Lag, Ages, Seen, DCTypeOK

LEMMA SeenAfterWrite ==
  ASSUME DCTypeOK, NEW v, WriteDC(v)
  PROVE  /\ dc' = v /\ dcCache' = dcCache
         /\ \A i \in Ages : Seen(i)' = Seen(i)
         /\ \/ v = dc /\ Lag' = Lag
            \/ Lag' = Lag + 1 /\ Seen(Lag)' = v
<1>1. CASE v = dc
  BY <1>1 DEF WriteDC, Lag, Ages, Seen
<1>2. CASE v # dc
  <2>1. dcWatch' = Append(dcWatch, v) /\ dcCache' = dcCache /\ dc' = v
    BY <1>2 DEF WriteDC
  <2>2. /\ Len(dcWatch') = Len(dcWatch) + 1
        /\ dcWatch'[Len(dcWatch) + 1] = v
        /\ \A i \in 1..Len(dcWatch) : dcWatch'[i] = dcWatch[i]
    BY <2>1 DEF DCTypeOK
  <2> QED  BY <2>1, <2>2, LagType DEF Lag, Ages, Seen, DCTypeOK
<1> QED  BY <1>1, <1>2

LEMMA SeenAfterDelivery ==
  ASSUME DCTypeOK, DeliverDC
  PROVE  /\ dc' = dc /\ Lag \in Nat \ {0} /\ Lag' = Lag - 1
         /\ 1 \in Ages /\ dcCache' = Seen(1)
         /\ \A i \in Ages' : i + 1 \in Ages /\ Seen(i)' = Seen(i + 1)
<1>1. /\ dcWatch # <<>> /\ dcWatch' = Tail(dcWatch) /\ dcCache' = Head(dcWatch)
      /\ dc' = dc
  BY DEF DeliverDC
<1>2. /\ Len(dcWatch) \in Nat \ {0} /\ Len(dcWatch') = Len(dcWatch) - 1
      /\ Head(dcWatch) = dcWatch[1]
      /\ \A i \in 1..(Len(dcWatch) - 1) : dcWatch'[i] = dcWatch[i + 1]
  BY <1>1 DEF DCTypeOK
<1> QED  BY <1>1, <1>2 DEF Lag, Ages, Seen

(***************************************************************************)
(* The order of the states on their way, which every write keeps: a write  *)
(* removes the DeviceConfig, or changes the one there is without taking a  *)
(* deletion back, or makes one with a new uid.                             *)
(***************************************************************************)
History == CacheReaches /\ UidsCount /\ Unbroken

Gone(v)   == v = None /\ uid' = uid
Changed(v) ==
  /\ dc # None /\ v \in DeviceConfig /\ v # None
  /\ v.uid = dc.uid /\ (dc.deleting => v.deleting) /\ uid' = uid
Fresh(v) ==
  /\ dc = None /\ v \in DeviceConfig /\ v # None
  /\ v.uid = uid + 1 /\ v.fins = {} /\ uid' = uid + 1

LEMMA WriteKeepsHistory ==
  ASSUME TypeOK, History, NEW v, WriteDC(v), Gone(v) \/ Changed(v) \/ Fresh(v)
  PROVE  History'
<1> USE DEF History
<1>0. DCTypeOK /\ uid \in Nat
  BY BoundsAssumption DEF TypeOK, ClusterTypeOK, CountersTypeOK
<1>1. /\ Lag \in Nat /\ Ages = 0..Lag
      /\ dc' = v
      /\ \A i \in Ages : Seen(i)' = Seen(i)
      /\ \/ v = dc /\ Lag' = Lag
         \/ Lag' = Lag + 1 /\ Seen(Lag)' = v
      /\ Seen(Lag) = dc
  BY <1>0, SeenAfterWrite, LagType DEF Ages, CacheReaches
<1>2. CacheReaches'
  BY <1>1 DEF CacheReaches, Ages
<1>3. UidsCount'
  <2> SUFFICES ASSUME NEW i \in Ages', Seen(i)' # None
               PROVE  Seen(i)'.uid \in 1..uid'
    BY DEF UidsCount
  <2>1. CASE i \in Ages
    <3>1. Seen(i)'.uid \in 1..uid  BY <1>1, <2>1 DEF UidsCount
    <3> QED  BY <1>0, <3>1 DEF Gone, Changed, Fresh
  <2>2. CASE i \notin Ages
    <3>1. i = Lag + 1 /\ Seen(i)' = v /\ v # None  BY <1>1, <2>2 DEF Ages
    <3>2. CASE Changed(v)
      BY <1>1, <3>1, <3>2 DEF Changed, UidsCount
    <3>3. CASE Fresh(v)
      BY <1>0, <3>1, <3>3 DEF Fresh
    <3> QED  BY <3>1, <3>2, <3>3 DEF Gone
  <2> QED  BY <2>1, <2>2
<1>4. Unbroken'
  <2> SUFFICES ASSUME NEW i \in Ages', NEW j \in Ages', i <= j,
                      Seen(i)' # None, Seen(j)' # None, Seen(i)'.uid = Seen(j)'.uid,
                      NEW m \in i..j
               PROVE  Follows(i, m)'
    BY DEF Unbroken
  <2>0. i \in Nat /\ j \in Nat /\ m \in Nat
    BY <1>1 DEF Ages
  <2>1. CASE j \in Ages
    <3>1. i \in Ages /\ m \in Ages  BY <1>1, <2>0, <2>1
    <3>2. Follows(i, m)  BY <1>1, <2>1, <3>1 DEF Unbroken
    <3> QED  BY <1>1, <3>1, <3>2 DEF Follows
  <2>2. CASE j \notin Ages
    <3>1. j = Lag + 1 /\ Seen(j)' = v /\ v # None
      BY <1>1, <2>0, <2>2 DEF Ages
    <3>2. CASE i = j
      BY <2>0, <3>2 DEF Follows
    <3>3. CASE i # j
      <4>1. i \in Ages /\ Seen(i)' = Seen(i) /\ Seen(i).uid \in 1..uid
        BY <1>1, <2>0, <3>1, <3>3 DEF UidsCount
      <4>2. Changed(v)
        BY <1>0, <3>1, <4>1 DEF Gone, Fresh
      <4>3. \A n \in i..Lag : Follows(i, n)
        BY <1>1, <2>0, <3>1, <4>1, <4>2 DEF Unbroken, Changed
      <4>4. CASE m \in Ages
        BY <1>1, <2>0, <4>1, <4>3, <4>4 DEF Follows
      <4>5. CASE m \notin Ages
        <5>1. m = j  BY <1>1, <2>0, <3>1, <4>5
        <5>2. Lag \in i..Lag  BY <1>1, <2>0, <4>1
        <5>3. Follows(i, Lag)  BY <4>3, <5>2
        <5> QED  BY <1>1, <3>1, <4>1, <4>2, <5>1, <5>3 DEF Follows, Changed
      <4> QED  BY <4>4, <4>5
    <3> QED  BY <3>2, <3>3
  <2> QED  BY <2>1, <2>2
<1> QED  BY <1>2, <1>3, <1>4

LEMMA DeliveryKeepsHistory ==
  ASSUME TypeOK, History, DeliverDC
  PROVE  History'
<1> USE DEF History
<1>1. /\ dc' = dc /\ uid' = uid /\ Lag \in Nat \ {0} /\ Lag' = Lag - 1
      /\ Ages = 0..Lag
      /\ \A i \in Ages' : i + 1 \in Ages /\ Seen(i)' = Seen(i + 1)
  BY SeenAfterDelivery DEF TypeOK, ClusterTypeOK, DeliverDC, Ages
<1>2. Ages' = 0..(Lag - 1)  BY <1>1 DEF Ages
<1>3. CacheReaches'
  <2>1. Lag' \in Ages' /\ Lag' + 1 = Lag  BY <1>1, <1>2
  <2>2. Seen(Lag)' = Seen(Lag)
    <3>1. ASSUME NEW n \in Ages', n = Lag' PROVE Seen(n)' = Seen(Lag)
      BY <1>1, <2>1, <3>1
    <3> QED  BY <2>1, <3>1
  <2> QED  BY <1>1, <2>2 DEF CacheReaches
<1>4. UidsCount'  BY <1>1 DEF UidsCount
<1>5. Unbroken'
  <2> SUFFICES ASSUME NEW i \in Ages', NEW j \in Ages', i <= j,
                      Seen(i)' # None, Seen(j)' # None, Seen(i)'.uid = Seen(j)'.uid,
                      NEW m \in i..j
               PROVE  Follows(i, m)'
    BY DEF Unbroken
  <2>1. m \in Ages' /\ m + 1 \in (i + 1)..(j + 1) /\ i + 1 <= j + 1
    BY <1>1, <1>2
  <2>2. Follows(i + 1, m + 1)
    BY <1>1, <2>1 DEF Unbroken
  <2> QED  BY <1>1, <2>1, <2>2 DEF Follows
<1> QED  BY <1>3, <1>4, <1>5

-----------------------------------------------------------------------------
(***************************************************************************)
(* Steps that leave the DeviceConfig and its cache alone: the worker       *)
(* stands still, stops, or goes from one handler to the next.              *)
(***************************************************************************)
LEMMA OtherStep ==
  ASSUME FinalizerInv, UNCHANGED <<dcVars, uid>>,
         \/ UNCHANGED <<pc, wdc>>
         \/ pc' = "idle"
         \/ pc \in Children /\ pc' \in Children /\ UNCHANGED wdc
  PROVE  FinalizerInv'
<1>1. /\ dc' = dc /\ dcCache' = dcCache /\ dcWatch' = dcWatch /\ uid' = uid
      /\ Lag' = Lag /\ Ages' = Ages
      /\ \A i : Seen(i)' = Seen(i)
  BY DEF dcVars, Lag, Ages, Seen
<1>2. CacheReaches' /\ UidsCount'
  BY <1>1 DEF FinalizerInv, CacheReaches, UidsCount, Lag, Seen
<1>3. Unbroken'  BY <1>1 DEF FinalizerInv, Unbroken, Follows
<1>4. OneProtected' /\ ReleasedWhenSeen'
  BY <1>1 DEF FinalizerInv, OneProtected, ReleasedWhenSeen, HasFinalizer, Protected,
              Live, DeletionSeen
<1>5. FinalizingTheDeleted' /\ ProtectedFromTheStart' /\ FinalizerProtects'
  BY <1>1 DEF FinalizerInv, FinalizingTheDeleted, ProtectedFromTheStart,
              FinalizerProtects, HasFinalizer, Protected, Live, DeletionSeen, Children
<1> QED  BY <1>2, <1>3, <1>4, <1>5 DEF FinalizerInv

(***************************************************************************)
(* Writes of users and other controllers: they neither set nor remove the  *)
(* operator's finalizer, and nothing makes an object that has it go.       *)
(***************************************************************************)
Kept(v) ==
  /\ HasFinalizer(v) <=> HasFinalizer(dc)
  /\ HasFinalizer(dc) => v.uid = dc.uid

LEMMA UserWrite ==
  ASSUME TypeOK, FinalizerInv, NEW v, WriteDC(v),
         Gone(v) \/ Changed(v) \/ Fresh(v), Kept(v), UNCHANGED <<pc, wdc>>
  PROVE  FinalizerInv'
<1>0. History /\ DCTypeOK
  BY DEF FinalizerInv, History, TypeOK, ClusterTypeOK
<1>1. History'  BY <1>0, WriteKeepsHistory
<1>2. /\ dc' = v /\ dcCache' = dcCache
      /\ \A i \in Ages' : \/ i \in Ages /\ Seen(i)' = Seen(i)
                          \/ Seen(i)' = v
  <2>1. /\ dc' = v /\ dcCache' = dcCache /\ Lag \in Nat
        /\ \A i \in Ages : Seen(i)' = Seen(i)
        /\ \/ Lag' = Lag
           \/ Lag' = Lag + 1 /\ Seen(Lag)' = v
    BY <1>0, SeenAfterWrite, LagType
  <2> QED  BY <2>1 DEF Ages
<1>3. \A d : Protected(d) => Protected(d)'
  BY <1>2 DEF Kept, Protected, Live, HasFinalizer
<1>4. HasFinalizer(v) => Protected(v)'
  BY <1>2 DEF Protected, Live, HasFinalizer
<1>5. OneProtected'
  BY <1>0, <1>2 DEF FinalizerInv, OneProtected, HasFinalizer, Kept
<1>6. ReleasedWhenSeen'
  BY <1>2, <1>3, <1>4
  DEF FinalizerInv, ReleasedWhenSeen, HasFinalizer, Protected, Live, DeletionSeen
<1>7. FinalizingTheDeleted'
  BY <1>2 DEF FinalizerInv, FinalizingTheDeleted, HasFinalizer, Kept, DeletionSeen
<1>8. ProtectedFromTheStart'
  BY <1>2, <1>3, <1>4
  DEF FinalizerInv, ProtectedFromTheStart, HasFinalizer, Protected, Live
<1>9. FinalizerProtects'
  BY <1>2, TypeOK DEF FinalizerInv, FinalizerProtects, Kept, HasFinalizer, Live
<1> QED  BY <1>1, <1>5, <1>6, <1>7, <1>8, <1>9 DEF FinalizerInv, History

LEMMA EnvironmentStep ==
  ASSUME TypeOK, FinalizerInv, Environment, UNCHANGED workerVars
  PROVE  FinalizerInv'
<1>0. UNCHANGED <<pc, wdc>> /\ dc \in DeviceConfig \cup {None} /\ uid \in Nat
  BY BoundsAssumption
  DEF workerVars, TypeOK, ClusterTypeOK, DCTypeOK, CountersTypeOK
<1>1. ASSUME NEW s \in Specs, UserCreate(s)
      PROVE  FinalizerInv'
  <2> DEFINE v == [uid |-> uid + 1, spec |-> s, fins |-> {}, deleting |-> FALSE]
  <2>1. v \in DeviceConfig
    BY <1>0, <1>1, BoundsAssumption, SpecsAssumption
    DEF UserCreate, DeviceConfig, Uids, TypeOK, ClusterTypeOK, CountersTypeOK
  <2>2. WriteDC(v) /\ Fresh(v) /\ Kept(v)
    BY <1>1, <2>1, NoneAssumption DEF UserCreate, Fresh, Kept, HasFinalizer
  <2> HIDE DEF v
  <2> QED  BY <1>0, <2>2, UserWrite
<1>2. ASSUME NEW s \in Specs, UserEdit(s)
      PROVE  FinalizerInv'
  <2> DEFINE v == [dc EXCEPT !.spec = s]
  <2>1. v \in DeviceConfig /\ v.uid = dc.uid /\ v.fins = dc.fins /\ v.deleting = dc.deleting
    BY <1>0, <1>2, SpecsAssumption DEF UserEdit, DeviceConfig
  <2>2. WriteDC(v) /\ Changed(v) /\ Kept(v)
    BY <1>2, <2>1, NoneAssumption DEF UserEdit, Changed, Kept, HasFinalizer
  <2> HIDE DEF v
  <2> QED  BY <1>0, <2>2, UserWrite
<1>3. CASE UserDelete
  <2>1. CASE dc.fins = {}
    <3>1. WriteDC(None) /\ Gone(None) /\ Kept(None)
      BY <1>3, <2>1 DEF UserDelete, Gone, Kept, HasFinalizer
    <3> QED  BY <1>0, <3>1, UserWrite
  <2>2. CASE dc.fins # {}
    <3> DEFINE v == [dc EXCEPT !.deleting = TRUE]
    <3>1. v \in DeviceConfig /\ v.uid = dc.uid /\ v.fins = dc.fins /\ v.deleting
      BY <1>0, <1>3 DEF UserDelete, DeviceConfig
    <3>2. WriteDC(v) /\ Changed(v) /\ Kept(v)
      BY <1>3, <2>2, <3>1, NoneAssumption DEF UserDelete, Changed, Kept, HasFinalizer
    <3> HIDE DEF v
    <3> QED  BY <1>0, <3>2, UserWrite
  <2> QED  BY <2>1, <2>2
<1>4. ASSUME NEW f \in Foreign, ForeignFinalizerAdd(f)
      PROVE  FinalizerInv'
  <2> DEFINE v == [dc EXCEPT !.fins = dc.fins \cup {f}]
  <2>1. /\ v \in DeviceConfig /\ v.uid = dc.uid /\ v.deleting = dc.deleting
        /\ v.fins = dc.fins \cup {f} /\ f # Operator
    BY <1>0, <1>4, NamesAssumption DEF ForeignFinalizerAdd, DeviceConfig
  <2>2. WriteDC(v) /\ Changed(v) /\ Kept(v)
    BY <1>4, <2>1, NoneAssumption
    DEF ForeignFinalizerAdd, WithFinalizers, Changed, Kept, HasFinalizer
  <2> HIDE DEF v
  <2> QED  BY <1>0, <2>2, UserWrite
<1>5. ASSUME NEW f \in Foreign, ForeignFinalizerRemove(f)
      PROVE  FinalizerInv'
  <2>1. CASE dc.fins \ {f} = {}
    <3>1. WriteDC(None) /\ Gone(None) /\ Kept(None)
      BY <1>5, <2>1, NamesAssumption
      DEF ForeignFinalizerRemove, WithFinalizers, Gone, Kept, HasFinalizer
    <3> QED  BY <1>0, <3>1, UserWrite
  <2>2. CASE dc.fins \ {f} # {}
    <3> DEFINE v == [dc EXCEPT !.fins = dc.fins \ {f}]
    <3>1. /\ v \in DeviceConfig /\ v.uid = dc.uid /\ v.deleting = dc.deleting
          /\ v.fins = dc.fins \ {f} /\ f # Operator
      BY <1>0, <1>5, NamesAssumption DEF ForeignFinalizerRemove, DeviceConfig
    <3>2. WriteDC(v) /\ Changed(v) /\ Kept(v)
      BY <1>5, <2>2, <3>1, NoneAssumption
      DEF ForeignFinalizerRemove, WithFinalizers, Changed, Kept, HasFinalizer
    <3> HIDE DEF v
    <3> QED  BY <1>0, <3>2, UserWrite
  <2> QED  BY <2>1, <2>2
<1>6. CASE UNCHANGED <<dcVars, uid>>  BY <1>0, <1>6, OtherStep
<1> QED
  BY <1>1, <1>2, <1>3, <1>4, <1>5, <1>6
  DEF Environment, AlienCreate, AlienEdit, AlienDelete, Touch, GarbageCollect,
      KMMClaim, KMMRelease

-----------------------------------------------------------------------------
(***************************************************************************)
(* The cache takes the next state: what it knew of a deletion it still     *)
(* knows, as long as states of that DeviceConfig are on their way.         *)
(***************************************************************************)
LEMMA DeliverDCStep ==
  ASSUME TypeOK, FinalizerInv, DeliverDC
  PROVE  FinalizerInv'
<1>0. History /\ DCTypeOK
  BY DEF FinalizerInv, History, TypeOK, ClusterTypeOK
<1>1. History'  BY <1>0, DeliveryKeepsHistory
<1>2. /\ dc' = dc /\ UNCHANGED <<pc, wdc>>
      /\ Lag \in Nat \ {0} /\ Ages = 0..Lag /\ 1 \in Ages
      /\ dcCache = Seen(0) /\ dcCache' = Seen(1) /\ Seen(Lag) = dc
      /\ \A i \in Ages' : i + 1 \in Ages /\ i + 1 >= 1 /\ Seen(i)' = Seen(i + 1)
  BY <1>0, SeenAfterDelivery, LagType
  DEF DeliverDC, Ages, History, CacheReaches
<1>3. \A d : Protected(d)' <=> Protected(d)
  BY <1>2 DEF Protected, Live
<1>4. ASSUME NEW j \in Ages, j >= 1, Seen(j) # None, NEW u, u = Seen(j).uid,
             DeletionSeen(u)
      PROVE  DeletionSeen(u)'
  <2>1. Seen(0) # None /\ Seen(0).uid = Seen(j).uid /\ Seen(0).deleting
    BY <1>2, <1>4 DEF DeletionSeen
  <2>2. 0 \in Ages /\ 0 <= j /\ 1 \in 0..j  BY <1>2, <1>4
  <2>3. Follows(0, 1)  BY <1>0, <2>1, <2>2, <1>4 DEF History, Unbroken
  <2>4. Seen(1) # None /\ Seen(1).uid = u /\ Seen(1).deleting
    BY <1>4, <2>1, <2>3 DEF Follows
  <2> QED  BY <1>2, <2>4 DEF DeletionSeen
<1>5. OneProtected'
  BY <1>2 DEF FinalizerInv, OneProtected, HasFinalizer
<1>6. ReleasedWhenSeen'
  <2> SUFFICES ASSUME NEW i \in Ages', HasFinalizer(Seen(i))'
               PROVE  Protected(Seen(i))' \/ DeletionSeen(Seen(i).uid)'
    BY DEF ReleasedWhenSeen
  <2> DEFINE d == Seen(i + 1)
  <2>1. i + 1 \in Ages /\ i + 1 >= 1 /\ Seen(i)' = d  BY <1>2
  <2>2. HasFinalizer(d)  BY <2>1 DEF HasFinalizer
  <2>3. Protected(d) \/ DeletionSeen(d.uid)
    BY <2>1, <2>2 DEF FinalizerInv, ReleasedWhenSeen
  <2>4. ASSUME NEW u, u = d.uid, DeletionSeen(u) PROVE DeletionSeen(u)'
    BY <1>4, <2>1, <2>2, <2>4 DEF HasFinalizer
  <2>5. CASE Protected(d)  BY <1>2, <2>1, <2>5 DEF Protected, Live
  <2>6. CASE DeletionSeen(d.uid)
    BY <2>1, <2>4, <2>6 DEF DeletionSeen
  <2> QED  BY <2>3, <2>5, <2>6
<1>7. FinalizingTheDeleted'
  <2> SUFFICES ASSUME pc = "finalize", HasFinalizer(wdc), HasFinalizer(dc)
               PROVE  DeletionSeen(dc.uid)'
    BY <1>2 DEF FinalizingTheDeleted, HasFinalizer
  <2>1. DeletionSeen(dc.uid)  BY DEF FinalizerInv, FinalizingTheDeleted
  <2>2. Lag \in Ages /\ Lag >= 1 /\ Seen(Lag) = dc /\ dc # None
    BY <1>2 DEF HasFinalizer
  <2>3. ASSUME NEW u, u = dc.uid PROVE DeletionSeen(u)'
    BY <1>4, <2>1, <2>2, <2>3
  <2> QED  BY <1>2, <2>3 DEF DeletionSeen
<1>8. ProtectedFromTheStart'
  BY <1>2, <1>3 DEF FinalizerInv, ProtectedFromTheStart, HasFinalizer
<1>9. FinalizerProtects'
  BY <1>2 DEF FinalizerInv, FinalizerProtects, Live
<1> QED  BY <1>1, <1>5, <1>6, <1>7, <1>8, <1>9 DEF FinalizerInv, History

-----------------------------------------------------------------------------
(***************************************************************************)
(* The worker takes the cached copy: one that is not being deleted has a   *)
(* finalizer only if the server's still has it.                            *)
(***************************************************************************)
LEMMA ReconcileStep ==
  ASSUME TypeOK, FinalizerInv, Reconcile
  PROVE  FinalizerInv'
<1>0. UNCHANGED <<dcVars, uid>>  BY DEF Reconcile, clusterVars, dcVars
<1>1. /\ dc' = dc /\ dcCache' = dcCache /\ dcWatch' = dcWatch /\ uid' = uid
      /\ Ages' = Ages /\ Lag' = Lag
      /\ \A i : Seen(i)' = Seen(i)
      /\ 0 \in Ages /\ Seen(0) = dcCache
      /\ wdc' = dcCache /\ dcCache \in DeviceConfig \cup {None}
  BY <1>0, LagType
  DEF Reconcile, dcVars, Lag, Ages, Seen, TypeOK, ClusterTypeOK, DCTypeOK
<1>2. CASE dcCache = None
  <2>1. pc' = "idle"  BY <1>2 DEF Reconcile
  <2> QED  BY <1>0, <2>1, OtherStep
<1>3. CASE dcCache # None
  <2>1. CacheReaches' /\ UidsCount'
    BY <1>1 DEF FinalizerInv, CacheReaches, UidsCount, Lag, Seen
  <2>2. Unbroken'  BY <1>1 DEF FinalizerInv, Unbroken, Follows
  <2>3. OneProtected' /\ ReleasedWhenSeen'
    BY <1>1 DEF FinalizerInv, OneProtected, ReleasedWhenSeen, HasFinalizer, Protected,
                Live, DeletionSeen
  <2>4. /\ dcCache.deleting => pc' = "finalize"
        /\ ~dcCache.deleting => pc' = "setFinalizer"
        /\ dcCache.deleting \in BOOLEAN
    BY <1>1, <1>3 DEF Reconcile, DeviceConfig
  <2>5. FinalizingTheDeleted'
    BY <1>1, <1>3, <2>4
    DEF FinalizerInv, FinalizingTheDeleted, OneProtected, HasFinalizer, DeletionSeen
  <2>6. ProtectedFromTheStart'
    <3> SUFFICES ASSUME ~dcCache.deleting
                 PROVE  \A i \in Ages : HasFinalizer(Seen(i)) => Protected(Seen(i))
      BY <1>1, <2>4 DEF ProtectedFromTheStart, HasFinalizer, Protected, Live
    <3> QED  BY DEF FinalizerInv, ReleasedWhenSeen, DeletionSeen
  <2>7. FinalizerProtects'  BY <2>4 DEF FinalizerProtects, Children
  <2> QED  BY <2>1, <2>2, <2>3, <2>5, <2>6, <2>7 DEF FinalizerInv
<1> QED  BY <1>2, <1>3

(* A new list of finalizers changes the DeviceConfig or lets it go. *)
LEMMA FinalizersChange ==
  ASSUME NEW fs \in SUBSET ({Operator} \cup Foreign), dc \in DeviceConfig, UNCHANGED uid
  PROVE  /\ Gone(WithFinalizers(dc, fs)) \/ Changed(WithFinalizers(dc, fs))
         /\ HasFinalizer(WithFinalizers(dc, fs)) <=> Operator \in fs
  BY NoneAssumption DEF WithFinalizers, Gone, Changed, HasFinalizer, DeviceConfig

(***************************************************************************)
(* setFinalizer puts the finalizer on a DeviceConfig that no state on its  *)
(* way is an earlier, finalized incarnation of.                            *)
(***************************************************************************)
LEMMA SetFinalizerStep ==
  ASSUME TypeOK, FinalizerInv, SetFinalizer
  PROVE  FinalizerInv'
<1> DEFINE fs == wdc.fins \cup {Operator}
           v  == WithFinalizers(dc, fs)
<1>0. /\ pc = "setFinalizer" /\ uid' = uid /\ wdc \in DeviceConfig
      /\ fs \in SUBSET ({Operator} \cup Foreign) /\ History /\ DCTypeOK
  BY DEF SetFinalizer, TypeOK, WorkerTypeOK, ClusterTypeOK, DeviceConfig, FinalizerInv, History
<1>1. CASE Operator \in wdc.fins
  <2>1. pc' = "module" /\ wdc' = wdc /\ UNCHANGED dcVars
    BY <1>1 DEF SetFinalizer, Goto
  <2>2. Protected(wdc)
    BY <1>0, <1>1, NoneAssumption DEF FinalizerInv, ProtectedFromTheStart, HasFinalizer
  <2>3. /\ dc' = dc /\ dcCache' = dcCache /\ dcWatch' = dcWatch /\ uid' = uid
        /\ Ages' = Ages /\ Lag' = Lag
        /\ \A i : Seen(i)' = Seen(i)
    BY <1>0, <2>1 DEF dcVars, Lag, Ages, Seen
  <2>4. CacheReaches' /\ UidsCount'
    BY <2>3 DEF FinalizerInv, CacheReaches, UidsCount, Lag, Seen
  <2>5. Unbroken'  BY <2>3 DEF FinalizerInv, Unbroken, Follows
  <2>6. OneProtected' /\ ReleasedWhenSeen'
    BY <2>3 DEF FinalizerInv, OneProtected, ReleasedWhenSeen, HasFinalizer, Protected,
                Live, DeletionSeen
  <2>7. FinalizingTheDeleted' /\ ProtectedFromTheStart' /\ FinalizerProtects'
    BY <2>1, <2>2, <2>3
    DEF FinalizingTheDeleted, ProtectedFromTheStart, FinalizerProtects, Protected, Live
  <2> QED  BY <2>4, <2>5, <2>6, <2>7 DEF FinalizerInv
<1>2. CASE Operator \notin wdc.fins /\ FinalizerPatchFails(fs)
  <2>1. pc' = "idle" /\ UNCHANGED <<dcVars, uid>>
    BY <1>2 DEF SetFinalizer, Fail, PatchFinalizers, FinalizerPatchFails
  <2> QED  BY <2>1, OtherStep
<1>3. CASE Operator \notin wdc.fins /\ ~FinalizerPatchFails(fs)
  <2>1. /\ dc \in DeviceConfig /\ dc # None
        /\ WriteDC(v) /\ pc' = "module" /\ wdc' = Decoded(wdc, v)
    BY <1>0, <1>3
    DEF SetFinalizer, PatchFinalizers, FinalizerPatchFails, DCTypeOK
  <2>2. (Gone(v) \/ Changed(v)) /\ HasFinalizer(v)
    BY <1>0, <2>1, FinalizersChange
  <2>3. v # None /\ v.uid = dc.uid
    BY <2>2 DEF Gone, Changed, HasFinalizer
  <2>3a. wdc'.uid = v.uid
    BY <1>0, <2>1, <2>3, WithFinalizersType, DecodedCopyType
  <2> HIDE DEF v
  <2>4. History'  BY <1>0, <2>1, <2>2, WriteKeepsHistory
  <2>5. /\ dc' = v /\ dcCache' = dcCache
        /\ \A i \in Ages' : \/ i \in Ages /\ Seen(i)' = Seen(i)
                            \/ Seen(i)' = v
    <3>1. /\ dc' = v /\ dcCache' = dcCache /\ Lag \in Nat
          /\ \A i \in Ages : Seen(i)' = Seen(i)
          /\ \/ Lag' = Lag
             \/ Lag' = Lag + 1 /\ Seen(Lag)' = v
      BY <1>0, <2>1, SeenAfterWrite, LagType
    <3> QED  BY <3>1 DEF Ages
  <2>6. \A i \in Ages : HasFinalizer(Seen(i)) => Seen(i).uid = v.uid
    BY <1>0, <2>3 DEF FinalizerInv, ProtectedFromTheStart, Protected, Live
  <2>7. \A i \in Ages' : HasFinalizer(Seen(i))' => Seen(i)'.uid = v.uid
    BY <2>5, <2>6 DEF HasFinalizer
  <2>8. OneProtected' /\ ReleasedWhenSeen'
    BY <2>2, <2>5, <2>7
    DEF OneProtected, ReleasedWhenSeen, HasFinalizer, Protected, Live
  <2>9. FinalizingTheDeleted' /\ ProtectedFromTheStart' /\ FinalizerProtects'
    BY <2>1, <2>2, <2>3a, <2>5
    DEF FinalizingTheDeleted, ProtectedFromTheStart, FinalizerProtects, HasFinalizer, Live
  <2> QED  BY <2>4, <2>8, <2>9 DEF FinalizerInv, History
<1> QED  BY <1>1, <1>2, <1>3

(***************************************************************************)
(* finalizeDeviceConfig takes the finalizer off: the cache knows of the    *)
(* deletion, so the states on their way that still have it are accounted   *)
(* for.                                                                    *)
(***************************************************************************)
LEMMA RemoveFinalizerStep ==
  ASSUME TypeOK, FinalizerInv, RemoveFinalizer
  PROVE  FinalizerInv'
<1>0. /\ pc = "finalize" /\ uid' = uid /\ wdc \in DeviceConfig /\ pc' = "idle"
      /\ dc \in DeviceConfig \cup {None} /\ History /\ DCTypeOK
  BY DEF RemoveFinalizer, Done, Fail, TypeOK, WorkerTypeOK, ClusterTypeOK, DCTypeOK,
         FinalizerInv, History
<1>1. PICK fs : /\ fs = IF Operator \in wdc.fins \/ dc = None
                         THEN wdc.fins \ {Operator} ELSE dc.fins
                /\ PatchFinalizers(fs)
  BY DEF RemoveFinalizer
<1>2. CASE UNCHANGED dcVars  BY <1>0, <1>2, OtherStep
<1>3. CASE ~UNCHANGED dcVars
  <2> DEFINE v == WithFinalizers(dc, fs)
  <2>1. dc # None /\ dc \in DeviceConfig /\ WriteDC(v)
    BY <1>0, <1>1, <1>3 DEF PatchFinalizers
  <2>2. fs \in SUBSET ({Operator} \cup Foreign)
    BY <1>0, <1>1, <2>1 DEF DeviceConfig
  <2>3. /\ Gone(v) \/ Changed(v)
        /\ HasFinalizer(v) <=> Operator \in fs
    BY <1>0, <2>1, <2>2, FinalizersChange
  <2>4. Operator \notin fs /\ (HasFinalizer(dc) => HasFinalizer(wdc))
    <3>1. CASE Operator \in wdc.fins
      BY <1>0, <1>1, <3>1, NoneAssumption DEF HasFinalizer
    <3>2. CASE Operator \notin wdc.fins
      <4>1. fs = dc.fins  BY <1>1, <2>1, <3>2
      <4>2. CASE Operator \in dc.fins
        <5>1. v = dc  BY <2>1, <4>1, <4>2 DEF WithFinalizers, DeviceConfig
        <5>2. UNCHANGED dcVars  BY <2>1, <5>1 DEF WriteDC, dcVars
        <5> QED  BY <1>3, <5>2
      <4>3. CASE Operator \notin dc.fins
        BY <4>1, <4>3 DEF HasFinalizer
      <4> QED  BY <4>2, <4>3
    <3> QED  BY <3>1, <3>2
  <2> HIDE DEF v
  <2>5. History'  BY <1>0, <2>1, <2>3, WriteKeepsHistory
  <2>6. /\ dc' = v /\ dcCache' = dcCache
        /\ \A i \in Ages' : \/ i \in Ages /\ Seen(i)' = Seen(i)
                            \/ Seen(i)' = v
    <3>1. /\ dc' = v /\ dcCache' = dcCache /\ Lag \in Nat
          /\ \A i \in Ages : Seen(i)' = Seen(i)
          /\ \/ Lag' = Lag
             \/ Lag' = Lag + 1 /\ Seen(Lag)' = v
      BY <1>0, <2>1, SeenAfterWrite, LagType
    <3> QED  BY <3>1 DEF Ages
  <2>7. \A i \in Ages : HasFinalizer(Seen(i)) => DeletionSeen(Seen(i).uid)
    BY <1>0, <2>4
    DEF FinalizerInv, ReleasedWhenSeen, FinalizingTheDeleted, Protected, Live, HasFinalizer
  <2>8. OneProtected' /\ ReleasedWhenSeen'
    BY <2>3, <2>4, <2>6, <2>7
    DEF OneProtected, ReleasedWhenSeen, HasFinalizer, DeletionSeen
  <2>9. FinalizingTheDeleted' /\ ProtectedFromTheStart' /\ FinalizerProtects'
    BY <1>0 DEF FinalizingTheDeleted, ProtectedFromTheStart, FinalizerProtects, Children
  <2> QED  BY <2>5, <2>8, <2>9 DEF FinalizerInv, History
<1> QED  BY <1>2, <1>3

(* A crash: the next operator's cache starts from the server. *)
LEMMA RestartStep ==
  ASSUME TypeOK, FinalizerInv, Restart
  PROVE  FinalizerInv'
<1>1. /\ dc' = dc /\ dcCache' = dc /\ dcWatch' = <<>> /\ uid' = uid /\ pc' = "idle"
  BY DEF Restart
<1>2. Lag' = 0 /\ Ages' = {0} /\ \A i \in Ages' : Seen(i)' = dc
  BY <1>1 DEF Lag, Ages, Seen
<1>3. dc # None => dc.uid \in 1..uid
  BY LagType DEF TypeOK, ClusterTypeOK, FinalizerInv, CacheReaches, UidsCount
<1>4. CacheReaches'  BY <1>1 DEF CacheReaches, Lag, Seen
<1>5. UidsCount'  BY <1>1, <1>2, <1>3 DEF UidsCount
<1>6. Unbroken'  BY <1>2 DEF Unbroken, Follows
<1>7. OneProtected' /\ ReleasedWhenSeen'
  BY <1>1, <1>2 DEF OneProtected, ReleasedWhenSeen, HasFinalizer, Protected, Live
<1>8. FinalizingTheDeleted' /\ ProtectedFromTheStart' /\ FinalizerProtects'
  BY <1>1 DEF FinalizingTheDeleted, ProtectedFromTheStart, FinalizerProtects, Children
<1> QED  BY <1>4, <1>5, <1>6, <1>7, <1>8 DEF FinalizerInv

-----------------------------------------------------------------------------
LEMMA InitFinalizerInv == Init => FinalizerInv
<1> SUFFICES ASSUME Init PROVE FinalizerInv  OBVIOUS
<1>1. dc = None /\ dcCache = None /\ dcWatch = <<>> /\ pc = "idle"
  BY DEF Init, ClusterInit
<1>2. Lag = 0 /\ Ages = {0} /\ Seen(0) = None  BY <1>1 DEF Lag, Ages, Seen
<1> QED
  BY <1>1, <1>2
  DEF FinalizerInv, CacheReaches, UidsCount, Unbroken, OneProtected, ReleasedWhenSeen,
      FinalizingTheDeleted, ProtectedFromTheStart, FinalizerProtects, HasFinalizer, Children

LEMMA NextFinalizerInv == TypeOK /\ FinalizerInv /\ [Next]_vars => FinalizerInv'
<1> SUFFICES ASSUME TypeOK, FinalizerInv, [Next]_vars PROVE FinalizerInv'  OBVIOUS
<1>1. CASE UNCHANGED vars
  <2>1. UNCHANGED <<dcVars, uid>> /\ UNCHANGED <<pc, wdc>>
    BY <1>1 DEF vars, clusterVars, workerVars, dcVars
  <2> QED  BY <2>1, OtherStep
<1>2. CASE Environment /\ UNCHANGED workerVars  BY <1>2, EnvironmentStep
<1>3. CASE DeliverDC  BY <1>3, DeliverDCStep
<1>4. ASSUME NEW k \in Children, DeliverChild(k)
      PROVE  FinalizerInv'
  <2>1. UNCHANGED <<dcVars, uid>> /\ UNCHANGED <<pc, wdc>>  BY <1>4 DEF DeliverChild
  <2> QED  BY <2>1, OtherStep
<1>5. CASE Resync
  <2>1. UNCHANGED <<dcVars, uid>> /\ UNCHANGED <<pc, wdc>>
    BY <1>5 DEF Resync, clusterVars, dcVars
  <2> QED  BY <2>1, OtherStep
<1>6. CASE Reconcile  BY <1>6, ReconcileStep
<1>7. CASE SetFinalizer  BY <1>7, SetFinalizerStep
<1>8. CASE Handle
  <2>1. /\ UNCHANGED <<dcVars, uid>>
        /\ pc' = "idle" \/ (pc \in Children /\ pc' \in Children /\ UNCHANGED wdc)
    BY <1>8
    DEF Handle, HandleKMMModule, HandleCustomScheduler, HandleCustomSchedulerExtension,
        HandleNodeMetrics, CreateOrPatch, Create, Patch, Goto, Done, Fail, Children
  <2> QED  BY <2>1, OtherStep
<1>9. CASE FinalizeMetrics \/ FinalizeModule
  <2>1. UNCHANGED <<dcVars, uid>> /\ pc' = "idle"
    BY <1>9 DEF FinalizeMetrics, FinalizeModule, DeleteChild, Done, Fail
  <2> QED  BY <2>1, OtherStep
<1>10. CASE RemoveFinalizer  BY <1>10, RemoveFinalizerStep
<1>11. CASE Fault
  <2>1. UNCHANGED <<dcVars, uid>> /\ pc' = "idle"
    BY <1>11 DEF Fault, Fail, clusterVars, dcVars
  <2> QED  BY <2>1, OtherStep
<1>12. CASE Restart  BY <1>12, RestartStep
<1> QED
  BY <1>1, <1>2, <1>3, <1>4, <1>5, <1>6, <1>7, <1>8, <1>9, <1>10, <1>11, <1>12
  DEF Next, Deliver, Worker, Finalize

(***************************************************************************)
(* The inductive invariant holds of every behaviour: the states of the     *)
(* DeviceConfig on their way to the operator never mislead the worker      *)
(* about whose finalizer it sets or removes.                               *)
(***************************************************************************)
THEOREM FinalizerInvariance == Spec => []FinalizerInv
<1>1. Init => TypeOK /\ FinalizerInv  BY InitType, InitFinalizerInv
<1>2. TypeOK /\ FinalizerInv /\ [Next]_vars => (TypeOK /\ FinalizerInv)'
  BY NextType, NextFinalizerInv
<1> QED  BY <1>1, <1>2, PTL DEF Spec

(***************************************************************************)
(* While the worker creates and patches objects for a DeviceConfig, that   *)
(* very DeviceConfig is on the server and has the operator's finalizer.    *)
(* (Reconcile calls setFinalizer before its handlers.)                     *)
(***************************************************************************)
THEOREM FinalizerAlwaysProtects == Spec => []FinalizerProtects
<1>1. FinalizerInv => FinalizerProtects  BY DEF FinalizerInv
<1> QED  BY <1>1, FinalizerInvariance, PTL

-----------------------------------------------------------------------------
(* What OwnerIsLive says of one object in one step. *)
GivenToTheLive(k) ==
  obj'[k] # None /\ (obj[k] = None \/ obj'[k].owner # obj[k].owner)
    => Live(obj'[k].owner)

LEMMA WriteObjOthers ==
  ASSUME ObjTypeOK, NEW k \in Children, NEW j \in Children, NEW v, WriteObj(k, v)
  PROVE  obj'[j] = IF j = k THEN v ELSE obj[j]
  BY DEF ObjTypeOK, WriteObj

LEMMA HandleGivesToTheLive ==
  ASSUME TypeOK, FinalizerProtects, Handle, NEW j \in Children
  PROVE  GivenToTheLive(j)
<1>1. PICK k \in Children :
        /\ pc = k
        /\ \/ UNCHANGED objVars
           \/ WriteObj(k, NewObject(k))
           \/ objCache[k] # None /\ obj[k] # None /\ WriteObj(k, PatchedObject(k))
  BY DEF Handle, HandleKMMModule, HandleCustomScheduler, HandleCustomSchedulerExtension,
         HandleNodeMetrics, CreateOrPatch, Create, Patch, CreateFails, PatchFails, Children
<1>2. Live(wdc.uid)  BY <1>1 DEF FinalizerProtects
<1>3. ObjTypeOK /\ wdc # None
  BY <1>1 DEF TypeOK, ClusterTypeOK, WorkerTypeOK, Children
<1>4. CASE UNCHANGED objVars
  BY <1>4 DEF objVars, GivenToTheLive
<1>5. CASE WriteObj(k, NewObject(k))
  <2>1. obj'[j] = IF j = k THEN NewObject(k) ELSE obj[j]  BY <1>3, <1>5, WriteObjOthers
  <2>2. NewObject(k).owner = wdc.uid  BY DEF NewObject
  <2> QED  BY <1>2, <2>1, <2>2 DEF GivenToTheLive
<1>6. CASE objCache[k] # None /\ obj[k] # None /\ WriteObj(k, PatchedObject(k))
  <2>1. obj'[j] = IF j = k THEN PatchedObject(k) ELSE obj[j]  BY <1>3, <1>6, WriteObjOthers
  <2>2. obj[k] \in Object(k)  BY <1>3, <1>6 DEF ObjTypeOK
  <2>3. PatchedObject(k).owner \in {wdc.uid, obj[k].owner}
    BY <2>2 DEF PatchedObject, MergeField, Object
  <2> QED  BY <1>2, <1>6, <2>1, <2>3 DEF GivenToTheLive
<1> QED  BY <1>1, <1>4, <1>5, <1>6

LEMMA StepGivesToTheLive ==
  ASSUME TypeOK, FinalizerProtects, Next, pc # pc', NEW j \in Children
  PROVE  GivenToTheLive(j)
<1>1. CASE Handle  BY <1>1, HandleGivesToTheLive
<1>2. ASSUME NEW k \in Children, DeleteChild(k)
      PROVE  GivenToTheLive(j)
  <2>1. ObjTypeOK  BY DEF TypeOK, ClusterTypeOK
  <2>2. CASE obj[k] = None
    BY <1>2, <2>2 DEF DeleteChild, objVars, GivenToTheLive
  <2>3. CASE obj[k] # None
    <3>1. WriteObj(k, Deleted(obj[k]))  BY <1>2, <2>3 DEF DeleteChild
    <3>2. obj'[j] = IF j = k THEN Deleted(obj[k]) ELSE obj[j]
      BY <2>1, <3>1, WriteObjOthers
    <3>3. obj[k] \in Object(k)  BY <2>1, <2>3 DEF ObjTypeOK
    <3>4. Deleted(obj[k]) # None => Deleted(obj[k]).owner = obj[k].owner
      BY <3>3 DEF Deleted, Object
    <3> QED  BY <2>3, <3>2, <3>4 DEF GivenToTheLive
  <2> QED  BY <2>2, <2>3
<1>3. CASE FinalizeMetrics \/ FinalizeModule
  BY <1>2, <1>3 DEF FinalizeMetrics, FinalizeModule, Children
<1>4. CASE obj' = obj  BY <1>4 DEF GivenToTheLive
<1> QED
  BY <1>1, <1>3, <1>4
  DEF Next, workerVars, Deliver, DeliverDC, DeliverChild, Resync, Worker, Reconcile,
      SetFinalizer, Finalize, RemoveFinalizer, Fault, Restart, clusterVars, objVars

(***************************************************************************)
(* The worker gives an object only to the DeviceConfig that is live.       *)
(* (SetControllerReference in the handlers' CreateOrPatch.)                *)
(***************************************************************************)
THEOREM OwnerAlwaysLive == Spec => OwnerIsLive
<1>1. TypeOK /\ FinalizerProtects /\ [Next]_vars
        => [pc # pc' => \A k \in Children : GivenToTheLive(k)]_vars
  BY StepGivesToTheLive
<1>2. Spec => [][pc # pc' => \A k \in Children : GivenToTheLive(k)]_vars
  BY <1>1, TypeCorrect, FinalizerAlwaysProtects, PTL DEF Spec
<1> QED  BY <1>2 DEF OwnerIsLive, GivenToTheLive
=============================================================================
