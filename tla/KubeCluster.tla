---------------------------- MODULE KubeCluster -----------------------------
(***************************************************************************)
(* The cluster the operator works against, seen from one DeviceConfig      *)
(* name: the API server's DeviceConfig and the four objects of the names   *)
(* the operator derives from it, the watch streams that carry every change *)
(* to the operator's cache, and everybody else who writes these objects -  *)
(* users, controllers with finalizers of their own, the garbage collector, *)
(* and KMM, which keeps a Module until its kernel modules are unloaded.    *)
(*                                                                         *)
(* None of this is the operator's code.  It is modelled from the way the   *)
(* operator uses it: reads come from the cache, writes go to the server,   *)
(* and neither a patch nor a delete carries a resource version or a uid.   *)
(***************************************************************************)
EXTENDS DesiredState, Sequences

CONSTANTS
  None,          \* no object of that name
  Operator,      \* the operator's finalizer, deviceConfigFinalizer
  Foreign,       \* finalizers of other controllers
  NoOwner,       \* the object has no controller reference
  Stranger,      \* a controller that is not a DeviceConfig of this name
  AlienKinds,    \* the kinds of object somebody else may create
  AlienOwners,   \* the controller references such an object may carry
  MaxUid,        \* how often the DeviceConfig may be created
  MaxEdits,      \* how often users and other controllers change it
  MaxAlien       \* how often somebody else touches one of the four objects

VARIABLES
  dc,            \* the DeviceConfig on the server
  dcCache,       \* the operator's cached copy of it
  dcWatch,       \* its states the cache has not seen yet, oldest first
  obj,           \* the four objects on the server
  objCache,      \* the operator's cached copies
  objWatch,      \* per object: its states the cache has not seen yet
  uid,           \* the last uid given to a DeviceConfig of this name
  edits,         \* changes made so far by users and other controllers
  aliens         \* touches so far by somebody else

clusterVars == <<dc, dcCache, dcWatch, obj, objCache, objWatch, uid, edits, aliens>>

Uids   == 1..MaxUid
Owners == Uids \cup {NoOwner, Stranger}

ASSUME BoundsAssumption ==
  MaxUid \in Nat /\ MaxEdits \in Nat /\ MaxAlien \in Nat

ASSUME NamesAssumption ==
  /\ Operator \notin Foreign
  /\ NoOwner \notin Uids /\ Stranger \notin Uids /\ NoOwner # Stranger
  /\ None \notin Owners
  /\ AlienKinds \subseteq Children /\ AlienOwners \subseteq Owners

DeviceConfig ==
  [uid : Uids, spec : DeviceConfigSpec, fins : SUBSET ({Operator} \cup Foreign),
   deleting : BOOLEAN]

Object(k) ==
  [spec : Contents(k), owner : Owners, kmm : BOOLEAN, deleting : BOOLEAN]

ASSUME NoneAssumption ==
  None \notin DeviceConfig /\ \A k \in Children : None \notin Object(k)

DCTypeOK ==
  /\ dc \in DeviceConfig \cup {None}
  /\ dcCache \in DeviceConfig \cup {None}
  /\ dcWatch \in Seq(DeviceConfig \cup {None})

ObjTypeOK ==
  /\ DOMAIN obj = Children /\ DOMAIN objCache = Children /\ DOMAIN objWatch = Children
  /\ \A k \in Children : /\ obj[k] \in Object(k) \cup {None}
                         /\ objCache[k] \in Object(k) \cup {None}
                         /\ objWatch[k] \in Seq(Object(k) \cup {None})

CountersTypeOK == uid \in 0..MaxUid /\ edits \in Nat /\ aliens \in Nat

ClusterTypeOK == DCTypeOK /\ ObjTypeOK /\ CountersTypeOK

ClusterInit ==
  /\ dc = None /\ dcCache = None /\ dcWatch = <<>>
  /\ obj = [k \in Children |-> None]
  /\ objCache = obj
  /\ objWatch = [k \in Children |-> <<>>]
  /\ uid = 0 /\ edits = 0 /\ aliens = 0

-----------------------------------------------------------------------------
(***************************************************************************)
(* Writes.  The server drops a write that changes nothing; any other one   *)
(* becomes an event of the watch.                                          *)
(***************************************************************************)
WriteDC(v) ==
  /\ dc' = v
  /\ dcWatch' = IF v = dc THEN dcWatch ELSE Append(dcWatch, v)
  /\ UNCHANGED dcCache

WriteObj(k, v) ==
  /\ obj' = [obj EXCEPT ![k] = v]
  /\ objWatch' = IF v = obj[k] THEN objWatch
                               ELSE [objWatch EXCEPT ![k] = Append(@, v)]
  /\ UNCHANGED objCache

dcVars  == <<dc, dcCache, dcWatch>>
objVars == <<obj, objCache, objWatch>>

(* A DeviceConfig whose list of finalizers is replaced by fs. *)
WithFinalizers(d, fs) ==
  IF d.deleting /\ fs = {} THEN None ELSE [d EXCEPT !.fins = fs]

(* The copy d of a DeviceConfig after the server's answer a is decoded into *)
(* it; finalizers and a mark of deletion are in every answer that has them. *)
Decoded(d, a) == [a EXCEPT !.spec = DecodedSpec(d.spec, @)]

(* The server refuses new finalizers on an object that is being deleted. *)
FinalizersAccepted(d, fs) == d.deleting => fs \subseteq d.fins

(* An object after a delete: marked while KMM holds it, gone otherwise. *)
Deleted(o) == IF o.kmm THEN [o EXCEPT !.deleting = TRUE] ELSE None

-----------------------------------------------------------------------------
(***************************************************************************)
(* Users and other controllers.                                            *)
(***************************************************************************)
UserCreate(s) ==
  /\ dc = None /\ uid < MaxUid
  /\ uid' = uid + 1
  /\ WriteDC([uid |-> uid + 1, spec |-> s, fins |-> {}, deleting |-> FALSE])
  /\ UNCHANGED <<objVars, edits, aliens>>

UserEdit(s) ==
  /\ dc # None /\ edits < MaxEdits /\ s # dc.spec
  /\ edits' = edits + 1
  /\ WriteDC([dc EXCEPT !.spec = s])
  /\ UNCHANGED <<objVars, uid, aliens>>

UserDelete ==
  /\ dc # None /\ ~dc.deleting
  /\ WriteDC(IF dc.fins = {} THEN None ELSE [dc EXCEPT !.deleting = TRUE])
  /\ UNCHANGED <<objVars, uid, edits, aliens>>

ForeignFinalizerAdd(f) ==
  /\ dc # None /\ ~dc.deleting /\ f \notin dc.fins /\ edits < MaxEdits
  /\ edits' = edits + 1
  /\ WriteDC(WithFinalizers(dc, dc.fins \cup {f}))
  /\ UNCHANGED <<objVars, uid, aliens>>

ForeignFinalizerRemove(f) ==
  /\ dc # None /\ dc.deleting /\ f \in dc.fins
  /\ WriteDC(WithFinalizers(dc, dc.fins \ {f}))
  /\ UNCHANGED <<objVars, uid, edits, aliens>>

Touch(k, v) ==
  /\ aliens < MaxAlien
  /\ aliens' = aliens + 1
  /\ WriteObj(k, v)
  /\ UNCHANGED <<dcVars, uid, edits>>

AlienCreate(k, o) ==
  /\ k \in AlienKinds /\ obj[k] = None
  /\ Touch(k, [spec |-> Blank(k), owner |-> o, kmm |-> FALSE, deleting |-> FALSE])

AlienEdit(k) ==
  /\ obj[k] # None /\ obj[k].spec # Blank(k)
  /\ Touch(k, [obj[k] EXCEPT !.spec = Blank(k)])

AlienDelete(k) ==
  /\ obj[k] # None /\ ~obj[k].deleting
  /\ Touch(k, Deleted(obj[k]))

-----------------------------------------------------------------------------
(***************************************************************************)
(* The garbage collector deletes an object whose owner, by uid, is gone.   *)
(* KMM puts its finalizer on a Module and takes it off, which lets the     *)
(* Module go, once the nodes have unloaded the kernel module.              *)
(***************************************************************************)
Live(u) == dc # None /\ dc.uid = u

GarbageCollect(k) ==
  /\ obj[k] # None /\ ~obj[k].deleting
  /\ obj[k].owner \in Uids /\ ~Live(obj[k].owner)
  /\ WriteObj(k, Deleted(obj[k]))
  /\ UNCHANGED <<dcVars, uid, edits, aliens>>

KMMClaim ==
  LET mod == obj["module"] IN
  /\ mod # None /\ ~mod.kmm /\ ~mod.deleting
  /\ WriteObj("module", [mod EXCEPT !.kmm = TRUE])
  /\ UNCHANGED <<dcVars, uid, edits, aliens>>

KMMRelease ==
  /\ obj["module"] # None /\ obj["module"].deleting
  /\ WriteObj("module", None)
  /\ UNCHANGED <<dcVars, uid, edits, aliens>>

Environment ==
  \/ \E s \in Specs : UserCreate(s) \/ UserEdit(s)
  \/ UserDelete
  \/ \E f \in Foreign : ForeignFinalizerAdd(f) \/ ForeignFinalizerRemove(f)
  \/ \E k \in Children : \/ \E o \in AlienOwners : AlienCreate(k, o)
                         \/ AlienEdit(k)
                         \/ AlienDelete(k)
                         \/ GarbageCollect(k)
  \/ KMMClaim
  \/ KMMRelease
=============================================================================
