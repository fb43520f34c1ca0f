---------------------------- MODULE LateRequests ----------------------------
(***************************************************************************)
(* Requests that outlive their sender.  An operator that crashes, loses    *)
(* its lease or its connection may have a request under way, which the     *)
(* server carries out at any later time: behind the back of the operator's *)
(* own retry, or of the next operator.  And what the next operator lists   *)
(* may be as old as what the last one had seen.                            *)
(*                                                                         *)
(* The lease (config/manager/controller_manager_config.yaml) keeps two     *)
(* operators from working at the same time (module OperatorLifecycle); it  *)
(* does not recall requests.  This module extends DeviceConfigReconciler   *)
(* by both.                                                                *)
(***************************************************************************)
EXTENDS DeviceConfigReconciler

VARIABLE late  \* the requests of the past that the server may still carry out

lateVars == <<vars, late>>

(***************************************************************************)
(* The request that the worker is about to send, or None.  All it carries  *)
(* is here: names, and fields to replace, but neither uid nor version.     *)
(***************************************************************************)
FinalizersRequest(fs) == [op |-> "finalizers", fins |-> fs]
DeleteRequest(k)      == [op |-> "delete", kind |-> k]
CreateRequest(k)      == [op |-> "create", kind |-> k, object |-> NewObject(k)]
PatchRequest(k)       == [op |-> "patch", kind |-> k, base |-> objCache[k],
                          want |-> Desired(k, wdc.spec), owner |-> wdc.uid]

Request ==
  CASE pc = "setFinalizer" /\ Operator \notin wdc.fins ->
         FinalizersRequest(wdc.fins \cup {Operator})
    [] pc \in Children /\ objCache[pc] = None -> CreateRequest(pc)
    [] pc \in Children /\ objCache[pc] # None /\ objCache[pc].owner # Stranger ->
         PatchRequest(pc)
    [] pc = "finalize" /\ objCache["metrics"] # None -> DeleteRequest("metrics")
    [] pc = "finalize" /\ objCache["metrics"] = None /\ objCache["module"] # None ->
         DeleteRequest("module")
    [] pc = "finalize" /\ objCache["metrics"] = None /\ objCache["module"] = None
         /\ Operator \in wdc.fins -> FinalizersRequest(wdc.fins \ {Operator})
    [] OTHER -> None

(* The connection breaks, or a crash or a lost lease ends the operator; the *)
(* next one starts from a list that is fresh or as old as the last cache.   *)
Disconnected ==
  /\ Fault
  /\ late' = late \cup ({Request} \ {None})

RestartBehind ==
  /\ faults < MaxFaults
  /\ faults' = faults + 1
  /\ pc' = "idle" /\ wdc' = None
  /\ queued' = (dcCache # None \/ \E k \in Children : Owned(objCache[k]))
  /\ UNCHANGED clusterVars

TakenOver ==
  /\ Restart \/ RestartBehind
  /\ late' = late \cup ({Request} \ {None})

(* The server's side of each request. *)
Accepts(k, contents) == k = "module" \/ contents.image # "" \/ EmptyImageAdmitted

LandCreate(r) ==
  IF obj[r.kind] = None /\ Accepts(r.kind, r.object.spec)
    THEN WriteObj(r.kind, r.object)
    ELSE UNCHANGED objVars

LandPatch(r) ==
  LET o == obj[r.kind] IN
  IF o # None /\ Accepts(r.kind, r.want)
    THEN WriteObj(r.kind, [o EXCEPT !.spec  = MergePatch(r.base.spec, r.want, @),
                                    !.owner = MergeField(r.base.owner, r.owner, @)])
    ELSE UNCHANGED objVars

LandDelete(r) ==
  IF obj[r.kind] # None THEN WriteObj(r.kind, Deleted(obj[r.kind])) ELSE UNCHANGED objVars

Land(r) ==
  /\ late' = late \ {r}
  /\ \/ r.op = "finalizers" /\ PatchFinalizers(r.fins) /\ UNCHANGED objVars
     \/ r.op = "create" /\ LandCreate(r) /\ UNCHANGED dcVars
     \/ r.op = "patch"  /\ LandPatch(r)  /\ UNCHANGED dcVars
     \/ r.op = "delete" /\ LandDelete(r) /\ UNCHANGED dcVars
  /\ UNCHANGED <<uid, edits, aliens, workerVars>>

(***************************************************************************)
(* Faults that lose the request for good are those of the module extended, *)
(* so that each fault has both outcomes.                                   *)
(***************************************************************************)
LateInit == Init /\ late = {}

LateNext ==
  \/ Next /\ UNCHANGED late
  \/ Disconnected
  \/ TakenOver
  \/ \E r \in late : Land(r)

LateSpec == LateInit /\ [][LateNext]_lateVars

(***************************************************************************)
(* Whatever a late request has done, and whatever others still may do, the *)
(* watches tell the operator: its property QuietMeansDone holds here, too. *)
(***************************************************************************)
=============================================================================
