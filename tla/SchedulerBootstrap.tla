------------------------- MODULE SchedulerBootstrap -------------------------
(***************************************************************************)
(* The custom scheduler and its extension at work: the two Deployments of  *)
(* internal/customscheduler, the pods made for them, and the scheduling    *)
(* cycles that config/manager/neuron_scheduler_config.yaml lays down.  The *)
(* scheduler asks the extension where to put a pod, and the extension's    *)
(* own pod is one that the scheduler has to put somewhere.                 *)
(*                                                                         *)
(* kube-scheduler, kubelet, the Deployment and Service controllers and the *)
(* users are external.  Nodes have room for every pod.                     *)
(***************************************************************************)
EXTENDS Naturals, FiniteSets

CONSTANTS
  Workloads,  \* pods of users that ask for Neuron devices
  MaxGen,     \* how often each Deployment's pod template changes, creation included
  MaxPods,    \* pods of one Deployment at the same time
  MaxFaults,  \* crashes of pods
  MaxEvicts   \* pods that are evicted or deleted by hand

ASSUME BootstrapAssumption ==
  MaxGen \in Nat /\ MaxPods \in Nat /\ MaxFaults \in Nat /\ MaxEvicts \in Nat

VARIABLES
  gen,      \* the template each Deployment has by now, 0 if there is none
  pods,     \* the pods of the two Deployments
  work,     \* where each workload is: absent, pending, bound
  lease,    \* the number of the scheduler pod that leads, or NoLeader, or Stale
  cycle,    \* the pod in the leader's scheduling cycle that passed the filter
  faults, evicts

bootVars == <<gen, pods, work, lease, cycle, faults, evicts>>

Deployments == {"scheduler", "extension"}
NoLeader == 0
Stale    == MaxPods + 1  \* the lease of a leader that is gone, not expired yet
NoPod    == [of |-> "none"]

(* A pod that terminates still runs. *)
Pod ==
  [of : Deployments, number : 1..MaxPods, gen : 1..MaxGen,
   phase : {"pending", "bound", "ready", "terminating"}]

Workload(w) == [of |-> "workload", name |-> w]

Of(d)   == {p \in pods : p.of = d}
Live(d) == {p \in Of(d) : p.phase # "terminating"}
New(d)  == {p \in Live(d) : p.gen = gen[d]}
Up(d)   == {p \in Of(d) : p.phase = "ready"}
Runs(p) == p.phase \in {"ready", "terminating"}

(* Definitions named X_why are variants of X with a plausible bug. *)

-----------------------------------------------------------------------------
(***************************************************************************)
(* What the Deployments and the configuration say.  The extension's pod    *)
(* asks for no device.                                                     *)
(***************************************************************************)
ManagedResources == {"aws.amazon.com/neuron", "aws.amazon.com/neuroncore"}

Ignorable == FALSE

ExtensionRequests_Neuron == {"aws.amazon.com/neuron"}
ExtensionRequests        == {}

Requests(p) == IF p.of = "extension" THEN ExtensionRequests ELSE {"aws.amazon.com/neuron"}

(* The extender is asked about pods that request what it manages. *)
Interested(p) == Requests(p) \cap ManagedResources # {}

Strategy_DefaultForAll(d) == "RollingUpdate"
Strategy(d) == IF d = "extension" THEN "Recreate" ELSE "RollingUpdate"

(* The Service's selector: its file, over which kustomize lays the labels  *)
(* of config/default.                                                      *)
FileSelector ==
  [name |-> "neuron-scheduler-extension", instance |-> "neuron-scheduler-extension",
   component |-> "scheduler", part_of |-> "any"]

ServiceSelector_FileOnly == FileSelector
ServiceSelector ==
  [FileSelector EXCEPT !.name = "aws-neuron", !.component = "aws-neuron", !.part_of = "aws-neuron"]

ExtensionLabels ==
  [name |-> "aws-neuron", instance |-> "neuron-scheduler-extension",
   component |-> "aws-neuron", part_of |-> "aws-neuron"]

Selected == \A l \in DOMAIN ServiceSelector : ServiceSelector[l] \in {"any", ExtensionLabels[l]}

Reachable == Selected /\ Up("extension") # {}

-----------------------------------------------------------------------------
BootstrapInit ==
  /\ gen = [d \in Deployments |-> 0] /\ pods = {}
  /\ work = [w \in Workloads |-> "absent"]
  /\ lease = NoLeader /\ cycle = NoPod /\ faults = 0 /\ evicts = 0

(* handleCustomScheduler: the scheduler's Deployment first, then the       *)
(* extension's; either changes when a DeviceConfig names another image.    *)
HandleCustomScheduler(d) ==
  /\ gen[d] < MaxGen /\ (d = "extension" => gen["scheduler"] # 0)
  /\ gen' = [gen EXCEPT ![d] = @ + 1]
  /\ UNCHANGED <<pods, work, lease, cycle, faults, evicts>>

-----------------------------------------------------------------------------
(***************************************************************************)
(* The Deployment controller, for one replica.  With strategy Recreate a   *)
(* new template's pod waits until every older pod is gone; the default     *)
(* rolls, with one pod more and none less than there should be.  A pod of  *)
(* the new template that terminates is replaced at once.                   *)
(***************************************************************************)
CreatePod(d) ==
  /\ gen[d] # 0 /\ New(d) = {}
  /\ IF Strategy(d) = "Recreate" THEN \A p \in Of(d) : p.gen = gen[d]
                                 ELSE Cardinality(Live(d)) <= 1
  /\ \E n \in 1..MaxPods :
       /\ \A p \in Of(d) : p.number # n
       /\ pods' = pods \cup {[of |-> d, number |-> n, gen |-> gen[d], phase |-> "pending"]}
  /\ UNCHANGED <<gen, work, lease, cycle, faults, evicts>>

(* A pod that nobody has started goes at once. *)
Terminated(p) ==
  (pods \ {p}) \cup (IF p.phase = "ready" THEN {[p EXCEPT !.phase = "terminating"]} ELSE {})

ScaleDown(p) ==
  LET d == p.of IN
  /\ p \in Live(d) /\ p.gen # gen[d]
  /\ \/ Strategy(d) = "Recreate"
     \/ Cardinality(Live(d)) > 1 + Cardinality(New(d) \ Up(d)) /\ (p \notin Up(d) \/ Cardinality(Up(d)) > 1)
  /\ pods' = Terminated(p)
  /\ UNCHANGED <<gen, work, lease, cycle, faults, evicts>>

Evict(p) ==
  /\ p.phase # "terminating" /\ evicts < MaxEvicts
  /\ evicts' = evicts + 1 /\ pods' = Terminated(p)
  /\ UNCHANGED <<gen, work, lease, cycle, faults>>

(* The kubelet of the pod's node. *)
Start(p) ==
  /\ p.phase = "bound"
  /\ pods' = (pods \ {p}) \cup {[p EXCEPT !.phase = "ready"]}
  /\ UNCHANGED <<gen, work, lease, cycle, faults, evicts>>

(* A leader that stops leaves its lease and its scheduling cycle behind. *)
LeaderLost_Kept(p) == UNCHANGED <<lease, cycle>>

LeaderLost(p) ==
  IF p.of = "scheduler" /\ lease = p.number
    THEN lease' = Stale /\ cycle' = NoPod
    ELSE UNCHANGED <<lease, cycle>>

Stop(p) ==
  /\ p.phase = "terminating"
  /\ pods' = pods \ {p} /\ LeaderLost(p)
  /\ UNCHANGED <<gen, work, faults, evicts>>

Crash(p) ==
  /\ p.phase = "ready" /\ faults < MaxFaults
  /\ faults' = faults + 1
  /\ pods' = (pods \ {p}) \cup {[p EXCEPT !.phase = "bound"]} /\ LeaderLost(p)
  /\ UNCHANGED <<gen, work, evicts>>

-----------------------------------------------------------------------------
(***************************************************************************)
(* Scheduling.  The default scheduler places the custom one's pods.        *)
(***************************************************************************)
Place(p) == pods' = (pods \ {p}) \cup {[p EXCEPT !.phase = "bound"]}

PlaceByDefault(p) ==
  /\ p.of = "scheduler" /\ p.phase = "pending" /\ Place(p)
  /\ UNCHANGED <<gen, work, lease, cycle, faults, evicts>>

LeaseExpires ==
  /\ lease = Stale /\ lease' = NoLeader
  /\ UNCHANGED <<gen, pods, work, cycle, faults, evicts>>

Lead(p) ==
  /\ p \in Up("scheduler") /\ lease = NoLeader /\ lease' = p.number
  /\ UNCHANGED <<gen, pods, work, cycle, faults, evicts>>

Leads == lease \in 1..MaxPods

(* An extender that cannot be reached fails the pod, which is tried again  *)
(* later, unless it is ignorable.                                          *)
MayPass(p) == Interested(p) => Reachable \/ Ignorable

Submit(w) ==
  /\ work[w] = "absent" /\ work' = [work EXCEPT ![w] = "pending"]
  /\ UNCHANGED <<gen, pods, lease, cycle, faults, evicts>>

Filter(p) ==
  /\ Leads /\ cycle = NoPod /\ MayPass(p)
  /\ cycle' = p
  /\ UNCHANGED <<gen, pods, work, lease, faults, evicts>>

(* By then the extension, or the pod, may be gone. *)
Bind ==
  /\ Leads /\ cycle # NoPod /\ cycle' = NoPod
  /\ IF ~MayPass(cycle) THEN UNCHANGED <<pods, work>>
     ELSE IF cycle.of = "workload"
            THEN work' = [work EXCEPT ![cycle.name] = "bound"] /\ UNCHANGED pods
     ELSE IF cycle \in pods THEN Place(cycle) /\ UNCHANGED work
     ELSE UNCHANGED <<pods, work>>
  /\ UNCHANGED <<gen, lease, faults, evicts>>

FilterExtension == \E p \in Of("extension") : p.phase = "pending" /\ Filter(p)
FilterWorkload(w) == work[w] = "pending" /\ Filter(Workload(w))

-----------------------------------------------------------------------------
BootstrapNext ==
  \/ \E d \in Deployments : HandleCustomScheduler(d) \/ CreatePod(d)
  \/ \E p \in pods :
       ScaleDown(p) \/ Evict(p) \/ Start(p) \/ Stop(p) \/ Crash(p) \/ PlaceByDefault(p) \/ Lead(p)
  \/ \E w \in Workloads : Submit(w) \/ FilterWorkload(w)
  \/ LeaseExpires \/ FilterExtension \/ Bind

BootstrapSpec == BootstrapInit /\ [][BootstrapNext]_bootVars

(* Controllers, kubelets and schedulers keep working; the operator makes   *)
(* both Deployments, and need not change them again.                       *)
BootstrapFairSpec ==
  /\ BootstrapSpec
  /\ \A d \in Deployments :
       /\ WF_bootVars(gen[d] = 0 /\ HandleCustomScheduler(d))
       /\ WF_bootVars(CreatePod(d))
       /\ WF_bootVars(\E p \in Of(d) : ScaleDown(p))
       /\ WF_bootVars(\E p \in Of(d) : Start(p))
       /\ WF_bootVars(\E p \in Of(d) : Stop(p))
  /\ WF_bootVars(\E p \in pods : PlaceByDefault(p))
  /\ WF_bootVars(LeaseExpires) /\ WF_bootVars(\E p \in pods : Lead(p))
  /\ WF_bootVars(FilterExtension) /\ WF_bootVars(Bind)
  /\ \A w \in Workloads : WF_bootVars(FilterWorkload(w))

-----------------------------------------------------------------------------
(***************************************************************************)
(* Every variable has its type, and who leads is a scheduler that runs.    *)
(***************************************************************************)
BootstrapTypeOK ==
  /\ gen \in [Deployments -> 0..MaxGen] /\ pods \subseteq Pod
  /\ work \in [Workloads -> {"absent", "pending", "bound"}]
  /\ lease \in 0..Stale /\ cycle \in {NoPod} \cup Pod \cup {Workload(w) : w \in Workloads}
  /\ faults \in 0..MaxFaults /\ evicts \in 0..MaxEvicts
  /\ Leads => \E p \in Of("scheduler") : p.number = lease /\ Runs(p)

(***************************************************************************)
(* A change of the extension's image never has two extensions hand out the *)
(* same devices: the old one is gone before the new one runs (Recreate).   *)
(* An evicted pod is replaced at once, while it terminates: each eviction  *)
(* may add one that still runs, and nothing else does.                     *)
(***************************************************************************)
OneExtension == Cardinality({p \in Of("extension") : Runs(p)}) <= 1 + evicts

(***************************************************************************)
(* However pods crash, are evicted or replaced: the extension, which waits *)
(* for the scheduler, which asks the extension, runs with the image that   *)
(* was asked for last; and so every workload is placed.                    *)
(***************************************************************************)
ExtensionComesUp ==
  []<>(\E p \in Up("extension") : p.gen = gen["extension"])

WorkloadsPlaced == \A w \in Workloads : work[w] = "pending" ~> work[w] = "bound"
=============================================================================
