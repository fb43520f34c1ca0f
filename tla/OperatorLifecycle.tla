-------------------------- MODULE OperatorLifecycle -------------------------
(***************************************************************************)
(* The operator's processes (cmd/main.go, internal/config): how one starts *)
(* from its configuration file, when it is ready and when its controller   *)
(* runs, while its Deployment (config/manager/manager.yaml: one replica,   *)
(* the default rolling update) replaces it by a new one.  The two overlap, *)
(* and the lease of leader election is all that keeps them apart.          *)
(*                                                                         *)
(* Kubelet, Deployment controller and client-go's leader election are      *)
(* external.  Time is counted in ticks, between which a process does what  *)
(* it has to do: one that is paused for longer than LeaseDuration minus    *)
(* RenewDeadline is outside this model.                                    *)
(***************************************************************************)
EXTENDS Naturals

CONSTANTS
  Pods,           \* slots for the pods of the Deployment
  Ids,            \* names of leases
  Files,          \* the configuration files that are rolled out
  FirstFile,      \* the one the operator is installed with
  Unreadable,     \* a file that is missing, empty or not YAML
  LeaseDuration,  \* a candidate takes a lease it saw unchanged for so long
  RenewDeadline,  \* a leader gives up when it could not renew for so long
  Free,           \* a lease nobody ever held
  Departed,       \* the holder of a lease is a process that has exited
  MaxRollouts,    \* how often the configuration is changed
  MaxFaults       \* how often a process crashes or loses its lease

VARIABLES
  target,         \* the file the Deployment is to run with
  file,           \* each pod's file; its ConfigMap is named by its contents
  phase,          \* where each pod's process is; "none": there is no pod
  options,        \* the options its manager is made with
  lease,          \* the holder of each lease
  moved,          \* pods whose lease changed since they last looked at it
  watched,        \* for how long each pod has seen its lease unchanged
  unrenewed,      \* how long ago each leader renewed its lease
  rollouts, faults

podVars   == <<file, phase, options>>
leaseVars == <<lease, moved, watched, unrenewed>>
lifeVars  == <<target, podVars, leaseVars, rollouts, faults>>

(* Definitions named X_why are variants of X with a plausible bug. *)

-----------------------------------------------------------------------------
(***************************************************************************)
(* Package config.  A file is a function from the keys it gives to their   *)
(* values, of which all that matters of the address is whether there is    *)
(* one.  A key it leaves out has the zero value; unknown keys are ignored. *)
(***************************************************************************)
NoId   == "no id"
Config == [healthProbeBindAddress : BOOLEAN, enabled : BOOLEAN, resourceID : Ids \cup {NoId}]
Zero   == [healthProbeBindAddress |-> FALSE, enabled |-> FALSE, resourceID |-> NoId]

ParseFile(f) == [k \in DOMAIN Zero |-> IF k \in DOMAIN f THEN f[k] ELSE Zero[k]]

Options ==
  [HealthProbes : BOOLEAN, LeaderElection : BOOLEAN, LeaderElectionID : Ids \cup {NoId}]

ManagerOptions_ElectionDropped(c) ==
  [HealthProbes |-> c.healthProbeBindAddress, LeaderElection |-> FALSE,
   LeaderElectionID |-> c.resourceID]

ManagerOptions(c) ==
  [HealthProbes     |-> c.healthProbeBindAddress,
   LeaderElection   |-> c.enabled,
   LeaderElectionID |-> c.resourceID]

ASSUME FilesAssumption ==
  /\ FirstFile \in Files
  /\ \A f \in Files \ {Unreadable} : ParseFile(f) \in Config

ASSUME LeaseAssumption ==
  /\ LeaseDuration \in Nat /\ RenewDeadline \in Nat
  /\ 1 < RenewDeadline /\ RenewDeadline < LeaseDuration
  /\ NoId \notin Ids /\ Free \notin Pods /\ Departed \notin Pods /\ Free # Departed
  /\ MaxRollouts \in Nat /\ MaxFaults \in Nat

Phases == {"none", "exited", "started", "configured", "managed", "waiting",
           "leading", "stopping"}

(***************************************************************************)
(* Every variable has its type.                                            *)
(***************************************************************************)
LifeTypeOK ==
  /\ target \in Files /\ file \in [Pods -> Files]
  /\ phase \in [Pods -> Phases] /\ options \in [Pods -> Options]
  /\ lease \in [Ids -> Pods \cup {Free, Departed}] /\ moved \subseteq Pods
  /\ watched \in [Pods -> 0..LeaseDuration]
  /\ unrenewed \in [Pods -> 0..RenewDeadline]
  /\ rollouts \in Nat /\ faults \in Nat

LifeInit ==
  /\ target = FirstFile /\ file = [p \in Pods |-> FirstFile]
  /\ phase = [p \in Pods |-> "none"]
  /\ options = [p \in Pods |-> ManagerOptions(Zero)]
  /\ lease = [i \in Ids |-> Free] /\ moved = {}
  /\ watched = [p \in Pods |-> 0] /\ unrenewed = [p \in Pods |-> 0]
  /\ rollouts = 0 /\ faults = 0

-----------------------------------------------------------------------------
(***************************************************************************)
(* A process.  Whatever fails on the way ends it with FatalError, and      *)
(* kubelet starts it again.  A lease is not released at the exit, and the  *)
(* next process, of the same pod too, is another candidate for it.         *)
(***************************************************************************)
Become(p, ph) == phase' = [phase EXCEPT ![p] = ph] /\ UNCHANGED <<file>>

Leave(p) == lease' = [i \in Ids |-> IF lease[i] = p THEN Departed ELSE lease[i]]

Exit(p, ph) ==
  /\ Become(p, ph) /\ Leave(p)
  /\ options' = [options EXCEPT ![p] = ManagerOptions(Zero)]
  /\ moved' = moved \ {p}
  /\ watched' = [watched EXCEPT ![p] = 0] /\ unrenewed' = [unrenewed EXCEPT ![p] = 0]

FatalError(p) == Exit(p, "exited")

(* Flags and the configuration file. *)
Configure(p) ==
  /\ phase[p] = "started"
  /\ IF file[p] = Unreadable
       THEN FatalError(p)
       ELSE /\ options' = [options EXCEPT ![p] = ManagerOptions(ParseFile(file[p]))]
            /\ Become(p, "configured") /\ UNCHANGED leaseVars
  /\ UNCHANGED <<target, rollouts, faults>>

(* ctrl.NewManager refuses leader election without a name for the lease. *)
CreateManager(p) ==
  /\ phase[p] = "configured"
  /\ IF options[p].LeaderElection /\ options[p].LeaderElectionID = NoId
       THEN FatalError(p)
       ELSE Become(p, "managed") /\ UNCHANGED <<options, leaseVars>>
  /\ UNCHANGED <<target, rollouts, faults>>

(***************************************************************************)
(* mgr.Start serves the probes, then waits for the lease; the controller,  *)
(* its watches and its caches are started with the lease, or at once if    *)
(* there is no election.                                                   *)
(***************************************************************************)
Start(p) ==
  /\ phase[p] = "managed"
  /\ Become(p, IF options[p].LeaderElection THEN "waiting" ELSE "leading")
  /\ moved' = IF options[p].LeaderElection THEN moved \cup {p} ELSE moved
  /\ UNCHANGED <<target, options, lease, watched, unrenewed, rollouts, faults>>

(* healthz and readyz are Ping: ready as soon as the probes are served. *)
Ready_WhenLeading(p) == phase[p] = "leading" /\ options[p].HealthProbes

Ready_NoProbe(p) == phase[p] \notin {"none", "exited"}

Ready(p) == phase[p] \in {"waiting", "leading"} /\ options[p].HealthProbes

-----------------------------------------------------------------------------
(***************************************************************************)
(* Leader election.  A candidate that looks at the lease starts counting   *)
(* anew if it has changed, and takes it once it was unchanged for          *)
(* LeaseDuration.  Both read and write the lease of their own options.     *)
(***************************************************************************)
Id(p)     == options[p].LeaderElectionID
Acting(p) == phase[p] \in {"leading", "stopping"}
Holder(p) == Acting(p) /\ options[p].LeaderElection

Look(p) ==
  /\ phase[p] = "waiting" /\ p \in moved /\ lease[Id(p)] # Free
  /\ moved' = moved \ {p} /\ watched' = [watched EXCEPT ![p] = 0]
  /\ UNCHANGED <<target, podVars, lease, unrenewed, rollouts, faults>>

Hold(p) ==
  /\ lease' = [lease EXCEPT ![Id(p)] = p]
  /\ moved' = (moved \ {p}) \cup {q \in Pods \ {p} : phase[q] = "waiting" /\ Id(q) = Id(p)}
  /\ unrenewed' = [unrenewed EXCEPT ![p] = 0]
  /\ UNCHANGED <<target, options, rollouts, faults>>

Acquire(p) ==
  /\ phase[p] = "waiting"
  /\ lease[Id(p)] = Free \/ (p \notin moved /\ watched[p] = LeaseDuration)
  /\ Become(p, "leading") /\ Hold(p) /\ watched' = [watched EXCEPT ![p] = 0]

Renew(p) ==
  /\ Holder(p) /\ unrenewed[p] > 0
  /\ Hold(p) /\ UNCHANGED <<file, phase, watched>>

Tick_NoDeadline ==
  /\ unrenewed' = [p \in Pods |-> IF Holder(p) THEN unrenewed[p] + 1 ELSE unrenewed[p]]
  /\ watched' = [p \in Pods |-> IF phase[p] = "waiting" /\ watched[p] < LeaseDuration
                                  THEN watched[p] + 1 ELSE watched[p]]
  /\ UNCHANGED <<target, podVars, lease, moved, rollouts, faults>>

Tick ==
  /\ \A p \in Pods : Holder(p) =>
       unrenewed[p] + (IF faults < MaxFaults THEN 1 ELSE 2) <= RenewDeadline
  /\ unrenewed' = [p \in Pods |-> IF Holder(p) THEN unrenewed[p] + 1 ELSE unrenewed[p]]
  /\ watched' = [p \in Pods |-> IF phase[p] = "waiting" /\ watched[p] < LeaseDuration
                                  THEN watched[p] + 1 ELSE watched[p]]
  /\ UNCHANGED <<target, podVars, lease, moved, rollouts, faults>>

(* mgr.Start returns "leader election lost", or the process dies. *)
LoseLease(p) ==
  /\ phase[p] = "leading" /\ Holder(p) /\ unrenewed[p] = RenewDeadline
  /\ faults < MaxFaults
  /\ faults' = faults + 1
  /\ FatalError(p) /\ UNCHANGED <<target, rollouts>>

Crash(p) ==
  /\ phase[p] \notin {"none", "exited", "stopping"} /\ faults < MaxFaults
  /\ faults' = faults + 1
  /\ FatalError(p) /\ UNCHANGED <<target, rollouts>>

-----------------------------------------------------------------------------
(***************************************************************************)
(* Kubelet and the Deployment.  A container that has exited, or does not   *)
(* answer its liveness probe, is started again.  A rolling update of one   *)
(* replica makes one pod more, and removes an old one only while another   *)
(* pod is ready.  A leader that is told to stop ends its reconciliations,  *)
(* renewing its lease until it exits.                                      *)
(***************************************************************************)
Restart(p) ==
  /\ phase[p] = "exited"
  /\ Become(p, "started") /\ UNCHANGED <<target, options, leaseVars, rollouts, faults>>

Unhealthy(p) ==
  /\ phase[p] \in {"waiting", "leading"} /\ ~options[p].HealthProbes
  /\ FatalError(p) /\ UNCHANGED <<target, rollouts, faults>>

Rollout(f) ==
  /\ f # target /\ rollouts < MaxRollouts
  /\ target' = f /\ rollouts' = rollouts + 1
  /\ UNCHANGED <<podVars, leaseVars, faults>>

Running == {p \in Pods : phase[p] \notin {"none", "stopping"}}

CreatePod(p) ==
  /\ phase[p] = "none"
  /\ \A q \in Running : file[q] # target /\ Running = {q}
  /\ file' = [file EXCEPT ![p] = target] /\ phase' = [phase EXCEPT ![p] = "started"]
  /\ UNCHANGED <<target, options, leaseVars, rollouts, faults>>

RemovePod(p) ==
  /\ p \in Running /\ file[p] # target
  /\ \E q \in Running \ {p} : Ready(q)
  /\ IF phase[p] = "leading" THEN Become(p, "stopping") /\ UNCHANGED <<options, leaseVars>>
                             ELSE Exit(p, "none")
  /\ UNCHANGED <<target, rollouts, faults>>

Stopped(p) ==
  /\ phase[p] = "stopping"
  /\ Exit(p, "none") /\ UNCHANGED <<target, rollouts, faults>>

Process(p) == Configure(p) \/ CreateManager(p) \/ Start(p)

LifeNext ==
  \/ Tick
  \/ \E f \in Files : Rollout(f)
  \/ \E p \in Pods :
       \/ Process(p) \/ Look(p) \/ Acquire(p) \/ Renew(p) \/ LoseLease(p) \/ Crash(p)
       \/ Restart(p) \/ Unhealthy(p) \/ CreatePod(p) \/ RemovePod(p) \/ Stopped(p)

LifeSpec == LifeInit /\ [][LifeNext]_lifeVars

(***************************************************************************)
(* Fairness: time passes, processes go on, candidates and leaders look     *)
(* after the lease, kubelet and the Deployment do their work.  Nothing     *)
(* makes a rollout, a crash or the loss of a lease happen.                 *)
(***************************************************************************)
LifeFairness ==
  /\ WF_lifeVars(Tick)
  /\ \A p \in Pods :
       /\ WF_lifeVars(Process(p)) /\ WF_lifeVars(Look(p))
       /\ WF_lifeVars(Acquire(p)) /\ WF_lifeVars(Renew(p))
       /\ WF_lifeVars(Restart(p)) /\ WF_lifeVars(Unhealthy(p))
       /\ WF_lifeVars(CreatePod(p)) /\ WF_lifeVars(RemovePod(p)) /\ WF_lifeVars(Stopped(p))

LifeFairSpec == LifeSpec /\ LifeFairness

-----------------------------------------------------------------------------
(***************************************************************************)
(* Two controllers never work at the same time if their files name the     *)
(* same lease: the one worker of DeviceConfigReconciler is all there is.   *)
(* A leader that is stopping still works until its process has exited.     *)
(***************************************************************************)
Elects(p) == ParseFile(file[p]).enabled

AtMostOneActs ==
  \A p, q \in Pods :
    /\ Acting(p) /\ Elects(p) /\ Acting(q) /\ Elects(q)
    /\ ParseFile(file[p]).resourceID = ParseFile(file[q]).resourceID
    => p = q

(***************************************************************************)
(* The rollout of a file with which the operator can run completes: the    *)
(* new process gets the lease that the old one holds until it is told to   *)
(* stop.                                                                   *)
(***************************************************************************)
Good(f) ==
  /\ f # Unreadable /\ ParseFile(f).healthProbeBindAddress
  /\ ParseFile(f).enabled => ParseFile(f).resourceID # NoId

Done(f) == /\ \E p \in Pods : file[p] = f /\ phase[p] = "leading"
           /\ \A p \in Pods : phase[p] # "none" => file[p] = f

RolloutCompletes ==
  \A f \in Files : Good(f) => (<>[](target = f) => <>[]Done(f))

(***************************************************************************)
(* Once installed, whatever is rolled out, be it unreadable, without a     *)
(* lease's name or without a probe address, some controller works again    *)
(* and again: a file with which the operator cannot run leaves the old one *)
(* at work.  (FatalError and readyz, cmd/main.go.)                         *)
(***************************************************************************)
SomebodyWorks ==
  <>(\E f \in Files : Good(f) /\ Done(f)) => []<>(\E p \in Pods : phase[p] = "leading")

-----------------------------------------------------------------------------
(***************************************************************************)
(* Why at most one acts.  A process that is past its start-up has the      *)
(* options of its file; one that acts under an election holds its lease;   *)
(* and a candidate that has seen the lease as it is has not watched it for *)
(* longer than its holder has gone without renewing it, which is less than *)
(* LeaseDuration (lease renewal of client-go, as used by mgr.Start).       *)
(***************************************************************************)
OptionsOfFile ==
  \A p \in Pods :
    /\ phase[p] \in {"configured", "managed", "waiting", "leading", "stopping"} =>
         file[p] # Unreadable /\ options[p] = ManagerOptions(ParseFile(file[p]))
    /\ phase[p] \in {"managed", "waiting", "leading", "stopping"} /\ options[p].LeaderElection
         => Id(p) \in Ids
    /\ phase[p] = "waiting" => options[p].LeaderElection

HoldersHold == \A p \in Pods : Holder(p) => lease[Id(p)] = p

WatchedWhileUnrenewed ==
  \A p, q \in Pods :
    Holder(p) /\ phase[q] = "waiting" /\ Id(q) = Id(p) /\ q \notin moved
      => watched[q] <= unrenewed[p]

LeaseInv == LifeTypeOK /\ OptionsOfFile /\ HoldersHold /\ WatchedWhileUnrenewed
=============================================================================
