---------------------- MODULE OperatorLifecycleProofs -----------------------
(***************************************************************************)
(* For every set of pods, of files and of leases, and every LeaseDuration  *)
(* longer than RenewDeadline: at most one process of a lease acts.         *)
(***************************************************************************)
EXTENDS OperatorLifecycle, TLAPS

-----------------------------------------------------------------------------
(***************************************************************************)
(* Facts about the options and about the end of a process.                 *)
(***************************************************************************)
LEMMA OptionsType ==
  /\ \A c \in Config : ManagerOptions(c) \in Options
  /\ ManagerOptions(Zero) \in Options
  /\ ~ManagerOptions(Zero).LeaderElection
<1>1. \A c \in Config : ManagerOptions(c) \in Options
  BY DEF Config, Options, ManagerOptions
<1>2. Zero \in Config
  BY DEF Zero, Config
<1> QED
  BY <1>1, <1>2 DEF ManagerOptions, Zero

LEMMA ExitKeepsInv ==
  ASSUME LeaseInv, NEW p \in Pods, NEW ph \in {"none", "exited"},
         Exit(p, ph), UNCHANGED target, rollouts' \in Nat, faults' \in Nat
  PROVE  LeaseInv'
<1> USE OptionsType, LeaseAssumption
<1>1. LifeTypeOK'
  BY DEF LeaseInv, LifeTypeOK, Exit, Become, Leave, Phases
<1>2. /\ \A q \in Pods \ {p} : /\ phase'[q] = phase[q] /\ options'[q] = options[q]
                              /\ watched'[q] = watched[q] /\ unrenewed'[q] = unrenewed[q]
                              /\ (q \in moved' <=> q \in moved)
      /\ phase'[p] = ph /\ file' = file
  BY DEF LeaseInv, LifeTypeOK, Exit, Become
<1>3. \A q \in Pods \ {p} : /\ Id(q)' = Id(q) /\ (Holder(q)' <=> Holder(q))
  BY <1>2 DEF Id, Holder, Acting
<1>4. ~Holder(p)' /\ phase'[p] # "waiting"
  BY <1>2 DEF Holder, Acting
<1>5. OptionsOfFile'
  BY <1>2, <1>3 DEF LeaseInv, OptionsOfFile
<1>6. HoldersHold'
  BY <1>1, <1>3, <1>4 DEF LeaseInv, LifeTypeOK, HoldersHold, Exit, Leave, OptionsOfFile,
     Holder, Acting
<1>7. WatchedWhileUnrenewed'
  BY <1>2, <1>3, <1>4 DEF LeaseInv, WatchedWhileUnrenewed
<1> QED
  BY <1>1, <1>5, <1>6, <1>7 DEF LeaseInv

(***************************************************************************)
(* A step that touches neither the lease nor what is remembered of it, and *)
(* makes nobody a holder or a candidate, keeps what is said about leases.  *)
(***************************************************************************)
LEMMA PhaseStepKeepsLeases ==
  ASSUME LeaseInv, NEW p \in Pods, NEW ph \in Phases \ {"waiting"},
         phase' = [phase EXCEPT ![p] = ph],
         ph \in {"leading", "stopping"} => (Holder(p)' <=> Holder(p)),
         UNCHANGED leaseVars, \A q \in Pods \ {p} : options'[q] = options[q],
         Holder(p) => options'[p] = options[p]
  PROVE  HoldersHold' /\ WatchedWhileUnrenewed'
<1>1. \A q \in Pods \ {p} : /\ Id(q)' = Id(q) /\ (Holder(q)' <=> Holder(q)) /\ phase'[q] = phase[q]
  BY DEF Id, Holder, Acting, LeaseInv, LifeTypeOK
<1>2. phase'[p] = ph
  BY DEF LeaseInv, LifeTypeOK
<1>3. Holder(p)' => Holder(p) /\ Id(p)' = Id(p)
  BY <1>2 DEF Id, Holder, Acting
<1>4. HoldersHold'
  BY <1>1, <1>3 DEF HoldersHold, LeaseInv, leaseVars
<1>5. WatchedWhileUnrenewed'
  BY <1>1, <1>2, <1>3 DEF WatchedWhileUnrenewed, LeaseInv, leaseVars
<1> QED
  BY <1>4, <1>5

-----------------------------------------------------------------------------
LEMMA InitInv == LifeInit => LeaseInv
  BY OptionsType, FilesAssumption, LeaseAssumption
  DEF LifeInit, LeaseInv, LifeTypeOK, OptionsOfFile, HoldersHold, WatchedWhileUnrenewed,
      Holder, Acting, Phases

LEMMA StartUpKeepsInv ==
  ASSUME LeaseInv, NEW p \in Pods, Process(p)
  PROVE  LeaseInv'
<1> USE OptionsType, FilesAssumption, LeaseAssumption
<1>1. CASE Configure(p) /\ file[p] = Unreadable
  BY <1>1, ExitKeepsInv DEF Configure, FatalError, LeaseInv, LifeTypeOK
<1>2. CASE Configure(p) /\ file[p] # Unreadable
  <2>1. LifeTypeOK'
    BY <1>2 DEF Configure, Become, LeaseInv, LifeTypeOK, Phases, leaseVars
  <2>2. OptionsOfFile'
    BY <1>2 DEF Configure, Become, LeaseInv, LifeTypeOK, OptionsOfFile, Id
  <2>3. HoldersHold' /\ WatchedWhileUnrenewed'
    <3>1. ~Holder(p) /\ \A q \in Pods \ {p} : options'[q] = options[q]
      BY <1>2 DEF Configure, Holder, Acting, LeaseInv, LifeTypeOK
    <3> QED
      BY <1>2, <3>1, PhaseStepKeepsLeases DEF Configure, Become, Phases
  <2> QED
    BY <2>1, <2>2, <2>3 DEF LeaseInv
<1>3. CASE CreateManager(p) /\ options[p].LeaderElection /\ options[p].LeaderElectionID = NoId
  BY <1>3, ExitKeepsInv DEF CreateManager, FatalError, LeaseInv, LifeTypeOK
<1>4. CASE CreateManager(p) /\ ~(options[p].LeaderElection /\ options[p].LeaderElectionID = NoId)
  <2>1. LifeTypeOK'
    BY <1>4 DEF CreateManager, Become, LeaseInv, LifeTypeOK, Phases, leaseVars
  <2>2. OptionsOfFile'
    BY <1>4 DEF CreateManager, Become, LeaseInv, LifeTypeOK, OptionsOfFile, Id, Options
  <2>3. HoldersHold' /\ WatchedWhileUnrenewed'
    BY <1>4, PhaseStepKeepsLeases, "managed" \in Phases
    DEF CreateManager, Become, LeaseInv, LifeTypeOK, Phases
  <2> QED
    BY <2>1, <2>2, <2>3 DEF LeaseInv
<1>5. CASE Start(p)
  <2>1. LifeTypeOK'
    BY <1>5 DEF Start, Become, LeaseInv, LifeTypeOK, Phases
  <2>2. OptionsOfFile'
    BY <1>5 DEF Start, Become, LeaseInv, LifeTypeOK, OptionsOfFile, Id
  <2>3. \A q \in Pods : Id(q)' = Id(q) /\ (Holder(q)' => Holder(q))
    BY <1>5 DEF Start, Become, LeaseInv, LifeTypeOK, Id, Holder, Acting
  <2>4. \A q \in Pods : phase'[q] = "waiting" /\ q \notin moved'
                          => phase[q] = "waiting" /\ q \notin moved
    BY <1>5 DEF Start, Become, LeaseInv, LifeTypeOK
  <2>5. HoldersHold' /\ WatchedWhileUnrenewed'
    BY <1>5, <2>3, <2>4 DEF Start, LeaseInv, HoldersHold, WatchedWhileUnrenewed
  <2> QED
    BY <2>1, <2>2, <2>5 DEF LeaseInv
<1> QED
  BY <1>1, <1>2, <1>3, <1>4, <1>5 DEF Process

LEMMA ElectionKeepsInv ==
  ASSUME LeaseInv, NEW p \in Pods, Look(p) \/ Acquire(p) \/ Renew(p)
  PROVE  LeaseInv'
<1> USE LeaseAssumption
<1>1. CASE Look(p)
  <2>1. LifeTypeOK'
    BY <1>1 DEF Look, LeaseInv, LifeTypeOK, podVars
  <2>2. \A q \in Pods : Id(q)' = Id(q) /\ (Holder(q)' <=> Holder(q)) /\ phase'[q] = phase[q]
    BY <1>1 DEF Look, podVars, Id, Holder, Acting
  <2>3. OptionsOfFile' /\ HoldersHold'
    BY <1>1, <2>2 DEF Look, podVars, LeaseInv, OptionsOfFile, HoldersHold
  <2>4. WatchedWhileUnrenewed'
    BY <1>1, <2>2 DEF Look, LeaseInv, LifeTypeOK, WatchedWhileUnrenewed
  <2> QED
    BY <2>1, <2>3, <2>4 DEF LeaseInv
<1>2. CASE Acquire(p)
  <2>1. Id(p) \in Ids /\ options[p].LeaderElection
    BY <1>2 DEF Acquire, LeaseInv, OptionsOfFile
  <2>2. \A q \in Pods : ~(Holder(q) /\ Id(q) = Id(p))
    BY <1>2, <2>1 DEF Acquire, LeaseInv, LifeTypeOK, HoldersHold, WatchedWhileUnrenewed
  <2>3. LifeTypeOK'
    BY <1>2, <2>1 DEF Acquire, Become, Hold, LeaseInv, LifeTypeOK, Phases
  <2>4. \A q \in Pods : /\ Id(q)' = Id(q) /\ options'[q] = options[q] /\ file'[q] = file[q]
                        /\ q # p => (Holder(q)' <=> Holder(q)) /\ phase'[q] = phase[q]
    BY <1>2 DEF Acquire, Become, Hold, LeaseInv, LifeTypeOK, Id, Holder, Acting
  <2>5. phase'[p] = "leading"
    BY <1>2 DEF Acquire, Become, LeaseInv, LifeTypeOK
  <2>6. OptionsOfFile'
    BY <1>2, <2>1, <2>4, <2>5 DEF Acquire, LeaseInv, OptionsOfFile
  <2>7. HoldersHold'
    BY <1>2, <2>1, <2>2, <2>4 DEF Acquire, Hold, LeaseInv, LifeTypeOK, HoldersHold
  <2>8. WatchedWhileUnrenewed'
    <3> SUFFICES ASSUME NEW r \in Pods, NEW q \in Pods, Holder(r)', phase'[q] = "waiting",
                        Id(q)' = Id(r)', q \notin moved'
                 PROVE  watched'[q] <= unrenewed'[r]
      BY DEF WatchedWhileUnrenewed
    <3>1. r # p
      BY <1>2, <2>4, <2>5 DEF Acquire, Hold
    <3> QED
      BY <1>2, <2>4, <2>5, <3>1
      DEF Acquire, Hold, LeaseInv, LifeTypeOK, WatchedWhileUnrenewed
  <2> QED
    BY <2>3, <2>6, <2>7, <2>8 DEF LeaseInv
<1>3. CASE Renew(p)
  <2>1. Id(p) \in Ids
    BY <1>3 DEF Renew, LeaseInv, OptionsOfFile, Holder, Acting
  <2>2. LifeTypeOK'
    BY <1>3, <2>1 DEF Renew, Hold, LeaseInv, LifeTypeOK
  <2>3. \A q \in Pods : Id(q)' = Id(q) /\ (Holder(q)' <=> Holder(q)) /\ phase'[q] = phase[q]
    BY <1>3 DEF Renew, Hold, Id, Holder, Acting
  <2>4. OptionsOfFile'
    BY <1>3, <2>3 DEF Renew, Hold, LeaseInv, OptionsOfFile
  <2>5. HoldersHold'
    BY <1>3, <2>1, <2>3 DEF Renew, Hold, LeaseInv, LifeTypeOK, HoldersHold
  <2>6. WatchedWhileUnrenewed'
    <3> SUFFICES ASSUME NEW r \in Pods, NEW q \in Pods, Holder(r), phase[q] = "waiting",
                        Id(q) = Id(r), q \notin moved'
                 PROVE  watched'[q] <= unrenewed'[r]
      BY <2>3 DEF WatchedWhileUnrenewed
    <3>1. q # p
      BY <1>3 DEF Renew, Holder, Acting
    <3>2. r # p /\ q \notin moved
      BY <1>3, <3>1 DEF Renew, Hold
    <3> QED
      BY <1>3, <3>1, <3>2 DEF Renew, Hold, LeaseInv, LifeTypeOK, WatchedWhileUnrenewed
  <2> QED
    BY <2>2, <2>4, <2>5, <2>6 DEF LeaseInv
<1> QED
  BY <1>1, <1>2, <1>3

LEMMA TickKeepsInv ==
  ASSUME LeaseInv, Tick
  PROVE  LeaseInv'
<1> USE LeaseAssumption
<1>1. \A p \in Pods : Holder(p) => unrenewed[p] + 1 <= RenewDeadline
  BY DEF Tick, LeaseInv, LifeTypeOK
<1>2. LifeTypeOK'
  BY <1>1 DEF Tick, LeaseInv, LifeTypeOK, podVars
<1>3. \A q \in Pods : Id(q)' = Id(q) /\ (Holder(q)' <=> Holder(q)) /\ phase'[q] = phase[q]
  BY DEF Tick, podVars, Id, Holder, Acting
<1>4. OptionsOfFile' /\ HoldersHold'
  BY <1>3 DEF Tick, podVars, LeaseInv, OptionsOfFile, HoldersHold
<1>5. WatchedWhileUnrenewed'
  BY <1>3 DEF Tick, LeaseInv, LifeTypeOK, WatchedWhileUnrenewed
<1> QED
  BY <1>2, <1>4, <1>5 DEF LeaseInv

LEMMA DeploymentKeepsInv ==
  ASSUME LeaseInv, NEW p \in Pods,
         Restart(p) \/ Unhealthy(p) \/ CreatePod(p) \/ RemovePod(p) \/ Stopped(p)
  PROVE  LeaseInv'
<1>1. CASE Restart(p)
  <2>1. LifeTypeOK' /\ OptionsOfFile'
    BY <1>1 DEF Restart, Become, LeaseInv, LifeTypeOK, OptionsOfFile, Phases, Id, leaseVars
  <2>2. HoldersHold' /\ WatchedWhileUnrenewed'
    BY <1>1, PhaseStepKeepsLeases, "started" \in Phases DEF Restart, Become, Phases
  <2> QED
    BY <2>1, <2>2 DEF LeaseInv
<1>2. CASE Unhealthy(p)
  BY <1>2, ExitKeepsInv DEF Unhealthy, FatalError, LeaseInv, LifeTypeOK
<1>3. CASE CreatePod(p)
  <2>1. LifeTypeOK' /\ OptionsOfFile'
    BY <1>3 DEF CreatePod, LeaseInv, LifeTypeOK, OptionsOfFile, Phases, Id, leaseVars
  <2>2. HoldersHold' /\ WatchedWhileUnrenewed'
    BY <1>3, PhaseStepKeepsLeases, "started" \in Phases DEF CreatePod, Phases
  <2> QED
    BY <2>1, <2>2 DEF LeaseInv
<1>4. CASE RemovePod(p) /\ phase[p] = "leading"
  <2>1. LifeTypeOK' /\ OptionsOfFile'
    BY <1>4 DEF RemovePod, Become, LeaseInv, LifeTypeOK, OptionsOfFile, Phases, Id, leaseVars
  <2>2. Holder(p)' <=> Holder(p)
    BY <1>4 DEF RemovePod, Become, LeaseInv, LifeTypeOK, Holder, Acting
  <2>3. HoldersHold' /\ WatchedWhileUnrenewed'
    BY <1>4, <2>2, PhaseStepKeepsLeases, "stopping" \in Phases
    DEF RemovePod, Become, Phases
  <2> QED
    BY <2>1, <2>3 DEF LeaseInv
<1>5. CASE RemovePod(p) /\ phase[p] # "leading"
  BY <1>5, ExitKeepsInv DEF RemovePod, LeaseInv, LifeTypeOK
<1>6. CASE Stopped(p)
  BY <1>6, ExitKeepsInv DEF Stopped, LeaseInv, LifeTypeOK
<1> QED
  BY <1>1, <1>2, <1>3, <1>4, <1>5, <1>6

LEMMA StepKeepsInv ==
  ASSUME LeaseInv, [LifeNext]_lifeVars
  PROVE  LeaseInv'
<1>1. CASE Tick
  BY <1>1, TickKeepsInv
<1>2. ASSUME NEW f \in Files, Rollout(f) PROVE LeaseInv'
  BY <1>2 DEF Rollout, podVars, leaseVars, LeaseInv, LifeTypeOK, OptionsOfFile, HoldersHold,
     WatchedWhileUnrenewed, Id, Holder, Acting
<1>3. ASSUME NEW p \in Pods, LoseLease(p) \/ Crash(p) PROVE LeaseInv'
  BY <1>3, ExitKeepsInv DEF LoseLease, Crash, FatalError, LeaseInv, LifeTypeOK
<1>4. CASE UNCHANGED lifeVars
  BY <1>4 DEF lifeVars, podVars, leaseVars, LeaseInv, LifeTypeOK, OptionsOfFile, HoldersHold,
     WatchedWhileUnrenewed, Id, Holder, Acting
<1> QED
  BY <1>1, <1>2, <1>3, <1>4, StartUpKeepsInv, ElectionKeepsInv, DeploymentKeepsInv
  DEF LifeNext

(***************************************************************************)
(* Every variable of OperatorLifecycle keeps its type.                     *)
(***************************************************************************)
THEOREM LifeTypeCorrect == LifeSpec => []LifeTypeOK
<1>1. LeaseInv => LifeTypeOK
  BY DEF LeaseInv
<1> QED
  BY <1>1, InitInv, StepKeepsInv, PTL DEF LifeSpec

(***************************************************************************)
(* Two processes whose files name the same lease never work at the same    *)
(* time, a leader that is stopping included (mgr.Start, cmd/main.go).      *)
(***************************************************************************)
THEOREM AlwaysAtMostOneActs == LifeSpec => []AtMostOneActs
<1>1. LeaseInv => AtMostOneActs
  <2> SUFFICES ASSUME LeaseInv, NEW p \in Pods, NEW q \in Pods,
                      Acting(p), Elects(p), Acting(q), Elects(q),
                      ParseFile(file[p]).resourceID = ParseFile(file[q]).resourceID
               PROVE  p = q
    BY DEF AtMostOneActs
  <2>1. /\ options[p] = ManagerOptions(ParseFile(file[p]))
        /\ options[q] = ManagerOptions(ParseFile(file[q]))
    BY DEF LeaseInv, OptionsOfFile, Acting
  <2>2. Holder(p) /\ Holder(q) /\ Id(p) = Id(q)
    BY <2>1 DEF Holder, Elects, Id, ManagerOptions
  <2> QED
    BY <2>2 DEF LeaseInv, HoldersHold
<1> QED
  BY <1>1, InitInv, StepKeepsInv, PTL DEF LifeSpec
=============================================================================
