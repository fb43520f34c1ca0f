--------------------------- MODULE BootstrapProofs --------------------------
(***************************************************************************)
(* For any number of templates, crashes, evictions and workloads: who      *)
(* leads is a scheduler that runs, and only evictions ever make a second   *)
(* extension run.                                                          *)
(***************************************************************************)
EXTENDS SchedulerBootstrap, FiniteSetTheorems, TLAPS

Phases == {"pending", "bound", "ready", "terminating"}

LEMMA PodPhase ==
  ASSUME NEW p \in Pod, NEW phase \in Phases, NEW q, q = [p EXCEPT !.phase = phase]
  PROVE  /\ q \in Pod /\ q.of = p.of /\ q.number = p.number /\ q.gen = p.gen
         /\ q.phase = phase
  BY DEF Pod, Phases

-----------------------------------------------------------------------------
(***************************************************************************)
(* The types.  No scheduling cycle is about a scheduler's own pod, so the  *)
(* pod that leads is not touched behind its back.                          *)
(***************************************************************************)
CycleInv  == cycle.of # "scheduler"
LeaseHeld == Leads => \E p \in Of("scheduler") : p.number = lease /\ Runs(p)
TypeInv   == BootstrapTypeOK /\ CycleInv

(* The lease stays held while the schedulers that run go on running. *)
LEMMA LeaseStaysHeld ==
  ASSUME LeaseHeld, lease' = lease,
         \A p \in Of("scheduler") : Runs(p) =>
           \E q \in pods' : q.of = "scheduler" /\ q.number = p.number /\ Runs(q)
  PROVE  LeaseHeld'
  BY DEF LeaseHeld, Leads, Of

(* A pod changes its phase; one that ran still does. *)
LEMMA PhaseKeepsType ==
  ASSUME TypeInv, NEW p \in pods, NEW phase \in Phases,
         p.of = "scheduler" /\ Runs(p) => phase \in {"ready", "terminating"},
         pods' = (pods \ {p}) \cup {[p EXCEPT !.phase = phase]},
         UNCHANGED <<lease, work, faults, gen>>, evicts' \in 0..MaxEvicts,
         cycle' \in {cycle, NoPod}
  PROVE  TypeInv'
<1>0. p \in Pod
  BY DEF TypeInv, BootstrapTypeOK
<1>1. PICK q : q = [p EXCEPT !.phase = phase]
  OBVIOUS
<1>2. /\ q \in Pod /\ q.of = p.of /\ q.number = p.number /\ q.phase = phase
      /\ pods' = (pods \ {p}) \cup {q}
  BY <1>0, <1>1, PodPhase
<1>3. LeaseHeld'
  <2>1. ASSUME NEW r \in Of("scheduler"), Runs(r)
        PROVE  \E s \in pods' : s.of = "scheduler" /\ s.number = r.number /\ Runs(s)
    <3>1. CASE r = p
      BY <1>2, <2>1, <3>1 DEF Of, Runs
    <3>2. CASE r # p
      BY <1>2, <2>1, <3>2 DEF Of
    <3> QED
      BY <3>1, <3>2
  <2> QED
    BY <2>1, LeaseStaysHeld DEF TypeInv, BootstrapTypeOK, LeaseHeld
<1>4. pods' \subseteq Pod
  BY <1>2 DEF TypeInv, BootstrapTypeOK
<1> QED
  BY <1>3, <1>4 DEF TypeInv, BootstrapTypeOK, CycleInv, LeaseHeld, NoPod

(* A pod that does not run goes, or one that does and leads no more. *)
LEMMA GoneKeepsType ==
  ASSUME TypeInv, NEW p \in pods, pods' = pods \ {p}, UNCHANGED <<work, faults, gen>>,
         evicts' \in 0..MaxEvicts,
         \/ UNCHANGED <<lease, cycle>> /\ ~(p.of = "scheduler" /\ Runs(p) /\ lease = p.number)
         \/ lease' = Stale /\ cycle' = NoPod
  PROVE  TypeInv'
<1>1. LeaseHeld'
  <2>1. CASE UNCHANGED lease /\ ~(p.of = "scheduler" /\ Runs(p) /\ lease = p.number)
    BY <2>1 DEF TypeInv, BootstrapTypeOK, LeaseHeld, Leads, Of
  <2>2. CASE lease' = Stale
    BY <2>2, BootstrapAssumption DEF LeaseHeld, Leads, Stale
  <2> QED
    BY <2>1, <2>2
<1>2. lease' \in 0..Stale
  BY BootstrapAssumption DEF TypeInv, BootstrapTypeOK, Stale
<1> QED
  BY <1>1, <1>2 DEF TypeInv, BootstrapTypeOK, CycleInv, LeaseHeld, NoPod

(* A deployment's controller or an eviction ends a pod. *)
LEMMA TerminatedKeepsType ==
  ASSUME TypeInv, NEW p \in pods, p.phase # "terminating", pods' = Terminated(p),
         UNCHANGED <<work, faults, gen, lease, cycle>>, evicts' \in 0..MaxEvicts
  PROVE  TypeInv'
<1>1. CASE p.phase = "ready"
  BY <1>1, PhaseKeepsType DEF Terminated, Phases
<1>2. CASE p.phase # "ready"
  <2>1. pods' = pods \ {p} /\ ~Runs(p)
    BY <1>2 DEF Terminated, Runs
  <2> QED
    BY <2>1, GoneKeepsType
<1> QED
  BY <1>1, <1>2

LEMMA PodStepKeepsType ==
  ASSUME TypeInv, NEW p \in pods,
         \/ ScaleDown(p) \/ Evict(p) \/ Start(p) \/ Stop(p) \/ Crash(p) \/ PlaceByDefault(p)
         \/ Lead(p)
  PROVE  TypeInv'
<1>0. p \in Pod /\ evicts \in 0..MaxEvicts /\ faults \in 0..MaxFaults
  BY DEF TypeInv, BootstrapTypeOK
<1>1. CASE ScaleDown(p)
  BY <1>0, <1>1, TerminatedKeepsType DEF ScaleDown, Live
<1>2. CASE Evict(p)
  <2>1. evicts' \in 0..MaxEvicts
    BY <1>0, <1>2, BootstrapAssumption DEF Evict
  <2> QED
    BY <1>2, <2>1, TerminatedKeepsType DEF Evict
<1>3. CASE Start(p) \/ PlaceByDefault(p)
  BY <1>0, <1>3, PhaseKeepsType DEF Start, PlaceByDefault, Place, Phases, Runs
<1>4. CASE Stop(p)
  BY <1>0, <1>4, GoneKeepsType DEF Stop, LeaderLost
<1>5. CASE Crash(p)
  <2>1. PICK q : q = [p EXCEPT !.phase = "bound"]
    OBVIOUS
  <2>2. q \in Pod /\ pods' = (pods \ {p}) \cup {q}
    BY <1>0, <1>5, <2>1, PodPhase DEF Crash, Phases
  <2>3. faults' \in 0..MaxFaults
    BY <1>0, <1>5, BootstrapAssumption DEF Crash
  <2>4. CASE p.of = "scheduler" /\ lease = p.number
    <3>1. lease' = Stale /\ cycle' = NoPod
      BY <1>5, <2>4 DEF Crash, LeaderLost
    <3>2. LeaseHeld' /\ lease' \in 0..Stale
      BY <3>1, BootstrapAssumption DEF LeaseHeld, Leads, Stale
    <3> QED
      BY <1>5, <2>2, <2>3, <3>1, <3>2
      DEF Crash, TypeInv, BootstrapTypeOK, CycleInv, LeaseHeld, NoPod
  <2>5. CASE ~(p.of = "scheduler" /\ lease = p.number)
    <3>1. UNCHANGED <<lease, cycle>>
      BY <1>5, <2>5 DEF Crash, LeaderLost
    <3>2. LeaseHeld'
      BY <2>2, <2>5, <3>1 DEF TypeInv, BootstrapTypeOK, LeaseHeld, Leads, Of
    <3> QED
      BY <1>5, <2>2, <2>3, <3>1, <3>2
      DEF Crash, TypeInv, BootstrapTypeOK, CycleInv, LeaseHeld
  <2> QED
    BY <2>4, <2>5
<1>6. CASE Lead(p)
  <2>1. /\ p \in Of("scheduler") /\ Runs(p) /\ lease' = p.number /\ p.number \in 1..MaxPods
        /\ UNCHANGED <<gen, pods, work, cycle, faults, evicts>>
    BY <1>0, <1>6 DEF Lead, Up, Runs, Of, Pod
  <2>2. LeaseHeld' /\ lease' \in 0..Stale
    BY <2>1, BootstrapAssumption DEF LeaseHeld, Of, Stale
  <2> QED
    BY <2>1, <2>2 DEF TypeInv, BootstrapTypeOK, CycleInv, LeaseHeld
<1> QED
  BY <1>1, <1>2, <1>3, <1>4, <1>5, <1>6

LEMMA BindKeepsType ==
  ASSUME TypeInv, Bind PROVE TypeInv'
<1>0. UNCHANGED <<gen, lease, faults, evicts>> /\ cycle' = NoPod
  BY DEF Bind
<1>1. CASE cycle \in pods /\ Place(cycle) /\ UNCHANGED work
  BY <1>0, <1>1, PhaseKeepsType DEF Place, Phases, TypeInv, BootstrapTypeOK, CycleInv
<1>2. CASE UNCHANGED pods
  <2>1. work' \in [Workloads -> {"absent", "pending", "bound"}]
    BY DEF Bind, TypeInv, BootstrapTypeOK
  <2>2. LeaseHeld'
    BY <1>0, <1>2 DEF TypeInv, BootstrapTypeOK, LeaseHeld, Leads, Of
  <2> QED
    BY <1>0, <1>2, <2>1, <2>2 DEF TypeInv, BootstrapTypeOK, CycleInv, LeaseHeld, NoPod
<1> QED
  BY <1>1, <1>2 DEF Bind

LEMMA NextKeepsType ==
  ASSUME TypeInv, [BootstrapNext]_bootVars PROVE TypeInv'
<1> USE DEF TypeInv, BootstrapTypeOK, CycleInv
<1>1. ASSUME NEW d \in Deployments, HandleCustomScheduler(d) PROVE TypeInv'
  <2>1. gen' \in [Deployments -> 0..MaxGen]
    BY <1>1, BootstrapAssumption DEF HandleCustomScheduler
  <2> QED
    BY <1>1, <2>1 DEF HandleCustomScheduler, Leads, Of
<1>2. ASSUME NEW d \in Deployments, CreatePod(d) PROVE TypeInv'
  <2>1. pods \subseteq pods' /\ UNCHANGED <<gen, work, lease, cycle, faults, evicts>>
    BY <1>2 DEF CreatePod
  <2>2. gen[d] \in 1..MaxGen
    BY <1>2, BootstrapAssumption DEF CreatePod
  <2>3. pods' \subseteq Pod
    BY <1>2, <2>2 DEF CreatePod, Pod
  <2> QED
    BY <2>1, <2>3 DEF Leads, Of
<1>3. ASSUME NEW w \in Workloads, Submit(w) \/ FilterWorkload(w) PROVE TypeInv'
  BY <1>3 DEF Submit, FilterWorkload, Filter, Workload, Leads, Of
<1>4. CASE LeaseExpires
  BY <1>4, BootstrapAssumption DEF LeaseExpires, Leads, NoLeader, Stale
<1>5. CASE FilterExtension
  BY <1>5 DEF FilterExtension, Filter, Leads, Of
<1>6. CASE UNCHANGED bootVars
  BY <1>6 DEF bootVars, Leads, Of
<1> QED
  BY <1>1, <1>2, <1>3, <1>4, <1>5, <1>6, PodStepKeepsType, BindKeepsType DEF BootstrapNext

LEMMA TypeInvariance == BootstrapSpec => []TypeInv
<1>1. BootstrapInit => TypeInv
  BY BootstrapAssumption
  DEF BootstrapInit, TypeInv, BootstrapTypeOK, CycleInv, Leads, NoLeader, NoPod, Stale
<1>2. TypeInv /\ [BootstrapNext]_bootVars => TypeInv'
  BY NextKeepsType
<1> QED
  BY <1>1, <1>2, PTL DEF BootstrapSpec

(***************************************************************************)
(* Every variable keeps its type, and the lease is never that of a pod     *)
(* that does not run, whatever is rolled out, crashes or is evicted        *)
(* (neuron_scheduler_config.yaml, leaderElection).                         *)
(***************************************************************************)
THEOREM BootstrapTypeCorrect == BootstrapSpec => []BootstrapTypeOK
<1>1. TypeInv => BootstrapTypeOK
  BY DEF TypeInv
<1> QED
  BY <1>1, TypeInvariance, PTL

-----------------------------------------------------------------------------
(***************************************************************************)
(* The extension's pods.  One more than one of them for each eviction, as  *)
(* one that terminates while it is of the current template was evicted:    *)
(* no other is replaced before it is gone.                                 *)
(***************************************************************************)
Leaving == {p \in Of("extension") : p.phase = "terminating" /\ p.gen = gen["extension"]}

ExtensionInv ==
  /\ IsFiniteSet(Of("extension")) /\ Cardinality(Of("extension")) <= 1 + evicts
  /\ Cardinality(Leaving) <= evicts
  /\ \A p \in Of("extension") : p.gen <= gen["extension"]

LEMMA Subset ==
  ASSUME NEW S, IsFiniteSet(S), NEW T \in SUBSET S
  PROVE  /\ IsFiniteSet(T) /\ Cardinality(T) \in Nat /\ Cardinality(S) \in Nat
         /\ Cardinality(T) <= Cardinality(S)
  BY FS_Subset, FS_CardinalityType

LEMMA OneMore ==
  ASSUME NEW S, IsFiniteSet(S), NEW q, NEW T \in SUBSET (S \cup {q})
  PROVE  IsFiniteSet(T) /\ Cardinality(T) \in Nat /\ Cardinality(T) <= Cardinality(S) + 1
<1>1. /\ IsFiniteSet(S \cup {q}) /\ Cardinality(S) \in Nat
      /\ Cardinality(S \cup {q}) <= Cardinality(S) + 1
  BY FS_AddElement, FS_CardinalityType
<1> QED
  BY <1>1, Subset

LEMMA Replaced ==
  ASSUME NEW S, IsFiniteSet(S), NEW p \in S, NEW q, NEW T \in SUBSET ((S \ {p}) \cup {q})
  PROVE  IsFiniteSet(T) /\ Cardinality(T) \in Nat /\ Cardinality(T) <= Cardinality(S)
<1>1. /\ IsFiniteSet(S \ {p}) /\ Cardinality(S \ {p}) = Cardinality(S) - 1
      /\ Cardinality(S) \in Nat
  BY FS_RemoveElement, FS_CardinalityType
<1>2. IsFiniteSet(T) /\ Cardinality(T) \in Nat /\ Cardinality(T) <= Cardinality(S \ {p}) + 1
  BY <1>1, OneMore
<1> QED
  BY <1>1, <1>2

(* Pods go, or change their phase: to terminate, an extension must be of   *)
(* an older template, or evicted.                                          *)
LEMMA PhaseKeepsExtension ==
  ASSUME TypeInv, ExtensionInv, NEW p \in pods, NEW phase \in Phases, UNCHANGED gen,
         pods' \subseteq (pods \ {p}) \cup {[p EXCEPT !.phase = phase]},
         \/ UNCHANGED evicts /\ (phase = "terminating" => p.gen # gen[p.of])
         \/ evicts' = evicts + 1
  PROVE  ExtensionInv'
<1>0. p \in Pod /\ evicts \in Nat
  BY DEF TypeInv, BootstrapTypeOK
<1>1. PICK q : q = [p EXCEPT !.phase = phase]
  OBVIOUS
<1>2. /\ q.of = p.of /\ q.gen = p.gen /\ q.phase = phase
      /\ pods' \subseteq (pods \ {p}) \cup {q}
  BY <1>0, <1>1, PodPhase
<1>3. IsFiniteSet(Of("extension")) /\ IsFiniteSet(Leaving) /\ Cardinality(Leaving) \in Nat
  BY Subset, FS_CardinalityType DEF ExtensionInv, Leaving
<1>4. CASE p.of # "extension"
  <2>1. Of("extension")' \subseteq Of("extension") /\ Leaving' \subseteq Leaving
    BY <1>2, <1>4 DEF Of, Leaving
  <2>2. /\ IsFiniteSet(Of("extension")')
        /\ Cardinality(Of("extension")') <= Cardinality(Of("extension"))
        /\ Cardinality(Leaving') <= Cardinality(Leaving)
        /\ Cardinality(Of("extension")') \in Nat /\ Cardinality(Of("extension")) \in Nat
        /\ Cardinality(Leaving') \in Nat
    BY <1>3, <2>1, Subset
  <2> QED
    BY <1>0, <1>3, <2>1, <2>2 DEF ExtensionInv
<1>5. CASE p.of = "extension"
  <2>1. p \in Of("extension") /\ Of("extension")' \subseteq (Of("extension") \ {p}) \cup {q}
    BY <1>2, <1>5 DEF Of
  <2>2. /\ IsFiniteSet(Of("extension")')
        /\ Cardinality(Of("extension")') <= Cardinality(Of("extension"))
        /\ Cardinality(Of("extension")') \in Nat /\ Cardinality(Of("extension")) \in Nat
    <3>1. PICK S, T : S = Of("extension") /\ T = Of("extension")'
      OBVIOUS
    <3>2. IsFiniteSet(S) /\ p \in S /\ T \in SUBSET ((S \ {p}) \cup {q})
      BY <1>3, <2>1, <3>1
    <3> QED
      BY <3>1, <3>2, Replaced, FS_CardinalityType
  <2>3. /\ Leaving' \subseteq Leaving \cup {q}
        /\ ~(phase = "terminating" /\ p.gen = gen["extension"]) => Leaving' \subseteq Leaving
    BY <1>2, <2>1 DEF Leaving
  <2>4. /\ Cardinality(Leaving') \in Nat /\ Cardinality(Leaving') <= Cardinality(Leaving) + 1
        /\ ~(phase = "terminating" /\ p.gen = gen["extension"])
             => Cardinality(Leaving') <= Cardinality(Leaving)
    BY <1>3, <2>3, OneMore, Subset
  <2>5. Cardinality(Leaving') <= evicts'
    BY <1>0, <1>3, <1>5, <2>4 DEF ExtensionInv
  <2>6. \A r \in Of("extension")' : r.gen <= gen["extension"]
    BY <1>2, <2>1 DEF ExtensionInv
  <2> QED
    BY <1>0, <2>2, <2>5, <2>6 DEF ExtensionInv
<1> QED
  BY <1>4, <1>5

LEMMA TerminatedKeepsExtension ==
  ASSUME TypeInv, ExtensionInv, NEW p \in pods, pods' = Terminated(p), UNCHANGED gen,
         (UNCHANGED evicts /\ p.gen # gen[p.of]) \/ evicts' = evicts + 1
  PROVE  ExtensionInv'
<1>1. pods' \subseteq (pods \ {p}) \cup {[p EXCEPT !.phase = "terminating"]}
  BY DEF Terminated
<1> QED
  BY <1>1, PhaseKeepsExtension DEF Phases

LEMMA CreateKeepsExtension ==
  ASSUME TypeInv, ExtensionInv, NEW d \in Deployments, CreatePod(d)
  PROVE  ExtensionInv'
<1>1. PICK n \in 1..MaxPods :
        pods' = pods \cup {[of |-> d, number |-> n, gen |-> gen[d], phase |-> "pending"]}
  BY DEF CreatePod
<1>2. PICK p : p = [of |-> d, number |-> n, gen |-> gen[d], phase |-> "pending"]
  OBVIOUS
<1>3. /\ p.of = d /\ p.gen = gen[d] /\ p.phase = "pending" /\ pods' = pods \cup {p}
      /\ UNCHANGED <<gen, evicts>> /\ evicts \in Nat /\ gen["extension"] \in Nat
  BY <1>1, <1>2 DEF CreatePod, TypeInv, BootstrapTypeOK, Deployments
<1>4. Leaving' = Leaving
  BY <1>3 DEF Leaving, Of
<1>5. CASE d # "extension"
  <2>1. Of("extension")' = Of("extension")
    BY <1>3, <1>5 DEF Of
  <2> QED
    BY <1>3, <1>4, <2>1 DEF ExtensionInv
<1>6. CASE d = "extension"
  <2>1. Of("extension") \subseteq Leaving
    <3> SUFFICES ASSUME NEW q \in Of("extension") PROVE q \in Leaving
      OBVIOUS
    <3>1. q.gen = gen["extension"] /\ New("extension") = {}
      BY <1>6 DEF CreatePod, Strategy
    <3> QED
      BY <3>1 DEF Leaving, New, Live
  <2>2. Leaving = Of("extension")
    BY <2>1 DEF Leaving
  <2>3. Of("extension")' \subseteq Of("extension") \cup {p}
    BY <1>3 DEF Of
  <2>4. /\ IsFiniteSet(Of("extension")') /\ Cardinality(Of("extension")') \in Nat
        /\ Cardinality(Of("extension")') <= Cardinality(Of("extension")) + 1
        /\ Cardinality(Of("extension")) \in Nat
    BY <2>3, OneMore, FS_CardinalityType DEF ExtensionInv
  <2>5. \A q \in Of("extension")' : q.gen <= gen["extension"]
    BY <1>3, <1>6, <2>3 DEF ExtensionInv
  <2> QED
    BY <1>3, <1>4, <2>2, <2>4, <2>5 DEF ExtensionInv
<1> QED
  BY <1>5, <1>6

(* A new template: nothing of it terminates yet. *)
LEMMA TemplateKeepsExtension ==
  ASSUME TypeInv, ExtensionInv, NEW d \in Deployments, HandleCustomScheduler(d)
  PROVE  ExtensionInv'
<1>1. /\ UNCHANGED <<pods, evicts>> /\ Of("extension")' = Of("extension") /\ evicts \in Nat
      /\ \A p \in Of("extension") : p.gen \in Nat
      /\ gen["extension"] \in Nat
      /\ gen'["extension"] \in {gen["extension"], gen["extension"] + 1}
  BY DEF HandleCustomScheduler, TypeInv, BootstrapTypeOK, Of, Deployments, Pod
<1>2. Leaving' \subseteq Leaving
  BY <1>1 DEF Leaving, ExtensionInv
<1>3. /\ Cardinality(Leaving') <= Cardinality(Leaving)
      /\ Cardinality(Leaving') \in Nat /\ Cardinality(Leaving) \in Nat
  <2>1. IsFiniteSet(Leaving)
    BY Subset DEF ExtensionInv, Leaving
  <2> QED
    BY <1>2, <2>1, Subset
<1> QED
  BY <1>1, <1>3 DEF ExtensionInv

LEMMA NextKeepsExtension ==
  ASSUME TypeInv, ExtensionInv, [BootstrapNext]_bootVars
  PROVE  ExtensionInv'
<1>1. CASE UNCHANGED <<pods, gen, evicts>>
  BY <1>1 DEF ExtensionInv, Of, Leaving
<1>2. ASSUME NEW p \in pods, ScaleDown(p) \/ Evict(p) PROVE ExtensionInv'
  BY <1>2, TerminatedKeepsExtension DEF ScaleDown, Evict
<1>3. ASSUME NEW p \in pods, Start(p) \/ Crash(p) \/ PlaceByDefault(p) PROVE ExtensionInv'
  BY <1>3, PhaseKeepsExtension DEF Start, Crash, PlaceByDefault, Place, Phases
<1>4. ASSUME NEW p \in pods, Stop(p) PROVE ExtensionInv'
  <2>1. pods' \subseteq (pods \ {p}) \cup {[p EXCEPT !.phase = "bound"]}
    BY <1>4 DEF Stop
  <2> QED
    BY <1>4, <2>1, PhaseKeepsExtension DEF Stop, Phases
<1>5. CASE Bind
  <2>1. CASE cycle \in pods /\ Place(cycle)
    BY <1>5, <2>1, PhaseKeepsExtension DEF Bind, Place, Phases
  <2> QED
    BY <1>1, <1>5, <2>1 DEF Bind
<1> QED
  BY <1>1, <1>2, <1>3, <1>4, <1>5, CreateKeepsExtension, TemplateKeepsExtension
  DEF BootstrapNext, bootVars, Submit, FilterWorkload, FilterExtension, Filter, LeaseExpires, Lead

(***************************************************************************)
(* SetCustomSchedulerExtensionAsDesired's strategy Recreate: whatever      *)
(* images are rolled out and however often pods crash, a second extension  *)
(* never runs but for an eviction, and never more than one for each.       *)
(***************************************************************************)
THEOREM AtMostOneExtension == BootstrapSpec => []OneExtension
<1>1. BootstrapInit => ExtensionInv
  <2> SUFFICES ASSUME BootstrapInit PROVE ExtensionInv
    OBVIOUS
  <2>1. Of("extension") = {} /\ Leaving = {} /\ evicts = 0
    BY DEF BootstrapInit, Of, Leaving
  <2> QED
    BY <2>1, FS_EmptySet DEF ExtensionInv
<1>2. TypeInv /\ ExtensionInv /\ [BootstrapNext]_bootVars => ExtensionInv'
  BY NextKeepsExtension
<1>3. TypeInv /\ ExtensionInv => OneExtension
  <2> SUFFICES ASSUME TypeInv, ExtensionInv PROVE OneExtension
    OBVIOUS
  <2> DEFINE Running == {p \in Of("extension") : Runs(p)}
  <2>1. /\ Cardinality(Running) <= Cardinality(Of("extension"))
        /\ Cardinality(Running) \in Nat /\ Cardinality(Of("extension")) \in Nat
    BY Subset DEF ExtensionInv
  <2> QED
    BY <2>1 DEF OneExtension, ExtensionInv, TypeInv, BootstrapTypeOK
<1> QED
  BY <1>1, <1>2, <1>3, TypeInvariance, PTL DEF BootstrapSpec
=============================================================================
