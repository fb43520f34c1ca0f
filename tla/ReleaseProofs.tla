---------------------------- MODULE ReleaseProofs ---------------------------
(***************************************************************************)
(* However many release and republication runs overlap, fail and are       *)
(* repeated: what tags, images and release pages are of.                   *)
(***************************************************************************)
EXTENDS ReleasePipeline, TLAPS

(* A run that has pushed its tag finds it there, and a republication never *)
(* gets past the bundle image.                                             *)
JobOK(j) ==
  IF j.workflow = "release"
    THEN j.step >= 8 => tags[j.version] = j.commit
    ELSE ~j.bundle /\ j.step <= 3

JobsOK == \A n \in DOMAIN jobs : JobOK(jobs[n])

PipelineInv == VariablesTyped /\ JobsOK /\ PageFollowsTag

-----------------------------------------------------------------------------
LEMMA StepLists ==
  /\ Len(ReleaseSteps) = 8 /\ Len(RepublishSteps) = 6
  /\ ReleaseSteps[1] = "validate" /\ ReleaseSteps[2] = "operator"
  /\ ReleaseSteps[3] = "generate bundle" /\ ReleaseSteps[4] = "bundle"
  /\ ReleaseSteps[5] = "index" /\ ReleaseSteps[6] = "manifests"
  /\ ReleaseSteps[7] = "tag" /\ ReleaseSteps[8] = "page"
  /\ RepublishSteps[1] = "validate" /\ RepublishSteps[2] = "operator"
  /\ RepublishSteps[3] = "bundle" /\ RepublishSteps[4] = "index"
  /\ RepublishSteps[5] = "manifests" /\ RepublishSteps[6] = "page"
  BY DEF ReleaseSteps, RepublishSteps

(* At which numbers of its list a run is at a tag, a page, a bundle. *)
LEMMA ReleaseNumbers ==
  ASSUME NEW i \in 1..8
  PROVE  /\ (ReleaseSteps[i] = "tag") <=> (i = 7)
         /\ (ReleaseSteps[i] = "page") <=> (i = 8)
         /\ (ReleaseSteps[i] = "generate bundle") <=> (i = 3)
<1>1. i = 1 \/ i = 2 \/ i = 3 \/ i = 4 \/ i = 5 \/ i = 6 \/ i = 7 \/ i = 8
  OBVIOUS
<1> QED
  BY <1>1, StepLists

LEMMA RepublishNumbers ==
  ASSUME NEW i \in 1..6
  PROVE  /\ (RepublishSteps[i] = "bundle") <=> (i = 3)
         /\ (RepublishSteps[i] = "page") <=> (i = 6)
         /\ RepublishSteps[i] # "tag" /\ RepublishSteps[i] # "generate bundle"
<1>1. i = 1 \/ i = 2 \/ i = 3 \/ i = 4 \/ i = 5 \/ i = 6
  OBVIOUS
<1> QED
  BY <1>1, StepLists

LEMMA StepNumbers ==
  ASSUME NEW j \in Job, j.step <= Len(StepsOf(j))
  PROVE  /\ j.workflow = "release" => j.step \in 1..8 /\ StepsOf(j) = ReleaseSteps
         /\ j.workflow # "release" => j.step \in 1..6 /\ StepsOf(j) = RepublishSteps
<1>1. j.step \in 1..9
  BY DEF Job
<1>2. CASE j.workflow = "release"
  <2>1. StepsOf(j) = ReleaseSteps
    BY <1>2 DEF StepsOf
  <2>2. Len(StepsOf(j)) = 8
    BY <2>1, StepLists
  <2>3. j.step <= 8
    BY <2>2
  <2> QED
    BY <1>1, <1>2, <2>1, <2>3
<1>3. CASE j.workflow # "release"
  <2>1. StepsOf(j) = RepublishSteps
    BY <1>3 DEF StepsOf
  <2>2. Len(StepsOf(j)) = 6
    BY <2>1, StepLists
  <2>3. j.step <= 6
    BY <2>2
  <2> QED
    BY <1>1, <1>3, <2>1, <2>3
<1> QED
  BY <1>2, <1>3

LEMMA WhereAt ==
  ASSUME NEW n \in DOMAIN jobs, jobs[n] \in Job, NEW s, At(n, s)
  PROVE  /\ jobs[n].workflow = "release" =>
              /\ jobs[n].step \in 1..8
              /\ (s = "tag") <=> (jobs[n].step = 7)
              /\ (s = "page") <=> (jobs[n].step = 8)
              /\ (s = "generate bundle") <=> (jobs[n].step = 3)
         /\ jobs[n].workflow # "release" =>
              /\ jobs[n].step \in 1..6 /\ s # "tag" /\ s # "generate bundle"
              /\ (s = "bundle") <=> (jobs[n].step = 3)
              /\ (s = "page") <=> (jobs[n].step = 6)
<1>1. jobs[n].step <= Len(StepsOf(jobs[n])) /\ StepsOf(jobs[n])[jobs[n].step] = s
  BY DEF At, Running
<1>2. CASE jobs[n].workflow = "release"
  <2>1. jobs[n].step \in 1..8 /\ ReleaseSteps[jobs[n].step] = s
    BY <1>1, <1>2, StepNumbers
  <2> QED
    BY <1>2, <2>1, ReleaseNumbers
<1>3. CASE jobs[n].workflow # "release"
  <2>1. jobs[n].step \in 1..6 /\ RepublishSteps[jobs[n].step] = s
    BY <1>1, <1>3, StepNumbers
  <2> QED
    BY <1>3, <2>1, RepublishNumbers
<1> QED
  BY <1>2, <1>3

(* What a step changes of a run's record leaves a record of a run. *)
LEMMA StepPassed ==
  ASSUME NEW j \in Job, j.step \in 1..8, NEW k, k = [j EXCEPT !.step = @ + 1]
  PROVE  /\ k \in Job /\ k.step = j.step + 1 /\ k.workflow = j.workflow
         /\ k.version = j.version /\ k.commit = j.commit /\ (k.bundle <=> j.bundle)
<1>1. k \in Job
  BY DEF Job
<1>2. k.step = j.step + 1 /\ k.workflow = j.workflow
  BY DEF Job
<1>3. k.version = j.version /\ k.commit = j.commit
  BY DEF Job
<1>4. k.bundle <=> j.bundle
  BY DEF Job
<1> QED
  BY <1>1, <1>2, <1>3, <1>4

LEMMA BundlePassed ==
  ASSUME NEW j \in Job, j.step \in 1..8, NEW k, k = [j EXCEPT !.step = @ + 1, !.bundle = TRUE]
  PROVE  /\ k \in Job /\ k.step = j.step + 1 /\ k.workflow = j.workflow
         /\ k.version = j.version /\ k.commit = j.commit
<1>1. k \in Job
  <2>1. PICK i : i = [j EXCEPT !.step = @ + 1]
    OBVIOUS
  <2>2. i \in Job
    BY <2>1, StepPassed
  <2>3. k = [i EXCEPT !.bundle = TRUE]
    BY <2>1 DEF Job
  <2> QED
    BY <2>2, <2>3 DEF Job
<1>2. k.step = j.step + 1 /\ k.workflow = j.workflow
  BY DEF Job
<1>3. k.version = j.version /\ k.commit = j.commit
  BY DEF Job
<1> QED
  BY <1>1, <1>2, <1>3

LEMMA StepFailed ==
  ASSUME NEW j \in Job, NEW k, k = [j EXCEPT !.failed = TRUE]
  PROVE  /\ k \in Job /\ k.step = j.step /\ k.workflow = j.workflow
         /\ k.version = j.version /\ k.commit = j.commit /\ (k.bundle <=> j.bundle)
<1>1. k \in Job
  BY DEF Job
<1>2. k.step = j.step /\ k.workflow = j.workflow
  BY DEF Job
<1>3. k.version = j.version /\ k.commit = j.commit
  BY DEF Job
<1>4. k.bundle <=> j.bundle
  BY DEF Job
<1> QED
  BY <1>1, <1>2, <1>3, <1>4

(* A step of run n in which only that run's record changes. *)
LEMMA RunStep ==
  ASSUME PipelineInv, NEW n \in DOMAIN jobs, NEW j \in Job,
         jobs' = [jobs EXCEPT ![n] = j], UNCHANGED <<tags, page>>,
         j.workflow = jobs[n].workflow, j.version = jobs[n].version,
         j.commit = jobs[n].commit, JobOK(j)
  PROVE  jobs' \in Seq(Job) /\ Len(jobs') = Len(jobs) /\ JobsOK' /\ PageFollowsTag'
<1>1. jobs \in Seq(Job) /\ jobs' \in Seq(Job) /\ Len(jobs') = Len(jobs)
  BY DEF PipelineInv, VariablesTyped
<1>2. DOMAIN jobs' = DOMAIN jobs /\ \A m \in DOMAIN jobs : jobs'[m] = IF m = n THEN j ELSE jobs[m]
  BY <1>1
<1>3. \A m \in DOMAIN jobs : JobOK(jobs'[m])
  BY <1>2 DEF PipelineInv, JobsOK
<1>4. JobsOK'
  BY <1>2, <1>3 DEF JobsOK, JobOK
<1> QED
  BY <1>1, <1>4 DEF PageFollowsTag, PipelineInv

LEMMA PassOrFail ==
  ASSUME PipelineInv, NEW n \in DOMAIN jobs, Running(jobs[n]), Pass(n) \/ FailJob(n),
         Pass(n) => /\ jobs[n].workflow = "release" => jobs[n].step # 7
                    /\ jobs[n].workflow # "release" => jobs[n].step # 3,
         UNCHANGED <<tags, page>>
  PROVE  jobs' \in Seq(Job) /\ Len(jobs') = Len(jobs) /\ JobsOK' /\ PageFollowsTag'
<1>1. jobs[n] \in Job /\ JobOK(jobs[n]) /\ jobs \in Seq(Job)
  BY DEF PipelineInv, VariablesTyped, JobsOK
<1>2. CASE Pass(n)
  <2> DEFINE j == [jobs[n] EXCEPT !.step = @ + 1]
  <2>1. jobs' = [jobs EXCEPT ![n] = j]
    BY <1>2 DEF Pass
  <2>2. jobs[n].step \in 1..8
    BY <1>1, StepNumbers DEF Running
  <2>3. j \in Job /\ j.step = jobs[n].step + 1 /\ j.workflow = jobs[n].workflow
        /\ j.version = jobs[n].version /\ j.commit = jobs[n].commit
        /\ (j.bundle <=> jobs[n].bundle)
    BY <1>1, <2>2, StepPassed
  <2> HIDE DEF j
  <2>4. JobOK(j)
    BY <1>1, <1>2, <2>2, <2>3 DEF JobOK
  <2> QED
    BY <2>1, <2>3, <2>4, RunStep
<1>3. CASE FailJob(n)
  <2> DEFINE j == [jobs[n] EXCEPT !.failed = TRUE]
  <2>1. jobs' = [jobs EXCEPT ![n] = j]
    BY <1>3 DEF FailJob
  <2>2. j \in Job /\ j.step = jobs[n].step /\ j.workflow = jobs[n].workflow
        /\ j.version = jobs[n].version /\ j.commit = jobs[n].commit
        /\ (j.bundle <=> jobs[n].bundle)
    BY <1>1, StepFailed
  <2> HIDE DEF j
  <2>3. JobOK(j)
    BY <1>1, <2>2 DEF JobOK
  <2> QED
    BY <2>1, <2>2, <2>3, RunStep
<1> QED
  BY <1>2, <1>3

LEMMA BeginKeepsJobs ==
  ASSUME PipelineInv, NEW w \in {"release", "republish"}, NEW c \in 1..MaxPushes,
         NEW v \in Versions, NEW ts \in SUBSET Versions, Begin(w, c, v, ts),
         UNCHANGED <<tags, page>>
  PROVE  jobs' \in Seq(Job) /\ Len(jobs') <= MaxJobs /\ JobsOK' /\ PageFollowsTag'
<1> DEFINE j == [workflow |-> w, commit |-> c, version |-> v, tags |-> ts,
                 crowded |-> Crowded(v), bundle |-> FALSE, step |-> 1, failed |-> FALSE]
<1>1. jobs' = Append(jobs, j) /\ Len(jobs) < MaxJobs /\ jobs \in Seq(Job) /\ Len(jobs) \in Nat
  BY DEF Begin, PipelineInv, VariablesTyped
<1>2. j \in Job /\ JobOK(j)
  <2>1. Crowded(v) \in BOOLEAN
    BY DEF Crowded
  <2> QED
    BY <2>1 DEF Job, JobOK
<1> HIDE DEF j
<1>3. jobs' \in Seq(Job) /\ Len(jobs') = Len(jobs) + 1 /\ DOMAIN jobs' = 1..(Len(jobs) + 1)
      /\ \A m \in 1..(Len(jobs) + 1) : jobs'[m] = IF m = Len(jobs) + 1 THEN j ELSE jobs[m]
  BY <1>1, <1>2
<1>4. \A m \in DOMAIN jobs' : JobOK(jobs'[m])
  BY <1>1, <1>2, <1>3 DEF PipelineInv, JobsOK
<1>5. JobsOK'
  BY <1>4 DEF JobsOK, JobOK
<1> QED
  BY <1>1, <1>3, <1>5, PipelineAssumption DEF PageFollowsTag, PipelineInv

-----------------------------------------------------------------------------
LEMMA RunStepKeepsInv ==
  ASSUME PipelineInv, NEW n \in DOMAIN jobs, PipelineStep(n) \/ StepFails(n)
  PROVE  PipelineInv'
<1>0. /\ jobs[n] \in Job /\ JobOK(jobs[n]) /\ jobs \in Seq(Job) /\ Len(jobs) \in Nat
      /\ jobs[n].version \in Versions /\ jobs[n].commit \in Commits
      /\ tags \in [Versions -> Commits] /\ page \in [Versions -> Commits]
  <2>1. jobs[n] \in Job /\ JobOK(jobs[n]) /\ jobs \in Seq(Job) /\ Len(jobs) \in Nat
    BY DEF PipelineInv, VariablesTyped, JobsOK
  <2>2. jobs[n].version \in Versions /\ jobs[n].commit \in 1..MaxPushes
    BY <2>1 DEF Job
  <2>3. jobs[n].commit \in Commits
    BY <2>2, PipelineAssumption DEF Commits
  <2> QED
    BY <2>1, <2>2, <2>3 DEF PipelineInv, VariablesTyped
<1>1. /\ images' \in [Images -> [Versions -> Commits]]
      /\ main' = main /\ faults' \in 0..MaxFaults
  <2>1. ASSUME NEW i \in Images, NEW c \in Commits, Store(n, i, c)
        PROVE  images' \in [Images -> [Versions -> Commits]]
    BY <1>0, <2>1 DEF Store, PipelineInv, VariablesTyped
  <2>2. images["bundle"][jobs[n].version] \in Commits
    BY <1>0 DEF PipelineInv, VariablesTyped, Images
  <2>3. images \in [Images -> [Versions -> Commits]] /\ faults \in 0..MaxFaults
    BY DEF PipelineInv, VariablesTyped
  <2>4. CASE BuildOperator(n)
    BY <1>0, <2>1, <2>3, <2>4 DEF BuildOperator, Images
  <2>5. CASE BuildBundle(n)
    BY <1>0, <2>1, <2>3, <2>5 DEF BuildBundle, Images
  <2>6. CASE BuildIndex(n)
    BY <1>0, <2>1, <2>2, <2>3, <2>6 DEF BuildIndex, Images
  <2>7. CASE StepFails(n)
    BY <2>3, <2>7, PipelineAssumption DEF StepFails
  <2>8. CASE Validate(n) \/ GenerateBundle(n) \/ Manifests(n) \/ TagCommit(n) \/ Publish(n)
    BY <2>3, <2>8 DEF Validate, GenerateBundle, Manifests, TagCommit, Publish
  <2> QED
    BY <2>4, <2>5, <2>6, <2>7, <2>8 DEF PipelineStep
<1>2. CASE Validate(n) \/ BuildOperator(n) \/ BuildBundle(n) \/ BuildIndex(n)
             \/ Manifests(n) \/ StepFails(n)
  <2>1. Running(jobs[n]) /\ (Pass(n) \/ FailJob(n)) /\ UNCHANGED <<tags, page>>
    BY <1>2 DEF Validate, BuildOperator, BuildBundle, BuildIndex, Manifests, StepFails, At
  <2>2. StepFails(n) \/ \E s \in {"validate", "operator", "bundle", "index", "manifests"} :
          At(n, s) /\ (s = "bundle" => jobs[n].bundle \/ ~Pass(n))
    <3>1. FailJob(n) => ~Pass(n)
      BY <1>0 DEF FailJob, Pass, Job, Running
    <3> QED
      BY <1>2, <3>1 DEF Validate, BuildOperator, BuildBundle, BuildIndex, Manifests
  <2>3. StepFails(n) => ~Pass(n)
    BY <1>0 DEF StepFails, FailJob, Pass, Job, Running
  <2>4. Pass(n) => /\ jobs[n].workflow = "release" => jobs[n].step # 7
                   /\ jobs[n].workflow # "release" => jobs[n].step # 3
    <3> SUFFICES ASSUME Pass(n)
                 PROVE  /\ jobs[n].workflow = "release" => jobs[n].step # 7
                        /\ jobs[n].workflow # "release" => jobs[n].step # 3
      OBVIOUS
    <3>1. PICK s \in {"validate", "operator", "bundle", "index", "manifests"} :
            At(n, s) /\ (s = "bundle" => jobs[n].bundle)
      BY <2>2, <2>3
    <3> QED
      BY <1>0, <3>1, WhereAt DEF JobOK
  <2>5. jobs' \in Seq(Job) /\ Len(jobs') = Len(jobs) /\ JobsOK' /\ PageFollowsTag'
    BY <2>1, <2>4, PassOrFail
  <2> QED
    BY <1>0, <1>1, <2>1, <2>5 DEF PipelineInv, VariablesTyped
<1>3. CASE GenerateBundle(n)
  <2> DEFINE j == [jobs[n] EXCEPT !.step = @ + 1, !.bundle = TRUE]
  <2>1. /\ jobs[n].workflow = "release" /\ jobs[n].step \in 1..6
        /\ UNCHANGED <<tags, page>> /\ jobs' = [jobs EXCEPT ![n] = j]
    <3>1. At(n, "generate bundle") /\ UNCHANGED <<tags, page>> /\ jobs' = [jobs EXCEPT ![n] = j]
      BY <1>0, <1>3 DEF GenerateBundle, Job
    <3>2. jobs[n].workflow = "release"
      BY <1>0, <3>1, WhereAt
    <3>3. jobs[n].step = 3
      BY <1>0, <3>1, <3>2, WhereAt
    <3>4. jobs[n].step \in 1..6
      BY <3>3
    <3> HIDE DEF j
    <3> QED
      BY <3>1, <3>2, <3>4
  <2>2. j \in Job /\ j.step = jobs[n].step + 1 /\ j.workflow = jobs[n].workflow
        /\ j.version = jobs[n].version /\ j.commit = jobs[n].commit
    <3>1. jobs[n] \in Job /\ jobs[n].step \in 1..8
      BY <1>0, <2>1
    <3> QED
      BY <3>1, BundlePassed
  <2> HIDE DEF j
  <2>3. JobOK(j)
    BY <2>1, <2>2 DEF JobOK
  <2>4. jobs' \in Seq(Job) /\ Len(jobs') = Len(jobs) /\ JobsOK' /\ PageFollowsTag'
    BY <2>1, <2>2, <2>3, RunStep
  <2> QED
    BY <1>0, <1>1, <2>1, <2>4 DEF PipelineInv, VariablesTyped
<1>4. CASE TagCommit(n)
  <2> DEFINE v == jobs[n].version
             c == jobs[n].commit
  <2>1. CASE tags[v] \in {0, c}
    <3>1. /\ jobs[n].workflow = "release" /\ jobs[n].step = 7
          /\ tags' = [tags EXCEPT ![v] = c] /\ page' = page
      <4>1. At(n, "tag") /\ page' = page /\ tags' = [tags EXCEPT ![v] = c]
        BY <1>4, <2>1 DEF TagCommit
      <4> QED
        BY <1>0, <4>1, WhereAt
    <3>2. /\ tags' \in [Versions -> Commits] /\ tags'[v] = c
          /\ \A w \in Versions : tags[w] # 0 => tags'[w] = tags[w]
      BY <1>0, <2>1, <3>1
    <3> DEFINE j == [jobs[n] EXCEPT !.step = @ + 1]
    <3>3. jobs' = [jobs EXCEPT ![n] = j]
      BY <1>4, <2>1 DEF TagCommit, Pass
    <3>4. j \in Job /\ j.step = 8 /\ j.workflow = "release" /\ j.version = v /\ j.commit = c
      BY <1>0, <3>1, StepPassed
    <3> HIDE DEF j
    <3>5. jobs' \in Seq(Job) /\ Len(jobs') = Len(jobs) /\ DOMAIN jobs' = DOMAIN jobs
          /\ \A m \in DOMAIN jobs : jobs'[m] = IF m = n THEN j ELSE jobs[m]
      BY <1>0, <3>3, <3>4
    <3>6. ASSUME NEW m \in DOMAIN jobs PROVE JobOK(jobs[m])' /\ jobs'[m] \in Job
      <4>1. CASE m = n
        BY <3>2, <3>4, <3>5, <4>1 DEF JobOK
      <4>2. CASE m # n
        <5>1. jobs'[m] = jobs[m] /\ jobs[m] \in Job /\ JobOK(jobs[m])
          BY <1>0, <3>5, <4>2 DEF PipelineInv, JobsOK
        <5>2. jobs[m].version \in Versions /\ jobs[m].commit # 0
          BY <5>1 DEF Job
        <5> QED
          BY <3>2, <5>1, <5>2 DEF JobOK
      <4> QED
        BY <4>1, <4>2
    <3>7. JobsOK'
      BY <3>5, <3>6 DEF JobsOK
    <3>8. PageFollowsTag'
      BY <1>0, <3>1, <3>2 DEF PipelineInv, PageFollowsTag
    <3> QED
      BY <1>0, <1>1, <3>1, <3>2, <3>5, <3>7, <3>8 DEF PipelineInv, VariablesTyped
  <2>2. CASE tags[v] \notin {0, c}
    <3>1. Running(jobs[n]) /\ FailJob(n) /\ UNCHANGED <<tags, page>>
      BY <1>4, <2>2 DEF TagCommit, At
    <3>2. ~Pass(n)
      BY <1>0, <3>1 DEF FailJob, Pass, Job, Running
    <3>3. jobs' \in Seq(Job) /\ Len(jobs') = Len(jobs) /\ JobsOK' /\ PageFollowsTag'
      BY <3>1, <3>2, PassOrFail
    <3> QED
      BY <1>0, <1>1, <3>1, <3>3 DEF PipelineInv, VariablesTyped
  <2> QED
    BY <2>1, <2>2
<1>5. CASE Publish(n)
  <2> DEFINE v == jobs[n].version
  <2>1. /\ Running(jobs[n]) /\ Pass(n) /\ tags' = tags
        /\ page' = [page EXCEPT ![v] = jobs[n].commit]
    BY <1>5 DEF Publish, At
  <2>2. jobs[n].workflow = "release" /\ jobs[n].step = 8 /\ tags[v] = jobs[n].commit
    <3>1. At(n, "page")
      BY <1>5 DEF Publish
    <3>2. jobs[n].workflow = "release"
      <4> SUFFICES ASSUME jobs[n].workflow # "release" PROVE FALSE
        OBVIOUS
      <4>1. jobs[n].step = 6
        BY <1>0, <3>1, WhereAt
      <4>2. jobs[n].step <= 3
        BY <1>0 DEF JobOK
      <4> QED
        BY <4>1, <4>2
    <3>3. jobs[n].step = 8
      BY <1>0, <3>1, <3>2, WhereAt
    <3>4. tags[jobs[n].version] = jobs[n].commit
      BY <1>0, <3>2, <3>3 DEF JobOK
    <3> QED
      BY <3>2, <3>3, <3>4
  <2> DEFINE j == [jobs[n] EXCEPT !.step = @ + 1]
  <2>3. jobs' = [jobs EXCEPT ![n] = j]
    BY <2>1 DEF Pass
  <2>4. j \in Job /\ j.step = 9 /\ j.workflow = "release" /\ j.version = v
        /\ j.commit = jobs[n].commit
    BY <1>0, <2>2, StepPassed
  <2> HIDE DEF j
  <2>5. jobs' \in Seq(Job) /\ Len(jobs') = Len(jobs) /\ DOMAIN jobs' = DOMAIN jobs
        /\ \A m \in DOMAIN jobs : jobs'[m] = IF m = n THEN j ELSE jobs[m]
    BY <1>0, <2>3, <2>4
  <2>6. JobsOK'
    BY <2>1, <2>2, <2>4, <2>5 DEF JobsOK, JobOK, PipelineInv
  <2>7. page' \in [Versions -> Commits] /\ PageFollowsTag'
    BY <1>0, <2>1, <2>2 DEF PipelineInv, PageFollowsTag
  <2> QED
    BY <1>0, <1>1, <2>1, <2>5, <2>6, <2>7 DEF PipelineInv, VariablesTyped
<1> QED
  BY <1>2, <1>3, <1>4, <1>5 DEF PipelineStep

LEMMA NextKeepsInv == PipelineInv /\ [PipelineNext]_releaseVars => PipelineInv'
<1> SUFFICES ASSUME PipelineInv, [PipelineNext]_releaseVars PROVE PipelineInv'
  OBVIOUS
<1>0. /\ main \in Seq(Versions) /\ Len(main) \in Nat /\ Len(main) <= MaxPushes
      /\ tags \in [Versions -> Commits] /\ jobs \in Seq(Job)
      /\ Tagged \in SUBSET Versions /\ \A t \in Tagged : tags[t] \in 1..MaxPushes
  BY PipelineAssumption DEF PipelineInv, VariablesTyped, Tagged, Commits
<1>1. ASSUME NEW v \in Versions, Push(v) PROVE PipelineInv'
  <2>1. main' \in Seq(Versions) /\ Len(main') <= MaxPushes /\ Len(main) + 1 \in 1..MaxPushes
    BY <1>0, <1>1, PipelineAssumption DEF Push
  <2>2. UNCHANGED <<tags, images, page, faults>>
    BY <1>1 DEF Push
  <2>3. CASE UNCHANGED jobs
    BY <2>1, <2>2, <2>3 DEF PipelineInv, VariablesTyped, JobsOK, JobOK, PageFollowsTag
  <2>4. CASE Begin("release", Len(main) + 1, v, Tagged)
    <3>1. jobs' \in Seq(Job) /\ Len(jobs') <= MaxJobs /\ JobsOK' /\ PageFollowsTag'
      BY <1>0, <2>1, <2>2, <2>4, BeginKeepsJobs
    <3> QED
      BY <2>1, <2>2, <3>1 DEF PipelineInv, VariablesTyped
  <2> QED
    BY <1>1, <2>3, <2>4 DEF Push
<1>2. ASSUME NEW v \in Versions, Republish(v) PROVE PipelineInv'
  <2>1. PICK c \in 1..MaxPushes, ts \in SUBSET Versions : Begin("republish", c, v, ts)
    <3>1. CASE main # <<>> /\ Begin("republish", Len(main), v, {})
      <4>1. Len(main) \in 1..MaxPushes
        BY <1>0, <3>1, PipelineAssumption
      <4> QED
        BY <3>1, <4>1
    <3>2. CASE \E t \in Tagged : Begin("republish", tags[t], v, {t})
      BY <1>0, <3>2
    <3> QED
      BY <1>2, <3>1, <3>2 DEF Republish
  <2>2. UNCHANGED <<main, tags, images, page, faults>>
    BY <1>2 DEF Republish
  <2>3. jobs' \in Seq(Job) /\ Len(jobs') <= MaxJobs /\ JobsOK' /\ PageFollowsTag'
    BY <2>1, <2>2, BeginKeepsJobs
  <2> QED
    BY <2>2, <2>3 DEF PipelineInv, VariablesTyped
<1>3. ASSUME NEW n \in DOMAIN jobs, Rerun(n) PROVE PipelineInv'
  <2>1. jobs[n] \in Job
    BY <1>0
  <2>2. /\ jobs[n].commit \in 1..MaxPushes /\ jobs[n].version \in Versions
        /\ jobs[n].workflow \in {"release", "republish"} /\ jobs[n].tags \in SUBSET Versions
    BY <2>1 DEF Job
  <2>3. UNCHANGED <<main, tags, images, page, faults>>
        /\ \E ts \in SUBSET Versions : Begin(jobs[n].workflow, jobs[n].commit, jobs[n].version, ts)
    BY <1>0, <1>3, <2>2 DEF Rerun
  <2>4. jobs' \in Seq(Job) /\ Len(jobs') <= MaxJobs /\ JobsOK' /\ PageFollowsTag'
    BY <2>2, <2>3, BeginKeepsJobs
  <2> QED
    BY <2>3, <2>4 DEF PipelineInv, VariablesTyped
<1>4. CASE UNCHANGED releaseVars
  BY <1>4 DEF releaseVars, PipelineInv, VariablesTyped, JobsOK, JobOK, PageFollowsTag
<1> QED
  BY <1>1, <1>2, <1>3, <1>4, RunStepKeepsInv DEF PipelineNext

LEMMA PipelineInvariance == PipelineSpec => []PipelineInv
<1>1. PipelineInit => PipelineInv
  BY PipelineAssumption
  DEF PipelineInit, PipelineInv, VariablesTyped, JobsOK, PageFollowsTag, Commits
<1> QED
  BY <1>1, NextKeepsInv, PTL DEF PipelineSpec

(***************************************************************************)
(* Whatever runs overlap, fail or are repeated, a version's GitHub release *)
(* is of the commit of its tag (release.yml, republish.yml).               *)
(***************************************************************************)
THEOREM PageAlwaysFollowsTag == PipelineSpec => []PageFollowsTag
<1>1. PipelineInv => PageFollowsTag
  BY DEF PipelineInv
<1> QED
  BY <1>1, PipelineInvariance, PTL

-----------------------------------------------------------------------------
(***************************************************************************)
(* The images.  The step of release.yml that pushes each of them; an image *)
(* that is there stays there, so a release is complete when it is made.    *)
(***************************************************************************)
PushedAt == [operator |-> 2, bundle |-> 4, index |-> 5]

HasPushed(j, i) == j.workflow = "release" /\ j.step > PushedAt[i]

ImagesThere ==
  \A n \in DOMAIN jobs : \A i \in Images :
    HasPushed(jobs[n], i) => images[i][jobs[n].version] # 0

CompleteInv == ImagesThere /\ PublishedIsComplete

(***************************************************************************)
(* Of a version whose runs do not overlap: the one that is under way finds *)
(* the images it has pushed itself, and has seen the tag if there is one.  *)
(* A republication that gets past its first step is of the tag's commit.   *)
(***************************************************************************)
Uncrowded(v) == \A n \in DOMAIN jobs : jobs[n].version = v => ~jobs[n].crowded

Alone(v) ==
  \A m, n \in DOMAIN jobs :
    Running(jobs[m]) /\ Running(jobs[n]) /\ jobs[m].version = v /\ jobs[n].version = v => m = n

OwnImages(j) == \A i \in Images : HasPushed(j, i) => images[i][j.version] = j.commit

TagSeen(j) ==
  j.workflow = "release" =>
    /\ j.step = 1 /\ tags[j.version] # 0 => j.version \in j.tags
    /\ j.step \in 2..7 => tags[j.version] = 0

OfTheTag(j) ==
  j.workflow # "release" =>
    /\ j.version \in j.tags => tags[j.version] = j.commit
    /\ j.step >= 2 => j.version \in j.tags

ImagesOfTag(v) == tags[v] # 0 => \A i \in Images : images[i][v] = tags[v]

RunsOf(v) == {n \in DOMAIN jobs : Running(jobs[n]) /\ jobs[n].version = v}

VersionOK(v) ==
  /\ Alone(v) /\ ImagesOfTag(v)
  /\ \A n \in RunsOf(v) : OwnImages(jobs[n]) /\ TagSeen(jobs[n])

FollowInv ==
  /\ \A n \in DOMAIN jobs : OfTheTag(jobs[n])
  /\ \A v \in Versions : Uncrowded(v) => VersionOK(v)
-----------------------------------------------------------------------------
(* At which numbers of its list a run pushes an image. *)
LEMMA ReleasePushes ==
  ASSUME NEW n \in DOMAIN jobs, jobs[n] \in Job, jobs[n].workflow = "release", NEW s, At(n, s)
  PROVE  /\ jobs[n].step \in 1..8
         /\ (s = "validate") <=> (jobs[n].step = 1)
         /\ (s = "operator") <=> (jobs[n].step = 2)
         /\ (s = "bundle") <=> (jobs[n].step = 4)
         /\ (s = "index") <=> (jobs[n].step = 5)
         /\ (s = "tag") <=> (jobs[n].step = 7)
         /\ (s = "page") <=> (jobs[n].step = 8)
<1>1. jobs[n].step \in 1..8 /\ ReleaseSteps[jobs[n].step] = s
  BY StepNumbers DEF At, Running
<1>2. \/ jobs[n].step = 1 \/ jobs[n].step = 2 \/ jobs[n].step = 3 \/ jobs[n].step = 4
      \/ jobs[n].step = 5 \/ jobs[n].step = 6 \/ jobs[n].step = 7 \/ jobs[n].step = 8
  BY <1>1
<1> QED
  BY <1>1, <1>2, StepLists

LEMMA RepublishPushes ==
  ASSUME NEW n \in DOMAIN jobs, jobs[n] \in Job, JobOK(jobs[n]),
         jobs[n].workflow # "release", NEW s, At(n, s)
  PROVE  /\ jobs[n].step \in 1..3
         /\ (s = "validate") <=> (jobs[n].step = 1)
         /\ (s = "operator") <=> (jobs[n].step = 2)
         /\ s # "index" /\ s # "tag" /\ s # "page"
<1>1. jobs[n].step \in 1..3 /\ RepublishSteps[jobs[n].step] = s
  <2>1. jobs[n].step <= 3
    BY DEF JobOK
  <2>2. jobs[n].step \in 1..6 /\ RepublishSteps[jobs[n].step] = s
    BY StepNumbers DEF At, Running
  <2> QED
    BY <2>1, <2>2
<1>2. ASSUME NEW i \in 1..3
      PROVE  /\ (RepublishSteps[i] = "validate") <=> (i = 1)
             /\ (RepublishSteps[i] = "operator") <=> (i = 2)
             /\ RepublishSteps[i] # "index" /\ RepublishSteps[i] # "tag" /\ RepublishSteps[i] # "page"
  <2>1. i = 1 \/ i = 2 \/ i = 3
    OBVIOUS
  <2> QED
    BY <2>1, StepLists
<1> QED
  BY <1>1, <1>2

(* A step of a run changes its own record: it fails where it is, or is one *)
(* step further.                                                           *)
Moved(j, k) ==
  /\ k.workflow = j.workflow /\ k.version = j.version /\ k.commit = j.commit
  /\ k.tags = j.tags /\ (k.crowded <=> j.crowded)
  /\ \/ k.failed /\ k.step = j.step
     \/ ~k.failed /\ k.step = j.step + 1

LEMMA RunMoves ==
  ASSUME PipelineInv, NEW n \in DOMAIN jobs, PipelineStep(n) \/ StepFails(n)
  PROVE  /\ Running(jobs[n]) /\ jobs[n] \in Job /\ JobOK(jobs[n])
         /\ DOMAIN jobs' = DOMAIN jobs /\ jobs'[n] \in Job /\ Moved(jobs[n], jobs'[n])
         /\ \A m \in DOMAIN jobs : m # n => jobs'[m] = jobs[m]
<1>1. Running(jobs[n]) /\ jobs[n] \in Job /\ JobOK(jobs[n]) /\ jobs \in Seq(Job)
  <2>1. jobs[n] \in Job /\ JobOK(jobs[n]) /\ jobs \in Seq(Job)
    BY DEF PipelineInv, VariablesTyped, JobsOK
  <2> QED
    BY <2>1 DEF PipelineStep, Validate, BuildOperator, GenerateBundle, BuildBundle, BuildIndex,
        Manifests, TagCommit, Publish, StepFails, At
<1>2. jobs[n].step \in 1..8 /\ ~jobs[n].failed
  BY <1>1, StepNumbers DEF Running
<1>3. PICK k : /\ jobs' = [jobs EXCEPT ![n] = k]
               /\ \/ k = [jobs[n] EXCEPT !.step = @ + 1]
                  \/ k = [jobs[n] EXCEPT !.step = @ + 1, !.bundle = TRUE]
                  \/ k = [jobs[n] EXCEPT !.failed = TRUE]
  <2>1. GenerateBundle(n) => jobs' = [jobs EXCEPT ![n] = [jobs[n] EXCEPT !.step = @ + 1, !.bundle = TRUE]]
    BY <1>1 DEF GenerateBundle, Job
  <2>2. Pass(n) => jobs' = [jobs EXCEPT ![n] = [jobs[n] EXCEPT !.step = @ + 1]]
    BY DEF Pass
  <2>3. FailJob(n) => jobs' = [jobs EXCEPT ![n] = [jobs[n] EXCEPT !.failed = TRUE]]
    BY DEF FailJob
  <2>4. GenerateBundle(n) \/ Pass(n) \/ FailJob(n)
    BY DEF PipelineStep, Validate, BuildOperator, BuildBundle, BuildIndex, Manifests, TagCommit,
       Publish, StepFails
  <2> QED
    BY <2>1, <2>2, <2>3, <2>4
<1>4. k \in Job
  BY <1>1, <1>2, <1>3, StepPassed, BundlePassed, StepFailed
<1>5. Moved(jobs[n], k)
  <2>1. CASE k = [jobs[n] EXCEPT !.step = @ + 1]
    BY <1>1, <1>2, <2>1 DEF Job, Moved
  <2>2. CASE k = [jobs[n] EXCEPT !.step = @ + 1, !.bundle = TRUE]
    BY <1>1, <1>2, <2>2 DEF Job, Moved
  <2>3. CASE k = [jobs[n] EXCEPT !.failed = TRUE]
    BY <1>1, <1>2, <2>3 DEF Job, Moved
  <2> QED
    BY <1>3, <2>1, <2>2, <2>3
<1>6. DOMAIN jobs' = DOMAIN jobs /\ jobs'[n] = k /\ \A m \in DOMAIN jobs : m # n => jobs'[m] = jobs[m]
  BY <1>1, <1>3
<1> QED
  BY <1>1, <1>4, <1>5, <1>6

(* What a run's step leaves in the registry: an image it has just pushed,  *)
(* of its own commit or, for the index, of that of the bundle's.           *)
LEMMA RunPushes ==
  ASSUME PipelineInv, NEW n \in DOMAIN jobs, PipelineStep(n) \/ StepFails(n)
  PROVE  \/ /\ images' = images
            /\ jobs'[n].failed \/ \A i \in Images : ~(jobs[n].workflow = "release"
                                                      /\ jobs[n].step = PushedAt[i])
         \/ \E i \in Images : \E c \in Commits :
              /\ \A h \in Images : \A v \in Versions :
                   images'[h][v] = IF h = i /\ v = jobs[n].version THEN c ELSE images[h][v]
              /\ c = IF i = "index" THEN images["bundle"][jobs[n].version] ELSE jobs[n].commit
              /\ jobs[n].workflow = "release" => jobs[n].step = PushedAt[i]
              /\ jobs[n].workflow # "release" => i = "operator" /\ jobs[n].step = 2
              /\ UNCHANGED <<tags, page>>
<1>0. /\ Running(jobs[n]) /\ jobs[n] \in Job /\ JobOK(jobs[n])
      /\ jobs'[n] \in Job /\ Moved(jobs[n], jobs'[n]) /\ jobs \in Seq(Job)
      /\ jobs[n].version \in Versions /\ jobs[n].commit \in Commits
  <2>1. Running(jobs[n]) /\ jobs[n] \in Job /\ JobOK(jobs[n]) /\ jobs'[n] \in Job
        /\ Moved(jobs[n], jobs'[n]) /\ jobs \in Seq(Job)
    BY RunMoves DEF PipelineInv, VariablesTyped
  <2>2. jobs[n].version \in Versions /\ jobs[n].commit \in 1..MaxPushes
    BY <2>1 DEF Job
  <2> QED
    BY <2>1, <2>2, PipelineAssumption DEF Commits
<1>1. ASSUME NEW i \in Images, NEW c \in Commits, Store(n, i, c)
      PROVE  \A h \in Images : \A v \in Versions :
               images'[h][v] = IF h = i /\ v = jobs[n].version THEN c ELSE images[h][v]
  BY <1>0, <1>1 DEF Store, PipelineInv, VariablesTyped
<1>2. CASE BuildOperator(n)
  <2>1. At(n, "operator") /\ Store(n, "operator", jobs[n].commit) /\ UNCHANGED <<tags, page>>
    BY <1>2 DEF BuildOperator
  <2>2. jobs[n].step = 2
    BY <1>0, <2>1, ReleasePushes, RepublishPushes
  <2> QED
    BY <1>0, <1>1, <2>1, <2>2 DEF Images, PushedAt
<1>3. CASE BuildBundle(n) /\ jobs[n].bundle
  <2>1. At(n, "bundle") /\ Store(n, "bundle", jobs[n].commit) /\ UNCHANGED <<tags, page>>
    BY <1>3 DEF BuildBundle
  <2>2. jobs[n].workflow = "release"
    BY <1>0, <1>3 DEF JobOK
  <2>3. jobs[n].step = 4
    BY <1>0, <2>1, <2>2, ReleasePushes
  <2> QED
    BY <1>0, <1>1, <2>1, <2>2, <2>3 DEF Images, PushedAt
<1>4. CASE BuildIndex(n)
  <2>1. /\ At(n, "index") /\ Store(n, "index", images["bundle"][jobs[n].version])
        /\ UNCHANGED <<tags, page>>
    BY <1>4 DEF BuildIndex
  <2>2. jobs[n].workflow = "release"
    BY <1>0, <2>1, RepublishPushes
  <2>3. jobs[n].step = 5
    BY <1>0, <2>1, <2>2, ReleasePushes
  <2>4. images["bundle"][jobs[n].version] \in Commits
    BY <1>0 DEF PipelineInv, VariablesTyped, Images
  <2> QED
    BY <1>0, <1>1, <2>1, <2>2, <2>3, <2>4 DEF Images, PushedAt
<1>5. CASE StepFails(n) \/ (BuildBundle(n) /\ ~jobs[n].bundle)
  <2>1. FailJob(n) /\ images' = images
    BY <1>5 DEF StepFails, BuildBundle
  <2>2. jobs'[n].failed
    BY <1>0, <2>1 DEF FailJob, Job
  <2> QED
    BY <2>1, <2>2
<1>6. CASE Validate(n) \/ GenerateBundle(n) \/ Manifests(n) \/ TagCommit(n) \/ Publish(n)
  <2>1. /\ images' = images
        /\ \E s \in {"validate", "generate bundle", "manifests", "tag", "page"} : At(n, s)
    BY <1>6 DEF Validate, GenerateBundle, Manifests, TagCommit, Publish
  <2>2. jobs[n].workflow = "release" => jobs[n].step \notin {2, 4, 5}
    BY <1>0, <2>1, ReleasePushes
  <2>3. \A i \in Images : PushedAt[i] \in {2, 4, 5}
    BY DEF Images, PushedAt
  <2> QED
    BY <2>1, <2>2, <2>3
<1> QED
  BY <1>2, <1>3, <1>4, <1>5, <1>6 DEF PipelineStep
(* What a run's step does to the tags. *)
LEMMA RunTags ==
  ASSUME PipelineInv, NEW n \in DOMAIN jobs, PipelineStep(n) \/ StepFails(n)
  PROVE  \/ tags' = tags
         \/ /\ jobs[n].workflow = "release" /\ jobs[n].step = 7 /\ images' = images
            /\ tags[jobs[n].version] \in {0, jobs[n].commit}
            /\ \A v \in Versions :
                 tags'[v] = IF v = jobs[n].version THEN jobs[n].commit ELSE tags[v]
<1>1. CASE TagCommit(n) /\ tags' # tags
  <2>1. /\ At(n, "tag") /\ images' = images /\ tags[jobs[n].version] \in {0, jobs[n].commit}
        /\ tags' = [tags EXCEPT ![jobs[n].version] = jobs[n].commit]
    BY <1>1 DEF TagCommit
  <2>2. jobs[n] \in Job /\ JobOK(jobs[n])
    BY RunMoves
  <2>3. jobs[n].workflow = "release" /\ jobs[n].step = 7
    BY <2>1, <2>2, ReleasePushes, RepublishPushes
  <2> QED
    BY <2>1, <2>3 DEF PipelineInv, VariablesTyped
<1>2. CASE ~TagCommit(n)
  BY <1>2 DEF PipelineStep, Validate, BuildOperator, GenerateBundle, BuildBundle, BuildIndex,
      Manifests, Publish, StepFails
<1> QED
  BY <1>1, <1>2

(* Only a version that is valid gets past the first step. *)
LEMMA FirstStep ==
  ASSUME PipelineInv, NEW n \in DOMAIN jobs, PipelineStep(n) \/ StepFails(n),
         jobs[n].step = 1, ~jobs'[n].failed
  PROVE  Valid(jobs[n])
<1>0. jobs[n] \in Job /\ JobOK(jobs[n]) /\ jobs \in Seq(Job)
  BY RunMoves DEF PipelineInv, VariablesTyped
<1>1. ~FailJob(n)
  BY <1>0 DEF FailJob, Job
<1>2. \A s : At(n, s) => s = "validate"
  <2>1. CASE jobs[n].workflow = "release"
    BY <1>0, <2>1, StepLists DEF At, StepsOf
  <2>2. CASE jobs[n].workflow # "release"
    BY <1>0, <2>2, StepLists DEF At, StepsOf
  <2> QED
    BY <2>1, <2>2
<1>3. Validate(n)
  BY <1>1, <1>2 DEF PipelineStep, BuildOperator, GenerateBundle, BuildBundle, BuildIndex,
     Manifests, TagCommit, Publish, StepFails
<1> QED
  BY <1>1, <1>3 DEF Validate

(* Every image that was there still is, and the one just pushed is too. *)
LEMMA RunKeepsComplete ==
  ASSUME PipelineInv, CompleteInv, NEW n \in DOMAIN jobs, PipelineStep(n) \/ StepFails(n)
  PROVE  CompleteInv'
<1>0. /\ jobs[n] \in Job /\ JobOK(jobs[n]) /\ jobs'[n] \in Job /\ Moved(jobs[n], jobs'[n])
      /\ DOMAIN jobs' = DOMAIN jobs /\ \A m \in DOMAIN jobs : m # n => jobs'[m] = jobs[m]
      /\ jobs[n].version \in Versions /\ jobs[n].commit # 0 /\ jobs[n].step \in Nat
      /\ \A m \in DOMAIN jobs : jobs[m] \in Job /\ jobs[m].version \in Versions
  <2>1. \A j \in Job : j.version \in Versions /\ j.commit # 0 /\ j.step \in Nat
    BY DEF Job
  <2> QED
    BY <2>1, RunMoves DEF PipelineInv, VariablesTyped
<1>1. \A i, h \in Images : PushedAt[i] \in Nat /\ (PushedAt[i] = PushedAt[h] => i = h)
  BY DEF Images, PushedAt
<1>2. "bundle" \in Images /\ PushedAt["bundle"] = 4 /\ PushedAt["index"] = 5
  BY DEF Images, PushedAt
<1>3. jobs[n].step = 5 /\ jobs[n].workflow = "release" => images["bundle"][jobs[n].version] # 0
  BY <1>2 DEF CompleteInv, ImagesThere, HasPushed
<1>4. \A i \in Images : \A v \in Versions : images[i][v] # 0 => images'[i][v] # 0
  BY <1>0, <1>2, <1>3, RunPushes
<1>5. ASSUME NEW i \in Images, HasPushed(jobs'[n], i)
      PROVE  images'[i][jobs[n].version] # 0
  <2>1. CASE HasPushed(jobs[n], i)
    BY <1>0, <1>4, <2>1 DEF CompleteInv, ImagesThere
  <2>2. CASE ~HasPushed(jobs[n], i)
    <3>1. jobs[n].workflow = "release" /\ jobs[n].step = PushedAt[i] /\ ~jobs'[n].failed
      BY <1>0, <1>1, <1>5, <2>2 DEF HasPushed, Moved
    <3> QED
      BY <1>0, <1>1, <1>2, <1>3, <3>1, RunPushes
  <2> QED
    BY <2>1, <2>2
<1>6. ImagesThere'
  <2> SUFFICES ASSUME NEW m \in DOMAIN jobs, NEW i \in Images, HasPushed(jobs'[m], i)
               PROVE  images'[i][jobs'[m].version] # 0
    BY <1>0 DEF ImagesThere, HasPushed
  <2>1. CASE m = n
    BY <1>0, <1>5, <2>1 DEF Moved
  <2>2. CASE m # n
    BY <1>0, <1>4, <2>2 DEF CompleteInv, ImagesThere
  <2> QED
    BY <2>1, <2>2
<1>7. PublishedIsComplete'
  <2> SUFFICES ASSUME NEW v \in Versions, page'[v] # 0
               PROVE  tags'[v] # 0 /\ \A i \in Images : images'[i][v] # 0
    BY DEF PublishedIsComplete
  <2>1. tags'[v] # 0
    BY RunStepKeepsInv DEF PipelineInv, PageFollowsTag
  <2>2. CASE page' = page
    BY <1>4, <2>1, <2>2 DEF CompleteInv, PublishedIsComplete
  <2>3. CASE Publish(n) /\ v = jobs[n].version
    <3>1. At(n, "page")
      BY <2>3 DEF Publish
    <3>2. jobs[n].workflow = "release" /\ jobs[n].step = 8
      BY <1>0, <3>1, ReleasePushes, RepublishPushes
    <3>3. \A i \in Images : HasPushed(jobs[n], i)
      BY <3>2 DEF HasPushed, Images, PushedAt
    <3> QED
      BY <1>4, <2>1, <2>3, <3>3 DEF CompleteInv, ImagesThere
  <2>4. CASE Publish(n) /\ v # jobs[n].version
    <3>1. page'[v] = page[v]
      BY <2>4 DEF Publish, PipelineInv, VariablesTyped
    <3> QED
      BY <1>4, <2>1, <3>1 DEF CompleteInv, PublishedIsComplete
  <2> QED
    BY <2>2, <2>3, <2>4
    DEF PipelineStep, Validate, BuildOperator, GenerateBundle, BuildBundle, BuildIndex,
        Manifests, TagCommit, StepFails
<1> QED
  BY <1>6, <1>7 DEF CompleteInv
(* A run of a version that nobody else runs keeps its images to the tag's. *)
LEMMA RunKeepsVersion ==
  ASSUME PipelineInv, \A m \in DOMAIN jobs : OfTheTag(jobs[m]), NEW n \in DOMAIN jobs,
         PipelineStep(n) \/ StepFails(n), NEW v, v = jobs[n].version, VersionOK(v)
  PROVE  VersionOK(v)'
<1> DEFINE c == jobs[n].commit
<1>0. /\ Running(jobs[n]) /\ jobs[n] \in Job /\ JobOK(jobs[n]) /\ Moved(jobs[n], jobs'[n])
      /\ DOMAIN jobs' = DOMAIN jobs /\ \A m \in DOMAIN jobs : m # n => jobs'[m] = jobs[m]
      /\ v \in Versions /\ jobs'[n].version = v /\ jobs[n].step \in 1..9
      /\ OfTheTag(jobs[n])
  <2>1. \A j \in Job : j.version \in Versions /\ j.step \in 1..9
    BY DEF Job
  <2> QED
    BY <2>1, RunMoves DEF Moved
<1>1. \A i, h \in Images : PushedAt[i] \in {2, 4, 5} /\ (PushedAt[i] = PushedAt[h] => i = h)
  BY DEF Images, PushedAt
<1>2. n \in RunsOf(v) /\ OwnImages(jobs[n]) /\ TagSeen(jobs[n]) /\ ImagesOfTag(v)
  BY <1>0 DEF RunsOf, VersionOK
<1>3. RunsOf(v)' \subseteq {n}
  <2> SUFFICES ASSUME NEW m \in DOMAIN jobs, m # n, Running(jobs'[m]), jobs'[m].version = v
               PROVE  FALSE
    BY <1>0 DEF RunsOf, Running, StepsOf, ReleaseSteps, RepublishSteps
  <2> QED
    BY <1>0 DEF VersionOK, Alone
<1> HIDE DEF c
<1>4. Alone(v)'
  BY <1>0, <1>3 DEF Alone, RunsOf
<1>5. CASE jobs[n].workflow # "release"
  <2>1. tags' = tags
    BY <1>5, RunTags
  <2>2. ImagesOfTag(v)'
    <3> SUFFICES ASSUME tags[v] # 0, NEW i \in Images PROVE images'[i][v] = tags[v]
      BY <2>1 DEF ImagesOfTag
    <3>1. images[i][v] = tags[v]
      BY <1>2 DEF ImagesOfTag
    <3>2. jobs[n].step = 2 => tags[v] = c
      BY <1>0, <1>5 DEF OfTheTag, c
    <3> QED
      BY <1>0, <1>5, <3>1, <3>2, RunPushes DEF c
  <2>3. OwnImages(jobs[n])' /\ TagSeen(jobs[n])'
    BY <1>0, <1>5 DEF OwnImages, TagSeen, HasPushed, Moved
  <2> QED
    BY <1>3, <1>4, <2>2, <2>3 DEF VersionOK, RunsOf, OwnImages, TagSeen
<1>6. CASE jobs[n].workflow = "release"
  <2>1. ASSUME ~jobs'[n].failed, NEW i \in Images, HasPushed(jobs'[n], i)
        PROVE  images'[i][v] = c
    <3>1. CASE HasPushed(jobs[n], i)
      <4>1. images[i][v] = c /\ jobs[n].step # PushedAt[i]
        BY <1>0, <1>1, <1>2, <3>1 DEF OwnImages, HasPushed, c
      <4> QED
        BY <1>0, <1>6, <4>1, RunPushes
    <3>2. CASE ~HasPushed(jobs[n], i)
      <4>1. jobs[n].step = PushedAt[i]
        BY <1>0, <1>1, <1>6, <2>1, <3>2 DEF HasPushed, Moved
      <4>2. i = "index" => images["bundle"][v] = c
        BY <1>2, <1>6, <4>1 DEF OwnImages, HasPushed, PushedAt, Images, c
      <4> QED
        BY <1>0, <1>1, <1>6, <2>1, <4>1, <4>2, RunPushes DEF c
    <3> QED
      BY <3>1, <3>2
  <2>2. Running(jobs'[n]) => OwnImages(jobs[n])'
    BY <1>0, <2>1 DEF OwnImages, Running, Moved, c
  <2>3. ~jobs'[n].failed => TagSeen(jobs[n])'
    <3> SUFFICES ASSUME ~jobs'[n].failed, jobs'[n].step \in 2..7 PROVE tags'[v] = 0
      BY <1>0 DEF TagSeen, Moved
    <3>1. jobs[n].step \in 1..6
      BY <1>0 DEF Moved
    <3>2. jobs[n].step = 1 => v \notin jobs[n].tags
      BY <1>6, FirstStep DEF Valid
    <3>3. tags[v] = 0
      BY <1>2, <1>6, <3>1, <3>2 DEF TagSeen
    <3> QED
      BY <3>1, <3>3, RunTags
  <2>4. ImagesOfTag(v)'
    <3> SUFFICES ASSUME tags'[v] # 0, NEW i \in Images PROVE images'[i][v] = tags'[v]
      BY DEF ImagesOfTag
    <3>1. CASE tags' = tags
      <4>1. jobs[n].step \notin 2..7
        BY <1>2, <1>6, <3>1 DEF TagSeen
      <4>2. images'[i][v] = images[i][v]
        BY <1>1, <1>6, <4>1, RunPushes
      <4> QED
        BY <1>2, <3>1, <4>2 DEF ImagesOfTag
    <3>2. CASE tags' # tags
      <4>1. jobs[n].step = 7 /\ images' = images /\ tags'[v] = c
        BY <1>0, <3>2, RunTags DEF c
      <4>2. HasPushed(jobs[n], i)
        BY <1>1, <1>6, <4>1 DEF HasPushed
      <4> QED
        BY <1>2, <4>1, <4>2 DEF OwnImages, c
    <3> QED
      BY <3>1, <3>2
  <2> QED
    BY <1>3, <1>4, <2>2, <2>3, <2>4 DEF VersionOK, RunsOf, Running
<1> QED
  BY <1>5, <1>6

LEMMA RunKeepsFollow ==
  ASSUME PipelineInv, FollowInv, NEW n \in DOMAIN jobs, PipelineStep(n) \/ StepFails(n)
  PROVE  FollowInv'
<1>0. /\ jobs[n] \in Job /\ Moved(jobs[n], jobs'[n])
      /\ DOMAIN jobs' = DOMAIN jobs /\ \A m \in DOMAIN jobs : m # n => jobs'[m] = jobs[m]
      /\ \A m \in DOMAIN jobs : jobs[m].version \in Versions /\ jobs[m].commit # 0
      /\ jobs[n].step \in 1..9
  <2>1. \A j \in Job : j.version \in Versions /\ j.commit # 0 /\ j.step \in 1..9
    BY DEF Job
  <2> QED
    BY <2>1, RunMoves DEF PipelineInv, VariablesTyped
<1>1. \A v \in Versions : tags[v] # 0 => tags'[v] = tags[v]
  BY RunTags
<1>2. ASSUME NEW m \in DOMAIN jobs PROVE OfTheTag(jobs[m])'
  <2>0. OfTheTag(jobs[m])
    BY DEF FollowInv
  <2>1. CASE m # n
    BY <1>0, <1>1, <2>0, <2>1 DEF OfTheTag
  <2>2. CASE m = n /\ jobs[n].workflow # "release"
    <3>1. jobs'[n].step >= 2 => jobs[n].version \in jobs[n].tags
      <4>1. CASE jobs'[n].failed \/ jobs[n].step >= 2
        BY <1>0, <2>0, <2>2, <4>1 DEF OfTheTag, Moved
      <4>2. CASE ~jobs'[n].failed /\ jobs[n].step = 1
        BY <2>2, <4>2, FirstStep DEF Valid
      <4> QED
        BY <1>0, <4>1, <4>2
    <3> QED
      BY <1>0, <1>1, <2>0, <2>2, <3>1 DEF OfTheTag, Moved
  <2>3. CASE m = n /\ jobs[n].workflow = "release"
    BY <1>0, <2>3 DEF OfTheTag, Moved
  <2> QED
    BY <2>1, <2>2, <2>3
<1>3. ASSUME NEW v \in Versions, Uncrowded(v)' PROVE VersionOK(v)'
  <2>1. Uncrowded(v)
    <3> SUFFICES ASSUME NEW m \in DOMAIN jobs, jobs[m].version = v PROVE ~jobs[m].crowded
      BY DEF Uncrowded
    <3> QED
      BY <1>0, <1>3 DEF Uncrowded, Moved
  <2>2. VersionOK(v) /\ \A m \in DOMAIN jobs : OfTheTag(jobs[m])
    BY <2>1 DEF FollowInv
  <2>3. CASE v = jobs[n].version
    BY <2>2, <2>3, RunKeepsVersion
  <2>4. CASE v # jobs[n].version
    <3>1. tags'[v] = tags[v] /\ \A i \in Images : images'[i][v] = images[i][v]
      BY <2>4, RunTags, RunPushes
    <3>2. RunsOf(v)' = RunsOf(v) /\ \A m \in RunsOf(v) : jobs'[m] = jobs[m] /\ jobs[m].version = v
      BY <1>0, <2>4 DEF RunsOf, Moved, Running, StepsOf, ReleaseSteps, RepublishSteps
    <3>3. Alone(v)'
      BY <2>2, <3>2 DEF VersionOK, Alone, RunsOf
    <3>4. ImagesOfTag(v)'
      BY <2>2, <3>1 DEF VersionOK, ImagesOfTag
    <3>5. ASSUME NEW m \in RunsOf(v) PROVE OwnImages(jobs[m])' /\ TagSeen(jobs[m])'
      BY <2>2, <3>1, <3>2 DEF VersionOK, OwnImages, TagSeen, HasPushed
    <3> QED
      BY <3>2, <3>3, <3>4, <3>5 DEF VersionOK
  <2> QED
    BY <2>3, <2>4
<1> QED
  BY <1>0, <1>2, <1>3 DEF FollowInv
-----------------------------------------------------------------------------
(* A run that begins has pushed nothing, and, if it is a release, has seen *)
(* every tag there is.                                                     *)
LEMMA BeginKeepsImages ==
  ASSUME PipelineInv, CompleteInv, FollowInv,
         NEW w \in {"release", "republish"}, NEW c \in 1..MaxPushes, NEW v \in Versions,
         NEW ts \in SUBSET Versions, Begin(w, c, v, ts), UNCHANGED <<tags, images, page>>,
         w = "release" => ts = Tagged,
         w # "release" /\ v \in ts => tags[v] = c
  PROVE  CompleteInv' /\ FollowInv'
<1> DEFINE j == [workflow |-> w, commit |-> c, version |-> v, tags |-> ts,
                 crowded |-> Crowded(v), bundle |-> FALSE, step |-> 1, failed |-> FALSE]
<1> PICK last : last = Len(jobs) + 1
  OBVIOUS
<1>0. jobs \in Seq(Job) /\ Len(jobs) \in Nat /\ jobs' = Append(jobs, j) /\ DOMAIN jobs = 1..Len(jobs)
  BY DEF Begin, PipelineInv, VariablesTyped
<1>1. /\ j.workflow = w /\ j.commit = c /\ j.version = v /\ j.tags = ts /\ j.step = 1
      /\ (j.crowded <=> Crowded(v))
  OBVIOUS
<1> HIDE DEF j
<1>2. /\ DOMAIN jobs' = DOMAIN jobs \cup {last} /\ last \notin DOMAIN jobs
      /\ jobs'[last] = j /\ \A m \in DOMAIN jobs : jobs'[m] = jobs[m]
  BY <1>0
<1>3. \A i \in Images : ~HasPushed(j, i)
  BY <1>1 DEF HasPushed, Images, PushedAt
<1>4. CompleteInv'
  BY <1>2, <1>3 DEF CompleteInv, ImagesThere, HasPushed, PublishedIsComplete
<1>5. \A n \in DOMAIN jobs' : OfTheTag(jobs'[n])
  BY <1>1, <1>2 DEF FollowInv, OfTheTag
<1>6. ASSUME NEW u \in Versions, Uncrowded(u)' PROVE VersionOK(u)'
  <2>1. Uncrowded(u) /\ VersionOK(u) /\ (u = v => ~j.crowded)
    BY <1>1, <1>2, <1>6 DEF Uncrowded, FollowInv
  <2>2. ImagesOfTag(u)'
    BY <2>1 DEF VersionOK, ImagesOfTag
  <2>3. CASE u = v
    <3>1. \A m \in DOMAIN jobs : ~(Running(jobs[m]) /\ jobs[m].version = u)
      BY <1>1, <2>1, <2>3 DEF Crowded
    <3>2. RunsOf(u)' \subseteq {last} /\ Alone(u)'
      BY <1>2, <3>1 DEF RunsOf, Alone, Running, StepsOf, ReleaseSteps, RepublishSteps
    <3>3. OwnImages(jobs[last])'
      BY <1>2, <1>3 DEF OwnImages, HasPushed
    <3>4. TagSeen(jobs[last])'
      BY <1>1, <1>2 DEF TagSeen, Tagged
    <3> QED
      BY <2>2, <3>2, <3>3, <3>4 DEF VersionOK
  <2>4. CASE u # v
    <3>1. RunsOf(u)' = RunsOf(u)
      BY <1>1, <1>2, <2>4 DEF RunsOf, Running, StepsOf, ReleaseSteps, RepublishSteps
    <3>2. \A m \in RunsOf(u) : jobs'[m] = jobs[m]
      BY <1>2 DEF RunsOf
    <3>3. Alone(u)'
      BY <2>1, <3>1, <3>2 DEF VersionOK, Alone, RunsOf
    <3>4. ASSUME NEW m \in RunsOf(u) PROVE OwnImages(jobs[m])' /\ TagSeen(jobs[m])'
      BY <2>1, <3>2 DEF VersionOK, OwnImages, TagSeen, HasPushed
    <3> QED
      BY <2>2, <3>1, <3>3, <3>4 DEF VersionOK
  <2> QED
    BY <2>3, <2>4
<1> QED
  BY <1>4, <1>5, <1>6 DEF FollowInv, OfTheTag

LEMMA NextKeepsImages ==
  ASSUME PipelineInv, CompleteInv, FollowInv, [PipelineNext]_releaseVars
  PROVE  CompleteInv' /\ FollowInv'
<1>0. /\ Len(main) \in Nat /\ (main # <<>> => Len(main) \in 1..MaxPushes)
      /\ Tagged \in SUBSET Versions /\ \A t \in Tagged : tags[t] \in 1..MaxPushes
  BY PipelineAssumption DEF PipelineInv, VariablesTyped, Tagged, Commits
<1>1. CASE UNCHANGED <<jobs, tags, images, page>>
  BY <1>1 DEF CompleteInv, ImagesThere, HasPushed, PublishedIsComplete, FollowInv, OfTheTag,
      Uncrowded, VersionOK, Alone, ImagesOfTag, RunsOf, Running, StepsOf, OwnImages, TagSeen
<1>2. ASSUME NEW v \in Versions, Push(v) PROVE CompleteInv' /\ FollowInv'
  <2>1. UNCHANGED <<tags, images, page>>
    BY <1>2 DEF Push
  <2>2. UNCHANGED jobs \/ Begin("release", Len(main) + 1, v, Tagged)
    BY <1>2 DEF Push
  <2>3. Len(main) + 1 \in 1..MaxPushes
    BY <1>0, <1>2, PipelineAssumption DEF Push
  <2> QED
    BY <1>0, <1>1, <2>1, <2>2, <2>3, BeginKeepsImages
<1>3. ASSUME NEW v \in Versions, Republish(v) PROVE CompleteInv' /\ FollowInv'
  <2>1. UNCHANGED <<tags, images, page>>
    BY <1>3 DEF Republish
  <2>2. CASE main # <<>> /\ Begin("republish", Len(main), v, {})
    BY <1>0, <2>1, <2>2, BeginKeepsImages
  <2>3. ASSUME NEW t \in Tagged, Begin("republish", tags[t], v, {t})
        PROVE  CompleteInv' /\ FollowInv'
    <3>1. tags[t] \in 1..MaxPushes /\ {t} \in SUBSET Versions /\ (v \in {t} => tags[v] = tags[t])
      BY <1>0
    <3> QED
      BY <2>1, <2>3, <3>1, BeginKeepsImages
  <2> QED
    BY <1>3, <2>2, <2>3 DEF Republish
<1>4. ASSUME NEW n \in DOMAIN jobs, Rerun(n) PROVE CompleteInv' /\ FollowInv'
  <2> DEFINE j == jobs[n]
             ts == IF j.workflow = "release" THEN Tagged ELSE j.tags
  <2>1. UNCHANGED <<tags, images, page>> /\ Begin(j.workflow, j.commit, j.version, ts)
    BY <1>4 DEF Rerun
  <2>2. jobs[n] \in Job
    BY DEF PipelineInv, VariablesTyped
  <2>3. /\ j.workflow \in {"release", "republish"} /\ j.commit \in 1..MaxPushes
        /\ j.version \in Versions /\ j.tags \in SUBSET Versions
    BY <2>2 DEF Job
  <2>4. j.workflow # "release" /\ j.version \in j.tags => tags[j.version] = j.commit
    BY DEF FollowInv, OfTheTag
  <2> QED
    BY <1>0, <2>1, <2>3, <2>4, BeginKeepsImages
<1> QED
  BY <1>1, <1>2, <1>3, <1>4, RunKeepsComplete, RunKeepsFollow DEF PipelineNext, releaseVars

LEMMA ImagesInvariance == PipelineSpec => [](PipelineInv /\ CompleteInv /\ FollowInv)
<1>1. PipelineInit => CompleteInv /\ FollowInv
  BY DEF PipelineInit, CompleteInv, ImagesThere, PublishedIsComplete, FollowInv, VersionOK,
     Alone, ImagesOfTag, RunsOf
<1>2. PipelineInv /\ (CompleteInv /\ FollowInv) /\ [PipelineNext]_releaseVars
        => (CompleteInv /\ FollowInv)'
  BY NextKeepsImages
<1> QED
  BY <1>1, <1>2, PipelineInvariance, PTL DEF PipelineSpec

-----------------------------------------------------------------------------
(***************************************************************************)
(* The versions.  A commit of a version stays one, as main only grows; a   *)
(* republication that pushes is of its version's tag (OfTheTag).           *)
(***************************************************************************)
CommitInv == PipelineTypeOK /\ ImagesOfTheirVersion

LEMMA CommitsStay ==
  ASSUME PipelineInv, [PipelineNext]_releaseVars
  PROVE  \A v : CommitsOf(v) \subseteq CommitsOf(v)'
<1>0. main \in Seq(Versions)
  BY DEF PipelineInv, VariablesTyped
<1>1. main' = main \/ \E v \in Versions : main' = Append(main, v)
  BY DEF PipelineNext, releaseVars, Push, Republish, Rerun, PipelineStep, Validate,
     BuildOperator, GenerateBundle, BuildBundle, BuildIndex, Manifests, TagCommit, Publish,
     StepFails
<1>2. DOMAIN main \subseteq DOMAIN main' /\ \A c \in DOMAIN main : main'[c] = main[c]
  BY <1>0, <1>1
<1> QED
  BY <1>2 DEF CommitsOf

LEMMA BeginKeepsCommits ==
  ASSUME PipelineInv, CommitInv, \A v \in Versions : CommitsOf(v) \subseteq CommitsOf(v)',
         NEW w, NEW c, NEW v \in Versions, NEW ts, Begin(w, c, v, ts),
         UNCHANGED <<tags, images>>, w = "release" => c \in CommitsOf(v)',
         VariablesTyped'
  PROVE  CommitInv'
<1> DEFINE j == [workflow |-> w, commit |-> c, version |-> v, tags |-> ts,
                 crowded |-> Crowded(v), bundle |-> FALSE, step |-> 1, failed |-> FALSE]
<1>1. jobs' = Append(jobs, j) /\ jobs \in Seq(Job)
  BY DEF Begin, PipelineInv, VariablesTyped
<1>2. j.workflow = w /\ j.commit = c /\ j.version = v
  OBVIOUS
<1> HIDE DEF j
<1>3. \A n \in DOMAIN jobs' : jobs'[n] = j \/ (n \in DOMAIN jobs /\ jobs'[n] = jobs[n])
  BY <1>1
<1>4. ASSUME NEW n \in DOMAIN jobs', jobs'[n].workflow = "release"
      PROVE  (jobs[n].commit \in CommitsOf(jobs[n].version))'
  <2>1. CASE jobs'[n] = j
    BY <1>2, <1>4, <2>1 DEF CommitsOf
  <2>2. CASE n \in DOMAIN jobs /\ jobs'[n] = jobs[n]
    <3>1. jobs[n] \in Job
      BY <1>1, <2>2
    <3>2. PICK u \in Versions : u = jobs[n].version
      BY <3>1 DEF Job
    <3>3. jobs[n].commit \in CommitsOf(u)'
      BY <1>4, <2>2, <3>2 DEF CommitInv, PipelineTypeOK
    <3> QED
      BY <2>2, <3>2, <3>3 DEF CommitsOf
  <2> QED
    BY <1>3, <2>1, <2>2
<1>5. (\A u \in Versions : tags[u] \in {0} \cup CommitsOf(u))' /\ ImagesOfTheirVersion'
  BY DEF CommitInv, PipelineTypeOK, ImagesOfTheirVersion
<1> QED
  BY <1>4, <1>5 DEF CommitInv, PipelineTypeOK

LEMMA RunKeepsCommits ==
  ASSUME PipelineInv, FollowInv, CommitInv, NEW n \in DOMAIN jobs,
         PipelineStep(n) \/ StepFails(n), VariablesTyped',
         \A v \in Versions : CommitsOf(v) \subseteq CommitsOf(v)'
  PROVE  CommitInv'
<1> PICK v : v = jobs[n].version
  OBVIOUS
<1>0. /\ jobs[n] \in Job /\ JobOK(jobs[n]) /\ DOMAIN jobs' = DOMAIN jobs
      /\ Moved(jobs[n], jobs'[n]) /\ \A m \in DOMAIN jobs : m # n => jobs'[m] = jobs[m]
      /\ v \in Versions /\ jobs[n].commit \in 1..MaxPushes /\ jobs \in Seq(Job)
  <2>1. jobs[n] \in Job /\ jobs \in Seq(Job)
    BY RunMoves DEF PipelineInv, VariablesTyped
  <2>2. v \in Versions /\ jobs[n].commit \in 1..MaxPushes
    BY <2>1 DEF Job
  <2> QED
    BY <2>1, <2>2, RunMoves
<1>1. ASSUME NEW m \in DOMAIN jobs', jobs'[m].workflow = "release"
      PROVE  (jobs[m].commit \in CommitsOf(jobs[m].version))'
  <2>1. /\ m \in DOMAIN jobs /\ jobs[m].workflow = "release"
        /\ jobs'[m].commit = jobs[m].commit /\ jobs'[m].version = jobs[m].version
    BY <1>0, <1>1 DEF Moved
  <2>2. jobs[m] \in Job
    BY <1>0, <2>1
  <2>3. PICK u \in Versions : u = jobs[m].version
    BY <2>2 DEF Job
  <2>4. jobs[m].commit \in CommitsOf(u)'
    BY <2>1, <2>3 DEF CommitInv, PipelineTypeOK
  <2> QED
    BY <2>1, <2>3, <2>4 DEF CommitsOf
<1>2. ASSUME NEW u \in Versions PROVE tags'[u] \in {0} \cup CommitsOf(u)'
  <2>1. CASE tags' = tags
    BY <2>1 DEF CommitInv, PipelineTypeOK
  <2>2. CASE /\ jobs[n].workflow = "release"
             /\ \A x \in Versions : tags'[x] = IF x = v THEN jobs[n].commit ELSE tags[x]
    BY <1>0, <2>2 DEF CommitInv, PipelineTypeOK
  <2> QED
    BY <2>1, <2>2, RunTags
<1>3. ASSUME NEW u \in Versions, NEW h \in Images
      PROVE  images'[h][u] \in {0} \cup CommitsOf(u)'
  <2>1. images[h][u] \in {0} \cup CommitsOf(u)' /\ images["bundle"][u] \in {0} \cup CommitsOf(u)'
    BY DEF CommitInv, ImagesOfTheirVersion, Images
  <2>2. CASE images' = images
    BY <2>1, <2>2
  <2>3. ASSUME NEW i \in Images, NEW c \in Commits,
               \A g \in Images : \A x \in Versions :
                 images'[g][x] = IF g = i /\ x = v THEN c ELSE images[g][x],
               c = IF i = "index" THEN images["bundle"][v] ELSE jobs[n].commit,
               jobs[n].workflow # "release" => i = "operator" /\ jobs[n].step = 2
        PROVE  images'[h][u] \in {0} \cup CommitsOf(u)'
    <3>1. CASE ~(h = i /\ u = v) \/ i = "index"
      BY <2>1, <2>3, <3>1
    <3>2. CASE h = i /\ u = v /\ i # "index"
      <4>1. jobs[n].commit \in CommitsOf(v)
        <5>1. CASE jobs[n].workflow = "release"
          BY <5>1 DEF CommitInv, PipelineTypeOK
        <5>2. CASE jobs[n].workflow # "release"
          <6>1. tags[v] = jobs[n].commit
            BY <2>3, <5>2 DEF FollowInv, OfTheTag
          <6>2. jobs[n].commit # 0
            BY <1>0
          <6> QED
            BY <1>0, <6>1, <6>2 DEF CommitInv, PipelineTypeOK
        <5> QED
          BY <5>1, <5>2
      <4>2. images'[h][u] = jobs[n].commit
        BY <2>3, <3>2
      <4> QED
        BY <1>0, <3>2, <4>1, <4>2
    <3> QED
      BY <3>1, <3>2
  <2> QED
    BY <2>2, <2>3, RunPushes
<1>4. (\A u \in Versions : tags[u] \in {0} \cup CommitsOf(u))' /\ ImagesOfTheirVersion'
  BY <1>2, <1>3 DEF ImagesOfTheirVersion
<1> QED
  BY <1>1, <1>4 DEF CommitInv, PipelineTypeOK

LEMMA CommitInvariance == PipelineSpec => []CommitInv
<1>1. PipelineInit => CommitInv
  <2> SUFFICES ASSUME PipelineInit PROVE CommitInv
    OBVIOUS
  <2>1. VariablesTyped
    BY PipelineAssumption DEF PipelineInit, VariablesTyped, Commits
  <2> QED
    BY <2>1 DEF PipelineInit, CommitInv, PipelineTypeOK, ImagesOfTheirVersion
<1>2. PipelineInv /\ FollowInv /\ CommitInv /\ [PipelineNext]_releaseVars /\ PipelineInv'
        => CommitInv'
  <2> SUFFICES ASSUME PipelineInv, FollowInv, CommitInv, [PipelineNext]_releaseVars, PipelineInv'
               PROVE  CommitInv'
    OBVIOUS
  <2>0. /\ \A v \in Versions : CommitsOf(v) \subseteq CommitsOf(v)'
        /\ VariablesTyped' /\ jobs \in Seq(Job)
    BY CommitsStay DEF PipelineInv, VariablesTyped
  <2>1. ASSUME UNCHANGED <<tags, images, jobs>> PROVE CommitInv'
    <3>1. ASSUME NEW n \in DOMAIN jobs', jobs'[n].workflow = "release"
          PROVE  (jobs[n].commit \in CommitsOf(jobs[n].version))'
      <4>1. jobs'[n] = jobs[n] /\ n \in DOMAIN jobs /\ jobs[n] \in Job
        BY <2>0, <2>1
      <4>2. PICK u \in Versions : u = jobs[n].version
        BY <4>1 DEF Job
      <4>3. jobs[n].commit \in CommitsOf(u)'
        BY <2>0, <3>1, <4>1, <4>2 DEF CommitInv, PipelineTypeOK
      <4> QED
        BY <4>1, <4>2, <4>3 DEF CommitsOf
    <3>2. (\A u \in Versions : tags[u] \in {0} \cup CommitsOf(u))' /\ ImagesOfTheirVersion'
      BY <2>0, <2>1 DEF CommitInv, PipelineTypeOK, ImagesOfTheirVersion
    <3> QED
      BY <2>0, <3>1, <3>2 DEF CommitInv, PipelineTypeOK
  <2>2. ASSUME NEW v \in Versions, Push(v) PROVE CommitInv'
    <3>1. main \in Seq(Versions) /\ main' = Append(main, v)
      BY <2>2 DEF Push, PipelineInv, VariablesTyped
    <3>2. Len(main) + 1 \in CommitsOf(v)'
      BY <3>1 DEF CommitsOf
    <3> QED
      BY <2>0, <2>1, <2>2, <3>2, BeginKeepsCommits DEF Push
  <2>3. ASSUME NEW v \in Versions, Republish(v) PROVE CommitInv'
    BY <2>0, <2>3, BeginKeepsCommits DEF Republish
  <2>4. ASSUME NEW n \in DOMAIN jobs, Rerun(n) PROVE CommitInv'
    <3>0. jobs[n] \in Job
      BY <2>0
    <3>1. PICK w, c, v :
            w = jobs[n].workflow /\ c = jobs[n].commit /\ v = jobs[n].version /\ v \in Versions
      BY <3>0 DEF Job
    <3>2. w = "release" => c \in CommitsOf(v)'
      BY <2>0, <3>1 DEF CommitInv, PipelineTypeOK
    <3>3. \E ts : Begin(w, c, v, ts)
      BY <2>4, <3>1 DEF Rerun
    <3>4. UNCHANGED <<tags, images>>
      BY <2>4 DEF Rerun
    <3> QED
      BY <2>0, <3>1, <3>2, <3>3, <3>4, BeginKeepsCommits
  <2>5. CASE UNCHANGED releaseVars
    BY <2>1, <2>5 DEF releaseVars
  <2> QED
    BY <2>0, <2>2, <2>3, <2>4, <2>5, RunKeepsCommits DEF PipelineNext
<1> QED
  BY <1>1, <1>2, ImagesInvariance, PTL DEF PipelineSpec

(***************************************************************************)
(* Every variable of the release workflows keeps its type, and a tag is    *)
(* always on a commit whose VERSION file names it (release.yml, Commit and *)
(* tag).                                                                   *)
(***************************************************************************)
THEOREM PipelineTypeCorrect == PipelineSpec => []PipelineTypeOK
<1>1. CommitInv => PipelineTypeOK
  BY DEF CommitInv
<1> QED
  BY <1>1, CommitInvariance, PTL

(***************************************************************************)
(* Whatever runs overlap, fail or are repeated: no image of a version is   *)
(* ever built from a commit of another version, not by a republication     *)
(* either, which is given its version by hand (republish.yml).             *)
(***************************************************************************)
THEOREM ImagesAlwaysOfTheirVersion == PipelineSpec => []ImagesOfTheirVersion
<1>1. CommitInv => ImagesOfTheirVersion
  BY DEF CommitInv
<1> QED
  BY <1>1, CommitInvariance, PTL

(***************************************************************************)
(* Whatever runs overlap, fail or are repeated: a release page offers a    *)
(* version that is tagged and whose three images have been pushed          *)
(* (release.yml: the page is its last step; republish.yml needs a tag).    *)
(***************************************************************************)
THEOREM PublishedAlwaysComplete == PipelineSpec => []PublishedIsComplete
<1>1. CompleteInv => PublishedIsComplete
  BY DEF CompleteInv
<1> QED
  BY <1>1, ImagesInvariance, PTL

(***************************************************************************)
(* If no two runs of a released version have overlapped, its images are of *)
(* its tag's commit: failed attempts, reruns and republications, of which  *)
(* there may be any number, have left no others in their place.            *)
(***************************************************************************)
THEOREM ImagesAlwaysFollowTag == PipelineSpec => []ImagesFollowTag
<1>1. PipelineInv /\ CompleteInv /\ FollowInv => ImagesFollowTag
  <2> SUFFICES ASSUME CompleteInv, FollowInv, NEW v \in Versions, page[v] # 0,
                      \A n \in DOMAIN jobs : jobs[n].version = v => ~jobs[n].crowded,
                      NEW i \in Images
               PROVE  images[i][v] = tags[v]
    BY DEF ImagesFollowTag
  <2>1. Uncrowded(v)
    BY DEF Uncrowded
  <2>2. tags[v] # 0
    BY DEF CompleteInv, PublishedIsComplete
  <2> QED
    BY <2>1, <2>2 DEF FollowInv, VersionOK, ImagesOfTag
<1> QED
  BY <1>1, ImagesInvariance, PTL
=============================================================================
