--------------------------- MODULE ReleasePipeline --------------------------
(***************************************************************************)
(* The release workflows (.github/workflows/release.yml, republish.yml):   *)
(* what each run leaves in the image registry, among the tags and among    *)
(* the GitHub releases, step by step, when steps fail, runs are repeated   *)
(* and, as no concurrency group forbids it, overlap.                       *)
(*                                                                         *)
(* A commit is the number of its push to main.  GitHub, git and the        *)
(* registry are external.                                                  *)
(***************************************************************************)
EXTENDS Naturals, Sequences, FiniteSets

CONSTANTS
  Versions,   \* the versions that the VERSION file names
  MaxPushes,  \* how many commits are pushed to main
  MaxJobs,    \* how many workflow runs there are
  MaxActive,  \* how many of them at the same time (GitHub: any number)
  MaxFaults   \* how many steps fail for reasons of their own

ASSUME PipelineAssumption ==
  MaxPushes \in Nat /\ MaxJobs \in Nat /\ MaxActive \in Nat /\ MaxFaults \in Nat

VARIABLES
  main,      \* the VERSION file of each commit on main, oldest first
  tags,      \* the commit of each version's tag, 0 if there is none
  images,    \* the commit each image of a version was built from, or 0
  page,      \* the commit of each version's GitHub release, or 0
  jobs,      \* the workflow runs, oldest first
  faults

releaseVars == <<main, tags, images, page, jobs, faults>>

Images  == {"operator", "bundle", "index"}
Commits == 0..MaxPushes

(* Definitions named X_why are variants of X with a plausible bug. *)

(* The steps that can fail or leave something behind, in their order. *)
ReleaseSteps_PageBeforeIndex ==
  <<"validate", "operator", "generate bundle", "bundle", "manifests", "tag", "page", "index">>

ReleaseSteps ==
  <<"validate", "operator", "generate bundle", "bundle", "index", "manifests", "tag", "page">>

RepublishSteps == <<"validate", "operator", "bundle", "index", "manifests", "page">>

StepsOf(j) == IF j.workflow = "release" THEN ReleaseSteps ELSE RepublishSteps

(* A run is at one of its steps, or past the last; or it has failed.  It   *)
(* is crowded if another run of its version was under way when it began,   *)
(* which only a property asks.                                             *)
Job ==
  [workflow : {"release", "republish"}, commit : 1..MaxPushes, version : Versions,
   tags : SUBSET Versions, crowded : BOOLEAN, bundle : BOOLEAN, step : 1..9,
   failed : BOOLEAN]

VariablesTyped ==
  /\ main \in Seq(Versions) /\ Len(main) <= MaxPushes
  /\ tags \in [Versions -> Commits] /\ page \in [Versions -> Commits]
  /\ images \in [Images -> [Versions -> Commits]]
  /\ jobs \in Seq(Job) /\ Len(jobs) <= MaxJobs
  /\ faults \in 0..MaxFaults

(***************************************************************************)
(* Every variable has its type; a release, whose version is read from the  *)
(* VERSION file of its checkout, is of a commit that names its version,    *)
(* and so is a tag (git tag, on the checkout).                             *)
(***************************************************************************)
CommitsOf(v) == {c \in DOMAIN main : main[c] = v}

PipelineTypeOK ==
  /\ VariablesTyped
  /\ \A n \in DOMAIN jobs :
       jobs[n].workflow = "release" => jobs[n].commit \in CommitsOf(jobs[n].version)
  /\ \A v \in Versions : tags[v] \in {0} \cup CommitsOf(v)

PipelineInit ==
  /\ main = <<>>
  /\ tags = [v \in Versions |-> 0] /\ page = tags /\ images = [i \in Images |-> tags]
  /\ jobs = <<>> /\ faults = 0

-----------------------------------------------------------------------------
(***************************************************************************)
(* Runs begin with a checkout, whose tags are those the run will see: all  *)
(* of them for a release (fetch-depth: 0); for a republication, whose      *)
(* checkout is shallow, none but the tag it was started on.                *)
(***************************************************************************)
Running(j) == ~j.failed /\ j.step <= Len(StepsOf(j))
Tagged     == {v \in Versions : tags[v] # 0}

Crowded(v) == \E n \in DOMAIN jobs : Running(jobs[n]) /\ jobs[n].version = v

Begin(workflow, c, v, ts) ==
  /\ Len(jobs) < MaxJobs
  /\ Cardinality({n \in DOMAIN jobs : Running(jobs[n])}) < MaxActive
  /\ jobs' = Append(jobs, [workflow |-> workflow, commit |-> c, version |-> v, tags |-> ts,
                           crowded |-> Crowded(v), bundle |-> FALSE, step |-> 1, failed |-> FALSE])

(* A push to main starts a release if it changes the VERSION file. *)
Push(v) ==
  /\ Len(main) < MaxPushes
  /\ main' = Append(main, v)
  /\ IF main # <<>> /\ v = main[Len(main)]
       THEN UNCHANGED jobs
       ELSE Begin("release", Len(main) + 1, v, Tagged)
  /\ UNCHANGED <<tags, images, page, faults>>

(* GitHub runs a run that has ended again, on the same commit. *)
Rerun(n) ==
  /\ ~Running(jobs[n])
  /\ LET j == jobs[n]
     IN  Begin(j.workflow, j.commit, j.version,
               IF j.workflow = "release" THEN Tagged ELSE j.tags)
  /\ UNCHANGED <<main, tags, images, page, faults>>

(* Somebody starts a republication, on main or on a tag. *)
Republish_AllTags(v) ==
  /\ \/ main # <<>> /\ Begin("republish", Len(main), v, Tagged)
     \/ \E t \in Tagged : Begin("republish", tags[t], v, Tagged)
  /\ UNCHANGED <<main, tags, images, page, faults>>

Republish(v) ==
  /\ \/ main # <<>> /\ Begin("republish", Len(main), v, {})
     \/ \E t \in Tagged : Begin("republish", tags[t], v, {t})
  /\ UNCHANGED <<main, tags, images, page, faults>>

-----------------------------------------------------------------------------
(***************************************************************************)
(* The steps of run n.                                                     *)
(***************************************************************************)
At(n, step) == Running(jobs[n]) /\ StepsOf(jobs[n])[jobs[n].step] = step

Pass(n)    == jobs' = [jobs EXCEPT ![n].step = @ + 1]
FailJob(n) == jobs' = [jobs EXCEPT ![n].failed = TRUE]

(* A version to release has no tag yet, one to republish has one. *)
Valid_TagIgnored(j) == j.workflow = "republish" => j.version \in j.tags

Valid(j) == IF j.workflow = "release" THEN j.version \notin j.tags ELSE j.version \in j.tags

Validate(n) ==
  /\ At(n, "validate")
  /\ IF Valid(jobs[n]) THEN Pass(n) ELSE FailJob(n)
  /\ UNCHANGED <<main, tags, images, page, faults>>

Store(n, image, c) == images' = [images EXCEPT ![image][jobs[n].version] = c]

BuildOperator(n) ==
  /\ At(n, "operator")
  /\ Store(n, "operator", jobs[n].commit) /\ Pass(n)
  /\ UNCHANGED <<main, tags, page, faults>>

(* make bundle writes bundle.Dockerfile, which no commit has ... *)
GenerateBundle(n) ==
  /\ At(n, "generate bundle")
  /\ jobs' = [jobs EXCEPT ![n].step = @ + 1, ![n].bundle = TRUE]
  /\ UNCHANGED <<main, tags, images, page, faults>>

(* ... and make bundle-build needs. *)
BuildBundle(n) ==
  /\ At(n, "bundle")
  /\ IF jobs[n].bundle
       THEN Store(n, "bundle", jobs[n].commit) /\ Pass(n)
       ELSE FailJob(n) /\ UNCHANGED images
  /\ UNCHANGED <<main, tags, page, faults>>

(* The index is made from the bundle that the registry has by now. *)
BuildIndex(n) ==
  /\ At(n, "index")
  /\ Store(n, "index", images["bundle"][jobs[n].version]) /\ Pass(n)
  /\ UNCHANGED <<main, tags, page, faults>>

Manifests(n) ==
  /\ At(n, "manifests") /\ Pass(n)
  /\ UNCHANGED <<main, tags, images, page, faults>>

(* The push of a tag that is there already, on another commit, is refused. *)
TagCommit_OnBranch(n) ==
  LET v == jobs[n].version
  IN  /\ At(n, "tag")
      /\ IF tags[v] \in {0, Len(main)}
           THEN tags' = [tags EXCEPT ![v] = Len(main)] /\ Pass(n)
           ELSE FailJob(n) /\ UNCHANGED tags
      /\ UNCHANGED <<main, images, page, faults>>

TagCommit_ErrorDropped(n) ==
  /\ At(n, "tag")
  /\ tags' = [tags EXCEPT ![jobs[n].version] = IF @ = 0 THEN jobs[n].commit ELSE @]
  /\ Pass(n)
  /\ UNCHANGED <<main, images, page, faults>>

TagCommit(n) ==
  LET v == jobs[n].version
      c == jobs[n].commit
  IN  /\ At(n, "tag")
      /\ IF tags[v] \in {0, c}
           THEN tags' = [tags EXCEPT ![v] = c] /\ Pass(n)
           ELSE FailJob(n) /\ UNCHANGED tags
      /\ UNCHANGED <<main, images, page, faults>>

(* The release is created, or its files are replaced by this run's. *)
Publish(n) ==
  /\ At(n, "page")
  /\ page' = [page EXCEPT ![jobs[n].version] = jobs[n].commit] /\ Pass(n)
  /\ UNCHANGED <<main, tags, images, faults>>

(* A step fails for a reason of its own, before it leaves anything behind. *)
StepFails(n) ==
  /\ Running(jobs[n]) /\ faults < MaxFaults
  /\ faults' = faults + 1 /\ FailJob(n)
  /\ UNCHANGED <<main, tags, images, page>>

PipelineStep(n) ==
  \/ Validate(n) \/ BuildOperator(n) \/ GenerateBundle(n) \/ BuildBundle(n)
  \/ BuildIndex(n) \/ Manifests(n) \/ TagCommit(n) \/ Publish(n)

PipelineNext ==
  \/ \E v \in Versions : Push(v) \/ Republish(v)
  \/ \E n \in DOMAIN jobs : Rerun(n) \/ PipelineStep(n) \/ StepFails(n)

PipelineSpec == PipelineInit /\ [][PipelineNext]_releaseVars

-----------------------------------------------------------------------------
(***************************************************************************)
(* What a release page offers has been pushed, and is tagged: the page is  *)
(* the last step of release.yml, and republish.yml needs a tag.            *)
(***************************************************************************)
PublishedIsComplete ==
  \A v \in Versions : page[v] # 0 => tags[v] # 0 /\ \A i \in Images : images[i][v] # 0

(***************************************************************************)
(* A version's GitHub release is of the commit of its tag, whatever runs   *)
(* overlap, fail or are repeated (Commit and tag; the validations).        *)
(***************************************************************************)
PageFollowsTag == \A v \in Versions : page[v] \in {0, tags[v]}

(***************************************************************************)
(* Whatever runs overlap, fail or are repeated, an image of a version was  *)
(* built from a commit whose VERSION file names it.  A republication is    *)
(* given a version and checks out what it was started on: only because its *)
(* checkout has no tag but that one are the two the same.                  *)
(***************************************************************************)
ImagesOfTheirVersion ==
  \A v \in Versions : \A i \in Images : images[i][v] \in {0} \cup CommitsOf(v)

(***************************************************************************)
(* The images of a version that is released were all built from its tag's  *)
(* commit, as long as no two runs of that version overlap: attempts that   *)
(* failed and republications have left nothing else in their place.        *)
(***************************************************************************)
ImagesFollowTag ==
  \A v \in Versions :
    /\ page[v] # 0
    /\ \A n \in DOMAIN jobs : jobs[n].version = v => ~jobs[n].crowded
    => \A i \in Images : images[i][v] = tags[v]
=============================================================================
