# Formal model of the AWS Neuron operator

This directory holds a TLA+ model of the operator in this repository, TLC
configurations that check it on small instances, and proofs checked by TLAPS.
Paths below are relative to the repository's root.

## 1. Inventory: the system

| Component | Source | State | Operations | Interacts with |
|---|---|---|---|---|
| DeviceConfig reconciler | `internal/controllers/device_config_reconciler.go` | none of its own: the work queue, the copy of the DeviceConfig a run works on, the step it is at | `Reconcile`, `setFinalizer`, `handleKMMModule`, `handleCustomScheduler` (two objects), `handleNodeMetrics`, `finalizeDeviceConfig` | reads from the cache, writes to the API server, is woken by watches |
| Contents of the four objects | `internal/kmmmodule`, `internal/customscheduler`, `internal/nodemetrics` | none (pure functions of the DeviceConfig) | `SetKMMModuleAsDesired`, `SetCustomSchedulerAsDesired`, `SetCustomSchedulerExtensionAsDesired`, `SetNodeMetricsAsDesired` | called inside `CreateOrPatch` |
| DeviceConfig API | `api/v1alpha1/deviceconfig_types.go` | spec, finalizers, deletion mark (the status is never written) | created, edited, deleted by users | watched by the reconciler |
| Manager | `cmd/main.go`, `internal/config`, `internal/cmd`, `config/manager` | each process's phase and options, the lease | start-up from the file, probes, leader election, exit, rolling update | runs the reconciler with one worker |
| Cluster (external) | used through controller-runtime | objects, watch streams, caches | create, merge patch, delete, garbage collection; KMM's finalizer on the Module | everything |
| Custom scheduler and extension at work | `internal/customscheduler`, `config/manager/neuron_scheduler_config.yaml`, `config/rbac/scheduler_extension_service.yaml` | pods, the scheduler's lease, its scheduling cycle | rollout, filter, bind | the extension is placed by the scheduler that asks it |
| Node selection | `getNodeSelector`, `config/nfd/nfd-rule.yaml` | node labels | NFD labels nodes, KMM selects them | decides where kernel modules are loaded |
| Release workflows | `.github/workflows/release.yml`, `republish.yml`, `docs/release-process.md` | tags, images, release pages, workflow runs | release, republish, re-run | each other, through what was pushed before a failure |
| Test workflows, manifests, generated code | `.github/workflows/test-pipeline.yml`, `config/`, `zz_generated*`, `mock_*` | - | - | no behaviour of their own |

What is hard here:

- every read of the reconciler comes from a cache that lags, every write goes
  to the server, and neither patches nor deletes carry a uid or a resource
  version;
- one run is up to five requests, and users, the garbage collector, KMM and
  other controllers act between them;
- `finalizeDeviceConfig` ends after each delete with `nil` and no requeue, so
  progress rests on a watch event of an object that no longer exists;
- errors, crashes and lost answers repeat the whole run on top of what the last
  one did, and a request can land after its sender is gone;
- a DeviceConfig can be deleted and created again under its name while old
  states, and objects of the old one, are still about;
- a rolling update runs two operators at once, and only the lease keeps them
  apart; the new one is to be ready before the old one lets the lease go;
- the extension's pod is placed by the scheduler that asks the extension;
- nothing keeps two release runs for one version apart, and each leaves what it
  pushed behind when it fails.

What makes each part correct:

- *reconciler*: objects are made only for a DeviceConfig that is live and holds
  the finalizer; no wakeup is lost; teardown goes metrics, Module, finalizer; a
  DeviceConfig left alone is realised, a deletion completes, nothing stays
  behind; what belongs to others stays theirs, up to what the cache knows;
- *contents*: each field comes from the DeviceConfig's field of that name, a
  merge patch from an up-to-date copy gives exactly what is wanted;
- *manager*: two operators never act at once, and some operator acts again and
  again, whatever file is rolled out;
- *scheduler bootstrap*: both come up, a second extension runs only for an
  eviction, every workload is placed;
- *release*: pages follow tags, a page offers what was pushed, images are
  built from a commit of their version.

The line-by-line list of hazards, each with the properties about it, is in
`PROJECT.json`.

## 2. Modules

| Module | Models | Extends or instantiates |
|---|---|---|
| `DesiredState` | the contents of the four objects (`Desired`), merge patches (`MergePatch`), the decoding of an answer into an older copy (`DecodedSpec`) | - |
| `KubeCluster` | the cluster around one DeviceConfig name: server, watches, caches, users, other controllers, garbage collector, KMM. External: modelled from the way the operator uses it | `DesiredState` |
| `DeviceConfigReconciler` | the work queue and the worker, one action per request; properties and fairness | `KubeCluster` |
| `FinalizerInvariant` | the inductive invariant for the finalizer | `DeviceConfigReconciler` |
| `OwnedResources` | abstract specification: what the operator promises, without caches, queue or requests | - |
| `OwnedResourcesRefinement` | the refinement mapping, read off the server | `FinalizerInvariant`; `OwnedResources` |
| `LateRequests` | requests that outlive their sender, operators that list old states | `DeviceConfigReconciler` |
| `OperatorLifecycle` | the operator's processes, leader election, kubelet and the rolling update | - |
| `SchedulerBootstrap` | pods of scheduler and extension, extender calls, image rollouts | - |
| `ReleasePipeline` | release and republication runs, step by step | - |
| `MCReconciler`, `MCLate`, `MCLifecycle`, `MCBootstrap`, `MCRelease` | small instances for TLC | the modules they instantiate |
| `ReconcilerTypeProofs`, `CacheProofs`, `FinalizerProofs`, `WakeupProofs`, `PromiseProofs`, `OperatorLifecycleProofs`, `BootstrapProofs`, `ReleaseProofs` | theorems | the modules they are about |

### The reconciler

`dc` and `obj[k]` are the DeviceConfig and its four objects on the server, by
name, with `None` where there is none; `dcCache`, `objCache[k]` are what the
manager's client reads; `dcWatch`, `objWatch[k]` are the states in between, in
order, one stream per kind as in informers. A write that changes nothing makes
no event. `queued`, `pc`, `wdc` are the work queue, the next request of the one
worker (`MaxConcurrentReconciles` is 1) and its copy of the DeviceConfig.

| Action | Code |
|---|---|
| `DeliverDC`, `DeliverChild` | the watches of `SetupWithManager`; a child wakes the DeviceConfig named by its controller reference, before or after the change, whatever the uid |
| `Reconcile` | `AsReconciler`'s cached read and the test of the deletion timestamp |
| `SetFinalizer` | `setFinalizer`. `client.Patch` decodes the answer into the copy: the copy is then the server's DeviceConfig, which may be marked as deleted, but optional fields that the answer leaves out keep the older copy's values (`Decoded`) |
| `HandleKMMModule`, `HandleCustomScheduler`, `HandleCustomSchedulerExtension`, `HandleNodeMetrics` | the handlers: one `CreateOrPatch` each, two for `handleCustomScheduler` |
| `FinalizeMetrics`, `FinalizeModule`, `RemoveFinalizer` | the three ends of `finalizeDeviceConfig` |
| `Fault` | a request that fails before it changes anything; one that fails after is the request followed by `Fault` at the next step, or by `Resync` after the last |
| `Restart` | a crash; the next operator lists everything afresh |

A cached read and the write computed from it are one step. That loses nothing:
only the worker reads the caches, so a delivery that happens between the read
and the write can as well happen after the write.

`LateRequests` adds what a crash, a lost lease or a broken connection can leave
behind: `Disconnected` and `TakenOver` put the request the worker is about to
send into `late`, from where the server carries it out at any later time
(`Land`), behind the back of the retry or of the next operator; and
`RestartBehind` lets the next operator list what the last one had seen.

`OwnedResources` has only the latest uid, the DeviceConfig that is there,
whether the operator holds it, whether it was asked to go, and each object's
owner. The mapping (`OwnedResourcesRefinement`) takes all of them from the
server; an operator's step that only moves caches or the queue is a stutter.

### The operator's processes

`OperatorLifecycle` follows `main`: `Configure` (flags and file, `FatalError`
if it cannot be read; keys left out have the zero value, as `yaml.Unmarshal`
leaves them), `CreateManager` (refuses an election without the lease's name),
`Start` (probes first, the controller with the lease). `ManagerOptions` is the
function of package `config`. `Ready` is `healthz.Ping`. The lease is
client-go's: a candidate takes a lease it has seen unchanged for
`LeaseDuration`, a leader gives up after `RenewDeadline`, and the lease is not
released at the exit. `CreatePod`, `RemovePod` and `Stopped` are the default
rolling update of one replica; a stopping leader still renews and still acts.

### The schedulers

`SchedulerBootstrap` takes from `internal/customscheduler` who schedules each
pod, what the extension requests, its labels and its strategy, and from
`config/` the extender's `managedResources`, `ignorable` and the Service's
selector (over which `config/default` lays its labels). It is about a
DeviceConfig in the namespace of the shipped Service, on nodes with room for
every pod, that is not deleted.

### The release workflows

`ReleasePipeline` has one record per workflow run, at one of the steps that can
fail or leave something behind (`ReleaseSteps`, `RepublishSteps`). A run sees
the tags of its checkout, not those of later on; steps of different runs
interleave; `StepFails` fails any step; `Rerun` repeats a run that has ended.
Each image, tag and page is the commit it was made from.

### Abstracted and assumed

Fields that are the same for every DeviceConfig (volumes, ports, probes) are
left out; the spec handlers replace whole structs and so drop the server's
defaults, which is why `CreateOrPatch` always sends its patch. The selector of a
Deployment that somebody else created is assumed to match (if it does not, the
server refuses every patch, as it refuses those of a `Stranger`'s object).
DeviceConfigs of different names share nothing but the queue: the models have
one name.

Assumed of the cluster: nobody but the operator removes its finalizer; watches
deliver in order; the garbage collector checks and deletes in one step. Assumed
of the processes: none is paused for longer than `LeaseDuration` minus
`RenewDeadline` between two ticks (client-go assumes the same); what its late
requests do then is the subject of `LateRequests`.

## 3. Properties and runs

| Run | Properties | Instance | Shows |
|---|---|---|---|
| `edits_crash` | `TypeOK`, `QuietMeansDone`, `TeardownOrder`, `ForeignFinalizersKept`, `StrangersLeftAlone` | one DeviceConfig, two specs; two disturbances of: one edit or foreign finalizer, one fault or crash; or else one object touched by somebody else | no lost wakeup: whenever the queue is empty and no event is under way, the four objects are as wanted, or the deletion waits for KMM only; teardown keeps its order, and others lose an object or a finalizer only if the cache had not seen it |
| `recreate` | `FinalizerProtects`, `FinalizerInv`, `QuietMeansDone`, `OwnerIsLive`, `KeepsThePromise` | two DeviceConfigs in a row under one name | the worker never works for one that is gone, however old the cache is; the invariant of the proof holds; the refinement of `OwnedResources` |
| `liveness` | `AllRealised`, `ResyncCompletesDeletion` | one disturbance: an edit, a foreign finalizer, a fault or crash, any object made (unowned), edited or deleted by somebody else | convergence under fairness; a deletion completes, by the ten-hour resync at the latest |
| `as_built` | `ModuleAndSchedulersRealised`, `DeletionCompletes`, `NothingLeftBehind` | `EmptyImageAdmitted = FALSE`, two specs, one edit, one fault or crash | with the source's empty metrics image on a plain server the last step fails for ever; the other objects are realised, deletion completes without a resync, and nothing stays |
| `late` | `QuietMeansDone` | a settled DeviceConfig, edited twice or deleted and made anew; one crash, takeover or broken connection | whatever a late request or an old list does is healed by the watches |
| `rolling` | `LifeTypeOK`, `AtMostOneActs`, `SomebodyWorks`, `RolloutCompletes` | three pods, seven files (renamed lease, no probe, no lease name, no election, misspelled key, unreadable), two rollouts, two faults | one operator per lease; a bad file leaves the old operator at work; a good one gets through |
| `boot` | `BootstrapTypeOK`, `OneExtension`, `ExtensionComesUp`, `WorkloadsPlaced` | two templates of each Deployment, one crash, one eviction, one workload | scheduler and extension, which need each other, come up with the newest image; a second extension runs only for an eviction; every workload is placed |
| `release` | `PipelineTypeOK`, `ImagesFollowTag`, `PublishedIsComplete`, `PageFollowsTag`, `ImagesOfTheirVersion` | two versions, three pushes, four runs, two at a time, two failures | pages follow tags, a page offers all its images; no image is of a commit of another version, and all are of the tag's commit as long as no two runs of the version overlap |
| `finalizer_early` (violation) | `ModuleGoneBeforeFinalizer` | one DeviceConfig | finding 1 |
| `metrics_never` (violation) | `AllRealised` | `EmptyImageAdmitted = FALSE` | finding 2 |
| `in_tree` (violation) | `InTreeDriverKept` | a spec with `useInTreeDrivers` | finding 3 |
| `selector_emptied` (violation) | `OnlySelectedNodes` | three selectors, two edits | finding 4 |

`EmptyImageAdmitted = TRUE` stands for a build in which `metricsImage` has a
value, or a cluster whose admission fills it in: without it no reconciliation
ends well, and nothing could be said about the quiet states. `as_built` and
`metrics_never` run with the source's value on a plain server.

Bounds. `MaxUid` counts DeviceConfigs of the name: a second one is enough for
every confusion of old and new, as uids are only compared for equality.
`MaxEdits`, `MaxAlien` and `MaxFaults` bound how often somebody interferes: one
edit gives the cache two specs to lag between (the two differ in every field,
and one leaves out what is optional), one fault or crash falls into any step.
`Interference` (a `CONSTRAINT`, in a run of safety properties only) and
`OneDisturbance` (in the next-state relation of `RecoveringSpec`, where it
disables only steps that no fairness is about) say which of these come together
in one behaviour. Watches and retries are not bounded, except in `late`, whose
`LagBound` keeps at most five events under way; `late` starts from a settled
DeviceConfig (`Settled`), a state the other runs reach, as the way there adds
nothing. In `rolling`, three pods are the most that a rolling update of one
replica and a stopping pod need, and two rollouts give a bad file followed by a
good one; `LeaseDuration = 3`, `RenewDeadline = 2` is the smallest difference.
In `boot` three pods per Deployment are an old one that terminates, its evicted
replacement and a new one. In `release` two runs at a time are enough to
overlap; four runs allow a failed one, its repetition and two more. No symmetry
is used with liveness; `release` permutes the versions. Deadlock is not
checked: when the users have stopped and the DeviceConfig is gone, the system
rests, as do the pipelines when their runs have ended; `QuietMeansDone` says
when the operator may.

Fairness.

- `FairSpec` (and `RecoveringSpec`): each watch delivers, the worker takes its
  next step, the garbage collector, KMM's release and other controllers'
  finalizers go on. This is what informers, the queue's worker loop and
  level-triggered controllers do. No fairness for users, faults or crashes. The
  ten-hour resync is assumed by `ResyncCompletesDeletion` alone: an object of
  the operator's name without a controller reference wakes nobody when it is
  gone.
- `LifeFairSpec`: time passes, processes take their next start-up step,
  candidates and leaders look after the lease, kubelet and the Deployment
  controller work. Weak fairness per pod suffices.
- `BootstrapFairSpec`: controllers, kubelets and schedulers keep working, and
  the operator makes both Deployments; it need not change them again.
- `LateRequests` and `ReleasePipeline` are checked for safety only: a late
  request may never land, a run may never be repeated.

Each property of each passing run has a mutant in `PROJECT.json`: a variant of
one definition (named `X_why` in the module) with a plausible bug, under which
TLC finds the property violated.

### Findings

1. *The finalizer can go while the Module is there.* `finalizeDeviceConfig`
   trusts its cached `Get` and logs "module already deleted, removing
   finalizer". A Module whose creation the cache has not seen is not deleted;
   the garbage collector takes it later, and the deletion of the DeviceConfig
   does not wait for the kernel modules to be unloaded.
2. *The node-metrics DaemonSet is never created on a plain server*:
   `metricsImage` is empty (`internal/nodemetrics/nodemetrics.go:36`), against
   `README.md:8`.
3. *`useInTreeDrivers` has no effect*: the Module of such a DeviceConfig
   removes the in-tree driver.
4. *Edits of the selector in quick succession can empty the Module's selector
   for a while.* The selector is a map, patched label by label from the cached
   Module: with `{l1, l2}` in the cache, `{l2}` on the server and `{l1}` wanted,
   the patch takes `l2` out and adds nothing. Until the event has come back the
   Module matches every node, against `api/v1alpha1/deviceconfig_types.go:53`.

Seen while modelling:

- finalizers and owner references of others that the cache has not seen yet are
  lost to merge patches that replace lists (`ForeignFinalizersKept`,
  `StrangersLeftAlone` say exactly when);
- unowned objects of the operator's names are deleted by name, and as their
  deletion wakes nobody the teardown then stands until the resync;
- after a failed run a stale cached copy can put objects back to an earlier
  spec for a moment, and the decoded answer of `setFinalizer` can mix two specs
  for the length of a run;
- an evicted extension is replaced while it terminates, so two run for a while:
  strategy Recreate is about rollouts only;
- a release that fails after it has pushed its tag is refused when it is
  repeated (`release.yml:58`), though `docs/release-process.md:69` gives "already
  been released" as the reason;
- `republish.yml` cannot republish: its shallow checkout (`:20`) finds no tags
  but the one it was started on (`:49`), and its bundle image needs a
  `bundle.Dockerfile` that no commit has (`:103`-`:105`). `Valid`, `Begin` and
  `BuildBundle` have both. That checkout is also what keeps a republication from
  building a version from another one's commit (`ImagesOfTheirVersion`): to
  fetch all tags would repair the first by breaking the second;
- no concurrency group keeps release runs apart: of two runs of one version
  that overlap the slower may leave images of another commit than the tag's;
- the default selector `feature.node.kubernetes.io/pci-1d0f.present` is a label
  no rule of this repository sets; `config/nfd/nfd-rule.yaml` gives another
  (NFD's own defaults are outside the repository).

## 4. Proofs

TLAPS proves, for every value of the constants that satisfies the named
assumptions (in particular for every number of recreations, edits, faults,
crashes, rollouts, pods, workflow runs, and every length of the watches):

| Theorem | Module | Says |
|---|---|---|
| `TypeCorrect` | `ReconcilerTypeProofs` | `Spec => []TypeOK` |
| `FinalizerInvariance`, `FinalizerAlwaysProtects`, `OwnerAlwaysLive` | `FinalizerProofs` | `Spec => []FinalizerInv`, `Spec => []FinalizerProtects`, `Spec => OwnerIsLive` |
| `PromiseKept` | `PromiseProofs` | `Spec => KeepsThePromise`: the refinement of `OwnedResources` |
| `TeardownKeepsOrder`, `StrangersKeepTheirs`, `OthersFinalizersStay` | `CacheProofs` | `Spec => TeardownOrder`, `StrangersLeftAlone`, `ForeignFinalizersKept` |
| `NoWakeupLost`, `LateRequestsHeal` | `WakeupProofs` | `Spec /\ []TeardownOwned => []QuietMeansDone`, the same of `LateSpec` |
| `QuietIsDone`, `LateQuietIsDone` | `WakeupProofs` | `Spec => []QuietMeansDone` and `LateSpec => []QuietMeansDone` when strangers make no Module and no metrics DaemonSet (`AlienKinds`) |
| `QuietConforms` | `WakeupProofs` | `LateSpec`, with no condition: in the quiet, a DeviceConfig that stays has its finalizer and all its objects as wanted |
| `FreshHandlersConform` | `ReconcilerTypeProofs` | a handler step of `Spec` that reads its object as it is on the server leaves it exactly as wanted and owned, unless another controller owns it or the image is refused |
| `LifeTypeCorrect`, `AlwaysAtMostOneActs` | `OperatorLifecycleProofs` | `LifeSpec => []LifeTypeOK`, `LifeSpec => []AtMostOneActs` |
| `BootstrapTypeCorrect`, `AtMostOneExtension` | `BootstrapProofs` | `BootstrapSpec => []BootstrapTypeOK`, `BootstrapSpec => []OneExtension` |
| `PipelineTypeCorrect`, `PageAlwaysFollowsTag`, `PublishedAlwaysComplete`, `ImagesAlwaysFollowTag`, `ImagesAlwaysOfTheirVersion` | `ReleaseProofs` | `PipelineSpec => []PipelineTypeOK`, `[]PageFollowsTag`, `[]PublishedIsComplete`, `[]ImagesFollowTag`, `[]ImagesOfTheirVersion` |

*The finalizer.* `FinalizerProtects` is not inductive: it is about the worker's
copy, which came from the cache, which came from the watch. `FinalizerInv`
follows a state of the DeviceConfig along that way (`Seen(0)` is the cache,
`Seen(Lag)` the server):

- `CacheReaches`, `UidsCount`, `Unbroken`: the way ends at the server; states of
  one uid are not interrupted by others, and a deletion is not taken back;
- `OneProtected`: if the server's DeviceConfig has the finalizer, no state on
  the way has it for another uid;
- `ReleasedWhenSeen`: a state on the way that has the finalizer is either of the
  DeviceConfig that still has it, or the cache already knows of its deletion;
- `FinalizingTheDeleted`: when the worker is about to take the finalizer off,
  the cache still knows of that very deletion, so what is then on the way is
  covered by `ReleasedWhenSeen`;
- `ProtectedFromTheStart`: a run that starts from a copy not marked as deleted
  finds only states that are protected, which covers the case in which
  `setFinalizer` has nothing to do.

Writes of the DeviceConfig are reduced to three forms (`Gone`, `Changed`,
`Fresh`) in `WriteKeepsHistory`.

*The refinement* rests on it: only under `FinalizerProtects` is the owner the
worker gives to an object the DeviceConfig that is held (`Give`). Each step of
`Next` is shown to be a step of `OwnedNext` or a stutter.

*The cache.* `CacheCoherent`: what the watch carries last, or the cache holds if
the watch is empty, is the server's object. Hence what the worker reads is right
or news of it is under way, which is what `TeardownOrder` and
`StrangersLeftAlone` say.

*The wakeups.* `WakeInv`: an event that will call the worker is on its way or
the worker is queued (`WillWake`); or it is idle and nothing is left to do
(`AtRest`); or it has the DeviceConfig as it is and has done everything that
comes before its next step (`Underway`, `HandledBefore`). A change of the
DeviceConfig, or of an object that a DeviceConfig controls, is an event, so it
makes the first part true whatever the worker is at; a patch from an old copy
changes the object, and so is an event too; what is left is the patch that
changes nothing, whose object is then as wanted (`FreshPatchConforms`). It rests
on `Base`: types, `CacheCoherent`, `CacheReaches`, and that KMM holds Modules
only. A late request writes what the worker could have written (`ProperRequest`),
and the same three parts cover it.

`TeardownOwned` says that a DeviceConfig controls the Module and the metrics
DaemonSet that are on the server: of one that nobody controls the deletion
wakes nobody, and `QuietMeansDone` is then false until the resync (the
`edits_crash` run lets strangers make schedulers only; `liveness` has the other
kinds, and the resync). The operator itself keeps `TeardownOwned`, and strangers
break it only by making an object of one of the two kinds: hence the second
pair of theorems. Where the DeviceConfig stays, nothing of this is needed
(`QuietConforms`).

*The lease.* `LeaseInv`: a process past its start-up has the options of its file
(`OptionsOfFile`), a holder holds its lease (`HoldersHold`), and a candidate that
has looked at the lease has not watched it for longer than its holder has gone
without renewing it (`WatchedWhileUnrenewed`); as `RenewDeadline < LeaseDuration`,
nobody takes a lease that is held.

*The extension.* `ExtensionInv`: there is at most one extension pod and one more
for each eviction, and at most one for each eviction that terminates while it is
of the current template (`Leaving`); any other that terminates is of an older
template, so Recreate's test sees it. `BootstrapTypeOK` says that only a running
scheduler holds the lease; it needs `CycleInv`, that no scheduling cycle is about
a scheduler's own pod (those are the default scheduler's), or binding it would
change the holder's record.

*The release.* `PipelineInv`: a run that is past its tag step finds its tag on
its commit; a republication never gets past its bundle image. `CompleteInv`: a
run that is past the step that pushes an image (`PushedAt`) finds one there, its
own or a later one, so a page offers three. `FollowInv` is about each version
whose runs have not overlapped: at most one run of it is under way (`Alone`);
the images it has pushed are of its commit (`OwnImages`); a release whose
version is tagged knows so before it pushes, and is refused (`TagSeen`); a
republication past its first step is of the tag's commit (`OfTheTag`); and the
images of a tagged version are the tag's (`ImagesOfTag`). `CommitInv` rests on
`OfTheTag`: what a republication pushes is of its version's tag, whose commit is
one of that version, and `main` only grows.

Only model-checked: the liveness properties (`AllRealised`,
`ResyncCompletesDeletion`, `ModuleAndSchedulersRealised`, `DeletionCompletes`,
`NothingLeftBehind`, `SomebodyWorks`, `RolloutCompletes`, `ExtensionComesUp`,
`WorkloadsPlaced`), as fairness and `ENABLED` are out of the prover's reach. Every
other property of the passing runs has a theorem. No proof needs an induction
over data: the watches are sequences, of which the proofs use the first and the
last element and the order of the indices.

## 5. What is left

1. Which of the reconciler's other properties late requests leave standing
   (`FinalizerProtects` is not one of them: a late patch can take the finalizer
   of the next DeviceConfig), as theorems of `LateSpec`.
2. Liveness with late requests; the runs are too large for it now.

### Not modelled

- NFD: which labels nodes get is decided by NFD from a static rule. What a
  selector matches is modelled (`Targets`); KMM's pods on the nodes, its ready
  labels and the metrics pods that wait for them are KMM's.
- What the extension's program does with a pod: an image from elsewhere.
- Deletion of a DeviceConfig in `SchedulerBootstrap` and the capacity of nodes.
- The scheme's registration, log flags and the metrics address of `main`, the
  status of a DeviceConfig (never written), logging.
- Test workflows (linear scripts), static manifests, generated code and mocks:
  no behaviour of their own.
