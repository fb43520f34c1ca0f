---------------------------- MODULE DesiredState ----------------------------
(***************************************************************************)
(* What one DeviceConfig asks for: the contents the operator gives to the  *)
(* four objects it creates for it (internal/kmmmodule,                     *)
(* internal/customscheduler, internal/nodemetrics), and how a JSON merge   *)
(* patch carries contents computed from one copy of an object to another.  *)
(*                                                                         *)
(* Contents are abstracted to the fields a DeviceConfig decides, to those  *)
(* the API server judges and to those other parts of the system wait for;  *)
(* volumes, ports, probes and labels that are the same for every           *)
(* DeviceConfig are left out.                                              *)
(***************************************************************************)
EXTENDS FiniteSets, Naturals

CONSTANTS
  Images,        \* image references a DeviceConfig may name
  Secrets,       \* names of image pull secrets
  Labels,        \* node labels
  DefaultLabel,  \* feature.node.kubernetes.io/pci-1d0f.present
  Specs,         \* the DeviceConfig specs that users submit
  Absent         \* an optional field that is not set

ASSUME LabelAssumption == DefaultLabel \in Labels

(***************************************************************************)
(* The four objects, in the order one reconciliation handles them.         *)
(***************************************************************************)
Children == {"module", "scheduler", "extension", "metrics"}

DeviceConfigSpec ==
  [useInTreeDrivers        : BOOLEAN,
   driversImage            : Images,
   devicePluginImage       : Images,
   customSchedulerImage    : Images,
   schedulerExtensionImage : Images,
   imageRepoSecret         : Secrets \cup {Absent},
   selector                : (SUBSET Labels) \cup {Absent}]

ASSUME SpecsAssumption == Specs \subseteq DeviceConfigSpec

-----------------------------------------------------------------------------
(***************************************************************************)
(* getNodeSelector: a selector that is given is taken as it is, an empty   *)
(* one included; only a missing one is replaced by the PCI vendor label.   *)
(***************************************************************************)
GetNodeSelector(s) == IF s.selector # Absent THEN s.selector ELSE {DefaultLabel}

(***************************************************************************)
(* setKMMModuleLoader: one kernel mapping for every kernel, whose image    *)
(* KMM completes with the kernel version, and which always removes the     *)
(* in-tree driver first.  KernelMappings is a list: one field.             *)
(***************************************************************************)
KernelMappings(s) ==
  [containerImage        |-> [image |-> s.driversImage, perKernel |-> TRUE],
   inTreeModulesToRemove |-> {"neuron"}]

(***************************************************************************)
(* SetKMMModuleAsDesired: the loader and the device plugin.                *)
(***************************************************************************)
ModuleSpec(s) ==
  [kernelMappings    |-> KernelMappings(s),
   devicePluginImage |-> s.devicePluginImage,
   imageRepoSecret   |-> s.imageRepoSecret,
   selector          |-> GetNodeSelector(s)]

(***************************************************************************)
(* SetCustomSchedulerAsDesired and SetCustomSchedulerExtensionAsDesired.   *)
(* The extension's pod is itself placed by the custom scheduler.           *)
(***************************************************************************)
SchedulerSpec(s) ==
  [image |-> s.customSchedulerImage, schedulerName |-> "default-scheduler"]

ExtensionSpec(s) ==
  [image |-> s.schedulerExtensionImage, schedulerName |-> "neuron-scheduler"]

(***************************************************************************)
(* SetNodeMetricsAsDesired: nothing of it depends on the DeviceConfig's    *)
(* spec; its image is the empty constant metricsImage and its pods wait    *)
(* for the label KMM puts on nodes whose kernel module is loaded.          *)
(***************************************************************************)
MetricsSpec == [image |-> "", nodeSelector |-> "kernel-module-ready"]

Desired(k, s) ==
  CASE k = "module"    -> ModuleSpec(s)
    [] k = "scheduler" -> SchedulerSpec(s)
    [] k = "extension" -> ExtensionSpec(s)
    [] k = "metrics"   -> MetricsSpec

(***************************************************************************)
(* The contents of an object of the same name that somebody else made or   *)
(* edited: none of the operator's fields.                                  *)
(***************************************************************************)
Blank(k) ==
  IF k = "module"
    THEN [kernelMappings |-> Absent, devicePluginImage |-> Absent,
          imageRepoSecret |-> Absent, selector |-> {}]
  ELSE IF k = "metrics"
    THEN [image |-> Absent, nodeSelector |-> Absent]
    ELSE [image |-> Absent, schedulerName |-> Absent]

(***************************************************************************)
(* Every contents an object of kind k can have: what some DeviceConfig     *)
(* asks for, what somebody else left there, and mixtures of these.         *)
(***************************************************************************)
ModuleContents ==
  [kernelMappings    : {KernelMappings(s) : s \in DeviceConfigSpec} \cup {Absent},
   devicePluginImage : Images \cup {Absent},
   imageRepoSecret   : Secrets \cup {Absent},
   selector          : SUBSET Labels]

MetricsContents ==
  [image        : {MetricsSpec.image, Absent},
   nodeSelector : {MetricsSpec.nodeSelector, Absent}]

SchedulerContents ==
  [image         : Images \cup {Absent},
   schedulerName : {"default-scheduler", "neuron-scheduler", Absent}]

Contents(k) ==
  IF k = "module" THEN ModuleContents
  ELSE IF k = "metrics" THEN MetricsContents
  ELSE SchedulerContents

-----------------------------------------------------------------------------
(***************************************************************************)
(* client.Patch decodes the server's answer into the DeviceConfig it was   *)
(* called with.  A field that the answer leaves out (every field is        *)
(* omitempty: false, no secret, no selector) keeps the value it had, and   *)
(* the keys of a map are added to those that are there.                    *)
(***************************************************************************)
DecodedField(old, new) == IF new = Absent THEN old ELSE new

DecodedMap(old, new) == IF Absent \in {old, new} THEN DecodedField(old, new)
                                                 ELSE old \cup new

DecodedSpec(copy, answer) ==
  [answer EXCEPT !.useInTreeDrivers = copy.useInTreeDrivers \/ @,
                 !.imageRepoSecret  = DecodedField(copy.imageRepoSecret, @),
                 !.selector         = DecodedMap(copy.selector, @)]

-----------------------------------------------------------------------------
(***************************************************************************)
(* client.MergeFrom: the patch names the fields in which the wanted        *)
(* contents differ from the copy the client started from, and the server   *)
(* applies it to whatever the object is by then; no resource version is    *)
(* sent along.  Lists are replaced, maps are merged key by key.            *)
(***************************************************************************)
MergeMap(base, want, live) == (live \ (base \ want)) \cup (want \ base)

MergeField(base, want, live) == IF base # want THEN want ELSE live

MergePatch(base, want, live) ==
  [f \in DOMAIN want |->
     IF f = "selector" THEN MergeMap(base[f], want[f], live[f])
                       ELSE MergeField(base[f], want[f], live[f])]
=============================================================================
