# A TLA+ model of the hybrid application assembler

This directory is a verification development of `ham-application-assembler`, an operator that
runs on a hub cluster and turns discovered or listed components into Applications, Deployables
and PlacementRules. It holds TLA+ models of its three controllers and of the two that work on the
same Applications together, an abstract specification of what assemblers promise each other, TLC
instances of them, and TLAPS proofs about each. `PROJECT.json` is the machine-readable index:
components, runs, mutants, hazards, findings, theorems, and the source lines each definition
stands for.

## The system

One process (`cmd/manager/main.go`) runs three controllers, each with one worker and one work
queue. They share no memory but one global map; they interact through objects of the API server.
A controller reads most kinds through the manager's informer caches, which lag, each kind on its
own; it writes to the server, which refuses an Update of a copy that is not current. A worker is
therefore never alone: between any two of its calls users, other operators, the garbage collector
and the other two controllers may write, and what it reads may already be old.

| Part | Source | State | Operations |
|---|---|---|---|
| ApplicationAssembler controller | `pkg/controller/applicationassembler/` | the locals of a reconcile, its queue | get or create the Application, make it select its own label, per component make or label a Deployable and its PlacementRule, mark the component as hosted, write the phase |
| Application controller | `pkg/controller/application/` | the same | keep a ManifestWork with the Application on each cluster that discovery targets, make an assembler of what was discovered, complete the annotations, write the component list and the relationships ConfigMap, clean up after a deletion |
| Deployable mapper | `application/hybrid_deployable_mapper.go` | none | from a Deployable that appeared or disappeared to one Application to reconcile |
| CustomResourceDefinition controller | `pkg/controller/customresourcedefinition/`, `pkg/utils/helper.go` | the global `GVKGVRMap` | rebuild the map when a kind is new or gone |
| API types | `pkg/apis/tools/v1alpha1/` | ApplicationAssembler: spec, phase, annotations | - |
| Manager | `cmd/manager/main.go`, `pkg/controller/*.go` | - | start, leader election, metrics |

How they interact:

- The Application controller creates the ApplicationAssembler of an Application; its watch queues
  it for the assembler controller.
- The assembler controller writes the selector of the Application (a label with the
  Application's UID) and Deployables with that label; the first write and every new Deployable
  queue the Application for the Application controller, which lists them in its status.
- The assembler controller finds the kinds of hub components in the map of the CRD controller,
  and retries until they are there.
- Outside: the placement rule operator decides on PlacementRules, the deployable operator deploys
  Deployables, discovery operators on managed clusters report ManifestWorks.

What is hard here: writes from stale copies, on objects that several assemblers share; creations
decided on a cache that has not seen the previous creation; errors that end a reconcile half way,
or that are logged and forgotten; retries that take another path than the first attempt; restarts
between two writes; deletion without finalizers; events that are filtered out and never repeated.
`hazards` of `PROJECT.json` lists each at its line.

What makes each part correct:

- *Assembler*: a Deployable keeps the labels and templates of everybody; what it names exists and
  selects the right thing; a ManifestWork is marked before its Deployable exists; an assembler
  whose components can be found is assembled in the end.
- *Application*: the annotations say "completed" only of an assembler that was made for this
  Application; a user's edit survives; discovery reaches each targeted cluster; the status becomes
  the set of Deployables there are; what was made for an Application goes with it.
- *Both application controllers*: neither undoes what the other writes into the Application; an
  Application taken over ends up with labelled Deployables, and lists them in its status.
- *Relationships*: the ConfigMap, put together from four cached reads, is a connected graph.
- *CRD*: the map holds what discovery serves, in the end.

## Modules

| Module | What it is |
|---|---|
| `AssemblerController` | the ApplicationAssembler controller |
| `DeployableRegistry` | abstract: what assemblers promise about the Deployables and rules they share |
| `AssemblerProofs` | theorems about `AssemblerController`, proved with TLAPS |
| `RegistryProofs` | the proof that it implements `DeployableRegistry` |
| `AssemblerRestProofs` | the proof that the work is done whenever nothing is left to do |
| `ApplicationController` | the Application controller and the Deployable mapper |
| `ApplicationProofs` | theorems about it |
| `ApplicationRestProofs` | the proofs that the status is right, and discovery complete, whenever nothing is left to do |
| `HybridApp` | both of these controllers over one set of objects, caches and watches |
| `HybridProofs` | theorems about it |
| `HybridRestProofs` | the proofs that both controllers' work on an Application is done whenever nothing is left to do |
| `CrdController` | the CRD controller and `GVKGVRMap` |
| `CrdProofs` | theorems about it |
| `MCAssembler`, `MCApplication`, `MCHybrid`, `MCCrd` | TLC instances; the `.cfg` files are the runs |

### How the models correspond to the code

A reconcile is a program counter `pc` (the next call), a record `job` (its local variables) and
**one action per call that reads a cache or writes**; what the code computes between two calls is
part of the action. The result of a call is a disjunct: success, not found, conflict, already
exists. `Fail` is the error return, and what follows it is what the code does with the error:
`concludeReconcile` in the assembler controller, a requeue in the other.

- *Caches.* For every kind that the controller also writes or watches there is a second variable
  (`cApp` of `app`, and so on), which a `Sync` action brings up to date, kind by kind, and queues
  what the watch and its predicate let through. Kinds that the controller only reads (Deployers,
  ManagedClusters, the kind map) have no cache of their own: they change at any time, and a late
  view of a change is a later change.
- *resourceVersion.* A copy is current when it equals the stored object. Records carry what is
  needed to tell objects apart (`uid`, `born`, `rev`), so that one deleted and created again is
  not its predecessor. In `HybridApp` every change of an Application raises `rev`: two workers and
  a user write it, and the status cleared by a failed Update could otherwise be the cached one again,
  which no watch would tell. An Update that changes nothing does not raise it, as at the API server.
- *Stamps.* Deployables in `ApplicationController` and definitions in `CrdController` keep a stamp
  when they are deleted: a watch delivers that something came and went, though the cached content
  is the same before and after.
- *The order of lists is arbitrary*: `selectDeployer`, `locateAppManifestWork`, the placement rule
  that is reused and the mapper's Application are nondeterministic choices.
- *Faults.* A call may fail before or after it took effect (`ApiFault`); an error that is only
  logged lets the reconcile go on (`ToleratedFault`; in the assembler, the patch of a hub object).
  `Crash` and `Panic` restart the process: caches listed anew, every object queued. The panics are
  those of the code: `Manifests[0]` of an empty list, a nil `placementRef`.
- *Names.* `NameOf` gives the generated Deployable name of a component. It need not be injective,
  since names are cut at 63 characters and do not contain the assembler.
- *Phases.* The constant `ApplicationAssemblerPhaseCompleted` of the types is never written: success
  writes the empty phase, which is `"ok"` here.
- *Targets.* `reconcileAppManifestWorkOnTarget` compares the kind and version of the target with
  those of an empty ManagedCluster, which are empty strings: any target that names a kind, even
  "ManagedCluster", is unsupported. A target here is a cluster (by name only), unsupported or
  malformed text.

- *Owners.* `SetControllerReference` refuses an Application that has another controller already, and
  the code logs that error only: the selector is written all the same, and the reconcile goes on.
  `foreign` marks such an Application, which users or controllers make (`ApplyApplication`) or turn
  theirs into (`EditApplication`), and which no assembler ever owns (`TakenOver`, and `OwnerOf` in
  `HybridApp`).

- *Relationships.* `Related(v)` is the graph that `buildRelationshipsConfigmap` writes, for a view
  `v` of what the caches hold of placement rules and of ManifestWorks and virtual machines (nothing
  else in the controller reads those, so any view is possible). `Anchored` are the Deployables
  whose `placementRef` names a namespace: the code looks the rule up in that namespace, and the
  reference that the assembler controller writes has none, so below such a Deployable there is
  nothing in the ConfigMap. A ManifestWork is related only when its cluster is in the decisions
  of the rule; a virtual machine is looked for only when a decision names its Deployer.

### The composition

`HybridApp` is not a conjunction of the two component modules: each of those has every call of its
worker and treats the other controller as part of the environment. `HybridApp` has both workers,
each with its own queue, program counter and locals, over *one* store and *one* set of informer
caches, and only the calls by which one worker affects the other: the assembler made from an
Application, the Application taken over (owner, selector), Deployables made and labelled, the
annotations completed, the status. Components of managed clusters, placement rules, ManifestWorks
and ConfigMaps stay with the component modules; so do errors that are only logged.

A component is `<<c, 0>>`, the Deployable made for it `<<c, 1>>`. An Application that was taken over
selects its own Deployables; when it asks for an assembler again, these become components, and
Deployables are made for Deployables (`<<c, 2>>`): the code does not stop that, the constant
`Depth` does. Users may list both too (`Lists`). The Application controller reads the Application at
its start and looks for its assembler later, after it has written the ManifestWorks: two reads, of
caches that may have moved in between (`StartApplication`, `LookForAssembler`). The watch of Deployables filters updates, so a label that is added to an existing
Deployable tells nobody: `first` is the label that the creation carried, and `EventuallyListed`
promises only what the watch tells. The status that `updateApplication` writes after its Update
is the stored one, unless the Update failed of something transient: then it clears the list
(`ApiFault`).

### The abstract specification

`DeployableRegistry` has two variables, `entry` (labels, templates, placement of a Deployable) and
`rule`, and four actions: a rule is made, an entry is published, extended, withdrawn. The
refinement mapping hides everything else: caches, drafts, retries, conflicts, the worker, the
decisions on rules and the resource versions (`EntryOf`, `RuleOf` in `AssemblerController`).
That every step of the assemblers is one of these, or a stutter, says that the reads, the rule,
the patch and the write of a Deployable, spread over many steps, have one atomic effect.

`made` (the Applications, by uid, for which the controller created an assembler), `missed` (the
last rebuild of the map failed or read a discovery that lagged) and `lost` (the assemblers whose
Application somebody else deleted, collected or wrote since they last took it over) are history
variables: properties read them, no guard does.

Every model has an `Event` constant, the kinds of things that other actors may do, and `MaxEvents`,
how many of them happen. The worker, the caches, decisions on placement rules and discovery are
not counted.

## Runs

| Run | Instance | Checks |
|---|---|---|
| `shared` | two symmetric assemblers, one component each, of a hub object, a remote object or a ManifestWork (with, without, or with an empty list of manifests); one deletion of a Deployable, object or ManifestWork, or one change of the Deployers | `TypeOK`, `LabelsKept`, `Labelled`, `PlacementSound`, `HostedBeforeDeployable`, `ImplementsRegistry` |
| `progress` | one assembler with a hub and a remote component, or without any; two events of eleven kinds (creation, edit, deletion and garbage collection; others apply, overwrite or drop the Application, and may own it; kinds, clusters, faults, restarts); no Deployers, since a new one can keep an assembler from succeeding (`hazards`) | `AssembledAtRest`, `EventuallyAssembled` |
| `completion` | one Application, two clusters of which one is ignored, one Deployable delivered by two ManifestWorks (one empty), two discovered ManifestWorks (one empty), all event kinds, two events | `TypeOK`, `CompletionSound`, `RelationsRooted`, `EditsKept` |
| `settles` | one Application, cluster, discovered ManifestWork and Deployable, the last without placementRef, so that relating it always panics; creation, edit, deletion, Deployables, faults, restarts, two events | `StatusAtRest`, `SearchedAtRest`, `EventuallySearched`, `EventuallyCurrent` |
| `hybrid` | both controllers, one Application, of a user or of a foreign controller, and its assembler; one hub object and Deployables of Deployables (`Depth = 2`), so that a list holds the object, its Deployable, or both; nine kinds of events (users apply, list, edit, delete; garbage collection; faults, restarts), two events | `TypeOK`, `TakenAtRest`, `ListedAtRest`, `WritesKept`, `EventuallyListed`, `EventuallyTaken` |
| `instep` | two kinds of two versions; definition, new version, removal, lag, fault, restart, three events | `TypeOK`, `NoneForgotten`, `EventuallyInStep` |
| `worklabel`, `decision`, `cleanup`, `recorded`, `configmap`, `version` | the smallest instance that shows each finding; `recorded` is one of `HybridApp` | one violated property each |

*Why the bounds are enough.* The hazards are races of one reconcile with one other actor, or of two
reconciles on one object: two assemblers and one component of each kind are enough to share a
Deployable or a placement rule, and to meet a stale copy of either. One worker runs one reconcile
at a time, so a third assembler adds requests and no new overlap. Two events allow something to
happen and to be undone, or a fault on top of a change; the worker's own steps and the ages of the
caches are unbounded. `Copy = {1, 2}` lets one Application have two ManifestWorks on a cluster (a
duplicate from a stale list); the action that makes a third is not enabled in the model, and the
violated runs need one only. In `hybrid` two events let a user delete and apply again, or edit while a
call fails, or list a component and its Deployable and then delete the former, at which every later
reconcile stops; what is said of every state, and of more events, is proved.
A virtual machine (`PlaceOf` = "deployer") is in the model and not in the instance: it takes the
path of a ManifestWork without the manifest at its end.

*Reduction.* `shared` and `completion` use an action constraint, `JustInTime`: a change of a kind,
in the store or its cache, is explored only just before a call of the worker that reads or writes
that kind. The worker sees the store and the caches only at its calls, and changes of different
kinds commute, so a behaviour with an earlier change has one with the same calls and results in
which the change comes later. Clusters, which several calls of the Application controller look
at, change before any of them. An event of another actor cannot falsify the properties
of these runs at its own step: they speak of objects that exist, and the events delete objects or
give them a new identity. Only the worker's calls can, and those see every order. The proofs, which
have no such constraint, cover every property of both runs.
`shared` also uses the symmetry of the two assemblers (no liveness is checked
there). The liveness runs, and `hybrid`, use neither.

No run checks for deadlock: with nothing to do and every event used up, the system rightly stops.

*Mutants.* Next to an action stands, where there is one, a version with a plausible bug (a write
without resourceVersion, an error that is ignored, a label forgotten, a comparison left out);
`PROJECT.json` says which property each breaks. No specification uses them.

## Fairness

- `WF(Reconcile)`: the worker's goroutine does not stop in the middle of a reconcile. In `HybridApp`,
  one for each worker (`Assemble`, `Discovering`): they are goroutines of their own.
- `SF(Start(a))` (`StartAssembler`, `StartApplication`): the work queue is a FIFO, and a failed request is added again after a back-off
  that is finite; a request that is queued again and again is taken again and again.
- `WF` of every `Sync`: informers deliver in the end, kind by kind.
- `WF(Decide)`: the placement rule operator decides on a rule whose cluster is there. The code waits
  for it ("Retrying...").
- In `CrdController`, `WF(Publish)` and `WF(Establish)`: the API server establishes a definition and
  serves it in discovery.

Nothing is assumed of users, faults, restarts, garbage collection or discovery on managed clusters.

## What the runs show

Sharing is safe: with any staleness, an Update from an old copy meets a conflict, and neither labels
nor templates are lost; the Deployable path of ManifestWorks writes its mark first and stops when
that fails. An assembler whose components can be found ends up assembled, through conflicts, stale UIDs and
restarts, as every error that matters is requeued: its phase is ok, its Application is there, selects
its own label, and is owned by the assembler unless another controller has it. Nothing watches
Applications, so one that somebody else deletes or overwrites after it was taken over stays as it
is until the next reconcile; `Assembled` and `Settled` promise nothing of it (`lost`). A completed
annotation is never wrong, since an assembler that exists is an error and not a success. The component list converges although its update is never retried: the
watch has no predicate, so the write that caused the conflict queues the Application again.

The ConfigMap is always a graph that starts at the Application, although the Deployable, its rule and
what delivers it are read from caches of different ages. The component list converges even when
relating a Deployable takes the process down every time, as the status is written first.

What the liveness properties promise in the end, the invariants *at rest* say of each state: once
no request for an object is queued, in progress or about to come from a watch, what the worker owes
it is done. Nothing else would ever repeat the work, so a state at rest that is wrong stays wrong;
this is where a lost wake-up shows. `AssembledAtRest`, `StatusAtRest` and `SearchedAtRest` are these
of the two application controllers; `NoneForgotten` is that of the CRD controller, where a kind out
of step always has a rebuild under way. What no watch tells is excluded where it stands: Deployables
deleted behind the assembler's back (`"gone" \notin Event`), Applications that others delete or write
(`lost`), a status update that fails of no
conflict (`"tolerated" \notin Event`), ManifestWorks deleted by others and clusters that come and go
(`"work"`, `"cluster"`), and Deployables for which the mapper may queue another Application (`Sole`).

`TakenAtRest` and `ListedAtRest` say the same of `HybridApp`, where the other worker's writes are among
what may go wrong: the one, that the layout has been made for an Application that was taken over; the
other, that its status lists what the watch has told of. Both hold without condition for one
Application (`Alone`), which is the instance of the run. With several, the code does not keep them
against every event. A Deployable that a user deleted may be made again by another assembler, for
another Application and without the first one's label: `TakenAtRest` excludes that event. The mapper
tells one matching Application only, and an Application without a selector matches everything:
`ListedAtRest` excludes the events that create Applications anew or delete Deployables.

Together the two controllers do what neither module shows alone. An assembler listed by a user, or made
by discovery, takes the Application over (it owns it, or writes its selector where a foreign
controller does: `Owned`); if all its hub components are there, each gets its labelled Deployable; and
the Application's controller, which hears of Deployables from a filtered watch only, lists them
in the end, through conflicts between the two workers, restarts, and deletions of all three
objects. The other worker's writes survive: the copies meet conflicts.

Six statements of the repository are not what the code does (`findings`):

1. `worklabel`: a second assembler of a ManifestWork never gets its label on the Deployable.
2. `decision`: the gate "No decisions yet reached ... Retrying" is passed by the first retry, which
   reuses the undecided rule.
3. `cleanup`: an Application deleted while its ManifestWork is not in the cache yet leaves it behind.
4. `recorded`: the assembler controller may take the Application over between the creation of the
   assembler and the completion of the annotations. The conflict is requeued, but the next
   reconcile finds the assembler and skips the completion: the annotation stays "true", and
   discovery on, for good. It takes no failure, only the two controllers of the process.
5. `configmap`: a Deployable that the status lists before the cache holds it is never related.
6. `version`: a version added to a known kind never gets into the map.

## What is proved

Every safety property and action property that a passing run checks is also proved, for every
value of the constants that satisfies the assumptions of its module: sets of Applications,
assemblers, components, clusters and kinds of any size, any `NameOf`, any number of events, every
event kind, no action constraint and no symmetry.

| Theorem | Module | Property |
|---|---|---|
| `TypeCorrect`, `TypesOK` | `AssemblerProofs` | `TypeOK` |
| `LabelsNeverLost` | `AssemblerProofs` | `LabelsKept` |
| `ProcessedLabelled` | `AssemblerProofs` | `Labelled` |
| `PlacementAlwaysSound` | `AssemblerProofs` | `PlacementSound` |
| `HostedFirst` | `AssemblerProofs` | `HostedBeforeDeployable` |
| `RegistryImplemented` | `RegistryProofs` | `ImplementsRegistry` |
| `RestAssembled` | `AssemblerRestProofs` | `AssembledAtRest` |
| `TypeCorrect`, `TypesOK` | `ApplicationProofs` | `TypeOK` |
| `EditsNeverLost` | `ApplicationProofs` | `EditsKept` |
| `CompletionAlwaysSound` | `ApplicationProofs` | `CompletionSound` |
| `RelationsAlwaysRooted` | `ApplicationProofs` | `RelationsRooted` |
| `RestCurrent` | `ApplicationRestProofs` | `StatusAtRest` |
| `RestSearched` | `ApplicationRestProofs` | `SearchedAtRest` |
| `TypeCorrect`, `TypesOK` | `HybridProofs` | `TypeOK` |
| `WritesNeverLost` | `HybridProofs` | `WritesKept` |
| `RestTaken` | `HybridRestProofs` | `TakenAtRest` |
| `RestListed` | `HybridRestProofs` | `ListedAtRest` |
| `TypesOK` | `CrdProofs` | `TypeOK` |
| `NeverForgotten` | `CrdProofs` | `NoneForgotten` |

*`AssemblerController`.* The argument is one inductive invariant in layers:

- `TypeInv` = `TypeOK /\ Control`. `Control` says what a reconcile holds at each call (its request, a
  component of its layout, the Application, the kind of the object it read); without it not even
  the types are inductive, as `layout[i]` would be out of range.
- `DraftInv`: the Deployable being built has the label and contains the labels and templates of the
  copy it was built from. A write happens only when the copy is the stored object; with `DraftInv`,
  `LabelsKept` follows at that step.
- `Labelled` is inductive over `TypeInv` and `DraftInv`: the index advances past a component only
  when its label has been written, and nobody takes labels away.
- `PlacementInv` extends `PlacementSound` to every copy: cached Deployables, cached rules, and the
  draft. It is inductive because nothing deletes a placement rule or changes its spec, so that a
  stale copy of a rule is still a rule of that spec.
- `HostedInv` adds to `HostedBeforeDeployable` that the work whose Deployable is being built is
  marked already; the order of the two writes is what makes it inductive. The property is about
  works whose name no other component has: with colliding names it is false.

- `GrowthInv` (in `RegistryProofs`) says what the draft adds to the copy it was built from: exactly one
  label, and one template at most. With the other invariants a successful write is then `Publish`
  or `Extend`; the creation of a rule is `MakeRule`; every other step changes neither entries nor
  rules.

- `AssembledInv` (in `AssemblerRestProofs`) is what makes `AssembledAtRest` inductive. `RevisionInv`: the
  cached assembler and the copy a reconcile holds were stamped at an event that has happened, so that a
  change makes them differ from the stored one for good (without it, a change undone would look like
  none). `ForeignInv`: an Application with a foreign controller has no assembler as owner. `ProgressInv`: as
  long as the copy is the stored assembler, its Application is as it was taken over and the one being
  worked for, unless it is `lost`; a reconcile that ends well has gone through
  the whole layout. `MeddlingLoses` is the step of others: who touches an Application that is owned
  makes it lost. `ExistInv`: a Deployable that the cache holds, or that the reconcile made,
  is in the store, if nobody deletes any. A component gone through is then labelled by `Labelled`.

`PlacementSound` rests on the assumption, part of the model, that no user deletes or edits a
PlacementRule: the code never does, and has no way to notice.

*`ApplicationController`.*

- `Control` says that a reconcile holds a request, and an Application at every call but those of the
  cleanup, where the Application is gone.
- `ApplicationWrites`: of all steps of the controller only two change an Application, and both need
  the copy they hold to be the stored object. A user's edit makes the copy old, so `EditsKept` follows
  without an invariant of its own.
- `CompletionSound` is not inductive: the copy that the reconcile is about to complete could be one
  of an Application whose assembler was never made. `CompletionInv` says it of every copy, stored,
  cached or held, and that at `annotate` the Application held is in `made`. It is inductive because
  `made` only grows and Applications are told apart by `uid`, also when the name is used again.
- `RelationsRooted` follows from the construction alone: `RelatedRooted` shows that `Related(v)` is rooted
  for *every* view `v`, so no cache needs to agree with another.

- `SettledInv` (in `ApplicationRestProofs`) does the same for `StatusAtRest` and `SearchedAtRest`. An Application
  is `Renewed` if the worker will come back to it. `HeldInv`: until the status is written, the worker
  holds the Application as it is stored, or it is renewed. `PartsInv`: the list about to be written
  agrees with the Deployables that the watch has caught up with, or the watch has told of the
  difference. `WrappedInv`: each cluster the reconcile has passed has its ManifestWork of the
  revision held. `RestInv`: an Application on which nothing is to be written is renewed, or right.
  `StampInv` is again what makes a change that is undone differ from none.

*`CrdController`.* `ForgottenInv` adds to `NoneForgotten` that definitions, and their cached copies, were
stamped at an event that has happened, so that the watch sees a definition that was removed and made again.
A process whose first discovery fails starts without a map, and counts as `missed`.

*`HybridApp`.*

- `Control` again types what both workers hold; it also needs every layout to list only components
  that a Deployable can be made for (`Makeable`), also in the copy of the cache, or
  the assembler's worker would leave `Depth`.
- `ApplicationWrites` lists the four calls of two workers that write an Application: one creates it
  where none is, the others write fields of their own into a copy that is current. `Rewritten`
  shows that each keeps what the others own; `WritesKept` is that, step by step.

- `TakenInv` (in `HybridRestProofs`) carries `TakenAtRest`. `FreshInv`: a reconcile of the assembler
  works from the cached assembler, or its request is queued again, and one that failed says so.
  `CarriedInv`: as long as the Application is the assembler's, it is the one that the reconcile took
  over, and the components gone through are `Served`. `ServedInv`: between reconciles, an Application
  owned by the cached assembler has everything served, or a request.
- `ListedInv` carries `ListedAtRest`. An Application is `Renewed` if the worker will come back to it: it
  is queued, or the cached one is not the stored one. `RevisionInv` and `StampInv`: no copy is newer than
  what is stored, so one that differs is never equal again. `HeldInv`: the worker holds the Application as
  it is, or it is renewed; so a status that is written from an old list is followed by another reconcile,
  because the write itself raises `rev`. `LabelInv`: a Deployable has the label it was made with, and
  none of an Application that was not taken over yet. `SelectorInv`: where no Application is
  deleted, none lacks a selector, so the mapper tells the right one. `RightInv`: an Application the worker
  is not at is renewed, or right.

`AbsentAssumption` in three modules says that `Absent` is none of the records (nor a number): TLC takes it for
granted of a model value, and the provers must be told. The invariants at rest were checked by TLC,
and so were the inductive invariants behind them, on the instances of their runs, before they were proved.

*Only model-checked*: that the controllers come to rest, hence every liveness property (`EventuallyAssembled`, `EventuallySearched`,
`EventuallyCurrent`, `EventuallyListed`, `EventuallyTaken`, `EventuallyInStep`), as fairness and ENABLED
are out of the prover's reach, and the six violations, which are counterexamples.

## What is not modelled

- The text of names, templates and labels; `selectDeployer`'s match of scope, groups and
  resources, which the constant `Serves` stands for; group kinds and namespaces of components, with
  them the list of all namespaces that follows one of a single namespace that failed
  (`application_status.go:153`). A kind without a mapping is modelled (`Unmapped`).
- That nobody deletes or edits a PlacementRule is assumed, as said above.
- The data race on the `GVKGVRMap` pointer, beyond that it may change between two calls.
- In `HybridApp`: components of managed clusters, and errors of the Application controller that are
  only logged (both are in the component modules; after such an error nothing repeats the reconcile, so
  `ListedAtRest` and `EventuallyListed` would not hold, nor does the code say they should).
- Leader election (a library, which keeps a second process from starting its controllers), metrics, scheme registration, generated code, deployment files.

## Plan

1. Done: `AssemblerController` and its proofs, `ApplicationController`, `CrdController`.
2. Done: `HybridApp`, the composition of the assembler and Application controllers;
   `DeployableRegistry`, checked and proved; the relationships ConfigMap.
3. Done: the proofs of the safety properties of all four modules; the invariants at rest of the
   three controllers and of the composition.
4. Left: that `HybridApp`'s calls are those of the component modules (a refinement between each
   worker of `HybridApp` and its module, which needs the finer calls hidden and the other worker
   mapped to the environment), and `selectDeployer` as an operator over Deployers with scope and
   capabilities, in place of `Serves`.
