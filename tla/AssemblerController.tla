------------------------- MODULE AssemblerController -------------------------
(***************************************************************************)
(* The ApplicationAssembler controller: one worker that turns the spec of  *)
(* an ApplicationAssembler into an Application, the Deployables of its     *)
(* components and their PlacementRules                                     *)
(* (src/pkg/controller/applicationassembler/).                             *)
(*                                                                         *)
(* The worker reads the kinds it lists or gets through the manager's       *)
(* informer caches, which lag behind the API server, and writes to the     *)
(* server, which refuses an Update whose resourceVersion is not current.   *)
(* A resourceVersion is not modelled as a number: a copy is current        *)
(* exactly when it equals the stored object (uid and born tell an object   *)
(* from one created again), and a conflict with a change of a field that   *)
(* is not modelled is a fault of the call.                                 *)
(***************************************************************************)
EXTENDS Naturals, Sequences

CONSTANTS
    Assembler,      \* ApplicationAssembler objects; an Application has the name of its assembler
    HubObject,      \* components that live in the hub cluster
    RemoteObject,   \* components named by kind and name on a managed cluster
    Work,           \* components given as a ManifestWork of a managed cluster
    HdplName,       \* names of Deployables; a PlacementRule has the name of a Deployable
    NameOf,         \* the Deployable name generated for a component (not injective: names are truncated)
    Cluster,        \* managed clusters
    ClusterOf,      \* the managed cluster of a remote component
    DeployerType,   \* types of deployers
    DefaultType,    \* "kubernetes"
    Deployer,       \* in-cluster Deployer objects
    TypeOf,         \* spec.type of a Deployer
    Serves,         \* the hub objects a Deployer's scope and capabilities cover
    Override,       \* the deployer-type annotation of a component, or Absent
    Manifests,      \* the shapes a ManifestWork's spec.workload.manifests can have
    Layout,         \* the component lists an assembler's spec can hold
    Adopted,        \* assemblers whose Application exists before them
    Event,          \* the things other actors may do in this instance
    MaxEvents,      \* bound on how many of them happen
    Absent          \* no object, no value

Component == HubObject \cup RemoteObject \cup Work

\* What a PlacementRule selects: the clusters of a deployer type, or one cluster.
RuleSpec == DeployerType \cup Cluster

EventKind == {"create", "edit", "delete", "collect", "apply", "override", "drop", "gone",
              "object", "work", "deployer", "cluster", "kind", "fault", "crash"}

ASSUME NamesAssumption ==
    /\ NameOf \in [Component -> HdplName]
    /\ ClusterOf \in [RemoteObject \cup Work -> Cluster]
    /\ HubObject \cap (RemoteObject \cup Work) = {}
    /\ RemoteObject \cap Work = {}
    /\ DeployerType \cap Cluster = {}

ASSUME DeployersAssumption ==
    /\ DefaultType \in DeployerType
    /\ TypeOf \in [Deployer -> DeployerType]
    /\ Serves \in [Deployer -> SUBSET HubObject]
    /\ Override \in [HubObject \cup Work -> DeployerType \cup {Absent}]

ASSUME LayoutAssumption ==
    \A l \in Layout : l \in Seq(Component)

ASSUME AbsentAssumption ==
    /\ Absent \notin RuleSpec
    /\ Absent \notin [spec: RuleSpec, decided: BOOLEAN]
    /\ Absent \notin [labels: SUBSET (Assembler \X Nat), templates: SUBSET DeployerType,
                       placement: HdplName \cup {Absent}]
    /\ Absent \notin [born: Nat, labels: SUBSET (Assembler \X Nat),
                       templates: SUBSET DeployerType, placement: HdplName \cup {Absent}]
    /\ Absent \notin [uid: Nat, rev: Nat, layout: Layout, phase: {"ok", "Failed"}]
    /\ Absent \notin [uid: Assembler \X Nat, rev: Nat, foreign: BOOLEAN, owner: Nat \cup {Absent},
                       selects: BOOLEAN]

ASSUME BoundsAssumption ==
    /\ Manifests \subseteq {"none", "empty", "some"}
    /\ Adopted \subseteq Assembler
    /\ Event \subseteq EventKind
    /\ MaxEvents \in Nat

VARIABLES
    \* the API server
    asm,        \* ApplicationAssemblers
    app,        \* Applications
    hdpl,       \* Deployables
    rule,       \* PlacementRules
    obj,        \* the hub objects that are components
    work,       \* ManifestWorks that are components
    deployers,  \* installed Deployers
    clusters,   \* joined ManagedClusters
    mapped,     \* hub objects whose kind is in GVKGVRMap
    lost,       \* history: assemblers whose Application somebody else took away or changed
                \* since they last took it over
    \* the informer caches of the kinds this controller also writes or watches
    cAsm, cApp, cHdpl, cRule, cWork,
    \* the controller
    queue,      \* its work queue
    pc,         \* the next call of the reconcile in progress
    job,        \* the local variables of that reconcile
    \* the environment
    events      \* how many events happened

world  == <<deployers, clusters, mapped, lost>>
caches == <<cAsm, cApp, cHdpl, cRule, cWork>>
vars   == <<asm, app, hdpl, rule, obj, work, world, caches, queue, pc, job, events>>
-----------------------------------------------------------------------------
(***************************************************************************)
(* Objects.  A uid is the name of the owner and the event count at the     *)
(* time of creation, so an Application created again has another uid.      *)
(* rev is the event that last edited an object.  foreign: the Application  *)
(* has a controller that is no assembler.                                  *)
(***************************************************************************)
Uid == Assembler \X Nat

AssemblerObject == [uid: Nat, rev: Nat, layout: Layout, phase: {"ok", "Failed"}]
Application     == [uid: Uid, rev: Nat, foreign: BOOLEAN, owner: Nat \cup {Absent},
                    selects: BOOLEAN]
Deployable      == [born: Nat, labels: SUBSET Uid, templates: SUBSET DeployerType,
                    placement: HdplName \cup {Absent}]
PlacementRule   == [spec: RuleSpec, decided: BOOLEAN]
Object          == [host: HdplName \cup {Absent}]
ManifestWork    == [host: HdplName \cup {Absent}, manifests: {"none", "empty", "some"}]

Maybe(S) == S \cup {Absent}

NewApplication(uid, foreign) ==
    [uid |-> uid, rev |-> 0, foreign |-> foreign, owner |-> Absent, selects |-> FALSE]

NewDeployable == [born |-> 0, labels |-> {}, templates |-> {}, placement |-> Absent]

\* The locals of Reconcile: the request, the copies it read and the object it is building.
Job == [name: Maybe(Assembler), inst: Maybe(AssemblerObject), app: Maybe(Application),
        i: Nat \ {0}, copy: Maybe(Deployable), draft: Deployable, want: Maybe(RuleSpec),
        seen: Maybe(Object \cup ManifestWork), ok: BOOLEAN]

NoJob == [name |-> Absent, inst |-> Absent, app |-> Absent, i |-> 1, copy |-> Absent,
          draft |-> NewDeployable, want |-> Absent, seen |-> Absent, ok |-> TRUE]

\* "ok" of an assembler stands for the empty phase.
PC == {"idle", "app", "selector", "next", "patchWork", "rule", "check", "patchObject",
       "write", "conclude"}

\* The component being processed, and the name of its Deployable.
Current == job.inst.layout[job.i]
Name    == NameOf[Current]
InLoop  == pc = "next" /\ job.i <= Len(job.inst.layout)

Fail == pc' = "conclude" /\ job' = [job EXCEPT !.ok = FALSE]
Advance == pc' = "next" /\ job' = [NoJob EXCEPT !.name = job.name, !.inst = job.inst,
                                               !.app = job.app, !.i = job.i + 1]
-----------------------------------------------------------------------------
(***************************************************************************)
(* The reconcile, one action per call that reads a cache or writes.        *)
(***************************************************************************)
\* The request is taken; an assembler the cache does not hold needs nothing.
Start(a) ==
    /\ pc = "idle" /\ a \in queue
    /\ queue' = queue \ {a}
    /\ \/ /\ cAsm[a] = Absent
          /\ UNCHANGED <<pc, job>>
       \/ /\ cAsm[a] # Absent
          /\ pc' = "app"
          /\ job' = [NoJob EXCEPT !.name = a, !.inst = cAsm[a]]
    /\ UNCHANGED <<asm, app, hdpl, rule, obj, work, world, caches, events>>

\* The Application of that name is found in the cache, or created to learn its UID.
GetOrCreateApplication ==
    /\ pc = "app"
    /\ LET a   == job.name
           new == NewApplication(<<a, events>>, FALSE)
       IN \/ /\ cApp[a] # Absent
             /\ pc' = "selector" /\ job' = [job EXCEPT !.app = cApp[a]]
             /\ UNCHANGED app
          \/ /\ cApp[a] = Absent /\ app[a] = Absent
             /\ app' = [app EXCEPT ![a] = new]
             /\ pc' = "selector" /\ job' = [job EXCEPT !.app = new]
          \/ /\ cApp[a] = Absent /\ app[a] # Absent      \* AlreadyExists
             /\ Fail /\ UNCHANGED app
    /\ UNCHANGED <<asm, hdpl, rule, obj, work, world, caches, queue, events>>

\* Mutant: an Application with another controller is left alone, and the error forgotten.
TakenOver_leavesForeign(x) ==
    IF x.foreign THEN x ELSE [x EXCEPT !.owner = job.inst.uid, !.selects = TRUE]

\* SetControllerReference refuses an Application with another controller, and the error is
\* logged only; a reference to an assembler of that name is replaced.
TakenOver(x) ==
    [x EXCEPT !.owner = IF x.foreign THEN @ ELSE job.inst.uid, !.selects = TRUE]

\* Owner reference and selector are written; a stale copy meets a conflict.
UpdateApplication ==
    /\ pc = "selector"
    /\ \/ /\ app[job.name] = job.app
          /\ app' = [app EXCEPT ![job.name] = TakenOver(job.app)]
          /\ lost' = lost \ {job.name}
          /\ pc' = "next" /\ UNCHANGED job
       \/ /\ app[job.name] # job.app
          /\ Fail /\ UNCHANGED <<app, lost>>
    /\ UNCHANGED <<asm, hdpl, rule, obj, work, deployers, clusters, mapped, caches, queue, events>>

\* selectDeployer takes the first Deployer of a cached list, whose order is arbitrary.
SelectableTypes(o) ==
    LET serving == {d \in deployers : o \in Serves[d]}
    IN IF serving = {} THEN {DefaultType} ELSE {TypeOf[d] : d \in serving}

\* The annotation of the component wins over the deployer's type, in the template only.
TemplateType(c, t) == IF Override[c] = Absent THEN t ELSE Override[c]

\* Mutant: the label carries the application's name instead of its UID.
WithTemplate_nameLabel(old, t) ==
    [(IF old = Absent THEN NewDeployable ELSE old)
        EXCEPT !.labels = @ \cup {job.name}, !.templates = @ \cup {t}, !.placement = Absent]

\* hdpl with the application's label and the template of type t, as it will be written.
WithTemplate(old, t) ==
    [(IF old = Absent THEN NewDeployable ELSE old)
        EXCEPT !.labels = @ \cup {job.app.uid}, !.templates = @ \cup {t}, !.placement = Absent]

\* A hub component: the kind must be mapped and the object exist; template and label are set.
FromObject ==
    /\ InLoop /\ Current \in HubObject
    /\ LET o == Current
           old == cHdpl[Name]
       IN \/ /\ o \notin mapped \/ obj[o] = Absent
             /\ Fail
          \/ /\ o \in mapped /\ obj[o] # Absent
             /\ \E t \in SelectableTypes(o) :
                   job' = [job EXCEPT !.copy = old, !.draft = WithTemplate(old, TemplateType(o, t)),
                                      !.want = t, !.seen = obj[o]]
             /\ pc' = "rule"
    /\ UNCHANGED <<asm, app, hdpl, rule, obj, work, world, caches, queue, events>>

\* Mutant: a Deployable that exists is taken for done, as on the ManifestWork path.
FromObjectInManagedCluster_noLabel ==
    /\ InLoop /\ Current \in RemoteObject
    /\ \/ /\ cHdpl[Name] # Absent
          /\ Advance
       \/ /\ cHdpl[Name] = Absent
          /\ job' = [job EXCEPT !.draft = WithTemplate(Absent, DefaultType), !.want = ClusterOf[Current]]
          /\ pc' = "rule"
    /\ UNCHANGED <<asm, app, hdpl, rule, obj, work, world, caches, queue, events>>

\* A component named on a managed cluster: an existing Deployable only gets the label,
\* a new one is built around a template made from the reference.
FromObjectInManagedCluster ==
    /\ InLoop /\ Current \in RemoteObject
    /\ LET old == cHdpl[Name]
       IN \/ /\ old # Absent
             /\ job' = [job EXCEPT !.copy = old, !.draft = [old EXCEPT !.labels = @ \cup {job.app.uid}]]
             /\ pc' = "write"
          \/ /\ old = Absent
             /\ job' = [job EXCEPT !.draft = WithTemplate(Absent, DefaultType),
                                   !.want = ClusterOf[Current]]
             /\ pc' = "rule"
    /\ UNCHANGED <<asm, app, hdpl, rule, obj, work, world, caches, queue, events>>

\* A component given as a ManifestWork: nothing is done when its Deployable exists.
FromManifestWork ==
    /\ InLoop /\ Current \in Work
    /\ LET mw == cWork[Current]
       IN \/ /\ mw = Absent
             /\ Fail
          \/ /\ mw # Absent /\ mw.manifests # "empty" /\ cHdpl[Name] # Absent
             /\ Advance
          \/ /\ mw # Absent /\ mw.manifests # "empty" /\ cHdpl[Name] = Absent
             /\ job' = [job EXCEPT !.seen = mw]
             /\ pc' = "patchWork"
    /\ UNCHANGED <<asm, app, hdpl, rule, obj, work, world, caches, queue, events>>

\* Mutant: an error of the patch is logged and forgotten, as on the hub path.
PatchManifestWork_errorIgnored ==
    /\ pc = "patchWork"
    /\ \/ work[Current] = job.seen /\ work' = [work EXCEPT ![Current].host = Name]
       \/ UNCHANGED work
    /\ job' = [job EXCEPT !.draft = WithTemplate(Absent, TemplateType(Current, DefaultType)),
                          !.want = ClusterOf[Current]]
    /\ pc' = "rule"
    /\ UNCHANGED <<asm, app, hdpl, rule, obj, world, caches, queue, events>>

\* The hosting annotation goes on the ManifestWork; here a conflict ends the reconcile.
PatchManifestWork ==
    /\ pc = "patchWork"
    /\ LET m == Current
           t == TemplateType(m, DefaultType)
       IN \/ /\ work[m] = job.seen
             /\ work' = [work EXCEPT ![m].host = Name]
             /\ job' = [job EXCEPT !.draft = WithTemplate(Absent, t), !.want = ClusterOf[m]]
             /\ pc' = "rule"
          \/ /\ work[m] # job.seen
             /\ Fail /\ UNCHANGED work
    /\ UNCHANGED <<asm, app, hdpl, rule, obj, world, caches, queue, events>>

\* Building around a ManifestWork takes its first manifest.
HasManifest == Current \in Work => job.seen.manifests = "some"

AfterRule == IF Current \in HubObject THEN "patchObject" ELSE "write"

\* Mutant: any listed rule is reused, whatever its spec.
GenPlacementRule_anyRule ==
    /\ pc = "rule" /\ HasManifest
    /\ LET listed == {n \in HdplName : cRule[n] # Absent}
       IN \/ /\ \E n \in listed : job' = [job EXCEPT !.draft.placement = n]
             /\ pc' = AfterRule /\ UNCHANGED rule
          \/ /\ listed = {} /\ rule[Name] = Absent
             /\ rule' = [rule EXCEPT ![Name] = [spec |-> job.want, decided |-> FALSE]]
             /\ pc' = AfterRule /\ job' = [job EXCEPT !.draft.placement = Name]
    /\ UNCHANGED <<asm, app, hdpl, obj, work, world, caches, queue, events>>

\* Mutant: a rule of that name is brought up to date instead of refused.
GenPlacementRule_overwrites ==
    /\ pc = "rule" /\ HasManifest
    /\ LET matching == {n \in HdplName : cRule[n] # Absent /\ cRule[n].spec = job.want}
       IN \/ /\ \E n \in matching : job' = [job EXCEPT !.draft.placement = n]
             /\ UNCHANGED rule
          \/ /\ matching = {}
             /\ rule' = [rule EXCEPT ![Name] = [spec |-> job.want, decided |-> FALSE]]
             /\ job' = [job EXCEPT !.draft.placement = Name]
    /\ pc' = AfterRule
    /\ UNCHANGED <<asm, app, hdpl, obj, work, world, caches, queue, events>>

\* A PlacementRule with the wanted spec is looked up in the cache, whose list has no order;
\* any of that spec is reused, else one named like the Deployable is created.
GenPlacementRule ==
    /\ pc = "rule" /\ HasManifest
    /\ LET matching == {n \in HdplName : cRule[n] # Absent /\ cRule[n].spec = job.want}
       IN \/ /\ job.want \in Cluster \ clusters
             /\ Fail /\ UNCHANGED rule
          \/ /\ job.want \notin Cluster \ clusters
             /\ \E n \in matching : job' = [job EXCEPT !.draft.placement = n]
             /\ pc' = AfterRule /\ UNCHANGED rule
          \/ /\ job.want \notin Cluster \ clusters /\ matching = {} /\ rule[Name] = Absent
             /\ rule' = [rule EXCEPT ![Name] = [spec |-> job.want, decided |-> FALSE]]
             /\ \/ /\ job.want \in Cluster
                   /\ pc' = "check" /\ UNCHANGED job
                \/ /\ job.want \notin Cluster
                   /\ pc' = AfterRule /\ job' = [job EXCEPT !.draft.placement = Name]
          \/ /\ job.want \notin Cluster \ clusters /\ matching = {} /\ rule[Name] # Absent
             /\ Fail /\ UNCHANGED rule                     \* AlreadyExists
    /\ UNCHANGED <<asm, app, hdpl, obj, work, world, caches, queue, events>>

\* The rule just created for a cluster is read back; its decision must be that cluster.
CheckDecision ==
    /\ pc = "check"
    /\ LET decided == cRule[Name] # Absent /\ cRule[Name].spec = job.want /\ cRule[Name].decided
       IN \/ /\ decided
             /\ pc' = "write" /\ job' = [job EXCEPT !.draft.placement = Name]
          \/ /\ ~decided
             /\ Fail
    /\ UNCHANGED <<asm, app, hdpl, rule, obj, work, world, caches, queue, events>>

\* The hosting annotation goes on the hub object; an error is logged and forgotten.
PatchObject ==
    /\ pc = "patchObject"
    /\ obj' = IF obj[Current] = job.seen THEN [obj EXCEPT ![Current].host = Name] ELSE obj
    /\ pc' = "write"
    /\ UNCHANGED <<asm, app, hdpl, rule, work, world, caches, queue, job, events>>

\* Mutant: the Update carries no resourceVersion, so it overwrites whatever is stored.
WriteDeployable_unconditional ==
    /\ pc = "write"
    /\ \/ /\ (hdpl[Name] = Absent) = (job.copy = Absent)
          /\ hdpl' = [hdpl EXCEPT ![Name] =
                         IF job.copy = Absent THEN [job.draft EXCEPT !.born = events] ELSE job.draft]
          /\ Advance
       \/ /\ (hdpl[Name] = Absent) # (job.copy = Absent)
          /\ Fail /\ UNCHANGED hdpl
    /\ UNCHANGED <<asm, app, rule, obj, work, world, caches, queue, events>>

\* The Deployable is updated if the cache held it, else created.
WriteDeployable ==
    /\ pc = "write"
    /\ \/ /\ hdpl[Name] = job.copy
          /\ hdpl' = [hdpl EXCEPT ![Name] =
                         IF job.copy = Absent THEN [job.draft EXCEPT !.born = events] ELSE job.draft]
          /\ Advance
       \/ /\ hdpl[Name] # job.copy          \* Conflict, NotFound or AlreadyExists
          /\ Fail /\ UNCHANGED hdpl
    /\ UNCHANGED <<asm, app, rule, obj, work, world, caches, queue, events>>

AllComponentsDone ==
    /\ pc = "next" /\ job.i > Len(job.inst.layout)
    /\ pc' = "conclude"
    /\ UNCHANGED <<asm, app, hdpl, rule, obj, work, world, caches, queue, job, events>>

\* Mutant: a failed reconcile is concluded but not requeued.
ConcludeReconcile_noRequeue ==
    /\ pc = "conclude"
    /\ asm' = IF asm[job.name] = job.inst
              THEN [asm EXCEPT ![job.name].phase = IF job.ok THEN "ok" ELSE "Failed"] ELSE asm
    /\ pc' = "idle" /\ job' = NoJob
    /\ UNCHANGED <<app, hdpl, rule, obj, work, world, caches, queue, events>>

\* The phase is written with the copy read at the start; an error of either requeues.
\* A conflict with the lastUpdateTime of the previous write, seen late, is a fault of the call.
ConcludeReconcile ==
    /\ pc = "conclude"
    /\ LET a == job.name
           written == asm[a] = job.inst
       IN /\ asm' = IF written
                    THEN [asm EXCEPT ![a].phase = IF job.ok THEN "ok" ELSE "Failed"]
                    ELSE asm
          /\ queue' = IF written /\ job.ok THEN queue ELSE queue \cup {a}
    /\ pc' = "idle" /\ job' = NoJob
    /\ UNCHANGED <<app, hdpl, rule, obj, work, world, caches, events>>

\* The process starts again: every cache is listed anew, every assembler is queued.
Restart ==
    /\ cAsm' = asm /\ cApp' = app /\ cHdpl' = hdpl /\ cRule' = rule /\ cWork' = work
    /\ queue' = {a \in Assembler : asm[a] # Absent}
    /\ pc' = "idle" /\ job' = NoJob
    /\ UNCHANGED <<asm, app, hdpl, rule, obj, work, world>>

\* Manifests[0] of a ManifestWork without manifests panics, and takes the process down.
\* An empty list is met before the patch, an absent one after it.
Panic ==
    /\ \/ /\ InLoop /\ Current \in Work
          /\ cWork[Current] # Absent /\ cWork[Current].manifests = "empty"
       \/ pc = "rule" /\ ~HasManifest
    /\ Restart /\ UNCHANGED events

Reconcile ==
    \/ GetOrCreateApplication \/ UpdateApplication
    \/ FromObject \/ FromObjectInManagedCluster \/ FromManifestWork
    \/ PatchManifestWork \/ GenPlacementRule \/ CheckDecision \/ PatchObject \/ WriteDeployable
    \/ AllComponentsDone \/ ConcludeReconcile \/ Panic
-----------------------------------------------------------------------------
(***************************************************************************)
(* The informer caches catch up, kind by kind.  An assembler is queued     *)
(* when it appears, disappears or has another spec; the watch drops its    *)
(* status updates, and nothing else is watched.                            *)
(***************************************************************************)
Queued(a) ==
    \/ (cAsm[a] = Absent) # (asm[a] = Absent)
    \/ cAsm[a] # Absent /\ asm[a] # Absent /\ (cAsm[a].rev # asm[a].rev)

SyncAssemblers ==
    /\ cAsm # asm /\ cAsm' = asm
    /\ queue' = queue \cup {a \in Assembler : Queued(a)}
    /\ UNCHANGED <<asm, app, hdpl, rule, obj, work, world, cApp, cHdpl, cRule, cWork, pc, job, events>>

SyncApplications ==
    /\ cApp # app /\ cApp' = app
    /\ UNCHANGED <<asm, app, hdpl, rule, obj, work, world, cAsm, cHdpl, cRule, cWork, queue, pc, job, events>>

SyncDeployables ==
    /\ cHdpl # hdpl /\ cHdpl' = hdpl
    /\ UNCHANGED <<asm, app, hdpl, rule, obj, work, world, cAsm, cApp, cRule, cWork, queue, pc, job, events>>

SyncRules ==
    /\ cRule # rule /\ cRule' = rule
    /\ UNCHANGED <<asm, app, hdpl, rule, obj, work, world, cAsm, cApp, cHdpl, cWork, queue, pc, job, events>>

SyncWorks ==
    /\ cWork # work /\ cWork' = work
    /\ UNCHANGED <<asm, app, hdpl, rule, obj, work, world, cAsm, cApp, cHdpl, cRule, queue, pc, job, events>>

Sync == SyncAssemblers \/ SyncApplications \/ SyncDeployables \/ SyncRules \/ SyncWorks
-----------------------------------------------------------------------------
(***************************************************************************)
(* Everybody else: users, the other controllers of this operator, the      *)
(* operators of Deployables, placement rules and managed clusters,         *)
(* Kubernetes itself.  Each event is allowed by Event, at most MaxEvents   *)
(* happen; decisions on placement rules are not bounded.                   *)
(***************************************************************************)
Happens(e) == e \in Event /\ events < MaxEvents /\ events' = events + 1

Stamp == events + 1

CreateAssembler(a, l) ==
    /\ Happens("create") /\ asm[a] = Absent
    /\ asm' = [asm EXCEPT ![a] = [uid |-> Stamp, rev |-> Stamp, layout |-> l, phase |-> "ok"]]
    /\ UNCHANGED <<app, hdpl, rule, obj, work, world, caches, queue, pc, job>>

EditAssembler(a, l) ==
    /\ Happens("edit") /\ asm[a] # Absent
    /\ asm' = [asm EXCEPT ![a] = [@ EXCEPT !.layout = l, !.rev = Stamp]]
    /\ UNCHANGED <<app, hdpl, rule, obj, work, world, caches, queue, pc, job>>

DeleteAssembler(a) ==
    /\ Happens("delete") /\ asm[a] # Absent
    /\ asm' = [asm EXCEPT ![a] = Absent]
    /\ UNCHANGED <<app, hdpl, rule, obj, work, world, caches, queue, pc, job>>

\* The garbage collector deletes an Application whose owner is gone.
CollectApplication(a) ==
    /\ Happens("collect") /\ app[a] # Absent
    /\ app[a].owner # Absent
    /\ asm[a] = Absent \/ (asm[a] # Absent /\ asm[a].uid # app[a].owner)
    /\ app' = [app EXCEPT ![a] = Absent]
    /\ UNCHANGED <<asm, hdpl, rule, obj, work, world, caches, queue, pc, job>>

\* Somebody else makes an Application: a user, or a controller that owns it.
ApplyApplication(a, foreign) ==
    /\ Happens("apply") /\ app[a] = Absent
    /\ app' = [app EXCEPT ![a] = NewApplication(<<a, Stamp>>, foreign)]
    /\ UNCHANGED <<asm, hdpl, rule, obj, work, world, caches, queue, pc, job>>

\* Somebody else writes it: another selector may replace the label, and another controller come
\* or go where no assembler owns it.
EditApplication(a) ==
    /\ Happens("override") /\ app[a] # Absent
    /\ \E foreign, selects \in BOOLEAN :
          /\ foreign => app[a].owner = Absent
          /\ selects => app[a].selects
          /\ app' = [app EXCEPT ![a] = [@ EXCEPT !.foreign = foreign, !.selects = selects,
                                               !.rev = Stamp]]
    /\ lost' = lost \cup {a}
    /\ UNCHANGED <<asm, hdpl, rule, obj, work, deployers, clusters, mapped, caches, queue, pc, job>>

DeleteApplication(a) ==
    /\ Happens("drop") /\ app[a] # Absent
    /\ app' = [app EXCEPT ![a] = Absent]
    /\ lost' = lost \cup {a}
    /\ UNCHANGED <<asm, hdpl, rule, obj, work, deployers, clusters, mapped, caches, queue, pc, job>>

DeleteDeployable(n) ==
    /\ Happens("gone") /\ hdpl[n] # Absent
    /\ hdpl' = [hdpl EXCEPT ![n] = Absent]
    /\ UNCHANGED <<asm, app, rule, obj, work, world, caches, queue, pc, job>>

DeleteObject(o) ==
    /\ Happens("object") /\ obj[o] # Absent
    /\ obj' = [obj EXCEPT ![o] = Absent]
    /\ UNCHANGED <<asm, app, hdpl, rule, work, world, caches, queue, pc, job>>

DeleteWork(m) ==
    /\ Happens("work") /\ work[m] # Absent
    /\ work' = [work EXCEPT ![m] = Absent]
    /\ UNCHANGED <<asm, app, hdpl, rule, obj, world, caches, queue, pc, job>>

ToggleDeployer(d) ==
    /\ Happens("deployer")
    /\ deployers' = IF d \in deployers THEN deployers \ {d} ELSE deployers \cup {d}
    /\ UNCHANGED <<asm, app, hdpl, rule, obj, work, clusters, mapped, lost, caches, queue, pc, job>>

ToggleCluster(c) ==
    /\ Happens("cluster")
    /\ clusters' = IF c \in clusters THEN clusters \ {c} ELSE clusters \cup {c}
    /\ UNCHANGED <<asm, app, hdpl, rule, obj, work, deployers, mapped, lost, caches, queue, pc, job>>

\* The CRD controller replaces the map; a kind is found after that, or no longer.
ToggleKind(o) ==
    /\ Happens("kind")
    /\ mapped' = IF o \in mapped THEN mapped \ {o} ELSE mapped \cup {o}
    /\ UNCHANGED <<asm, app, hdpl, rule, obj, work, deployers, clusters, lost, caches, queue, pc, job>>

\* A call of the reconcile fails, before or after it took effect: an outage, a time-out, or
\* a conflict with another actor's write to the object (status, annotations).
ApiFault ==
    /\ Happens("fault") /\ pc # "idle"
    /\ \/ /\ pc \notin {"conclude", "patchObject"}
          /\ Fail /\ UNCHANGED queue
       \/ /\ pc = "patchObject"
          /\ pc' = "write" /\ UNCHANGED <<job, queue>>
       \/ /\ pc = "conclude"
          /\ pc' = "idle" /\ job' = NoJob /\ queue' = queue \cup {job.name}
    /\ UNCHANGED <<asm, app, hdpl, rule, obj, work, world, caches>>

Crash == Happens("crash") /\ Restart

\* The placement rule operator decides on a rule whose cluster has joined.
Decide(n) ==
    /\ rule[n] # Absent /\ ~rule[n].decided /\ rule[n].spec \in clusters
    /\ rule' = [rule EXCEPT ![n].decided = TRUE]
    /\ UNCHANGED <<asm, app, hdpl, obj, work, world, caches, queue, pc, job, events>>

Environment ==
    \/ \E a \in Assembler : \/ \E l \in Layout : CreateAssembler(a, l) \/ EditAssembler(a, l)
                            \/ DeleteAssembler(a) \/ CollectApplication(a)
                            \/ \E foreign \in BOOLEAN : ApplyApplication(a, foreign)
                            \/ EditApplication(a) \/ DeleteApplication(a)
    \/ \E n \in HdplName : DeleteDeployable(n) \/ Decide(n)
    \/ \E o \in HubObject : DeleteObject(o) \/ ToggleKind(o)
    \/ \E m \in Work : DeleteWork(m)
    \/ \E d \in Deployer : ToggleDeployer(d)
    \/ \E c \in Cluster : ToggleCluster(c)
    \/ ApiFault \/ Crash
-----------------------------------------------------------------------------
Init ==
    /\ asm \in [Assembler -> {[uid |-> 0, rev |-> 0, layout |-> l, phase |-> "ok"] : l \in Layout}]
    /\ \E foreign \in SUBSET Adopted :
          app = [a \in Assembler |->
                    IF a \in Adopted THEN NewApplication(<<a, 0>>, a \in foreign) ELSE Absent]
    /\ hdpl = [n \in HdplName |-> Absent]
    /\ rule = [n \in HdplName |-> Absent]
    /\ obj = [o \in HubObject |-> [host |-> Absent]]
    /\ work \in [Work -> {[host |-> Absent, manifests |-> s] : s \in Manifests}]
    /\ deployers \in SUBSET Deployer /\ clusters = Cluster /\ mapped = HubObject
    /\ lost = {}
    /\ cAsm = asm /\ cApp = app /\ cHdpl = hdpl /\ cRule = rule /\ cWork = work
    /\ queue = Assembler /\ pc = "idle" /\ job = NoJob /\ events = 0

Next == (\E a \in Assembler : Start(a)) \/ Reconcile \/ Sync \/ Environment

Spec == Init /\ [][Next]_vars

\* The worker never stops, the queue is a FIFO, the watches deliver, rules get decided.
Fairness ==
    /\ WF_vars(Reconcile)
    /\ \A a \in Assembler : SF_vars(Start(a))
    /\ WF_vars(SyncAssemblers) /\ WF_vars(SyncApplications) /\ WF_vars(SyncDeployables)
    /\ WF_vars(SyncRules) /\ WF_vars(SyncWorks)
    /\ \A n \in HdplName : WF_vars(Decide(n))

FairSpec == Spec /\ Fairness
-----------------------------------------------------------------------------
(***************************************************************************)
(* Properties.                                                             *)
(***************************************************************************)
\* Every object, cached copy and local variable is what its kind says.
TypeOK ==
    /\ asm \in [Assembler -> Maybe(AssemblerObject)]
    /\ app \in [Assembler -> Maybe(Application)]
    /\ hdpl \in [HdplName -> Maybe(Deployable)]
    /\ rule \in [HdplName -> Maybe(PlacementRule)]
    /\ obj \in [HubObject -> Maybe(Object)]
    /\ work \in [Work -> Maybe(ManifestWork)]
    /\ deployers \subseteq Deployer /\ clusters \subseteq Cluster /\ mapped \subseteq HubObject
    /\ lost \subseteq Assembler
    /\ cAsm \in [Assembler -> Maybe(AssemblerObject)]
    /\ cApp \in [Assembler -> Maybe(Application)]
    /\ cHdpl \in [HdplName -> Maybe(Deployable)]
    /\ cRule \in [HdplName -> Maybe(PlacementRule)]
    /\ cWork \in [Work -> Maybe(ManifestWork)]
    /\ queue \subseteq Assembler /\ pc \in PC /\ job \in Job /\ events \in Nat

\* The rule specs a component can ask for.
Wanted(c) ==
    IF c \in HubObject THEN {DefaultType} \cup {TypeOf[d] : d \in {e \in Deployer : c \in Serves[e]}}
    ELSE {ClusterOf[c]}

\* What a reconcile knows at each call: its request and copies, the component it is at, and
\* that it looks for a rule that component asks for.
InComponent == pc \in {"patchWork", "rule", "check", "patchObject", "write"}

Control ==
    /\ pc # "idle" => job.name \in Assembler /\ job.inst \in AssemblerObject
    /\ pc \in {"selector", "next"} \/ InComponent => job.app \in Application
    /\ InComponent => job.i \in 1..Len(job.inst.layout)
    /\ pc \in {"app", "selector"} => job.i = 1
    /\ pc \in {"app", "selector", "next", "patchWork"} => job.copy = Absent
    /\ pc = "patchWork" => Current \in Work /\ job.seen \in ManifestWork
    /\ pc = "patchObject" => Current \in HubObject /\ job.seen \in Object
    /\ pc \in {"rule", "check"} => job.want \in Wanted(Current)
    /\ pc = "rule" /\ Current \in HubObject => job.seen \in Object

\* The Deployable being built carries the label of its application, and keeps what the copy
\* it was built from had.
Drafting == pc \in {"rule", "check", "patchObject", "write"}

DraftInv ==
    Drafting =>
        /\ job.app.uid \in job.draft.labels
        /\ job.copy # Absent => /\ job.copy.labels \subseteq job.draft.labels
                                /\ job.copy.templates \subseteq job.draft.templates

\* genPlacementRuleForHybridDeployable reuses any listed rule of an equal spec, and the
\* list is a stale copy: whatever rule a stored Deployable ends up naming exists, and
\* selects what one of the components of that name asked for.
Placed(rules, p, n) ==
    /\ p \in HdplName /\ rules[p] # Absent
    /\ \E c \in Component : NameOf[c] = n /\ rules[p].spec \in Wanted(c)

PlacementSound == \A n \in HdplName : hdpl[n] # Absent => Placed(rule, hdpl[n].placement, n)

\* The same of every copy: the cached ones, and the one about to be written.
PlacementInv ==
    /\ PlacementSound
    /\ \A n \in HdplName : cHdpl[n] # Absent => Placed(rule, cHdpl[n].placement, n)
    /\ \A n \in HdplName : cRule[n] # Absent => rule[n] # Absent /\ rule[n].spec = cRule[n].spec
    /\ pc = "check" => rule[Name] # Absent /\ rule[Name].spec = job.want
    /\ pc \in {"patchObject", "write"} => Placed(rule, job.draft.placement, Name)

\* Two assemblers may list one component: writing its Deployable from a stale copy must
\* not lose the label of the other application, nor a template made for another deployer.
LabelsKept ==
    [][\A n \in HdplName : hdpl[n] # Absent /\ hdpl'[n] # Absent =>
            /\ hdpl[n].labels \subseteq hdpl'[n].labels
            /\ hdpl[n].templates \subseteq hdpl'[n].templates]_vars

\* The entry that a stored Deployable is to those who share it.
EntryOf(d) == IF d = Absent THEN Absent
              ELSE [labels |-> d.labels, templates |-> d.templates, placement |-> d.placement]

RuleOf(r) == IF r = Absent THEN Absent ELSE r.spec

Registry == INSTANCE DeployableRegistry WITH
    Name  <- HdplName,
    Fits  <- [n \in HdplName |-> UNION {Wanted(c) : c \in {k \in Component : NameOf[k] = n}}],
    entry <- [n \in HdplName |-> EntryOf(hdpl[n])],
    rule  <- [n \in HdplName |-> RuleOf(rule[n])]

\* Between an assembler's read of a Deployable and its write stand a placement rule, a patch
\* and the writes of others; to all who share the registry each Deployable still changes in
\* one step, grows by one application, and names a rule that fits and never changes.
ImplementsRegistry == Registry!Spec

\* The part of the layout the reconcile has gone through.
Processed == IF job.inst = Absent THEN {} ELSE {j \in 1..Len(job.inst.layout) : j < job.i}

\* A reconcile that has gone past a hub or remote component leaves the label that the
\* Application's selector asks for on its Deployable, whatever ran in between.
Labelled ==
    \A j \in Processed :
        LET c == job.inst.layout[j]
        IN c \notin Work /\ hdpl[NameOf[c]] # Absent => job.app.uid \in hdpl[NameOf[c]].labels

\* The same for every component, as the component selector of types.go says.
AllLabelled ==
    \A j \in Processed :
        LET c == job.inst.layout[j]
        IN hdpl[NameOf[c]] # Absent => job.app.uid \in hdpl[NameOf[c]].labels

\* A ManifestWork names its Deployable before that Deployable exists: the deployable
\* operator would otherwise take it for an undiscovered work and wrap it again.
Exclusive(m) == \A c \in Component : NameOf[c] = NameOf[m] => c = m

HostedBeforeDeployable ==
    \A m \in Work : work[m] # Absent /\ hdpl[NameOf[m]] # Absent /\ Exclusive(m)
                        => work[m].host = NameOf[m]

\* The work whose Deployable is being built is hosted already.
HostedInv ==
    /\ HostedBeforeDeployable
    /\ Drafting /\ Current \in Work /\ work[Current] # Absent => work[Current].host = Name

\* A Deployable bound to a cluster exists only once its rule is decided, as the messages
\* of genPlacementRuleForHybridDeployable say.
DecidedBeforeDeployable ==
    \A n \in HdplName :
        hdpl[n] # Absent /\ hdpl[n].placement # Absent /\ rule[hdpl[n].placement].spec \in Cluster
        => rule[hdpl[n].placement].decided

\* The components that can be found.
Reachable(c) ==
    \/ c \in HubObject /\ obj[c] # Absent /\ c \in mapped
    \/ c \in RemoteObject /\ ClusterOf[c] \in clusters
    \/ c \in Work /\ work[c] # Absent /\ work[c].manifests = "some" /\ ClusterOf[c] \in clusters

Components(a) == {asm[a].layout[j] : j \in DOMAIN asm[a].layout}

\* Its Application is there, selects its own label and is owned by the assembler, where no other
\* controller owns it.
Adopting(a) ==
    app[a] # Absent /\ app[a].selects /\ (app[a].foreign \/ app[a].owner = asm[a].uid)

\* A hub or remote component has a Deployable with the label, a ManifestWork has a Deployable.
Delivered(a, c) ==
    hdpl[NameOf[c]] # Absent /\ (c \notin Work => app[a].uid \in hdpl[NameOf[c]].labels)

\* What the operator is for: an assembler whose components can all be found ends up with no
\* failure in its phase, its Application and their Deployables.  (Nothing watches Applications:
\* one that somebody else deletes or writes is promised to the next reconcile only.)
Assembled(a) ==
    asm[a] # Absent /\ (\A c \in Components(a) : Reachable(c)) =>
        /\ asm[a].phase = "ok"
        /\ a \notin lost => Adopting(a) /\ \A c \in Components(a) : Delivered(a, c)

EventuallyAssembled == \A a \in Assembler : <>[]Assembled(a)

\* Nothing is queued for it, being done, or about to come from the watch.
AtRest(a) == a \notin queue /\ ~Queued(a) /\ (pc = "idle" \/ job.name # a)

\* Its reconciles have done what they are for, and nobody has undone it.
Settled(a) ==
    /\ asm[a].phase = "ok"
    /\ a \notin lost =>
          /\ Adopting(a)
          /\ "gone" \notin Event => \A c \in Components(a) : Delivered(a, c)

\* Nothing but its own request makes the worker come back to an assembler: once no request is
\* queued, in progress or about to come from the watch, the work is done, whatever was edited,
\* collected, deleted, created again or restarted on the way, and also if somebody else's
\* controller owns the Application.  Nothing watches what was made: an Application that somebody
\* else deletes or writes after it was taken over (lost), and Deployables that are deleted
\* ("gone"), are not promised.
AssembledAtRest == \A a \in Assembler : asm[a] # Absent /\ AtRest(a) => Settled(a)
=============================================================================
