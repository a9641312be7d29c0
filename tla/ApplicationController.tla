------------------------ MODULE ApplicationController ------------------------
(***************************************************************************)
(* The Application controller: one worker that keeps an Application's      *)
(* ManifestWork on every cluster where its components are discovered,      *)
(* makes an ApplicationAssembler of what was discovered, and writes the    *)
(* Application's status and the ConfigMap of its relationships             *)
(* (src/pkg/controller/application/).                                      *)
(*                                                                         *)
(* Local components are listed from the API server; everything else that   *)
(* is read comes from the informer caches.  As in AssemblerController, a   *)
(* copy is current exactly when it equals the stored object.  (Equality    *)
(* stands for the resourceVersion: only the worker writes a status, from   *)
(* a copy it read, so no status it wrote over comes back unseen.)          *)
(***************************************************************************)
EXTENDS Naturals

CONSTANTS
    App,            \* names of Applications, of their assemblers and of their ConfigMaps
    Cluster,        \* ManagedClusters, each with a namespace of its name
    Ignored,        \* ClustersIgnoredForDiscovery
    Hdpl,           \* Deployables of the hub
    Found,          \* ManifestWorks that wrap what is discovered on managed clusters
    ClusterOf,      \* the cluster of such a ManifestWork
    Selector,       \* what the selector of an Application matches; Absent is the nil selector
    Bare,           \* Deployables without a placementRef
    Anchored,       \* Deployables whose placementRef names a namespace; an assembler names none
    Delivered,      \* what delivers Deployables: ManifestWorks, and VirtualMachines of a Deployer
    DeliveryOf,     \* the Deployable that one of them is annotated with
    PlaceOf,        \* the cluster of such a ManifestWork; "deployer" for a VirtualMachine
    Hollow,         \* ManifestWorks without manifests
    Copy,           \* bound on the ManifestWorks one Application has in a cluster
    Request,        \* what users ask of an Application: discovery, assembler, target
    Event,          \* the things other actors may do in this instance
    MaxEvents,      \* bound on how many of them happen
    Absent          \* no object, no value

Part == Hdpl \cup Found

\* An annotation of Application: not there (or another value), asked for, completed.
Mark == {"off", "on", "done"}

\* hybrid-discovery-target: none, a cluster, a reference of a kind or version that is not
\* empty, text that is not JSON.
Target == Cluster \cup {"all", "unsupported", "malformed"}

EventKind == {"create", "edit", "delete", "hdpl", "unassemble", "work", "configmap",
              "cluster", "fault", "tolerated", "crash"}

ASSUME PartsAssumption ==
    /\ ClusterOf \in [Found -> Cluster]
    /\ Selector \in [App -> (SUBSET Part) \cup {Absent}]
    /\ Hdpl \cap Found = {} /\ Ignored \subseteq Cluster
    /\ Bare \subseteq Hdpl /\ Anchored \subseteq Hdpl \ Bare
    /\ DeliveryOf \in [Delivered -> Hdpl] /\ PlaceOf \in [Delivered -> Cluster \cup {"deployer"}]
    /\ Hollow \subseteq Found \cup {d \in Delivered : PlaceOf[d] \in Cluster}

\* Absent is no Application: what TLC takes for granted of a model value.
ASSUME AbsentAssumption ==
    Absent \notin [uid: Nat, rev: Nat, disc: Mark, make: Mark, target: Target, status: SUBSET Part]

ASSUME RequestAssumption ==
    /\ Request \subseteq [disc: {"off", "on"}, make: {"off", "on"}, target: Target]
    /\ Cluster \cap {"all", "unsupported", "malformed"} = {}

ASSUME ApplicationBounds ==
    /\ Event \subseteq EventKind
    /\ MaxEvents \in Nat

VARIABLES
    \* the API server
    app,        \* Applications
    asm,        \* ApplicationAssemblers
    hdpl,       \* Deployables: whether each is there, and since when
    works,      \* the ManifestWorks that wrap Applications
    found,      \* the discovered ManifestWorks there are
    cm,         \* ConfigMaps
    joined,     \* the ManagedClusters there are
    \* the informer caches
    cApp, cAsm, cHdpl, cWorks, cFound, cCm,
    \* the controller
    queue,      \* its work queue
    pc,         \* the next call of the reconcile in progress
    job,        \* the local variables of that reconcile
    \* the environment
    events,     \* how many events happened
    made        \* history: the Applications, by uid, that an assembler was made for

caches == <<cApp, cAsm, cHdpl, cWorks, cFound, cCm>>
vars   == <<app, asm, hdpl, works, found, cm, joined, caches, queue, pc, job, events, made>>
-----------------------------------------------------------------------------
Application == [uid: Nat, rev: Nat, disc: Mark, make: Mark, target: Target, status: SUBSET Part]
AppWork     == [app: App, cluster: Cluster, id: Copy, rev: Nat]

\* From its source to its destination, in the ConfigMap of an Application.
Relation == ({"application"} \cup Hdpl \cup Delivered) \X (Hdpl \cup Delivered \cup {"rule", "manifest"})

Maybe(S) == S \cup {Absent}

\* A Deployable is stamped when it is deleted too: a watch delivers that it came and went.
Deployable == [here: BOOLEAN, since: Nat]

Listed(deployables) == {h \in Hdpl : deployables[h].here}

\* The locals of Reconcile: the request, the Application, the rest of a loop over clusters,
\* and the components it fetched.
Job   == [name: Maybe(App), app: Maybe(Application), todo: SUBSET Cluster, parts: SUBSET Part]
NoJob == [name |-> Absent, app |-> Absent, todo |-> {}, parts |-> {}]

PC == {"idle", "works", "compose", "create", "annotate", "drop", "fetch", "status", "relate",
       "sweep", "unmap"}

\* The reconcile returns; with an error, the request is queued again.
Done == pc' = "idle" /\ job' = NoJob /\ UNCHANGED queue
Fail == pc' = "idle" /\ job' = NoJob /\ queue' = queue \cup {job.name}
Goto(p) == pc' = p /\ UNCHANGED <<job, queue>>

\* The clusters where an Application is to be discovered: reconcileAppManifestWorks.
Targets(x) ==
    (IF x.target = "all" THEN joined ELSE IF x.target \in Cluster THEN {x.target} ELSE {}) \ Ignored

\* locateAppManifestWork: the first of a cached list, whose order is arbitrary.
Located(c) == {w \in cWorks : w.app = job.name /\ w.cluster = c}

\* fetchApplicationComponents: what is local is listed at the server, what was discovered
\* in the cache, and only while discovery is on.
Fetched(x) ==
    IF Selector[job.name] = Absent THEN {}
    ELSE Selector[job.name] \cap (Listed(hdpl) \cup (IF x.disc = "on" THEN cFound ELSE {}))

\* Where RESTMapping does not know the kind of what is local, that is skipped.
Unmapped(x) == Fetched(x) \cap Found
-----------------------------------------------------------------------------
(***************************************************************************)
(* The reconcile, one action per call that reads or writes.                *)
(***************************************************************************)
Start(a) ==
    /\ pc = "idle" /\ a \in queue
    /\ queue' = queue \ {a}
    /\ \/ /\ cApp[a] = Absent
          /\ pc' = "sweep" /\ job' = [NoJob EXCEPT !.name = a, !.todo = joined]
       \/ /\ cApp[a] # Absent /\ cApp[a].disc # "on"
          /\ pc' = "fetch" /\ job' = [NoJob EXCEPT !.name = a, !.app = cApp[a]]
       \/ /\ cApp[a] # Absent /\ cApp[a].disc = "on"
          /\ pc' = "works"
          /\ job' = [NoJob EXCEPT !.name = a, !.app = cApp[a], !.todo = Targets(cApp[a])]
    /\ UNCHANGED <<app, asm, hdpl, works, found, cm, joined, caches, events, made>>

\* The target annotation does not parse.
RejectTarget ==
    /\ pc = "works" /\ job.app.target = "malformed"
    /\ Fail
    /\ UNCHANGED <<app, asm, hdpl, works, found, cm, joined, caches, events, made>>

Visited(c) == pc' = pc /\ job' = [job EXCEPT !.todo = @ \ {c}] /\ UNCHANGED queue

\* Mutant: a cluster whose ManifestWork cannot be written is skipped.
ReconcileWork_errorSkipped(c) ==
    /\ pc = "works" /\ c \in job.todo
    /\ \/ /\ Located(c) = {} /\ c \in joined
          /\ \E i \in Copy :
                /\ \A w \in works : ~(w.app = job.name /\ w.cluster = c /\ w.id = i)
                /\ works' = works \cup {[app |-> job.name, cluster |-> c, id |-> i,
                                         rev |-> job.app.rev]}
          /\ Visited(c)
       \/ \E w \in Located(c) :
             /\ works' = IF w \in works THEN (works \ {w}) \cup {[w EXCEPT !.rev = job.app.rev]}
                         ELSE works
             /\ Visited(c)
    /\ UNCHANGED <<app, asm, hdpl, found, cm, joined, caches, events, made>>

\* The Application is wrapped in a ManifestWork: the located one is updated, or a new one
\* gets a generated name.  A cluster that has not joined has no namespace.
ReconcileWork(c) ==
    /\ pc = "works" /\ c \in job.todo
    /\ \/ /\ Located(c) = {} /\ c \in joined
          /\ \E i \in Copy :
                /\ \A w \in works : ~(w.app = job.name /\ w.cluster = c /\ w.id = i)
                /\ works' = works \cup {[app |-> job.name, cluster |-> c, id |-> i,
                                         rev |-> job.app.rev]}
          /\ Visited(c)
       \/ /\ Located(c) = {} /\ c \notin joined
          /\ Fail /\ UNCHANGED works
       \/ \E w \in Located(c) :
             \/ /\ w \in works
                /\ works' = (works \ {w}) \cup {[w EXCEPT !.rev = job.app.rev]}
                /\ Visited(c)
             \/ /\ w \notin works            \* Conflict or NotFound
                /\ Fail /\ UNCHANGED works
    /\ UNCHANGED <<app, asm, hdpl, found, cm, joined, caches, events, made>>

\* The assembler is wanted, and not in the cache.
WorksReconciled ==
    /\ pc = "works" /\ job.todo = {} /\ job.app.target # "malformed"
    /\ Goto(IF job.app.make = "on" /\ cAsm[job.name] = Absent THEN "compose" ELSE "fetch")
    /\ UNCHANGED <<app, asm, hdpl, works, found, cm, joined, caches, events, made>>

\* Manifests[0] of a discovered ManifestWork without manifests panics.
Readable == Fetched(job.app) \cap Hollow = {}

\* What was found on a cluster that is gone is left out of the assembler.
ComposeAssembler ==
    /\ pc = "compose" /\ Readable
    /\ pc' = "create"
    /\ job' = [job EXCEPT !.parts = {p \in Fetched(job.app) : p \in Found => ClusterOf[p] \in joined}]
    /\ UNCHANGED <<app, asm, hdpl, works, found, cm, joined, caches, queue, events, made>>

\* Mutant: an assembler that exists already is taken for the one to be made.
CreateAssembler_existsOK ==
    /\ pc = "create"
    /\ IF asm[job.name] = Absent
       THEN /\ asm' = [asm EXCEPT ![job.name] = job.parts]
            /\ made' = made \cup {<<job.name, job.app.uid>>}
       ELSE UNCHANGED <<asm, made>>
    /\ Goto("annotate")
    /\ UNCHANGED <<app, hdpl, works, found, cm, joined, caches, events>>

CreateAssembler ==
    /\ pc = "create"
    /\ \/ /\ asm[job.name] = Absent
          /\ asm' = [asm EXCEPT ![job.name] = job.parts]
          /\ made' = made \cup {<<job.name, job.app.uid>>}
          /\ Goto("annotate")
       \/ /\ asm[job.name] # Absent          \* AlreadyExists
          /\ Fail /\ UNCHANGED <<asm, made>>
    /\ UNCHANGED <<app, hdpl, works, found, cm, joined, caches, events>>

Completed(x) == [x EXCEPT !.disc = "done", !.make = "done"]

\* Mutant: the Update carries no resourceVersion.
UpdateDiscoveryAnnotations_unconditional ==
    /\ pc = "annotate"
    /\ \/ /\ app[job.name] # Absent
          /\ app' = [app EXCEPT ![job.name] = [Completed(job.app) EXCEPT !.status = app[job.name].status]]
          /\ pc' = "drop" /\ job' = [job EXCEPT !.app = Completed(job.app), !.todo = joined]
          /\ UNCHANGED queue
       \/ /\ app[job.name] = Absent
          /\ Fail /\ UNCHANGED app
    /\ UNCHANGED <<asm, hdpl, works, found, cm, joined, caches, events, made>>

\* Both annotations are completed by one Update of the copy read at the start.
UpdateDiscoveryAnnotations ==
    /\ pc = "annotate"
    /\ \/ /\ app[job.name] = job.app
          /\ app' = [app EXCEPT ![job.name] = Completed(job.app)]
          /\ pc' = "drop" /\ job' = [job EXCEPT !.app = Completed(job.app), !.todo = joined]
          /\ UNCHANGED queue
       \/ /\ app[job.name] # job.app          \* Conflict or NotFound
          /\ Fail /\ UNCHANGED app
    /\ UNCHANGED <<asm, hdpl, works, found, cm, joined, caches, events, made>>

\* deleteApplicationManifestWorks: the located ManifestWork of each listed cluster is deleted
\* by name; that it is gone already is logged only.
DeleteWork(c) ==
    /\ pc \in {"drop", "sweep"} /\ c \in job.todo
    /\ \/ /\ Located(c) = {}
          /\ UNCHANGED works
       \/ \E w \in Located(c) :
             works' = {x \in works : ~(x.app = w.app /\ x.cluster = c /\ x.id = w.id)}
    /\ Visited(c)
    /\ UNCHANGED <<app, asm, hdpl, found, cm, joined, caches, events, made>>

WorksDeleted ==
    /\ pc \in {"drop", "sweep"} /\ job.todo = {}
    /\ Goto(IF pc = "drop" THEN "fetch" ELSE "unmap")
    /\ UNCHANGED <<app, asm, hdpl, works, found, cm, joined, caches, events, made>>

\* deleteApplicationConfigmap, the last call for an Application that is gone.
DeleteConfigmap ==
    /\ pc = "unmap"
    /\ LET a == job.name
       IN \/ /\ cCm[a] = Absent
             /\ Done /\ UNCHANGED cm
          \/ /\ cCm[a] # Absent /\ cm[a] # Absent
             /\ cm' = [cm EXCEPT ![a] = Absent] /\ Done
          \/ /\ cCm[a] # Absent /\ cm[a] = Absent
             /\ Fail /\ UNCHANGED cm
    /\ UNCHANGED <<app, asm, hdpl, works, found, joined, caches, events, made>>

\* updateApplicationStatus stops when the component list is the one of the copy.
FetchComponents ==
    /\ pc = "fetch" /\ Readable
    /\ LET parts == Fetched(job.app)
       IN \/ /\ parts = job.app.status
             /\ Done
          \/ /\ parts # job.app.status
             /\ pc' = "status" /\ job' = [job EXCEPT !.parts = parts] /\ UNCHANGED queue
    /\ UNCHANGED <<app, asm, hdpl, works, found, cm, joined, caches, events, made>>

\* The status is written; an error of this or of the ConfigMap is logged, not requeued.
UpdateStatus ==
    /\ pc = "status"
    /\ \/ /\ app[job.name] = job.app
          /\ app' = [app EXCEPT ![job.name].status = job.parts]
          /\ IF job.parts \cap Hdpl # {} THEN Goto("relate") ELSE Done
       \/ /\ app[job.name] # job.app
          /\ Done /\ UNCHANGED app
    /\ UNCHANGED <<asm, hdpl, works, found, cm, joined, caches, events, made>>

\* What the caches hold of the placement rules and deliveries, which nothing else here reads:
\* rules that may not be found, with any decisions that matter, and any of the deliveries.
View == [decided: [Anchored -> Maybe(SUBSET {PlaceOf[d] : d \in Delivered})], seen: SUBSET Delivered]

\* buildRelationshipsConfigmap: the Deployables of the list that the cache holds.
RelatedDeployables == job.parts \cap Listed(cHdpl)

\* addHdplRelationships looks for a rule where the reference says, else nowhere.
RelatedRules(v) == {h \in RelatedDeployables \cap Anchored : v.decided[h] # Absent}

\* What is annotated with the Deployable, at a place that its rule decided on.
RelatedDeliveries(v) ==
    {d \in v.seen : DeliveryOf[d] \in RelatedRules(v) /\ PlaceOf[d] \in v.decided[DeliveryOf[d]]}

RelatedManifests(v) == {d \in RelatedDeliveries(v) : PlaceOf[d] \in Cluster}

\* Mutant: a component is related without looking its Deployable up.
Related_unchecked(v) == {<<"application", h>> : h \in job.parts}

\* Mutant: manifests are related for ManifestWorks of clusters nobody decided on.
Related_anyManifest(v) ==
    {<<"application", h>> : h \in RelatedDeployables} \cup {<<h, "rule">> : h \in RelatedRules(v)}
    \cup {<<DeliveryOf[d], d>> : d \in RelatedDeliveries(v)}
    \cup {<<d, "manifest">> : d \in {e \in v.seen : PlaceOf[e] \in Cluster}}

Related(v) ==
    {<<"application", h>> : h \in RelatedDeployables} \cup {<<h, "rule">> : h \in RelatedRules(v)}
    \cup {<<DeliveryOf[d], d>> : d \in RelatedDeliveries(v)}
    \cup {<<d, "manifest">> : d \in RelatedManifests(v)}

\* A nil placementRef is dereferenced, an empty list of manifests indexed.
Relatable(v) == RelatedDeployables \cap Bare = {} /\ RelatedManifests(v) \cap Hollow = {}

\* The relations go in the ConfigMap of the Application's name: created if the cache has
\* none, else overwritten.
UpdateRelationships ==
    /\ pc = "relate"
    /\ LET a == job.name
       IN \E v \in View :
             /\ Relatable(v)
             /\ cm' = IF (cCm[a] = Absent) = (cm[a] = Absent) THEN [cm EXCEPT ![a] = Related(v)] ELSE cm
    /\ Done
    /\ UNCHANGED <<app, asm, hdpl, works, found, joined, caches, events, made>>

\* The process starts again: every cache is listed anew, every Application and Deployable
\* is an event.  (Deployables queue Applications that are queued anyway.)
Restart ==
    /\ cApp' = app /\ cAsm' = asm /\ cHdpl' = hdpl /\ cWorks' = works /\ cFound' = found
    /\ cCm' = cm
    /\ queue' = {a \in App : app[a] # Absent}
    /\ pc' = "idle" /\ job' = NoJob
    /\ UNCHANGED <<app, asm, hdpl, works, found, cm, joined, made>>

\* What a reconcile reads is not what its code takes for granted.
Panic ==
    /\ \/ pc \in {"compose", "fetch"} /\ ~Readable
       \/ pc = "relate" /\ \E v \in View : ~Relatable(v)
    /\ Restart /\ UNCHANGED events

Reconcile ==
    \/ RejectTarget \/ WorksReconciled \/ ComposeAssembler \/ CreateAssembler
    \/ UpdateDiscoveryAnnotations \/ WorksDeleted \/ DeleteConfigmap
    \/ FetchComponents \/ UpdateStatus \/ UpdateRelationships \/ Panic
    \/ \E c \in Cluster : ReconcileWork(c) \/ DeleteWork(c)
-----------------------------------------------------------------------------
(***************************************************************************)
(* The informer caches catch up.  Any change of an Application queues it;  *)
(* a Deployable that appears or disappears queues one cached Application   *)
(* of those that match it; the other kinds are not watched.                *)
(***************************************************************************)
\* Mutant: status updates are dropped, as the assembler's watch does.
SyncApplications_specOnly ==
    /\ cApp # app /\ cApp' = app
    /\ queue' = queue \cup {a \in App : \/ (cApp[a] = Absent) # (app[a] = Absent)
                                        \/ /\ cApp[a] # Absent /\ app[a] # Absent
                                           /\ [cApp[a] EXCEPT !.status = {}] # [app[a] EXCEPT !.status = {}]}
    /\ UNCHANGED <<app, asm, hdpl, works, found, cm, joined, cAsm, cHdpl, cWorks, cFound, cCm,
                   pc, job, events, made>>

SyncApplications ==
    /\ cApp # app /\ cApp' = app
    /\ queue' = queue \cup {a \in App : cApp[a] # app[a]}
    /\ UNCHANGED <<app, asm, hdpl, works, found, cm, joined, cAsm, cHdpl, cWorks, cFound, cCm,
                   pc, job, events, made>>

\* locateAppForHybridDeployable: a nil selector matches everything.
Matching(h) == {a \in App : cApp[a] # Absent /\ (Selector[a] # Absent => h \in Selector[a])}

\* The informer delivers a Deployable that appeared or disappeared; Map returns the first match.
SyncDeployable(h) ==
    /\ cHdpl[h] # hdpl[h] /\ cHdpl' = [cHdpl EXCEPT ![h] = hdpl[h]]
    /\ \/ Matching(h) = {} /\ UNCHANGED queue
       \/ \E a \in Matching(h) : queue' = queue \cup {a}
    /\ UNCHANGED <<app, asm, hdpl, works, found, cm, joined, cApp, cAsm, cWorks, cFound, cCm,
                   pc, job, events, made>>

SyncAssemblers ==
    /\ cAsm # asm /\ cAsm' = asm
    /\ UNCHANGED <<app, asm, hdpl, works, found, cm, joined, cApp, cHdpl, cWorks, cFound, cCm,
                   queue, pc, job, events, made>>

SyncManifestWorks ==
    /\ <<cWorks, cFound>> # <<works, found>> /\ cWorks' = works /\ cFound' = found
    /\ UNCHANGED <<app, asm, hdpl, works, found, cm, joined, cApp, cAsm, cHdpl, cCm,
                   queue, pc, job, events, made>>

SyncConfigmaps ==
    /\ cCm # cm /\ cCm' = cm
    /\ UNCHANGED <<app, asm, hdpl, works, found, cm, joined, cApp, cAsm, cHdpl, cWorks, cFound,
                   queue, pc, job, events, made>>

Sync == SyncApplications \/ SyncAssemblers \/ SyncManifestWorks \/ SyncConfigmaps
        \/ \E h \in Hdpl : SyncDeployable(h)
-----------------------------------------------------------------------------
(***************************************************************************)
(* Everybody else.  Each event is allowed by Event, at most MaxEvents      *)
(* happen; what is discovered on managed clusters is not bounded.          *)
(***************************************************************************)
Happens(e) == e \in Event /\ events < MaxEvents /\ events' = events + 1

Stamp == events + 1

Asked(r, u) == [uid |-> u, rev |-> Stamp, disc |-> r.disc, make |-> r.make, target |-> r.target,
                status |-> {}]

CreateApplication(a, r) ==
    /\ Happens("create") /\ app[a] = Absent
    /\ app' = [app EXCEPT ![a] = Asked(r, Stamp)]
    /\ UNCHANGED <<asm, hdpl, works, found, cm, joined, caches, queue, pc, job, made>>

EditApplication(a, r) ==
    /\ Happens("edit") /\ app[a] # Absent
    /\ app' = [app EXCEPT ![a] = [Asked(r, app[a].uid) EXCEPT !.status = app[a].status]]
    /\ UNCHANGED <<asm, hdpl, works, found, cm, joined, caches, queue, pc, job, made>>

DeleteApplication(a) ==
    /\ Happens("delete") /\ app[a] # Absent
    /\ app' = [app EXCEPT ![a] = Absent]
    /\ UNCHANGED <<asm, hdpl, works, found, cm, joined, caches, queue, pc, job, made>>

\* The other controller, or a user, makes or deletes a Deployable.
ToggleDeployable(h) ==
    /\ Happens("hdpl")
    /\ hdpl' = [hdpl EXCEPT ![h] = [here |-> ~@.here, since |-> Stamp]]
    /\ UNCHANGED <<app, asm, works, found, cm, joined, caches, queue, pc, job, made>>

DeleteAssembler(a) ==
    /\ Happens("unassemble") /\ asm[a] # Absent
    /\ asm' = [asm EXCEPT ![a] = Absent]
    /\ UNCHANGED <<app, hdpl, works, found, cm, joined, caches, queue, pc, job, made>>

LoseWork(w) ==
    /\ Happens("work")
    /\ works' = works \ {w}
    /\ UNCHANGED <<app, asm, hdpl, found, cm, joined, caches, queue, pc, job, made>>

LoseConfigmap(a) ==
    /\ Happens("configmap") /\ cm[a] # Absent
    /\ cm' = [cm EXCEPT ![a] = Absent]
    /\ UNCHANGED <<app, asm, hdpl, works, found, joined, caches, queue, pc, job, made>>

\* A cluster that leaves takes its namespace with it.
ToggleCluster(c) ==
    /\ Happens("cluster")
    /\ joined' = IF c \in joined THEN joined \ {c} ELSE joined \cup {c}
    /\ works' = {w \in works : c \in joined => w.cluster # c}
    /\ found' = {f \in found : c \in joined => ClusterOf[f] # c}
    /\ UNCHANGED <<app, asm, hdpl, cm, caches, queue, pc, job, made>>

\* A managed cluster that holds the ManifestWork of an Application reports what it found.
Discover(f) ==
    /\ f \notin found
    /\ \E w \in works : /\ w.cluster = ClusterOf[f]
                        /\ Selector[w.app] # Absent /\ f \in Selector[w.app]
    /\ found' = found \cup {f}
    /\ UNCHANGED <<app, asm, hdpl, works, cm, joined, caches, queue, pc, job, events, made>>

\* A call whose error is returned fails, before or after it took effect.
ApiFault ==
    /\ Happens("fault")
    /\ \/ pc \in {"works", "compose", "create", "annotate", "sweep", "unmap"}
       \/ pc = "drop" /\ job.todo = joined          \* the Update of the annotations timed out
    /\ Fail
    /\ UNCHANGED <<app, asm, hdpl, works, found, cm, joined, caches, made>>

\* A call whose error is only logged fails: the reconcile goes on, or ends as if it were done.
\* (A list of one namespace that fails is repeated for all of them; the model has one.)
ToleratedFault ==
    /\ Happens("tolerated")
    /\ \/ /\ pc \in {"fetch", "status", "relate"}
          /\ Done
       \/ /\ pc = "works" /\ job.todo = {} /\ job.app.target # "malformed"
          /\ Goto("fetch")          \* the Get of the assembler
       \/ /\ pc \in {"drop", "sweep"}
          /\ \E c \in job.todo : Visited(c)
       \/ /\ pc = "compose" /\ Readable
          /\ pc' = "create" /\ UNCHANGED queue
          /\ job' = [job EXCEPT !.parts = {p \in Unmapped(job.app) : ClusterOf[p] \in joined}]
       \/ /\ pc = "fetch" /\ Readable /\ Unmapped(job.app) # job.app.status
          /\ pc' = "status" /\ UNCHANGED queue
          /\ job' = [job EXCEPT !.parts = Unmapped(job.app)]
    /\ UNCHANGED <<app, asm, hdpl, works, found, cm, joined, caches, made>>

Crash == Happens("crash") /\ Restart

Environment ==
    \/ \E a \in App : \/ \E r \in Request : CreateApplication(a, r) \/ EditApplication(a, r)
                      \/ DeleteApplication(a) \/ DeleteAssembler(a) \/ LoseConfigmap(a)
    \/ \E h \in Hdpl : ToggleDeployable(h)
    \/ \E w \in works : LoseWork(w)
    \/ \E c \in Cluster : ToggleCluster(c)
    \/ \E f \in Found : Discover(f)
    \/ ApiFault \/ ToleratedFault \/ Crash
-----------------------------------------------------------------------------
Init ==
    /\ app \in [App -> {Absent} \cup
                       {[uid |-> 0, rev |-> 0, disc |-> r.disc, make |-> r.make,
                         target |-> r.target, status |-> {}] : r \in Request}]
    /\ asm = [a \in App |-> Absent]
    /\ hdpl \in [Hdpl -> [here: BOOLEAN, since: {0}]]
    /\ works = {} /\ found = {}
    /\ cm = [a \in App |-> Absent]
    /\ joined = Cluster
    /\ cApp = app /\ cAsm = asm /\ cHdpl = hdpl /\ cWorks = works /\ cFound = found /\ cCm = cm
    /\ queue = {a \in App : app[a] # Absent} /\ pc = "idle" /\ job = NoJob
    /\ events = 0 /\ made = {}

Next == (\E a \in App : Start(a)) \/ Reconcile \/ Sync \/ Environment

Spec == Init /\ [][Next]_vars

\* The worker never stops, the queue is a FIFO, the watches deliver.
Fairness ==
    /\ WF_vars(Reconcile)
    /\ \A a \in App : SF_vars(Start(a))
    /\ WF_vars(SyncApplications) /\ WF_vars(SyncAssemblers) /\ WF_vars(SyncManifestWorks)
    /\ WF_vars(SyncConfigmaps)
    /\ \A h \in Hdpl : WF_vars(SyncDeployable(h))

FairSpec == Spec /\ Fairness
-----------------------------------------------------------------------------
(***************************************************************************)
(* Properties.                                                             *)
(***************************************************************************)
\* Every object, cached copy and local variable is what its kind says.
TypeOK ==
    /\ app \in [App -> Maybe(Application)] /\ cApp \in [App -> Maybe(Application)]
    /\ asm \in [App -> Maybe(SUBSET Part)] /\ cAsm \in [App -> Maybe(SUBSET Part)]
    /\ hdpl \in [Hdpl -> Deployable] /\ cHdpl \in [Hdpl -> Deployable]
    /\ works \subseteq AppWork /\ cWorks \subseteq AppWork
    /\ found \subseteq Found /\ cFound \subseteq Found
    /\ cm \in [App -> Maybe(SUBSET Relation)] /\ cCm \in [App -> Maybe(SUBSET Relation)]
    /\ joined \subseteq Cluster
    /\ queue \subseteq App /\ pc \in PC /\ job \in Job
    /\ events \in Nat /\ made \subseteq App \X Nat

\* An Application whose create-assembler annotation is completed had its assembler made for
\* it: not for an earlier Application of its name, nor by somebody else.
CompletionSound ==
    \A a \in App : app[a] # Absent /\ app[a].make = "done" => <<a, app[a].uid>> \in made

\* What a user wrote into an Application while a reconcile held an older copy stays.
EditsKept ==
    [][events' = events =>
          \A a \in App : app[a] # Absent =>
              /\ app'[a] # Absent
              /\ app'[a].uid = app[a].uid /\ app'[a].rev = app[a].rev
              /\ app'[a].target = app[a].target]_vars

\* The ConfigMap, put together from four cached reads, is a graph that whoever starts at the
\* Application can walk: every relation starts there, or where another ends.
RelationsRooted ==
    \A a \in App : cm[a] # Absent =>
        \A r \in cm[a] : r[1] = "application" \/ \E s \in cm[a] : s[2] = r[1]

\* While discovery is on, each cluster it targets ends up with a ManifestWork that wraps the
\* Application as it is, whatever failed, was stale or restarted in between.
Searched(a) ==
    app[a] # Absent /\ app[a].disc = "on" /\ app[a].target # "malformed" =>
        \A c \in Targets(app[a]) \cap joined :
            \E w \in works : w.app = a /\ w.cluster = c /\ w.rev = app[a].rev

EventuallySearched == \A a \in App : <>[]Searched(a)

\* The component list ends up with the Deployables that the selector matches, though an
\* update of the status from a stale copy is given up, and skipped when the copy agrees.
StatusCurrent(a) ==
    app[a] # Absent =>
        app[a].status \cap Hdpl = IF Selector[a] = Absent THEN {} ELSE Selector[a] \cap Listed(hdpl)

EventuallyCurrent == \A a \in App : <>[]StatusCurrent(a)

\* Nothing but a watch makes the worker come back to an Application.  It is at rest once no
\* request for it is queued, in progress or about to come from the watch of Applications.
Requested(a) == a \in queue \/ cApp[a] # app[a]

AtRest(a) == app[a] # Absent /\ ~Requested(a) /\ (pc = "idle" \/ job.name # a)

\* The Deployables that no other Application can be told of in its place.
Sole(a) == {h \in Hdpl : /\ Selector[a] # Absent /\ h \in Selector[a]
                         /\ \A b \in App \ {a} : Selector[b] # Absent /\ h \notin Selector[b]}

\* At rest, the status is right about each of them that the watch has caught up with, in
\* whatever order it told of Applications and Deployables: an update given up for a conflict
\* is made up for.  (An error of the update that is no conflict is not.)
StatusAtRest ==
    "tolerated" \notin Event =>
        \A a \in App : AtRest(a) =>
            \A h \in Sole(a) : cHdpl[h] = hdpl[h] => (h \in app[a].status <=> hdpl[h].here)

\* At rest, an Application under discovery has its ManifestWork, of its present revision, on
\* every cluster it targets, where no others delete ManifestWorks and no cluster comes or goes.
SearchedAtRest ==
    Event \cap {"work", "cluster"} = {} => \A a \in App : AtRest(a) => Searched(a)

\* "app cleanup should also delete the app manifestworks" (application_manifestwork_test.go).
EventuallyCleaned == \A a \in App : <>[](app[a] = Absent => \A w \in works : w.app # a)

\* "Build configmap of resources related to application if it has hybrid deployables"
\* (application_status.go).
EventuallyRelated ==
    \A a \in App : <>[](app[a] # Absent /\ app[a].status \cap Hdpl # {}
                           => cm[a] # Absent /\ {h \in Hdpl : <<"application", h>> \in cm[a]} = app[a].status \cap Hdpl)
=============================================================================
