--------------------------- MODULE ApplicationProofs ---------------------------
(***************************************************************************)
(* The safety properties of ApplicationController, for every value of the  *)
(* constants: any Applications, clusters, components, requests and events. *)
(***************************************************************************)
EXTENDS ApplicationController, TLAPS

USE DEF Maybe

-----------------------------------------------------------------------------
(***************************************************************************)
(* Types.                                                                  *)
(***************************************************************************)
\* What a reconcile holds at each call: its request and, unless the Application is gone, the
\* copy that was read at the start.
Control ==
    /\ pc # "idle" => job.name \in App
    /\ pc \notin {"idle", "sweep", "unmap"} => job.app \in Application

TypeInv == TypeOK /\ Control

\* Discovery targets clusters.
LEMMA TargetsTyped ==
    ASSUME joined \subseteq Cluster, NEW x
    PROVE  Targets(x) \subseteq Cluster
BY DEF Targets

\* What is fetched are components.
LEMMA FetchedTyped ==
    ASSUME job.name \in App, cFound \subseteq Found, NEW x
    PROVE  Fetched(x) \subseteq Part
<1>1. Listed(hdpl) \subseteq Hdpl
  BY DEF Listed
<1> QED
  BY <1>1 DEF Fetched, Part

\* What is related are Deployables, and what delivers them.
LEMMA RelatedParts ==
    ASSUME NEW v \in View
    PROVE  /\ RelatedDeployables \subseteq Hdpl
           /\ RelatedRules(v) \subseteq RelatedDeployables
           /\ RelatedDeliveries(v) \subseteq Delivered
           /\ \A d \in RelatedDeliveries(v) : DeliveryOf[d] \in RelatedRules(v)
           /\ RelatedManifests(v) \subseteq RelatedDeliveries(v)
BY DEF View, RelatedDeployables, Listed, RelatedRules, RelatedDeliveries, RelatedManifests

LEMMA RelatedTyped ==
    ASSUME NEW v \in View
    PROVE  Related(v) \subseteq Relation
<1>1. \A h \in RelatedDeployables : <<"application", h>> \in Relation
  BY RelatedParts DEF Relation
<1>2. \A h \in RelatedRules(v) : <<h, "rule">> \in Relation
  BY RelatedParts DEF Relation
<1>3. \A d \in RelatedDeliveries(v) : <<DeliveryOf[d], d>> \in Relation
  BY RelatedParts DEF Relation
<1>4. \A d \in RelatedManifests(v) : <<d, "manifest">> \in Relation
  BY RelatedParts DEF Relation
<1> QED
  BY <1>1, <1>2, <1>3, <1>4 DEF Related

\* How a reconcile goes on or ends.
LEMMA MovesTyped ==
    ASSUME TypeInv, pc # "idle"
    PROVE  /\ Done \/ Fail => pc' = "idle" /\ job' \in Job /\ queue' \subseteq App
           /\ \A p : Goto(p) => pc' = p /\ job' = job /\ queue' \subseteq App
           /\ \A c : Visited(c) => /\ pc' = pc /\ queue' \subseteq App /\ job' \in Job
                                   /\ job'.name = job.name /\ job'.app = job.app
BY DEF TypeInv, TypeOK, Control, Done, Fail, Goto, Visited, Job, NoJob

LEMMA StartTyped ==
    ASSUME TypeInv, NEW a \in App, Start(a)
    PROVE  TypeInv'
<1>1. /\ job' \in Job /\ job'.name = a /\ pc' \in {"sweep", "fetch", "works"}
      /\ pc' # "sweep" => job'.app \in Application
  <2>1. CASE cApp[a] = Absent
    BY <2>1 DEF Start, Job, NoJob, TypeInv, TypeOK
  <2>2. CASE cApp[a] # Absent
    <3>1. cApp[a] \in Application /\ Targets(cApp[a]) \subseteq Cluster
      BY <2>2, TargetsTyped DEF TypeInv, TypeOK
    <3> QED
      BY <2>2, <3>1 DEF Start, Job, NoJob
  <2> QED
    BY <2>1, <2>2
<1>2. queue' \subseteq App
  BY DEF Start, TypeInv, TypeOK
<1> QED
  BY <1>1, <1>2 DEF Start, caches, TypeInv, TypeOK, Control, PC

\* The worker's writes of ManifestWorks.
LEMMA WorksTyped ==
    ASSUME TypeInv, \E c \in Cluster : ReconcileWork(c) \/ DeleteWork(c)
    PROVE  TypeInv'
<1> PICK c \in Cluster : ReconcileWork(c) \/ DeleteWork(c)
  OBVIOUS
<1>1. pc \in {"works", "drop", "sweep"} /\ (Fail \/ Visited(c))
  BY DEF ReconcileWork, DeleteWork
<1>2. works' \subseteq AppWork
  <2>1. CASE ReconcileWork(c)
    <3>1. /\ pc = "works" /\ job.name \in App /\ job.app \in Application
          /\ works \subseteq AppWork
      BY <2>1 DEF ReconcileWork, TypeInv, TypeOK, Control
    <3>2. \A i \in Copy : [app |-> job.name, cluster |-> c, id |-> i, rev |-> job.app.rev] \in AppWork
      BY <3>1 DEF AppWork, Application
    <3>3. \A w \in works : [w EXCEPT !.rev = job.app.rev] \in AppWork
      BY <3>1 DEF AppWork, Application
    <3> QED
      BY <2>1, <3>1, <3>2, <3>3 DEF ReconcileWork
  <2>2. CASE DeleteWork(c)
    BY <2>2 DEF DeleteWork, TypeInv, TypeOK
  <2> QED
    BY <2>1, <2>2
<1>3. /\ UNCHANGED <<app, asm, hdpl, found, cm, joined, caches, events, made>>
  BY DEF ReconcileWork, DeleteWork
<1>4. /\ job' \in Job /\ queue' \subseteq App
      /\ \/ pc' = "idle"
         \/ pc' = pc /\ job'.name = job.name /\ job'.app = job.app
  BY <1>1, MovesTyped
<1> QED
  BY <1>1, <1>2, <1>3, <1>4 DEF TypeInv, TypeOK, Control, caches, PC

\* The calls that write the Application, its assembler or its ConfigMap, or only read.
LEMMA CallsTyped ==
    ASSUME TypeInv,
           \/ RejectTarget \/ WorksReconciled \/ ComposeAssembler \/ CreateAssembler
           \/ UpdateDiscoveryAnnotations \/ WorksDeleted \/ DeleteConfigmap
           \/ FetchComponents \/ UpdateStatus \/ UpdateRelationships
    PROVE  TypeInv'
<1>1. pc # "idle" /\ job.name \in App /\ job \in Job
      /\ (pc \notin {"sweep", "unmap"} => job.app \in Application)
  BY DEF TypeInv, TypeOK, Control, RejectTarget, WorksReconciled, ComposeAssembler,
         CreateAssembler, UpdateDiscoveryAnnotations, WorksDeleted, DeleteConfigmap,
         FetchComponents, UpdateStatus, UpdateRelationships
<1>2. \A x : Fetched(x) \subseteq Part
  BY <1>1, FetchedTyped DEF TypeInv, TypeOK
<1>3. CASE RejectTarget \/ WorksReconciled \/ WorksDeleted
  BY <1>1, <1>3, MovesTyped
     DEF RejectTarget, WorksReconciled, WorksDeleted, TypeInv, TypeOK, Control, caches, PC
<1>4. CASE ComposeAssembler
  <2>1. pc = "compose" /\ pc' = "create" /\ UNCHANGED queue
        /\ UNCHANGED <<app, asm, hdpl, works, found, cm, joined, caches, events, made>>
    BY <1>4 DEF ComposeAssembler
  <2>2. job' \in Job /\ job'.name = job.name /\ job'.app = job.app
    BY <1>1, <1>2, <1>4 DEF ComposeAssembler, Job
  <2> QED
    BY <1>1, <2>1, <2>2 DEF TypeInv, TypeOK, Control, caches, PC
<1>5. CASE CreateAssembler
  <2>1. asm' \in [App -> Maybe(SUBSET Part)] /\ made' \subseteq App \X Nat
    BY <1>1, <1>5 DEF CreateAssembler, TypeInv, TypeOK, Job, Application
  <2>2. pc = "create" /\ (Goto("annotate") \/ Fail)
        /\ UNCHANGED <<app, hdpl, works, found, cm, joined, caches, events>>
    BY <1>5 DEF CreateAssembler
  <2> QED
    BY <1>1, <2>1, <2>2, MovesTyped DEF TypeInv, TypeOK, Control, caches, PC
<1>6. CASE UpdateDiscoveryAnnotations
  <2>1. pc = "annotate" /\ job.app \in Application /\ Completed(job.app) \in Application
        /\ UNCHANGED <<asm, hdpl, works, found, cm, joined, caches, events, made>>
    BY <1>1, <1>6 DEF UpdateDiscoveryAnnotations, Completed, Application, Mark
  <2>2. app' \in [App -> Maybe(Application)]
    BY <1>1, <1>6, <2>1 DEF UpdateDiscoveryAnnotations, TypeInv, TypeOK
  <2>3. CASE Fail
    BY <1>1, <2>1, <2>2, <2>3, MovesTyped DEF TypeInv, TypeOK, Control, caches, PC
  <2>4. CASE ~Fail
    <3>1. pc' = "drop" /\ UNCHANGED queue
          /\ job' = [job EXCEPT !.app = Completed(job.app), !.todo = joined]
      BY <1>6, <2>4 DEF UpdateDiscoveryAnnotations
    <3>2. job' \in Job /\ job'.name = job.name /\ job'.app = Completed(job.app)
      BY <1>1, <2>1, <3>1 DEF Job, TypeInv, TypeOK
    <3> QED
      BY <1>1, <2>1, <2>2, <3>1, <3>2 DEF TypeInv, TypeOK, Control, caches, PC
  <2> QED
    BY <2>3, <2>4
<1>7. CASE DeleteConfigmap
  <2>1. cm' \in [App -> Maybe(SUBSET Relation)]
    BY <1>1, <1>7 DEF DeleteConfigmap, TypeInv, TypeOK
  <2>2. (Done \/ Fail)
        /\ UNCHANGED <<app, asm, hdpl, works, found, joined, caches, events, made>>
    BY <1>7 DEF DeleteConfigmap
  <2> QED
    BY <1>1, <2>1, <2>2, MovesTyped DEF TypeInv, TypeOK, Control, caches, PC
<1>8. CASE FetchComponents
  <2>1. pc = "fetch" /\ UNCHANGED <<app, asm, hdpl, works, found, cm, joined, caches, events, made>>
    BY <1>8 DEF FetchComponents
  <2>2. CASE Done
    BY <1>1, <2>1, <2>2, MovesTyped DEF TypeInv, TypeOK, Control, caches, PC
  <2>3. CASE ~Done
    <3>1. pc' = "status" /\ UNCHANGED queue /\ job' = [job EXCEPT !.parts = Fetched(job.app)]
      BY <1>8, <2>3 DEF FetchComponents
    <3>2. job' \in Job /\ job'.name = job.name /\ job'.app = job.app
      BY <1>1, <1>2, <3>1 DEF Job
    <3> QED
      BY <1>1, <2>1, <3>1, <3>2 DEF TypeInv, TypeOK, Control, caches, PC
  <2> QED
    BY <2>2, <2>3
<1>9. CASE UpdateStatus
  <2>1. pc = "status" /\ (Done \/ Goto("relate"))
        /\ UNCHANGED <<asm, hdpl, works, found, cm, joined, caches, events, made>>
    BY <1>9 DEF UpdateStatus
  <2>2. app' \in [App -> Maybe(Application)]
    <3>1. job.app \in Application /\ job.parts \subseteq Part
      BY <1>1, <2>1 DEF Job
    <3>2. [job.app EXCEPT !.status = job.parts] \in Application
      BY <3>1 DEF Application
    <3> QED
      BY <1>1, <1>9, <3>1, <3>2 DEF UpdateStatus, TypeInv, TypeOK
  <2> QED
    BY <1>1, <2>1, <2>2, MovesTyped DEF TypeInv, TypeOK, Control, caches, PC
<1>10. CASE UpdateRelationships
  <2>1. cm' \in [App -> Maybe(SUBSET Relation)]
    BY <1>1, <1>10, RelatedTyped DEF UpdateRelationships, TypeInv, TypeOK
  <2>2. Done /\ UNCHANGED <<app, asm, hdpl, works, found, joined, caches, events, made>>
    BY <1>10 DEF UpdateRelationships
  <2> QED
    BY <1>1, <2>1, <2>2, MovesTyped DEF TypeInv, TypeOK, Control, caches, PC
<1> QED
  BY <1>3, <1>4, <1>5, <1>6, <1>7, <1>8, <1>9, <1>10

\* Restarts, by panic or crash.
LEMMA RestartTyped ==
    ASSUME TypeInv, Restart, events' \in Nat
    PROVE  TypeInv'
BY DEF Restart, TypeInv, TypeOK, Control, Job, NoJob, PC

LEMMA SyncTyped ==
    ASSUME TypeInv, Sync
    PROVE  TypeInv'
<1>1. UNCHANGED <<app, asm, hdpl, works, found, cm, joined, pc, job, events, made>>
  BY DEF Sync, SyncApplications, SyncAssemblers, SyncManifestWorks, SyncConfigmaps, SyncDeployable
<1>2. queue' \subseteq App
  BY DEF Sync, SyncApplications, SyncAssemblers, SyncManifestWorks, SyncConfigmaps,
         SyncDeployable, Matching, TypeInv, TypeOK
<1>3. /\ cApp' \in [App -> Maybe(Application)] /\ cAsm' \in [App -> Maybe(SUBSET Part)]
      /\ cHdpl' \in [Hdpl -> Deployable] /\ cWorks' \subseteq AppWork /\ cFound' \subseteq Found
      /\ cCm' \in [App -> Maybe(SUBSET Relation)]
  BY DEF Sync, SyncApplications, SyncAssemblers, SyncManifestWorks, SyncConfigmaps,
         SyncDeployable, TypeInv, TypeOK
<1> QED
  BY <1>1, <1>2, <1>3 DEF TypeInv, TypeOK, Control

LEMMA EnvironmentTyped ==
    ASSUME TypeInv, Environment
    PROVE  TypeInv'
<1>1. events' \in Nat
  BY DEF Environment, CreateApplication, EditApplication, DeleteApplication, DeleteAssembler,
         LoseConfigmap, ToggleDeployable, LoseWork, ToggleCluster, Discover, ApiFault,
         ToleratedFault, Crash, Happens, TypeInv, TypeOK
<1>2. Stamp \in Nat
  BY DEF Stamp, TypeInv, TypeOK
<1>3. ASSUME NEW a \in App, NEW r \in Request, CreateApplication(a, r) \/ EditApplication(a, r)
      PROVE  TypeInv'
  <2>1. \A u \in Nat : Asked(r, u) \in Application
    BY <1>2, <1>3, RequestAssumption DEF Asked, Application, Mark
  <2>2. app' \in [App -> Maybe(Application)]
    <3>1. CASE CreateApplication(a, r)
      BY <1>2, <2>1, <3>1 DEF CreateApplication, TypeInv, TypeOK
    <3>2. CASE EditApplication(a, r)
      <4>1. app[a] \in Application
        BY <3>2 DEF EditApplication, TypeInv, TypeOK
      <4>2. [Asked(r, app[a].uid) EXCEPT !.status = app[a].status] \in Application
        BY <2>1, <4>1 DEF Application
      <4> QED
        BY <3>2, <4>2 DEF EditApplication, TypeInv, TypeOK
    <3> QED
      BY <1>3, <3>1, <3>2
  <2>3. UNCHANGED <<asm, hdpl, works, found, cm, joined, caches, queue, pc, job, made>>
    BY <1>3 DEF CreateApplication, EditApplication
  <2> QED
    BY <1>1, <2>2, <2>3 DEF TypeInv, TypeOK, Control, caches
<1>4. ASSUME NEW a \in App, DeleteApplication(a) \/ DeleteAssembler(a) \/ LoseConfigmap(a)
      PROVE  TypeInv'
  BY <1>1, <1>4 DEF DeleteApplication, DeleteAssembler, LoseConfigmap, TypeInv, TypeOK, Control, caches
<1>5. ASSUME NEW h \in Hdpl, ToggleDeployable(h)
      PROVE  TypeInv'
  <2>1. hdpl' \in [Hdpl -> Deployable]
    BY <1>2, <1>5 DEF ToggleDeployable, TypeInv, TypeOK, Deployable
  <2> QED
    BY <1>1, <1>5, <2>1 DEF ToggleDeployable, TypeInv, TypeOK, Control, caches
<1>6. CASE \/ \E w \in works : LoseWork(w)
           \/ \E c \in Cluster : ToggleCluster(c)
           \/ \E f \in Found : Discover(f)
  <2>1. works' \subseteq AppWork /\ found' \subseteq Found /\ joined' \subseteq Cluster
    BY <1>6 DEF LoseWork, ToggleCluster, Discover, TypeInv, TypeOK
  <2>2. UNCHANGED <<app, asm, hdpl, cm, caches, queue, pc, job, made>>
    BY <1>6 DEF LoseWork, ToggleCluster, Discover
  <2> QED
    BY <1>1, <2>1, <2>2 DEF TypeInv, TypeOK, Control, caches
<1>7. CASE ApiFault \/ ToleratedFault
  <2>1. pc # "idle" /\ UNCHANGED <<app, asm, hdpl, works, found, cm, joined, caches, made>>
    BY <1>7 DEF ApiFault, ToleratedFault
  <2>2. /\ job' \in Job /\ queue' \subseteq App
        /\ \/ pc' = "idle"
           \/ pc = "works" /\ pc' = "fetch" /\ job' = job
           \/ pc' = pc /\ job'.name = job.name /\ job'.app = job.app
           \/ /\ pc \in {"compose", "fetch"} /\ pc' \in {"create", "status"}
              /\ job'.name = job.name /\ job'.app = job.app
    <3>1. CASE Done \/ Fail
      BY <2>1, <3>1, MovesTyped
    <3>2. CASE pc = "works" /\ Goto("fetch")
      BY <2>1, <3>2, MovesTyped DEF TypeInv, TypeOK
    <3>3. CASE \E c : Visited(c)
      BY <2>1, <3>3, MovesTyped
    <3>4. ASSUME NEW parts \in SUBSET Part, job' = [job EXCEPT !.parts = parts], UNCHANGED queue
          PROVE  /\ job' \in Job /\ job'.name = job.name /\ job'.app = job.app
                 /\ queue' \subseteq App
      BY <3>4 DEF Job, TypeInv, TypeOK
    <3>5. Unmapped(job.app) \subseteq Part
      BY DEF Unmapped, Part
    <3>6. /\ {p \in Unmapped(job.app) : ClusterOf[p] \in joined} \in SUBSET Part
          /\ Unmapped(job.app) \in SUBSET Part
      BY <3>5
    <3> QED
      BY <1>7, <3>1, <3>2, <3>3, <3>4, <3>6 DEF ApiFault, ToleratedFault
  <2> QED
    BY <1>1, <2>1, <2>2 DEF TypeInv, TypeOK, Control, caches, PC
<1>8. CASE Crash
  BY <1>1, <1>8, RestartTyped DEF Crash
<1> QED
  BY <1>3, <1>4, <1>5, <1>6, <1>7, <1>8 DEF Environment

\* The types hold at the start, and every step keeps them.
THEOREM TypeCorrect == Spec => []TypeInv
<1>1. Init => TypeInv
  BY RequestAssumption DEF Init, TypeInv, TypeOK, Control, Application, Mark, Deployable, Job, NoJob, PC
<1>2. TypeInv /\ [Next]_vars => TypeInv'
  <2> SUFFICES ASSUME TypeInv, [Next]_vars
               PROVE  TypeInv'
    OBVIOUS
  <2>1. CASE UNCHANGED vars
    BY <2>1 DEF vars, caches, TypeInv, TypeOK, Control
  <2>2. CASE Panic
    BY <2>2, RestartTyped DEF Panic, TypeInv, TypeOK
  <2>3. CASE Reconcile /\ ~Panic
    BY <2>3, CallsTyped, WorksTyped DEF Reconcile
  <2> QED
    BY <2>1, <2>2, <2>3, StartTyped, SyncTyped, EnvironmentTyped DEF Next
<1> QED
  BY <1>1, <1>2, PTL DEF Spec

\* Every object, cached copy and local variable is what its kind says
\* (application_controller.go:106-206 and what it calls).
THEOREM TypesOK == Spec => []TypeOK
BY TypeCorrect, PTL DEF TypeInv

-----------------------------------------------------------------------------
(***************************************************************************)
(* What the worker writes into Applications.                               *)
(***************************************************************************)
\* A change of a field of a typed Application leaves an Application.
LEMMA Rewritten ==
    ASSUME NEW x \in Application, NEW parts \in SUBSET Part
    PROVE  /\ Completed(x) # Absent
           /\ Completed(x).uid = x.uid /\ Completed(x).rev = x.rev /\ Completed(x).target = x.target
           /\ [x EXCEPT !.status = parts] # Absent
           /\ [x EXCEPT !.status = parts].uid = x.uid
           /\ [x EXCEPT !.status = parts].rev = x.rev
           /\ [x EXCEPT !.status = parts].target = x.target
           /\ [x EXCEPT !.status = parts].make = x.make
<1>1. Completed(x) \in Application /\ [x EXCEPT !.status = parts] \in Application
  BY DEF Completed, Application, Mark
<1>2. Completed(x) # Absent /\ [x EXCEPT !.status = parts] # Absent
  BY <1>1, AbsentAssumption, Zenon DEF Application
<1> QED
  BY <1>2 DEF Completed, Application

\* Without an event, an Application changes by a completion or a status that is written from
\* a copy that is current, and in no other way.
LEMMA ApplicationWrites ==
    ASSUME TypeInv, [Next]_vars, events' = events
    PROVE  \/ UNCHANGED app
           \/ /\ UpdateDiscoveryAnnotations
              /\ job.app \in Application /\ job.name \in App /\ app[job.name] = job.app
              /\ app' = [app EXCEPT ![job.name] = Completed(job.app)]
           \/ /\ UpdateStatus
              /\ job.app \in Application /\ job.name \in App /\ app[job.name] = job.app
              /\ job.parts \in SUBSET Part
              /\ app' = [app EXCEPT ![job.name] = [job.app EXCEPT !.status = job.parts]]
<1>1. CASE UNCHANGED vars \/ (\E a \in App : Start(a)) \/ Sync
  BY <1>1 DEF vars, Start, Sync, SyncApplications, SyncAssemblers, SyncManifestWorks,
              SyncConfigmaps, SyncDeployable
<1>2. CASE Environment
  <2>1. events \in Nat
    BY DEF TypeInv, TypeOK
  <2> QED
    BY <1>2, <2>1 DEF Environment, CreateApplication, EditApplication, DeleteApplication, DeleteAssembler,
       LoseConfigmap, ToggleDeployable, LoseWork, ToggleCluster, Discover, ApiFault,
       ToleratedFault, Crash, Happens
<1>3. CASE UpdateDiscoveryAnnotations
  BY <1>3 DEF UpdateDiscoveryAnnotations, TypeInv, TypeOK, Control
<1>4. CASE UpdateStatus
  <2>1. /\ pc = "status" /\ job \in Job /\ job.name \in App /\ job.app \in Application
        /\ app \in [App -> Maybe(Application)]
    BY <1>4 DEF UpdateStatus, TypeInv, TypeOK, Control
  <2> QED
    BY <1>4, <2>1 DEF UpdateStatus, Job
<1>5. CASE Reconcile /\ ~UpdateDiscoveryAnnotations /\ ~UpdateStatus
  BY <1>5 DEF Reconcile, RejectTarget, WorksReconciled, ComposeAssembler, CreateAssembler,
              WorksDeleted, DeleteConfigmap, FetchComponents, UpdateRelationships, Panic,
              Restart, ReconcileWork, DeleteWork
<1> QED
  BY <1>1, <1>2, <1>3, <1>4, <1>5 DEF Next

\* What a user wrote into an Application while a reconcile held an older copy stays: both
\* Updates carry the resourceVersion of the copy (application_status.go:123-133,
\* 234-273).
THEOREM EditsNeverLost == Spec => EditsKept
<1> DEFINE Kept == events' = events =>
          \A a \in App : app[a] # Absent =>
              /\ app'[a] # Absent
              /\ app'[a].uid = app[a].uid /\ app'[a].rev = app[a].rev
              /\ app'[a].target = app[a].target
<1>1. TypeInv /\ [Next]_vars => Kept
  <2> SUFFICES ASSUME TypeInv, [Next]_vars, events' = events, NEW a \in App, app[a] # Absent
               PROVE  /\ app'[a] # Absent
                      /\ app'[a].uid = app[a].uid /\ app'[a].rev = app[a].rev
                      /\ app'[a].target = app[a].target
    OBVIOUS
  <2>1. CASE UNCHANGED app
    BY <2>1
  <2>2. CASE ~UNCHANGED app
    <3>1. app \in [App -> Maybe(Application)]
      BY DEF TypeInv, TypeOK
    <3>2. CASE a # job.name
      BY <2>2, <3>1, <3>2, ApplicationWrites
    <3>3. CASE a = job.name
      <4>1. job.app \in Application /\ app[a] = job.app
            /\ \/ app'[a] = Completed(job.app)
               \/ /\ job.parts \in SUBSET Part
                  /\ app'[a] = [job.app EXCEPT !.status = job.parts]
        BY <2>2, <3>1, <3>3, ApplicationWrites
      <4>2. CASE app'[a] = Completed(job.app)
        <5>1. {} \in SUBSET Part
          OBVIOUS
        <5>2. /\ Completed(job.app) # Absent /\ Completed(job.app).uid = job.app.uid
              /\ Completed(job.app).rev = job.app.rev
              /\ Completed(job.app).target = job.app.target
          BY <4>1, <5>1, Rewritten
        <5> QED
          BY <4>1, <4>2, <5>2
      <4>3. CASE /\ job.parts \in SUBSET Part
                 /\ app'[a] = [job.app EXCEPT !.status = job.parts]
        <5> DEFINE new == [job.app EXCEPT !.status = job.parts]
        <5>1. /\ new # Absent /\ new.uid = job.app.uid /\ new.rev = job.app.rev
              /\ new.target = job.app.target
          BY <4>1, <4>3, Rewritten
        <5> QED
          BY <4>1, <4>3, <5>1
      <4> QED
        BY <4>1, <4>2, <4>3
    <3> QED
      BY <3>2, <3>3
  <2> QED
    BY <2>1, <2>2
<1>2. TypeInv /\ [Next]_vars => [Kept]_vars
  BY <1>1
<1> QED
  BY <1>2, TypeCorrect, PTL DEF Spec, EditsKept

-----------------------------------------------------------------------------
(***************************************************************************)
(* Completion.                                                             *)
(***************************************************************************)
\* m has the Application of name a if its copy x is completed.
Made(m, a, x) == x.make = "done" => <<a, x.uid>> \in m

\* Every copy of an Application is as sound as the stored one, and the copy that is about to
\* be completed had its assembler made.
CompletionInv ==
    /\ CompletionSound
    /\ \A a \in App : cApp[a] # Absent => Made(made, a, cApp[a])
    /\ pc \notin {"idle", "sweep", "unmap"} => Made(made, job.name, job.app)
    /\ pc = "annotate" => <<job.name, job.app.uid>> \in made

\* Nothing of the history is forgotten.
LEMMA MadeGrows ==
    ASSUME [Next]_vars
    PROVE  made \subseteq made'
BY DEF Next, vars, Start, Reconcile, RejectTarget, WorksReconciled, ComposeAssembler,
       CreateAssembler, UpdateDiscoveryAnnotations, WorksDeleted, DeleteConfigmap,
       FetchComponents, UpdateStatus, UpdateRelationships, Panic, Restart, ReconcileWork,
       DeleteWork, Sync, SyncApplications, SyncAssemblers, SyncManifestWorks, SyncConfigmaps,
       SyncDeployable, Environment, CreateApplication, EditApplication, DeleteApplication,
       DeleteAssembler, LoseConfigmap, ToggleDeployable, LoseWork, ToggleCluster, Discover,
       ApiFault, ToleratedFault, Crash

\* Where a reconcile's copy of the Application comes from.
LEMMA JobMoves ==
    ASSUME TypeInv, [Next]_vars
    PROVE  \/ pc' \in {"idle", "sweep", "unmap"}
           \/ \E a \in App : /\ cApp[a] # Absent /\ pc' # "annotate"
                             /\ job'.name = a /\ job'.app = cApp[a]
           \/ /\ pc \notin {"idle", "sweep", "unmap"} /\ (pc' = "annotate" => pc = "annotate")
              /\ job'.name = job.name /\ job'.app = job.app
           \/ /\ pc \notin {"idle", "sweep", "unmap"} /\ <<job.name, job.app.uid>> \in made'
              /\ job'.name = job.name /\ job'.app = job.app
           \/ /\ UpdateDiscoveryAnnotations /\ pc' # "annotate" /\ job.app \in Application
              /\ job'.name = job.name /\ job'.app = Completed(job.app)
<1>0. job \in Job
  BY DEF TypeInv, TypeOK
<1>1. CASE UNCHANGED vars \/ Sync
  BY <1>1 DEF vars, Sync, SyncApplications, SyncAssemblers, SyncManifestWorks, SyncConfigmaps,
              SyncDeployable
<1>2. CASE \E a \in App : Start(a)
  BY <1>2 DEF Start, NoJob
<1>3. CASE Panic \/ Crash
  BY <1>3 DEF Panic, Crash, Restart
<1>4. CASE Environment /\ ~Crash
  BY <1>0, <1>4 DEF Environment, CreateApplication, EditApplication, DeleteApplication,
       DeleteAssembler, LoseConfigmap, ToggleDeployable, LoseWork, ToggleCluster, Discover,
       ApiFault, ToleratedFault, Fail, Done, Goto, Visited, Job
<1>5. CASE CreateAssembler
  BY <1>5 DEF CreateAssembler, Fail, Goto
<1>6. CASE UpdateDiscoveryAnnotations
  <2>1. job.app \in Application
    BY <1>6 DEF UpdateDiscoveryAnnotations, TypeInv, Control
  <2>2. CASE pc' = "idle"
    BY <2>2
  <2>3. CASE pc' # "idle"
    <3>1. pc' = "drop" /\ job' = [job EXCEPT !.app = Completed(job.app), !.todo = joined]
      BY <1>6, <2>3 DEF UpdateDiscoveryAnnotations, Fail
    <3> QED
      BY <1>0, <1>6, <2>1, <3>1 DEF Job
  <2> QED
    BY <2>2, <2>3
<1>7. CASE RejectTarget \/ WorksReconciled \/ WorksDeleted \/ DeleteConfigmap \/ UpdateStatus
           \/ UpdateRelationships
  BY <1>7 DEF RejectTarget, WorksReconciled, WorksDeleted, DeleteConfigmap, UpdateStatus,
              UpdateRelationships, Fail, Done, Goto
<1>8. CASE ComposeAssembler \/ FetchComponents \/ (\E c \in Cluster : ReconcileWork(c) \/ DeleteWork(c))
  BY <1>0, <1>8 DEF ComposeAssembler, FetchComponents, ReconcileWork, DeleteWork, Fail, Done,
                    Visited, Job
<1> QED
  BY <1>1, <1>2, <1>3, <1>4, <1>5, <1>6, <1>7, <1>8 DEF Next, Reconcile

\* An event leaves no Application completed that was not.
LEMMA EventsComplete ==
    ASSUME TypeInv, Environment, NEW a \in App, app'[a] # Absent, app'[a].make = "done"
    PROVE  app[a] # Absent /\ app'[a] = app[a]
<1>1. app \in [App -> Maybe(Application)]
  BY DEF TypeInv, TypeOK
<1>2. ASSUME NEW b \in App, NEW r \in Request, CreateApplication(b, r) \/ EditApplication(b, r)
      PROVE  app'[a] = app[a]
  <2>1. r.make # "done"
    BY RequestAssumption
  <2>2. \A u : Asked(r, u).make = r.make
    BY DEF Asked
  <2>3. CASE CreateApplication(b, r)
    BY <1>1, <2>1, <2>2, <2>3 DEF CreateApplication
  <2>4. CASE EditApplication(b, r)
    <3>1. [Asked(r, app[b].uid) EXCEPT !.status = app[b].status].make = r.make
      BY DEF Asked
    <3>2. app' = [app EXCEPT ![b] = [Asked(r, app[b].uid) EXCEPT !.status = app[b].status]]
      BY <2>4 DEF EditApplication
    <3> QED
      BY <1>1, <2>1, <3>1, <3>2
  <2> QED
    BY <1>2, <2>3, <2>4
<1>3. ASSUME NEW b \in App, DeleteApplication(b)
      PROVE  app'[a] = app[a]
  BY <1>1, <1>3 DEF DeleteApplication
<1>4. CASE UNCHANGED app
  BY <1>4
<1> QED
  BY <1>2, <1>3, <1>4 DEF Environment, DeleteAssembler, LoseConfigmap, ToggleDeployable, LoseWork,
     ToggleCluster, Discover, ApiFault, ToleratedFault, Crash, Restart

\* Every step keeps what is known of completed Applications.
LEMMA CompletionKept ==
    ASSUME TypeInv, CompletionInv, [Next]_vars
    PROVE  CompletionInv'
<1>1. made \subseteq made'
  BY MadeGrows
<1>2. CompletionSound'
  <2> SUFFICES ASSUME NEW a \in App, app'[a] # Absent, app'[a].make = "done"
               PROVE  <<a, app'[a].uid>> \in made'
    BY DEF CompletionSound
  <2>0. app \in [App -> Maybe(Application)]
    BY DEF TypeInv, TypeOK
  <2>1. CASE app'[a] = app[a]
    BY <1>1, <2>1 DEF CompletionInv, CompletionSound
  <2>2. CASE Environment
    BY <2>1, <2>2, EventsComplete
  <2>3. CASE ~Environment /\ app'[a] # app[a]
    <3>1. events' = events
      BY <2>3 DEF Next, vars, Start, Reconcile, RejectTarget, WorksReconciled, ComposeAssembler,
         CreateAssembler, UpdateDiscoveryAnnotations, WorksDeleted, DeleteConfigmap,
         FetchComponents, UpdateStatus, UpdateRelationships, Panic, ReconcileWork, DeleteWork,
         Sync, SyncApplications, SyncAssemblers, SyncManifestWorks, SyncConfigmaps, SyncDeployable
    <3>2. /\ a = job.name /\ job.app \in Application
          /\ \/ pc = "annotate" /\ app'[a] = Completed(job.app)
             \/ /\ pc = "status" /\ job.parts \in SUBSET Part
                /\ app'[a] = [job.app EXCEPT !.status = job.parts]
      BY <2>0, <2>3, <3>1, ApplicationWrites DEF UpdateDiscoveryAnnotations, UpdateStatus
    <3>3. app'[a].uid = job.app.uid /\ (pc = "status" => app'[a].make = job.app.make)
      <4>1. CASE pc = "annotate" /\ app'[a] = Completed(job.app)
        <5>1. {} \in SUBSET Part
          OBVIOUS
        <5>2. Completed(job.app).uid = job.app.uid
          BY <3>2, <5>1, Rewritten
        <5> QED
          BY <4>1, <5>2
      <4>2. CASE /\ pc = "status" /\ job.parts \in SUBSET Part
                 /\ app'[a] = [job.app EXCEPT !.status = job.parts]
        <5>1. /\ [job.app EXCEPT !.status = job.parts].uid = job.app.uid
              /\ [job.app EXCEPT !.status = job.parts].make = job.app.make
          BY <3>2, <4>2, Rewritten
        <5> QED
          BY <4>2, <5>1
      <4> QED
        BY <3>2, <4>1, <4>2
    <3> QED
      BY <1>1, <3>2, <3>3 DEF CompletionInv, Made
  <2> QED
    BY <2>1, <2>2, <2>3
<1>3. \A a \in App : cApp'[a] # Absent => Made(made', a, cApp'[a])
  <2>1. cApp' = cApp \/ (cApp' = app /\ app' = app)
    BY DEF Next, vars, caches, Start, Reconcile, RejectTarget, WorksReconciled, ComposeAssembler,
       CreateAssembler, UpdateDiscoveryAnnotations, WorksDeleted, DeleteConfigmap,
       FetchComponents, UpdateStatus, UpdateRelationships, Panic, Restart, ReconcileWork,
       DeleteWork, Sync, SyncApplications, SyncAssemblers, SyncManifestWorks, SyncConfigmaps,
       SyncDeployable, Environment, CreateApplication, EditApplication, DeleteApplication,
       DeleteAssembler, LoseConfigmap, ToggleDeployable, LoseWork, ToggleCluster, Discover,
       ApiFault, ToleratedFault, Crash
  <2> QED
    BY <1>1, <2>1 DEF CompletionInv, CompletionSound, Made
<1>4. /\ pc' \notin {"idle", "sweep", "unmap"} => Made(made', job'.name, job'.app)
      /\ pc' = "annotate" => <<job'.name, job'.app.uid>> \in made'
  <2>1. CASE UpdateDiscoveryAnnotations /\ pc' # "annotate" /\ job.app \in Application
             /\ job'.name = job.name /\ job'.app = Completed(job.app)
    <3>1. job'.app.uid = job.app.uid
      BY <2>1 DEF Completed, Application
    <3> QED
      BY <1>1, <2>1, <3>1 DEF UpdateDiscoveryAnnotations, CompletionInv, Made
  <2> QED
    BY <1>1, <2>1, JobMoves DEF CompletionInv, Made
<1> QED
  BY <1>2, <1>3, <1>4 DEF CompletionInv

\* An Application whose create-assembler annotation is completed had its assembler made for it
\* (application_controller.go:173-199).
THEOREM CompletionAlwaysSound == Spec => []CompletionSound
<1>1. Init => CompletionInv
  BY RequestAssumption DEF Init, CompletionInv, CompletionSound, Made
<1>2. TypeInv /\ CompletionInv /\ [Next]_vars => CompletionInv'
  BY CompletionKept
<1>3. CompletionInv => CompletionSound
  BY DEF CompletionInv
<1> QED
  BY <1>1, <1>2, <1>3, TypeCorrect, PTL DEF Spec

-----------------------------------------------------------------------------
(***************************************************************************)
(* The relationships.                                                      *)
(***************************************************************************)
Rooted(relations) == \A r \in relations : r[1] = "application" \/ \E s \in relations : s[2] = r[1]

\* What is written is rooted, whatever the caches hold.
LEMMA RelatedRooted ==
    ASSUME NEW v \in View
    PROVE  Rooted(Related(v))
<1>1. \A h \in RelatedDeployables : <<"application", h>> \in Related(v)
  BY DEF Related
<1>2. \A d \in RelatedDeliveries(v) : <<DeliveryOf[d], d>> \in Related(v)
  BY DEF Related
<1>3. ASSUME NEW r \in Related(v)
      PROVE  r[1] = "application" \/ \E s \in Related(v) : s[2] = r[1]
  <2>1. CASE \E h \in RelatedDeployables : r = <<"application", h>>
    BY <2>1
  <2>2. CASE \E h \in RelatedRules(v) : r = <<h, "rule">>
    <3>1. PICK h \in RelatedRules(v) : r = <<h, "rule">>
      BY <2>2
    <3>2. <<"application", h>> \in Related(v) /\ <<"application", h>>[2] = r[1]
      BY <1>1, <3>1, RelatedParts
    <3> QED
      BY <3>2
  <2>3. CASE \E d \in RelatedDeliveries(v) : r = <<DeliveryOf[d], d>>
    <3>1. PICK d \in RelatedDeliveries(v) : r = <<DeliveryOf[d], d>>
      BY <2>3
    <3>2. DeliveryOf[d] \in RelatedDeployables
      BY RelatedParts
    <3>3. <<"application", DeliveryOf[d]>> \in Related(v)
          /\ <<"application", DeliveryOf[d]>>[2] = r[1]
      BY <1>1, <3>1, <3>2
    <3> QED
      BY <3>3
  <2>4. CASE \E d \in RelatedManifests(v) : r = <<d, "manifest">>
    <3>1. PICK d \in RelatedManifests(v) : r = <<d, "manifest">>
      BY <2>4
    <3>2. <<DeliveryOf[d], d>> \in Related(v) /\ <<DeliveryOf[d], d>>[2] = r[1]
      BY <1>2, <3>1, RelatedParts
    <3> QED
      BY <3>2
  <2> QED
    BY <2>1, <2>2, <2>3, <2>4 DEF Related
<1> QED
  BY <1>3 DEF Rooted

\* The ConfigMap of an Application is a graph that starts at the Application, although four
\* kinds are read from caches of different ages (application_status.go:353-560).
THEOREM RelationsAlwaysRooted == Spec => []RelationsRooted
<1> DEFINE AllRooted == \A a \in App : cm[a] # Absent => Rooted(cm[a])
<1>1. Init => AllRooted
  BY DEF Init
<1>2. TypeInv /\ AllRooted /\ [Next]_vars => AllRooted'
  <2> SUFFICES ASSUME TypeInv, AllRooted, [Next]_vars
               PROVE  AllRooted'
    OBVIOUS
  <2>0. cm \in [App -> Maybe(SUBSET Relation)]
    BY DEF TypeInv, TypeOK
  <2>1. CASE UpdateRelationships
    <3>1. cm' = cm \/ \E v \in View : cm' = [cm EXCEPT ![job.name] = Related(v)]
      BY <2>1 DEF UpdateRelationships
    <3> QED
      BY <2>0, <3>1, RelatedRooted
  <2>2. CASE \E a \in App : cm' = [cm EXCEPT ![a] = Absent]
    BY <2>0, <2>2
  <2>3. CASE UNCHANGED cm
    BY <2>3
  <2>4. CASE DeleteConfigmap
    BY <2>2, <2>3, <2>4 DEF DeleteConfigmap, TypeInv, Control
  <2>5. CASE ~UpdateRelationships /\ ~DeleteConfigmap /\ ~(\E a \in App : LoseConfigmap(a))
    BY <2>3, <2>5 DEF Next, vars, Start, Reconcile, RejectTarget, WorksReconciled, ComposeAssembler,
       CreateAssembler, UpdateDiscoveryAnnotations, WorksDeleted,
       FetchComponents, UpdateStatus, Panic, Restart, ReconcileWork,
       DeleteWork, Sync, SyncApplications, SyncAssemblers, SyncManifestWorks, SyncConfigmaps,
       SyncDeployable, Environment, CreateApplication, EditApplication, DeleteApplication,
       DeleteAssembler, ToggleDeployable, LoseWork, ToggleCluster, Discover,
       ApiFault, ToleratedFault, Crash
  <2> QED
    BY <2>1, <2>2, <2>4, <2>5 DEF LoseConfigmap
<1>3. AllRooted => RelationsRooted
  BY DEF Rooted, RelationsRooted
<1> QED
  BY <1>1, <1>2, <1>3, TypeCorrect, PTL DEF Spec
===============================================================================
