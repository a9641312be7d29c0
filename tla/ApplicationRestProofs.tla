------------------------ MODULE ApplicationRestProofs ------------------------
(***************************************************************************)
(* The Application controller has done its work whenever nothing is left   *)
(* to do: the safety halves of EventuallyCurrent and EventuallySearched,   *)
(* for every value of the constants.                                       *)
(***************************************************************************)
EXTENDS ApplicationProofs

USE DEF Maybe

-----------------------------------------------------------------------------
(***************************************************************************)
(* The invariants.                                                         *)
(***************************************************************************)
\* Nothing is cached before it is stamped, and every event stamps anew.
StampInv ==
    /\ \A a \in App : /\ app[a] # Absent => app[a].rev <= events
                      /\ cApp[a] # Absent => cApp[a].rev <= events
    /\ \A h \in Hdpl : hdpl[h].since <= events /\ cHdpl[h].since <= events

\* The Application is gone, or the worker will come back to it.
Renewed(a) == Requested(a) \/ app[a] = Absent

\* Up to the write of the status, the worker holds the Application as it is, or will come back.
HeldInv ==
    /\ pc \notin {"idle", "relate"} => Renewed(job.name) \/ app[job.name] = job.app
    /\ pc \in {"sweep", "unmap"} => job.app = Absent
    /\ pc = "drop" => job.app.disc = "done"

\* A component list is right about the Deployables that only a can be told of, up to those that
\* the watch has news of.
Agrees(deployables, cached, a, parts) ==
    \A h \in Sole(a) : cached[h] = deployables[h] => (h \in parts <=> deployables[h].here)

\* So is the list that is about to be written, or the news were told meanwhile.
PartsInv ==
    pc = "status" => \/ "tolerated" \in Event
                     \/ job.name \in queue \/ cApp[job.name] = Absent
                     \/ Agrees(hdpl, cHdpl, job.name, job.parts)

\* Application x, of the name a, is wrapped on these clusters if it is under discovery.
Wrapped(ws, a, x, clusters) ==
    x.disc = "on" /\ x.target # "malformed" =>
        \A c \in clusters : \E w \in ws : w.app = a /\ w.cluster = c /\ w.rev = x.rev

Quiet == Event \cap {"work", "cluster"} = {}

\* The calls at which the ManifestWorks of the Application that is held are as they should be.
Wrapping == {"works", "compose", "create", "annotate", "fetch", "status"}

\* The clusters the reconcile has been to, of those it has to go to.
Passed == (Targets(job.app) \cap joined) \ (IF pc = "works" THEN job.todo ELSE {})

WrappedInv ==
    Quiet /\ pc \in Wrapping => Wrapped(works, job.name, job.app, Passed)

\* Nothing of an Application is still to be written: at most its relationships.
Free(a) == pc \in {"idle", "relate"} \/ job.name # a

Right(a) ==
    /\ "tolerated" \notin Event => Agrees(hdpl, cHdpl, a, app[a].status)
    /\ Quiet => Wrapped(works, a, app[a], Targets(app[a]) \cap joined)

RestInv == \A a \in App : Free(a) => Renewed(a) \/ Right(a)

SettledInv == StampInv /\ HeldInv /\ PartsInv /\ WrappedInv /\ RestInv
-----------------------------------------------------------------------------
(***************************************************************************)
(* What the steps do to requests.                                          *)
(***************************************************************************)
\* The stamps are numbers.
LEMMA StampsTyped ==
    ASSUME TypeInv
    PROVE  /\ \A a \in App : /\ app[a] # Absent => app[a] \in Application /\ app[a].rev \in Nat
                             /\ cApp[a] # Absent => cApp[a] \in Application /\ cApp[a].rev \in Nat
           /\ \A h \in Hdpl : hdpl[h].since \in Nat /\ cHdpl[h].since \in Nat
           /\ events \in Nat
<1>1. ASSUME NEW x \in Application
      PROVE  x.rev \in Nat
  BY DEF Application
<1>2. ASSUME NEW d \in Deployable
      PROVE  d.since \in Nat
  BY DEF Deployable
<1>3. /\ app \in [App -> Maybe(Application)] /\ cApp \in [App -> Maybe(Application)]
      /\ hdpl \in [Hdpl -> Deployable] /\ cHdpl \in [Hdpl -> Deployable] /\ events \in Nat
  BY DEF TypeInv, TypeOK
<1> QED
  BY <1>1, <1>2, <1>3

\* The worker's writes of an Application that succeed.
Writes(a) == (UpdateDiscoveryAnnotations \/ UpdateStatus) /\ a = job.name /\ app[a] = job.app

\* The steps that change Applications.
LEMMA ApplicationSteps ==
    ASSUME TypeInv, Next
    PROVE  /\ events' = events \/ events' = events + 1
           /\ \/ UNCHANGED app
              \/ Writes(job.name)
              \/ \E a \in App : \/ \E r \in Request : CreateApplication(a, r) \/ EditApplication(a, r)
                                \/ DeleteApplication(a)
BY DEF Next, Start, Reconcile, RejectTarget, WorksReconciled, ComposeAssembler,
       CreateAssembler, UpdateDiscoveryAnnotations, WorksDeleted, DeleteConfigmap,
       FetchComponents, UpdateStatus, UpdateRelationships, Panic, Restart, ReconcileWork,
       DeleteWork, Sync, SyncApplications, SyncAssemblers, SyncManifestWorks, SyncConfigmaps,
       SyncDeployable, Environment, CreateApplication, EditApplication, DeleteApplication,
       DeleteAssembler, LoseConfigmap, ToggleDeployable, LoseWork, ToggleCluster, Discover,
       ApiFault, ToleratedFault, Crash, Happens, Writes

\* An Application is left alone, removed, written by the worker, or stamped anew.
LEMMA ApplicationMoves ==
    ASSUME TypeInv, Next, NEW a \in App
    PROVE  \/ app'[a] = app[a]
           \/ app'[a] = Absent
           \/ Writes(a)
           \/ app'[a] # Absent /\ app'[a].rev = events' /\ events' = events + 1
<1>0. app \in [App -> Maybe(Application)] /\ events \in Nat
  BY DEF TypeInv, TypeOK
<1>1. CASE UNCHANGED app
  BY <1>1
<1>2. CASE Writes(job.name)
  <2>1. \A x : a # job.name => [app EXCEPT ![job.name] = x][a] = app[a]
    BY <1>0
  <2>2. UNCHANGED app \/ \E x : app' = [app EXCEPT ![job.name] = x]
    BY <1>2, Zenon DEF Writes, UpdateDiscoveryAnnotations, UpdateStatus
  <2> QED
    BY <1>2, <2>1, <2>2 DEF Writes
<1>3. ASSUME NEW b \in App, NEW r \in Request, CreateApplication(b, r) \/ EditApplication(b, r)
      PROVE  app'[a] = app[a] \/ (app'[a] # Absent /\ app'[a].rev = events' /\ events' = events + 1)
  <2>0. events' = events + 1 /\ Stamp = events' /\ Stamp \in Nat
    BY <1>0, <1>3 DEF CreateApplication, EditApplication, Happens, Stamp
  <2>1. ASSUME NEW u \in Nat, NEW s \in SUBSET Part
        PROVE  /\ Asked(r, u) # Absent /\ Asked(r, u).rev = Stamp
               /\ [Asked(r, u) EXCEPT !.status = s] # Absent
               /\ [Asked(r, u) EXCEPT !.status = s].rev = Stamp
    <3>1. Asked(r, u) \in Application /\ Asked(r, u).rev = Stamp
      BY <2>0, RequestAssumption DEF Asked, Application, Mark
    <3>2. Asked(r, u) # Absent
      BY <3>1, AbsentAssumption, Zenon DEF Application
    <3> QED
      BY <3>1, <3>2, Rewritten
  <2>2. CASE CreateApplication(b, r)
    BY <1>0, <2>0, <2>1, <2>2 DEF CreateApplication
  <2>3. CASE EditApplication(b, r)
    <3>1. app[b].uid \in Nat /\ app[b].status \in SUBSET Part
      BY <1>0, <2>3 DEF EditApplication, Application
    <3> DEFINE x == [Asked(r, app[b].uid) EXCEPT !.status = app[b].status]
    <3>2. x # Absent /\ x.rev = Stamp
      BY <2>1, <3>1
    <3>3. app' = [app EXCEPT ![b] = x]
      BY <2>3 DEF EditApplication
    <3> HIDE DEF x
    <3> QED
      BY <1>0, <2>0, <3>2, <3>3
  <2> QED
    BY <1>3, <2>2, <2>3
<1>4. ASSUME NEW b \in App, DeleteApplication(b)
      PROVE  app'[a] = app[a] \/ app'[a] = Absent
  BY <1>0, <1>4 DEF DeleteApplication
<1> QED
  BY <1>1, <1>2, <1>3, <1>4, ApplicationSteps

\* Requests are taken by Start only, and a restart makes them anew.
LEMMA RequestSteps ==
    ASSUME TypeInv, Next
    PROVE  \/ \E a \in App : Start(a)
           \/ Restart
           \/ queue \subseteq queue' /\ (cApp' = cApp \/ SyncApplications)
<1>1. Reconcile => Restart \/ (queue \subseteq queue' /\ cApp' = cApp)
  BY DEF Reconcile, RejectTarget, WorksReconciled, ComposeAssembler, CreateAssembler,
       UpdateDiscoveryAnnotations, WorksDeleted, DeleteConfigmap, FetchComponents, UpdateStatus,
       UpdateRelationships, Panic, ReconcileWork, DeleteWork, Done, Fail, Goto, Visited, caches
<1>2. Sync => queue \subseteq queue' /\ (cApp' = cApp \/ SyncApplications)
  BY DEF Sync, SyncApplications, SyncAssemblers, SyncManifestWorks, SyncConfigmaps, SyncDeployable
<1>3. Environment => Restart \/ (queue \subseteq queue' /\ cApp' = cApp)
  BY DEF Environment, CreateApplication, EditApplication, DeleteApplication, DeleteAssembler,
       LoseConfigmap, ToggleDeployable, LoseWork, ToggleCluster, Discover, ApiFault, ToleratedFault,
       Crash, Done, Fail, Goto, Visited, caches
<1> QED
  BY <1>1, <1>2, <1>3 DEF Next

\* Whoever changes an Application behind the worker's back renews it, and a request stays.
LEMMA RenewedKept ==
    ASSUME TypeInv, StampInv, Next, NEW a \in App, Renewed(a) \/ app'[a] # app[a],
           ~Start(a), ~Writes(a)
    PROVE  Renewed(a)'
<1> USE DEF Renewed, Requested
<1>1. CASE \E b \in App : Start(b)
  BY <1>1 DEF Start, caches
<1>2. CASE Restart
  BY <1>2 DEF Restart
<1>3. CASE queue \subseteq queue' /\ cApp' = cApp
  <2>1. CASE app'[a] = app[a] \/ app'[a] = Absent
    BY <1>3, <2>1
  <2>2. CASE app'[a] # Absent /\ app'[a].rev = events' /\ events' = events + 1
    <3>1. cApp'[a] # app'[a]
      BY <1>3, <2>2, StampsTyped DEF StampInv
    <3> QED
      BY <3>1
  <2> QED
    BY <2>1, <2>2, ApplicationMoves
<1>4. CASE queue \subseteq queue' /\ SyncApplications
  BY <1>4 DEF SyncApplications
<1> QED
  BY <1>1, <1>2, <1>3, <1>4, RequestSteps

\* A write of the worker keeps the stamp.
LEMMA WritesKeep ==
    ASSUME TypeInv, NEW a \in App, Writes(a)
    PROVE  app'[a].rev = app[a].rev /\ app[a] # Absent
<1>1. job.app \in Application /\ job \in Job /\ app \in [App -> Maybe(Application)]
  BY DEF Writes, UpdateDiscoveryAnnotations, UpdateStatus, TypeInv, TypeOK, Control
<1>2. job.parts \in SUBSET Part
  BY <1>1 DEF Job
<1>3. \/ app' = [app EXCEPT ![a] = Completed(job.app)]
      \/ app' = [app EXCEPT ![a] = [app[a] EXCEPT !.status = job.parts]]
  BY <1>1 DEF Writes, UpdateDiscoveryAnnotations, UpdateStatus
<1>4. job.app # Absent
  BY <1>1, AbsentAssumption, Zenon DEF Application
<1>5. app[a] = job.app
  BY DEF Writes
<1>6. CASE app' = [app EXCEPT ![a] = Completed(job.app)]
  <2>1. Completed(job.app).rev = job.app.rev
    BY <1>1, <1>2, Rewritten
  <2>2. app'[a] = Completed(job.app)
    BY <1>1, <1>6, Zenon
  <2> QED
    BY <1>4, <1>5, <2>1, <2>2
<1>7. CASE app' = [app EXCEPT ![a] = [app[a] EXCEPT !.status = job.parts]]
  <2> DEFINE x == [job.app EXCEPT !.status = job.parts]
  <2>1. x.rev = job.app.rev
    BY <1>1, <1>2, Rewritten
  <2>2. app' = [app EXCEPT ![a] = x]
    BY <1>5, <1>7
  <2> HIDE DEF x
  <2> QED
    BY <1>1, <1>4, <1>5, <2>1, <2>2
<1> QED
  BY <1>3, <1>6, <1>7

\* The steps that change a Deployable or what is cached of it.
LEMMA DeployableSteps ==
    ASSUME Next
    PROVE  \/ UNCHANGED <<hdpl, cHdpl>>
           \/ Restart /\ cHdpl' = hdpl /\ UNCHANGED hdpl
           \/ \E h \in Hdpl : SyncDeployable(h) \/ ToggleDeployable(h)
BY DEF Next, Start, Reconcile, RejectTarget, WorksReconciled, ComposeAssembler,
       CreateAssembler, UpdateDiscoveryAnnotations, WorksDeleted, DeleteConfigmap,
       FetchComponents, UpdateStatus, UpdateRelationships, Panic, Restart, ReconcileWork,
       DeleteWork, Sync, SyncApplications, SyncAssemblers, SyncManifestWorks, SyncConfigmaps,
       Environment, CreateApplication, EditApplication, DeleteApplication,
       DeleteAssembler, LoseConfigmap, LoseWork, ToggleCluster, Discover,
       ApiFault, ToleratedFault, Crash, caches

\* Every step keeps the types.
LEMMA TypeKept ==
    ASSUME TypeInv, Next
    PROVE  TypeInv'
BY StartTyped, WorksTyped, CallsTyped, RestartTyped, SyncTyped, EnvironmentTyped
   DEF Next, Reconcile, Panic, TypeInv, TypeOK

\* Nothing is cached before it is stamped.
LEMMA StampKept ==
    ASSUME TypeInv, StampInv, Next
    PROVE  StampInv'
<1>0. events' \in Nat /\ events <= events'
  BY StampsTyped, ApplicationSteps
<1>1. ASSUME NEW a \in App, app'[a] # Absent
      PROVE  app'[a].rev <= events'
  <2>1. CASE app'[a] = app[a]
    BY <1>0, <1>1, <2>1, StampsTyped DEF StampInv
  <2>2. CASE Writes(a)
    BY <1>0, <1>1, <2>2, WritesKeep, StampsTyped DEF StampInv
  <2>3. CASE app'[a].rev = events'
    BY <1>0, <2>3
  <2> QED
    BY <1>1, <2>1, <2>2, <2>3, ApplicationMoves
<1>2. ASSUME NEW a \in App, cApp'[a] # Absent
      PROVE  cApp'[a].rev <= events'
  <2>1. CASE cApp' = cApp
    BY <1>0, <1>2, <2>1, StampsTyped DEF StampInv
  <2>2. CASE cApp' = app /\ app' = app
    BY <1>1, <1>2, <2>2
  <2> QED
    BY <2>1, <2>2, RequestSteps DEF Start, Restart, SyncApplications, caches
<1>3. ASSUME NEW h \in Hdpl
      PROVE  hdpl'[h].since <= events' /\ cHdpl'[h].since <= events'
  <2>0. hdpl \in [Hdpl -> Deployable] /\ cHdpl \in [Hdpl -> Deployable]
    BY DEF TypeInv, TypeOK
  <2>1. CASE UNCHANGED <<hdpl, cHdpl>>
    BY <1>0, <2>1, StampsTyped DEF StampInv
  <2>2. CASE cHdpl' = hdpl /\ UNCHANGED hdpl
    BY <1>0, <2>2, StampsTyped DEF StampInv
  <2>3. ASSUME NEW k \in Hdpl, SyncDeployable(k)
        PROVE  hdpl'[h].since <= events' /\ cHdpl'[h].since <= events'
    <3>1. hdpl' = hdpl /\ (cHdpl'[h] = cHdpl[h] \/ cHdpl'[h] = hdpl[h])
      BY <2>0, <2>3 DEF SyncDeployable
    <3> QED
      BY <1>0, <3>1, StampsTyped DEF StampInv
  <2>4. ASSUME NEW k \in Hdpl, ToggleDeployable(k)
        PROVE  hdpl'[h].since <= events' /\ cHdpl'[h].since <= events'
    <3>1. cHdpl' = cHdpl /\ (hdpl'[h] = hdpl[h] \/ hdpl'[h].since = Stamp) /\ events' = Stamp
      BY <2>0, <2>4 DEF ToggleDeployable, Happens, Stamp, caches
    <3> QED
      BY <1>0, <3>1, StampsTyped DEF StampInv
  <2> QED
    BY <2>1, <2>2, <2>3, <2>4, DeployableSteps
<1> QED
  BY <1>1, <1>2, <1>3 DEF StampInv
-----------------------------------------------------------------------------
(***************************************************************************)
(* What the worker holds.                                                  *)
(***************************************************************************)
\* The steps that keep a reconcile going.
LEMMA HeldSteps ==
    ASSUME TypeInv, Next, pc' \notin {"idle", "relate"}
    PROVE  \/ \E a \in App : Start(a)
           \/ /\ pc \notin {"idle", "relate"} /\ job'.name = job.name
              /\ \/ /\ job'.app = job.app /\ ~Writes(job.name)
                    /\ pc' \in {"sweep", "unmap"} => pc \in {"sweep", "unmap"}
                    /\ pc' = "drop" => pc = "drop"
                 \/ /\ Writes(job.name) /\ pc' = "drop"
                    /\ job'.app = Completed(job.app) /\ app' = [app EXCEPT ![job.name] = job'.app]
<1>0. job \in Job
  BY DEF TypeInv, TypeOK
<1> USE DEF Writes
<1>1. CASE UNCHANGED <<pc, job>> /\ ~UpdateDiscoveryAnnotations /\ ~UpdateStatus
  BY <1>1
<1>2. ~Fail /\ ~Done /\ ~Restart
  BY DEF Fail, Done, Restart
<1>3. CASE UpdateDiscoveryAnnotations
  BY <1>0, <1>2, <1>3 DEF UpdateDiscoveryAnnotations, Job
<1>4. ~UpdateStatus /\ ~DeleteConfigmap /\ ~UpdateRelationships /\ ~RejectTarget /\ ~Panic /\ ~Crash
  BY <1>2 DEF UpdateStatus, Goto, DeleteConfigmap, UpdateRelationships, RejectTarget, Panic, Crash
<1>5. CASE WorksReconciled \/ CreateAssembler \/ WorksDeleted
  BY <1>2, <1>5 DEF WorksReconciled, CreateAssembler, WorksDeleted, Goto, UpdateDiscoveryAnnotations,
                    UpdateStatus
<1>6. CASE ComposeAssembler \/ FetchComponents
  BY <1>0, <1>2, <1>6 DEF ComposeAssembler, FetchComponents, UpdateDiscoveryAnnotations, UpdateStatus, Job
<1>7. ASSUME NEW c \in Cluster, ReconcileWork(c) \/ DeleteWork(c)
      PROVE  pc \in {"works", "drop", "sweep"} /\ Visited(c)
  BY <1>2, <1>7 DEF ReconcileWork, DeleteWork
<1>8. ASSUME NEW c \in Cluster, pc \in {"works", "drop", "sweep"}, Visited(c)
      PROVE  pc' = pc /\ job'.name = job.name /\ job'.app = job.app
             /\ ~UpdateDiscoveryAnnotations /\ ~UpdateStatus
  BY <1>0, <1>8 DEF Visited, UpdateDiscoveryAnnotations, UpdateStatus, Job
<1>9. CASE ToleratedFault
  <2>1. \/ pc = "works" /\ pc' = "fetch" /\ UNCHANGED job
        \/ /\ pc \in {"compose", "fetch"} /\ pc' \in {"create", "status"}
           /\ job'.name = job.name /\ job'.app = job.app
        \/ pc \in {"drop", "sweep"} /\ \E c \in job.todo : Visited(c)
    BY <1>0, <1>2, <1>9 DEF ToleratedFault, Goto, Job
  <2>2. job.todo \subseteq Cluster
    BY <1>0 DEF Job
  <2> QED
    BY <1>8, <2>1, <2>2 DEF UpdateDiscoveryAnnotations, UpdateStatus
<1>10. ~ApiFault
  BY <1>2 DEF ApiFault
<1>11. Sync \/ (Environment /\ ~ApiFault /\ ~ToleratedFault /\ ~Crash) => UNCHANGED <<pc, job>>
  BY DEF Sync, SyncApplications, SyncAssemblers, SyncManifestWorks, SyncConfigmaps, SyncDeployable,
         Environment, CreateApplication, EditApplication, DeleteApplication, DeleteAssembler,
         LoseConfigmap, ToggleDeployable, LoseWork, ToggleCluster, Discover
<1> QED
  BY <1>1, <1>3, <1>4, <1>5, <1>6, <1>7, <1>8, <1>9, <1>10, <1>11 DEF Next, Reconcile

\* The worker holds what there is, or will come back.
LEMMA HeldKept ==
    ASSUME TypeInv, StampInv, HeldInv, Next
    PROVE  HeldInv'
<1>0. /\ pc' \notin {"idle", "relate"} => job'.name \in App
      /\ app \in [App -> Maybe(Application)]
  BY TypeKept DEF TypeInv, TypeOK, Control
<1>1. ASSUME NEW a \in App, Start(a), pc' # "idle"
      PROVE  /\ (Renewed(job.name) \/ app[job.name] = job.app)'
             /\ job'.name = a /\ pc' # "drop" /\ pc' # "unmap"
             /\ pc' = "sweep" => job'.app = Absent
  <2>1. UNCHANGED <<app, cApp>> /\ job'.name = a /\ job'.app = cApp[a] /\ pc' \in {"sweep", "fetch", "works"}
        /\ (pc' = "sweep" => cApp[a] = Absent)
    BY <1>1 DEF Start, NoJob, caches
  <2> QED
    BY <2>1 DEF Renewed, Requested
<1>2. ASSUME pc' \notin {"idle", "relate"}, pc \notin {"idle", "relate"}, job'.name = job.name,
             job'.app = job.app, ~Writes(job.name)
      PROVE  (Renewed(job.name) \/ app[job.name] = job.app)'
  <2>0. PICK a \in App : a = job.name
    BY <1>0, <1>2
  <2>1. ~Start(a) /\ ~Writes(a)
    BY <1>2, <2>0 DEF Start
  <2>2. CASE Renewed(a) \/ app'[a] # app[a]
    <3>1. Renewed(a)'
      BY <2>1, <2>2, RenewedKept
    <3> QED
      BY <1>2, <2>0, <3>1 DEF Renewed, Requested
  <2>3. CASE ~Renewed(a) /\ app'[a] = app[a]
    BY <1>2, <2>0, <2>3 DEF HeldInv, Renewed, Requested
  <2> QED
    BY <2>2, <2>3
<1>3. ASSUME Writes(job.name), pc \notin {"idle", "relate"}, pc' = "drop", job'.name = job.name,
             job'.app = Completed(job.app), app' = [app EXCEPT ![job.name] = job'.app]
      PROVE  app'[job'.name] = job'.app /\ job'.app.disc = "done"
  <2>1. job.app \in Application
    BY <1>3 DEF Writes, UpdateDiscoveryAnnotations, UpdateStatus, TypeInv, Control
  <2> QED
    BY <1>0, <1>3, <2>1 DEF Completed, Application
<1>4. ASSUME pc' \notin {"idle", "relate"}
      PROVE  /\ (Renewed(job.name) \/ app[job.name] = job.app)'
             /\ pc' \in {"sweep", "unmap"} => job'.app = Absent
             /\ pc' = "drop" => job'.app.disc = "done"
  <2>1. CASE \E a \in App : Start(a)
    BY <1>1, <1>4, <2>1
  <2>2. CASE ~\E a \in App : Start(a)
    BY <1>2, <1>3, <1>4, <2>2, HeldSteps DEF HeldInv
  <2> QED
    BY <2>1, <2>2
<1> QED
  BY <1>4 DEF HeldInv
-----------------------------------------------------------------------------
(***************************************************************************)
(* Component lists.                                                        *)
(***************************************************************************)
\* A component list stays right about the Deployables that only a can be told of, unless the
\* watch tells a of them.
LEMMA AgreesKept ==
    ASSUME TypeInv, StampInv, Next, ~Restart, NEW a \in App, cApp[a] # Absent,
           NEW parts, Agrees(hdpl, cHdpl, a, parts)
    PROVE  Agrees(hdpl', cHdpl', a, parts) \/ a \in queue'
<1>0. hdpl \in [Hdpl -> Deployable] /\ cHdpl \in [Hdpl -> Deployable]
  BY DEF TypeInv, TypeOK
<1>1. CASE UNCHANGED <<hdpl, cHdpl>>
  BY <1>1
<1>2. ASSUME NEW h \in Hdpl, SyncDeployable(h)
      PROVE  Agrees(hdpl', cHdpl', a, parts) \/ a \in queue'
  <2>1. CASE h \in Sole(a)
    <3>1. Matching(h) = {a}
      BY <2>1 DEF Matching, Sole
    <3> QED
      BY <1>2, <3>1 DEF SyncDeployable
  <2>2. CASE h \notin Sole(a)
    <3>1. \A k \in Sole(a) : k \in Hdpl /\ cHdpl'[k] = cHdpl[k] /\ hdpl'[k] = hdpl[k]
      BY <1>0, <1>2, <2>2 DEF SyncDeployable, Sole
    <3> QED
      BY <3>1 DEF Agrees
  <2> QED
    BY <2>1, <2>2
<1>3. ASSUME NEW h \in Hdpl, ToggleDeployable(h)
      PROVE  Agrees(hdpl', cHdpl', a, parts)
  <2>1. /\ cHdpl' = cHdpl /\ hdpl'[h].since = events + 1
        /\ \A k \in Hdpl \ {h} : hdpl'[k] = hdpl[k]
    BY <1>0, <1>3 DEF ToggleDeployable, Stamp, caches
  <2>2. cHdpl'[h] # hdpl'[h]
    BY <2>1, StampsTyped DEF StampInv
  <2>3. \A k \in Sole(a) : k \in Hdpl
    BY DEF Sole
  <2> QED
    BY <2>1, <2>2, <2>3 DEF Agrees
<1> QED
  BY <1>1, <1>2, <1>3, DeployableSteps

\* What is listed at the API server is right.
LEMMA FetchedAgrees ==
    ASSUME TypeInv, pc = "fetch"
    PROVE  Agrees(hdpl, cHdpl, job.name, Fetched(job.app))
<1>1. cFound \subseteq Found /\ Hdpl \cap Found = {}
  BY PartsAssumption DEF TypeInv, TypeOK
<1> QED
  BY <1>1 DEF Agrees, Sole, Fetched, Listed

\* The steps that end before the status is written.
LEMMA StatusSteps ==
    ASSUME TypeInv, Next, pc' = "status"
    PROVE  \/ /\ pc = "fetch" /\ job'.name = job.name /\ job'.parts = Fetched(job.app)
              /\ UNCHANGED <<hdpl, cHdpl>>
           \/ pc = "status" /\ UNCHANGED job /\ ~Restart
           \/ "tolerated" \in Event
<1>0. job \in Job
  BY DEF TypeInv, TypeOK
<1>1. ~Fail /\ ~Done /\ ~Restart
  BY DEF Fail, Done, Restart
<1>2. ~\E a \in App : Start(a)
  BY DEF Start
<1>3. CASE FetchComponents
  BY <1>0, <1>1, <1>3 DEF FetchComponents, caches, Job
<1>4. ASSUME NEW c \in Cluster, ReconcileWork(c) \/ DeleteWork(c)
      PROVE  FALSE
  BY <1>1, <1>4 DEF ReconcileWork, DeleteWork, Visited
<1>5. Reconcile => FetchComponents
  BY <1>1, <1>4 DEF Reconcile, RejectTarget, WorksReconciled, ComposeAssembler, CreateAssembler,
       UpdateDiscoveryAnnotations, WorksDeleted, DeleteConfigmap, UpdateStatus,
       UpdateRelationships, Panic, Goto
<1>6. ~ApiFault /\ ~Crash /\ (ToleratedFault => "tolerated" \in Event)
  BY <1>1 DEF ApiFault, ToleratedFault, Crash, Happens
<1>7. Sync \/ (Environment /\ ~ApiFault /\ ~ToleratedFault /\ ~Crash) => UNCHANGED <<pc, job>>
  BY DEF Sync, SyncApplications, SyncAssemblers, SyncManifestWorks, SyncConfigmaps, SyncDeployable,
         Environment, CreateApplication, EditApplication, DeleteApplication, DeleteAssembler,
         LoseConfigmap, ToggleDeployable, LoseWork, ToggleCluster, Discover
<1> QED
  BY <1>1, <1>2, <1>3, <1>5, <1>6, <1>7 DEF Next

\* The list that is about to be written is right, or the watch tells of news.
LEMMA PartsKept ==
    ASSUME TypeInv, StampInv, PartsInv, Next
    PROVE  PartsInv'
<1> SUFFICES ASSUME pc' = "status"
             PROVE  \/ "tolerated" \in Event
                    \/ job'.name \in queue' \/ cApp'[job'.name] = Absent
                    \/ Agrees(hdpl', cHdpl', job'.name, job'.parts)
  BY DEF PartsInv
<1>1. CASE /\ pc = "fetch" /\ job'.name = job.name /\ job'.parts = Fetched(job.app)
           /\ UNCHANGED <<hdpl, cHdpl>>
  BY <1>1, FetchedAgrees
<1>2. CASE pc = "status" /\ UNCHANGED job /\ ~Restart
  <2>1. PICK a \in App : a = job.name
    BY <1>2 DEF TypeInv, Control
  <2>2. queue \subseteq queue' /\ (cApp' = cApp \/ SyncApplications)
    BY <1>2, RequestSteps DEF Start
  <2>3. CASE cApp[a] # Absent /\ Agrees(hdpl, cHdpl, a, job.parts)
    BY <1>2, <2>1, <2>3, AgreesKept
  <2>4. CASE a \in queue
    BY <1>2, <2>1, <2>2, <2>4
  <2>5. CASE cApp[a] = Absent
    BY <1>2, <2>1, <2>2, <2>5 DEF SyncApplications
  <2> QED
    BY <1>2, <2>1, <2>3, <2>4, <2>5 DEF PartsInv
<1> QED
  BY <1>1, <1>2, StatusSteps
-----------------------------------------------------------------------------
(***************************************************************************)
(* ManifestWorks.                                                          *)
(***************************************************************************)
\* Where all is quiet only the worker changes ManifestWorks, and the clusters stay.
LEMMA WorksSteps ==
    ASSUME Next, Quiet
    PROVE  /\ joined' = joined
           /\ \/ works' = works
              \/ \E c \in Cluster : ReconcileWork(c) \/ DeleteWork(c)
BY DEF Quiet, Next, Start, Reconcile, RejectTarget, WorksReconciled, ComposeAssembler,
       CreateAssembler, UpdateDiscoveryAnnotations, WorksDeleted, DeleteConfigmap,
       FetchComponents, UpdateStatus, UpdateRelationships, Panic, Restart, ReconcileWork,
       DeleteWork, Sync, SyncApplications, SyncAssemblers, SyncManifestWorks, SyncConfigmaps,
       SyncDeployable, Environment, CreateApplication, EditApplication, DeleteApplication,
       DeleteAssembler, LoseConfigmap, ToggleDeployable, LoseWork, ToggleCluster, Discover,
       ApiFault, ToleratedFault, Crash, Happens

\* The worker leaves the ManifestWorks of all Applications but its own alone.
LEMMA WrappedKept ==
    ASSUME Next, Quiet, NEW a, NEW x, NEW clusters, Wrapped(works, a, x, clusters),
           pc \in {"works", "drop", "sweep"} => job.name # a
    PROVE  Wrapped(works', a, x, clusters)
<1>1. CASE works' = works
  BY <1>1
<1>2. ASSUME NEW c \in Cluster, ReconcileWork(c) \/ DeleteWork(c), NEW w \in works, w.app = a
      PROVE  w \in works'
  <2>1. job.name # a
    BY <1>2 DEF ReconcileWork, DeleteWork
  <2>2. CASE ReconcileWork(c)
    BY <1>2, <2>1, <2>2 DEF ReconcileWork, Located
  <2>3. CASE DeleteWork(c)
    BY <1>2, <2>1, <2>3 DEF DeleteWork, Located
  <2> QED
    BY <1>2, <2>2, <2>3
<1> QED
  BY <1>1, <1>2, WorksSteps DEF Wrapped

\* A cluster that the worker has been to has the ManifestWork, and the others keep theirs.
LEMMA WorkReconciled ==
    ASSUME TypeInv, NEW c \in Cluster, ReconcileWork(c), pc' = "works", NEW clusters,
           Wrapped(works, job.name, job.app, clusters)
    PROVE  Wrapped(works', job.name, job.app, clusters \cup {c})
<1>0. job.name \in App /\ job.app \in Application /\ works \subseteq AppWork
  BY DEF ReconcileWork, TypeInv, TypeOK, Control
<1> DEFINE wrapping(i) == [app |-> job.name, cluster |-> c, id |-> i, rev |-> job.app.rev]
<1>1. \E i \in Copy :
          /\ wrapping(i) \in works'
          /\ \A w \in works : w.app = job.name /\ w.cluster # c => w \in works'
  <2>0. ~Fail
    BY DEF Fail
  <2>1. CASE \E i \in Copy : works' = works \cup {wrapping(i)}
    BY <2>1
  <2>2. ASSUME NEW w \in Located(c), w \in works,
               works' = (works \ {w}) \cup {[w EXCEPT !.rev = job.app.rev]}
        PROVE  \E i \in Copy :
                  /\ wrapping(i) \in works'
                  /\ \A v \in works : v.app = job.name /\ v.cluster # c => v \in works'
    <3>1. w.app = job.name /\ w.cluster = c /\ w \in AppWork
      BY <1>0, <2>2 DEF Located
    <3>2. w.id \in Copy /\ [w EXCEPT !.rev = job.app.rev] = wrapping(w.id)
      BY <3>1 DEF AppWork
    <3>3. wrapping(w.id) \in works' /\ \A v \in works : v # w => v \in works'
      BY <2>2, <3>2
    <3> QED
      BY <3>1, <3>2, <3>3
  <2>3. \/ \E i \in Copy : works' = works \cup {wrapping(i)}
        \/ \E w \in Located(c) : w \in works /\ works' = (works \ {w}) \cup {[w EXCEPT !.rev = job.app.rev]}
    BY <2>0 DEF ReconcileWork
  <2> QED
    BY <2>1, <2>2, <2>3
<1>2. \A i : wrapping(i).app = job.name /\ wrapping(i).cluster = c /\ wrapping(i).rev = job.app.rev
  OBVIOUS
<1> QED
  BY <1>1, <1>2 DEF Wrapped

\* The steps between the calls at which the ManifestWorks matter.
LEMMA WrappingSteps ==
    ASSUME TypeInv, Next, Quiet, pc' \in Wrapping
    PROVE  \/ \E a \in App : /\ job'.name = a /\ job'.app = cApp[a]
                             /\ \/ pc' = "works" /\ job'.todo = Targets(cApp[a])
                                \/ pc' = "fetch" /\ cApp[a].disc # "on"
           \/ /\ job'.name = job.name /\ job'.app = job.app
              /\ \/ \E c \in Cluster : /\ ReconcileWork(c) /\ pc = "works" /\ pc' = "works"
                                       /\ job'.todo = job.todo \ {c}
                 \/ pc = "works" /\ pc' # "works" /\ job.todo = {} /\ works' = works
                 \/ pc = "drop"
                 \/ /\ pc \in Wrapping /\ (pc = "works" <=> pc' = "works") /\ job'.todo = job.todo
                    /\ works' = works
<1>0. job \in Job
  BY DEF TypeInv, TypeOK
<1> USE DEF Wrapping
<1>1. ~Fail /\ ~Done /\ ~Restart
  BY DEF Fail, Done, Restart
<1>2. CASE \E a \in App : Start(a)
  BY <1>2 DEF Start, NoJob
<1>3. CASE \E c \in Cluster : ReconcileWork(c)
  BY <1>0, <1>1, <1>3 DEF ReconcileWork, Visited, Job
<1>4. ~\E c \in Cluster : DeleteWork(c)
  BY <1>1 DEF DeleteWork, Visited
<1>5. CASE ComposeAssembler \/ FetchComponents
  BY <1>0, <1>1, <1>5 DEF ComposeAssembler, FetchComponents, Job
<1>6. CASE RejectTarget \/ WorksReconciled \/ CreateAssembler \/ WorksDeleted \/ DeleteConfigmap
           \/ UpdateStatus \/ UpdateRelationships \/ Panic
  BY <1>1, <1>6 DEF RejectTarget, WorksReconciled, CreateAssembler, WorksDeleted, DeleteConfigmap,
                    UpdateStatus, UpdateRelationships, Panic, Goto
<1>7. ~UpdateDiscoveryAnnotations /\ ~ApiFault /\ ~Crash
  BY <1>1 DEF UpdateDiscoveryAnnotations, ApiFault, Crash
<1>8. CASE ToleratedFault
  BY <1>0, <1>1, <1>8 DEF ToleratedFault, Goto, Visited, Job
<1>9. CASE Sync \/ (Environment /\ ~ApiFault /\ ~ToleratedFault /\ ~Crash)
  <2>1. UNCHANGED <<pc, job>> /\ works' = works
    BY <1>9 DEF Quiet, Happens, Sync, SyncApplications, SyncAssemblers, SyncManifestWorks, SyncConfigmaps,
         SyncDeployable, Environment, CreateApplication, EditApplication, DeleteApplication,
         DeleteAssembler, LoseConfigmap, ToggleDeployable, LoseWork, ToggleCluster, Discover
  <2> QED
    BY <2>1
<1> QED
  BY <1>2, <1>3, <1>4, <1>5, <1>6, <1>7, <1>8, <1>9 DEF Next, Reconcile

\* The ManifestWorks of what the worker holds are there, as far as it has come.
LEMMA HeldWrapped ==
    ASSUME TypeInv, HeldInv, WrappedInv, Next
    PROVE  WrappedInv'
<1> SUFFICES ASSUME Quiet, pc' \in Wrapping
             PROVE  Wrapped(works', job'.name, job'.app, Passed')
  BY DEF WrappedInv, Quiet
<1>0. joined' = joined
  BY WorksSteps
<1>1. ASSUME NEW a \in App, job'.name = a, job'.app = cApp[a],
             \/ pc' = "works" /\ job'.todo = Targets(cApp[a])
             \/ pc' = "fetch" /\ cApp[a].disc # "on"
      PROVE  Wrapped(works', job'.name, job'.app, Passed')
  <2>1. CASE pc' = "works" /\ job'.todo = Targets(cApp[a])
    <3>1. Passed' = {}
      BY <1>0, <1>1, <2>1 DEF Passed, Targets
    <3> QED
      BY <3>1 DEF Wrapped
  <2>2. CASE cApp[a].disc # "on"
    BY <1>1, <2>2 DEF Wrapped
  <2> QED
    BY <1>1, <2>1, <2>2
<1>2. ASSUME job'.name = job.name, job'.app = job.app, pc = "works", pc' = "works",
             NEW c \in Cluster, ReconcileWork(c), job'.todo = job.todo \ {c}
      PROVE  Wrapped(works', job'.name, job'.app, Passed')
  <2>1. Wrapped(works, job.name, job.app, Passed)
    BY <1>2 DEF WrappedInv, Wrapping
  <2>2. Wrapped(works', job.name, job.app, Passed \cup {c})
    BY <1>2, <2>1, WorkReconciled
  <2>3. Passed' \subseteq Passed \cup {c}
    BY <1>0, <1>2 DEF Passed, Targets
  <2> QED
    BY <1>2, <2>2, <2>3 DEF Wrapped
<1>3. ASSUME job'.name = job.name, job'.app = job.app, pc \in Wrapping, works' = works,
             \/ pc = "works" /\ pc' # "works" /\ job.todo = {}
             \/ (pc = "works" <=> pc' = "works") /\ job'.todo = job.todo
      PROVE  Wrapped(works', job'.name, job'.app, Passed')
  <2>1. Passed' = Passed
    BY <1>0, <1>3 DEF Passed, Targets
  <2> QED
    BY <1>3, <2>1 DEF WrappedInv
<1>4. ASSUME pc = "drop", job'.app = job.app
      PROVE  Wrapped(works', job'.name, job'.app, Passed')
  BY <1>4 DEF HeldInv, Wrapped
<1>5. CASE \E a \in App : /\ job'.name = a /\ job'.app = cApp[a]
                          /\ \/ pc' = "works" /\ job'.todo = Targets(cApp[a])
                             \/ pc' = "fetch" /\ cApp[a].disc # "on"
  BY <1>1, <1>5
<1>6. CASE \E c \in Cluster : /\ job'.name = job.name /\ job'.app = job.app
                              /\ ReconcileWork(c) /\ pc = "works" /\ pc' = "works"
                              /\ job'.todo = job.todo \ {c}
  BY <1>2, <1>6
<1>7. CASE /\ job'.name = job.name /\ job'.app = job.app
           /\ \/ pc = "works" /\ pc' # "works" /\ job.todo = {} /\ works' = works
              \/ pc = "drop"
              \/ /\ pc \in Wrapping /\ (pc = "works" <=> pc' = "works") /\ job'.todo = job.todo
                 /\ works' = works
  BY <1>3, <1>4, <1>7 DEF Wrapping
<1> QED
  BY <1>5, <1>6, <1>7, WrappingSteps
-----------------------------------------------------------------------------
(***************************************************************************)
(* The worker lets go of an Application.                                   *)
(***************************************************************************)
\* The steps that end a reconcile, or leave its relationships.
LEMMA ReleaseSteps ==
    ASSUME TypeInv, Next, ~Restart, pc \notin {"idle", "relate"},
           pc' \in {"idle", "relate"} \/ job'.name # job.name
    PROVE  \/ job.name \in queue'
           \/ /\ UNCHANGED <<app, hdpl, works, joined, caches, queue>>
              /\ \/ pc = "fetch" /\ Fetched(job.app) = job.app.status
                 \/ pc = "unmap"
                 \/ pc \in {"fetch", "status"} /\ "tolerated" \in Event
           \/ UpdateStatus
<1>0. job \in Job
  BY DEF TypeInv, TypeOK
<1>1. ~\E a \in App : Start(a)
  BY DEF Start
<1>2. CASE Fail
  BY <1>2 DEF Fail
<1>3. CASE FetchComponents
  BY <1>0, <1>3 DEF FetchComponents, Done, Job
<1>4. CASE DeleteConfigmap
  BY <1>2, <1>4 DEF DeleteConfigmap, Done
<1>5. CASE ToleratedFault
  BY <1>0, <1>5 DEF ToleratedFault, Happens, Done, Goto, Visited, Job
<1>6. ASSUME ~Fail, \/ RejectTarget \/ WorksReconciled \/ ComposeAssembler \/ CreateAssembler
                    \/ UpdateDiscoveryAnnotations \/ WorksDeleted \/ UpdateRelationships \/ Panic
                    \/ (\E c \in Cluster : ReconcileWork(c) \/ DeleteWork(c))
                    \/ ApiFault \/ Crash
      PROVE  FALSE
  BY <1>0, <1>6 DEF RejectTarget, WorksReconciled, ComposeAssembler, CreateAssembler,
       UpdateDiscoveryAnnotations, WorksDeleted, UpdateRelationships, Panic, ReconcileWork,
       DeleteWork, ApiFault, Crash, Goto, Visited, Job
<1>7. Sync \/ (Environment /\ ~ApiFault /\ ~ToleratedFault /\ ~Crash) => UNCHANGED <<pc, job>>
  BY DEF Sync, SyncApplications, SyncAssemblers, SyncManifestWorks, SyncConfigmaps, SyncDeployable,
         Environment, CreateApplication, EditApplication, DeleteApplication, DeleteAssembler,
         LoseConfigmap, ToggleDeployable, LoseWork, ToggleCluster, Discover
<1> QED
  BY <1>1, <1>2, <1>3, <1>4, <1>5, <1>6, <1>7 DEF Next, Reconcile

\* A status that is written from what the worker holds leaves the Application as it should be.
LEMMA StatusWritten ==
    ASSUME TypeInv, HeldInv, PartsInv, WrappedInv, UpdateStatus, NEW a \in App, a = job.name
    PROVE  Renewed(a)' \/ Right(a)'
<1>0. /\ app \in [App -> Maybe(Application)] /\ job.app \in Application
      /\ job.parts \in SUBSET Part /\ pc = "status"
      /\ UNCHANGED <<hdpl, works, joined, caches, queue>>
  BY DEF UpdateStatus, Goto, Done, TypeInv, TypeOK, Control, Job
<1>1. CASE app[a] # job.app
  BY <1>0, <1>1 DEF UpdateStatus, HeldInv, Renewed, Requested, caches
<1>2. CASE app[a] = job.app
  <2> DEFINE x == [job.app EXCEPT !.status = job.parts]
  <2>1. /\ x # Absent /\ x.rev = job.app.rev /\ x.target = job.app.target
        /\ x.disc = job.app.disc /\ x.status = job.parts
    BY <1>0, Rewritten DEF Application
  <2>2. app' = [app EXCEPT ![a] = x]
    BY <1>0, <1>2 DEF UpdateStatus
  <2> HIDE DEF x
  <2>3. app'[a] = x
    BY <1>0, <2>2
  <2>4. CASE a \in queue \/ cApp[a] = Absent
    BY <1>0, <2>1, <2>3, <2>4 DEF Renewed, Requested, caches
  <2>5. CASE "tolerated" \in Event \/ Agrees(hdpl, cHdpl, a, job.parts)
    <3>1. "tolerated" \in Event \/ Agrees(hdpl', cHdpl', a, app'[a].status)
      BY <1>0, <2>1, <2>3, <2>5 DEF caches
    <3>2. ASSUME Quiet
          PROVE  Wrapped(works, a, job.app, Targets(job.app) \cap joined)
      BY <1>0, <3>2 DEF WrappedInv, Wrapping, Passed
    <3>3. (Targets(app[a]) \cap joined)' = Targets(job.app) \cap joined
      BY <1>0, <2>1, <2>3 DEF Targets
    <3>4. ASSUME Quiet
          PROVE  Wrapped(works', a, app'[a], (Targets(app[a]) \cap joined)')
      BY <1>0, <2>1, <2>3, <3>2, <3>3, <3>4 DEF Wrapped
    <3> QED
      BY <3>1, <3>4 DEF Right, Quiet
  <2> QED
    BY <1>0, <2>4, <2>5 DEF PartsInv
<1> QED
  BY <1>1, <1>2

\* Every Application is as it should be, or the worker comes back to it.
LEMMA RestKept ==
    ASSUME TypeInv, SettledInv, Next
    PROVE  RestInv'
<1> USE DEF SettledInv
<1>0. app \in [App -> Maybe(Application)]
  BY DEF TypeInv, TypeOK
<1> SUFFICES ASSUME NEW a \in App, Free(a)'
             PROVE  Renewed(a)' \/ Right(a)'
  BY DEF RestInv
<1>1. CASE Restart
  BY <1>1 DEF Restart, Renewed, Requested
<1>2. CASE ~Restart /\ Free(a)
  <2>1. ~Start(a)
    BY DEF Start, Free, NoJob
  <2>2. ~Writes(a)
    BY <1>2 DEF Free, Writes, UpdateDiscoveryAnnotations, UpdateStatus
  <2>3. CASE Renewed(a) \/ app'[a] # app[a]
    BY <2>1, <2>2, <2>3, RenewedKept
  <2>4. CASE ~Renewed(a) /\ app'[a] = app[a]
    <3>1. Right(a) /\ cApp[a] # Absent
      BY <1>2, <2>4 DEF RestInv, Renewed, Requested
    <3>2. ASSUME "tolerated" \notin Event
          PROVE  Agrees(hdpl', cHdpl', a, app'[a].status) \/ a \in queue'
      BY <1>2, <2>4, <3>1, <3>2, AgreesKept DEF Right
    <3>3. ASSUME Quiet
          PROVE  Wrapped(works', a, app'[a], (Targets(app[a]) \cap joined)')
      <4>1. joined' = joined
        BY <3>3, WorksSteps
      <4>2. (Targets(app[a]) \cap joined)' = Targets(app[a]) \cap joined
        BY <2>4, <4>1 DEF Targets
      <4>3. Wrapped(works', a, app[a], Targets(app[a]) \cap joined)
        BY <1>2, <3>1, <3>3, WrappedKept DEF Right, Free
      <4> QED
        BY <2>4, <4>2, <4>3
    <3> QED
      BY <3>2, <3>3 DEF Right, Quiet, Renewed, Requested
  <2> QED
    BY <2>3, <2>4
<1>3. CASE ~Restart /\ ~Free(a)
  <2>0. a = job.name /\ pc \notin {"idle", "relate"} /\ (pc' \in {"idle", "relate"} \/ job'.name # job.name)
    BY <1>3 DEF Free
  <2>1. CASE a \in queue'
    BY <2>1 DEF Renewed, Requested
  <2>2. CASE UpdateStatus
    BY <2>0, <2>2, StatusWritten
  <2>3. ASSUME UNCHANGED <<app, hdpl, works, joined, caches, queue>>,
               \/ pc = "fetch" /\ Fetched(job.app) = job.app.status
               \/ pc = "unmap"
               \/ pc \in {"fetch", "status"} /\ "tolerated" \in Event
        PROVE  Renewed(a)' \/ Right(a)'
    <3>1. CASE Renewed(a)
      BY <2>3, <3>1 DEF Renewed, Requested, caches
    <3>2. CASE ~Renewed(a)
      <4>1. app[a] = job.app /\ app[a] # Absent
        BY <2>0, <3>2 DEF HeldInv, Renewed
      <4>2. pc # "unmap"
        BY <4>1 DEF HeldInv
      <4>3. "tolerated" \notin Event => Agrees(hdpl, cHdpl, a, app[a].status)
        BY <2>0, <2>3, <4>1, <4>2, FetchedAgrees
      <4>4. Quiet => Wrapped(works, a, app[a], Targets(app[a]) \cap joined)
        BY <2>0, <2>3, <4>1, <4>2 DEF WrappedInv, Wrapping, Passed
      <4>5. Right(a)
        BY <4>3, <4>4 DEF Right
      <4> QED
        BY <2>3, <4>5 DEF Right, Targets, caches, Quiet
    <3> QED
      BY <3>1, <3>2
  <2> QED
    BY <1>3, <2>0, <2>1, <2>2, <2>3, ReleaseSteps
<1> QED
  BY <1>1, <1>2, <1>3
-----------------------------------------------------------------------------
\* The invariants hold at the start, and every step keeps them.
LEMMA SettledAlways == Spec => []SettledInv
<1>1. Init => SettledInv
  <2> SUFFICES ASSUME Init
               PROVE  SettledInv
    OBVIOUS
  <2>1. \A a \in App : app[a] # Absent => app[a].rev = 0
    BY DEF Init
  <2>2. \A h \in Hdpl : hdpl[h].since = 0
    BY DEF Init
  <2>3. events = 0 /\ cApp = app /\ cHdpl = hdpl /\ pc = "idle" /\ queue = {a \in App : app[a] # Absent}
    BY DEF Init
  <2> QED
    BY <2>1, <2>2, <2>3
       DEF SettledInv, StampInv, HeldInv, PartsInv, WrappedInv, Wrapping, RestInv, Renewed, Requested
<1>2. TypeInv /\ SettledInv /\ [Next]_vars => SettledInv'
  <2> SUFFICES ASSUME TypeInv, SettledInv, [Next]_vars
               PROVE  SettledInv'
    OBVIOUS
  <2>1. CASE Next
    BY <2>1, StampKept, HeldKept, PartsKept, HeldWrapped, RestKept DEF SettledInv
  <2>2. CASE UNCHANGED vars
    BY <2>2 DEF vars, caches, SettledInv, StampInv, HeldInv, PartsInv, WrappedInv, RestInv, Free,
                Renewed, Requested, Right, Passed, Targets, Quiet
  <2> QED
    BY <2>1, <2>2
<1> QED
  BY <1>1, <1>2, TypeCorrect, PTL DEF Spec

\* An Application at rest is as it should be.
LEMMA RestRight ==
    ASSUME RestInv, NEW a \in App, AtRest(a)
    PROVE  Right(a)
BY DEF RestInv, AtRest, Free, Renewed

\* With nothing left to do for an Application, its component list is right about the
\* Deployables that only it is told of, although the worker wrote it from what it listed at
\* one moment into a copy it read at another, gave up the write for a conflict, or skipped it
\* because the copy agreed (application_status.go:234-273, application_controller.go:147-200,
\* hybrid_deployable_mapper.go:39-86).
THEOREM RestCurrent == Spec => []StatusAtRest
<1>1. SettledInv => StatusAtRest
  BY RestRight DEF SettledInv, StatusAtRest, Right, Agrees
<1> QED
  BY <1>1, SettledAlways, PTL

\* With nothing left to do for an Application under discovery, its present revision is in a
\* ManifestWork on every cluster it targets, although the list of clusters was walked with a
\* stale copy, ended half-way by an error, or cut off by a restart
\* (application_manifestwork.go:75-224).
THEOREM RestSearched == Spec => []SearchedAtRest
<1>1. SettledInv => SearchedAtRest
  BY RestRight DEF SettledInv, SearchedAtRest, Searched, AtRest, Right, Wrapped, Quiet
<1> QED
  BY <1>1, SettledAlways, PTL
=============================================================================
