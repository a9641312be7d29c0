------------------------- MODULE AssemblerRestProofs -------------------------
(***************************************************************************)
(* The assembler's work is done whenever nothing is left to do: the safety *)
(* half of EventuallyAssembled, for every value of the constants.          *)
(***************************************************************************)
EXTENDS AssemblerProofs

USE DEF Maybe

\* Nothing is cached, or read, before it is stamped: an assembler that changes never becomes
\* again what the reconcile in progress has read.
RevisionInv ==
    /\ \A a \in Assembler : /\ asm[a] # Absent => asm[a].rev <= events
                            /\ cAsm[a] # Absent => cAsm[a].rev <= events
    /\ pc # "idle" => job.inst.rev <= events

\* No Application has two controllers.
ForeignInv ==
    \A a \in Assembler : app[a] # Absent /\ app[a].foreign => app[a].owner = Absent

\* What others do to an Application.
Meddled(a) ==
    \/ CollectApplication(a) \/ EditApplication(a) \/ DeleteApplication(a)
    \/ \E foreign \in BOOLEAN : ApplyApplication(a, foreign)

\* While the assembler is what was read, its Application is the one being worked for, unless
\* somebody else took it away or changed it, and a reconcile that is done has gone through all.
ProgressInv ==
    pc # "idle" /\ asm[job.name] = job.inst =>
        /\ pc = "next" \/ InComponent \/ (pc = "conclude" /\ job.ok) =>
               (job.name \notin lost => Adopting(job.name) /\ app[job.name].uid = job.app.uid)
        /\ pc = "conclude" /\ job.ok => job.i > Len(job.inst.layout)

\* What is cached, or has been gone through, is in the store where nobody deletes it.
ExistInv ==
    "gone" \notin Event =>
        /\ \A n \in HdplName : cHdpl[n] # Absent => hdpl[n] # Absent
        /\ \A j \in Processed : hdpl[NameOf[job.inst.layout[j]]] # Absent

AssembledInv == RevisionInv /\ ForeignInv /\ ProgressInv /\ ExistInv /\ AssembledAtRest

\* No stored object is the absence of one.
LEMMA ObjectsPresent ==
    Absent \notin AssemblerObject /\ Absent \notin Application /\ Absent \notin Deployable
BY AbsentAssumption, Zenon DEF AssemblerObject, Application, Deployable, Uid

\* The stamp of an assembler, or of the copy a reconcile holds, is a number.
LEMMA RevTyped ==
    ASSUME TypeInv
    PROVE  /\ \A a \in Assembler : /\ asm[a] # Absent => asm[a] \in AssemblerObject /\ asm[a].rev \in Nat
                                   /\ cAsm[a] # Absent => cAsm[a] \in AssemblerObject /\ cAsm[a].rev \in Nat
           /\ pc # "idle" => job.inst \in AssemblerObject /\ job.inst.rev \in Nat
           /\ events \in Nat
<1>1. ASSUME NEW x \in AssemblerObject
      PROVE  x.rev \in Nat
  BY DEF AssemblerObject
<1>2. asm \in [Assembler -> Maybe(AssemblerObject)] /\ cAsm \in [Assembler -> Maybe(AssemblerObject)]
  BY DEF TypeInv, TypeOK
<1>3. events \in Nat /\ (pc # "idle" => job.inst \in AssemblerObject)
  BY DEF TypeInv, TypeOK, Control
<1> QED
  BY <1>1, <1>2, <1>3

\* The steps that change an assembler, its cached copies or the count of events.
LEMMA AssemblerSteps ==
    ASSUME TypeInv, Next
    PROVE  /\ events' = events \/ events' = events + 1
           /\ cAsm' = cAsm \/ (cAsm' = asm /\ asm' = asm)
           /\ \/ UNCHANGED asm
              \/ ConcludeReconcile
              \/ \E a \in Assembler : \/ \E l \in Layout : CreateAssembler(a, l) \/ EditAssembler(a, l)
                                      \/ DeleteAssembler(a)
BY DEF Next, Start, Reconcile, GetOrCreateApplication, UpdateApplication, FromObject,
       FromObjectInManagedCluster, FromManifestWork, PatchManifestWork, GenPlacementRule,
       CheckDecision, PatchObject, WriteDeployable, AllComponentsDone, ConcludeReconcile, Panic,
       Restart, Sync, SyncAssemblers, SyncApplications, SyncDeployables, SyncRules, SyncWorks,
       Environment, CreateAssembler, EditAssembler, DeleteAssembler, CollectApplication, ApplyApplication,
       EditApplication, DeleteApplication, Decide,
       DeleteDeployable, DeleteObject, ToggleKind, DeleteWork, ToggleDeployer, ToggleCluster,
       ApiFault, Crash, Happens, caches

\* An assembler is left alone, removed, given its phase, or stamped anew.
LEMMA AssemblerMoves ==
    ASSUME TypeInv, Next, NEW a \in Assembler
    PROVE  \/ asm'[a] = asm[a]
           \/ asm'[a] = Absent
           \/ /\ ConcludeReconcile /\ a = job.name /\ asm[a] = job.inst /\ asm[a] # Absent
              /\ asm'[a] = [asm[a] EXCEPT !.phase = IF job.ok THEN "ok" ELSE "Failed"]
           \/ /\ asm'[a] \in AssemblerObject /\ asm'[a].rev = events' /\ events' = events + 1
<1> USE DEF TypeInv, TypeOK
<1>1. CASE UNCHANGED asm
  BY <1>1
<1>2. CASE ConcludeReconcile
  <2>1. job.inst \in AssemblerObject
    BY <1>2 DEF ConcludeReconcile, Control
  <2> QED
    BY <1>2, <2>1, ObjectsPresent DEF ConcludeReconcile
<1>3. ASSUME NEW b \in Assembler, NEW l \in Layout, CreateAssembler(b, l)
      PROVE  asm'[a] = asm[a] \/ (asm'[a] \in AssemblerObject /\ asm'[a].rev = events' /\ events' = events + 1)
  <2>1. [uid |-> Stamp, rev |-> Stamp, layout |-> l, phase |-> "ok"] \in AssemblerObject
    BY DEF AssemblerObject, Stamp
  <2> QED
    BY <1>3, <2>1 DEF CreateAssembler, Happens, Stamp
<1>4. ASSUME NEW b \in Assembler, NEW l \in Layout, EditAssembler(b, l)
      PROVE  asm'[a] = asm[a] \/ (asm'[a] \in AssemblerObject /\ asm'[a].rev = events' /\ events' = events + 1)
  <2>1. asm[b] \in AssemblerObject /\ Stamp \in Nat
    BY <1>4 DEF EditAssembler, Stamp
  <2> DEFINE x == [asm[b] EXCEPT !.layout = l, !.rev = Stamp]
  <2>2. x \in AssemblerObject /\ x.rev = Stamp
    BY <2>1, EditTyped DEF AssemblerObject
  <2>3. asm' = [asm EXCEPT ![b] = x] /\ events' = events + 1
    BY <1>4 DEF EditAssembler, Happens
  <2> HIDE DEF x
  <2> QED
    BY <2>2, <2>3 DEF Stamp
<1>5. ASSUME NEW b \in Assembler, DeleteAssembler(b)
      PROVE  asm'[a] = asm[a] \/ asm'[a] = Absent
  BY <1>5 DEF DeleteAssembler
<1> QED
  BY <1>1, <1>2, <1>3, <1>4, <1>5, AssemblerSteps

\* Where the copy a reconcile works with comes from.
LEMMA InstSteps ==
    ASSUME TypeInv, Next, pc' # "idle"
    PROVE  \/ job'.name = job.name /\ job'.inst = job.inst /\ pc # "idle"
           \/ \E a \in Assembler : Start(a) /\ cAsm[a] # Absent /\ job'.name = a
                                   /\ job'.inst = cAsm[a] /\ pc' = "app"
<1>1. job \in Job
  BY DEF TypeInv, TypeOK
<1>2. CASE UNCHANGED <<pc, job>> \/ (pc # "idle" /\ (Fail \/ UNCHANGED job))
  BY <1>1, <1>2 DEF Fail, Job
<1>3. CASE GetOrCreateApplication \/ UpdateApplication \/ FromObject \/ FromObjectInManagedCluster
  BY <1>1, <1>3 DEF GetOrCreateApplication, UpdateApplication, FromObject, InLoop,
                    FromObjectInManagedCluster, Fail, Job
<1>4. CASE PatchManifestWork \/ GenPlacementRule \/ CheckDecision \/ PatchObject
  BY <1>1, <1>4 DEF PatchManifestWork, GenPlacementRule, CheckDecision, PatchObject, Fail, Job
<1>5. CASE FromManifestWork \/ WriteDeployable
  BY <1>1, <1>5, NoJobTyped DEF FromManifestWork, InLoop, WriteDeployable, Fail, Advance, Job
<1>6. ASSUME NEW a \in Assembler, Start(a)
      PROVE  cAsm[a] # Absent /\ job'.name = a /\ job'.inst = cAsm[a] /\ pc' = "app"
  BY <1>6, NoJobTyped DEF Start, Job
<1>7. AllComponentsDone \/ Sync \/ Environment \/ ConcludeReconcile \/ Panic =>
        UNCHANGED <<pc, job>> \/ (pc # "idle" /\ (Fail \/ UNCHANGED job))
  BY DEF Sync, SyncAssemblers, SyncApplications, SyncDeployables, SyncRules, SyncWorks, Environment,
         CreateAssembler, EditAssembler, DeleteAssembler, CollectApplication, ApplyApplication,
       EditApplication, DeleteApplication, DeleteDeployable,
         Decide, DeleteObject, ToggleKind, DeleteWork, ToggleDeployer, ToggleCluster, ApiFault,
         Crash, Restart, ConcludeReconcile, Panic, AllComponentsDone
<1> QED
  BY <1>2, <1>3, <1>4, <1>5, <1>6, <1>7 DEF Next, Reconcile

\* Nothing is cached, or read, before it is stamped.
LEMMA RevisionKept ==
    ASSUME TypeInv, RevisionInv, Next
    PROVE  RevisionInv'
<1>0. events' \in Nat /\ events <= events'
  BY RevTyped, AssemblerSteps
<1>1. ASSUME NEW a \in Assembler, asm'[a] # Absent
      PROVE  asm'[a].rev <= events'
  <2>1. ASSUME asm[a] # Absent, asm'[a].rev = asm[a].rev
        PROVE  asm'[a].rev <= events'
    BY <1>0, <2>1, RevTyped DEF RevisionInv
  <2>2. ASSUME asm[a] \in AssemblerObject, asm'[a] = [asm[a] EXCEPT !.phase = IF job.ok THEN "ok" ELSE "Failed"]
        PROVE  asm'[a].rev = asm[a].rev
    BY <2>2 DEF AssemblerObject
  <2>3. CASE asm'[a].rev = events'
    BY <1>0, <2>3
  <2> QED
    BY <1>1, <2>1, <2>2, <2>3, AssemblerMoves, RevTyped
<1>2. ASSUME NEW a \in Assembler, cAsm'[a] # Absent
      PROVE  cAsm'[a].rev <= events'
  <2>1. CASE cAsm' = cAsm
    BY <1>0, <1>2, <2>1, RevTyped DEF RevisionInv
  <2>2. CASE cAsm' = asm /\ asm' = asm
    BY <1>1, <1>2, <2>2
  <2> QED
    BY <2>1, <2>2, AssemblerSteps
<1>3. ASSUME pc' # "idle"
      PROVE  job'.inst.rev <= events'
  <2>1. CASE job'.inst = job.inst /\ pc # "idle"
    BY <1>0, <2>1, RevTyped DEF RevisionInv
  <2>2. ASSUME NEW a \in Assembler, cAsm[a] # Absent, job'.inst = cAsm[a]
        PROVE  job'.inst.rev <= events'
    BY <1>0, <2>2, RevTyped DEF RevisionInv
  <2> QED
    BY <1>3, <2>1, <2>2, InstSteps
<1> QED
  BY <1>1, <1>2, <1>3 DEF RevisionInv

\* The steps that make, write or take an Application, and those that say that it is lost.
LEMMA ApplicationSteps ==
    ASSUME Next
    PROVE  \/ UNCHANGED <<app, lost>> \/ GetOrCreateApplication \/ UpdateApplication
           \/ \E a \in Assembler : Meddled(a)
BY DEF Next, Start, Reconcile, FromObject, FromObjectInManagedCluster, FromManifestWork,
       PatchManifestWork, GenPlacementRule, CheckDecision, PatchObject, WriteDeployable,
       AllComponentsDone, ConcludeReconcile, Panic, Restart, Sync, SyncAssemblers,
       SyncApplications, SyncDeployables, SyncRules, SyncWorks, Environment, CreateAssembler,
       EditAssembler, DeleteAssembler, Decide, DeleteDeployable, DeleteObject, ToggleKind,
       DeleteWork, ToggleDeployer, ToggleCluster, ApiFault, Crash, Meddled, world

\* An Application with an owner that is there is lost when somebody else takes it away or writes it.
LEMMA MeddlingLoses ==
    ASSUME TypeInv, ForeignInv, NEW a \in Assembler, NEW b \in Assembler, Meddled(b), a \notin lost'
    PROVE  a \notin lost /\ (asm[a] # Absent /\ Adopting(a) => app'[a] = app[a])
<1>1. lost \subseteq lost'
  BY DEF Meddled, CollectApplication, EditApplication, DeleteApplication, ApplyApplication, world
<1>2. CASE a # b
  BY <1>1, <1>2 DEF Meddled, CollectApplication, EditApplication, DeleteApplication, ApplyApplication,
                    TypeInv, TypeOK
<1>3. CASE a = b
  BY <1>1, <1>3 DEF Meddled, CollectApplication, EditApplication, DeleteApplication, ApplyApplication,
                    Adopting, ForeignInv
<1> QED
  BY <1>2, <1>3

\* What the fields of an Application are that is new, or taken over.
LEMMA ApplicationFields ==
    /\ \A uid \in Uid, f \in BOOLEAN : NewApplication(uid, f).owner = Absent
    /\ \A x \in Application : /\ TakenOver(x).uid = x.uid /\ TakenOver(x).selects
                             /\ TakenOver(x).foreign = x.foreign
                             /\ TakenOver(x).owner = IF x.foreign THEN x.owner ELSE job.inst.uid
BY DEF NewApplication, TakenOver, Application

\* No Application gets a second controller.
LEMMA ForeignKept ==
    ASSUME TypeInv, ForeignInv, Next
    PROVE  ForeignInv'
<1> SUFFICES ASSUME NEW a \in Assembler, app'[a] # Absent, app'[a].foreign
             PROVE  app'[a].owner = Absent
  BY DEF ForeignInv
<1>0. app \in [Assembler -> Maybe(Application)] /\ events \in Nat
  BY DEF TypeInv, TypeOK
<1>1. CASE app'[a] = app[a]
  BY <1>1 DEF ForeignInv
<1>2. CASE GetOrCreateApplication
  <2>1. job.name \in Assembler
    BY <1>2 DEF GetOrCreateApplication, TypeInv, Control
  <2>2. NewApplication(<<job.name, events>>, FALSE).owner = Absent
    BY <1>0, <2>1, ApplicationFields DEF Uid
  <2> QED
    BY <1>0, <1>1, <1>2, <2>1, <2>2 DEF GetOrCreateApplication
<1>3. CASE UpdateApplication
  <2>1. job.name \in Assembler /\ job.app \in Application
    BY <1>3 DEF UpdateApplication, TypeInv, Control
  <2>2. CASE app[job.name] = job.app /\ app' = [app EXCEPT ![job.name] = TakenOver(job.app)] /\ a = job.name
    <3>1. app'[a] = TakenOver(job.app)
      BY <1>0, <2>2
    <3>2. job.app.foreign
      BY <2>1, <3>1, ApplicationFields
    <3>3. job.app.owner = Absent
      BY <2>1, <2>2, <3>2, ObjectsPresent DEF ForeignInv
    <3> QED
      BY <2>1, <3>1, <3>2, <3>3, ApplicationFields
  <2> QED
    BY <1>0, <1>1, <1>3, <2>1, <2>2 DEF UpdateApplication
<1>4. ASSUME NEW b \in Assembler, EditApplication(b)
      PROVE  app'[a].owner = Absent
  <2>1. app[b] \in Application
    BY <1>0, <1>4 DEF EditApplication
  <2>2. PICK f \in BOOLEAN, s \in BOOLEAN :
           /\ f => app[b].owner = Absent
           /\ app' = [app EXCEPT ![b] = [app[b] EXCEPT !.foreign = f, !.selects = s, !.rev = Stamp]]
    BY <1>4 DEF EditApplication
  <2> DEFINE x == [app[b] EXCEPT !.foreign = f, !.selects = s, !.rev = Stamp]
  <2>3. x.foreign = f /\ x.owner = app[b].owner
    BY <2>1 DEF Application
  <2>4. app' = [app EXCEPT ![b] = x]
    BY <2>2
  <2> HIDE DEF x
  <2> QED
    BY <1>0, <1>1, <2>2, <2>3, <2>4
<1>5. ASSUME NEW b \in Assembler, NEW f \in BOOLEAN, ApplyApplication(b, f)
      PROVE  app'[a].owner = Absent
  <2>1. NewApplication(<<b, Stamp>>, f).owner = Absent
    BY <1>0, ApplicationFields DEF Uid, Stamp
  <2> QED
    BY <1>0, <1>1, <1>5, <2>1 DEF ApplyApplication
<1>6. ASSUME NEW b \in Assembler, CollectApplication(b) \/ DeleteApplication(b)
      PROVE  app'[a] = app[a]
  BY <1>0, <1>6 DEF CollectApplication, DeleteApplication
<1> QED
  BY <1>1, <1>2, <1>3, <1>4, <1>5, <1>6, ApplicationSteps DEF Meddled

\* The reconcile goes on with what it has; its Application is written once.
Going == pc = "next" \/ InComponent \/ (pc = "conclude" /\ job.ok)

LEMMA GoingSteps ==
    ASSUME TypeInv, Next, Going'
    PROVE  /\ job'.name = job.name /\ job'.inst = job.inst /\ job'.app = job.app
           /\ \/ UpdateApplication /\ app' = [app EXCEPT ![job.name] = TakenOver(job.app)]
              \/ Going /\ (UNCHANGED <<app, lost>> \/ \E a \in Assembler : Meddled(a))
           /\ pc' = "conclude" => \/ pc = "conclude" /\ UNCHANGED job
                                  \/ AllComponentsDone
<1>1. job \in Job
  BY DEF TypeInv, TypeOK
<1>2. ~Fail
  BY <1>1 DEF Fail, Going, InComponent, Job
<1> USE DEF Going, InComponent, world
<1>3. CASE UpdateApplication
  BY <1>2, <1>3 DEF UpdateApplication
<1>4. CASE FromObject \/ FromObjectInManagedCluster
  BY <1>1, <1>2, <1>4 DEF FromObject, FromObjectInManagedCluster, InLoop, Job
<1>5. CASE PatchManifestWork \/ GenPlacementRule \/ CheckDecision \/ PatchObject
  BY <1>1, <1>2, <1>5 DEF PatchManifestWork, GenPlacementRule, CheckDecision, PatchObject, AfterRule, Job
<1>6. CASE FromManifestWork \/ WriteDeployable
  BY <1>1, <1>2, <1>6, NoJobTyped DEF FromManifestWork, InLoop, WriteDeployable, Advance, Job
<1>7. CASE AllComponentsDone
  BY <1>7 DEF AllComponentsDone
<1>8. CASE UNCHANGED <<pc, job>>
  BY <1>2, <1>8, ApplicationSteps DEF GetOrCreateApplication, UpdateApplication
<1>9. CASE ApiFault
  BY <1>2, <1>9 DEF ApiFault
<1>10. ~(GetOrCreateApplication \/ ConcludeReconcile \/ Panic \/ Crash)
  BY <1>2 DEF GetOrCreateApplication, ConcludeReconcile, Panic, Crash, Restart
<1>11. ASSUME NEW a \in Assembler, Start(a)
       PROVE  UNCHANGED <<pc, job>>
  BY <1>11 DEF Start
<1>12. Sync \/ (Environment /\ ~ApiFault /\ ~Crash) => UNCHANGED <<pc, job>>
  BY DEF Sync, SyncAssemblers, SyncApplications, SyncDeployables, SyncRules, SyncWorks, Environment,
         CreateAssembler, EditAssembler, DeleteAssembler, CollectApplication, ApplyApplication,
       EditApplication, DeleteApplication, DeleteDeployable,
         Decide, DeleteObject, ToggleKind, DeleteWork, ToggleDeployer, ToggleCluster
<1> QED
  BY <1>3, <1>4, <1>5, <1>6, <1>7, <1>8, <1>9, <1>10, <1>11, <1>12 DEF Next, Reconcile

\* While the assembler is what was read, its Application stays or is lost.
LEMMA ProgressKept ==
    ASSUME TypeInv, RevisionInv, ForeignInv, ProgressInv, Next
    PROVE  ProgressInv'
<1> SUFFICES ASSUME Going', asm'[job'.name] = job'.inst
             PROVE  /\ job'.name \notin lost' => Adopting(job.name)' /\ app'[job'.name].uid = job'.app.uid
                    /\ pc' = "conclude" => job'.i > Len(job'.inst.layout)
  BY DEF ProgressInv, Going
<1> DEFINE a == job.name
<1>1. job'.name = a /\ job'.inst = job.inst /\ job'.app = job.app /\ pc' # "idle"
  BY GoingSteps DEF Going, InComponent
<1>2. pc # "idle" /\ a \in Assembler /\ job.inst \in AssemblerObject
  <2>1. pc # "idle"
    BY GoingSteps DEF Going, InComponent, UpdateApplication
  <2> QED
    BY <2>1 DEF TypeInv, Control
<1>3. asm[a] = job.inst
  <2>1. asm'[a] # Absent
    BY <1>1, <1>2, ObjectsPresent
  <2>2. ~ConcludeReconcile
    BY <1>1 DEF ConcludeReconcile
  <2>3. ~(asm'[a].rev = events' /\ events' = events + 1)
    BY <1>1, <1>2, RevTyped DEF RevisionInv
  <2> QED
    BY <1>1, <1>2, <2>1, <2>2, <2>3, AssemblerMoves
<1>4. CASE UpdateApplication /\ app' = [app EXCEPT ![a] = TakenOver(job.app)]
  <2>1. job.app \in Application /\ app \in [Assembler -> Maybe(Application)]
    BY <1>4 DEF UpdateApplication, TypeInv, TypeOK, Control
  <2>2. TakenOver(job.app) \in Application
    BY <1>2, <2>1, ApplicationsTyped
  <2>3. app'[a] = TakenOver(job.app)
    BY <1>2, <1>4, <2>1
  <2>4. pc' # "conclude"
    BY <1>4, GoingSteps DEF UpdateApplication, AllComponentsDone
  <2>5. app'[a] # Absent /\ app'[a].selects /\ app'[a].uid = job.app.uid
    BY <2>1, <2>2, <2>3, ApplicationFields, ObjectsPresent
  <2>6. app'[a].foreign \/ app'[a].owner = job.inst.uid
    BY <2>1, <2>3, ApplicationFields
  <2>7. asm'[a].uid = job.inst.uid
    BY <1>1
  <2>8. Adopting(job.name)'
    BY <1>1, <2>5, <2>6, <2>7 DEF Adopting
  <2> QED
    BY <1>1, <2>4, <2>5, <2>8
<1>5. CASE Going /\ (UNCHANGED <<app, lost>> \/ \E b \in Assembler : Meddled(b))
  <2>1. /\ a \notin lost => Adopting(a) /\ app[a].uid = job.app.uid
        /\ pc = "conclude" => job.i > Len(job.inst.layout)
    BY <1>2, <1>3, <1>5 DEF ProgressInv, Going, InComponent
  <2>2. asm[a] # Absent
    BY <1>2, <1>3, ObjectsPresent
  <2>3. a \notin lost' => a \notin lost /\ app'[a] = app[a]
    BY <1>2, <1>5, <2>1, <2>2, MeddlingLoses
  <2>4. pc' = "conclude" => job'.i > Len(job'.inst.layout)
    BY <1>1, <2>1, GoingSteps DEF AllComponentsDone
  <2> QED
    BY <1>1, <1>3, <2>1, <2>3, <2>4 DEF Adopting
<1> QED
  BY <1>4, <1>5, GoingSteps

\* A successful write leaves a Deployable.
LEMMA WrittenPresent ==
    ASSUME TypeInv, WriteDeployable, hdpl[Name] = job.copy
    PROVE  hdpl'[Name] # Absent
<1>1. Name \in HdplName /\ job.draft \in Deployable /\ events \in Nat
      /\ hdpl \in [HdplName -> Maybe(Deployable)]
  BY LoopTyped DEF TypeInv, TypeOK, WriteDeployable, InComponent, Job
<1>2. [job.draft EXCEPT !.born = events] \in Deployable
  BY <1>1 DEF Deployable
<1>3. hdpl'[Name] \in Deployable
  BY <1>1, <1>2 DEF WriteDeployable
<1> QED
  BY <1>3, ObjectsPresent

\* Where nobody deletes one, a Deployable that was there stays.
LEMMA DeployablesStay ==
    ASSUME TypeInv, DraftInv, Next, "gone" \notin Event, NEW n \in HdplName, hdpl[n] # Absent
    PROVE  /\ hdpl'[n] # Absent /\ hdpl[n].labels \subseteq hdpl'[n].labels
<1>1. CASE UNCHANGED hdpl
  BY <1>1
<1>2. CASE WriteDeployable /\ hdpl[Name] = job.copy
  <2>1. hdpl'[Name] # Absent
    BY <1>2, WrittenPresent
  <2> QED
    BY <1>2, <2>1, Written
<1>3. ~\E m \in HdplName : DeleteDeployable(m)
  BY DEF DeleteDeployable, Happens
<1> QED
  BY <1>1, <1>2, <1>3, DeployableSteps

\* What has been gone through is there, in the store.
LEMMA ExistKept ==
    ASSUME TypeInv, DraftInv, ExistInv, Next
    PROVE  ExistInv'
<1> SUFFICES ASSUME "gone" \notin Event
             PROVE  /\ \A n \in HdplName : cHdpl'[n] # Absent => hdpl'[n] # Absent
                    /\ \A j \in Processed' : hdpl'[NameOf[job'.inst.layout[j]]] # Absent
  BY DEF ExistInv
<1>1. \A n \in HdplName : hdpl[n] # Absent => hdpl'[n] # Absent
  BY DeployablesStay
<1>2. \A n \in HdplName : cHdpl'[n] # Absent => hdpl'[n] # Absent
  BY <1>1, PlacementSteps DEF ExistInv
<1>3. ASSUME NEW j \in Processed'
      PROVE  hdpl'[NameOf[job'.inst.layout[j]]] # Absent
  <2>1. job \in Job /\ job' \in Job
    BY StartTyped, ReconcileTyped, SyncTyped, EnvironmentTyped DEF Next, TypeInv, TypeOK
  <2>2. job'.inst # Absent /\ j < job'.i /\ j \in 1..Len(job'.inst.layout)
    BY DEF Processed, Job
  <2>3. /\ job'.inst = job.inst /\ job'.app = job.app
        /\ \/ job'.i = job.i
           \/ FromManifestWork /\ Current \in Work /\ job'.i = job.i + 1
           \/ WriteDeployable /\ hdpl[Name] = job.copy /\ job'.i = job.i + 1
    BY <2>2, LoopSteps
  <2> DEFINE n == NameOf[job.inst.layout[j]]
  <2>4. n \in HdplName
    <3>1. job.inst \in AssemblerObject
      BY <2>1, <2>2, <2>3 DEF Job
    <3>2. job.inst.layout \in Seq(Component) /\ j \in 1..Len(job.inst.layout)
      BY <2>2, <2>3, <3>1, LayoutAssumption DEF AssemblerObject
    <3> QED
      BY <3>2, NamesAssumption
  <2>5. CASE j < job.i
    <3>1. j \in Processed
      BY <2>1, <2>2, <2>3, <2>5 DEF Processed, Job
    <3> QED
      BY <1>1, <2>3, <2>4, <3>1 DEF ExistInv
  <2>6. CASE ~(j < job.i)
    <3>1. j = job.i /\ n = Name
      BY <2>1, <2>2, <2>3, <2>6 DEF Job, Name, Current
    <3>2. CASE FromManifestWork /\ job'.i = job.i + 1
      <4>1. cHdpl[Name] # Absent
        BY <2>1, <3>2 DEF FromManifestWork, Fail, Job
      <4> QED
        BY <1>1, <2>3, <2>4, <3>1, <4>1 DEF ExistInv
    <3>3. CASE WriteDeployable /\ hdpl[Name] = job.copy
      BY <2>3, <3>1, <3>3, WrittenPresent
    <3> QED
      BY <2>1, <2>2, <2>3, <2>6, <3>2, <3>3 DEF Job
  <2> QED
    BY <2>5, <2>6
<1> QED
  BY <1>2, <1>3

\* What the steps of a reconcile in progress, and those of the rest of the world, have in common:
\* no request comes or goes, and no assembler changes.
LEMMA QuietSteps ==
    ASSUME TypeInv, Next
    PROVE  \/ /\ UNCHANGED <<asm, cAsm, queue>>
              /\ UNCHANGED <<pc, job>> \/ (pc # "idle" /\ pc' # "idle" /\ job'.name = job.name)
           \/ ConcludeReconcile \/ Restart \/ SyncAssemblers
           \/ ApiFault /\ pc = "conclude"
           \/ \E a \in Assembler : \/ Start(a)
                                   \/ \E l \in Layout : CreateAssembler(a, l) \/ EditAssembler(a, l)
                                   \/ DeleteAssembler(a)
<1>1. CASE /\ UNCHANGED <<asm, cAsm, queue>>
           /\ UNCHANGED <<pc, job>> \/ (pc # "idle" /\ pc' # "idle")
  BY <1>1, InstSteps DEF Start
<1>2. Reconcile => \/ ConcludeReconcile \/ Restart
                   \/ UNCHANGED <<asm, cAsm, queue>> /\ pc # "idle" /\ pc' # "idle"
  BY DEF Reconcile, GetOrCreateApplication, UpdateApplication, FromObject,
       FromObjectInManagedCluster, FromManifestWork, PatchManifestWork, GenPlacementRule,
       CheckDecision, PatchObject, WriteDeployable, AllComponentsDone, Panic, Fail, Advance,
       InLoop, AfterRule, caches
<1>3. Sync => SyncAssemblers \/ UNCHANGED <<asm, cAsm, queue, pc, job>>
  BY DEF Sync, SyncAssemblers, SyncApplications, SyncDeployables, SyncRules, SyncWorks
<1>4. ApiFault => \/ pc = "conclude"
                  \/ UNCHANGED <<asm, cAsm, queue>> /\ pc # "idle" /\ pc' # "idle"
  BY DEF ApiFault, Fail, caches
<1>5. Environment =>
        \/ Restart \/ ApiFault \/ UNCHANGED <<asm, cAsm, queue, pc, job>>
        \/ \E a \in Assembler : \/ \E l \in Layout : CreateAssembler(a, l) \/ EditAssembler(a, l)
                                \/ DeleteAssembler(a)
  BY DEF Environment, CollectApplication, ApplyApplication, EditApplication, DeleteApplication, Decide, DeleteDeployable, DeleteObject, ToggleKind,
         DeleteWork, ToggleDeployer, ToggleCluster, Crash, caches
<1> QED
  BY <1>1, <1>2, <1>3, <1>4, <1>5 DEF Next

\* An assembler comes to rest only by the successful end of its own reconcile.
LEMMA RestSteps ==
    ASSUME TypeInv, RevisionInv, Next, NEW a \in Assembler, asm'[a] # Absent, AtRest(a)'
    PROVE  \/ asm[a] # Absent /\ AtRest(a) /\ asm'[a] = asm[a]
           \/ /\ ConcludeReconcile /\ job.name = a /\ job.ok /\ asm[a] = job.inst
              /\ asm'[a] = [asm[a] EXCEPT !.phase = "ok"]
<1> USE DEF AtRest
<1>0. /\ asm \in [Assembler -> Maybe(AssemblerObject)] /\ cAsm \in [Assembler -> Maybe(AssemblerObject)]
      /\ queue \subseteq Assembler
  BY DEF TypeInv, TypeOK
<1>1. CASE /\ UNCHANGED <<asm, cAsm, queue>>
           /\ UNCHANGED <<pc, job>> \/ (pc # "idle" /\ pc' # "idle" /\ job'.name = job.name)
  BY <1>1 DEF Queued
<1>2. CASE ConcludeReconcile
  <2>1. CASE job.name = a
    BY <1>0, <1>2, <2>1 DEF ConcludeReconcile
  <2>2. CASE job.name # a
    BY <1>0, <1>2, <2>2 DEF ConcludeReconcile, Queued, caches
  <2> QED
    BY <2>1, <2>2
<1>3. CASE Restart
  BY <1>3 DEF Restart
<1>4. CASE SyncAssemblers
  BY <1>4 DEF SyncAssemblers
<1>5. CASE ApiFault /\ pc = "conclude"
  BY <1>5 DEF ApiFault, Queued, caches
<1>6. ASSUME NEW b \in Assembler, Start(b)
      PROVE  asm[a] # Absent /\ AtRest(a) /\ asm'[a] = asm[a]
  <2>1. /\ UNCHANGED <<asm, cAsm>> /\ queue' = queue \ {b} /\ pc = "idle"
        /\ cAsm[b] # Absent => pc' = "app" /\ job'.name = b
    BY <1>6, NoJobTyped DEF Start, caches, Job
  <2>2. a # b
    BY <2>1 DEF Queued
  <2> QED
    BY <2>1, <2>2 DEF Queued
<1>7. ASSUME NEW b \in Assembler, UNCHANGED <<cAsm, queue, pc, job>>,
             asm'[b] = Absent \/ (asm'[b] # Absent /\ asm'[b].rev = events + 1),
             \A c \in Assembler : c # b => asm'[c] = asm[c]
      PROVE  asm[a] # Absent /\ AtRest(a) /\ asm'[a] = asm[a]
  <2>1. cAsm[a] # Absent => cAsm[a].rev \in Nat /\ cAsm[a].rev <= events /\ events \in Nat
    BY RevTyped DEF RevisionInv
  <2>2. a # b
    BY <1>7, <2>1 DEF Queued
  <2> QED
    BY <1>7, <2>2 DEF Queued
<1>8. ASSUME NEW b \in Assembler, NEW l \in Layout, CreateAssembler(b, l) \/ EditAssembler(b, l)
      PROVE  asm[a] # Absent /\ AtRest(a) /\ asm'[a] = asm[a]
  <2>1. /\ UNCHANGED <<cAsm, queue, pc, job>> /\ asm' = [asm EXCEPT ![b] = asm'[b]]
    BY <1>0, <1>8 DEF CreateAssembler, EditAssembler, caches
  <2>2. asm'[b].rev = events + 1
    <3>1. CASE CreateAssembler(b, l)
      BY <1>0, <3>1 DEF CreateAssembler, Stamp
    <3>2. CASE EditAssembler(b, l)
      <4> DEFINE x == [asm[b] EXCEPT !.layout = l, !.rev = Stamp]
      <4>1. asm[b] \in AssemblerObject
        BY <1>0, <3>2 DEF EditAssembler
      <4>2. x.rev = Stamp
        BY <4>1 DEF AssemblerObject
      <4>3. asm' = [asm EXCEPT ![b] = x]
        BY <3>2 DEF EditAssembler
      <4> HIDE DEF x
      <4> QED
        BY <1>0, <4>2, <4>3 DEF Stamp
    <3> QED
      BY <1>8, <3>1, <3>2
  <2> QED
    BY <1>0, <1>7, <2>1, <2>2
<1>9. ASSUME NEW b \in Assembler, DeleteAssembler(b)
      PROVE  asm[a] # Absent /\ AtRest(a) /\ asm'[a] = asm[a]
  BY <1>0, <1>7, <1>9 DEF DeleteAssembler, caches
<1> QED
  BY <1>1, <1>2, <1>3, <1>4, <1>5, <1>6, <1>8, <1>9, QuietSteps

\* Done work stays done while the assembler rests: its Application has an owner that exists,
\* and labels are never taken off.
LEMMA RestKept ==
    ASSUME TypeInv, DraftInv, Labelled, AssembledInv, Next
    PROVE  AssembledAtRest'
<1> SUFFICES ASSUME NEW a \in Assembler, asm'[a] # Absent, AtRest(a)'
             PROVE  Settled(a)'
  BY DEF AssembledAtRest
<1>0. asm \in [Assembler -> Maybe(AssemblerObject)] /\ app \in [Assembler -> Maybe(Application)]
  BY DEF TypeInv, TypeOK
<1>1. ASSUME NEW x \in AssemblerObject
      PROVE  \A j \in DOMAIN x.layout : x.layout[j] \in Component /\ NameOf[x.layout[j]] \in HdplName
  <2>1. x.layout \in Seq(Component)
    BY LayoutAssumption DEF AssemblerObject
  <2> QED
    BY <2>1, NamesAssumption
<1>2. CASE asm[a] # Absent /\ AtRest(a) /\ asm'[a] = asm[a]
  <2>1. Settled(a)
    BY <1>2 DEF AssembledInv, AssembledAtRest
  <2>2. a \notin lost' => a \notin lost /\ app'[a] = app[a]
    <3>1. CASE GetOrCreateApplication \/ UpdateApplication
      BY <1>0, <1>2, <2>1, <3>1 DEF Settled, AtRest, GetOrCreateApplication, UpdateApplication, world, Adopting
    <3> QED
      <4>1. CASE UNCHANGED <<app, lost>>
        BY <4>1
      <4>2. ASSUME NEW b \in Assembler, Meddled(b), a \notin lost'
            PROVE  a \notin lost /\ app'[a] = app[a]
        <5>1. ForeignInv
          BY DEF AssembledInv
        <5>2. a \notin lost
          BY <4>2, <5>1, MeddlingLoses
        <5>3. Adopting(a)
          BY <2>1, <5>2 DEF Settled
        <5> QED
          BY <1>2, <4>2, <5>1, <5>2, <5>3, MeddlingLoses
      <4> QED
        BY <3>1, <4>1, <4>2, ApplicationSteps
  <2>3. Components(a)' = Components(a)
    BY <1>2 DEF Components
  <2>4. \A c \in Components(a) : NameOf[c] \in HdplName
    BY <1>0, <1>1, <1>2 DEF Components
  <2> QED
    BY <1>2, <2>1, <2>2, <2>3, <2>4, DeployablesStay DEF Settled, Adopting, Delivered
<1>3. CASE /\ ConcludeReconcile /\ job.name = a /\ job.ok /\ asm[a] = job.inst
           /\ asm'[a] = [asm[a] EXCEPT !.phase = "ok"]
  <2>1. pc = "conclude" /\ UNCHANGED <<app, hdpl, lost>> /\ job.inst \in AssemblerObject
    BY <1>3 DEF ConcludeReconcile, TypeInv, Control, world
  <2>2. /\ a \notin lost => Adopting(a) /\ app[a].uid = job.app.uid
        /\ job.i > Len(job.inst.layout)
    BY <1>3, <2>1 DEF AssembledInv, ProgressInv
  <2>3. asm'[a].phase = "ok" /\ asm'[a].uid = job.inst.uid /\ asm'[a].layout = job.inst.layout
    BY <1>3, <2>1 DEF AssemblerObject
  <2>4. ASSUME "gone" \notin Event, NEW c \in Components(a)'
        PROVE  /\ hdpl[NameOf[c]] # Absent
               /\ c \notin Work => job.app.uid \in hdpl[NameOf[c]].labels
    <3>1. PICK j \in DOMAIN job.inst.layout : c = job.inst.layout[j]
      BY <2>3, <2>4 DEF Components
    <3>2. j \in Processed
      <4>1. job.inst.layout \in Seq(Component) /\ job.i \in Nat
        BY <2>1, LayoutAssumption DEF AssemblerObject, TypeInv, TypeOK, Job
      <4> QED
        BY <2>1, <2>2, <3>1, <4>1, ObjectsPresent DEF Processed
    <3> QED
      BY <2>4, <3>1, <3>2 DEF AssembledInv, ExistInv, Labelled
  <2> QED
    BY <1>3, <2>1, <2>2, <2>3, <2>4 DEF Settled, Adopting, Delivered
<1> QED
  BY <1>2, <1>3, RestSteps DEF AssembledInv

\* When no request for an assembler is queued, in progress or about to come, its phase is ok; and
\* unless somebody else deleted or wrote the Application after it was taken over, it is there,
\* selecting, owned by the assembler or by the other controller that owned it before, and the
\* Deployables are there with the label it selects by: no interleaving of edits, deletions,
\* collections, restarts, conflicts and faults is forgotten by the worker, which nothing else
\* wakes (applicationassembler_controller.go:73-178, applicationassembler_generator.go:150-193).
THEOREM RestAssembled == Spec => []AssembledAtRest
<1>1. Init => AssembledInv
  <2> SUFFICES ASSUME Init PROVE AssembledInv
    OBVIOUS
  <2>1. /\ pc = "idle" /\ cAsm = asm /\ cHdpl = hdpl /\ queue = Assembler /\ job = NoJob /\ events = 0
        /\ \A a \in Assembler : asm[a] # Absent => asm[a].rev <= events
    BY DEF Init
  <2> QED
    <3>1. ForeignInv
      <4> SUFFICES ASSUME NEW a \in Assembler, app[a] # Absent
                   PROVE  app[a].owner = Absent
        BY DEF ForeignInv
      <4>1. PICK foreign \in SUBSET Adopted :
               app = [b \in Assembler |->
                        IF b \in Adopted THEN NewApplication(<<b, 0>>, b \in foreign) ELSE Absent]
        BY DEF Init
      <4>2. app[a] = NewApplication(<<a, 0>>, a \in foreign)
        BY <4>1
      <4> QED
        BY <4>2 DEF NewApplication
    <3> QED
      BY <2>1, <3>1, NoJobFields DEF AssembledInv, RevisionInv, ProgressInv, ExistInv, Processed,
                             AssembledAtRest, AtRest
<1>2. TypeInv /\ DraftInv /\ Labelled /\ AssembledInv /\ Next => AssembledInv'
  BY RevisionKept, ForeignKept, ProgressKept, ExistKept, RestKept DEF AssembledInv
<1>3. AssembledInv /\ UNCHANGED vars => AssembledInv'
  BY DEF vars, caches, world, Settled, Adopting, Delivered, AssembledInv, ForeignInv, RevisionInv, ProgressInv, ExistInv, Processed, InComponent,
         AssembledAtRest, AtRest, Queued, Components
<1>4. AssembledInv => AssembledAtRest
  BY DEF AssembledInv
<1> QED
  BY <1>1, <1>2, <1>3, <1>4, DraftCorrect, ProcessedLabelled, PTL DEF Spec
=============================================================================
