--------------------------- MODULE AssemblerProofs ---------------------------
(***************************************************************************)
(* Theorems about AssemblerController, for every set of assemblers,        *)
(* components, names, clusters and deployers, and any number of events.    *)
(***************************************************************************)
EXTENDS AssemblerController, TLAPS

TypeInv == TypeOK /\ Control

USE DEF Maybe

\* The component a reconcile is at is a component, and its name a Deployable's name.
LEMMA CurrentTyped ==
    ASSUME job \in Job, job.inst \in AssemblerObject, job.i \in 1..Len(job.inst.layout)
    PROVE  Current \in Component /\ Name \in HdplName
<1>1. job.inst.layout \in Seq(Component)
  BY LayoutAssumption DEF AssemblerObject
<1>2. Current \in Component
  BY <1>1 DEF Current
<1> QED
  BY <1>2, NamesAssumption DEF Name

\* A component asks for a rule spec there is.
LEMMA WantedTyped ==
    ASSUME NEW c \in Component
    PROVE  Wanted(c) \subseteq RuleSpec
BY NamesAssumption, DeployersAssumption DEF Wanted, RuleSpec, Component

\* What FromObject can choose is among what the object can ask for.
LEMMA SelectableWanted ==
    ASSUME TypeOK, NEW o \in HubObject
    PROVE  SelectableTypes(o) \subseteq Wanted(o) /\ SelectableTypes(o) \subseteq DeployerType
BY DeployersAssumption DEF SelectableTypes, Wanted, TypeOK

\* The locals of an idle worker are typed.
LEMMA NoJobTyped == NoJob \in Job
BY DEF NoJob, Job, NewDeployable, Deployable

\* An idle worker holds no assembler and has processed nothing.
LEMMA NoJobFields == NoJob.inst = Absent /\ NoJob.i = 1
BY DEF NoJob

\* A new Application, and one that is taken over, is an Application.
LEMMA ApplicationsTyped ==
    /\ \A uid \in Uid, f \in BOOLEAN : NewApplication(uid, f) \in Application
    /\ \A x \in Application : job.inst \in AssemblerObject => TakenOver(x) \in Application
BY DEF NewApplication, TakenOver, Application, AssemblerObject, Maybe

\* The first state, the manager just started, is typed.
LEMMA InitTyped == Init => TypeInv
<1> SUFFICES ASSUME Init PROVE TypeInv
  OBVIOUS
<1>1. NoJob \in Job
  BY NoJobTyped
<1>2. asm \in [Assembler -> Maybe(AssemblerObject)]
  <2>1. \A l \in Layout : [uid |-> 0, rev |-> 0, layout |-> l, phase |-> "ok"] \in AssemblerObject
    BY DEF AssemblerObject
  <2> QED
    BY <2>1 DEF Init
<1>3. app \in [Assembler -> Maybe(Application)]
  <2>1. PICK f \in SUBSET Adopted :
           app = [a \in Assembler |->
                    IF a \in Adopted THEN NewApplication(<<a, 0>>, a \in f) ELSE Absent]
    BY DEF Init
  <2>2. ASSUME NEW a \in Assembler
        PROVE  NewApplication(<<a, 0>>, a \in f) \in Application
    <3>1. <<a, 0>> \in Uid
      BY DEF Uid
    <3>2. (a \in f) \in BOOLEAN
      OBVIOUS
    <3> QED
      BY <3>1, <3>2, ApplicationsTyped, Zenon
  <2>3. ASSUME NEW a \in Assembler
        PROVE  app[a] \in Maybe(Application)
    BY <2>1, <2>2
  <2> HIDE DEF Maybe
  <2> QED
    BY <2>1, <2>3
<1>4. obj \in [HubObject -> Maybe(Object)] /\ work \in [Work -> Maybe(ManifestWork)]
  BY BoundsAssumption DEF Init, Object, ManifestWork
<1>5. TypeOK
  BY <1>1, <1>2, <1>3, <1>4 DEF Init, TypeOK, PC
<1>6. Control
  BY DEF Init, Control, InComponent
<1> QED
  BY <1>5, <1>6 DEF TypeInv

\* The reconcile's steps keep the types and what a reconcile knows at each call.
LEMMA StartTyped ==
    ASSUME TypeInv, NEW a \in Assembler, Start(a)
    PROVE  TypeInv'
<1> USE DEF Start, TypeInv, TypeOK, caches, world, PC
<1>1. CASE cAsm[a] = Absent
  BY <1>1 DEF Control, InComponent, Current, Wanted
<1>2. CASE cAsm[a] # Absent
  <2>1. cAsm[a] \in AssemblerObject
    BY <1>2
  <2>2. job' \in Job
    BY <1>2, <2>1, NoJobTyped DEF Job
  <2>3. Control'
    BY <1>2, <2>1 DEF Control, InComponent, NoJob
  <2> QED
    BY <1>2, <2>2, <2>3
<1> QED
  BY <1>1, <1>2

\* An error return leaves what is known of the request, and drops no type.
LEMMA FailTyped ==
    ASSUME TypeInv, pc # "idle", Fail
    PROVE  pc' \in PC /\ job' \in Job /\ Control'
BY DEF TypeInv, TypeOK, Fail, Control, InComponent, PC, Job

\* Going on to the next component keeps the request and forgets the rest.
LEMMA AdvanceTyped ==
    ASSUME TypeInv, pc \in {"next", "write"}, Advance
    PROVE  pc' \in PC /\ job' \in Job /\ Control'
<1> USE DEF TypeInv, TypeOK, Advance
<1>1. job' \in Job
  <2>1. /\ job.name \in Maybe(Assembler) /\ job.inst \in Maybe(AssemblerObject)
        /\ job.app \in Maybe(Application) /\ job.i + 1 \in Nat \ {0}
    BY DEF Job
  <2> QED
    BY <2>1, NoJobTyped DEF Job
<1>2. Control'
  BY DEF Control, InComponent, NoJob, Job
<1> QED
  BY <1>1, <1>2 DEF PC

\* getOrCreateApplication yields an Application, found or created.
LEMMA GetOrCreateTyped ==
    ASSUME TypeInv, GetOrCreateApplication
    PROVE  TypeInv'
<1> USE DEF TypeInv, TypeOK, caches, world
<1> DEFINE new == NewApplication(<<job.name, events>>, FALSE)
<1>0. job.name \in Assembler /\ job.inst \in AssemblerObject /\ pc = "app"
  BY DEF GetOrCreateApplication, Control
<1>1. new \in Application
  BY <1>0, ApplicationsTyped DEF Uid
<1>2. CASE Fail /\ UNCHANGED app
  BY <1>0, <1>2, FailTyped DEF GetOrCreateApplication
<1>3. CASE /\ pc' = "selector"
           /\ \E x \in Application : job' = [job EXCEPT !.app = x]
           /\ app' = app \/ app' = [app EXCEPT ![job.name] = new]
  <2>1. PICK x \in Application : job' = [job EXCEPT !.app = x]
    BY <1>3
  <2>2. job' \in Job
    BY <2>1 DEF Job
  <2>3. Control'
    BY <1>0, <1>3, <2>1 DEF Control, InComponent, Job
  <2>4. app' \in [Assembler -> Maybe(Application)]
    BY <1>1, <1>3
  <2> QED
    BY <1>3, <2>2, <2>3, <2>4 DEF GetOrCreateApplication, PC
<1>4. cApp[job.name] # Absent => cApp[job.name] \in Application
  BY <1>0
<1> HIDE DEF new
<1>5. \/ Fail /\ UNCHANGED app
      \/ /\ pc' = "selector"
         /\ \/ cApp[job.name] # Absent /\ job' = [job EXCEPT !.app = cApp[job.name]] /\ UNCHANGED app
            \/ job' = [job EXCEPT !.app = new] /\ app' = [app EXCEPT ![job.name] = new]
  BY DEF GetOrCreateApplication, new
<1> QED
  BY <1>1, <1>2, <1>3, <1>4, <1>5

\* updateApplication keeps the stored Applications typed.
LEMMA UpdateApplicationTyped ==
    ASSUME TypeInv, UpdateApplication
    PROVE  TypeInv'
<1> USE DEF TypeInv, TypeOK, caches, world
<1>0. pc = "selector" /\ job.name \in Assembler /\ job.inst \in AssemblerObject /\ job.app \in Application
  BY DEF UpdateApplication, Control
<1>1. CASE Fail /\ UNCHANGED <<app, lost>>
  BY <1>0, <1>1, FailTyped DEF UpdateApplication
<1>2. CASE ~(Fail /\ UNCHANGED <<app, lost>>)
  <2>1. /\ app' = [app EXCEPT ![job.name] = TakenOver(job.app)] /\ lost' = lost \ {job.name}
        /\ pc' = "next" /\ UNCHANGED job
    BY <1>2 DEF UpdateApplication
  <2>2. app' \in [Assembler -> Maybe(Application)]
    BY <1>0, <2>1, ApplicationsTyped
  <2>3. Control'
    BY <1>0, <2>1 DEF Control, InComponent
  <2> QED
    BY <2>1, <2>2, <2>3 DEF UpdateApplication, PC
<1> QED
  BY <1>1, <1>2

\* A Deployable drafted around a stored one, or from nothing, is a Deployable.
LEMMA DraftTyped ==
    ASSUME TypeInv, job.app \in Application, NEW old \in Maybe(Deployable), NEW t \in DeployerType
    PROVE  /\ WithTemplate(old, t) \in Deployable
           /\ job.app.uid \in WithTemplate(old, t).labels
           /\ old # Absent => /\ old.labels \subseteq WithTemplate(old, t).labels
                              /\ old.templates \subseteq WithTemplate(old, t).templates
<1>1. job.app.uid \in Uid
  BY DEF Application
<1>2. NewDeployable \in Deployable
  BY DEF NewDeployable, Deployable
<1> QED
  BY <1>1, <1>2 DEF WithTemplate, Deployable

\* An annotated type or the deployer's type is a deployer type.
LEMMA TemplateTyped ==
    ASSUME NEW c \in HubObject \cup Work, NEW t \in DeployerType
    PROVE  TemplateType(c, t) \in DeployerType
BY DeployersAssumption DEF TemplateType

\* In the loop, the component is one and its copies are typed.
LEMMA LoopTyped ==
    ASSUME TypeInv, InLoop \/ InComponent
    PROVE  /\ job.inst \in AssemblerObject /\ job.app \in Application
           /\ job.i \in 1..Len(job.inst.layout)
           /\ Current \in Component /\ Name \in HdplName
<1>1. job.inst \in AssemblerObject /\ job.app \in Application
  BY DEF TypeInv, Control, InLoop, InComponent
<1>2. job \in Job /\ job.inst.layout \in Seq(Component)
  BY <1>1, LayoutAssumption DEF TypeInv, TypeOK, AssemblerObject
<1>3. job.i \in Nat \ {0} /\ Len(job.inst.layout) \in Nat
  BY <1>2 DEF Job
<1>4. job.i \in 1..Len(job.inst.layout)
  BY <1>3 DEF TypeInv, Control, InLoop
<1> QED
  BY <1>1, <1>2, <1>4, CurrentTyped

\* The hub path of the loop drafts a Deployable and wants a rule of a deployer type.
LEMMA FromObjectTyped ==
    ASSUME TypeInv, FromObject
    PROVE  TypeInv'
<1> USE DEF TypeInv, TypeOK, caches, world
<1>0. /\ job.inst \in AssemblerObject /\ job.app \in Application /\ Current \in HubObject
      /\ job.i \in 1..Len(job.inst.layout) /\ Name \in HdplName /\ pc = "next"
      /\ job.name \in Assembler
  BY LoopTyped DEF FromObject, InLoop, Control
<1>1. CASE Fail
  BY <1>0, <1>1, FailTyped DEF FromObject
<1>2. CASE ~Fail
  <2>1. PICK t \in SelectableTypes(Current) :
           /\ job' = [job EXCEPT !.copy = cHdpl[Name],
                                 !.draft = WithTemplate(cHdpl[Name], TemplateType(Current, t)),
                                 !.want = t, !.seen = obj[Current]]
           /\ obj[Current] # Absent /\ pc' = "rule"
    BY <1>2 DEF FromObject
  <2>2. t \in DeployerType /\ t \in Wanted(Current) /\ t \in RuleSpec
    BY <1>0, SelectableWanted DEF RuleSpec
  <2>3. cHdpl[Name] \in Maybe(Deployable) /\ obj[Current] \in Object
    BY <1>0, <2>1
  <2>4. WithTemplate(cHdpl[Name], TemplateType(Current, t)) \in Deployable
    BY <1>0, <2>2, <2>3, TemplateTyped, DraftTyped
  <2>5. job' \in Job
    BY <2>1, <2>2, <2>3, <2>4 DEF Job
  <2>6. Current' = Current
    BY <2>1 DEF Current, Job
  <2>7. Control'
    BY <1>0, <2>1, <2>2, <2>3, <2>6 DEF Control, InComponent, Job, Wanted
  <2> QED
    BY <2>1, <2>5, <2>7 DEF FromObject, PC
<1> QED
  BY <1>1, <1>2

\* The managed cluster path drafts a Deployable, from the cached one or anew.
LEMMA FromManagedClusterTyped ==
    ASSUME TypeInv, FromObjectInManagedCluster
    PROVE  TypeInv'
<1> USE DEF TypeInv, TypeOK, caches, world
<1>0. /\ job.inst \in AssemblerObject /\ job.app \in Application /\ Current \in RemoteObject
      /\ job.i \in 1..Len(job.inst.layout) /\ Name \in HdplName /\ pc = "next"
      /\ job.name \in Assembler
  BY LoopTyped DEF FromObjectInManagedCluster, InLoop, Control
<1>1. CASE cHdpl[Name] # Absent
  <2>1. job' = [job EXCEPT !.copy = cHdpl[Name],
                           !.draft = [cHdpl[Name] EXCEPT !.labels = @ \cup {job.app.uid}]]
        /\ pc' = "write"
    BY <1>1 DEF FromObjectInManagedCluster
  <2>2. cHdpl[Name] \in Deployable /\ job.app.uid \in Uid
    BY <1>0, <1>1 DEF Application
  <2>3. job' \in Job
    BY <2>1, <2>2 DEF Job, Deployable
  <2>4. Control'
    BY <1>0, <2>1 DEF Control, InComponent, Job
  <2> QED
    BY <2>1, <2>3, <2>4 DEF FromObjectInManagedCluster, PC
<1>2. CASE cHdpl[Name] = Absent
  <2>1. job' = [job EXCEPT !.draft = WithTemplate(Absent, DefaultType), !.want = ClusterOf[Current]]
        /\ pc' = "rule"
    BY <1>2 DEF FromObjectInManagedCluster
  <2>2. ClusterOf[Current] \in Wanted(Current) /\ ClusterOf[Current] \in RuleSpec
    BY <1>0, NamesAssumption DEF Wanted, RuleSpec
  <2>3. WithTemplate(Absent, DefaultType) \in Deployable
    BY <1>0, DraftTyped, DeployersAssumption
  <2>4. job' \in Job
    BY <2>1, <2>2, <2>3 DEF Job
  <2>5. Current' = Current
    BY <2>1 DEF Current, Job
  <2>6. Control'
    BY <1>0, <2>1, <2>2, <2>5, NamesAssumption DEF Control, InComponent, Job, Wanted
  <2> QED
    BY <2>1, <2>4, <2>6 DEF FromObjectInManagedCluster, PC
<1> QED
  BY <1>1, <1>2

\* The ManifestWork path reads a ManifestWork before it patches one.
LEMMA FromManifestWorkTyped ==
    ASSUME TypeInv, FromManifestWork
    PROVE  TypeInv'
<1> USE DEF TypeInv, TypeOK, caches, world
<1>0. /\ job.inst \in AssemblerObject /\ job.app \in Application /\ Current \in Work
      /\ job.i \in 1..Len(job.inst.layout) /\ pc = "next" /\ job.name \in Assembler
  BY LoopTyped DEF FromManifestWork, InLoop, Control
<1>1. CASE Fail
  BY <1>0, <1>1, FailTyped DEF FromManifestWork
<1>2. CASE Advance
  BY <1>0, <1>2, AdvanceTyped DEF FromManifestWork
<1>3. CASE ~Fail /\ ~Advance
  <2>1. /\ job' = [job EXCEPT !.seen = cWork[Current]]
        /\ cWork[Current] # Absent /\ pc' = "patchWork"
    BY <1>3 DEF FromManifestWork
  <2>2. cWork[Current] \in ManifestWork
    BY <1>0, <2>1
  <2>3. job' \in Job
    BY <2>1, <2>2 DEF Job
  <2>4. Current' = Current
    BY <2>1 DEF Current, Job
  <2>5. Control'
    BY <1>0, <2>1, <2>2, <2>4 DEF Control, InComponent, Job
  <2> QED
    BY <2>1, <2>3, <2>5 DEF FromManifestWork, PC
<1> QED
  BY <1>1, <1>2, <1>3

\* The patched ManifestWork is one, and the draft made for it a Deployable.
LEMMA PatchManifestWorkTyped ==
    ASSUME TypeInv, PatchManifestWork
    PROVE  TypeInv'
<1> USE DEF TypeInv, TypeOK, caches, world
<1>0. /\ job.inst \in AssemblerObject /\ job.app \in Application /\ Current \in Work
      /\ job.i \in 1..Len(job.inst.layout) /\ pc = "patchWork" /\ job.name \in Assembler
      /\ job.seen \in ManifestWork /\ Name \in HdplName /\ job.copy = Absent
  BY LoopTyped DEF PatchManifestWork, InComponent, Control
<1>1. CASE work[Current] # job.seen
  BY <1>0, <1>1, FailTyped DEF PatchManifestWork
<1>2. CASE work[Current] = job.seen
  <2> DEFINE t == TemplateType(Current, DefaultType)
  <2>1. /\ job' = [job EXCEPT !.draft = WithTemplate(Absent, t), !.want = ClusterOf[Current]]
        /\ work' = [work EXCEPT ![Current].host = Name] /\ pc' = "rule"
    BY <1>2 DEF PatchManifestWork
  <2>2. ClusterOf[Current] \in Wanted(Current) /\ ClusterOf[Current] \in RuleSpec
    BY <1>0, NamesAssumption DEF Wanted, RuleSpec
  <2>3. WithTemplate(Absent, t) \in Deployable
    BY <1>0, DraftTyped, TemplateTyped, DeployersAssumption
  <2>4. job' \in Job
    BY <2>1, <2>2, <2>3 DEF Job
  <2>5. work' \in [Work -> Maybe(ManifestWork)]
    BY <1>0, <1>2, <2>1 DEF ManifestWork
  <2>6. Current' = Current
    BY <2>1 DEF Current, Job
  <2>7. Control'
    BY <1>0, <2>1, <2>2, <2>6, NamesAssumption DEF Control, InComponent, Job, Wanted
  <2> QED
    BY <2>1, <2>4, <2>5, <2>7 DEF PatchManifestWork, PC
<1> QED
  BY <1>1, <1>2

\* Setting the placement of the draft changes nothing else a reconcile knows.
LEMMA PlacedTyped ==
    ASSUME TypeInv, NEW n \in HdplName, NEW next \in {"patchObject", "write"},
           pc \in {"rule", "check"}, next = "patchObject" => pc = "rule" /\ Current \in HubObject,
           job' = [job EXCEPT !.draft.placement = n], pc' = next
    PROVE  pc' \in PC /\ job' \in Job /\ Control'
<1> USE DEF TypeInv, TypeOK
<1>1. job' \in Job /\ Current' = Current
  BY DEF Job, Deployable, Current
<1>2. Control'
  BY <1>1, LoopTyped DEF Control, InComponent, Job
<1> QED
  BY <1>1, <1>2 DEF PC

\* A rule that is created is a PlacementRule; one that is reused has a Deployable's name.
LEMMA GenPlacementRuleTyped ==
    ASSUME TypeInv, GenPlacementRule
    PROVE  TypeInv'
<1> USE DEF TypeInv, TypeOK, caches, world
<1>0. /\ pc = "rule" /\ job.want \in RuleSpec /\ Name \in HdplName
      /\ Current \in Component /\ AfterRule \in {"patchObject", "write"}
      /\ AfterRule = "patchObject" => Current \in HubObject
  BY LoopTyped, WantedTyped DEF GenPlacementRule, InComponent, Control, AfterRule
<1>1. CASE Fail /\ UNCHANGED rule
  BY <1>0, <1>1, FailTyped DEF GenPlacementRule
<1>2. ASSUME NEW n \in HdplName, job' = [job EXCEPT !.draft.placement = n], pc' = AfterRule,
             rule' \in [HdplName -> Maybe(PlacementRule)]
      PROVE  TypeInv'
  BY <1>0, <1>2, PlacedTyped DEF GenPlacementRule
<1> DEFINE created == [rule EXCEPT ![Name] = [spec |-> job.want, decided |-> FALSE]]
<1>3. created \in [HdplName -> Maybe(PlacementRule)]
  BY <1>0 DEF PlacementRule
<1>4. CASE rule' = created /\ pc' = "check" /\ UNCHANGED job
  <2>1. Control'
    BY <1>0, <1>4, LoopTyped DEF Control, InComponent, Current
  <2> QED
    BY <1>3, <1>4, <2>1 DEF GenPlacementRule, PC
<1> QED
  BY <1>0, <1>1, <1>2, <1>3, <1>4 DEF GenPlacementRule

\* Reading the decision back changes the draft's placement only.
LEMMA CheckDecisionTyped ==
    ASSUME TypeInv, CheckDecision
    PROVE  TypeInv'
<1> USE DEF TypeInv, TypeOK, caches, world
<1>0. pc = "check" /\ Name \in HdplName
  BY LoopTyped DEF CheckDecision, InComponent
<1>1. CASE Fail
  BY <1>0, <1>1, FailTyped DEF CheckDecision
<1>2. CASE ~Fail
  BY <1>0, <1>2, PlacedTyped DEF CheckDecision
<1> QED
  BY <1>1, <1>2

\* The patched hub object is an object.
LEMMA PatchObjectTyped ==
    ASSUME TypeInv, PatchObject
    PROVE  TypeInv'
<1> USE DEF TypeInv, TypeOK, caches, world
<1>0. /\ pc = "patchObject" /\ Current \in HubObject /\ job.seen \in Object /\ Name \in HdplName
  BY LoopTyped DEF PatchObject, InComponent, Control
<1>1. obj' \in [HubObject -> Maybe(Object)]
  BY <1>0 DEF PatchObject, Object
<1>2. Control'
  BY <1>0, LoopTyped DEF PatchObject, Control, InComponent, Current
<1> QED
  BY <1>1, <1>2 DEF PatchObject, PC

\* What is written is a Deployable, and the loop goes on or fails.
LEMMA WriteDeployableTyped ==
    ASSUME TypeInv, WriteDeployable
    PROVE  TypeInv'
<1> USE DEF TypeInv, TypeOK, caches, world
<1>0. pc = "write" /\ Name \in HdplName
  BY LoopTyped DEF WriteDeployable, InComponent
<1>1. CASE hdpl[Name] # job.copy
  BY <1>0, <1>1, FailTyped DEF WriteDeployable
<1>2. CASE hdpl[Name] = job.copy
  <2>1. job.draft \in Deployable /\ [job.draft EXCEPT !.born = events] \in Deployable
    BY DEF Job, Deployable
  <2>2. hdpl' \in [HdplName -> Maybe(Deployable)]
    BY <1>0, <1>2, <2>1 DEF WriteDeployable
  <2> QED
    BY <1>0, <1>2, <2>2, AdvanceTyped DEF WriteDeployable
<1> QED
  BY <1>1, <1>2

\* Leaving the loop changes nothing but the call that is next.
LEMMA AllComponentsDoneTyped ==
    ASSUME TypeInv, AllComponentsDone
    PROVE  TypeInv'
BY DEF TypeInv, TypeOK, AllComponentsDone, Control, InComponent, PC, caches, world

\* Back in idle, with the locals gone, nothing is known and nothing needs to be.
LEMMA IdleControl ==
    ASSUME pc' = "idle"
    PROVE  Control'
BY DEF Control, InComponent

\* Writing the phase keeps the assembler typed.
LEMMA ConcludeTyped ==
    ASSUME TypeInv, ConcludeReconcile
    PROVE  TypeInv'
<1> USE DEF TypeInv, TypeOK, caches, world
<1>1. job.name \in Assembler /\ job.inst \in AssemblerObject
  BY DEF ConcludeReconcile, Control
<1>2. asm' \in [Assembler -> Maybe(AssemblerObject)]
  BY <1>1 DEF ConcludeReconcile, AssemblerObject
<1> QED
  BY <1>1, <1>2, NoJobTyped, IdleControl DEF ConcludeReconcile, PC

\* A restart relists typed objects into the caches.
LEMMA RestartTyped ==
    ASSUME TypeInv, Restart, events' \in Nat
    PROVE  TypeInv'
BY NoJobTyped, IdleControl DEF TypeInv, TypeOK, Restart, PC, world

\* A panic is a restart.
LEMMA PanicTyped ==
    ASSUME TypeInv, Panic
    PROVE  TypeInv'
BY RestartTyped DEF Panic, TypeInv, TypeOK

\* Every call of the reconcile keeps TypeInv.
LEMMA ReconcileTyped ==
    ASSUME TypeInv, Reconcile
    PROVE  TypeInv'
BY GetOrCreateTyped, UpdateApplicationTyped, FromObjectTyped, FromManagedClusterTyped,
   FromManifestWorkTyped, PatchManifestWorkTyped, GenPlacementRuleTyped, CheckDecisionTyped,
   PatchObjectTyped, WriteDeployableTyped, AllComponentsDoneTyped, ConcludeTyped, PanicTyped
   DEF Reconcile

\* The steps of the caches and of everybody else leave the reconcile alone, unless they end it.
LEMMA ControlKept ==
    ASSUME TypeInv, UNCHANGED <<pc, job>>
    PROVE  Control'
BY DEF TypeInv, Control, InComponent, Current, Wanted

\* A cache that catches up holds typed objects.
LEMMA SyncTyped ==
    ASSUME TypeInv, Sync
    PROVE  TypeInv'
<1>1. Control'
  BY ControlKept DEF Sync, SyncAssemblers, SyncApplications, SyncDeployables, SyncRules, SyncWorks
<1> QED
  BY <1>1 DEF TypeInv, TypeOK, Sync, SyncAssemblers, SyncApplications, SyncDeployables, SyncRules,
              SyncWorks, world

\* An edited assembler is an assembler.
LEMMA EditTyped ==
    ASSUME NEW x \in AssemblerObject, NEW l \in Layout, NEW k \in Nat
    PROVE  [x EXCEPT !.layout = l, !.rev = k] \in AssemblerObject
BY DEF AssemblerObject

\* What the other actors write is typed.
LEMMA EnvironmentTyped ==
    ASSUME TypeInv, Environment
    PROVE  TypeInv'
<1> USE DEF TypeInv, TypeOK, caches, world, Happens, Stamp
<1>1. ASSUME NEW a \in Assembler, NEW l \in Layout, CreateAssembler(a, l) PROVE TypeInv'
  <2>1. [uid |-> Stamp, rev |-> Stamp, layout |-> l, phase |-> "ok"] \in AssemblerObject
    BY DEF AssemblerObject
  <2> QED
    BY <1>1, <2>1, ControlKept DEF CreateAssembler
<1>2. ASSUME NEW a \in Assembler, NEW l \in Layout, EditAssembler(a, l) PROVE TypeInv'
  <2>1. asm[a] \in AssemblerObject
    BY <1>2 DEF EditAssembler
  <2> DEFINE k == Stamp
  <2>0. k \in Nat
    OBVIOUS
  <2> HIDE DEF k
  <2>2. [asm[a] EXCEPT !.layout = l, !.rev = k] \in AssemblerObject
    BY <2>0, <2>1, EditTyped
  <2>3. asm' = [asm EXCEPT ![a] = [asm[a] EXCEPT !.layout = l, !.rev = k]]
    BY <1>2 DEF EditAssembler, k
  <2> QED
    BY <1>2, <2>2, <2>3, ControlKept DEF EditAssembler
<1>3. ASSUME NEW a \in Assembler, DeleteAssembler(a) \/ CollectApplication(a) PROVE TypeInv'
  BY <1>3, ControlKept DEF DeleteAssembler, CollectApplication
<1>12. ASSUME NEW a \in Assembler, NEW f \in BOOLEAN, ApplyApplication(a, f) PROVE TypeInv'
  <2>1. NewApplication(<<a, Stamp>>, f) \in Application
    BY ApplicationsTyped DEF Uid
  <2> QED
    BY <1>12, <2>1, ControlKept DEF ApplyApplication
<1>13. ASSUME NEW a \in Assembler, EditApplication(a) PROVE TypeInv'
  <2>1. app[a] \in Application
    BY <1>13 DEF EditApplication
  <2> DEFINE k == Stamp
  <2>2. k \in Nat
    OBVIOUS
  <2> HIDE DEF k
  <2>3. PICK f \in BOOLEAN, s \in BOOLEAN :
           app' = [app EXCEPT ![a] = [app[a] EXCEPT !.foreign = f, !.selects = s, !.rev = k]]
    BY <1>13 DEF EditApplication, k
  <2>4. [app[a] EXCEPT !.foreign = f, !.selects = s, !.rev = k] \in Application
    BY <2>1, <2>2 DEF Application
  <2> QED
    BY <1>13, <2>3, <2>4, ControlKept DEF EditApplication
<1>14. ASSUME NEW a \in Assembler, DeleteApplication(a) PROVE TypeInv'
  BY <1>14, ControlKept DEF DeleteApplication
<1>4. ASSUME NEW n \in HdplName, DeleteDeployable(n) PROVE TypeInv'
  BY <1>4, ControlKept DEF DeleteDeployable
<1>5. ASSUME NEW n \in HdplName, Decide(n) PROVE TypeInv'
  BY <1>5, ControlKept DEF Decide, PlacementRule
<1>6. ASSUME NEW o \in HubObject, DeleteObject(o) \/ ToggleKind(o) PROVE TypeInv'
  BY <1>6, ControlKept DEF DeleteObject, ToggleKind
<1>7. ASSUME NEW m \in Work, DeleteWork(m) PROVE TypeInv'
  BY <1>7, ControlKept DEF DeleteWork
<1>8. ASSUME NEW d \in Deployer, ToggleDeployer(d) PROVE TypeInv'
  BY <1>8, ControlKept DEF ToggleDeployer
<1>9. ASSUME NEW c \in Cluster, ToggleCluster(c) PROVE TypeInv'
  BY <1>9, ControlKept DEF ToggleCluster
<1>10. ASSUME ApiFault PROVE TypeInv'
  <2>1. CASE pc \notin {"conclude", "patchObject"}
    BY <1>10, <2>1, FailTyped DEF ApiFault
  <2>2. CASE pc = "patchObject"
    <3>1. Control'
      BY <1>10, <2>2, LoopTyped DEF ApiFault, Control, InComponent, Current
    <3> QED
      BY <1>10, <2>2, <3>1 DEF ApiFault, PC
  <2>3. CASE pc = "conclude"
    BY <1>10, <2>3, NoJobTyped, IdleControl DEF ApiFault, Control, PC
  <2> QED
    BY <2>1, <2>2, <2>3
<1>11. ASSUME Crash PROVE TypeInv'
  BY <1>11, RestartTyped DEF Crash
<1> QED
  BY <1>1, <1>2, <1>3, <1>4, <1>5, <1>6, <1>7, <1>8, <1>9, <1>10, <1>11, <1>12, <1>13, <1>14
     DEF Environment

\* Types hold in every behaviour, with what a reconcile knows at each of its calls: a
\* component of its own layout, an object of the right kind, a rule that component asks for.
THEOREM TypeCorrect == Spec => []TypeInv
<1>1. Init => TypeInv
  BY InitTyped
<1>2. TypeInv /\ [Next]_vars => TypeInv'
  <2> SUFFICES ASSUME TypeInv, [Next]_vars PROVE TypeInv'
    OBVIOUS
  <2>1. CASE UNCHANGED vars
    BY <2>1, ControlKept DEF TypeInv, TypeOK, vars, caches, world
  <2>2. CASE Next
    BY <2>2, StartTyped, ReconcileTyped, SyncTyped, EnvironmentTyped DEF Next
  <2> QED
    BY <2>1, <2>2
<1> QED
  BY <1>1, <1>2, PTL DEF Spec

\* In every reachable state every object, cached copy and local variable of the reconcile
\* (its structs in src/pkg/controller/applicationassembler/) is what its kind says.
THEOREM TypesOK == Spec => []TypeOK
BY TypeCorrect, PTL DEF TypeInv
-----------------------------------------------------------------------------
(***************************************************************************)
(* What a stored Deployable keeps.                                         *)
(***************************************************************************)
\* Everything the reconcile does to its locals, besides starting and ending.
LEMMA JobSteps ==
    ASSUME TypeInv, Next
    PROVE  \/ UNCHANGED <<pc, job>> \/ pc' = "idle" \/ pc' = "conclude" \/ pc' = "app"
           \/ GetOrCreateApplication \/ UpdateApplication \/ FromObject
           \/ FromObjectInManagedCluster \/ FromManifestWork \/ PatchManifestWork
           \/ GenPlacementRule \/ CheckDecision \/ PatchObject \/ WriteDeployable
           \/ ApiFault /\ pc = "patchObject" /\ pc' = "write" /\ UNCHANGED job
BY DEF Next, Start, Reconcile, AllComponentsDone, ConcludeReconcile, Panic, Restart, Sync,
       SyncAssemblers, SyncApplications, SyncDeployables, SyncRules, SyncWorks, Environment,
       CreateAssembler, EditAssembler, DeleteAssembler, CollectApplication, ApplyApplication,
       EditApplication, DeleteApplication, DeleteDeployable,
       Decide, DeleteObject, ToggleKind, DeleteWork, ToggleDeployer, ToggleCluster, ApiFault,
       Crash, Fail

\* Every step keeps what is known of the draft: it has the application's label and all the
\* labels and templates of the copy it was built from.
LEMMA DraftKept ==
    ASSUME TypeInv, DraftInv, Next
    PROVE  DraftInv'
<1> USE DEF DraftInv, Drafting
<1>1. CASE UNCHANGED <<pc, job>> \/ pc' \in {"idle", "conclude", "app"}
  BY <1>1
<1>2. CASE GetOrCreateApplication \/ UpdateApplication \/ FromManifestWork
  BY <1>2 DEF GetOrCreateApplication, UpdateApplication, FromManifestWork, Fail, Advance
<1>3. CASE WriteDeployable
  BY <1>3 DEF WriteDeployable, Fail, Advance
<1>4. CASE FromObject
  <2>1. job.app \in Application /\ cHdpl[Name] \in Maybe(Deployable) /\ job \in Job
        /\ Current \in HubObject
    BY <1>4, LoopTyped DEF FromObject, TypeInv, TypeOK
  <2>2. CASE Fail
    BY <2>2 DEF Fail
  <2>3. CASE ~Fail
    <3>1. PICK t \in SelectableTypes(Current) :
            job' = [job EXCEPT !.copy = cHdpl[Name],
                               !.draft = WithTemplate(cHdpl[Name], TemplateType(Current, t)),
                               !.want = t, !.seen = obj[Current]]
      BY <1>4, <2>3 DEF FromObject
    <3>2. TemplateType(Current, t) \in DeployerType
      BY <2>1, SelectableWanted, TemplateTyped DEF TypeInv
    <3>3. job'.app = job.app /\ job'.copy = cHdpl[Name]
          /\ job'.draft = WithTemplate(cHdpl[Name], TemplateType(Current, t))
      BY <2>1, <3>1 DEF Job
    <3> HIDE DEF TypeInv
    <3> QED
      BY <2>1, <3>2, <3>3, DraftTyped
  <2> QED
    BY <2>2, <2>3
<1>5. CASE FromObjectInManagedCluster
  <2>1. job.app \in Application /\ cHdpl[Name] \in Maybe(Deployable) /\ job \in Job
        /\ job.copy = Absent
    BY <1>5, LoopTyped DEF FromObjectInManagedCluster, InLoop, TypeInv, TypeOK, Control
  <2>2. CASE cHdpl[Name] # Absent
    <3> DEFINE old == cHdpl[Name]
    <3>1. job'.app = job.app /\ job'.copy = old
          /\ job'.draft = [old EXCEPT !.labels = @ \cup {job.app.uid}]
      BY <1>5, <2>1, <2>2 DEF FromObjectInManagedCluster, Job
    <3>2. old \in Deployable
      BY <2>1, <2>2
    <3>3. job'.draft.labels = old.labels \cup {job.app.uid} /\ job'.draft.templates = old.templates
      BY <3>1, <3>2 DEF Deployable
    <3> QED
      BY <3>1, <3>3
  <2>3. CASE cHdpl[Name] = Absent
    <3>1. job'.app = job.app /\ job'.copy = Absent /\ job'.draft = WithTemplate(Absent, DefaultType)
      BY <1>5, <2>1, <2>3 DEF FromObjectInManagedCluster, Job
    <3> QED
      BY <2>1, <3>1, DraftTyped, DeployersAssumption
  <2> QED
    BY <2>2, <2>3
<1>6. CASE PatchManifestWork
  <2>1. job.app \in Application /\ job \in Job /\ job.copy = Absent /\ Current \in Work
    BY <1>6, LoopTyped DEF PatchManifestWork, InComponent, TypeInv, TypeOK, Control
  <2>2. CASE Fail
    BY <2>2 DEF Fail
  <2>3. CASE ~Fail
    <3>1. job'.app = job.app /\ job'.copy = Absent
          /\ job'.draft = WithTemplate(Absent, TemplateType(Current, DefaultType))
      BY <1>6, <2>1, <2>3 DEF PatchManifestWork, Job
    <3> QED
      BY <2>1, <3>1, DraftTyped, TemplateTyped, DeployersAssumption
  <2> QED
    BY <2>2, <2>3
<1>7. CASE GenPlacementRule \/ CheckDecision
  <2>1. job \in Job
    BY DEF TypeInv, TypeOK
  <2>2. pc \in {"rule", "check"}
    BY <1>7 DEF GenPlacementRule, CheckDecision
  <2>3. CASE Fail \/ UNCHANGED job
    BY <2>2, <2>3 DEF Fail
  <2>4. ASSUME NEW n, job' = [job EXCEPT !.draft.placement = n]
        PROVE  DraftInv'
    BY <2>1, <2>2, <2>4 DEF Job, Deployable
  <2> QED
    BY <1>7, <2>3, <2>4 DEF GenPlacementRule, CheckDecision
<1>8. CASE PatchObject \/ (ApiFault /\ pc = "patchObject" /\ pc' = "write" /\ UNCHANGED job)
  BY <1>8 DEF PatchObject
<1> QED
  BY <1>1, <1>2, <1>3, <1>4, <1>5, <1>6, <1>7, <1>8, JobSteps

\* The draft is right in every reachable state, whatever the interleaving.
LEMMA DraftCorrect == Spec => [](TypeInv /\ DraftInv)
<1>1. Init => DraftInv
  BY DEF Init, DraftInv, Drafting
<1>2. TypeInv /\ DraftInv /\ [Next]_vars => DraftInv'
  BY DraftKept DEF vars, DraftInv, Drafting
<1> QED
  BY <1>1, <1>2, TypeCorrect, PTL DEF Spec

\* Only a successful write and a deletion change a Deployable.
LEMMA DeployableSteps ==
    ASSUME Next
    PROVE  \/ UNCHANGED hdpl
           \/ WriteDeployable /\ hdpl[Name] = job.copy
           \/ \E n \in HdplName : DeleteDeployable(n)
BY DEF Next, Start, Reconcile, GetOrCreateApplication, UpdateApplication, FromObject,
       FromObjectInManagedCluster, FromManifestWork, PatchManifestWork, GenPlacementRule,
       CheckDecision, PatchObject, WriteDeployable, AllComponentsDone, ConcludeReconcile, Panic,
       Restart, Sync, SyncAssemblers, SyncApplications, SyncDeployables, SyncRules, SyncWorks,
       Environment, CreateAssembler, EditAssembler, DeleteAssembler, CollectApplication, ApplyApplication,
       EditApplication, DeleteApplication, Decide,
       DeleteObject, ToggleKind, DeleteWork, ToggleDeployer, ToggleCluster, ApiFault, Crash

\* What a successful write stores: the draft, with the label of the application.
LEMMA Written ==
    ASSUME TypeInv, DraftInv, WriteDeployable, hdpl[Name] = job.copy
    PROVE  /\ Name \in HdplName
           /\ \A n \in HdplName : n # Name => hdpl'[n] = hdpl[n]
           /\ hdpl'[Name].labels = job.draft.labels
           /\ hdpl'[Name].templates = job.draft.templates
           /\ hdpl'[Name].placement = job.draft.placement
           /\ job.app.uid \in job.draft.labels
           /\ job.copy # Absent => /\ job.copy.labels \subseteq job.draft.labels
                                   /\ job.copy.templates \subseteq job.draft.templates
<1>1. Name \in HdplName /\ job \in Job /\ hdpl \in [HdplName -> Maybe(Deployable)] /\ pc = "write"
  BY LoopTyped DEF TypeInv, TypeOK, WriteDeployable, InComponent
<1> QED
  BY <1>1 DEF WriteDeployable, DraftInv, Drafting, Job, Deployable

\* No step takes a label or a template off a stored Deployable: what one assembler wrote
\* survives the writes made for another, from whatever stale copy (object.go:78-98, 175-187).
THEOREM LabelsNeverLost == Spec => LabelsKept
<1>1. TypeInv /\ DraftInv /\ Next =>
        \A n \in HdplName : hdpl[n] # Absent /\ hdpl'[n] # Absent =>
            /\ hdpl[n].labels \subseteq hdpl'[n].labels
            /\ hdpl[n].templates \subseteq hdpl'[n].templates
  <2> SUFFICES ASSUME TypeInv, DraftInv, Next, NEW n \in HdplName,
                      hdpl[n] # Absent, hdpl'[n] # Absent
               PROVE  /\ hdpl[n].labels \subseteq hdpl'[n].labels
                      /\ hdpl[n].templates \subseteq hdpl'[n].templates
    OBVIOUS
  <2>1. CASE UNCHANGED hdpl
    BY <2>1
  <2>2. CASE WriteDeployable /\ hdpl[Name] = job.copy
    BY <2>2, Written
  <2>3. CASE \E m \in HdplName : DeleteDeployable(m)
    BY <2>3 DEF DeleteDeployable, TypeInv, TypeOK
  <2> QED
    BY <2>1, <2>2, <2>3, DeployableSteps
<1>2. TypeInv /\ DraftInv /\ [Next]_vars =>
        [\A n \in HdplName : hdpl[n] # Absent /\ hdpl'[n] # Absent =>
            /\ hdpl[n].labels \subseteq hdpl'[n].labels
            /\ hdpl[n].templates \subseteq hdpl'[n].templates]_vars
  BY <1>1
<1> QED
  BY <1>2, DraftCorrect, PTL DEF Spec, LabelsKept

\* A reconcile keeps its layout and its application, and passes one component at a time.
LEMMA LoopSteps ==
    ASSUME TypeInv, Next
    PROVE  \/ job'.inst = Absent \/ job'.i = 1
           \/ /\ job'.inst = job.inst /\ job'.app = job.app
              /\ \/ job'.i = job.i
                 \/ FromManifestWork /\ Current \in Work /\ job'.i = job.i + 1
                 \/ WriteDeployable /\ hdpl[Name] = job.copy /\ job'.i = job.i + 1
<1>1. job \in Job
  BY DEF TypeInv, TypeOK
<1>2. pc = "app" => job.i = 1
  BY DEF TypeInv, Control
<1>3. CASE UNCHANGED <<pc, job>> \/ Fail
  BY <1>1, <1>3 DEF Fail, Job
<1>4. CASE GetOrCreateApplication
  BY <1>1, <1>2, <1>4 DEF GetOrCreateApplication, Fail, Job
<1>5. CASE UpdateApplication \/ FromObject \/ FromObjectInManagedCluster
  BY <1>1, <1>5 DEF UpdateApplication, FromObject, FromObjectInManagedCluster, Fail, Job
<1>6. CASE PatchManifestWork \/ GenPlacementRule \/ CheckDecision \/ PatchObject
  BY <1>1, <1>6 DEF PatchManifestWork, GenPlacementRule, CheckDecision, PatchObject, Fail, Job
<1>7. CASE FromManifestWork \/ WriteDeployable
  BY <1>1, <1>7, NoJobTyped DEF FromManifestWork, WriteDeployable, Fail, Advance, Job
<1>8. CASE AllComponentsDone \/ UNCHANGED job
  BY <1>1, <1>8 DEF AllComponentsDone
<1>9. CASE job' = NoJob
  BY <1>9, NoJobFields
<1>10. ASSUME NEW a \in Assembler, Start(a)
       PROVE  UNCHANGED <<pc, job>> \/ job'.i = 1
  BY <1>10, NoJobTyped, NoJobFields DEF Start, Job
<1>11. Sync \/ Environment \/ ConcludeReconcile \/ Panic => UNCHANGED job \/ Fail \/ job' = NoJob
  BY DEF Sync, SyncAssemblers, SyncApplications, SyncDeployables, SyncRules, SyncWorks, Environment,
         CreateAssembler, EditAssembler, DeleteAssembler, CollectApplication, ApplyApplication,
       EditApplication, DeleteApplication, DeleteDeployable,
         Decide, DeleteObject, ToggleKind, DeleteWork, ToggleDeployer, ToggleCluster, ApiFault,
         Crash, Restart, ConcludeReconcile, Panic
<1> QED
  BY <1>3, <1>4, <1>5, <1>6, <1>7, <1>8, <1>9, <1>10, <1>11 DEF Next, Reconcile

\* The components a reconcile has gone past are labelled, in the store, whatever the caches
\* held and whoever wrote in between (generator.go:77-110, object.go:78-123, 175-187).
THEOREM ProcessedLabelled == Spec => []Labelled
<1>1. Init => Labelled
  BY DEF Init, Labelled, Processed, NoJob
<1>2. TypeInv /\ DraftInv /\ Labelled /\ Next => Labelled'
  <2> SUFFICES ASSUME TypeInv, DraftInv, Labelled, Next, NEW j \in Processed',
                      (job.inst.layout[j])' \notin Work, hdpl'[NameOf[(job.inst.layout[j])']] # Absent
               PROVE  job'.app.uid \in hdpl'[NameOf[(job.inst.layout[j])']].labels
    BY DEF Labelled
  <2> USE DEF Processed
  <2>1. job \in Job /\ job' \in Job
    BY StartTyped, ReconcileTyped, SyncTyped, EnvironmentTyped DEF Next, TypeInv, TypeOK
  <2>2. job'.inst # Absent /\ j < job'.i /\ j \in 1..Len(job'.inst.layout)
    BY DEF Job
  <2>3. job'.i # 1
    BY <2>2
  <2>4. /\ job'.inst = job.inst /\ job'.app = job.app
        /\ \/ job'.i = job.i
           \/ FromManifestWork /\ Current \in Work /\ job'.i = job.i + 1
           \/ WriteDeployable /\ hdpl[Name] = job.copy /\ job'.i = job.i + 1
    BY <2>2, <2>3, LoopSteps
  <2> DEFINE n == NameOf[job.inst.layout[j]]
  <2>5. j \in Processed /\ hdpl[n] # Absent => job.app.uid \in hdpl[n].labels
    BY <2>4 DEF Labelled
  <2>8. n \in HdplName
    <3>1. job.inst \in AssemblerObject
      BY <2>1, <2>2, <2>4 DEF Job
    <3>2. job.inst.layout \in Seq(Component) /\ j \in 1..Len(job.inst.layout)
      BY <2>2, <2>4, <3>1, LayoutAssumption DEF AssemblerObject
    <3>3. job.inst.layout[j] \in Component
      BY <3>2
    <3> QED
      BY <3>3, NamesAssumption
  <2>6. CASE WriteDeployable /\ hdpl[Name] = job.copy
    <3>1. CASE n = Name
      BY <2>4, <2>6, <3>1, Written
    <3>2. CASE n # Name
      <4>1. j \in Processed
        BY <2>1, <2>2, <2>4, <3>2 DEF Job, Name, Current
      <4> QED
        BY <2>4, <2>5, <2>6, <2>8, <3>2, <4>1, Written
    <3> QED
      BY <3>1, <3>2
  <2>7. CASE ~(WriteDeployable /\ hdpl[Name] = job.copy)
    <3>1. j \in Processed
      BY <2>1, <2>2, <2>4, <2>7 DEF Job, Current
    <3>2. hdpl'[n] = hdpl[n]
      BY <2>4, <2>7, <2>8, DeployableSteps DEF DeleteDeployable, TypeInv, TypeOK
    <3> QED
      BY <2>4, <2>5, <3>1, <3>2
  <2> QED
    BY <2>6, <2>7
<1>3. Labelled /\ UNCHANGED vars => Labelled'
  BY DEF vars, Labelled, Processed
<1> QED
  BY <1>1, <1>2, <1>3, DraftCorrect, PTL DEF Spec
-----------------------------------------------------------------------------
(***************************************************************************)
(* What a stored Deployable is placed by.                                  *)
(***************************************************************************)
\* A rule is never dropped nor rewritten by anything here; it may be decided.
LEMMA RuleSteps ==
    ASSUME TypeInv, Next, NEW n \in HdplName, rule[n] # Absent
    PROVE  rule'[n] # Absent /\ rule'[n].spec = rule[n].spec
<1> USE DEF TypeInv, TypeOK
<1>1. CASE UNCHANGED rule
  BY <1>1
<1>2. CASE GenPlacementRule
  <2>1. \/ UNCHANGED rule
        \/ rule[Name] = Absent /\ rule' = [rule EXCEPT ![Name] = [spec |-> job.want, decided |-> FALSE]]
    BY <1>2 DEF GenPlacementRule
  <2> QED
    BY <2>1
<1>3. ASSUME NEW m \in HdplName, Decide(m) PROVE rule'[n] # Absent /\ rule'[n].spec = rule[n].spec
  <2>1. rule[m] \in PlacementRule /\ rule' = [rule EXCEPT ![m].decided = TRUE]
    BY <1>3 DEF Decide
  <2>2. [rule[m] EXCEPT !.decided = TRUE] \in PlacementRule
        /\ [rule[m] EXCEPT !.decided = TRUE].spec = rule[m].spec
    BY <2>1 DEF PlacementRule
  <2> QED
    BY <2>1, <2>2, AbsentAssumption DEF PlacementRule
<1>4. UNCHANGED rule \/ GenPlacementRule \/ \E m \in HdplName : Decide(m)
  BY DEF Next, Start, Reconcile, GetOrCreateApplication, UpdateApplication, FromObject,
         FromObjectInManagedCluster, FromManifestWork, PatchManifestWork, CheckDecision, PatchObject,
         WriteDeployable, AllComponentsDone, ConcludeReconcile, Panic, Restart, Sync, SyncAssemblers,
         SyncApplications, SyncDeployables, SyncRules, SyncWorks, Environment, CreateAssembler,
         EditAssembler, DeleteAssembler, CollectApplication, ApplyApplication,
       EditApplication, DeleteApplication, DeleteDeployable, DeleteObject,
         ToggleKind, DeleteWork, ToggleDeployer, ToggleCluster, ApiFault, Crash
<1> QED
  BY <1>1, <1>2, <1>3, <1>4

\* So a Deployable well placed stays so.
LEMMA PlacedStable ==
    ASSUME TypeInv, Next, NEW p, NEW n, Placed(rule, p, n)
    PROVE  Placed(rule', p, n)
BY RuleSteps DEF Placed

\* The steps that read, write or drop a copy of a Deployable or of a rule.
LEMMA PlacementSteps ==
    ASSUME Next
    PROVE  /\ cHdpl' = cHdpl \/ (cHdpl' = hdpl /\ hdpl' = hdpl)
           /\ cRule' = cRule \/ (cRule' = rule /\ rule' = rule)
           /\ pc' \in {"check", "patchObject", "write"} =>
                \/ UNCHANGED <<pc, job>> \/ FromObjectInManagedCluster \/ GenPlacementRule
                \/ CheckDecision
                \/ pc = "patchObject" /\ pc' = "write" /\ UNCHANGED job
BY DEF Next, Start, Reconcile, GetOrCreateApplication, UpdateApplication, FromObject,
       FromObjectInManagedCluster, FromManifestWork, PatchManifestWork, GenPlacementRule, Advance,
       Fail, CheckDecision, PatchObject, WriteDeployable, AllComponentsDone, ConcludeReconcile, Panic,
       Restart, Sync, SyncAssemblers, SyncApplications, SyncDeployables, SyncRules, SyncWorks,
       Environment, CreateAssembler, EditAssembler, DeleteAssembler, CollectApplication, ApplyApplication,
       EditApplication, DeleteApplication,
       DeleteDeployable, Decide, DeleteObject, ToggleKind, DeleteWork, ToggleDeployer,
       ToggleCluster, ApiFault, Crash, caches

\* A rule of the spec the current component asks for places its Deployable.
LEMMA WantedPlaces ==
    ASSUME TypeInv, pc \in {"rule", "check"}, NEW r, NEW p \in HdplName,
           r[p] # Absent, r[p].spec = job.want
    PROVE  Placed(r, p, Name)
<1>1. Current \in Component /\ job.want \in Wanted(Current)
  BY LoopTyped DEF InComponent, TypeInv, Control
<1>2. PICK c \in Component : c = Current
  BY <1>1
<1>3. NameOf[c] = Name /\ job.want \in Wanted(c)
  BY <1>1, <1>2 DEF Name
<1> QED
  BY <1>3 DEF Placed

\* The rule a reconcile just created is there, with the spec it asked for.
LEMMA RuleCreated ==
    ASSUME TypeInv, GenPlacementRule,
           rule' = [rule EXCEPT ![Name] = [spec |-> job.want, decided |-> FALSE]]
    PROVE  Name \in HdplName /\ rule'[Name] # Absent /\ rule'[Name].spec = job.want
<1>1. Name \in HdplName /\ job.want \in RuleSpec
  BY LoopTyped, WantedTyped DEF GenPlacementRule, InComponent, TypeInv, Control
<1>2. [spec |-> job.want, decided |-> FALSE] \in [spec: RuleSpec, decided: BOOLEAN]
  BY <1>1
<1>3. rule'[Name] = [spec |-> job.want, decided |-> FALSE]
  BY <1>1 DEF TypeInv, TypeOK
<1>4. [spec |-> job.want, decided |-> FALSE] # Absent
  BY <1>2, AbsentAssumption, Zenon
<1> QED
  BY <1>1, <1>3, <1>4

\* Every step keeps the placement of stored, cached and drafted Deployables sound.
LEMMA PlacementKept ==
    ASSUME TypeInv, DraftInv, PlacementInv, Next
    PROVE  PlacementInv'
<1>a. \A n \in HdplName : hdpl[n] # Absent => Placed(rule', hdpl[n].placement, n)
  BY PlacedStable DEF PlacementInv, PlacementSound
<1>b. pc \in {"patchObject", "write"} => Placed(rule', job.draft.placement, Name)
  BY PlacedStable DEF PlacementInv
<1>c. \A n \in HdplName : cHdpl[n] # Absent => Placed(rule', cHdpl[n].placement, n)
  BY PlacedStable DEF PlacementInv
<1>d. \A n \in HdplName : cRule[n] # Absent => rule'[n] # Absent /\ rule'[n].spec = cRule[n].spec
  BY RuleSteps DEF PlacementInv
<1>1. PlacementSound'
  <2> SUFFICES ASSUME NEW n \in HdplName, hdpl'[n] # Absent
               PROVE  Placed(rule', hdpl'[n].placement, n)
    BY DEF PlacementSound
  <2>1. CASE UNCHANGED hdpl
    BY <1>a, <2>1
  <2>2. CASE WriteDeployable /\ hdpl[Name] = job.copy
    <3>1. CASE n = Name
      BY <1>b, <2>2, <3>1, Written DEF WriteDeployable
    <3>2. CASE n # Name
      BY <1>a, <2>2, <3>2, Written
    <3> QED
      BY <3>1, <3>2
  <2>3. CASE \E m \in HdplName : DeleteDeployable(m)
    BY <1>a, <2>3 DEF DeleteDeployable, TypeInv, TypeOK
  <2> QED
    BY <2>1, <2>2, <2>3, DeployableSteps
<1>2. \A n \in HdplName : cHdpl'[n] # Absent => Placed(rule', cHdpl'[n].placement, n)
  BY <1>a, <1>c, PlacementSteps
<1>3. \A n \in HdplName : cRule'[n] # Absent => rule'[n] # Absent /\ rule'[n].spec = cRule'[n].spec
  <2>1. CASE cRule' = cRule
    BY <1>d, <2>1
  <2>2. CASE cRule' = rule /\ rule' = rule
    BY <2>2
  <2> QED
    BY <2>1, <2>2, PlacementSteps
<1>4. pc' = "check" => rule'[Name'] # Absent /\ rule'[Name'].spec = job'.want
  <2> SUFFICES ASSUME pc' = "check" PROVE rule'[Name'] # Absent /\ rule'[Name'].spec = job'.want
    OBVIOUS
  <2>1. CASE UNCHANGED <<pc, job>>
    <3>1. Name \in HdplName /\ Name' = Name
      BY <2>1, LoopTyped DEF InComponent, Name, Current
    <3> QED
      BY <2>1, <3>1, RuleSteps DEF PlacementInv
  <2>2. CASE GenPlacementRule
    <3>1. /\ UNCHANGED job
          /\ rule' = [rule EXCEPT ![Name] = [spec |-> job.want, decided |-> FALSE]]
      BY <2>2 DEF GenPlacementRule, AfterRule, Fail
    <3>2. Name' = Name
      BY <3>1 DEF Name, Current
    <3> QED
      BY <2>2, <3>1, <3>2, RuleCreated
  <2>3. ~(FromObjectInManagedCluster \/ CheckDecision)
    BY DEF FromObjectInManagedCluster, CheckDecision, Fail
  <2> QED
    BY <2>1, <2>2, <2>3, PlacementSteps
<1>5. pc' \in {"patchObject", "write"} => Placed(rule', job'.draft.placement, Name')
  <2> SUFFICES ASSUME pc' \in {"patchObject", "write"}
               PROVE  Placed(rule', job'.draft.placement, Name')
    OBVIOUS
  <2>0. job \in Job
    BY DEF TypeInv, TypeOK
  <2>1. CASE UNCHANGED job /\ pc \in {"patchObject", "write"}
    BY <1>b, <2>1 DEF Name, Current
  <2>2. CASE FromObjectInManagedCluster
    <3> DEFINE old == cHdpl[Name]
    <3>1. /\ pc = "next" /\ Name \in HdplName /\ Name' = Name
      BY <2>0, <2>2, LoopTyped DEF FromObjectInManagedCluster, InLoop, Name, Current, Job
    <3>2. old # Absent /\ job'.draft = [old EXCEPT !.labels = @ \cup {job.app.uid}]
      BY <2>0, <2>2 DEF FromObjectInManagedCluster, Job
    <3>3. job'.draft.placement = old.placement
      BY <3>1, <3>2 DEF TypeInv, TypeOK, Deployable
    <3> QED
      BY <1>c, <3>1, <3>2, <3>3
  <2>3. ASSUME NEW n \in HdplName, job' = [job EXCEPT !.draft.placement = n],
               rule'[n] # Absent, rule'[n].spec = job.want, pc \in {"rule", "check"}
        PROVE  Placed(rule', job'.draft.placement, Name')
    <3>1. job'.draft.placement = n /\ Name' = Name
      BY <2>0, <2>3 DEF Job, Deployable, Name, Current
    <3> QED
      BY <2>3, <3>1, WantedPlaces
  <2>4. CASE GenPlacementRule
    <3>1. pc = "rule"
      BY <2>4 DEF GenPlacementRule
    <3>2. \/ \E n \in HdplName : /\ cRule[n] # Absent /\ cRule[n].spec = job.want
                                 /\ job' = [job EXCEPT !.draft.placement = n]
          \/ /\ rule' = [rule EXCEPT ![Name] = [spec |-> job.want, decided |-> FALSE]]
             /\ job' = [job EXCEPT !.draft.placement = Name]
      BY <2>4 DEF GenPlacementRule, Fail
    <3> QED
      BY <1>d, <2>3, <2>4, <3>1, <3>2, RuleCreated
  <2>5. CASE CheckDecision
    <3>1. /\ pc = "check" /\ Name \in HdplName /\ UNCHANGED rule
          /\ job' = [job EXCEPT !.draft.placement = Name]
      BY <2>5, LoopTyped DEF CheckDecision, InComponent, Fail
    <3> QED
      BY <2>3, <3>1 DEF PlacementInv
  <2> QED
    BY <2>1, <2>2, <2>4, <2>5, PlacementSteps
<1> QED
  BY <1>1, <1>2, <1>3, <1>4, <1>5 DEF PlacementInv

\* Every stored Deployable names a placement rule that exists and selects what a component
\* of its name asked for, though rules are found in, and Deployables rebuilt from, stale
\* caches (placementrule.go:51-65, 92).
THEOREM PlacementAlwaysSound == Spec => []PlacementSound
<1>1. Init => PlacementInv
  BY DEF Init, PlacementInv, PlacementSound
<1>2. PlacementInv /\ UNCHANGED vars => PlacementInv'
  BY DEF vars, caches, PlacementInv, PlacementSound, Name, Current
<1>3. PlacementInv => PlacementSound
  BY DEF PlacementInv
<1> QED
  BY <1>1, <1>2, <1>3, PlacementKept, DraftCorrect, PTL DEF Spec

\* The patch that succeeds.
Hosting ==
    /\ PatchManifestWork
    /\ work[Current] = job.seen /\ work' = [work EXCEPT ![Current].host = Name]

\* A ManifestWork is only patched or deleted, and drafting for one starts with the patch.
LEMMA WorkSteps ==
    ASSUME Next
    PROVE  /\ \/ UNCHANGED work
              \/ Hosting
              \/ \E m \in Work : DeleteWork(m)
           /\ Drafting' =>
                \/ Drafting /\ (UNCHANGED job \/ GenPlacementRule \/ CheckDecision)
                \/ FromObject \/ FromObjectInManagedCluster
                \/ Hosting
BY DEF Next, Start, Reconcile, GetOrCreateApplication, UpdateApplication, FromObject,
       FromObjectInManagedCluster, FromManifestWork, PatchManifestWork, GenPlacementRule, Advance,
       Fail, CheckDecision, PatchObject, WriteDeployable, AllComponentsDone, ConcludeReconcile, Panic,
       Restart, Sync, SyncAssemblers, SyncApplications, SyncDeployables, SyncRules, SyncWorks,
       Environment, CreateAssembler, EditAssembler, DeleteAssembler, CollectApplication, ApplyApplication,
       EditApplication, DeleteApplication,
       DeleteDeployable, Decide, DeleteObject, ToggleKind, DeleteWork, ToggleDeployer,
       ToggleCluster, ApiFault, Crash, Drafting, Hosting

\* Every step keeps a ManifestWork hosted before its Deployable exists.
LEMMA HostedKept ==
    ASSUME TypeInv, DraftInv, HostedInv, Next
    PROVE  HostedInv'
<1> DEFINE Hosted(m) == work'[m] # Absent => work'[m].host = NameOf[m]
<1>0. job \in Job /\ work \in [Work -> Maybe(ManifestWork)]
  BY DEF TypeInv, TypeOK
\* A patch hosts the work it is made to.
<1>1. Hosting =>
        /\ Current \in Work /\ Hosted(Current)
        /\ \A m \in Work : m # Current => work'[m] = work[m]
  <2> SUFFICES ASSUME Hosting
               PROVE  /\ Current \in Work /\ Hosted(Current)
                      /\ \A m \in Work : m # Current => work'[m] = work[m]
    OBVIOUS
  <2>1. Current \in Work /\ job.seen \in ManifestWork
    BY DEF Hosting, PatchManifestWork, TypeInv, Control
  <2>2. work[Current] \in ManifestWork
    BY <2>1 DEF Hosting
  <2> QED
    BY <1>0, <2>1, <2>2 DEF Hosting, Name, ManifestWork
\* A hosted work stays hosted.
<1>2. ASSUME NEW m \in Work, work[m] # Absent => work[m].host = NameOf[m]
      PROVE  Hosted(m)
  <2>1. CASE UNCHANGED work
    BY <1>2, <2>1
  <2>2. CASE Hosting
    BY <1>1, <1>2, <2>2
  <2>3. CASE \E k \in Work : DeleteWork(k)
    BY <1>0, <1>2, <2>3 DEF DeleteWork
  <2> QED
    BY <2>1, <2>2, <2>3, WorkSteps
<1>3. HostedBeforeDeployable'
  <2> SUFFICES ASSUME NEW m \in Work, work'[m] # Absent, hdpl'[NameOf[m]] # Absent, Exclusive(m)
               PROVE  work'[m].host = NameOf[m]
    BY DEF HostedBeforeDeployable, Exclusive
  <2>1. NameOf[m] \in HdplName
    BY NamesAssumption DEF Component
  <2>2. CASE hdpl[NameOf[m]] # Absent
    <3>1. CASE work[m] # Absent
      BY <1>2, <2>2, <3>1 DEF HostedInv, HostedBeforeDeployable
    <3>2. CASE work[m] = Absent
      BY <1>2, <3>2
    <3> QED
      BY <3>1, <3>2
  <2>3. CASE hdpl[NameOf[m]] = Absent
    <3>1. WriteDeployable /\ hdpl[Name] = job.copy /\ Name = NameOf[m]
      BY <2>1, <2>3, DeployableSteps, Written DEF DeleteDeployable, TypeInv, TypeOK
    <3>2. Current \in Component /\ NameOf[Current] = NameOf[m]
      BY <3>1, LoopTyped DEF WriteDeployable, InComponent, Name
    <3>3. Current = m
      BY <3>2 DEF Exclusive
    <3>4. work[m] # Absent => work[m].host = NameOf[m]
      BY <3>1, <3>3 DEF WriteDeployable, Drafting, HostedInv
    <3> QED
      BY <1>2, <3>4
  <2> QED
    BY <2>2, <2>3
<1>4. Drafting' /\ Current' \in Work => Hosted(Current') /\ Name' = NameOf[Current']
  <2> SUFFICES ASSUME Drafting', Current' \in Work PROVE Hosted(Current')
    BY DEF Name
  <2>1. CASE FromObject \/ FromObjectInManagedCluster
    <3>1. Current \in HubObject \cup RemoteObject /\ Current' = Current
      BY <1>0, <2>1 DEF FromObject, FromObjectInManagedCluster, Fail, Drafting, Current, Job
    <3> QED
      BY <3>1, NamesAssumption
  <2>2. CASE Hosting
    <3>1. Current' = Current
      BY <1>0, <2>2 DEF Hosting, PatchManifestWork, Fail, Drafting, Current, Job
    <3> QED
      BY <1>1, <2>2, <3>1
  <2>3. CASE Drafting /\ (UNCHANGED job \/ GenPlacementRule \/ CheckDecision)
    <3>1. Current' = Current
      BY <1>0, <2>3 DEF GenPlacementRule, CheckDecision, Fail, Current, Job
    <3>2. work[Current] # Absent => work[Current].host = NameOf[Current]
      BY <2>3, <3>1 DEF HostedInv, Name
    <3> QED
      BY <1>2, <3>1, <3>2
  <2> QED
    BY <2>1, <2>2, <2>3, WorkSteps
<1> QED
  BY <1>3, <1>4 DEF HostedInv

\* A ManifestWork that alone has its name carries the hosting annotation before its
\* Deployable exists (deployable.go:74-90: the patch precedes the build, and ends it on error).
THEOREM HostedFirst == Spec => []HostedBeforeDeployable
<1>1. Init => HostedInv
  BY NamesAssumption DEF Init, HostedInv, HostedBeforeDeployable, Drafting, Component
<1>2. HostedInv /\ UNCHANGED vars => HostedInv'
  BY DEF vars, HostedInv, HostedBeforeDeployable, Exclusive, Drafting, Name, Current
<1>3. HostedInv => HostedBeforeDeployable
  BY DEF HostedInv
<1> QED
  BY <1>1, <1>2, <1>3, HostedKept, DraftCorrect, PTL DEF Spec
==============================================================================
