---------------------------- MODULE RegistryProofs ----------------------------
(***************************************************************************)
(* The assemblers implement DeployableRegistry, for every value of the     *)
(* constants: each step of AssemblerController is a step of the registry   *)
(* or changes nothing of it.                                               *)
(***************************************************************************)
EXTENDS AssemblerProofs

USE DEF Maybe

\* What the draft adds to the copy it was built from: one label, and one template at most.
BuiltOn(old, draft, u) ==
    /\ draft.labels = old.labels \cup {u}
    /\ \E t : draft.templates \subseteq old.templates \cup {t}

GrowthInv ==
    Drafting =>
        /\ BuiltOn(IF job.copy = Absent THEN NewDeployable ELSE job.copy, job.draft, job.app.uid)
        /\ job.copy = Absent => job.draft.templates # {}

\* A draft with template and label grows by just these.
LEMMA TemplateGrows ==
    ASSUME job.app \in Application, NEW old \in Maybe(Deployable), NEW t \in DeployerType
    PROVE  /\ BuiltOn(IF old = Absent THEN NewDeployable ELSE old, WithTemplate(old, t), job.app.uid)
           /\ WithTemplate(old, t).templates # {}
<1> DEFINE base == IF old = Absent THEN NewDeployable ELSE old
<1>1. base \in Deployable
  BY DEF NewDeployable, Deployable
<1>2. /\ WithTemplate(old, t).labels = base.labels \cup {job.app.uid}
      /\ WithTemplate(old, t).templates = base.templates \cup {t}
  BY <1>1 DEF WithTemplate, Deployable
<1> QED
  BY <1>2 DEF BuiltOn

\* Every step keeps what is known of the draft's growth.
LEMMA GrowthKept ==
    ASSUME TypeInv, GrowthInv, Next
    PROVE  GrowthInv'
<1> USE DEF GrowthInv, Drafting
<1>1. CASE UNCHANGED <<pc, job>> \/ pc' \in {"idle", "conclude", "app"}
  BY <1>1
<1>2. CASE GetOrCreateApplication \/ UpdateApplication \/ FromManifestWork
  BY <1>2 DEF GetOrCreateApplication, UpdateApplication, FromManifestWork, Fail, Advance
<1>3. CASE WriteDeployable
  BY <1>3 DEF WriteDeployable, Fail, Advance
<1>4. CASE FromObject
  <2>1. job.app \in Application /\ cHdpl[Name] \in Maybe(Deployable) /\ job \in Job
        /\ Current \in HubObject
    BY <1>4, LoopTyped DEF FromObject, TypeInv, TypeOK
  <2>2. CASE Fail
    BY <2>2 DEF Fail
  <2>3. CASE ~Fail
    <3>1. PICK t \in SelectableTypes(Current) :
            job' = [job EXCEPT !.copy = cHdpl[Name],
                               !.draft = WithTemplate(cHdpl[Name], TemplateType(Current, t)),
                               !.want = t, !.seen = obj[Current]]
      BY <1>4, <2>3 DEF FromObject
    <3>2. TemplateType(Current, t) \in DeployerType
      BY <2>1, SelectableWanted, TemplateTyped DEF TypeInv
    <3>3. job'.app = job.app /\ job'.copy = cHdpl[Name]
          /\ job'.draft = WithTemplate(cHdpl[Name], TemplateType(Current, t))
      BY <2>1, <3>1 DEF Job
    <3> QED
      BY <2>1, <3>2, <3>3, TemplateGrows
  <2> QED
    BY <2>2, <2>3
<1>5. CASE FromObjectInManagedCluster
  <2>1. job.app \in Application /\ cHdpl[Name] \in Maybe(Deployable) /\ job \in Job
        /\ job.copy = Absent
    BY <1>5, LoopTyped DEF FromObjectInManagedCluster, InLoop, TypeInv, TypeOK, Control
  <2>2. CASE cHdpl[Name] # Absent
    <3> DEFINE old == cHdpl[Name]
    <3>1. job'.app = job.app /\ job'.copy = old
          /\ job'.draft = [old EXCEPT !.labels = @ \cup {job.app.uid}]
      BY <1>5, <2>1, <2>2 DEF FromObjectInManagedCluster, Job
    <3>2. old \in Deployable
      BY <2>1, <2>2
    <3>3. job'.draft.labels = old.labels \cup {job.app.uid} /\ job'.draft.templates = old.templates
      BY <3>1, <3>2 DEF Deployable
    <3> QED
      BY <2>2, <3>1, <3>3 DEF BuiltOn
  <2>3. CASE cHdpl[Name] = Absent
    <3>1. job'.app = job.app /\ job'.copy = Absent /\ job'.draft = WithTemplate(Absent, DefaultType)
      BY <1>5, <2>1, <2>3 DEF FromObjectInManagedCluster, Job
    <3> QED
      BY <2>1, <3>1, TemplateGrows, DeployersAssumption
  <2> QED
    BY <2>2, <2>3
<1>6. CASE PatchManifestWork
  <2>1. job.app \in Application /\ job \in Job /\ job.copy = Absent /\ Current \in Work
    BY <1>6, LoopTyped DEF PatchManifestWork, InComponent, TypeInv, TypeOK, Control
  <2>2. CASE Fail
    BY <2>2 DEF Fail
  <2>3. CASE ~Fail
    <3>1. job'.app = job.app /\ job'.copy = Absent
          /\ job'.draft = WithTemplate(Absent, TemplateType(Current, DefaultType))
      BY <1>6, <2>1, <2>3 DEF PatchManifestWork, Job
    <3> QED
      BY <2>1, <3>1, TemplateGrows, TemplateTyped, DeployersAssumption
  <2> QED
    BY <2>2, <2>3
<1>7. CASE GenPlacementRule \/ CheckDecision
  <2>1. job \in Job
    BY DEF TypeInv, TypeOK
  <2>2. pc \in {"rule", "check"}
    BY <1>7 DEF GenPlacementRule, CheckDecision
  <2>3. CASE Fail \/ UNCHANGED job
    BY <2>2, <2>3 DEF Fail
  <2>4. ASSUME NEW n, job' = [job EXCEPT !.draft.placement = n]
        PROVE  GrowthInv'
    <3>1. /\ job'.copy = job.copy /\ job'.app = job.app
          /\ job'.draft.labels = job.draft.labels /\ job'.draft.templates = job.draft.templates
      BY <2>1, <2>4 DEF Job, Deployable
    <3> QED
      BY <2>2, <3>1 DEF BuiltOn
  <2> QED
    BY <1>7, <2>3, <2>4 DEF GenPlacementRule, CheckDecision
<1>8. CASE PatchObject \/ (ApiFault /\ pc = "patchObject" /\ pc' = "write" /\ UNCHANGED job)
  BY <1>8 DEF PatchObject
<1> QED
  BY <1>1, <1>2, <1>3, <1>4, <1>5, <1>6, <1>7, <1>8, JobSteps

-----------------------------------------------------------------------------
(***************************************************************************)
(* The mapping.                                                            *)
(***************************************************************************)
Entry == [n \in HdplName |-> EntryOf(hdpl[n])]
Rules == [n \in HdplName |-> RuleOf(rule[n])]

Fitting == [n \in HdplName |-> UNION {Wanted(c) : c \in {k \in Component : NameOf[k] = n}}]

\* The entry of a stored Deployable is an entry.
LEMMA EntryThere ==
    ASSUME NEW d \in Deployable
    PROVE  /\ EntryOf(d) # Absent
           /\ EntryOf(d).labels = d.labels /\ EntryOf(d).templates = d.templates
           /\ EntryOf(d).placement = d.placement
<1> DEFINE kept == [labels |-> d.labels, templates |-> d.templates, placement |-> d.placement]
<1>1. d # Absent
  BY AbsentAssumption, Zenon DEF Deployable, Uid
<1>2. kept \in [labels: SUBSET (Assembler \X Nat), templates: SUBSET DeployerType,
                placement: HdplName \cup {Absent}]
  BY DEF Deployable, Uid
<1>3. kept # Absent
  BY <1>2, AbsentAssumption, Zenon
<1>4. EntryOf(d) = kept
  BY <1>1 DEF EntryOf
<1> QED
  BY <1>3, <1>4

\* A step that leaves the Deployables alone keeps their entries.
LEMMA EntryKept ==
    ASSUME UNCHANGED hdpl
    PROVE  Entry' = Entry
BY DEF Entry, EntryOf

\* Decisions are no part of the registry.
LEMMA DecideHidden ==
    ASSUME TypeInv, NEW n \in HdplName, Decide(n)
    PROVE  UNCHANGED <<Entry, Rules>>
<1>1. rule[n] \in PlacementRule /\ rule' = [rule EXCEPT ![n].decided = TRUE]
  BY DEF Decide, TypeInv, TypeOK
<1>2. /\ [rule[n] EXCEPT !.decided = TRUE] \in PlacementRule
      /\ [rule[n] EXCEPT !.decided = TRUE].spec = rule[n].spec
  BY <1>1 DEF PlacementRule
<1>3. \A m \in HdplName : RuleOf(rule'[m]) = RuleOf(rule[m])
  BY <1>1, <1>2, AbsentAssumption DEF RuleOf, TypeInv, TypeOK, PlacementRule
<1>4. Rules' = Rules
  BY <1>3 DEF Rules
<1> QED
  BY <1>4, EntryKept DEF Decide

\* A rule that is created is one that is made.
LEMMA CreateMakes ==
    ASSUME TypeInv, GenPlacementRule, rule[Name] = Absent,
           rule' = [rule EXCEPT ![Name] = [spec |-> job.want, decided |-> FALSE]]
    PROVE  Registry!MakeRule(Name) /\ Name \in HdplName
<1>1. Name \in HdplName /\ rule'[Name] # Absent /\ rule'[Name].spec = job.want
  BY RuleCreated
<1>2. job.want \in RuleSpec
  BY LoopTyped, WantedTyped DEF GenPlacementRule, InComponent, TypeInv, Control
<1>3. \A m \in HdplName \ {Name} : rule'[m] = rule[m]
  BY <1>1 DEF TypeInv, TypeOK
<1>4. RuleOf(rule[Name]) = Absent /\ RuleOf(rule'[Name]) # Absent
  BY <1>1, <1>2, AbsentAssumption DEF RuleOf
<1>5. UNCHANGED hdpl
  BY DEF GenPlacementRule
<1> QED
  BY <1>1, <1>3, <1>4, <1>5 DEF Registry!MakeRule, EntryOf, RuleOf

\* A placement that is sound is one that fits.
LEMMA PlacedFits ==
    ASSUME TypeInv, NEW n \in HdplName, NEW p, Placed(rule, p, n)
    PROVE  p \in HdplName /\ Rules[p] \in Fitting[n]
<1>1. PICK c \in Component : NameOf[c] = n /\ rule[p].spec \in Wanted(c)
  BY DEF Placed
<1>2. p \in HdplName /\ rule[p] # Absent
  BY DEF Placed
<1>3. Rules[p] = rule[p].spec
  BY <1>2 DEF Rules, RuleOf
<1>4. rule[p].spec \in UNION {Wanted(k) : k \in {j \in Component : NameOf[j] = n}}
  BY <1>1
<1> QED
  BY <1>2, <1>3, <1>4 DEF Fitting

\* A Deployable that is written is published, or extended.
LEMMA WritePublishes ==
    ASSUME TypeInv, DraftInv, GrowthInv, PlacementInv, WriteDeployable, hdpl[Name] = job.copy
    PROVE  Name \in HdplName /\ (Registry!Publish(Name) \/ Registry!Extend(Name))
<1>0. job \in Job /\ hdpl \in [HdplName -> Maybe(Deployable)]
  BY DEF TypeInv, TypeOK
<1>1. /\ Name \in HdplName /\ pc = "write" /\ UNCHANGED rule
      /\ \A n \in HdplName : n # Name => hdpl'[n] = hdpl[n]
  BY Written DEF WriteDeployable
<1>2. /\ hdpl'[Name].labels = job.draft.labels /\ hdpl'[Name].templates = job.draft.templates
      /\ hdpl'[Name].placement = job.draft.placement
  BY Written
<1>3. hdpl'[Name] \in Deployable
  <2>1. events \in Nat
    BY DEF TypeInv, TypeOK
  <2> QED
    BY <1>0, <1>1, <2>1 DEF WriteDeployable, Job, Deployable
<1> DEFINE old == hdpl[Name]  new == hdpl'[Name]
<1>4. /\ EntryOf(new) # Absent
      /\ EntryOf(new).labels = job.draft.labels /\ EntryOf(new).templates = job.draft.templates
      /\ EntryOf(new).placement = job.draft.placement
  BY <1>2, <1>3, EntryThere
<1>5. Registry!Others(Name)
  BY <1>1 DEF Registry!Others, EntryOf
<1>6. Registry!Placed(Name)
  <2> DEFINE p == job.draft.placement
  <2>1. Placed(rule, p, Name)
    BY <1>1 DEF PlacementInv
  <2>2. p \in HdplName /\ Rules[p] \in Fitting[Name]
    BY <1>1, <2>1, PlacedFits
  <2> QED
    BY <1>1, <1>4, <2>2 DEF Registry!Placed, Rules, Fitting
<1>7. UNCHANGED [n \in HdplName |-> RuleOf(rule[n])]
  BY <1>1
<1>8. /\ BuiltOn(IF old = Absent THEN NewDeployable ELSE old, job.draft, job.app.uid)
      /\ old = Absent => job.draft.templates # {}
  BY <1>1 DEF GrowthInv, Drafting
<1>9. CASE old = Absent
  <2>1. /\ job.draft.labels = {job.app.uid}
        /\ \E t : job.draft.templates \subseteq {t}
    BY <1>8, <1>9 DEF BuiltOn, NewDeployable
  <2>2. Registry!Grown({}, job.draft.labels) /\ Registry!Grown({}, job.draft.templates)
    BY <2>1 DEF Registry!Grown
  <2>3. EntryOf(old) = Absent
    BY <1>9 DEF EntryOf
  <2> QED
    BY <1>1, <1>4, <1>5, <1>6, <1>7, <1>8, <1>9, <2>1, <2>2, <2>3 DEF Registry!Publish
<1>10. CASE old # Absent
  <2>1. /\ EntryOf(old) # Absent
        /\ EntryOf(old).labels = old.labels /\ EntryOf(old).templates = old.templates
    BY <1>0, <1>1, <1>10, EntryThere
  <2>2. old.labels \subseteq job.draft.labels /\ old.templates \subseteq job.draft.templates
    BY <1>10, Written
  <2>3. Registry!Grown(old.labels, job.draft.labels) /\ Registry!Grown(old.templates, job.draft.templates)
    BY <1>8, <1>10, <2>2 DEF Registry!Grown, BuiltOn
  <2> QED
    BY <1>1, <1>4, <1>5, <1>6, <1>7, <2>1, <2>3 DEF Registry!Extend
<1> QED
  BY <1>1, <1>9, <1>10

\* A Deployable that is deleted is withdrawn.
LEMMA DeleteWithdraws ==
    ASSUME TypeInv, NEW n \in HdplName, DeleteDeployable(n)
    PROVE  Registry!Withdraw(n)
<1>1. hdpl[n] \in Deployable /\ hdpl' = [hdpl EXCEPT ![n] = Absent] /\ UNCHANGED rule
  BY DEF DeleteDeployable, TypeInv, TypeOK
<1>2. EntryOf(hdpl[n]) # Absent
  BY <1>1, EntryThere
<1>3. hdpl'[n] = Absent /\ \A m \in HdplName \ {n} : hdpl'[m] = hdpl[m]
  BY <1>1 DEF TypeInv, TypeOK
<1> QED
  BY <1>1, <1>2, <1>3 DEF Registry!Withdraw, Registry!Others, EntryOf

\* One of them changes at a time.
LEMMA RegistrySteps ==
    ASSUME Next
    PROVE  \/ UNCHANGED <<hdpl, rule>>
           \/ /\ GenPlacementRule /\ rule[Name] = Absent
              /\ rule' = [rule EXCEPT ![Name] = [spec |-> job.want, decided |-> FALSE]]
           \/ \E n \in HdplName : Decide(n)
           \/ WriteDeployable /\ hdpl[Name] = job.copy
           \/ \E n \in HdplName : DeleteDeployable(n)
BY DEF Next, Start, Reconcile, GetOrCreateApplication, UpdateApplication, FromObject,
       FromObjectInManagedCluster, FromManifestWork, PatchManifestWork, GenPlacementRule,
       CheckDecision, PatchObject, WriteDeployable, AllComponentsDone, ConcludeReconcile, Panic,
       Restart, Sync, SyncAssemblers, SyncApplications, SyncDeployables, SyncRules, SyncWorks,
       Environment, CreateAssembler, EditAssembler, DeleteAssembler, CollectApplication, ApplyApplication,
       EditApplication, DeleteApplication,
       DeleteObject, ToggleKind, DeleteWork, ToggleDeployer, ToggleCluster, ApiFault, Crash

\* To those who share the Deployables, an assembler's reads, retries and conflicts do not
\* exist: each step is one of the registry, or changes nothing of it.
LEMMA StepMapped ==
    ASSUME TypeInv, DraftInv, GrowthInv, PlacementInv, Next
    PROVE  [Registry!Next]_(Registry!registry)
<1>1. CASE UNCHANGED <<hdpl, rule>>
  BY <1>1 DEF Registry!registry, EntryOf, RuleOf
<1>2. CASE /\ GenPlacementRule /\ rule[Name] = Absent
           /\ rule' = [rule EXCEPT ![Name] = [spec |-> job.want, decided |-> FALSE]]
  BY <1>2, CreateMakes DEF Registry!Next
<1>3. CASE \E n \in HdplName : Decide(n)
  BY <1>3, DecideHidden DEF Registry!registry, Entry, Rules
<1>4. CASE WriteDeployable /\ hdpl[Name] = job.copy
  BY <1>4, WritePublishes DEF Registry!Next
<1>5. CASE \E n \in HdplName : DeleteDeployable(n)
  BY <1>5, DeleteWithdraws DEF Registry!Next
<1> QED
  BY <1>1, <1>2, <1>3, <1>4, <1>5, RegistrySteps

\* AssemblerController implements DeployableRegistry: an entry appears whole, grows by one
\* application at a time, and names a rule that fits and stays as it was made, although its
\* making is spread over reads, a rule, a patch and a write (object.go:62-122,
\* deployable.go:73-150, placementrule.go:31-96).
THEOREM RegistryImplemented == Spec => ImplementsRegistry
<1>1. Init => Registry!Init
  BY DEF Init, Registry!Init, EntryOf, RuleOf
<1>2. Init => GrowthInv
  BY DEF Init, GrowthInv, Drafting
<1>3. TypeInv /\ GrowthInv /\ [Next]_vars => GrowthInv'
  BY GrowthKept DEF vars, GrowthInv, Drafting
<1>4. Init => PlacementInv
  BY DEF Init, PlacementInv, PlacementSound
<1>5. TypeInv /\ DraftInv /\ PlacementInv /\ [Next]_vars => PlacementInv'
  <2>1. PlacementInv /\ UNCHANGED vars => PlacementInv'
    BY DEF vars, caches, PlacementInv, PlacementSound, Name, Current
  <2> QED
    BY <2>1, PlacementKept
<1>6. TypeInv /\ DraftInv /\ GrowthInv /\ PlacementInv /\ [Next]_vars
        => [Registry!Next]_(Registry!registry)
  <2>1. UNCHANGED vars => UNCHANGED Registry!registry
    BY DEF vars, Registry!registry, EntryOf, RuleOf
  <2> QED
    BY <2>1, StepMapped
<1> QED
  BY <1>1, <1>2, <1>3, <1>4, <1>5, <1>6, DraftCorrect, PTL DEF Spec, ImplementsRegistry, Registry!Spec
===============================================================================
