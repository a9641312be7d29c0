----------------------------- MODULE HybridProofs -----------------------------
(***************************************************************************)
(* The safety properties of HybridApp, for any Applications, components,   *)
(* depth of Deployables and events.                                        *)
(***************************************************************************)
EXTENDS HybridApp, TLAPS

USE DEF Maybe

\* Components that a Deployable can be made for.
Makeable == {p \in Part : DeployableOf(p) \in Deployable}

\* What the layouts list, and what each worker holds at its calls.
Control ==
    /\ \A a \in App : /\ asm[a] # Absent => asm[a].layout \subseteq Makeable
                      /\ cAsm[a] # Absent => cAsm[a].layout \subseteq Makeable
    /\ asmPc # "idle" => asmJob.name \in App /\ asmJob.inst \in Assembler
    /\ asmPc \in {"update", "next", "write"} => asmJob.app \in Application
    /\ asmPc = "write" => asmJob.at \in Makeable /\ asmJob.copy \in StoredDeployable
    /\ asmJob.todo \subseteq Makeable
    /\ appPc # "idle" => appJob.name \in App /\ appJob.app \in Application
    /\ appPc = "create" => appJob.parts \subseteq Makeable

TypeInv == TypeOK /\ Control

\* A hub component, or a Deployable above the depth, is one that a Deployable is made for.
LEMMA ShallowMakeable ==
    ASSUME NEW p \in Part, p[2] < Depth
    PROVE  p \in Makeable
BY HybridAssumption DEF Part, Component, Deployable, Makeable, DeployableOf

LEMMA WantedMakeable ==
    ASSUME NEW a \in App
    PROVE  Wants[a] \subseteq Makeable /\ Wants[a] \subseteq Part
<1>1. \A p \in Component : p \in Part /\ p[2] < Depth
  BY HybridAssumption DEF Component, Part
<1> QED
  BY <1>1, ShallowMakeable, HybridAssumption

\* What is fetched are components.
LEMMA FetchedTyped ==
    ASSUME NEW a \in App, NEW x \in Application
    PROVE  Fetched(a, x) \subseteq Part
<1>1. CASE x.selector = "nil"
  BY <1>1 DEF Fetched
<1>2. CASE x.selector = "user"
  BY <1>2, WantedMakeable DEF Fetched
<1>3. CASE x.selector = "own"
  BY <1>3 DEF Fetched, Part
<1> QED
  BY <1>1, <1>2, <1>3 DEF Application

\* The label of an Application.
LEMMA LabelTyped ==
    ASSUME NEW a \in App, NEW x \in Application
    PROVE  LabelOf(a, x) \in Label
BY DEF LabelOf, Label, Application

\* What each write of an Application makes of the copy.
LEMMA AdoptedFields ==
    ASSUME NEW x \in Application, asmJob.inst \in Assembler
    PROVE  LET y == Adopted(x)
           IN /\ y \in Application /\ y.uid = x.uid /\ y.mark = x.mark /\ y.status = x.status
              /\ y.foreign = x.foreign /\ y.owner = OwnerOf(x) /\ y.selector = "own"
              /\ y = x \/ y.rev = x.rev + 1
<1>1. x.rev + 1 \in Nat /\ OwnerOf(x) \in Maybe(Nat)
  BY DEF Application, Assembler, OwnerOf
<1>2. ASSUME NEW r \in Nat, NEW o \in Maybe(Nat)
      PROVE  LET y == [x EXCEPT !.owner = o, !.selector = "own", !.rev = r]
             IN /\ y \in Application /\ y.uid = x.uid /\ y.mark = x.mark /\ y.status = x.status
                /\ y.foreign = x.foreign /\ y.owner = o /\ y.selector = "own" /\ y.rev = r
  BY DEF Application
<1>3. CASE x.owner = OwnerOf(x) /\ x.selector = "own"
  BY <1>3 DEF Adopted
<1>4. CASE ~(x.owner = OwnerOf(x) /\ x.selector = "own")
  <2>1. Adopted(x) = [x EXCEPT !.owner = OwnerOf(x), !.selector = "own", !.rev = x.rev + 1]
    BY <1>4 DEF Adopted
  <2> QED
    BY <1>1, <2>1 DEF Application
<1> QED
  BY <1>3, <1>4

LEMMA CompletedFields ==
    ASSUME NEW x \in Application
    PROVE  LET y == Completed(x)
           IN /\ y \in Application /\ y.uid = x.uid /\ y.mark = "done" /\ y.status = x.status
              /\ y.foreign = x.foreign /\ y.owner = x.owner /\ y.selector = x.selector
              /\ y.rev = x.rev + 1
<1>1. x.rev + 1 \in Nat
  BY DEF Application
<1>2. ASSUME NEW r \in Nat
      PROVE  LET y == [x EXCEPT !.mark = "done", !.rev = r]
             IN /\ y \in Application /\ y.uid = x.uid /\ y.mark = "done" /\ y.status = x.status
                /\ y.foreign = x.foreign /\ y.owner = x.owner /\ y.selector = x.selector
                /\ y.rev = r
  BY DEF Application
<1> QED
  BY <1>1, <1>2 DEF Completed

LEMMA ListedFields ==
    ASSUME NEW x \in Application, NEW parts \in SUBSET Part
    PROVE  LET y == Listed(x, parts)
           IN /\ y \in Application /\ y.uid = x.uid /\ y.mark = x.mark /\ y.status = parts
              /\ y.foreign = x.foreign /\ y.owner = x.owner /\ y.selector = x.selector
              /\ y.rev = x.rev + 1
<1>1. x.rev + 1 \in Nat
  BY DEF Application
<1>2. ASSUME NEW r \in Nat
      PROVE  LET y == [x EXCEPT !.status = parts, !.rev = r]
             IN /\ y \in Application /\ y.uid = x.uid /\ y.mark = x.mark /\ y.status = parts
                /\ y.foreign = x.foreign /\ y.owner = x.owner /\ y.selector = x.selector
                /\ y.rev = r
  BY DEF Application
<1> QED
  BY <1>1, <1>2 DEF Listed

-----------------------------------------------------------------------------
(***************************************************************************)
(* The assembler's worker.                                                 *)
(***************************************************************************)
\* The variables that its steps leave alone, and what holds of them.
LEMMA AsmFailTyped ==
    ASSUME TypeInv, asmPc # "idle", AsmFail
    PROVE  /\ asmPc' = "conclude" /\ asmJob' \in AsmJob
           /\ asmJob'.name = asmJob.name /\ asmJob'.inst = asmJob.inst /\ asmJob'.todo = {}
BY DEF TypeInv, TypeOK, Control, AsmFail, AsmJob, NoAsmJob

\* A step of this worker is typed when what it changes is.
LEMMA AsmStepTyped ==
    ASSUME TypeInv, UNCHANGED <<asm, caches, appWorker>>, events' \in Nat,
           app' \in [App -> Maybe(Application)],
           hdpl' \in [Deployable -> StoredDeployable],
           asmQueue' \subseteq App, asmJob' \in AsmJob,
           asmPc' \in {"idle", "app", "update", "next", "write", "conclude"},
           asmJob'.todo \subseteq Makeable,
           asmPc' # "idle" => asmJob'.name \in App /\ asmJob'.inst \in Assembler,
           asmPc' \in {"update", "next", "write"} => asmJob'.app \in Application,
           asmPc' = "write" => asmJob'.at \in Makeable /\ asmJob'.copy \in StoredDeployable
    PROVE  TypeInv'
BY DEF TypeInv, TypeOK, Control, caches, appWorker

LEMMA StartAssemblerTyped ==
    ASSUME TypeInv, NEW a \in App, StartAssembler(a)
    PROVE  TypeInv'
<1>1. CASE cAsm[a] = Absent
  BY <1>1 DEF StartAssembler, TypeInv, TypeOK, Control, store, caches, appWorker
<1>2. CASE cAsm[a] # Absent
  <2>1. cAsm[a] \in Assembler /\ cAsm[a].layout \subseteq Makeable /\ cAsm[a].layout \subseteq Part
    BY <1>2 DEF TypeInv, TypeOK, Control, Assembler
  <2>2. /\ asmPc' = "app"
        /\ asmJob' = [NoAsmJob EXCEPT !.name = a, !.inst = cAsm[a], !.todo = cAsm[a].layout]
    BY <1>2 DEF StartAssembler
  <2>3. /\ asmJob' \in AsmJob /\ asmJob'.name = a /\ asmJob'.inst = cAsm[a]
        /\ asmJob'.todo = cAsm[a].layout
    BY <2>1, <2>2 DEF AsmJob, NoAsmJob
  <2>4. asmQueue' \subseteq App /\ UNCHANGED <<app, asm, hdpl, caches, appWorker, events>>
    BY DEF StartAssembler, store, TypeInv, TypeOK
  <2> QED
    BY <2>1, <2>2, <2>3, <2>4, AsmStepTyped DEF TypeInv, TypeOK
<1> QED
  BY <1>1, <1>2

LEMMA AssembleTyped ==
    ASSUME TypeInv, Assemble
    PROVE  TypeInv'
<1>0. /\ asmPc # "idle" /\ asmJob.name \in App /\ asmJob.inst \in Assembler /\ asmJob \in AsmJob
      /\ asmJob.todo \subseteq Makeable /\ asmQueue \subseteq App /\ events \in Nat
      /\ app \in [App -> Maybe(Application)] /\ cApp \in [App -> Maybe(Application)]
      /\ hdpl \in [Deployable -> StoredDeployable] /\ cHdpl \in [Deployable -> StoredDeployable]
  BY DEF Assemble, GetOrCreateApplication, UpdateApplication, FromObject, WriteDeployable,
         ConcludeReconcile, TypeInv, TypeOK, Control
<1>1. CASE AsmFail /\ UNCHANGED <<app, asm, hdpl, caches, asmQueue, appWorker, events>>
  BY <1>0, <1>1, AsmFailTyped, AsmStepTyped
<1>2. CASE GetOrCreateApplication
  <2> DEFINE a   == asmJob.name
             new == [uid |-> events, rev |-> 0, foreign |-> FALSE, owner |-> Absent,
                     mark |-> "off", selector |-> "nil", status |-> {}]
  <2>1. new \in Application
    BY <1>0 DEF Application
  <2>2. UNCHANGED <<asm, hdpl, caches, asmQueue, appWorker, events>>
    BY <1>2 DEF GetOrCreateApplication
  <2>3. ASSUME NEW x \in Application, asmPc' = "update", asmJob' = [asmJob EXCEPT !.app = x],
               app' \in [App -> Maybe(Application)]
        PROVE  TypeInv'
    <3>1. /\ asmJob' \in AsmJob /\ asmJob'.name = a /\ asmJob'.inst = asmJob.inst
          /\ asmJob'.todo = asmJob.todo /\ asmJob'.app = x
      BY <1>0, <2>3 DEF AsmJob
    <3> QED
      BY <1>0, <2>2, <2>3, <3>1, AsmStepTyped
  <2>4. CASE cApp[a] # Absent
    BY <1>0, <1>2, <2>3, <2>4 DEF GetOrCreateApplication
  <2>5. CASE cApp[a] = Absent /\ app[a] = Absent
    <3>1. /\ asmPc' = "update" /\ asmJob' = [asmJob EXCEPT !.app = new]
          /\ app' = [app EXCEPT ![a] = new]
      BY <1>2, <2>5 DEF GetOrCreateApplication
    <3>2. app' \in [App -> Maybe(Application)]
      BY <1>0, <2>1, <3>1
    <3> QED
      BY <2>1, <2>3, <3>1, <3>2
  <2> QED
    BY <1>1, <1>2, <2>2, <2>4, <2>5 DEF GetOrCreateApplication
<1>3. CASE UpdateApplication
  <2>1. asmPc = "update" /\ asmJob.app \in Application
        /\ UNCHANGED <<asm, hdpl, caches, asmQueue, appWorker, events>>
    BY <1>3 DEF UpdateApplication, TypeInv, Control
  <2>2. Adopted(asmJob.app) \in Application
    BY <1>0, <2>1, AdoptedFields
  <2>3. CASE app[asmJob.name] = asmJob.app
    <3>1. /\ app' = [app EXCEPT ![asmJob.name] = Adopted(asmJob.app)]
          /\ asmPc' = "next" /\ asmJob' = [asmJob EXCEPT !.app = Adopted(asmJob.app)]
      BY <1>3, <2>3 DEF UpdateApplication
    <3>2. app' \in [App -> Maybe(Application)]
      BY <1>0, <2>2, <3>1
    <3>3. /\ asmJob' \in AsmJob /\ asmJob'.name = asmJob.name /\ asmJob'.inst = asmJob.inst
          /\ asmJob'.todo = asmJob.todo /\ asmJob'.app = Adopted(asmJob.app)
      BY <1>0, <2>2, <3>1 DEF AsmJob
    <3> QED
      BY <1>0, <2>1, <2>2, <3>1, <3>2, <3>3, AsmStepTyped
  <2> QED
    BY <1>1, <1>3, <2>1, <2>3 DEF UpdateApplication
<1>4. ASSUME NEW p \in Part, FromObject(p)
      PROVE  TypeInv'
  <2>1. asmPc = "next" /\ p \in Makeable /\ asmJob.app \in Application
        /\ UNCHANGED <<app, asm, hdpl, caches, asmQueue, appWorker, events>>
    BY <1>0, <1>4 DEF FromObject, store, TypeInv, Control
  <2>2. cHdpl[DeployableOf(p)] \in StoredDeployable
    BY <1>0, <2>1 DEF Makeable
  <2>3. CASE AsmFail
    BY <1>1, <2>1, <2>3
  <2>4. CASE ~AsmFail
    <3>1. asmPc' = "write" /\ asmJob' = [asmJob EXCEPT !.at = p, !.copy = cHdpl[DeployableOf(p)]]
      BY <1>4, <2>4 DEF FromObject
    <3>2. /\ asmJob' \in AsmJob /\ asmJob'.name = asmJob.name /\ asmJob'.inst = asmJob.inst
          /\ asmJob'.todo = asmJob.todo /\ asmJob'.app = asmJob.app
          /\ asmJob'.at = p /\ asmJob'.copy = cHdpl[DeployableOf(p)]
      BY <1>0, <2>2, <3>1 DEF AsmJob
    <3> QED
      BY <1>0, <2>1, <2>2, <3>1, <3>2, AsmStepTyped
  <2> QED
    BY <2>3, <2>4
<1>5. CASE WriteDeployable
  <2> DEFINE d     == DeployableOf(asmJob.at)
             label == LabelOf(asmJob.name, asmJob.app)
  <2>1. /\ asmPc = "write" /\ d \in Deployable /\ asmJob.app \in Application
        /\ UNCHANGED <<app, asm, caches, asmQueue, appWorker, events>>
    BY <1>5 DEF WriteDeployable, TypeInv, Control, Makeable
  <2>2. label \in Label
    BY <1>0, <2>1, LabelTyped
  <2>3. CASE Current(d, asmJob.copy)
    <3>1. [here |-> TRUE, since |-> events, first |-> label, labels |-> {label}] \in StoredDeployable
      BY <1>0, <2>2 DEF StoredDeployable
    <3>2. [hdpl[d] EXCEPT !.labels = @ \cup {label}] \in StoredDeployable
      BY <1>0, <2>1, <2>2 DEF StoredDeployable
    <3>3. hdpl' \in [Deployable -> StoredDeployable]
      <4>1. CASE asmJob.copy.here
        BY <1>0, <1>5, <2>1, <2>3, <3>2, <4>1 DEF WriteDeployable
      <4>2. CASE ~asmJob.copy.here
        BY <1>0, <1>5, <2>1, <2>3, <3>1, <4>2 DEF WriteDeployable
      <4> QED
        BY <4>1, <4>2
    <3>4. asmPc' = "next" /\ asmJob' = [asmJob EXCEPT !.todo = @ \ {asmJob.at}, !.at = Absent, !.copy = Absent]
      BY <1>5, <2>3 DEF WriteDeployable
    <3>5. /\ asmJob' \in AsmJob /\ asmJob'.name = asmJob.name /\ asmJob'.inst = asmJob.inst
          /\ asmJob'.todo \subseteq Makeable /\ asmJob'.app = asmJob.app
      BY <1>0, <3>4 DEF AsmJob
    <3> QED
      BY <1>0, <2>1, <3>3, <3>4, <3>5, AsmStepTyped
  <2>4. CASE ~Current(d, asmJob.copy)
    BY <1>1, <1>5, <2>1, <2>4 DEF WriteDeployable
  <2> QED
    BY <2>3, <2>4
<1>6. CASE ConcludeReconcile
  <2>1. /\ asmPc' = "idle" /\ asmJob' = NoAsmJob /\ asmQueue' \subseteq App
        /\ UNCHANGED <<app, asm, hdpl, caches, appWorker, events>>
    BY <1>0, <1>6 DEF ConcludeReconcile, store
  <2>2. NoAsmJob \in AsmJob /\ NoAsmJob.todo = {}
    BY DEF NoAsmJob, AsmJob
  <2> QED
    BY <1>0, <2>1, <2>2, AsmStepTyped
<1> QED
  BY <1>2, <1>3, <1>4, <1>5, <1>6 DEF Assemble

-----------------------------------------------------------------------------
(***************************************************************************)
(* The application's worker.                                               *)
(***************************************************************************)
\* A step of this worker is typed when what it changes is.
LEMMA AppStepTyped ==
    ASSUME TypeInv, UNCHANGED <<hdpl, caches, asmWorker>>, events' \in Nat,
           app' \in [App -> Maybe(Application)],
           asm' \in [App -> Maybe(Assembler)],
           \A a \in App : asm'[a] # Absent => asm'[a].layout \subseteq Makeable,
           appQueue' \subseteq App, appJob' \in AppJob,
           appPc' \in {"idle", "look", "compose", "create", "annotate", "fetch", "status"},
           appPc' # "idle" => appJob'.name \in App /\ appJob'.app \in Application,
           appPc' = "create" => appJob'.parts \subseteq Makeable
    PROVE  TypeInv'
BY DEF TypeInv, TypeOK, Control, caches, asmWorker

\* The ends of a reconcile.
LEMMA AppEndTyped ==
    ASSUME TypeInv, appPc # "idle", AppDone \/ AppFail
    PROVE  appPc' = "idle" /\ appJob' \in AppJob /\ appQueue' \subseteq App
BY DEF TypeInv, TypeOK, Control, AppDone, AppFail, AppJob, NoAppJob

LEMMA StartApplicationTyped ==
    ASSUME TypeInv, NEW a \in App, StartApplication(a)
    PROVE  TypeInv'
<1>0. /\ appQueue' \subseteq App /\ UNCHANGED <<app, asm, hdpl, caches, asmWorker, events>>
      /\ app \in [App -> Maybe(Application)] /\ asm \in [App -> Maybe(Assembler)]
      /\ events \in Nat /\ \A b \in App : asm[b] # Absent => asm[b].layout \subseteq Makeable
  BY DEF StartApplication, store, TypeInv, TypeOK, Control
<1>1. CASE cApp[a] = Absent
  <2>1. UNCHANGED <<appPc, appJob>> /\ appPc = "idle"
    BY <1>1 DEF StartApplication
  <2> QED
    BY <1>0, <2>1, AppStepTyped DEF TypeInv, TypeOK
<1>2. CASE cApp[a] # Absent
  <2>1. cApp[a] \in Application
    BY <1>2 DEF TypeInv, TypeOK
  <2>2. appPc' \in {"look", "fetch"} /\ appJob' = [NoAppJob EXCEPT !.name = a, !.app = cApp[a]]
    BY <1>2 DEF StartApplication
  <2>3. appJob' \in AppJob /\ appJob'.name = a /\ appJob'.app = cApp[a]
    BY <2>1, <2>2 DEF AppJob, NoAppJob
  <2> QED
    BY <1>0, <2>1, <2>2, <2>3, AppStepTyped
<1> QED
  BY <1>1, <1>2

LEMMA DiscoveringTyped ==
    ASSUME TypeInv, Discovering
    PROVE  TypeInv'
<1>0. /\ appPc # "idle" /\ appJob.name \in App /\ appJob.app \in Application /\ appJob \in AppJob
      /\ appQueue \subseteq App /\ events \in Nat
      /\ app \in [App -> Maybe(Application)] /\ asm \in [App -> Maybe(Assembler)]
      /\ \A b \in App : asm[b] # Absent => asm[b].layout \subseteq Makeable
  BY DEF Discovering, LookForAssembler, ComposeAssembler, CreateAssembler, UpdateDiscoveryAnnotations,
         FetchComponents, UpdateStatus, TypeInv, TypeOK, Control
<1>1. Fetched(appJob.name, appJob.app) \subseteq Part
  BY <1>0, FetchedTyped
<1>7. CASE LookForAssembler
  <2>1. /\ appPc' \in {"compose", "fetch"}
        /\ UNCHANGED <<app, asm, hdpl, caches, asmWorker, appQueue, appJob, events>>
    BY <1>7 DEF LookForAssembler, store
  <2> QED
    BY <1>0, <2>1, AppStepTyped
<1>2. CASE ComposeAssembler
  <2> DEFINE parts == {p \in Fetched(appJob.name, appJob.app) : p[2] < Depth}
  <2>1. parts \subseteq Part /\ parts \subseteq Makeable
    BY <1>1, ShallowMakeable
  <2>2. /\ appPc' = "create" /\ appJob' = [appJob EXCEPT !.parts = parts]
        /\ UNCHANGED <<app, asm, hdpl, caches, asmWorker, appQueue, events>>
    BY <1>2 DEF ComposeAssembler, store
  <2>3. appJob' \in AppJob /\ appJob'.name = appJob.name /\ appJob'.app = appJob.app
        /\ appJob'.parts = parts
    BY <1>0, <2>1, <2>2 DEF AppJob
  <2> QED
    BY <1>0, <2>1, <2>2, <2>3, AppStepTyped
<1>3. CASE CreateAssembler
  <2>0. UNCHANGED <<app, hdpl, caches, asmWorker, events>> /\ appPc = "create"
    BY <1>3 DEF CreateAssembler
  <2>1. CASE asm[appJob.name] = Absent
    <3> DEFINE new == [uid |-> events, for |-> appJob.app.uid, layout |-> appJob.parts]
    <3>1. new \in Assembler /\ new.layout \subseteq Makeable
      BY <1>0, <2>0 DEF Assembler, AppJob, Application, TypeInv, Control
    <3>2. /\ asm' = [asm EXCEPT ![appJob.name] = new] /\ appPc' = "annotate"
          /\ appJob' = [appJob EXCEPT !.parts = {}] /\ UNCHANGED appQueue
      BY <1>3, <2>1 DEF CreateAssembler
    <3>4. appJob' \in AppJob /\ appJob'.name = appJob.name /\ appJob'.app = appJob.app
      BY <1>0, <3>2 DEF AppJob
    <3>3. /\ asm' \in [App -> Maybe(Assembler)]
          /\ \A b \in App : asm'[b] # Absent => asm'[b].layout \subseteq Makeable
      BY <1>0, <3>1, <3>2
    <3> QED
      BY <1>0, <2>0, <3>2, <3>3, <3>4, AppStepTyped
  <2>2. CASE asm[appJob.name] # Absent
    <3>1. AppFail /\ UNCHANGED asm
      BY <1>3, <2>2 DEF CreateAssembler
    <3> QED
      BY <1>0, <2>0, <3>1, AppEndTyped, AppStepTyped
  <2> QED
    BY <2>1, <2>2
<1>4. CASE UpdateDiscoveryAnnotations
  <2>0. UNCHANGED <<asm, hdpl, caches, asmWorker, events>>
    BY <1>4 DEF UpdateDiscoveryAnnotations
  <2>1. CASE app[appJob.name] = appJob.app
    <3>1. /\ app' = [app EXCEPT ![appJob.name] = Completed(appJob.app)] /\ appPc' = "fetch"
          /\ appJob' = [appJob EXCEPT !.app = Completed(appJob.app)] /\ UNCHANGED appQueue
      BY <1>4, <2>1 DEF UpdateDiscoveryAnnotations
    <3>2. Completed(appJob.app) \in Application
      BY <1>0, CompletedFields
    <3>3. app' \in [App -> Maybe(Application)]
      BY <1>0, <2>1, <3>1, <3>2
    <3>4. appJob' \in AppJob /\ appJob'.name = appJob.name /\ appJob'.app \in Application
      BY <1>0, <3>1, <3>2 DEF AppJob
    <3> QED
      BY <1>0, <2>0, <3>1, <3>3, <3>4, AppStepTyped
  <2>2. CASE app[appJob.name] # appJob.app
    <3>1. AppFail /\ UNCHANGED app
      BY <1>4, <2>2 DEF UpdateDiscoveryAnnotations
    <3> QED
      BY <1>0, <2>0, <3>1, AppEndTyped, AppStepTyped
  <2> QED
    BY <2>1, <2>2
<1>5. CASE FetchComponents
  <2>0. UNCHANGED <<app, asm, hdpl, caches, asmWorker, events>>
    BY <1>5 DEF FetchComponents, store
  <2>1. CASE AppDone
    BY <1>0, <2>0, <2>1, AppEndTyped, AppStepTyped
  <2>2. CASE ~AppDone
    <3>1. /\ appPc' = "status" /\ UNCHANGED appQueue
          /\ appJob' = [appJob EXCEPT !.parts = Fetched(appJob.name, appJob.app)]
      BY <1>5, <2>2 DEF FetchComponents
    <3>2. appJob' \in AppJob /\ appJob'.name = appJob.name /\ appJob'.app = appJob.app
      BY <1>0, <1>1, <3>1 DEF AppJob
    <3> QED
      BY <1>0, <2>0, <3>1, <3>2, AppStepTyped
  <2> QED
    BY <2>1, <2>2
<1>6. CASE UpdateStatus
  <2>1. AppDone /\ UNCHANGED <<asm, hdpl, caches, asmWorker, events>>
    BY <1>6 DEF UpdateStatus
  <2>2. Listed(appJob.app, appJob.parts) \in Application
    BY <1>0, ListedFields DEF AppJob
  <2>3. app' \in [App -> Maybe(Application)]
    BY <1>0, <1>6, <2>2 DEF UpdateStatus
  <2> QED
    BY <1>0, <2>1, <2>3, AppEndTyped, AppStepTyped
<1> QED
  BY <1>2, <1>3, <1>4, <1>5, <1>6, <1>7 DEF Discovering

-----------------------------------------------------------------------------
(***************************************************************************)
(* Caches and everybody else.                                              *)
(***************************************************************************)
LEMMA SyncTyped ==
    ASSUME TypeInv, Sync
    PROVE  TypeInv'
<1>1. UNCHANGED <<app, asm, hdpl, asmPc, asmJob, appPc, appJob, events>>
  BY DEF Sync, SyncApplications, SyncAssemblers, SyncDeployable, store, asmWorker, appWorker
<1>2. asmQueue' \subseteq App /\ appQueue' \subseteq App
  <2>0. asmQueue \subseteq App /\ appQueue \subseteq App
    BY DEF TypeInv, TypeOK
  <2>1. \A labels : \A new \in Told(labels) : new \subseteq App
    BY DEF Told, Matching
  <2>2. CASE SyncApplications
    BY <2>0, <2>2 DEF SyncApplications, asmWorker
  <2>3. CASE SyncAssemblers
    BY <2>0, <2>3 DEF SyncAssemblers, appWorker
  <2>4. ASSUME NEW d \in Deployable, SyncDeployable(d)
        PROVE  asmQueue' \subseteq App /\ appQueue' \subseteq App
    <3>1. asmQueue' = asmQueue
      BY <2>4 DEF SyncDeployable, asmWorker
    <3>2. CASE UNCHANGED appQueue
      BY <2>0, <3>1, <3>2
    <3>3. CASE ~UNCHANGED appQueue
      <4>1. PICK new \in IF hdpl[d].here THEN Told({hdpl[d].first}) ELSE Told(hdpl[d].labels),
                 old \in IF hdpl[d].here /\ cHdpl[d].here THEN Told(cHdpl[d].labels) ELSE {{}} :
                    appQueue' = appQueue \cup new \cup old
        BY <2>4, <3>3 DEF SyncDeployable
      <4>2. new \subseteq App /\ old \subseteq App
        BY <2>1, <4>1
      <4> QED
        BY <2>0, <3>1, <4>1, <4>2
    <3> QED
      BY <3>2, <3>3
  <2> QED
    BY <2>2, <2>3, <2>4 DEF Sync
<1>3. /\ cApp' = cApp \/ cApp' = app
      /\ cAsm' = cAsm \/ cAsm' = asm
      /\ cHdpl' \in [Deployable -> StoredDeployable]
  BY DEF Sync, SyncApplications, SyncAssemblers, SyncDeployable, TypeInv, TypeOK
<1>4. Control'
  BY <1>1, <1>3 DEF TypeInv, Control
<1>5. TypeOK'
  BY <1>1, <1>2, <1>3 DEF TypeInv, TypeOK
<1> QED
  BY <1>4, <1>5 DEF TypeInv

\* A write of somebody else is typed when what it changes is.
LEMMA WriteTyped ==
    ASSUME TypeInv, UNCHANGED <<caches, asmWorker, appWorker>>, events' \in Nat,
           app' \in [App -> Maybe(Application)], asm' \in [App -> Maybe(Assembler)],
           hdpl' \in [Deployable -> StoredDeployable],
           \A a \in App : asm'[a] # Absent => asm'[a].layout \subseteq Makeable
    PROVE  TypeInv'
BY DEF TypeInv, TypeOK, Control, caches, asmWorker, appWorker

LEMMA EnvironmentTyped ==
    ASSUME TypeInv, Environment
    PROVE  TypeInv'
<1>0. /\ app \in [App -> Maybe(Application)] /\ asm \in [App -> Maybe(Assembler)]
      /\ hdpl \in [Deployable -> StoredDeployable]
      /\ \A b \in App : asm[b] # Absent => asm[b].layout \subseteq Makeable
      /\ Stamp \in Nat
  BY DEF TypeInv, TypeOK, Control, Stamp
<1>1. events' \in Nat
  <2>1. PICK e : Happens(e)
    BY Zenon DEF Environment, ApplyApplication, ListAssembler, EditAssembler, DeleteAssembler,
                 DeleteApplication, CollectApplication, DeleteDeployable, ApiFault, Crash
  <2> QED
    BY <2>1 DEF Happens, TypeInv, TypeOK
<1>2. ASSUME NEW a \in App, ApplyApplication(a) \/ DeleteApplication(a) \/ CollectApplication(a)
      PROVE  TypeInv'
  <2>1. \A foreign \in BOOLEAN : Asking(Stamp, foreign) \in Application
    BY <1>0 DEF Application, Asking
  <2>2. app' \in [App -> Maybe(Application)]
    BY <1>0, <1>2, <2>1 DEF ApplyApplication, DeleteApplication, CollectApplication
  <2> QED
    BY <1>0, <1>1, <1>2, <2>2, WriteTyped
       DEF ApplyApplication, DeleteApplication, CollectApplication
<1>3. ASSUME NEW a \in App, ListAssembler(a)
      PROVE  TypeInv'
  <2>0. PICK l \in Lists[a] : asm' = [asm EXCEPT ![a] = [uid |-> Stamp, for |-> Absent, layout |-> l]]
    BY <1>3 DEF ListAssembler
  <2> DEFINE new == [uid |-> Stamp, for |-> Absent, layout |-> l]
  <2>1. new \in Assembler /\ new.layout \subseteq Makeable
    <3>1. \A p \in l : p \in Part /\ p[2] < Depth
      BY HybridAssumption
    <3> QED
      BY <1>0, <3>1, ShallowMakeable DEF Assembler
  <2>2. asm' = [asm EXCEPT ![a] = new] /\ UNCHANGED <<app, hdpl, caches, asmWorker, appWorker>>
    BY <1>3, <2>0 DEF ListAssembler
  <2>3. /\ asm' \in [App -> Maybe(Assembler)]
        /\ \A b \in App : asm'[b] # Absent => asm'[b].layout \subseteq Makeable
    BY <1>0, <2>1, <2>2
  <2> QED
    BY <1>0, <1>1, <2>2, <2>3, WriteTyped
<1>4. ASSUME NEW a \in App, EditAssembler(a)
      PROVE  TypeInv'
  <2>1. asm[a] \in Assembler /\ UNCHANGED <<app, hdpl, caches, asmWorker, appWorker>>
    BY <1>0, <1>4 DEF EditAssembler
  <2>2. PICK l \in SUBSET Wants[a] : asm' = [asm EXCEPT ![a].layout = l]
    BY <1>4 DEF EditAssembler
  <2>3. [asm[a] EXCEPT !.layout = l] \in Assembler /\ [asm[a] EXCEPT !.layout = l].layout \subseteq Makeable
    BY <2>1, WantedMakeable DEF Assembler
  <2>4. /\ asm' \in [App -> Maybe(Assembler)]
        /\ \A b \in App : asm'[b] # Absent => asm'[b].layout \subseteq Makeable
    BY <1>0, <2>2, <2>3
  <2> QED
    BY <1>0, <1>1, <2>1, <2>4, WriteTyped
<1>5. ASSUME NEW a \in App, DeleteAssembler(a)
      PROVE  TypeInv'
  <2>1. asm' = [asm EXCEPT ![a] = Absent] /\ UNCHANGED <<app, hdpl, caches, asmWorker, appWorker>>
    BY <1>5 DEF DeleteAssembler
  <2> QED
    BY <1>0, <1>1, <2>1, WriteTyped
<1>6. ASSUME NEW d \in Deployable, DeleteDeployable(d)
      PROVE  TypeInv'
  <2>1. hdpl' \in [Deployable -> StoredDeployable]
    BY <1>0, <1>6 DEF DeleteDeployable, StoredDeployable
  <2> QED
    BY <1>0, <1>1, <1>6, <2>1, WriteTyped DEF DeleteDeployable
<1>7. CASE ApiFault
  <2>1. UNCHANGED <<asm, hdpl, caches>>
    BY <1>7 DEF ApiFault
  <2>2. CASE /\ asmPc \in {"app", "update", "next", "write"} /\ AsmFail
             /\ UNCHANGED <<asmQueue, appWorker>>
             /\ \/ UNCHANGED app
                \/ /\ asmPc = "update" /\ app[asmJob.name] = asmJob.app /\ asmJob.app.status # {}
                   /\ app' = [app EXCEPT ![asmJob.name] = Listed(asmJob.app, {})]
    <3>1. app' \in [App -> Maybe(Application)]
      <4>1. asmPc = "update" => Listed(asmJob.app, {}) \in Application
        BY ListedFields DEF TypeInv, Control
      <4> QED
        BY <1>0, <2>2, <4>1
    <3> QED
      BY <1>0, <1>1, <2>1, <2>2, <3>1, AsmFailTyped, AsmStepTyped DEF TypeInv, TypeOK, Control
  <2>3. CASE asmPc = "conclude" /\ asmPc' = "idle" /\ asmJob' = NoAsmJob
             /\ asmQueue' = asmQueue \cup {asmJob.name} /\ UNCHANGED <<app, appWorker>>
    <3>1. NoAsmJob \in AsmJob /\ NoAsmJob.todo = {}
      BY DEF NoAsmJob, AsmJob
    <3> QED
      BY <1>0, <1>1, <2>1, <2>3, <3>1, AsmStepTyped DEF TypeInv, TypeOK, Control
  <2>4. CASE appPc \in {"look", "compose", "create", "annotate"} /\ AppFail /\ UNCHANGED <<app, asmWorker>>
    BY <1>0, <1>1, <2>1, <2>4, AppEndTyped, AppStepTyped
  <2> QED
    BY <1>7, <2>2, <2>3, <2>4, Zenon DEF ApiFault
<1>8. CASE Crash
  <2>1. /\ UNCHANGED <<app, asm, hdpl>> /\ cApp' = app /\ cAsm' = asm /\ cHdpl' = hdpl
        /\ asmQueue' \subseteq App /\ appQueue' \subseteq App
        /\ asmPc' = "idle" /\ asmJob' = NoAsmJob /\ appPc' = "idle" /\ appJob' = NoAppJob
    BY <1>8 DEF Crash, store
  <2>2. NoAsmJob \in AsmJob /\ NoAsmJob.todo = {} /\ NoAppJob \in AppJob
    BY DEF NoAsmJob, AsmJob, NoAppJob, AppJob
  <2> QED
    BY <1>0, <1>1, <2>1, <2>2 DEF TypeInv, TypeOK, Control
<1> QED
  BY <1>2, <1>3, <1>4, <1>5, <1>6, <1>7, <1>8 DEF Environment

\* What both workers hold is typed at every call, and a layout never lists what no Deployable
\* can be made for.
THEOREM TypeCorrect == Spec => []TypeInv
<1>1. Init => TypeInv
  <2> SUFFICES ASSUME Init PROVE TypeInv
    OBVIOUS
  <2>1. app \in [App -> Maybe(Application)] /\ cApp \in [App -> Maybe(Application)]
    BY DEF Init, Application, Asking
  <2>2. hdpl \in [Deployable -> StoredDeployable] /\ cHdpl \in [Deployable -> StoredDeployable]
    BY DEF Init, NoDeployable, StoredDeployable
  <2>3. NoAsmJob \in AsmJob /\ NoAsmJob.todo = {} /\ NoAppJob \in AppJob
    BY DEF NoAsmJob, AsmJob, NoAppJob, AppJob
  <2> QED
    BY <2>1, <2>2, <2>3 DEF Init, TypeInv, TypeOK, Control
<1>2. TypeInv /\ [Next]_vars => TypeInv'
  <2>1. TypeInv /\ UNCHANGED vars => TypeInv'
    BY DEF vars, store, caches, asmWorker, appWorker, TypeInv, TypeOK, Control
  <2> QED
    BY <2>1, StartAssemblerTyped, StartApplicationTyped, AssembleTyped, DiscoveringTyped,
       SyncTyped, EnvironmentTyped DEF Next
<1> QED
  BY <1>1, <1>2, PTL DEF Spec

\* Every object, cached copy and local variable is what its kind says
\* (applicationassembler_controller.go:100-178, application_controller.go:106-206).
THEOREM TypesOK == Spec => []TypeOK
BY TypeCorrect, PTL DEF TypeInv
-----------------------------------------------------------------------------
(***************************************************************************)
(* Two workers write one Application.                                      *)
(***************************************************************************)
\* What a write of the controllers keeps of an Application.
Kept(old, new) ==
    /\ new # Absent /\ new.uid = old.uid
    /\ old.selector = "own" => new.selector = "own"
    /\ old.mark = "done" => new.mark = "done"

LEMMA Presence ==
    ASSUME NEW x \in Application
    PROVE  x # Absent
BY AbsentAssumption, Zenon DEF Application, Maybe

\* Each writes fields of its own into the copy it holds.
LEMMA Rewritten ==
    ASSUME NEW x \in Application
    PROVE  /\ asmJob.inst \in Assembler => Kept(x, Adopted(x))
           /\ Kept(x, Completed(x))
           /\ \A parts \in SUBSET Part : Kept(x, Listed(x, parts))
BY AdoptedFields, CompletedFields, ListedFields, Presence DEF Kept

\* A controller creates an Application where none is, or writes one into the stored one.
LEMMA ApplicationWrites ==
    ASSUME TypeInv, [Next]_vars, events' = events, NEW a \in App, app[a] # Absent
    PROVE  Kept(app[a], app'[a])
<1>0. /\ app \in [App -> Maybe(Application)] /\ app[a] \in Application /\ events \in Nat
  BY DEF TypeInv, TypeOK
<1>1. CASE app' = app
  BY <1>1 DEF Kept
<1>2. CASE app' # app
  <2>1. CASE GetOrCreateApplication
    <3>1. /\ app[asmJob.name] = Absent
          /\ \E new : app' = [app EXCEPT ![asmJob.name] = new]
      BY <1>2, <2>1 DEF GetOrCreateApplication
    <3>2. app'[a] = app[a]
      BY <1>0, <3>1
    <3> QED
      BY <3>2 DEF Kept
  <2>2. CASE UpdateApplication
    <3>1. /\ app' = [app EXCEPT ![asmJob.name] = Adopted(asmJob.app)]
          /\ app[asmJob.name] = asmJob.app
      BY <1>2, <2>2 DEF UpdateApplication
    <3>2. asmJob.inst \in Assembler
      BY <2>2 DEF UpdateApplication, TypeInv, Control
    <3>3. app'[a] = app[a] \/ app'[a] = Adopted(app[a])
      BY <1>0, <3>1
    <3> QED
      BY <1>0, <3>2, <3>3, Rewritten DEF Kept
  <2>3. CASE UpdateDiscoveryAnnotations
    <3>1. /\ app' = [app EXCEPT ![appJob.name] = Completed(appJob.app)]
          /\ app[appJob.name] = appJob.app
      BY <1>2, <2>3 DEF UpdateDiscoveryAnnotations
    <3>2. app'[a] = app[a] \/ app'[a] = Completed(app[a])
      BY <1>0, <3>1
    <3> QED
      BY <1>0, <3>2, Rewritten DEF Kept
  <2>4. CASE UpdateStatus
    <3>1. /\ app' = [app EXCEPT ![appJob.name] = Listed(appJob.app, appJob.parts)]
          /\ app[appJob.name] = appJob.app
      BY <1>2, <2>4 DEF UpdateStatus
    <3>2. appJob.parts \in SUBSET Part
      BY DEF TypeInv, TypeOK, AppJob
    <3>3. app'[a] = app[a] \/ app'[a] = Listed(app[a], appJob.parts)
      BY <1>0, <3>1
    <3>4. Kept(app[a], Listed(app[a], appJob.parts))
      BY <1>0, <3>2, Rewritten
    <3> QED
      BY <3>3, <3>4 DEF Kept
  <2>5. ~Environment
    <3>1. ASSUME Environment
          PROVE  FALSE
      <4>1. PICK e : Happens(e)
        BY <3>1, Zenon DEF Environment, ApplyApplication, ListAssembler, EditAssembler,
               DeleteAssembler, DeleteApplication, CollectApplication, DeleteDeployable,
               ApiFault, Crash
      <4> QED
        BY <1>0, <4>1 DEF Happens
    <3> QED
      BY <3>1
  <2>6. \A b \in App : ~StartAssembler(b) /\ ~StartApplication(b)
    BY <1>2 DEF StartAssembler, StartApplication, store
  <2>7. ~(WriteDeployable \/ ConcludeReconcile \/ \E p \in Part : FromObject(p))
    BY <1>2 DEF WriteDeployable, ConcludeReconcile, FromObject, store
  <2>8. ~(LookForAssembler \/ ComposeAssembler \/ CreateAssembler \/ FetchComponents)
    BY <1>2 DEF LookForAssembler, ComposeAssembler, CreateAssembler, FetchComponents, store
  <2>9. ~Sync
    BY <1>2 DEF Sync, SyncApplications, SyncAssemblers, SyncDeployable, store
  <2> QED
    BY <1>2, <2>1, <2>2, <2>3, <2>4, <2>5, <2>6, <2>7, <2>8, <2>9
       DEF Next, Assemble, Discovering, vars, store
<1> QED
  BY <1>1, <1>2

\* Neither controller undoes what the other has written into an Application, nor writes into
\* the Application of a later user: an Update is accepted from a current copy only
\* (applicationassembler_generator.go:150-198, application_status.go:123-133, 252-258).
THEOREM WritesNeverLost == Spec => WritesKept
<1>1. TypeInv /\ [Next]_vars =>
         [events' = events =>
            \A a \in App : app[a] # Absent =>
              /\ app'[a] # Absent /\ app'[a].uid = app[a].uid
              /\ app[a].selector = "own" => app'[a].selector = "own"
              /\ app[a].mark = "done" => app'[a].mark = "done"]_vars
  BY ApplicationWrites DEF Kept
<1> QED
  BY <1>1, TypeCorrect, PTL DEF Spec, WritesKept
=============================================================================
