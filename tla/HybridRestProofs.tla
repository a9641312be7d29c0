--------------------------- MODULE HybridRestProofs ---------------------------
(***************************************************************************)
(* The two controllers have done their work whenever nothing is left to    *)
(* do: the safety halves of EventuallyTaken and EventuallyListed, for      *)
(* every value of the constants.                                           *)
(***************************************************************************)
EXTENDS HybridProofs

USE DEF Maybe

Gone == "gone" \in Event

-----------------------------------------------------------------------------
(***************************************************************************)
(* What a step does to an Application and to a Deployable.                 *)
(***************************************************************************)
\* The numbers of an Application, and of a Deployable.
LEMMA Numbered ==
    /\ \A x \in Application : x # Absent /\ x.uid \in Nat /\ x.rev \in Nat
    /\ \A x \in Assembler : x.uid \in Nat
    /\ \A x \in StoredDeployable : x.since \in Nat /\ x.here \in BOOLEAN
<1>1. \A x \in Application : x # Absent
  BY Presence
<1> QED
  BY <1>1 DEF Application, Assembler, StoredDeployable

\* What a user applies, or the assembler's controller makes.
Applied(a) ==
    /\ app[a] = Absent
    /\ app'[a] \in Application /\ app'[a].owner = Absent /\ app'[a].selector # "own"
    /\ \/ app'[a].uid = events' /\ events' = events + 1 /\ app'[a].selector = "user"
       \/ /\ app'[a].uid = events /\ GetOrCreateApplication /\ a = asmJob.name /\ cApp[a] = Absent

Removed(a) ==
    app'[a] = Absent /\ events' = events + 1 /\ Event \cap {"drop", "collect"} # {}

\* A worker writes the Application it holds, which is the stored one.
Updated(a) ==
    /\ app[a] \in Application
    /\ \/ UpdateApplication /\ a = asmJob.name /\ app[a] = asmJob.app /\ app'[a] = Adopted(app[a])
       \/ /\ UpdateDiscoveryAnnotations /\ a = appJob.name /\ app[a] = appJob.app
          /\ app'[a] = Completed(app[a])
       \/ UpdateStatus /\ a = appJob.name /\ app[a] = appJob.app /\ app'[a] = Listed(app[a], appJob.parts)
       \/ ApiFault /\ asmPc = "update" /\ AsmFail /\ a = asmJob.name /\ app'[a] = Listed(app[a], {})

\* The steps that change Applications.
LEMMA ApplicationSteps ==
    ASSUME TypeInv, Next
    PROVE  /\ events' = events \/ events' = events + 1
           /\ \/ UNCHANGED app
              \/ GetOrCreateApplication \/ UpdateApplication
              \/ UpdateDiscoveryAnnotations \/ UpdateStatus \/ ApiFault
              \/ \E a \in App : ApplyApplication(a) \/ DeleteApplication(a) \/ CollectApplication(a)
<1>1. CASE \E a \in App : StartAssembler(a) \/ StartApplication(a)
  BY <1>1 DEF StartAssembler, StartApplication, store
<1>2. CASE Assemble
  BY <1>2 DEF Assemble, GetOrCreateApplication, UpdateApplication, WriteDeployable,
              ConcludeReconcile, FromObject, store
<1>3. CASE Discovering
  BY <1>3 DEF Discovering, LookForAssembler, ComposeAssembler, CreateAssembler, UpdateDiscoveryAnnotations,
              FetchComponents, UpdateStatus, store
<1>4. CASE Sync
  BY <1>4 DEF Sync, SyncApplications, SyncAssemblers, SyncDeployable, store
<1>5. CASE Environment
  BY <1>5 DEF Environment, ApplyApplication, ListAssembler, EditAssembler, DeleteAssembler,
              DeleteApplication, CollectApplication, DeleteDeployable, ApiFault, Crash, Happens, store
<1> QED
  BY <1>1, <1>2, <1>3, <1>4, <1>5 DEF Next

LEMMA ApplicationMoves ==
    ASSUME TypeInv, Next, NEW a \in App
    PROVE  app'[a] = app[a] \/ Applied(a) \/ Removed(a) \/ Updated(a)
<1>0. app \in [App -> Maybe(Application)] /\ events \in Nat
  BY DEF TypeInv, TypeOK
<1>1. CASE UNCHANGED app
  BY <1>1
<1>2. CASE GetOrCreateApplication
  <2> DEFINE new == [uid |-> events, rev |-> 0, foreign |-> FALSE, owner |-> Absent,
                     mark |-> "off", selector |-> "nil", status |-> {}]
  <2>1. new \in Application /\ new.uid = events /\ new.owner = Absent /\ new.selector = "nil"
    BY <1>0 DEF Application
  <2>2. CASE cApp[asmJob.name] = Absent /\ app[asmJob.name] = Absent
    <3>1. app' = [app EXCEPT ![asmJob.name] = new]
      BY <1>2, <2>2 DEF GetOrCreateApplication
    <3>2. app'[a] = app[a] \/ (a = asmJob.name /\ app'[a] = new)
      BY <1>0, <3>1
    <3> HIDE DEF new
    <3> QED
      BY <1>2, <2>1, <2>2, <3>2 DEF Applied
  <2> QED
    BY <1>1, <1>2, <2>2 DEF GetOrCreateApplication
<1>3. CASE UpdateApplication
  <2>1. asmJob.app \in Application
    BY <1>3 DEF UpdateApplication, TypeInv, Control
  <2>2. CASE app[asmJob.name] = asmJob.app
    <3>1. app' = [app EXCEPT ![asmJob.name] = Adopted(asmJob.app)]
      BY <1>3, <2>2 DEF UpdateApplication
    <3>2. app'[a] = app[a] \/ (a = asmJob.name /\ app'[a] = Adopted(app[a]))
      BY <1>0, <2>2, <3>1
    <3> QED
      BY <1>3, <2>1, <2>2, <3>2 DEF Updated
  <2> QED
    BY <1>1, <1>3, <2>2 DEF UpdateApplication
<1>4. CASE UpdateDiscoveryAnnotations
  <2>1. appJob.app \in Application
    BY <1>4 DEF UpdateDiscoveryAnnotations, TypeInv, Control
  <2>2. CASE app[appJob.name] = appJob.app
    <3>1. app' = [app EXCEPT ![appJob.name] = Completed(appJob.app)]
      BY <1>4, <2>2 DEF UpdateDiscoveryAnnotations
    <3>2. app'[a] = app[a] \/ (a = appJob.name /\ app'[a] = Completed(app[a]))
      BY <1>0, <2>2, <3>1
    <3> QED
      BY <1>4, <2>1, <2>2, <3>2 DEF Updated
  <2> QED
    BY <1>1, <1>4, <2>2 DEF UpdateDiscoveryAnnotations
<1>5. CASE UpdateStatus
  <2>1. appJob.app \in Application
    BY <1>5 DEF UpdateStatus, TypeInv, Control
  <2>2. CASE app[appJob.name] = appJob.app
    <3>1. app' = [app EXCEPT ![appJob.name] = Listed(appJob.app, appJob.parts)]
      BY <1>5, <2>2 DEF UpdateStatus
    <3>2. app'[a] = app[a] \/ (a = appJob.name /\ app'[a] = Listed(app[a], appJob.parts))
      BY <1>0, <2>2, <3>1
    <3> QED
      BY <1>5, <2>1, <2>2, <3>2 DEF Updated
  <2> QED
    BY <1>1, <1>5, <2>2 DEF UpdateStatus
<1>6. CASE ApiFault
  <2>1. CASE /\ asmPc = "update" /\ AsmFail /\ app[asmJob.name] = asmJob.app
             /\ app' = [app EXCEPT ![asmJob.name] = Listed(asmJob.app, {})]
    <3>1. asmJob.app \in Application
      BY <2>1 DEF TypeInv, Control
    <3>2. app'[a] = app[a] \/ (a = asmJob.name /\ app'[a] = Listed(app[a], {}))
      BY <1>0, <2>1
    <3> QED
      BY <1>6, <2>1, <3>1, <3>2 DEF Updated
  <2> QED
    BY <1>1, <1>6, <2>1, Zenon DEF ApiFault
<1>7. ASSUME NEW b \in App, ApplyApplication(b)
      PROVE  app'[a] = app[a] \/ Applied(a)
  <2>0. PICK foreign \in BOOLEAN : app' = [app EXCEPT ![b] = Asking(Stamp, foreign)]
    BY <1>7 DEF ApplyApplication
  <2> DEFINE new == Asking(Stamp, foreign)
  <2>4. app[b] = Absent /\ events' = events + 1
    BY <1>7 DEF ApplyApplication, Happens
  <2>1. /\ app[b] = Absent /\ app' = [app EXCEPT ![b] = new]
        /\ events' = events + 1 /\ Stamp = events' /\ Stamp \in Nat
    <3>1. Stamp = events + 1
      BY DEF Stamp
    <3> QED
      BY <1>0, <2>0, <2>4, <3>1
  <2>2. new \in Application /\ new.uid = Stamp /\ new.owner = Absent /\ new.selector = "user"
    BY <2>1 DEF Application, Asking
  <2>3. app'[a] = app[a] \/ (a = b /\ app'[a] = new)
    BY <1>0, <2>1
  <2> HIDE DEF new
  <2> QED
    BY <2>1, <2>2, <2>3 DEF Applied
<1>8. ASSUME NEW b \in App, DeleteApplication(b) \/ CollectApplication(b)
      PROVE  app'[a] = app[a] \/ Removed(a)
  BY <1>0, <1>8 DEF DeleteApplication, CollectApplication, Happens, Removed
<1> QED
  BY <1>1, <1>2, <1>3, <1>4, <1>5, <1>6, <1>7, <1>8, ApplicationSteps

\* A write of a worker raises the resourceVersion, or changes nothing.
LEMMA UpdatedFields ==
    ASSUME TypeInv, NEW a \in App, Updated(a)
    PROVE  /\ app'[a] \in Application /\ app'[a].uid = app[a].uid
           /\ app'[a] = app[a] \/ app'[a].rev = app[a].rev + 1
           /\ app'[a].foreign = app[a].foreign
           /\ app'[a].selector = app[a].selector \/ app'[a].selector = "own"
           /\ ~UpdateApplication => /\ app'[a].owner = app[a].owner
                                    /\ app'[a].selector = app[a].selector
<1>1. CASE UpdateApplication /\ app'[a] = Adopted(app[a])
  <2>1. asmJob.inst \in Assembler
    BY <1>1 DEF UpdateApplication, TypeInv, Control
  <2> QED
    BY <1>1, <2>1, AdoptedFields DEF Updated
<1>2. CASE app'[a] = Completed(app[a])
  BY <1>2, CompletedFields DEF Updated
<1>3. ASSUME NEW parts \in SUBSET Part, app'[a] = Listed(app[a], parts)
      PROVE  /\ app'[a] \in Application /\ app'[a].uid = app[a].uid
             /\ app'[a].rev = app[a].rev + 1
             /\ app'[a].foreign = app[a].foreign
             /\ app'[a].selector = app[a].selector /\ app'[a].owner = app[a].owner
  BY <1>3, ListedFields DEF Updated
<1>4. appJob.parts \in SUBSET Part
  BY DEF TypeInv, TypeOK, AppJob
<1> QED
  BY <1>1, <1>2, <1>3, <1>4 DEF Updated

\* What becomes of a Deployable: a user deletes it, or the assembler's worker writes it.
Deleted(d) ==
    /\ Gone /\ hdpl[d].here /\ ~hdpl'[d].here /\ hdpl'[d].since = events' /\ events' = events + 1
    /\ hdpl'[d].labels = hdpl[d].labels
    /\ UNCHANGED <<app, cHdpl, cApp, cAsm, asmQueue, asmPc, asmJob, appQueue, appPc, appJob>>

Written(d) == WriteDeployable /\ d = DeployableOf(asmJob.at) /\ asmPc' = "next"

CarriedLabel == LabelOf(asmJob.name, asmJob.app)

Extended(d) ==
    /\ Written(d) /\ hdpl[d].here /\ hdpl'[d].here /\ hdpl'[d].since = hdpl[d].since
    /\ hdpl'[d].first = hdpl[d].first /\ hdpl'[d].labels = hdpl[d].labels \cup {CarriedLabel}

Made(d) ==
    /\ Written(d) /\ ~hdpl[d].here
    /\ hdpl'[d] = [here |-> TRUE, since |-> events, first |-> CarriedLabel, labels |-> {CarriedLabel}]

\* The steps that change Deployables.
LEMMA DeployableSteps ==
    ASSUME TypeInv, Next
    PROVE  UNCHANGED hdpl \/ WriteDeployable \/ \E d \in Deployable : DeleteDeployable(d)
<1>1. CASE \E a \in App : StartAssembler(a) \/ StartApplication(a)
  BY <1>1 DEF StartAssembler, StartApplication, store
<1>2. CASE Assemble
  BY <1>2 DEF Assemble, GetOrCreateApplication, UpdateApplication, ConcludeReconcile, FromObject, store
<1>3. CASE Discovering
  BY <1>3 DEF Discovering, LookForAssembler, ComposeAssembler, CreateAssembler, UpdateDiscoveryAnnotations,
              FetchComponents, UpdateStatus, store
<1>4. CASE Sync
  BY <1>4 DEF Sync, SyncApplications, SyncAssemblers, SyncDeployable, store
<1>5. CASE Environment
  BY <1>5 DEF Environment, ApplyApplication, ListAssembler, EditAssembler, DeleteAssembler,
              DeleteApplication, CollectApplication, ApiFault, Crash, store
<1> QED
  BY <1>1, <1>2, <1>3, <1>4, <1>5 DEF Next

LEMMA DeployableMoves ==
    ASSUME TypeInv, Next, NEW d \in Deployable
    PROVE  hdpl'[d] = hdpl[d] \/ Deleted(d) \/ Extended(d) \/ Made(d)
<1>0. hdpl \in [Deployable -> StoredDeployable] /\ events \in Nat
  BY DEF TypeInv, TypeOK
<1>1. CASE WriteDeployable
  <2> DEFINE e == DeployableOf(asmJob.at)
  <2>0. e \in Deployable
    BY <1>1 DEF WriteDeployable, TypeInv, Control, Makeable
  <2>1. CASE Current(e, asmJob.copy)
    <3>0. hdpl[e].here = asmJob.copy.here /\ asmPc' = "next"
      BY <1>1, <2>1 DEF Current, WriteDeployable
    <3>1. CASE asmJob.copy.here
      <4>1. hdpl' = [hdpl EXCEPT ![e].labels = @ \cup {CarriedLabel}]
        BY <1>1, <2>1, <3>1 DEF WriteDeployable, CarriedLabel
      <4>2. d = e => hdpl'[d] = [hdpl[d] EXCEPT !.labels = @ \cup {CarriedLabel}]
        BY <1>0, <2>0, <4>1
      <4>3. d # e => hdpl'[d] = hdpl[d]
        BY <1>0, <2>0, <4>1
      <4> QED
        BY <1>0, <1>1, <3>0, <3>1, <4>2, <4>3 DEF Extended, Written, StoredDeployable
    <3>2. CASE ~asmJob.copy.here
      <4> DEFINE new == [here |-> TRUE, since |-> events, first |-> CarriedLabel, labels |-> {CarriedLabel}]
      <4>1. hdpl' = [hdpl EXCEPT ![e] = new]
        BY <1>1, <2>1, <3>2 DEF WriteDeployable, CarriedLabel
      <4> HIDE DEF new
      <4>2. hdpl'[d] = hdpl[d] \/ (d = e /\ hdpl'[d] = new)
        BY <1>0, <2>0, <4>1
      <4> QED
        BY <1>1, <3>0, <3>2, <4>2 DEF Made, Written, new
    <3> QED
      BY <3>1, <3>2
  <2> QED
    BY <1>1, <2>1 DEF WriteDeployable
<1>2. ASSUME NEW e \in Deployable, DeleteDeployable(e)
      PROVE  hdpl'[d] = hdpl[d] \/ Deleted(d)
  <2>1. /\ hdpl[e].here /\ hdpl' = [hdpl EXCEPT ![e].here = FALSE, ![e].since = events + 1]
        /\ Gone /\ events' = events + 1
        /\ UNCHANGED <<app, cHdpl, cApp, cAsm, asmQueue, asmPc, asmJob, appQueue, appPc, appJob>>
    BY <1>2 DEF DeleteDeployable, Happens, Stamp, Gone, caches, asmWorker, appWorker
  <2>2. d # e => hdpl'[d] = hdpl[d]
    BY <1>0, <2>1
  <2>3. d = e => hdpl'[d] = [hdpl[d] EXCEPT !.here = FALSE, !.since = events + 1]
    BY <1>0, <2>1
  <2>4. d = e => /\ ~hdpl'[d].here /\ hdpl'[d].since = events + 1
                 /\ hdpl'[d].labels = hdpl[d].labels
    BY <1>0, <2>3 DEF StoredDeployable
  <2> QED
    BY <2>1, <2>2, <2>4 DEF Deleted
<1> QED
  BY <1>1, <1>2, DeployableSteps

\* Every step keeps the types.
LEMMA TypeKept ==
    ASSUME TypeInv, Next
    PROVE  TypeInv'
BY StartAssemblerTyped, StartApplicationTyped, AssembleTyped, DiscoveringTyped, SyncTyped,
   EnvironmentTyped DEF Next

-----------------------------------------------------------------------------
(***************************************************************************)
(* The assembler's worker.                                                 *)
(***************************************************************************)
\* A component has the Deployable it is owed.
Served(a, p) ==
    LET d == hdpl[DeployableOf(p)]
    IN \/ d.here /\ LabelOf(a, app[a]) \in d.labels
       \/ Alone /\ ~d.here /\ d.since > 0

Working(a) == asmPc # "idle" /\ asmJob.name = a

\* A reconcile works from the cached assembler, or its request is there again; it starts with
\* the whole layout, and what failed is known to have failed.
FreshInv ==
    /\ asmPc # "idle" => /\ asmJob.name \in asmQueue \/ asmJob.inst = cAsm[asmJob.name]
                         /\ asmJob.inst.layout \subseteq Makeable
    /\ asmPc \in {"app", "update"} => asmJob.todo = asmJob.inst.layout
    /\ asmPc = "conclude" => ~asmJob.ok

\* While the Application is the assembler's, it is the one that the reconcile took over, and the
\* components gone through are served.
CarriedInv ==
    asmPc \in {"next", "write"} /\ Owned(asmJob.name, asmJob.inst.uid) =>
        /\ app[asmJob.name].uid = asmJob.app.uid
        /\ \A p \in asmJob.inst.layout \ asmJob.todo : Served(asmJob.name, p)

\* An Application taken over by the cached assembler has all its components served, or a request.
ServedInv ==
    \A a \in App : cAsm[a] # Absent /\ Owned(a, cAsm[a].uid) /\ ~Working(a) =>
        a \in asmQueue \/ \A p \in cAsm[a].layout : Served(a, p)

TakenInv == FreshInv /\ (Alone \/ ~Gone => CarriedInv /\ ServedInv)

\* Only the assembler's Update gives an Application its owner.
LEMMA OwnedKept ==
    ASSUME TypeInv, Next, NEW a \in App, NEW uid \in Nat, Owned(a, uid)',
           ~(UpdateApplication /\ a = asmJob.name /\ asmPc' = "next")
    PROVE  Owned(a, uid) /\ app'[a].uid = app[a].uid
<1>1. CASE app'[a] = app[a]
  BY <1>1 DEF Owned
<1>2. CASE Applied(a) \/ Removed(a)
  BY <1>2, AbsentAssumption DEF Owned, Applied, Removed
<1>3. CASE Updated(a) /\ ~UpdateApplication
  BY <1>3, UpdatedFields, Numbered DEF Owned, Updated
<1>4. CASE Updated(a) /\ UpdateApplication /\ asmPc' # "next"
  <2>1. app' = app
    BY <1>4 DEF UpdateApplication
  <2> QED
    BY <2>1 DEF Owned
<1>5. Updated(a) /\ UpdateApplication => a = asmJob.name \/ app'[a] = app[a]
  <2>1. UpdateApplication => asmJob.app \in Application
    BY DEF UpdateApplication, TypeInv, Control
  <2>2. UpdateApplication =>
          \/ app' = app
          \/ app' = [app EXCEPT ![asmJob.name] = Adopted(asmJob.app)]
    BY DEF UpdateApplication
  <2> QED
    BY <2>2 DEF TypeInv, TypeOK
<1> QED
  BY <1>1, <1>2, <1>3, <1>4, <1>5, ApplicationMoves

\* What is served stays served, if the one who may make its Deployable again gives the label.
LEMMA ServedKept ==
    ASSUME TypeInv, Next, NEW a \in App, NEW p \in Makeable, Served(a, p),
           app'[a].uid = app[a].uid,
           Alone \/ ~Gone,
           WriteDeployable /\ Alone => a = asmJob.name /\ app[a].uid = asmJob.app.uid
    PROVE  Served(a, p)'
<1> DEFINE d == DeployableOf(p)
<1>0. d \in Deployable /\ LabelOf(a, app'[a]) = LabelOf(a, app[a]) /\ events \in Nat
  BY DEF Makeable, LabelOf, TypeInv, TypeOK
<1>1. CASE hdpl'[d] = hdpl[d]
  BY <1>0, <1>1 DEF Served
<1>2. CASE Deleted(d)
  BY <1>0, <1>2 DEF Served, Deleted
<1>3. CASE Extended(d)
  BY <1>0, <1>3 DEF Served, Extended
<1>4. CASE Made(d)
  <2>1. Alone
    BY <1>4 DEF Served, Made
  <2>2. CarriedLabel = LabelOf(a, app[a])
    BY <1>4, <2>1 DEF Made, Written, CarriedLabel, LabelOf
  <2> QED
    BY <1>0, <1>4, <2>2 DEF Served, Made
<1> QED
  BY <1>0, <1>1, <1>2, <1>3, <1>4, DeployableMoves

\* What a step does to the reconcile in progress.
Elsewhere == UNCHANGED <<cAsm, asmQueue, asmPc, asmJob>> /\ ~WriteDeployable /\ ~UpdateApplication

Failing == UNCHANGED <<hdpl, cAsm, asmQueue>> /\ asmPc # "idle" /\ AsmFail

Going == /\ UNCHANGED <<hdpl, cAsm, asmQueue>>
         /\ asmPc' # "conclude" /\ asmPc # "idle" /\ asmPc' # "idle"
         /\ asmJob'.name = asmJob.name /\ asmJob'.inst = asmJob.inst /\ asmJob'.todo = asmJob.todo
         /\ \/ GetOrCreateApplication /\ asmPc' = "update"
            \/ UpdateApplication /\ asmPc' = "next" /\ app[asmJob.name] = asmJob.app
            \/ asmPc = "next" /\ asmPc' = "write" /\ asmJob'.app = asmJob.app /\ UNCHANGED app

Writing == /\ WriteDeployable /\ asmPc' = "next" /\ UNCHANGED <<app, cAsm, asmQueue>>
           /\ asmJob'.name = asmJob.name /\ asmJob'.inst = asmJob.inst /\ asmJob'.app = asmJob.app
           /\ asmJob'.todo = asmJob.todo \ {asmJob.at}
           /\ LET d == hdpl'[DeployableOf(asmJob.at)]
              IN d.here /\ CarriedLabel \in d.labels

Ending == /\ UNCHANGED <<app, hdpl, cAsm>> /\ asmPc' = "idle"
          /\ \/ asmPc = "conclude" /\ asmQueue' = asmQueue \cup {asmJob.name}
             \/ ConcludeReconcile

LEMMA AssembleSteps ==
    ASSUME TypeInv, Assemble
    PROVE  Failing \/ Going \/ Writing \/ Ending
<1>0. asmJob \in AsmJob /\ hdpl \in [Deployable -> StoredDeployable]
  BY DEF TypeInv, TypeOK
<1>1. CASE GetOrCreateApplication
  BY <1>0, <1>1 DEF GetOrCreateApplication, Failing, Going, AsmJob, caches
<1>2. CASE UpdateApplication
  BY <1>0, <1>2 DEF UpdateApplication, Failing, Going, AsmJob, caches
<1>3. ASSUME NEW p \in Part, FromObject(p)
      PROVE  Failing \/ Going
  BY <1>0, <1>3 DEF FromObject, Failing, Going, AsmJob, caches, store
<1>4. CASE WriteDeployable
  <2> DEFINE d == DeployableOf(asmJob.at)
  <2>0. d \in Deployable /\ UNCHANGED <<app, cAsm, asmQueue>> /\ asmPc # "idle"
    BY <1>4 DEF WriteDeployable, TypeInv, Control, Makeable, caches
  <2>1. CASE Current(d, asmJob.copy)
    <3>1. /\ asmPc' = "next"
          /\ asmJob' = [asmJob EXCEPT !.todo = @ \ {asmJob.at}, !.at = Absent, !.copy = Absent]
      BY <1>4, <2>1 DEF WriteDeployable
    <3>2. /\ asmJob'.name = asmJob.name /\ asmJob'.inst = asmJob.inst /\ asmJob'.app = asmJob.app
          /\ asmJob'.todo = asmJob.todo \ {asmJob.at}
      BY <1>0, <3>1 DEF AsmJob
    <3>3. CASE asmJob.copy.here
      <4>1. hdpl' = [hdpl EXCEPT ![d].labels = @ \cup {CarriedLabel}]
        BY <1>4, <2>1, <3>3 DEF WriteDeployable, CarriedLabel
      <4>2. hdpl'[d] = [hdpl[d] EXCEPT !.labels = @ \cup {CarriedLabel}]
        BY <1>0, <2>0, <4>1
      <4>3. hdpl'[d].here = hdpl[d].here /\ CarriedLabel \in hdpl'[d].labels
        BY <1>0, <2>0, <4>2 DEF StoredDeployable
      <4> QED
        BY <1>4, <2>0, <2>1, <3>1, <3>2, <3>3, <4>3 DEF Writing, Current
    <3>4. CASE ~asmJob.copy.here
      <4> DEFINE new == [here |-> TRUE, since |-> events, first |-> CarriedLabel,
                         labels |-> {CarriedLabel}]
      <4>1. hdpl' = [hdpl EXCEPT ![d] = new]
        BY <1>4, <2>1, <3>4 DEF WriteDeployable, CarriedLabel
      <4>2. new.here /\ CarriedLabel \in new.labels
        OBVIOUS
      <4> HIDE DEF new
      <4>3. hdpl'[d] = new
        BY <1>0, <2>0, <4>1
      <4> QED
        BY <1>4, <2>0, <3>1, <3>2, <4>2, <4>3 DEF Writing
    <3> QED
      BY <3>3, <3>4
  <2>2. CASE ~Current(d, asmJob.copy)
    BY <1>4, <2>0, <2>2 DEF WriteDeployable, Failing, AsmFail
  <2> QED
    BY <2>1, <2>2
<1>5. CASE ConcludeReconcile
  BY <1>5 DEF ConcludeReconcile, Ending, store, caches
<1> QED
  BY <1>1, <1>2, <1>3, <1>4, <1>5 DEF Assemble

LEMMA ReconcileSteps ==
    ASSUME TypeInv, Next
    PROVE  Elsewhere \/ Failing \/ Going \/ Writing \/ Ending \/ SyncAssemblers \/ Crash
              \/ \E a \in App : StartAssembler(a)
<1>1. CASE \E a \in App : StartAssembler(a)
  BY <1>1
<1>2. CASE Assemble
  BY <1>2, AssembleSteps
<1>3. CASE \E a \in App : StartApplication(a)
  <2>1. UNCHANGED <<app, hdpl, cAsm, asmQueue, asmPc, asmJob>>
    BY <1>3 DEF StartApplication, store, caches, asmWorker
  <2>2. ~UpdateApplication /\ ~WriteDeployable
    BY <2>1 DEF UpdateApplication, WriteDeployable, AsmFail
  <2> QED
    BY <2>1, <2>2 DEF Elsewhere
<1>4. CASE Discovering
  <2>1. UNCHANGED <<cAsm, asmQueue, asmPc, asmJob>>
    BY <1>4 DEF Discovering, LookForAssembler, ComposeAssembler, CreateAssembler, UpdateDiscoveryAnnotations,
              FetchComponents, UpdateStatus, caches, asmWorker
  <2>2. ~UpdateApplication /\ ~WriteDeployable
    BY <2>1 DEF UpdateApplication, WriteDeployable, AsmFail
  <2> QED
    BY <2>1, <2>2 DEF Elsewhere
<1>5. CASE Sync
  <2>1. SyncAssemblers \/ UNCHANGED <<cAsm, asmQueue, asmPc, asmJob>>
    BY <1>5 DEF Sync, SyncApplications, SyncDeployable, asmWorker
  <2>2. UNCHANGED <<asmPc, asmJob>> => ~UpdateApplication /\ ~WriteDeployable
    BY DEF UpdateApplication, WriteDeployable, AsmFail
  <2> QED
    BY <2>1, <2>2 DEF Elsewhere
<1>6. CASE Environment /\ ~ApiFault
  <2>1. Crash \/ UNCHANGED <<cAsm, asmQueue, asmPc, asmJob>>
    BY <1>6 DEF Environment, ApplyApplication, ListAssembler, EditAssembler, DeleteAssembler,
         DeleteApplication, CollectApplication, DeleteDeployable, caches, asmWorker
  <2>2. UNCHANGED <<asmPc, asmJob>> => ~UpdateApplication /\ ~WriteDeployable
    BY DEF UpdateApplication, WriteDeployable, AsmFail
  <2> QED
    BY <2>1, <2>2 DEF Elsewhere
<1>7. CASE ApiFault
  <2>0. UNCHANGED <<asm, hdpl, cAsm>>
    BY <1>7 DEF ApiFault, caches
  <2>1. CASE AsmFail /\ UNCHANGED asmQueue /\ asmPc # "idle"
    BY <2>0, <2>1 DEF Failing
  <2>2. CASE /\ asmPc = "conclude" /\ asmPc' = "idle" /\ UNCHANGED app
             /\ asmQueue' = asmQueue \cup {asmJob.name}
    BY <2>0, <2>2 DEF Ending
  <2>3. CASE UNCHANGED asmWorker
    <3>1. ~UpdateApplication /\ ~WriteDeployable
      BY <2>3 DEF UpdateApplication, WriteDeployable, AsmFail, asmWorker
    <3> QED
      BY <2>0, <2>3, <3>1 DEF Elsewhere, asmWorker
  <2> QED
    BY <1>7, <2>1, <2>2, <2>3 DEF ApiFault
<1> QED
  BY <1>1, <1>2, <1>3, <1>4, <1>5, <1>6, <1>7 DEF Next

\* What the assembler's worker and its caches hold.
LEMMA WorkerTyped ==
    ASSUME TypeInv
    PROVE  /\ \A a \in App : cAsm[a] # Absent => /\ cAsm[a] \in Assembler /\ cAsm[a].uid \in Nat
                                                 /\ cAsm[a].layout \subseteq Makeable
           /\ asmPc # "idle" => asmJob.name \in App /\ asmJob.inst \in Assembler /\ asmJob.inst.uid \in Nat
           /\ asmPc \in {"update", "next", "write"} => asmJob.app \in Application
           /\ asmJob \in AsmJob /\ asmQueue \subseteq App
BY Numbered DEF TypeInv, TypeOK, Control

\* FreshInv is inductive.
LEMMA FreshKept ==
    ASSUME TypeInv, FreshInv, Next
    PROVE  FreshInv'
<1>0. asmJob \in AsmJob
  BY WorkerTyped
<1>1. CASE Elsewhere
  BY <1>1 DEF Elsewhere, FreshInv
<1>2. CASE Failing
  BY <1>0, <1>2 DEF Failing, AsmFail, FreshInv, AsmJob
<1>3. CASE Going
  BY <1>3 DEF Going, GetOrCreateApplication, FreshInv
<1>4. CASE Writing
  BY <1>4 DEF Writing, WriteDeployable, FreshInv
<1>5. CASE Ending
  BY <1>5 DEF Ending, FreshInv
<1>6. CASE SyncAssemblers
  BY <1>6, WorkerTyped DEF SyncAssemblers, FreshInv
<1>7. CASE Crash
  BY <1>7 DEF Crash, FreshInv
<1>8. ASSUME NEW a \in App, StartAssembler(a)
      PROVE  FreshInv'
  <2>1. CASE cAsm[a] = Absent
    BY <1>8, <2>1 DEF StartAssembler, FreshInv
  <2>2. CASE cAsm[a] # Absent
    <3>1. /\ asmPc' = "app" /\ UNCHANGED cAsm
          /\ asmJob' = [NoAsmJob EXCEPT !.name = a, !.inst = cAsm[a], !.todo = cAsm[a].layout]
      BY <1>8, <2>2 DEF StartAssembler, caches
    <3>2. asmJob'.name = a /\ asmJob'.inst = cAsm[a] /\ asmJob'.todo = cAsm[a].layout
      BY <3>1 DEF NoAsmJob
    <3> QED
      BY <2>2, <3>1, <3>2, WorkerTyped DEF FreshInv
  <2> QED
    BY <2>1, <2>2
<1> QED
  BY <1>1, <1>2, <1>3, <1>4, <1>5, <1>6, <1>7, <1>8, ReconcileSteps

\* Where the worker is not working, what is served stays served.
LEMMA ServedElsewhere ==
    ASSUME TypeInv, ServedInv, Alone \/ ~Gone, Next,
           NEW a \in App, ~Working(a), cAsm'[a] = cAsm[a], cAsm[a] # Absent,
           Owned(a, cAsm[a].uid)', a \notin asmQueue
    PROVE  \A p \in cAsm[a].layout : Served(a, p)'
<1>1. ~(UpdateApplication /\ a = asmJob.name)
  BY DEF Working, UpdateApplication
<1>2. WriteDeployable /\ Alone => FALSE
  BY WorkerTyped DEF Working, WriteDeployable, Alone
<1>3. cAsm[a].uid \in Nat /\ cAsm[a].layout \subseteq Makeable
  BY WorkerTyped
<1>4. Owned(a, cAsm[a].uid) /\ app'[a].uid = app[a].uid
  BY <1>1, <1>3, OwnedKept
<1>5. ASSUME NEW p \in cAsm[a].layout
      PROVE  Served(a, p)'
  <2>1. Served(a, p)
    BY <1>4 DEF ServedInv
  <2> QED
    BY <1>2, <1>3, <1>4, <2>1, ServedKept
<1> QED
  BY <1>5

\* What the reconcile has served stays served, as long as the Application is the assembler's.
LEMMA ServedCarried ==
    ASSUME TypeInv, FreshInv, CarriedInv, Alone \/ ~Gone, Next,
           asmPc \in {"next", "write"}, asmJob'.name = asmJob.name, asmJob'.inst = asmJob.inst,
           asmJob'.app = asmJob.app, Owned(asmJob.name, asmJob.inst.uid)'
    PROVE  /\ app'[asmJob.name].uid = asmJob.app.uid
           /\ \A p \in asmJob.inst.layout \ asmJob.todo : Served(asmJob.name, p)'
<1> DEFINE a == asmJob.name
<1>1. a \in App /\ asmJob.inst.uid \in Nat /\ asmJob.inst.layout \subseteq Makeable
  BY WorkerTyped DEF FreshInv
<1>2. ~UpdateApplication
  BY DEF UpdateApplication
<1>3. Owned(a, asmJob.inst.uid) /\ app'[a].uid = app[a].uid
  BY <1>1, <1>2, OwnedKept
<1>4. app[a].uid = asmJob.app.uid
  BY <1>3 DEF CarriedInv
<1>5. ASSUME NEW p \in asmJob.inst.layout \ asmJob.todo
      PROVE  Served(a, p)'
  <2>1. Served(a, p)
    BY <1>3, <1>5 DEF CarriedInv
  <2> QED
    BY <1>1, <1>3, <1>4, <1>5, <2>1, ServedKept
<1> QED
  BY <1>3, <1>4, <1>5

LEMMA CarriedKept ==
    ASSUME TypeInv, FreshInv, CarriedInv, Alone \/ ~Gone, Next
    PROVE  CarriedInv'
<1> SUFFICES ASSUME asmPc' \in {"next", "write"}, Owned(asmJob.name, asmJob.inst.uid)'
             PROVE  /\ app'[asmJob'.name].uid = asmJob'.app.uid
                    /\ \A p \in asmJob'.inst.layout \ asmJob'.todo : Served(asmJob.name, p)'
  BY DEF CarriedInv
<1>0. asmJob \in AsmJob
  BY WorkerTyped
<1>1. CASE Elsewhere \/ SyncAssemblers
  <2>1. UNCHANGED <<asmPc, asmJob>>
    BY <1>1 DEF Elsewhere, SyncAssemblers
  <2> QED
    BY <2>1, ServedCarried
<1>2. CASE Going
  <2>1. CASE UpdateApplication /\ asmPc' = "next" /\ app[asmJob.name] = asmJob.app
    <3>1. /\ asmPc = "update" /\ app' = [app EXCEPT ![asmJob.name] = Adopted(asmJob.app)]
          /\ asmJob' = [asmJob EXCEPT !.app = Adopted(asmJob.app)]
      BY <2>1 DEF UpdateApplication, AsmFail
    <3>2. asmJob'.app = Adopted(asmJob.app) /\ asmJob'.name = asmJob.name
      BY <1>0, <3>1 DEF AsmJob
    <3>3. app'[asmJob.name] = Adopted(asmJob.app)
      BY <3>1, WorkerTyped DEF TypeInv, TypeOK
    <3>4. asmJob'.inst.layout \ asmJob'.todo = {}
      BY <1>2, <3>1 DEF Going, FreshInv
    <3> QED
      BY <3>2, <3>3, <3>4
  <2>2. CASE asmPc = "next" /\ asmPc' = "write" /\ asmJob'.app = asmJob.app /\ UNCHANGED app
    BY <1>2, <2>2, ServedCarried DEF Going
  <2> QED
    BY <1>2, <2>1, <2>2 DEF Going
<1>3. CASE Writing
  <2>1. asmPc = "write" /\ asmJob.at \in Makeable
    BY <1>3 DEF Writing, WriteDeployable, TypeInv, Control
  <2>2. /\ app'[asmJob.name].uid = asmJob.app.uid
        /\ \A p \in asmJob.inst.layout \ asmJob.todo : Served(asmJob.name, p)'
    BY <1>3, <2>1, ServedCarried DEF Writing
  <2>3. ASSUME NEW p, p = asmJob.at
        PROVE  Served(asmJob.name, p)'
    <3>0. asmJob'.name = asmJob.name
      BY <1>3 DEF Writing
    <3>1. LabelOf(asmJob'.name, app'[asmJob'.name]) = CarriedLabel
      BY <2>2, <3>0 DEF LabelOf, CarriedLabel
    <3> QED
      BY <1>3, <2>3, <3>1 DEF Writing, Served
  <2> QED
    BY <1>3, <2>2, <2>3 DEF Writing
<1>4. CASE Failing \/ Ending \/ Crash
  BY <1>4 DEF Failing, AsmFail, Ending, ConcludeReconcile, Crash
<1>5. ASSUME NEW a \in App, StartAssembler(a)
      PROVE  FALSE
  BY <1>5 DEF StartAssembler
<1> QED
  BY <1>1, <1>2, <1>3, <1>4, <1>5, ReconcileSteps

LEMMA ServedInvKept ==
    ASSUME TypeInv, FreshInv, CarriedInv, ServedInv, Alone \/ ~Gone, Next
    PROVE  ServedInv'
<1> SUFFICES ASSUME NEW a \in App, cAsm'[a] # Absent, Owned(a, cAsm[a].uid)', ~Working(a)',
                    a \notin asmQueue'
             PROVE  \A p \in cAsm'[a].layout : Served(a, p)'
  BY DEF ServedInv
<1>1. CASE cAsm'[a] = cAsm[a] /\ ~Working(a) /\ a \notin asmQueue
  BY <1>1, ServedElsewhere
<1>2. CASE Elsewhere
  BY <1>1, <1>2 DEF Elsewhere, Working
<1>3. CASE Failing \/ Going \/ Writing
  <2>1. asmJob'.name = asmJob.name /\ asmPc' # "idle" /\ UNCHANGED <<cAsm, asmQueue>>
    BY <1>3, AsmFailTyped DEF Failing, Going, Writing, AsmFail
  <2> QED
    BY <1>1, <2>1 DEF Working
<1>4. CASE Ending
  <2>1. UNCHANGED <<app, hdpl, cAsm>> /\ a \notin asmQueue
    BY <1>4 DEF Ending, ConcludeReconcile
  <2>2. CASE Working(a)
    <3>1. asmPc = "next" /\ asmJob.todo = {}
      BY <1>4, <2>2 DEF Ending, ConcludeReconcile, Working, FreshInv
    <3>2. asmJob.inst = cAsm[a]
      BY <2>1, <2>2 DEF Working, FreshInv
    <3>3. \A p \in cAsm[a].layout : Served(a, p)
      BY <2>1, <2>2, <3>1, <3>2 DEF CarriedInv, Owned, Working
    <3> QED
      BY <2>1, <3>3 DEF Served
  <2> QED
    BY <1>1, <2>1, <2>2
<1>5. CASE SyncAssemblers
  BY <1>1, <1>5 DEF SyncAssemblers, Working
<1>6. CASE Crash
  BY <1>6 DEF Crash
<1>7. ASSUME NEW b \in App, StartAssembler(b)
      PROVE  \A p \in cAsm'[a].layout : Served(a, p)'
  <2>1. UNCHANGED cAsm /\ asmPc = "idle" /\ asmQueue' = asmQueue \ {b}
    BY <1>7 DEF StartAssembler, caches
  <2>2. a # b
    <3>1. cAsm[b] # Absent => asmPc' = "app" /\ asmJob'.name = b
      BY <1>7 DEF StartAssembler, NoAsmJob
    <3> QED
      BY <2>1, <3>1 DEF Working
  <2> QED
    BY <1>1, <2>1, <2>2 DEF Working
<1> QED
  BY <1>2, <1>3, <1>4, <1>5, <1>6, <1>7, ReconcileSteps

\* TakenInv holds in every state.
THEOREM TakenSettled == Spec => []TakenInv
<1>1. Init => TakenInv
  BY DEF Init, Asking, Owned, TakenInv, FreshInv, CarriedInv, ServedInv
<1>2. TypeInv /\ TakenInv /\ [Next]_vars => TakenInv'
  <2>1. TypeInv /\ TakenInv /\ Next => TakenInv'
    BY FreshKept, CarriedKept, ServedInvKept DEF TakenInv
  <2>2. TakenInv /\ UNCHANGED vars => TakenInv'
    BY DEF vars, store, caches, asmWorker, appWorker, TakenInv, FreshInv, CarriedInv, ServedInv,
           Owned, Served, Working
  <2> QED
    BY <2>1, <2>2
<1> QED
  BY <1>1, <1>2, TypeCorrect, PTL DEF Spec

\* Once nothing brings the assembler's worker back to an assembler, each component of the layout
\* has the Deployable of the Application taken over (applicationassembler_controller.go:100-178,
\* applicationassembler_generator.go:77-110).
THEOREM RestTaken == Spec => []TakenAtRest
<1>1. TypeInv /\ TakenInv => TakenAtRest
  <2> SUFFICES ASSUME TypeInv, TakenInv, Alone \/ ~Gone, NEW a \in App,
                      asm[a] # Absent, Owned(a, asm[a].uid),
                      a \notin asmQueue, cAsm[a] = asm[a], asmPc = "idle" \/ asmJob.name # a,
                      NEW p \in asm[a].layout
               PROVE  LET d == hdpl[DeployableOf(p)]
                      IN IF d.here THEN LabelOf(a, app[a]) \in d.labels ELSE d.since > 0
    BY Zenon DEF TakenAtRest, Supplied, Gone
  <2>1. Served(a, p)
    BY DEF TakenInv, ServedInv, Working
  <2> QED
    BY <2>1 DEF Served
<1> QED
  BY <1>1, TypeCorrect, TakenSettled, PTL
-----------------------------------------------------------------------------
(***************************************************************************)
(* What the application's worker is told, and what it holds.               *)
(***************************************************************************)
\* Copy c is of this Application at an earlier revision, or of one of that name before it.
Older(a, c) ==
    c # Absent =>
        /\ c.uid <= events
        /\ IF app[a] = Absent THEN c.uid < events
           ELSE c.uid <= app[a].uid /\ (c.uid = app[a].uid => c.rev <= app[a].rev)

\* No copy is newer than the Application: one that differs will never be what is stored again.
RevisionInv ==
    /\ \A a \in App : /\ app[a] # Absent => app[a].uid <= events
                      /\ Older(a, cApp[a])
    /\ appPc # "idle" => Older(appJob.name, appJob.app)
    /\ asmPc \in {"update", "next", "write"} => asmJob.app.uid <= events

\* The same of Deployables, which are told apart by their stamp.
StampInv ==
    \A d \in Deployable :
        /\ cHdpl[d].since <= hdpl[d].since /\ hdpl[d].since <= events
        /\ cHdpl[d].here /\ ~hdpl[d].here => cHdpl[d].since < hdpl[d].since

\* A Deployable has the label it was made with, and no label is given before its Application
\* was taken over.
LabelInv ==
    /\ \A d \in Deployable :
          /\ hdpl[d].here => hdpl[d].first \in hdpl[d].labels
          /\ ~Gone /\ ~hdpl[d].here => hdpl[d].labels = {}
          /\ \A l \in hdpl[d].labels : l[2] <= events
    /\ asmPc \in {"next", "write"} /\ app[asmJob.name] # Absent
       /\ app[asmJob.name].uid # asmJob.app.uid =>
          \A d \in Deployable : LabelOf(asmJob.name, app[asmJob.name]) \notin hdpl[d].labels

\* Where no Application is ever deleted, none is made without a selector.
SelectorInv ==
    Event \cap {"drop", "collect"} = {} =>
        \A a \in App : /\ app[a] # Absent /\ app[a].selector # "nil"
                       /\ cApp[a] # Absent /\ cApp[a].selector # "nil"

\* The Application is gone, or the worker will come back to it.
Renewed(a) == a \in appQueue \/ cApp[a] # app[a] \/ app[a] = Absent

\* The worker holds the Application as it is, or will come back.
HeldInv == appPc # "idle" => Renewed(appJob.name) \/ app[appJob.name] = appJob.app

\* The mapper tells of a Deployable the one Application whose label it has.
Unambiguous == Alone \/ Event \cap {"gone", "drop", "collect"} = {}

RightInv ==
    \A a \in App : appPc = "idle" \/ appJob.name # a =>
        Renewed(a) \/ app[a].selector # "own" \/ Right(a)

ListedInv ==
    RevisionInv /\ StampInv /\ LabelInv /\ SelectorInv /\ HeldInv /\ (Unambiguous => RightInv)

\* The Applications stored, cached and held.
LEMMA CopiesTyped ==
    ASSUME TypeInv
    PROVE  /\ \A a \in App : /\ app[a] \in Maybe(Application)
                             /\ app[a] # Absent => app[a].uid \in Nat /\ app[a].rev \in Nat
                             /\ cApp[a] \in Maybe(Application)
           /\ appPc # "idle" => appJob.name \in App /\ appJob.app \in Application
           /\ events \in Nat
BY Numbered DEF TypeInv, TypeOK, Control

\* A copy stays older whatever happens to the Application.
LEMMA OlderKept ==
    ASSUME TypeInv, Next, NEW a \in App, NEW c \in Maybe(Application),
           app[a] # Absent => app[a].uid <= events, Older(a, c)
    PROVE  Older(a, c)'
<1> SUFFICES ASSUME c # Absent
             PROVE  /\ c.uid <= events'
                    /\ IF app'[a] = Absent THEN c.uid < events'
                       ELSE c.uid <= app'[a].uid /\ (c.uid = app'[a].uid => c.rev <= app'[a].rev)
  BY DEF Older
<1>0. /\ c.uid \in Nat /\ c.rev \in Nat /\ events \in Nat
      /\ events' = events \/ events' = events + 1
      /\ app[a] # Absent => app[a].uid \in Nat /\ app[a].rev \in Nat
  BY Numbered, CopiesTyped, ApplicationSteps
<1>1. CASE app'[a] = app[a]
  BY <1>0, <1>1 DEF Older
<1>2. CASE Applied(a)
  <2>1. app'[a] # Absent /\ app'[a].uid \in Nat /\ app'[a].uid >= events
    BY <1>0, <1>2, Numbered DEF Applied
  <2>2. c.uid < events
    BY <1>2 DEF Older, Applied
  <2> QED
    BY <1>0, <2>1, <2>2
<1>3. CASE Removed(a)
  BY <1>0, <1>3 DEF Older, Removed
<1>4. CASE Updated(a)
  <2>1. app[a] # Absent /\ app'[a] # Absent /\ app'[a].uid = app[a].uid /\ app'[a].rev \in Nat
        /\ (app'[a] = app[a] \/ app'[a].rev = app[a].rev + 1)
    BY <1>4, UpdatedFields, Numbered DEF Updated
  <2> QED
    BY <1>0, <2>1 DEF Older
<1> QED
  BY <1>1, <1>2, <1>3, <1>4, ApplicationMoves

\* An Application that changes becomes none of its older copies.
LEMMA NeverAgain ==
    ASSUME TypeInv, Next, NEW a \in App, NEW c \in Maybe(Application), Older(a, c),
           app'[a] # app[a], app'[a] # Absent
    PROVE  app'[a] # c
<1> SUFFICES ASSUME c # Absent
             PROVE  app'[a].uid # c.uid \/ app'[a].rev # c.rev
  OBVIOUS
<1>0. c.uid \in Nat /\ c.rev \in Nat /\ events \in Nat
  BY Numbered, CopiesTyped
<1>1. CASE Applied(a)
  <2>1. app'[a].uid \in Nat /\ app'[a].uid >= events
    BY <1>0, <1>1, Numbered DEF Applied
  <2>2. c.uid < events
    BY <1>1 DEF Older, Applied
  <2> QED
    BY <1>0, <2>1, <2>2
<1>2. CASE Updated(a)
  <2>1. app[a] # Absent /\ app[a].rev \in Nat /\ app[a].uid \in Nat
        /\ app'[a].uid = app[a].uid /\ app'[a].rev = app[a].rev + 1
    BY <1>2, UpdatedFields, Numbered DEF Updated
  <2> QED
    BY <1>0, <2>1 DEF Older
<1> QED
  BY <1>1, <1>2, ApplicationMoves DEF Removed

\* Where the copies of the Application controller come from.
LEMMA CopySteps ==
    ASSUME TypeInv, Next
    PROVE  /\ cApp' = cApp \/ (cApp' = app /\ app' = app)
           /\ appPc' # "idle" =>
                 \/ /\ appPc # "idle" /\ appJob'.name = appJob.name
                    /\ appJob'.app = appJob.app \/ appJob'.app = app'[appJob.name]
                 \/ /\ appPc = "idle" /\ StartApplication(appJob'.name) /\ UNCHANGED <<app, cApp>>
                    /\ appJob'.name \in App /\ cApp[appJob'.name] # Absent
                    /\ appJob'.app = cApp[appJob'.name]
<1>0. appJob \in AppJob /\ app \in [App -> Maybe(Application)]
  BY DEF TypeInv, TypeOK
<1>1. CASE \E a \in App : StartAssembler(a)
  BY <1>1 DEF StartAssembler, store, caches, appWorker
<1>2. ASSUME NEW a \in App, StartApplication(a)
      PROVE  /\ UNCHANGED <<app, cApp>> /\ appPc = "idle"
             /\ appPc' # "idle" => /\ appJob'.name = a /\ cApp[a] # Absent /\ appJob'.app = cApp[a]
  <2>1. UNCHANGED <<app, cApp>> /\ appPc = "idle"
    BY <1>2 DEF StartApplication, store, caches
  <2>2. CASE cApp[a] # Absent
    <3>1. appJob' = [NoAppJob EXCEPT !.name = a, !.app = cApp[a]]
      BY <1>2, <2>2 DEF StartApplication
    <3>2. appJob'.name = a /\ appJob'.app = cApp[a]
      BY <3>1 DEF NoAppJob
    <3> QED
      BY <2>1, <2>2, <3>2
  <2>3. CASE cApp[a] = Absent
    BY <1>2, <2>1, <2>3 DEF StartApplication
  <2> QED
    BY <2>2, <2>3
<1>3. CASE Assemble
  BY <1>3 DEF Assemble, GetOrCreateApplication, UpdateApplication, WriteDeployable,
              ConcludeReconcile, FromObject, caches, appWorker
<1>4. CASE Discovering
  <2>0. cApp' = cApp /\ appPc # "idle"
    BY <1>4 DEF Discovering, LookForAssembler, ComposeAssembler, CreateAssembler, UpdateDiscoveryAnnotations,
                FetchComponents, UpdateStatus, caches
  <2>1. CASE AppDone \/ AppFail
    BY <2>0, <2>1 DEF AppDone, AppFail
  <2>2. CASE ~AppDone /\ ~AppFail
    <3>1. CASE UpdateDiscoveryAnnotations
      <4>1. /\ app[appJob.name] = appJob.app
            /\ app' = [app EXCEPT ![appJob.name] = Completed(appJob.app)]
            /\ appJob' = [appJob EXCEPT !.app = Completed(appJob.app)]
        BY <2>2, <3>1 DEF UpdateDiscoveryAnnotations
      <4>2. appJob'.name = appJob.name /\ appJob'.app = Completed(appJob.app)
        BY <1>0, <4>1 DEF AppJob
      <4>3. app'[appJob.name] = Completed(appJob.app)
        BY <1>0, <2>0, <4>1 DEF TypeInv, Control
      <4> QED
        BY <2>0, <4>2, <4>3
    <3>2. CASE ~UpdateDiscoveryAnnotations
      <4>1. appJob'.name = appJob.name /\ appJob'.app = appJob.app
        BY <1>0, <1>4, <2>2, <3>2 DEF Discovering, LookForAssembler, ComposeAssembler, CreateAssembler,
                FetchComponents, UpdateStatus, AppJob
      <4> QED
        BY <2>0, <4>1
    <3> QED
      BY <3>1, <3>2
  <2> QED
    BY <2>1, <2>2
<1>5. CASE Sync
  BY <1>5 DEF Sync, SyncApplications, SyncAssemblers, SyncDeployable, store, appWorker
<1>6. CASE Environment
  BY <1>6 DEF Environment, ApplyApplication, ListAssembler, EditAssembler, DeleteAssembler,
         DeleteApplication, CollectApplication, DeleteDeployable, ApiFault, Crash, AppFail,
         store, caches, appWorker
<1> QED
  BY <1>1, <1>2, <1>3, <1>4, <1>5, <1>6 DEF Next

\* Where the copy of the assembler's worker comes from.
LEMMA CarriedSteps ==
    ASSUME TypeInv, Next, asmPc' \in {"update", "next", "write"}
    PROVE  \/ GetOrCreateApplication /\ asmPc = "app" /\ asmPc' = "update"
              /\ \/ cApp[asmJob.name] # Absent /\ asmJob'.app = cApp[asmJob.name]
                 \/ asmJob'.app.uid = events
           \/ /\ asmPc \in {"update", "next", "write"}
              /\ asmJob'.name = asmJob.name /\ asmJob'.app.uid = asmJob.app.uid
              /\ \/ asmPc \in {"next", "write"} /\ asmJob'.app = asmJob.app
                 \/ UNCHANGED <<asmPc, asmJob>>
                 \/ asmPc = "update" /\ asmPc' = "next" /\ app'[asmJob.name].uid = asmJob.app.uid
                    /\ UpdateApplication
<1>0. asmJob \in AsmJob /\ (asmPc # "idle" => asmJob.name \in App)
  BY WorkerTyped
<1>1. CASE Elsewhere \/ SyncAssemblers
  BY <1>1 DEF Elsewhere, SyncAssemblers
<1>2. CASE Failing \/ Ending \/ Crash
  BY <1>2 DEF Failing, AsmFail, Ending, ConcludeReconcile, Crash
<1>3. ASSUME NEW a \in App, StartAssembler(a)
      PROVE  FALSE
  BY <1>3 DEF StartAssembler
<1>4. CASE Writing
  BY <1>4 DEF Writing, WriteDeployable
<1>5. CASE Going
  <2>1. CASE GetOrCreateApplication /\ asmPc' = "update"
    <3> DEFINE new == [uid |-> events, rev |-> 0, foreign |-> FALSE, owner |-> Absent,
                       mark |-> "off", selector |-> "nil", status |-> {}]
    <3>1. asmPc = "app" /\ \/ cApp[asmJob.name] # Absent /\ asmJob' = [asmJob EXCEPT !.app = cApp[asmJob.name]]
                           \/ asmJob' = [asmJob EXCEPT !.app = new]
      BY <2>1 DEF GetOrCreateApplication, AsmFail
    <3>2. new.uid = events
      OBVIOUS
    <3> HIDE DEF new
    <3> QED
      BY <1>0, <2>1, <3>1, <3>2 DEF AsmJob
  <2>2. CASE UpdateApplication /\ asmPc' = "next"
    <3>1. /\ asmPc = "update" /\ app' = [app EXCEPT ![asmJob.name] = Adopted(asmJob.app)]
          /\ asmJob' = [asmJob EXCEPT !.app = Adopted(asmJob.app)]
      BY <2>2 DEF UpdateApplication, AsmFail
    <3>2. asmJob'.app = Adopted(asmJob.app) /\ asmJob'.name = asmJob.name
      BY <1>0, <3>1 DEF AsmJob
    <3>3. app'[asmJob.name] = Adopted(asmJob.app)
      BY <1>0, <3>1 DEF TypeInv, TypeOK
    <3>4. Adopted(asmJob.app).uid = asmJob.app.uid
      BY <3>1, WorkerTyped, AdoptedFields
    <3> QED
      BY <2>2, <3>1, <3>2, <3>3, <3>4
  <2> QED
    BY <1>5, <2>1, <2>2 DEF Going
<1> QED
  BY <1>1, <1>2, <1>3, <1>4, <1>5, ReconcileSteps

LEMMA RevisionKept ==
    ASSUME TypeInv, RevisionInv, Next
    PROVE  RevisionInv'
<1>0. /\ events \in Nat /\ events' \in Nat /\ events <= events'
      /\ TypeInv'
  BY TypeKept, CopiesTyped, ApplicationSteps
<1>1. ASSUME NEW a \in App, app'[a] # Absent
      PROVE  app'[a].uid <= events'
  <2>1. CASE app'[a] = app[a]
    BY <1>0, <1>1, <2>1, CopiesTyped DEF RevisionInv
  <2>2. CASE Applied(a)
    BY <1>0, <2>2 DEF Applied
  <2>3. CASE Updated(a)
    <3>1. app[a] # Absent /\ app'[a].uid = app[a].uid
      BY <2>3, UpdatedFields, Numbered DEF Updated
    <3> QED
      BY <1>0, <3>1, CopiesTyped DEF RevisionInv
  <2> QED
    BY <1>1, <2>1, <2>2, <2>3, ApplicationMoves DEF Removed
<1>2. ASSUME NEW a \in App, NEW c \in Maybe(Application), Older(a, c) \/ c = app'[a]
      PROVE  Older(a, c)'
  <2>1. CASE Older(a, c)
    BY <1>2, <2>1, OlderKept DEF RevisionInv
  <2>2. CASE c = app'[a]
    <3>1. c # Absent => c.uid \in Nat /\ c.rev \in Nat
      BY Numbered
    <3> QED
      BY <1>1, <2>2, <3>1 DEF Older
  <2> QED
    BY <1>2, <2>1, <2>2
<1>3. ASSUME NEW a \in App
      PROVE  Older(a, cApp[a])'
  <2> DEFINE c == cApp'[a]
  <2>1. c = cApp[a] \/ c = app'[a]
    BY CopySteps
  <2>2. Older(a, cApp[a]) /\ cApp[a] \in Maybe(Application) /\ c \in Maybe(Application)
    BY <1>0, <2>1, CopiesTyped DEF RevisionInv, TypeInv, TypeOK
  <2>3. ASSUME NEW x, x = cApp'[a]
        PROVE  Older(a, x)'
    BY <1>2, <2>1, <2>2, <2>3
  <2> QED
    BY <2>3 DEF Older
<1>4. ASSUME appPc' # "idle"
      PROVE  Older(appJob.name, appJob.app)'
  <2>1. PICK n \in App, c \in Maybe(Application) :
           n = appJob'.name /\ c = appJob'.app /\ (Older(n, c) \/ c = app'[n])
    <3>1. /\ appJob'.name \in App /\ appJob'.app \in Maybe(Application)
      BY <1>0, <1>4 DEF TypeInv, Control
    <3>2. CASE appPc # "idle" /\ appJob'.name = appJob.name
               /\ (appJob'.app = appJob.app \/ appJob'.app = app'[appJob.name])
      <4>1. Older(appJob.name, appJob.app)
        BY <3>2 DEF RevisionInv
      <4> QED
        BY <3>1, <3>2, <4>1
    <3>3. CASE appJob'.app = cApp[appJob'.name]
      <4>1. Older(appJob'.name, cApp[appJob'.name])
        BY <3>1 DEF RevisionInv
      <4> QED
        BY <3>1, <3>3, <4>1
    <3> QED
      BY <1>4, <3>2, <3>3, CopySteps
  <2>2. Older(n, c)'
    BY <1>2, <2>1
  <2> QED
    BY <2>1, <2>2 DEF Older
<1>5. ASSUME asmPc' \in {"update", "next", "write"}
      PROVE  asmJob'.app.uid <= events'
  <2>1. asmPc # "idle" => asmJob.name \in App
    BY WorkerTyped
  <2>2. asmPc \in {"update", "next", "write"} => asmJob.app.uid \in Nat /\ asmJob.app.uid <= events
    BY WorkerTyped, Numbered DEF RevisionInv
  <2>3. asmPc # "idle" /\ cApp[asmJob.name] # Absent =>
           cApp[asmJob.name].uid <= events /\ cApp[asmJob.name].uid \in Nat
    BY <2>1, CopiesTyped, Numbered DEF RevisionInv, Older
  <2> QED
    BY <1>0, <1>5, <2>2, <2>3, CarriedSteps
<1> QED
  BY <1>1, <1>3, <1>4, <1>5 DEF RevisionInv

\* The steps that change what is cached of a Deployable.
LEMMA CacheSteps ==
    ASSUME Next, NEW d \in Deployable, TypeInv
    PROVE  \/ cHdpl'[d] = cHdpl[d]
           \/ hdpl' = hdpl /\ cHdpl'[d] = hdpl[d] /\ (SyncDeployable(d) \/ Crash)
<1>1. CASE Sync
  <2>1. CASE \E e \in Deployable : SyncDeployable(e)
    BY <2>1 DEF SyncDeployable, store, TypeInv, TypeOK
  <2> QED
    BY <1>1, <2>1 DEF Sync, SyncApplications, SyncAssemblers
<1>2. CASE Crash
  BY <1>2 DEF Crash, store
<1>3. CASE Environment /\ ~Crash
  BY <1>3 DEF Environment, ApplyApplication, ListAssembler, EditAssembler, DeleteAssembler,
         DeleteApplication, CollectApplication, DeleteDeployable, ApiFault, caches
<1>4. CASE Assemble
  BY <1>4 DEF Assemble, GetOrCreateApplication, UpdateApplication, WriteDeployable,
              ConcludeReconcile, FromObject, caches
<1>5. CASE Discovering
  BY <1>5 DEF Discovering, LookForAssembler, ComposeAssembler, CreateAssembler, UpdateDiscoveryAnnotations,
                FetchComponents, UpdateStatus, caches
<1>6. CASE \E a \in App : StartAssembler(a) \/ StartApplication(a)
  BY <1>6 DEF StartAssembler, StartApplication, caches
<1> QED
  BY <1>1, <1>2, <1>3, <1>4, <1>5, <1>6 DEF Next

LEMMA StampKept ==
    ASSUME TypeInv, StampInv, Next
    PROVE  StampInv'
<1> SUFFICES ASSUME NEW d \in Deployable
             PROVE  /\ cHdpl'[d].since <= hdpl'[d].since /\ hdpl'[d].since <= events'
                    /\ cHdpl'[d].here /\ ~hdpl'[d].here => cHdpl'[d].since < hdpl'[d].since
  BY DEF StampInv
<1>0. /\ events \in Nat /\ (events' = events \/ events' = events + 1)
      /\ cHdpl[d].since \in Nat /\ hdpl[d].since \in Nat
      /\ hdpl[d].here \in BOOLEAN
  BY ApplicationSteps, Numbered DEF TypeInv, TypeOK
<1>1. CASE hdpl'[d] = hdpl[d]
  BY <1>0, <1>1, CacheSteps DEF StampInv
<1>2. CASE Deleted(d)
  BY <1>0, <1>2 DEF StampInv, Deleted
<1>3. CASE cHdpl'[d] = cHdpl[d] /\ (Extended(d) \/ Made(d))
  BY <1>0, <1>3 DEF StampInv, Extended, Made
<1>4. Extended(d) \/ Made(d) => cHdpl' = cHdpl
  BY DEF Extended, Made, Written, WriteDeployable, caches
<1> QED
  BY <1>1, <1>2, <1>3, <1>4, DeployableMoves

\* The labels of a Deployable after a step are those before it, and the one being given.
LEMMA LabelMoves ==
    ASSUME TypeInv, LabelInv, RevisionInv, Next, NEW d \in Deployable
    PROVE  /\ hdpl'[d].here => hdpl'[d].first \in hdpl'[d].labels
           /\ ~Gone /\ ~hdpl'[d].here => hdpl'[d].labels = {}
           /\ \A l \in hdpl'[d].labels :
                 \/ l \in hdpl[d].labels
                 \/ Written(d) /\ l = CarriedLabel /\ l[2] = asmJob.app.uid /\ l[2] <= events
<1>1. CASE hdpl'[d] = hdpl[d]
  BY <1>1 DEF LabelInv
<1>2. CASE Deleted(d)
  BY <1>2 DEF Deleted
<1>3. CASE Extended(d) \/ Made(d)
  <2>1. asmPc = "write" /\ Written(d)
    BY <1>3 DEF Extended, Made, Written, WriteDeployable
  <2>2. CarriedLabel[2] = asmJob.app.uid /\ asmJob.app.uid <= events
    BY <2>1 DEF CarriedLabel, LabelOf, RevisionInv
  <2> QED
    BY <1>3, <2>1, <2>2 DEF Extended, Made, LabelInv
<1> QED
  BY <1>1, <1>2, <1>3, DeployableMoves

LEMMA LabelKept ==
    ASSUME TypeInv, RevisionInv, LabelInv, Next
    PROVE  LabelInv'
<1>0. /\ events \in Nat /\ (events' = events \/ events' = events + 1)
      /\ \A d \in Deployable : \A l \in hdpl[d].labels : l[2] \in Nat /\ l[2] <= events
  BY ApplicationSteps DEF TypeInv, TypeOK, LabelInv, StoredDeployable, Label
<1>1. ASSUME NEW d \in Deployable
      PROVE  /\ hdpl'[d].here => hdpl'[d].first \in hdpl'[d].labels
             /\ ~Gone /\ ~hdpl'[d].here => hdpl'[d].labels = {}
             /\ \A l \in hdpl'[d].labels : l[2] <= events'
  <2>1. Written(d) => asmJob.app.uid \in Nat
    BY WorkerTyped, Numbered DEF Written, WriteDeployable
  <2> QED
    BY <1>0, <2>1, LabelMoves
<1>2. ASSUME asmPc' \in {"next", "write"}, app'[asmJob'.name] # Absent,
             app'[asmJob'.name].uid # asmJob'.app.uid, NEW d \in Deployable
      PROVE  LabelOf(asmJob'.name, app'[asmJob'.name]) \notin hdpl'[d].labels
  <2> DEFINE n == asmJob.name
             L == LabelOf(n, app'[n])
  <2>0. /\ asmPc \in {"next", "write"} /\ asmJob'.name = n /\ asmJob'.app.uid = asmJob.app.uid
    BY <1>2, CarriedSteps
  <2>1. n \in App
    BY <2>0, WorkerTyped
  <2>2. L \notin hdpl[d].labels
    <3>1. CASE app'[n] = app[n]
      BY <1>2, <2>0, <3>1 DEF LabelInv
    <3>2. CASE Applied(n)
      <4>1. app'[n].uid = events + 1
        BY <1>0, <2>0, <3>2 DEF Applied, GetOrCreateApplication
      <4>2. L[2] = events + 1
        BY <4>1 DEF LabelOf
      <4> QED
        BY <1>0, <4>2
    <3>3. CASE Updated(n)
      <4>1. app[n] # Absent /\ app'[n].uid = app[n].uid
        BY <2>1, <3>3, UpdatedFields, Numbered DEF Updated
      <4>2. L = LabelOf(n, app[n])
        BY <4>1 DEF LabelOf
      <4> QED
        BY <1>2, <2>0, <4>1, <4>2 DEF LabelInv
    <3> QED
      BY <1>2, <2>0, <2>1, <3>1, <3>2, <3>3, ApplicationMoves DEF Removed
  <2>3. L # CarriedLabel
    BY <1>2, <2>0 DEF LabelOf, CarriedLabel
  <2> QED
    BY <2>0, <2>2, <2>3, LabelMoves
<1> QED
  BY <1>1, <1>2 DEF LabelInv

LEMMA SelectorKept ==
    ASSUME TypeInv, SelectorInv, Next
    PROVE  SelectorInv'
<1> SUFFICES ASSUME Event \cap {"drop", "collect"} = {}, NEW a \in App
             PROVE  /\ app'[a] # Absent /\ app'[a].selector # "nil"
                    /\ cApp'[a] # Absent /\ cApp'[a].selector # "nil"
  BY DEF SelectorInv
<1>0. app[a] # Absent /\ app[a].selector # "nil" /\ cApp[a] # Absent /\ cApp[a].selector # "nil"
  BY DEF SelectorInv
<1>1. app'[a] # Absent /\ app'[a].selector # "nil"
  BY <1>0, ApplicationMoves, UpdatedFields, Numbered DEF Applied, Removed
<1> QED
  BY <1>0, <1>1, CopySteps
-----------------------------------------------------------------------------
(***************************************************************************)
(* The application's worker.                                               *)
(***************************************************************************)
\* Requests are taken by StartApplication only, and a restart makes them anew.
LEMMA RequestSteps ==
    ASSUME Next
    PROVE  \/ \E a \in App : StartApplication(a)
           \/ Crash
           \/ appQueue \subseteq appQueue' /\ (cApp' = cApp \/ SyncApplications)
<1>1. CASE Assemble
  BY <1>1 DEF Assemble, GetOrCreateApplication, UpdateApplication, WriteDeployable,
              ConcludeReconcile, FromObject, caches, appWorker
<1>2. CASE Discovering
  BY <1>2 DEF Discovering, LookForAssembler, ComposeAssembler, CreateAssembler, UpdateDiscoveryAnnotations,
                FetchComponents, UpdateStatus, AppDone, AppFail, caches
<1>3. CASE Sync
  BY <1>3 DEF Sync, SyncApplications, SyncAssemblers, SyncDeployable, appWorker
<1>4. CASE Environment /\ ~Crash
  BY <1>4 DEF Environment, ApplyApplication, ListAssembler, EditAssembler, DeleteAssembler,
         DeleteApplication, CollectApplication, DeleteDeployable, ApiFault, AppFail, caches, appWorker
<1>5. CASE \E a \in App : StartAssembler(a)
  BY <1>5 DEF StartAssembler, caches, appWorker
<1> QED
  BY <1>1, <1>2, <1>3, <1>4, <1>5 DEF Next

\* Whoever changes an Application renews it, and a request stays.
LEMMA RenewedKept ==
    ASSUME TypeInv, RevisionInv, Next, NEW a \in App, Renewed(a) \/ app'[a] # app[a],
           ~StartApplication(a)
    PROVE  Renewed(a)'
<1> USE DEF Renewed
<1>1. CASE \E b \in App : StartApplication(b)
  BY <1>1 DEF StartApplication, store, caches
<1>2. CASE Crash
  BY <1>2 DEF Crash, store
<1>3. CASE appQueue \subseteq appQueue' /\ cApp' = cApp
  <2>1. app'[a] # app[a] /\ app'[a] # Absent => app'[a] # cApp[a]
    BY NeverAgain, CopiesTyped DEF RevisionInv
  <2> QED
    BY <1>3, <2>1
<1>4. CASE appQueue \subseteq appQueue' /\ SyncApplications
  BY <1>4 DEF SyncApplications, store
<1> QED
  BY <1>1, <1>2, <1>3, <1>4, RequestSteps

LEMMA HeldKept ==
    ASSUME TypeInv, RevisionInv, HeldInv, Next
    PROVE  HeldInv'
<1> SUFFICES ASSUME appPc' # "idle"
             PROVE  Renewed(appJob.name)' \/ app'[appJob'.name] = appJob'.app
  BY DEF HeldInv
<1> DEFINE n == appJob'.name
<1>1. CASE appPc = "idle"
  BY <1>1, CopySteps DEF Renewed
<1>2. CASE appPc # "idle" /\ n = appJob.name /\ appJob'.app = app'[n]
  BY <1>2
<1>3. CASE appPc # "idle" /\ n = appJob.name /\ appJob'.app = appJob.app
  <2>1. appJob.name \in App /\ ~StartApplication(appJob.name)
    BY <1>3, CopiesTyped DEF StartApplication
  <2>2. CASE Renewed(n) \/ app'[n] # app[n]
    <3>1. \A b : b = appJob.name => Renewed(b)'
      BY <1>3, <2>1, <2>2, RenewedKept
    <3> QED
      BY <1>3, <3>1 DEF Renewed
  <2>3. CASE app[n] = appJob.app /\ app'[n] = app[n]
    BY <1>3, <2>3
  <2> QED
    BY <1>3, <2>2, <2>3 DEF HeldInv
<1> QED
  BY <1>1, <1>2, <1>3, CopySteps

\* What is fetched is right at that moment.
LEMMA FetchedRight ==
    ASSUME TypeInv, LabelInv, NEW a \in App, app[a].selector = "own",
           app[a].status = Fetched(a, app[a])
    PROVE  Right(a)
<1>1. app[a].status = {d \in Deployable : hdpl[d].here /\ LabelOf(a, app[a]) \in hdpl[d].labels}
  BY DEF Fetched
<1> QED
  BY <1>1 DEF Right, LabelInv

\* As long as the caches are what they were, a Deployable that is written or deleted leaves the
\* status right: it is news that the watch has not told.
LEMMA RightMoves ==
    ASSUME TypeInv, RevisionInv, StampInv, LabelInv, Unambiguous, Next,
           NEW a \in App, app[a] # Absent, app'[a] = app[a], Right(a),
           \A d \in Deployable : cHdpl'[d] = cHdpl[d]
    PROVE  Right(a)'
<1> DEFINE L == LabelOf(a, app[a])
<1>0. /\ LabelOf(a, app[a])' = L
      /\ events \in Nat
      /\ \A d \in Deployable : /\ cHdpl[d].since \in Nat /\ hdpl[d].since \in Nat
                               /\ cHdpl[d].here \in BOOLEAN /\ hdpl[d].here \in BOOLEAN
  BY Numbered DEF LabelOf, TypeInv, TypeOK
<1>1. ASSUME NEW d \in Deployable, d \in app[a].status
      PROVE  L \in hdpl'[d].labels
  <2>0. L \in hdpl[d].labels
    BY <1>1 DEF Right
  <2>1. CASE hdpl'[d] = hdpl[d] \/ Deleted(d) \/ Extended(d)
    BY <2>0, <2>1 DEF Deleted, Extended
  <2>2. CASE Made(d)
    <3>1. asmPc = "write" /\ hdpl'[d].labels = {CarriedLabel} /\ ~hdpl[d].here
      BY <2>2 DEF Made, Written, WriteDeployable
    <3>2. Gone
      BY <2>0, <3>1 DEF LabelInv
    <3>3. asmJob.name = a
      BY <3>1, <3>2, WorkerTyped DEF Unambiguous, Gone, Alone
    <3>4. app[a].uid = asmJob.app.uid
      BY <1>1, <2>0, <3>1, <3>3 DEF LabelInv
    <3> QED
      BY <3>1, <3>3, <3>4 DEF LabelOf, CarriedLabel
  <2> QED
    BY <2>1, <2>2, DeployableMoves
<1>2. ASSUME NEW d \in Deployable, cHdpl'[d].here = hdpl'[d].here, cHdpl'[d].since = hdpl'[d].since
      PROVE  /\ hdpl'[d].here /\ hdpl'[d].first = L => d \in app[a].status
             /\ d \in app[a].status => hdpl'[d].here
  <2>1. CASE hdpl'[d] = hdpl[d] \/ Extended(d)
    BY <1>0, <1>2, <2>1 DEF Right, Seen, Extended
  <2>2. CASE Deleted(d)
    BY <1>0, <1>2, <2>2 DEF StampInv, Deleted
  <2>3. CASE Made(d)
    <3>1. hdpl'[d].here /\ hdpl'[d].since = events /\ ~hdpl[d].here
      BY <2>3 DEF Made
    <3>2. cHdpl[d].here /\ cHdpl[d].since = events
      BY <1>2, <3>1
    <3>3. cHdpl[d].since < hdpl[d].since /\ hdpl[d].since <= events
      BY <3>1, <3>2 DEF StampInv
    <3> QED
      BY <1>0, <3>2, <3>3
  <2> QED
    BY <2>1, <2>2, <2>3, DeployableMoves
<1> QED
  BY <1>0, <1>1, <1>2 DEF Right, Seen

\* A label is told to the Application that has it.
LEMMA LabelTold ==
    ASSUME TypeInv, SelectorInv, Unambiguous, NEW a \in App, NEW labels \in SUBSET Label,
           app[a] # Absent, app[a].selector = "own", cApp[a] = app[a],
           LabelOf(a, app[a]) \in labels,
           Alone \/ labels = {LabelOf(a, app[a])}
    PROVE  Told(labels) = {{a}}
<1>1. a \in Matching(labels)
  BY DEF Matching
<1>2. ASSUME NEW b \in Matching(labels)
      PROVE  b = a
  <2>1. CASE Alone
    BY <2>1 DEF Alone, Matching
  <2>2. CASE ~Alone
    <3>1. b \in App /\ cApp[b].selector # "nil"
      BY <2>2 DEF Unambiguous, SelectorInv, Matching
    <3>2. LabelOf(b, cApp[b]) = LabelOf(a, app[a])
      BY <2>2, <3>1 DEF Matching
    <3> QED
      BY <3>2 DEF LabelOf
  <2> QED
    BY <2>1, <2>2
<1>3. Matching(labels) = {a}
  BY <1>1, <1>2
<1> QED
  BY <1>3 DEF Told

\* The watch tells of what it delivers.
LEMMA RightTold ==
    ASSUME TypeInv, LabelInv, SelectorInv, Unambiguous,
           NEW e \in Deployable, SyncDeployable(e),
           NEW a \in App, app[a] # Absent, app[a].selector = "own", cApp[a] = app[a], Right(a)
    PROVE  Right(a)' \/ a \in appQueue'
<1> DEFINE L == LabelOf(a, app[a])
<1>0. /\ UNCHANGED <<app, hdpl, cApp>> /\ LabelOf(a, app[a])' = L
      /\ \A d \in Deployable : cHdpl'[d] = cHdpl[d] \/ (d = e /\ cHdpl'[d] = hdpl[d])
  BY DEF SyncDeployable, store, LabelOf, TypeInv, TypeOK
<1>1. CASE Seen(e)
  BY <1>0, <1>1 DEF Right, Seen
<1>2. CASE ~Seen(e)
  <2>1. PICK new \in IF hdpl[e].here THEN Told({hdpl[e].first}) ELSE Told(hdpl[e].labels),
             old \in IF hdpl[e].here /\ cHdpl[e].here THEN Told(cHdpl[e].labels) ELSE {{}} :
                appQueue' = appQueue \cup new \cup old
    BY <1>2 DEF SyncDeployable, Seen
  <2>2. CASE hdpl[e].here /\ hdpl[e].first = L
    <3>1. L \in Label
      BY LabelTyped DEF TypeInv, TypeOK
    <3>2. Told({L}) = {{a}}
      BY <3>1, LabelTold
    <3> QED
      BY <2>1, <2>2, <3>2
  <2>3. CASE ~hdpl[e].here /\ e \in app[a].status
    <3>1. L \in hdpl[e].labels /\ hdpl[e].labels \in SUBSET Label
      BY <2>3 DEF Right, TypeInv, TypeOK, StoredDeployable
    <3>2. Alone
      BY <2>3, <3>1 DEF LabelInv, Unambiguous, Gone
    <3>3. Told(hdpl[e].labels) = {{a}}
      BY <3>1, <3>2, LabelTold
    <3> QED
      BY <2>1, <2>3, <3>3
  <2>4. CASE (hdpl[e].here => hdpl[e].first # L) /\ (e \in app[a].status => hdpl[e].here)
    BY <1>0, <2>4 DEF Right, Seen
  <2> QED
    BY <2>2, <2>3, <2>4
<1> QED
  BY <1>1, <1>2

\* What a reconcile that ends has done for its Application.
LEMMA RightEnd ==
    ASSUME TypeInv, RevisionInv, LabelInv, HeldInv, Next, appPc # "idle",
           NEW a \in App, a = appJob.name, appPc' = "idle" \/ appJob'.name # a
    PROVE  Renewed(a)' \/ (app' = app /\ hdpl' = hdpl /\ cHdpl' = cHdpl /\ Right(a))
                       \/ app'[a].selector # "own"
<1>0. ~StartApplication(a) /\ appJob \in AppJob
  BY DEF StartApplication, TypeInv, TypeOK
<1>1. CASE Renewed(a) \/ app'[a] # app[a]
  BY <1>0, <1>1, RenewedKept
<1>2. CASE app[a] = appJob.app /\ app'[a] = app[a] /\ app[a] # Absent
  <2>1. CASE a \in appQueue' \/ Crash
    BY <1>2, <2>1 DEF Crash, Renewed
  <2>2. CASE FetchComponents
    <3>1. appJob.app.status = Fetched(appJob.name, appJob.app)
          /\ UNCHANGED <<app, hdpl, cHdpl>>
      BY <1>0, <2>2 DEF FetchComponents, AppJob, store, caches
    <3> QED
      BY <1>2, <3>1, FetchedRight
  <2>3. CASE UpdateStatus
    <3>1. app'[a] = Listed(app[a], appJob.parts)
      BY <1>2, <2>3 DEF UpdateStatus, TypeInv, TypeOK
    <3>2. app'[a].rev = app[a].rev + 1 /\ app[a].rev \in Nat
      BY <1>0, <1>2, <3>1, ListedFields, CopiesTyped DEF AppJob
    <3> QED
      BY <1>2, <3>2
  <2>4. CASE Discovering /\ ~FetchComponents /\ ~UpdateStatus
    <3>1. AppFail
      BY <1>0, <2>4 DEF Discovering, LookForAssembler, ComposeAssembler, CreateAssembler,
                        UpdateDiscoveryAnnotations, AppJob
    <3> QED
      BY <2>1, <3>1 DEF AppFail
  <2>5. CASE ApiFault
    <3>1. AppFail \/ UNCHANGED appWorker
      BY <2>5 DEF ApiFault
    <3> QED
      BY <2>1, <3>1 DEF AppFail, appWorker
  <2>6. CASE UNCHANGED <<appPc, appJob>>
    BY <2>6
  <2>7. Next => Discovering \/ ApiFault \/ Crash \/ UNCHANGED <<appPc, appJob>>
    BY DEF Next, StartAssembler, StartApplication, Assemble, GetOrCreateApplication,
           UpdateApplication, WriteDeployable, ConcludeReconcile, FromObject, Sync,
           SyncApplications, SyncAssemblers, SyncDeployable, Environment, ApplyApplication,
           ListAssembler, EditAssembler, DeleteAssembler, DeleteApplication, CollectApplication,
           DeleteDeployable, appWorker
  <2> QED
    BY <2>1, <2>2, <2>3, <2>4, <2>5, <2>6, <2>7
<1> QED
  BY <1>1, <1>2 DEF HeldInv, Renewed

LEMMA RightKept ==
    ASSUME TypeInv, ListedInv, Unambiguous, Next
    PROVE  RightInv'
<1> SUFFICES ASSUME NEW a \in App, appPc' = "idle" \/ appJob'.name # a
             PROVE  Renewed(a)' \/ app'[a].selector # "own" \/ Right(a)'
  BY DEF RightInv
<1> USE DEF ListedInv
<1>1. CASE appPc # "idle" /\ appJob.name = a
  <2>1. app' = app /\ hdpl' = hdpl /\ cHdpl' = cHdpl /\ Right(a) => Right(a)'
    BY DEF Right, Seen, LabelOf
  <2> QED
    BY <1>1, <2>1, RightEnd
<1>2. CASE StartApplication(a)
  <2>1. CASE cApp[a] # Absent
    <3>1. /\ appPc' \in {"look", "fetch"}
          /\ appJob' = [NoAppJob EXCEPT !.name = a, !.app = cApp[a]]
      BY <1>2, <2>1 DEF StartApplication
    <3> QED
      BY <3>1 DEF NoAppJob
  <2>2. CASE cApp[a] = Absent
    BY <1>2, <2>2 DEF StartApplication, store, caches, Renewed
  <2> QED
    BY <2>1, <2>2
<1>3. CASE ~StartApplication(a) /\ (Renewed(a) \/ app'[a] # app[a])
  BY <1>3, RenewedKept
<1>4. CASE app'[a] = app[a] /\ app[a].selector = "own" /\ Right(a) /\ ~Renewed(a)
  <2>1. CASE \A d \in Deployable : cHdpl'[d] = cHdpl[d]
    BY <1>4, <2>1, RightMoves DEF Renewed
  <2>2. ASSUME NEW e \in Deployable, SyncDeployable(e)
        PROVE  Right(a)' \/ Renewed(a)'
    BY <1>4, <2>2, RightTold DEF Renewed
  <2>3. CASE Crash
    BY <1>4, <2>3 DEF Crash, Renewed
  <2> QED
    BY <2>1, <2>2, <2>3, CacheSteps
<1>5. CASE ~(appPc # "idle" /\ appJob.name = a) /\ app'[a] = app[a] /\ app[a].selector # "own"
  BY <1>5
<1> QED
  BY <1>1, <1>2, <1>3, <1>4, <1>5 DEF RightInv

\* ListedInv holds in every state.
THEOREM ListedSettled == Spec => []ListedInv
<1>1. Init => ListedInv
  <2> SUFFICES ASSUME Init PROVE ListedInv
    OBVIOUS
  <2>1. Asking(0, FALSE) \in Application /\ Asking(0, FALSE).uid = 0
        /\ Asking(0, FALSE).rev = 0 /\ Asking(0, FALSE).selector = "user"
    BY DEF Asking, Application
  <2>2. /\ cApp = app /\ events = 0 /\ asmPc = "idle" /\ appPc = "idle"
        /\ \A a \in App : /\ app[a] # Absent /\ app[a].uid = 0 /\ app[a].rev = 0
                            /\ app[a].selector = "user"
    BY <2>1, Presence DEF Init
  <2>3. RevisionInv
    BY <2>2 DEF RevisionInv, Older
  <2>4. StampInv /\ LabelInv
    BY <2>2 DEF Init, NoDeployable, StampInv, LabelInv
  <2>5. SelectorInv /\ HeldInv /\ RightInv
    BY <2>2 DEF SelectorInv, HeldInv, RightInv
  <2> QED
    BY <2>3, <2>4, <2>5 DEF ListedInv
<1>2. TypeInv /\ ListedInv /\ [Next]_vars => ListedInv'
  <2>1. TypeInv /\ ListedInv /\ Next => ListedInv'
    BY RevisionKept, StampKept, LabelKept, SelectorKept, HeldKept, RightKept DEF ListedInv, Unambiguous, Alone
  <2>2. ListedInv /\ UNCHANGED vars => ListedInv'
    BY DEF vars, store, caches, asmWorker, appWorker, ListedInv, RevisionInv, Older, StampInv,
           LabelInv, SelectorInv, HeldInv, RightInv, Renewed, Right, Seen, LabelOf
  <2> QED
    BY <2>1, <2>2
<1> QED
  BY <1>1, <1>2, TypeCorrect, PTL DEF Spec

\* Once nothing brings the Application controller back to an Application, its status is right about
\* the Deployables that the watch has told of (application_status.go:119-136,
\* hybrid_deployable_mapper.go:67-87).
THEOREM RestListed == Spec => []ListedAtRest
<1>1. ListedInv => ListedAtRest
  BY DEF ListedInv, RightInv, Renewed, Unambiguous, ListedAtRest
<1> QED
  BY <1>1, ListedSettled, PTL
=============================================================================
