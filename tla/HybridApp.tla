------------------------------ MODULE HybridApp ------------------------------
(***************************************************************************)
(* The ApplicationAssembler and Application controllers of one process,    *)
(* over one set of objects.  They never call each other: the Application   *)
(* controller makes the assembler of an Application, the assembler         *)
(* controller takes the Application over and makes Deployables with its    *)
(* label, and their appearance tells the Application controller to list    *)
(* them.  Both read the same informer caches and write the same            *)
(* Application from copies of their own.                                   *)
(*                                                                         *)
(* AssemblerController and ApplicationController have every call of each   *)
(* worker; here are the calls by which one worker affects the other, and   *)
(* the rest of a reconcile is a call that may fail (ApiFault).             *)
(***************************************************************************)
EXTENDS Naturals

CONSTANTS
    App,            \* names of Applications and of their assemblers
    Hub,            \* objects of the hub that are components
    Wants,          \* the components that the selector a user gave an Application matches
    Lists,          \* the component lists that users make an assembler of that name with
    Depth,          \* bound on Deployables of Deployables
    Event,          \* the things other actors may do in this instance
    MaxEvents,      \* bound on how many of them happen
    Absent          \* no object, no value

\* A component is <<c, 0>>; <<c, n + 1>> is the Deployable made for <<c, n>>.
Component  == Hub \X {0}
Deployable == Hub \X (1..Depth)
Part       == Component \cup Deployable

EventKind == {"apply", "list", "edit", "unlist", "drop", "gone", "collect", "fault", "crash"}

ASSUME HybridAssumption ==
    /\ Wants \in [App -> SUBSET Component]
    /\ Lists \in [App -> SUBSET SUBSET {p \in Part : p[2] < Depth}]
    /\ Depth \in Nat \ {0} /\ MaxEvents \in Nat /\ Event \subseteq EventKind

\* Absent is no number and no Application: what TLC takes for granted of a model value.
ASSUME AbsentAssumption ==
    /\ Absent \notin Nat
    /\ Absent \notin [uid: Nat, rev: Nat, foreign: BOOLEAN, owner: Nat \cup {Absent},
                      mark: {"off", "asked", "done"}, selector: {"nil", "user", "own"},
                      status: SUBSET Part]

VARIABLES
    \* the API server
    app, asm, hdpl,
    \* the informer caches of the manager, which both controllers read
    cApp, cAsm, cHdpl,
    \* the ApplicationAssembler controller: work queue, next call, locals of the reconcile
    asmQueue, asmPc, asmJob,
    \* the Application controller
    appQueue, appPc, appJob,
    \* the environment
    events

store  == <<app, asm, hdpl>>
caches == <<cApp, cAsm, cHdpl>>
asmWorker == <<asmQueue, asmPc, asmJob>>
appWorker == <<appQueue, appPc, appJob>>
vars == <<store, caches, asmWorker, appWorker, events>>
-----------------------------------------------------------------------------
Maybe(S) == S \cup {Absent}

\* The label of an Application is made of its UID.
Label == App \X Nat

\* rev: its resourceVersion, which every change of it raises.
\* selector: nil, the one a user gave, or the label of the Application.  mark: both
\* annotations not there, asking for discovery and an assembler, or completed.  foreign: it has
\* a controller that is no assembler.
Application == [uid: Nat, rev: Nat, foreign: BOOLEAN, owner: Maybe(Nat),
                mark: {"off", "asked", "done"}, selector: {"nil", "user", "own"},
                status: SUBSET Part]

\* What a user applies: discovery and an assembler are asked for.
Asking(uid, foreign) ==
    [uid |-> uid, rev |-> 0, foreign |-> foreign, owner |-> Absent, mark |-> "asked",
     selector |-> "user", status |-> {}]

\* for: the Application, by uid, that the assembler was made for, unless a user made it.
Assembler == [uid: Nat, for: Maybe(Nat), layout: SUBSET Part]

\* A Deployable keeps its stamp when it is deleted; first is the label it was made with.
StoredDeployable == [here: BOOLEAN, since: Nat, first: Maybe(Label), labels: SUBSET Label]

NoDeployable == [here |-> FALSE, since |-> 0, first |-> Absent, labels |-> {}]

AsmJob == [name: Maybe(App), inst: Maybe(Assembler), app: Maybe(Application),
           todo: SUBSET Part, at: Maybe(Part), copy: Maybe(StoredDeployable), ok: BOOLEAN]
NoAsmJob == [name |-> Absent, inst |-> Absent, app |-> Absent, todo |-> {}, at |-> Absent,
             copy |-> Absent, ok |-> TRUE]

AppJob == [name: Maybe(App), app: Maybe(Application), parts: SUBSET Part]
NoAppJob == [name |-> Absent, app |-> Absent, parts |-> {}]

DeployableOf(p) == <<p[1], p[2] + 1>>

\* Mutant: the label carries the name of the Application, as its status does.
LabelOf_name(a, x) == a

LabelOf(a, x) == <<a, x.uid>>
-----------------------------------------------------------------------------
(***************************************************************************)
(* The ApplicationAssembler controller.                                    *)
(***************************************************************************)
AsmFail ==
    /\ asmPc' = "conclude"
    /\ asmJob' = [NoAsmJob EXCEPT !.name = asmJob.name, !.inst = asmJob.inst, !.ok = FALSE]

StartAssembler(a) ==
    /\ asmPc = "idle" /\ a \in asmQueue
    /\ asmQueue' = asmQueue \ {a}
    /\ \/ cAsm[a] = Absent /\ UNCHANGED <<asmPc, asmJob>>
       \/ /\ cAsm[a] # Absent
          /\ asmPc' = "app"
          /\ asmJob' = [NoAsmJob EXCEPT !.name = a, !.inst = cAsm[a], !.todo = cAsm[a].layout]
    /\ UNCHANGED <<store, caches, appWorker, events>>

\* The Application of that name is found in the cache, or created without selector.
GetOrCreateApplication ==
    /\ asmPc = "app"
    /\ LET a   == asmJob.name
           new == [uid |-> events, rev |-> 0, foreign |-> FALSE, owner |-> Absent, mark |-> "off",
                   selector |-> "nil", status |-> {}]
       IN \/ /\ cApp[a] # Absent
             /\ asmPc' = "update" /\ asmJob' = [asmJob EXCEPT !.app = cApp[a]]
             /\ UNCHANGED app
          \/ /\ cApp[a] = Absent /\ app[a] = Absent
             /\ app' = [app EXCEPT ![a] = new]
             /\ asmPc' = "update" /\ asmJob' = [asmJob EXCEPT !.app = new]
          \/ /\ cApp[a] = Absent /\ app[a] # Absent
             /\ AsmFail /\ UNCHANGED app
    /\ UNCHANGED <<asm, hdpl, caches, asmQueue, appWorker, events>>

\* SetControllerReference refuses an Application with another controller; the error is logged
\* only, and the selector is written all the same.
OwnerOf(x) == IF x.foreign THEN x.owner ELSE asmJob.inst.uid

\* An Update that changes nothing leaves the resourceVersion as it is.
Adopted(x) ==
    IF x.owner = OwnerOf(x) /\ x.selector = "own" THEN x
    ELSE [x EXCEPT !.owner = OwnerOf(x), !.selector = "own", !.rev = @ + 1]

\* Mutant: the Update carries no resourceVersion.
UpdateApplication_unconditional ==
    /\ asmPc = "update"
    /\ \/ /\ app[asmJob.name] # Absent
          /\ LET x == [Adopted(asmJob.app) EXCEPT !.rev = app[asmJob.name].rev + 1,
                                                  !.status = app[asmJob.name].status]
             IN /\ app' = [app EXCEPT ![asmJob.name] = x]
                /\ asmPc' = "next" /\ asmJob' = [asmJob EXCEPT !.app = x]
       \/ /\ app[asmJob.name] = Absent
          /\ AsmFail /\ UNCHANGED app
    /\ UNCHANGED <<asm, hdpl, caches, asmQueue, appWorker, events>>

\* Owner and selector are written by an Update, which ignores the status and answers with the
\* stored one: the Status().Update that follows either changes nothing or meets a conflict.
UpdateApplication ==
    /\ asmPc = "update"
    /\ \/ /\ app[asmJob.name] = asmJob.app
          /\ app' = [app EXCEPT ![asmJob.name] = Adopted(asmJob.app)]
          /\ asmPc' = "next" /\ asmJob' = [asmJob EXCEPT !.app = Adopted(asmJob.app)]
       \/ /\ app[asmJob.name] # asmJob.app
          /\ AsmFail /\ UNCHANGED app
    /\ UNCHANGED <<asm, hdpl, caches, asmQueue, appWorker, events>>

\* A hub component, which may be a Deployable, must exist at the server; the Deployable is
\* read from the cache.
FromObject(p) ==
    /\ asmPc = "next" /\ p \in asmJob.todo
    /\ LET old == cHdpl[DeployableOf(p)]
       IN \/ /\ p \in Deployable /\ ~hdpl[p].here
             /\ AsmFail
          \/ /\ p \in Deployable => hdpl[p].here
             /\ asmPc' = "write" /\ asmJob' = [asmJob EXCEPT !.at = p, !.copy = old]
    /\ UNCHANGED <<store, caches, asmQueue, appWorker, events>>

\* The stored Deployable is the copy, or neither is there.
Current(d, copy) == hdpl[d].here = copy.here /\ (copy.here => hdpl[d] = copy)

\* Mutant: a Deployable that exists is left as it is.
WriteDeployable_createOnly ==
    /\ asmPc = "write"
    /\ LET d     == DeployableOf(asmJob.at)
           label == LabelOf(asmJob.name, asmJob.app)
       IN \/ /\ Current(d, asmJob.copy)
             /\ hdpl' = IF asmJob.copy.here THEN hdpl
                        ELSE [hdpl EXCEPT ![d] = [here |-> TRUE, since |-> events,
                                                  first |-> label, labels |-> {label}]]
             /\ asmPc' = "next"
             /\ asmJob' = [asmJob EXCEPT !.todo = @ \ {asmJob.at}, !.at = Absent, !.copy = Absent]
          \/ /\ ~Current(d, asmJob.copy)
             /\ AsmFail /\ UNCHANGED hdpl
    /\ UNCHANGED <<app, asm, caches, asmQueue, appWorker, events>>

\* The Deployable is updated if the cache held it, else created.
WriteDeployable ==
    /\ asmPc = "write"
    /\ LET d     == DeployableOf(asmJob.at)
           label == LabelOf(asmJob.name, asmJob.app)
       IN \/ /\ Current(d, asmJob.copy)
             /\ hdpl' = IF asmJob.copy.here THEN [hdpl EXCEPT ![d].labels = @ \cup {label}]
                        ELSE [hdpl EXCEPT ![d] = [here |-> TRUE, since |-> events,
                                                  first |-> label, labels |-> {label}]]
             /\ asmPc' = "next"
             /\ asmJob' = [asmJob EXCEPT !.todo = @ \ {asmJob.at}, !.at = Absent, !.copy = Absent]
          \/ /\ ~Current(d, asmJob.copy)
             /\ AsmFail /\ UNCHANGED hdpl
    /\ UNCHANGED <<app, asm, caches, asmQueue, appWorker, events>>

\* Mutant: the error of a component is logged only.
ConcludeReconcile_logged ==
    /\ asmPc = "conclude" \/ (asmPc = "next" /\ asmJob.todo = {})
    /\ asmQueue' = IF asm[asmJob.name] = asmJob.inst THEN asmQueue
                   ELSE asmQueue \cup {asmJob.name}
    /\ asmPc' = "idle" /\ asmJob' = NoAsmJob
    /\ UNCHANGED <<store, caches, appWorker, events>>

\* The phase is written with the copy read at the start; an error of either requeues.
ConcludeReconcile ==
    /\ asmPc = "conclude" \/ (asmPc = "next" /\ asmJob.todo = {})
    /\ asmQueue' = IF asmJob.ok /\ asm[asmJob.name] = asmJob.inst THEN asmQueue
                   ELSE asmQueue \cup {asmJob.name}
    /\ asmPc' = "idle" /\ asmJob' = NoAsmJob
    /\ UNCHANGED <<store, caches, appWorker, events>>

Assemble ==
    \/ GetOrCreateApplication \/ UpdateApplication \/ WriteDeployable \/ ConcludeReconcile
    \/ \E p \in Part : FromObject(p)
-----------------------------------------------------------------------------
(***************************************************************************)
(* The Application controller.                                             *)
(***************************************************************************)
AppDone == appPc' = "idle" /\ appJob' = NoAppJob /\ UNCHANGED appQueue
AppFail == appPc' = "idle" /\ appJob' = NoAppJob /\ appQueue' = appQueue \cup {appJob.name}

\* The Application is read from the cache.
StartApplication(a) ==
    /\ appPc = "idle" /\ a \in appQueue
    /\ appQueue' = appQueue \ {a}
    /\ \/ cApp[a] = Absent /\ UNCHANGED <<appPc, appJob>>
       \/ /\ cApp[a] # Absent
          /\ appPc' = IF cApp[a].mark = "asked" THEN "look" ELSE "fetch"
          /\ appJob' = [NoAppJob EXCEPT !.name = a, !.app = cApp[a]]
    /\ UNCHANGED <<store, caches, asmWorker, events>>

\* Whether it has an assembler is read from the cache later, after its ManifestWorks are written
\* (ApplicationController has those).
LookForAssembler ==
    /\ appPc = "look"
    /\ appPc' = IF cAsm[appJob.name] = Absent THEN "compose" ELSE "fetch"
    /\ UNCHANGED <<store, caches, asmWorker, appQueue, appJob, events>>

\* Objects and Deployables are listed at the server, ManifestWorks in the cache and only while
\* discovery is on.  The label of an Application is on Deployables only.
Fetched(a, x) ==
    CASE x.selector = "nil"  -> {}
      [] x.selector = "user" -> Wants[a]
      [] x.selector = "own"  -> {d \in Deployable : hdpl[d].here /\ LabelOf(a, x) \in hdpl[d].labels}

\* What the selector matches becomes the layout, Deployables included (up to the bound).
ComposeAssembler ==
    /\ appPc = "compose"
    /\ appPc' = "create"
    /\ appJob' = [appJob EXCEPT !.parts = {p \in Fetched(appJob.name, appJob.app) : p[2] < Depth}]
    /\ UNCHANGED <<store, caches, asmWorker, appQueue, events>>

CreateAssembler ==
    /\ appPc = "create"
    /\ \/ /\ asm[appJob.name] = Absent
          /\ asm' = [asm EXCEPT ![appJob.name] = [uid |-> events, for |-> appJob.app.uid,
                                                  layout |-> appJob.parts]]
          /\ appPc' = "annotate" /\ appJob' = [appJob EXCEPT !.parts = {}] /\ UNCHANGED appQueue
       \/ /\ asm[appJob.name] # Absent
          /\ AppFail /\ UNCHANGED asm
    /\ UNCHANGED <<app, hdpl, caches, asmWorker, events>>

Completed(x) == [x EXCEPT !.mark = "done", !.rev = @ + 1]

\* Both annotations are completed by an Update of the copy read at the start.
UpdateDiscoveryAnnotations ==
    /\ appPc = "annotate"
    /\ \/ /\ app[appJob.name] = appJob.app
          /\ app' = [app EXCEPT ![appJob.name] = Completed(appJob.app)]
          /\ appPc' = "fetch" /\ appJob' = [appJob EXCEPT !.app = Completed(appJob.app)]
          /\ UNCHANGED appQueue
       \/ /\ app[appJob.name] # appJob.app
          /\ AppFail /\ UNCHANGED app
    /\ UNCHANGED <<asm, hdpl, caches, asmWorker, events>>

FetchComponents ==
    /\ appPc = "fetch"
    /\ LET parts == Fetched(appJob.name, appJob.app)
       IN \/ parts = appJob.app.status /\ AppDone
          \/ /\ parts # appJob.app.status
             /\ appPc' = "status" /\ appJob' = [appJob EXCEPT !.parts = parts]
             /\ UNCHANGED appQueue
    /\ UNCHANGED <<store, caches, asmWorker, events>>

Listed(x, parts) == [x EXCEPT !.status = parts, !.rev = @ + 1]

\* An error of the status update is logged, and the reconcile is not repeated.
UpdateStatus ==
    /\ appPc = "status"
    /\ app' = IF app[appJob.name] = appJob.app
              THEN [app EXCEPT ![appJob.name] = Listed(appJob.app, appJob.parts)] ELSE app
    /\ AppDone
    /\ UNCHANGED <<asm, hdpl, caches, asmWorker, events>>

Discovering ==
    \/ LookForAssembler \/ ComposeAssembler \/ CreateAssembler \/ UpdateDiscoveryAnnotations
    \/ FetchComponents \/ UpdateStatus
-----------------------------------------------------------------------------
(***************************************************************************)
(* The informer caches catch up, and the watches of both controllers see   *)
(* the change.                                                             *)
(***************************************************************************)
\* Mutant: the watch of Applications delivers changes of the spec only.
SyncApplications_spec ==
    /\ cApp # app /\ cApp' = app
    /\ appQueue' = appQueue \cup {a \in App : app[a] # Absent
                                   /\ (cApp[a] # Absent => \/ cApp[a].uid # app[a].uid
                                                           \/ cApp[a].selector # app[a].selector)}
    /\ UNCHANGED <<store, cAsm, cHdpl, asmWorker, appPc, appJob, events>>

\* The watch of Applications has no predicate: every change is delivered.
SyncApplications ==
    /\ cApp # app /\ cApp' = app
    /\ appQueue' = appQueue \cup {a \in App : cApp[a] # app[a]}
    /\ UNCHANGED <<store, cAsm, cHdpl, asmWorker, appPc, appJob, events>>

\* An assembler that appears, disappears or has another spec.
SyncAssemblers ==
    /\ cAsm # asm /\ cAsm' = asm
    /\ asmQueue' = asmQueue \cup {a \in App : cAsm[a] # asm[a]}
    /\ UNCHANGED <<store, cApp, cHdpl, asmPc, asmJob, appWorker, events>>

\* The cached Applications whose selector matches a Deployable; a nil selector matches all.
Matching(labels) ==
    {a \in App : cApp[a] # Absent /\ \/ cApp[a].selector = "nil"
                                     \/ cApp[a].selector = "own" /\ LabelOf(a, cApp[a]) \in labels}

\* The mapper queues the first that matches, of a list in any order.
Told(labels) == IF Matching(labels) = {} THEN {{}} ELSE {{a} : a \in Matching(labels)}

\* Mutant: the watch of Deployables delivers creations only.
SyncDeployable_createOnly(d) ==
    /\ cHdpl[d] # hdpl[d] /\ cHdpl' = [cHdpl EXCEPT ![d] = hdpl[d]]
    /\ LET another == hdpl[d].here # cHdpl[d].here \/ hdpl[d].since # cHdpl[d].since
       IN \/ ~another /\ UNCHANGED appQueue
          \/ /\ another
             /\ \E new \in IF hdpl[d].here THEN Told({hdpl[d].first}) ELSE {{}} :
                   appQueue' = appQueue \cup new
    /\ UNCHANGED <<store, cApp, cAsm, asmWorker, appPc, appJob, events>>

\* The watch of Deployables delivers that one was made, with the label it had then, and that
\* one was deleted, with the labels it had at last; updates are filtered.
SyncDeployable(d) ==
    /\ cHdpl[d] # hdpl[d] /\ cHdpl' = [cHdpl EXCEPT ![d] = hdpl[d]]
    /\ LET another == hdpl[d].here # cHdpl[d].here \/ hdpl[d].since # cHdpl[d].since
       IN \/ ~another /\ UNCHANGED appQueue
          \/ /\ another
             /\ \E new \in IF hdpl[d].here THEN Told({hdpl[d].first}) ELSE Told(hdpl[d].labels),
                   old \in IF hdpl[d].here /\ cHdpl[d].here THEN Told(cHdpl[d].labels) ELSE {{}} :
                      appQueue' = appQueue \cup new \cup old
    /\ UNCHANGED <<store, cApp, cAsm, asmWorker, appPc, appJob, events>>

Sync == SyncApplications \/ SyncAssemblers \/ \E d \in Deployable : SyncDeployable(d)
-----------------------------------------------------------------------------
(***************************************************************************)
(* Everybody else.  Each event is allowed by Event, at most MaxEvents      *)
(* happen; discovery on managed clusters is not counted.                   *)
(***************************************************************************)
Happens(e) == e \in Event /\ events < MaxEvents /\ events' = events + 1

Stamp == events + 1

ApplyApplication(a) ==
    /\ Happens("apply") /\ app[a] = Absent
    /\ \E foreign \in BOOLEAN : app' = [app EXCEPT ![a] = Asking(Stamp, foreign)]
    /\ UNCHANGED <<asm, hdpl, caches, asmWorker, appWorker>>

ListAssembler(a) ==
    /\ Happens("list") /\ asm[a] = Absent
    /\ \E l \in Lists[a] :
          asm' = [asm EXCEPT ![a] = [uid |-> Stamp, for |-> Absent, layout |-> l]]
    /\ UNCHANGED <<app, hdpl, caches, asmWorker, appWorker>>

\* (A list that becomes empty is left to AssemblerController.)
EditAssembler(a) ==
    /\ Happens("edit") /\ asm[a] # Absent
    /\ \E l \in SUBSET Wants[a] : l # {} /\ asm' = [asm EXCEPT ![a].layout = l]
    /\ UNCHANGED <<app, hdpl, caches, asmWorker, appWorker>>

DeleteAssembler(a) ==
    /\ Happens("unlist") /\ asm[a] # Absent
    /\ asm' = [asm EXCEPT ![a] = Absent]
    /\ UNCHANGED <<app, hdpl, caches, asmWorker, appWorker>>

DeleteApplication(a) ==
    /\ Happens("drop") /\ app[a] # Absent
    /\ app' = [app EXCEPT ![a] = Absent]
    /\ UNCHANGED <<asm, hdpl, caches, asmWorker, appWorker>>

\* The garbage collector deletes an Application whose owner is gone.
CollectApplication(a) ==
    /\ Happens("collect") /\ app[a] # Absent /\ app[a].owner # Absent
    /\ asm[a] = Absent \/ (asm[a] # Absent /\ asm[a].uid # app[a].owner)
    /\ app' = [app EXCEPT ![a] = Absent]
    /\ UNCHANGED <<asm, hdpl, caches, asmWorker, appWorker>>

DeleteDeployable(d) ==
    /\ Happens("gone") /\ hdpl[d].here
    /\ hdpl' = [hdpl EXCEPT ![d].here = FALSE, ![d].since = Stamp]
    /\ UNCHANGED <<app, asm, caches, asmWorker, appWorker>>

\* A call of a reconcile fails, and its error is returned; that a call took effect and then
\* failed is a failure of the next.  Errors that are only logged are in ApplicationController.
\* When the Update of the Application failed of something that is over at once, the
\* Status().Update that follows clears the status.
ApiFault ==
    /\ Happens("fault")
    /\ \/ /\ asmPc \in {"app", "update", "next", "write"}
          /\ AsmFail
          /\ \/ UNCHANGED app
             \/ /\ asmPc = "update" /\ app[asmJob.name] = asmJob.app /\ asmJob.app.status # {}
                /\ app' = [app EXCEPT ![asmJob.name] = Listed(asmJob.app, {})]
          /\ UNCHANGED <<asmQueue, appWorker>>
       \/ /\ asmPc = "conclude"
          /\ asmPc' = "idle" /\ asmJob' = NoAsmJob /\ asmQueue' = asmQueue \cup {asmJob.name}
          /\ UNCHANGED <<app, appWorker>>
       \/ /\ appPc \in {"look", "compose", "create", "annotate"}
          /\ AppFail
          /\ UNCHANGED <<app, asmWorker>>
    /\ UNCHANGED <<asm, hdpl, caches>>

\* The process starts again: every cache is listed anew, and every object queued.
Crash ==
    /\ Happens("crash")
    /\ cApp' = app /\ cAsm' = asm /\ cHdpl' = hdpl
    /\ asmQueue' = {a \in App : asm[a] # Absent} /\ asmPc' = "idle" /\ asmJob' = NoAsmJob
    /\ appQueue' = {a \in App : app[a] # Absent} /\ appPc' = "idle" /\ appJob' = NoAppJob
    /\ UNCHANGED store

Environment ==
    \/ \E a \in App : \/ ApplyApplication(a) \/ ListAssembler(a) \/ EditAssembler(a)
                      \/ DeleteAssembler(a) \/ DeleteApplication(a) \/ CollectApplication(a)
    \/ \E d \in Deployable : DeleteDeployable(d)
    \/ ApiFault \/ Crash
-----------------------------------------------------------------------------
\* Users have applied the Applications, and ask for assemblers of what is discovered.
Init ==
    /\ app = [a \in App |-> Asking(0, FALSE)]
    /\ asm = [a \in App |-> Absent]
    /\ hdpl = [d \in Deployable |-> NoDeployable]
    /\ cApp = app /\ cAsm = asm /\ cHdpl = hdpl
    /\ asmQueue = {} /\ asmPc = "idle" /\ asmJob = NoAsmJob
    /\ appQueue = App /\ appPc = "idle" /\ appJob = NoAppJob
    /\ events = 0

Next ==
    \/ \E a \in App : StartAssembler(a) \/ StartApplication(a)
    \/ Assemble \/ Discovering \/ Sync \/ Environment

Spec == Init /\ [][Next]_vars

\* The workers never stop, the queues are FIFOs, the watches deliver.
Fairness ==
    /\ WF_vars(Assemble) /\ WF_vars(Discovering)
    /\ \A a \in App : SF_vars(StartAssembler(a)) /\ SF_vars(StartApplication(a))
    /\ WF_vars(SyncApplications) /\ WF_vars(SyncAssemblers)
    /\ \A d \in Deployable : WF_vars(SyncDeployable(d))

FairSpec == Spec /\ Fairness
-----------------------------------------------------------------------------
(***************************************************************************)
(* Properties.                                                             *)
(***************************************************************************)
\* Every object, cached copy and local variable is what its kind says.
TypeOK ==
    /\ app \in [App -> Maybe(Application)] /\ cApp \in [App -> Maybe(Application)]
    /\ asm \in [App -> Maybe(Assembler)] /\ cAsm \in [App -> Maybe(Assembler)]
    /\ hdpl \in [Deployable -> StoredDeployable] /\ cHdpl \in [Deployable -> StoredDeployable]
    /\ asmQueue \subseteq App /\ appQueue \subseteq App /\ events \in Nat
    /\ asmPc \in {"idle", "app", "update", "next", "write", "conclude"} /\ asmJob \in AsmJob
    /\ appPc \in {"idle", "look", "compose", "create", "annotate", "fetch", "status"} /\ appJob \in AppJob

\* Two workers write one Application, each its own fields, from copies of any age: neither
\* undoes what the other has written, nor writes into the Application of a later user.
WritesKept ==
    [][events' = events =>
          \A a \in App : app[a] # Absent =>
              /\ app'[a] # Absent /\ app'[a].uid = app[a].uid
              /\ app[a].selector = "own" => app'[a].selector = "own"
              /\ app[a].mark = "done" => app'[a].mark = "done"]_vars

\* The Application controller learns of Deployables from the watch alone: each one made with
\* the label of an Application ends up in its status, and none that is gone stays there.
StatusTells(a) ==
    app[a] # Absent /\ app[a].selector = "own" =>
        /\ \A d \in Deployable :
              hdpl[d].here /\ hdpl[d].first = LabelOf(a, app[a]) => d \in app[a].status
        /\ \A d \in app[a].status :
              d \in Deployable /\ hdpl[d].here /\ LabelOf(a, app[a]) \in hdpl[d].labels

EventuallyListed == \A a \in App : <>[]StatusTells(a)

\* An assembler, by uid, has taken an Application over: it owns it, or has written its selector
\* where another controller does.
Owned(a, uid) ==
    app[a] # Absent /\ IF app[a].foreign THEN app[a].selector = "own" ELSE app[a].owner = uid

\* Each component has a Deployable with the label of the Application, unless somebody deleted it.
Supplied(a) ==
    \A p \in asm[a].layout :
        LET d == hdpl[DeployableOf(p)]
        IN IF d.here THEN LabelOf(a, app[a]) \in d.labels ELSE d.since > 0

\* An Application that an assembler has taken over selects its own label; and if all hub components
\* of the assembler exist, their Deployables end up with that label.  (A component that is gone
\* ends every reconcile, and nothing is promised of those that the list has after it.)
Taken(a) ==
    asm[a] # Absent /\ Owned(a, asm[a].uid) =>
        /\ app[a].selector = "own"
        /\ (\A p \in asm[a].layout : p \in Deployable => hdpl[p].here) => Supplied(a)

EventuallyTaken == \A a \in App : <>[]Taken(a)

\* One Application, or several: the mapper tells of a Deployable only one of those it matches.
Alone == \A a, b \in App : a = b

\* Nothing but the watch of assemblers and its own requests brings the assembler's worker back:
\* once no request is queued, in progress or about to come, each component of an assembler
\* that has taken its Application over has a Deployable of the label of that Application, unless
\* somebody deleted it, whatever stopped earlier reconciles half way.  (Others may make a
\* Deployable that was deleted again, without the label, if there are other assemblers.)
TakenAtRest ==
    Alone \/ "gone" \notin Event =>
        \A a \in App :
            /\ asm[a] # Absent /\ Owned(a, asm[a].uid)
            /\ a \notin asmQueue /\ cAsm[a] = asm[a] /\ (asmPc = "idle" \/ asmJob.name # a)
            => Supplied(a)

\* The watch has told what there is to tell of a Deployable: not of its labels.
Seen(d) == cHdpl[d].here = hdpl[d].here /\ cHdpl[d].since = hdpl[d].since

\* The status is right about the Deployables that the watch has told of.
Right(a) ==
    /\ app[a].status \subseteq Deployable
    /\ \A d \in app[a].status : LabelOf(a, app[a]) \in hdpl[d].labels
    /\ \A d \in Deployable : Seen(d) =>
          /\ hdpl[d].here /\ hdpl[d].first = LabelOf(a, app[a]) => d \in app[a].status
          /\ d \in app[a].status => hdpl[d].here

\* Once no request for an Application is queued, in progress or about to come from its watch, its
\* status is right: no news of a Deployable is lost while the other worker, faults, restarts and
\* late caches get in between, where there is one Application, or none is created or deleted.
ListedAtRest ==
    Alone \/ Event \cap {"gone", "drop", "collect"} = {} =>
        \A a \in App :
            /\ app[a] # Absent /\ app[a].selector = "own"
            /\ a \notin appQueue /\ cApp[a] = app[a] /\ (appPc = "idle" \/ appJob.name # a)
            => Right(a)

\* "AssemblerCreationCompleted indicates the process of creating the assembler CR has
\* finished successfully" (applicationassembler_types.go).
EventuallyCompleted ==
    \A a \in App : <>[](app[a] # Absent /\ asm[a] # Absent /\ asm[a].for = app[a].uid
                            => app[a].mark # "asked")
=============================================================================
