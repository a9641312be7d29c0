---------------------------- MODULE CrdController ----------------------------
(***************************************************************************)
(* The CustomResourceDefinition controller, which keeps GVKGVRMap: the     *)
(* global map from kind and version to resource in which the assembler     *)
(* looks the kinds of hub components up                                    *)
(* (src/pkg/controller/customresourcedefinition/, src/pkg/utils/helper.go).*)
(*                                                                         *)
(* The map is rebuilt from the API server's discovery, which serves the    *)
(* preferred version of each kind and may lag behind the definitions.      *)
(***************************************************************************)
EXTENDS Naturals

CONSTANTS
    Kind,           \* custom resource kinds, each with one CustomResourceDefinition
    Version,        \* the versions a kind can have; the highest is preferred
    Event,          \* the things other actors may do in this instance
    MaxEvents       \* bound on how many of them happen

EventKind == {"define", "version", "remove", "lag", "fault", "crash"}

\* The versions are finitely many: some of them have a highest.
ASSUME VersionsAssumption ==
    /\ Version \subseteq Nat
    /\ \A vs \in (SUBSET Version) \ {{}} : \E v \in vs : \A u \in vs : u <= v

ASSUME CrdBounds ==
    /\ Event \subseteq EventKind
    /\ MaxEvents \in Nat

VARIABLES
    crd,        \* CustomResourceDefinitions: their versions, and whether they are established
    served,     \* the kinds and versions that discovery answers
    cCrd,       \* the informer cache of the definitions
    queue,      \* the controller's work queue
    pc,         \* "idle", or "rebuild" before the call of the discovery client
    known,      \* GVKGVRMap
    events,     \* how many events happened
    missed      \* history: the last rebuild failed, or read a discovery that lagged

vars == <<crd, served, cCrd, queue, pc, known, events, missed>>
-----------------------------------------------------------------------------
\* A kind without versions has no definition; it is stamped when it is removed too, since a
\* watch delivers that a definition came and went.
Definition == [versions: SUBSET Version, established: BOOLEAN, since: Nat]

Defined(d) == d.versions # {}

Preferred(versions) == {v \in versions : \A u \in versions : u <= v}

\* Mutant: the map is keyed by group and kind, without the version.
Discoverable_unversioned(defs) ==
    {<<k, 0>> : k \in {j \in Kind : defs[j].established}}

\* What discovery answers when it has seen every definition.
Discoverable(defs) ==
    {kv \in Kind \X Version : LET d == defs[kv[1]]
                             IN d.established /\ kv[2] \in Preferred(d.versions)}
-----------------------------------------------------------------------------
\* Something another actor does: allowed by Event, and at most MaxEvents times.
Happens(e) == e \in Event /\ events < MaxEvents /\ events' = events + 1

Stamp == events + 1

\* Mutant: the map is left alone when a definition is gone.
Reconcile_keepsGone(k) ==
    /\ pc = "idle" /\ k \in queue
    /\ queue' = queue \ {k}
    /\ pc' = IF Defined(cCrd[k]) /\ \A v \in cCrd[k].versions : <<k, v>> \notin known
             THEN "rebuild" ELSE "idle"
    /\ UNCHANGED <<crd, served, cCrd, known, events, missed>>

\* A definition that is gone, or none of whose versions is in the map, asks for a rebuild.
\* (One that is gone has no versions here.)
Reconcile(k) ==
    /\ pc = "idle" /\ k \in queue
    /\ queue' = queue \ {k}
    /\ pc' = IF \A v \in cCrd[k].versions : <<k, v>> \notin known
             THEN "rebuild" ELSE "idle"
    /\ UNCHANGED <<crd, served, cCrd, known, events, missed>>

\* RebuildGVKGVRMap replaces the whole map by what discovery answers.
RebuildGVKGVRMap ==
    /\ pc = "rebuild" /\ pc' = "idle"
    /\ known' = served /\ missed' = (served # Discoverable(crd))
    /\ UNCHANGED <<crd, served, cCrd, queue, events>>

\* When discovery fails the map stays, and Reconcile returns no error.
RebuildFails ==
    /\ Happens("fault")
    /\ pc = "rebuild" /\ pc' = "idle" /\ missed' = TRUE
    /\ UNCHANGED <<crd, served, cCrd, queue, known>>

\* Mutant: the watch drops status updates, as the assembler's does.
SyncDefinitions_specOnly ==
    /\ cCrd # crd /\ cCrd' = crd
    /\ queue' = queue \cup {k \in Kind : cCrd[k].since # crd[k].since}
    /\ UNCHANGED <<crd, served, pc, known, events, missed>>

\* The watch has no predicate: a status update queues the definition too.
SyncDefinitions ==
    /\ cCrd # crd /\ cCrd' = crd
    /\ queue' = queue \cup {k \in Kind : cCrd[k] # crd[k]}
    /\ UNCHANGED <<crd, served, pc, known, events, missed>>
-----------------------------------------------------------------------------
(***************************************************************************)
(* The API server and its users.                                           *)
(***************************************************************************)
\* Discovery follows a definition at once, unless this instance lets it lag.
Write(k, d) ==
    /\ crd' = [crd EXCEPT ![k] = d]
    /\ \/ served' = Discoverable(crd')
       \/ "lag" \in Event /\ UNCHANGED served
    /\ UNCHANGED <<cCrd, queue, pc, known, missed>>

Define(k, vs) ==
    /\ Happens("define") /\ ~Defined(crd[k])
    /\ Write(k, [versions |-> vs, established |-> FALSE, since |-> Stamp])

AddVersion(k, v) ==
    /\ Happens("version") /\ Defined(crd[k]) /\ v \notin crd[k].versions
    /\ Write(k, [crd[k] EXCEPT !.versions = @ \cup {v}, !.since = Stamp])

Remove(k) ==
    /\ Happens("remove") /\ Defined(crd[k])
    /\ Write(k, [versions |-> {}, established |-> FALSE, since |-> Stamp])

Establish(k) ==
    /\ Defined(crd[k]) /\ ~crd[k].established
    /\ Write(k, [crd[k] EXCEPT !.established = TRUE])
    /\ UNCHANGED events

Publish ==
    /\ served # Discoverable(crd) /\ served' = Discoverable(crd)
    /\ UNCHANGED <<crd, cCrd, queue, pc, known, events, missed>>

\* The process starts again: BuildGVKGVRMap reads discovery, and there is no map when that
\* fails; every definition is queued.
Crash ==
    /\ Happens("crash")
    /\ \/ known' = served /\ missed' = (served # Discoverable(crd))
       \/ "fault" \in Event /\ known' = {} /\ missed' = TRUE
    /\ cCrd' = crd /\ queue' = {k \in Kind : Defined(crd[k])} /\ pc' = "idle"
    /\ UNCHANGED <<crd, served>>

Environment ==
    \/ \E k \in Kind : \/ \E vs \in (SUBSET Version) \ {{}} : Define(k, vs)
                       \/ \E v \in Version : AddVersion(k, v)
                       \/ Remove(k) \/ Establish(k)
    \/ Publish \/ RebuildFails \/ Crash
-----------------------------------------------------------------------------
Init ==
    /\ crd = [k \in Kind |-> [versions |-> {}, established |-> FALSE, since |-> 0]] /\ cCrd = crd
    /\ served = {} /\ known = {}
    /\ queue = {} /\ pc = "idle" /\ events = 0 /\ missed = FALSE

Next == (\E k \in Kind : Reconcile(k)) \/ RebuildGVKGVRMap \/ SyncDefinitions \/ Environment

Spec == Init /\ [][Next]_vars

\* The worker and the watch never stop; the API server establishes and publishes.
Fairness ==
    /\ WF_vars(RebuildGVKGVRMap) /\ WF_vars(SyncDefinitions) /\ WF_vars(Publish)
    /\ \A k \in Kind : SF_vars(Reconcile(k)) /\ WF_vars(Establish(k))

FairSpec == Spec /\ Fairness
-----------------------------------------------------------------------------
\* Every variable is what its kind says.
TypeOK ==
    /\ crd \in [Kind -> Definition] /\ cCrd \in [Kind -> Definition]
    /\ served \subseteq Kind \X Version /\ known \subseteq Kind \X Version
    /\ queue \subseteq Kind /\ pc \in {"idle", "rebuild"} /\ events \in Nat /\ missed \in BOOLEAN

\* The map has some version of a kind, and nothing of a kind that is gone.
InStep(k) ==
    IF ~Defined(crd[k]) THEN \A v \in Version : <<k, v>> \notin known
    ELSE \E v \in crd[k].versions : <<k, v>> \in known

\* Nothing repeats a rebuild: whenever a kind is out of step, something is under way that will
\* ask for one, so no definition is forgotten at any interleaving of the watch, the worker,
\* discovery and restarts.
Pending(k) ==
    \/ k \in queue \/ cCrd[k] # crd[k] \/ pc = "rebuild"
    \/ Defined(crd[k]) /\ ~crd[k].established

NoneForgotten == \A k \in Kind : missed \/ Pending(k) \/ InStep(k)

\* The map ends up in step with every established kind, and with every kind that is gone,
\* however definitions, their establishment and restarts interleave, as long as the last
\* rebuild did not fail or read discovery too early (nothing would repeat it).
EventuallyInStep == \A k \in Kind : <>[](missed \/ InStep(k))

\* "requeue , as the crd controller will refresh the GVKGVR map eventually" (object.go): every
\* kind and version that discovery answers can be looked up in the end.
EventuallyRefreshed == \A k \in Kind : \A v \in Version : <>[](<<k, v>> \in served => <<k, v>> \in known)
=============================================================================
