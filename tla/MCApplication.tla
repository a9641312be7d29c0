---------------------------- MODULE MCApplication ----------------------------
(***************************************************************************)
(* Instances of ApplicationController for TLC.                             *)
(***************************************************************************)
EXTENDS ApplicationController, TLC

CONSTANTS a1, c1, local, h1, h2, f1, f2, d1, d2

MCClusterOf == [f \in Found |-> c1]
\* A Deployable is delivered by two ManifestWorks of one cluster.
MCDelivery  == (d1 :> h1 @@ d2 :> h1)
MCPlace     == (d1 :> c1 @@ d2 :> c1)
MCNone      == [d \in {} |-> d]
MCSelector  == (a1 :> Hdpl \cup Found)

Asks(d, m, t) == [disc |-> d, make |-> m, target |-> t]

\* Nothing, discovery on every cluster, and discovery for an assembler.
Requests == {Asks("off", "off", "all"), Asks("on", "off", "all"), Asks("on", "on", "all")}

\* Targets that are a cluster, nothing this controller supports, or no reference at all.
Targeting == {Asks("off", "off", "all"), Asks("on", "on", c1), Asks("on", "on", "unsupported"),
              Asks("on", "off", "malformed")}

\* A change of a kind, in the store or in its cache, matters to nobody before the worker's
\* next call that uses that kind: it is explored just before such a call only.  (A restart
\* lists every kind at once.)  Every order that the worker can tell apart remains.
Restarts == caches' = <<app, asm, hdpl, works, found, cm>> /\ pc' = "idle"
            /\ queue' = {a \in App : app[a] # Absent}

\* What is discovered is read while discovery is on.
Discovering == pc \in {"compose", "fetch"} /\ job.app.disc = "on"

JustInTime ==
    \/ Restarts
    \/ joined' # joined /\ pc \in {"idle", "works", "compose", "annotate", "drop", "sweep"}
    \/ /\ joined' = joined
       /\ <<app, cApp>>' # <<app, cApp>> => pc \in {"idle", "annotate", "status"}
       /\ <<asm, cAsm>>' # <<asm, cAsm>> => pc \in {"works", "create"}
       /\ hdpl' # hdpl => pc \in {"idle", "compose", "fetch", "relate"}
       /\ cHdpl' # cHdpl => pc \in {"idle", "relate"}
       /\ <<works, cWorks>>' # <<works, cWorks>> => pc \in {"works", "drop", "sweep"}
       /\ found' # found => pc = "works" \/ Discovering
       /\ cFound' # cFound => pc \in {"works", "drop", "sweep"} \/ Discovering
       /\ <<cm, cCm>>' # <<cm, cCm>> => pc \in {"relate", "unmap"}
==============================================================================
