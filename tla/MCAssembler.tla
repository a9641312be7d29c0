----------------------------- MODULE MCAssembler -----------------------------
(***************************************************************************)
(* Instances of AssemblerController for TLC.  Two assemblers share their   *)
(* components; the remote object and the ManifestWork live on one cluster, *)
(* so that their placement rules can be shared.                            *)
(***************************************************************************)
EXTENDS AssemblerController, TLC

CONSTANTS a1, a2, o1, r1, w1, nO, nR, nW, c1, kubernetes, other, d1

MCNameOf    == [c \in Component |-> CASE c = o1 -> nO [] c = r1 -> nR [] c = w1 -> nW]
MCClusterOf == [c \in RemoteObject \cup Work |-> c1]
MCTypeOf    == [d \in Deployer |-> other]
MCServes    == [d \in Deployer |-> {o1}]
MCOverride  == [c \in HubObject \cup Work |-> Absent]

\* One component of each kind: two assemblers share it, or a rule for their cluster.
SingleComponents == {<<o1>>, <<r1>>, <<w1>>}

\* A hub component comes before one of a managed cluster; an edit drops both, or lists them again.
ShrinkingComponents == {<<o1, r1>>, <<>>}

AssemblerSymmetry == Permutations({a1, a2})

\* A change of a kind, in the store or in its cache, matters to nobody before the worker's
\* next call that uses that kind: it is explored just before such a call only.  (A restart
\* lists every kind at once.)  Every order that the worker can tell apart remains.
Restarts == caches' = <<asm, app, hdpl, rule, work>> /\ pc' = "idle" /\ pc # "conclude"

\* The worker is about to look at a component of these.
At(components) == InLoop /\ Current \in components

JustInTime ==
    \/ Restarts
    \/ /\ <<asm, cAsm>>' # <<asm, cAsm>> => pc \in {"idle", "conclude"}
       /\ <<app, cApp>>' # <<app, cApp>> => pc \in {"app", "selector"}
       /\ <<hdpl, cHdpl>>' # <<hdpl, cHdpl>> => InLoop \/ pc = "write"
       /\ <<rule, cRule, clusters>>' # <<rule, cRule, clusters>> => pc \in {"rule", "check"}
       /\ obj' # obj => At(HubObject) \/ pc = "patchObject"
       /\ <<work, cWork>>' # <<work, cWork>> => At(Work) \/ pc = "patchWork"
       /\ <<deployers, mapped>>' # <<deployers, mapped>> => At(HubObject)
==============================================================================
