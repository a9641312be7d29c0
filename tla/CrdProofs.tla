------------------------------- MODULE CrdProofs -------------------------------
(***************************************************************************)
(* CrdController, for any kinds, versions and events: its types, and that  *)
(* no definition is forgotten.                                             *)
(***************************************************************************)
EXTENDS CrdController, TLAPS

\* What discovery answers are kinds and versions.
LEMMA DiscoverableTyped ==
    ASSUME NEW defs
    PROVE  Discoverable(defs) \subseteq Kind \X Version
BY DEF Discoverable

\* A write of a definition, which discovery follows at once or later.
LEMMA WriteTyped ==
    ASSUME TypeOK, NEW k \in Kind, NEW d \in Definition, Write(k, d), events' \in Nat
    PROVE  TypeOK'
<1>1. crd' \in [Kind -> Definition]
  BY DEF Write, TypeOK
<1>2. served' \subseteq Kind \X Version
  BY DiscoverableTyped DEF Write, TypeOK
<1> QED
  BY <1>1, <1>2 DEF Write, TypeOK

LEMMA EnvironmentTyped ==
    ASSUME TypeOK, Environment
    PROVE  TypeOK'
<1>1. Stamp \in Nat /\ (events' = events + 1 => events' \in Nat)
  BY DEF Stamp, TypeOK
<1>2. ASSUME NEW k \in Kind, NEW vs \in SUBSET Version, Define(k, vs)
      PROVE  TypeOK'
  <2>1. [versions |-> vs, established |-> FALSE, since |-> Stamp] \in Definition
    BY <1>1 DEF Definition
  <2> QED
    BY <1>1, <1>2, <2>1, WriteTyped DEF Define, Happens
<1>3. ASSUME NEW k \in Kind, NEW v \in Version, AddVersion(k, v)
      PROVE  TypeOK'
  <2>1. crd[k] \in Definition
    BY DEF TypeOK
  <2>2. [crd[k] EXCEPT !.versions = @ \cup {v}, !.since = Stamp] \in Definition
    BY <1>1, <2>1 DEF Definition
  <2> QED
    BY <1>1, <1>3, <2>2, WriteTyped DEF AddVersion, Happens
<1>4. ASSUME NEW k \in Kind, Remove(k)
      PROVE  TypeOK'
  <2>1. [versions |-> {}, established |-> FALSE, since |-> Stamp] \in Definition
    BY <1>1 DEF Definition
  <2> QED
    BY <1>1, <1>4, <2>1, WriteTyped DEF Remove, Happens
<1>5. ASSUME NEW k \in Kind, Establish(k)
      PROVE  TypeOK'
  <2>1. crd[k] \in Definition
    BY DEF TypeOK
  <2>2. [crd[k] EXCEPT !.established = TRUE] \in Definition
    BY <2>1 DEF Definition
  <2>3. events' \in Nat
    BY <1>5 DEF Establish, TypeOK
  <2> QED
    BY <1>5, <2>2, <2>3, WriteTyped DEF Establish
<1>6. CASE Publish \/ RebuildFails
  BY <1>1, <1>6, DiscoverableTyped DEF Publish, RebuildFails, Happens, TypeOK
<1>7. CASE Crash
  <2>1. UNCHANGED <<crd, served>> /\ cCrd' = crd /\ known' \in {served, {}} /\ pc' = "idle"
        /\ events' \in Nat /\ missed' \in BOOLEAN
    BY <1>1, <1>7 DEF Crash, Happens
  <2>2. queue' \subseteq Kind
    BY <1>7 DEF Crash
  <2> QED
    BY <2>1, <2>2 DEF TypeOK
<1> QED
  BY <1>2, <1>3, <1>4, <1>5, <1>6, <1>7 DEF Environment

\* Every variable is what its kind says: the map, replaced whole by whatever discovery answers
\* at the time, holds kinds and versions there are (customresourcedefinition_controller.go,
\* helper.go:66-94).
THEOREM TypesOK == Spec => []TypeOK
<1>1. Init => TypeOK
  <2>1. [versions |-> {}, established |-> FALSE, since |-> 0] \in Definition
    BY DEF Definition
  <2>2. Init => crd \in [Kind -> Definition] /\ cCrd \in [Kind -> Definition]
    BY <2>1 DEF Init
  <2>3. Init => missed \in BOOLEAN
    BY Zenon DEF Init
  <2> QED
    BY <2>2, <2>3 DEF Init, TypeOK
<1>2. TypeOK /\ [Next]_vars => TypeOK'
  <2> SUFFICES ASSUME TypeOK, [Next]_vars
               PROVE  TypeOK'
    OBVIOUS
  <2>1. CASE \E k \in Kind : Reconcile(k)
    BY <2>1 DEF Reconcile, TypeOK
  <2>2. CASE RebuildGVKGVRMap
    BY <2>2 DEF RebuildGVKGVRMap, TypeOK
  <2>3. CASE SyncDefinitions
    BY <2>3 DEF SyncDefinitions, TypeOK
  <2>4. CASE UNCHANGED vars
    BY <2>4 DEF vars, TypeOK
  <2> QED
    BY <2>1, <2>2, <2>3, <2>4, EnvironmentTyped DEF Next
<1> QED
  BY <1>1, <1>2, PTL DEF Spec
-----------------------------------------------------------------------------
(***************************************************************************)
(* No definition is forgotten.                                             *)
(***************************************************************************)
\* Stamps only grow, and the cache holds an earlier state of each definition: what is written
\* next is never what the cache holds.
Older(k) ==
    /\ crd[k].since <= events /\ cCrd[k].since <= crd[k].since
    /\ cCrd[k].since = crd[k].since => (cCrd[k].established => crd[k].established)

StampInv == \A k \in Kind : Older(k)

ForgottenInv == StampInv /\ NoneForgotten

\* A map that was rebuilt from a discovery that lags behind nothing is in step.
LEMMA RebuiltInStep ==
    ASSUME TypeOK, NEW k \in Kind, Defined(crd[k]) => crd[k].established,
           known' = Discoverable(crd), crd' = crd
    PROVE  InStep(k)'
<1>0. crd[k] \in Definition /\ crd[k].versions \subseteq Version
  BY DEF TypeOK, Definition
<1>1. CASE Defined(crd[k])
  <2>1. PICK v \in crd[k].versions : \A u \in crd[k].versions : u <= v
    BY <1>0, <1>1, VersionsAssumption DEF Defined
  <2>2. v \in Preferred(crd[k].versions)
    BY <2>1 DEF Preferred
  <2>3. <<k, v>> \in Kind \X Version
    BY <1>0, <2>1
  <2>4. <<k, v>> \in known'
    BY <1>1, <2>2, <2>3 DEF Discoverable
  <2> QED
    BY <1>1, <2>1, <2>4 DEF InStep
<1>2. CASE ~Defined(crd[k])
  <2>1. \A v \in Version : <<k, v>> \notin known'
    BY <1>2 DEF Discoverable, Preferred, Defined
  <2> QED
    BY <1>2, <2>1 DEF InStep
<1> QED
  BY <1>1, <1>2

\* A write that gives a definition a new stamp, or establishes it.
LEMMA WriteForgetsNone ==
    ASSUME TypeOK, ForgottenInv, NEW k \in Kind, NEW d \in Definition, Write(k, d),
           events' \in Nat, events <= events',
           \/ d.since = Stamp /\ events' = events + 1
           \/ d.since = crd[k].since /\ ~crd[k].established /\ d.established
    PROVE  ForgottenInv'
<1>0. /\ crd' = [crd EXCEPT ![k] = d] /\ UNCHANGED <<cCrd, queue, pc, known, missed>>
      /\ crd \in [Kind -> Definition] /\ cCrd \in [Kind -> Definition] /\ events \in Nat
  BY DEF Write, TypeOK
<1>1. cCrd[k].since \in Nat /\ crd[k].since \in Nat /\ Older(k)
  BY <1>0 DEF Definition, ForgottenInv, StampInv
<1>2. cCrd[k] # d
  BY <1>0, <1>1 DEF Older, Stamp
<1>3. Older(k)'
  BY <1>0, <1>1 DEF Older, Stamp
<1>4. ASSUME NEW j \in Kind, j # k
      PROVE  Older(j)' /\ (missed \/ Pending(j) \/ InStep(j))'
  <2>1. crd'[j] = crd[j] /\ crd[j].since \in Nat
    BY <1>0, <1>4 DEF Definition
  <2>2. Older(j)'
    BY <1>0, <2>1 DEF ForgottenInv, StampInv, Older
  <2>3. missed \/ Pending(j) \/ InStep(j)
    BY DEF ForgottenInv, NoneForgotten
  <2> QED
    BY <1>0, <2>1, <2>2, <2>3 DEF Pending, InStep
<1>5. Pending(k)'
  BY <1>0, <1>2 DEF Pending
<1> QED
  BY <1>3, <1>4, <1>5 DEF ForgottenInv, StampInv, NoneForgotten

LEMMA ForgottenStep ==
    ASSUME TypeOK, ForgottenInv, [Next]_vars
    PROVE  ForgottenInv'
<1>0. /\ \A k \in Kind : crd[k] \in Definition /\ crd[k].since \in Nat /\ cCrd[k].since \in Nat
      /\ events \in Nat
  BY DEF TypeOK, Definition
<1>1. ASSUME UNCHANGED <<crd, cCrd, events>>
      PROVE  StampInv'
  BY <1>1 DEF ForgottenInv, StampInv, Older
<1>2. CASE UNCHANGED vars
  BY <1>1, <1>2 DEF vars, ForgottenInv, NoneForgotten, Pending, InStep
<1>3. ASSUME NEW k \in Kind, Reconcile(k)
      PROVE  ForgottenInv'
  <2>0. UNCHANGED <<crd, cCrd, known, missed, events>> /\ queue' = queue \ {k} /\ pc = "idle"
    BY <1>3 DEF Reconcile
  <2>1. ASSUME NEW j \in Kind, ~missed
        PROVE  (Pending(j) \/ InStep(j))'
    <3>1. CASE pc' = "rebuild"
      BY <3>1 DEF Pending
    <3>2. CASE pc' # "rebuild" /\ j = k
      <4>1. PICK v \in cCrd[k].versions : <<k, v>> \in known
        BY <1>3, <3>2 DEF Reconcile
      <4> QED
        BY <2>0, <3>2, <4>1 DEF Pending, InStep, Defined
    <3>3. CASE j # k
      BY <2>0, <2>1, <3>3 DEF ForgottenInv, NoneForgotten, Pending, InStep
    <3> QED
      BY <3>1, <3>2, <3>3
  <2> QED
    BY <1>1, <2>0, <2>1 DEF ForgottenInv, NoneForgotten
<1>4. ASSUME known' = served, missed' = (served # Discoverable(crd)), crd' = crd
      PROVE  NoneForgotten'
  <2>1. ASSUME NEW k \in Kind, ~missed'
        PROVE  (Pending(k) \/ InStep(k))'
    <3>1. known' = Discoverable(crd)
      BY <1>4, <2>1
    <3>2. CASE Defined(crd[k]) => crd[k].established
      BY <1>4, <3>1, <3>2, RebuiltInStep
    <3>3. CASE ~(Defined(crd[k]) => crd[k].established)
      BY <1>4, <3>3 DEF Pending
    <3> QED
      BY <3>2, <3>3
  <2> QED
    BY <2>1 DEF NoneForgotten
<1>5. CASE RebuildGVKGVRMap
  BY <1>1, <1>4, <1>5 DEF RebuildGVKGVRMap, ForgottenInv
<1>6. CASE SyncDefinitions
  <2>0. /\ cCrd' = crd /\ UNCHANGED <<crd, pc, known, events, missed>>
        /\ queue' = queue \cup {k \in Kind : cCrd[k] # crd[k]}
    BY <1>6 DEF SyncDefinitions
  <2>1. StampInv'
    BY <1>0, <2>0 DEF ForgottenInv, StampInv, Older
  <2>2. ASSUME NEW k \in Kind, missed \/ Pending(k) \/ InStep(k)
        PROVE  (missed \/ Pending(k) \/ InStep(k))'
    <3>1. CASE k \in queue \/ cCrd[k] # crd[k]
      BY <2>0, <3>1 DEF Pending
    <3>2. CASE missed \/ pc = "rebuild" \/ (Defined(crd[k]) /\ ~crd[k].established)
      BY <2>0, <3>2 DEF Pending
    <3>3. CASE InStep(k)
      BY <2>0, <3>3 DEF InStep
    <3> QED
      BY <2>2, <3>1, <3>2, <3>3 DEF Pending
  <2>3. \A k \in Kind : (missed \/ Pending(k) \/ InStep(k))'
    BY <2>2 DEF ForgottenInv, NoneForgotten
  <2> QED
    BY <2>1, <2>3 DEF ForgottenInv, NoneForgotten
<1>7. ASSUME NEW k \in Kind, NEW vs \in SUBSET Version, Define(k, vs)
      PROVE  ForgottenInv'
  <2>1. /\ [versions |-> vs, established |-> FALSE, since |-> Stamp] \in Definition
        /\ [versions |-> vs, established |-> FALSE, since |-> Stamp].since = Stamp
    BY <1>0 DEF Definition, Stamp
  <2> DEFINE d == [versions |-> vs, established |-> FALSE, since |-> Stamp]
  <2>2. Write(k, d) /\ events' = events + 1
    BY <1>7 DEF Define, Happens
  <2> HIDE DEF d
  <2>3. d \in Definition /\ d.since = Stamp
    BY <2>1 DEF d
  <2> QED
    BY <1>0, <2>2, <2>3, WriteForgetsNone
<1>8. ASSUME NEW k \in Kind, NEW v \in Version, AddVersion(k, v)
      PROVE  ForgottenInv'
  <2>0. crd[k].versions \cup {v} \subseteq Version /\ crd[k].established \in BOOLEAN /\ Stamp \in Nat
    BY <1>0 DEF Definition, Stamp
  <2>1. /\ [crd[k] EXCEPT !.versions = @ \cup {v}, !.since = Stamp] \in Definition
        /\ [crd[k] EXCEPT !.versions = @ \cup {v}, !.since = Stamp].since = Stamp
    BY <1>0, <2>0 DEF Definition
  <2> DEFINE d == [crd[k] EXCEPT !.versions = @ \cup {v}, !.since = Stamp]
  <2>2. Write(k, d) /\ events' = events + 1
    BY <1>8 DEF AddVersion, Happens
  <2> HIDE DEF d
  <2>3. d \in Definition /\ d.since = Stamp
    BY <2>1 DEF d
  <2> QED
    BY <1>0, <2>2, <2>3, WriteForgetsNone
<1>9. ASSUME NEW k \in Kind, Remove(k)
      PROVE  ForgottenInv'
  <2>1. /\ [versions |-> {}, established |-> FALSE, since |-> Stamp] \in Definition
        /\ [versions |-> {}, established |-> FALSE, since |-> Stamp].since = Stamp
    BY <1>0 DEF Definition, Stamp
  <2> DEFINE d == [versions |-> {}, established |-> FALSE, since |-> Stamp]
  <2>2. Write(k, d) /\ events' = events + 1
    BY <1>9 DEF Remove, Happens
  <2> HIDE DEF d
  <2>3. d \in Definition /\ d.since = Stamp
    BY <2>1 DEF d
  <2> QED
    BY <1>0, <2>2, <2>3, WriteForgetsNone
<1>10. ASSUME NEW k \in Kind, Establish(k)
       PROVE  ForgottenInv'
  <2>1. /\ [crd[k] EXCEPT !.established = TRUE] \in Definition
        /\ [crd[k] EXCEPT !.established = TRUE].since = crd[k].since
        /\ [crd[k] EXCEPT !.established = TRUE].established
    BY <1>0 DEF Definition
  <2> DEFINE d == [crd[k] EXCEPT !.established = TRUE]
  <2>2. Write(k, d) /\ ~crd[k].established /\ events' = events
    BY <1>10 DEF Establish
  <2>3. d \in Definition /\ d.since = crd[k].since /\ d.established
    BY <2>1
  <2> HIDE DEF d
  <2> QED
    BY <1>0, <2>2, <2>3, WriteForgetsNone
<1>11. CASE Publish
  BY <1>1, <1>11 DEF Publish, ForgottenInv, NoneForgotten, Pending, InStep
<1>12. CASE RebuildFails
  <2>1. StampInv'
    BY <1>0, <1>12 DEF RebuildFails, Happens, ForgottenInv, StampInv, Older
  <2> QED
    BY <1>12, <2>1 DEF RebuildFails, ForgottenInv, NoneForgotten
<1>13. CASE Crash
  <2>1. StampInv'
    BY <1>0, <1>13 DEF Crash, Happens, ForgottenInv, StampInv, Older
  <2>2. CASE missed'
    BY <2>1, <2>2 DEF ForgottenInv, NoneForgotten
  <2>3. CASE ~missed'
    BY <1>4, <1>13, <2>1, <2>3 DEF Crash, ForgottenInv
  <2> QED
    BY <2>2, <2>3
<1> QED
  BY <1>2, <1>3, <1>5, <1>6, <1>7, <1>8, <1>9, <1>10, <1>11, <1>12, <1>13 DEF Next, Environment

\* Whenever a kind is out of step with the map, something is under way that will repeat the
\* rebuild, at any interleaving of watch, worker, discovery and restarts, unless the last
\* rebuild failed or came too early (customresourcedefinition_controller.go:89-116,
\* helper.go:66-94).
THEOREM NeverForgotten == Spec => []NoneForgotten
<1>1. Init => ForgottenInv
  BY DEF Init, ForgottenInv, StampInv, Older, NoneForgotten, InStep, Defined
<1>2. TypeOK /\ ForgottenInv /\ [Next]_vars => ForgottenInv'
  BY ForgottenStep
<1>3. ForgottenInv => NoneForgotten
  BY DEF ForgottenInv
<1> QED
  BY <1>1, <1>2, <1>3, TypesOK, PTL DEF Spec
=============================================================================
