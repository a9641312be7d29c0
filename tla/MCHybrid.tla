------------------------------- MODULE MCHybrid -------------------------------
(***************************************************************************)
(* Instances of HybridApp for TLC.                                         *)
(***************************************************************************)
EXTENDS HybridApp, TLC

CONSTANTS a1, o1

MCWants == [a \in App |-> Component]

\* Users list a component and its Deployable.
MCLists == [a \in App |-> {{p \in Part : p[2] < Depth}}]
===============================================================================
