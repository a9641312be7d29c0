-------------------------- MODULE DeployableRegistry --------------------------
(***************************************************************************)
(* What assemblers promise about the Deployables they share, whatever the  *)
(* calls, copies and retries behind it: an entry is there whole or not at  *)
(* all, from the start with a placement rule of what a component of its    *)
(* name asks for; it then takes in one more application and one more       *)
(* template at a time, and loses none.  A placement rule stays as it was   *)
(* made.  Only others withdraw an entry.                                   *)
(***************************************************************************)
CONSTANTS
    Name,       \* names of entries; a placement rule has the name of an entry
    Fits,       \* the rule specs that the components of a name ask for
    Absent      \* no entry, no rule

VARIABLES
    entry,      \* name -> [labels, templates, placement], or Absent
    rule        \* name -> what the placement rule selects, or Absent

registry == <<entry, rule>>

Init ==
    /\ entry = [n \in Name |-> Absent]
    /\ rule  = [n \in Name |-> Absent]

\* new has all of old, and at most one element more.
Grown(old, new) == old \subseteq new /\ \A x, y \in new \ old : x = y

Others(n) == \A m \in Name \ {n} : entry'[m] = entry[m]

Placed(n) == \E p \in Name : entry'[n].placement = p /\ rule[p] \in Fits[n]

\* A rule is made for the first time, and nothing else happens.
MakeRule(n) ==
    /\ rule[n] = Absent /\ rule'[n] # Absent
    /\ \A m \in Name \ {n} : rule'[m] = rule[m]
    /\ UNCHANGED entry

\* An entry appears, with the label of one application and one template.
Publish(n) ==
    /\ entry[n] = Absent /\ entry'[n] # Absent
    /\ entry'[n].labels # {} /\ Grown({}, entry'[n].labels)
    /\ entry'[n].templates # {} /\ Grown({}, entry'[n].templates)
    /\ Placed(n) /\ Others(n) /\ UNCHANGED rule

\* Another application joins, or a template for another deployer is added.
Extend(n) ==
    /\ entry[n] # Absent /\ entry'[n] # Absent
    /\ Grown(entry[n].labels, entry'[n].labels)
    /\ Grown(entry[n].templates, entry'[n].templates)
    /\ Placed(n) /\ Others(n) /\ UNCHANGED rule

Withdraw(n) ==
    /\ entry[n] # Absent /\ entry'[n] = Absent
    /\ Others(n) /\ UNCHANGED rule

Next == \E n \in Name : MakeRule(n) \/ Publish(n) \/ Extend(n) \/ Withdraw(n)

Spec == Init /\ [][Next]_registry
===============================================================================
