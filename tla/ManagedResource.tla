--------------------------- MODULE ManagedResource ---------------------------
(***************************************************************************)
(* What every controller of the operator promises of one object and of     *)
(* what it makes in Oxide for it, whatever the calls in between: the       *)
(* finalizer comes before anything is made and only goes, with the object, *)
(* when nothing is left or the user asked to keep it.  ImageImport,        *)
(* Instances and each kind in Teardown implement it.                       *)
(***************************************************************************)

VARIABLES
  phase,      \* of the object at the API server
  held,       \* the object has the operator's finalizer
  protected,  \* its spec.deletionProtection
  exists      \* something the controller made for it is in Oxide

vars == <<phase, held, protected, exists>>

TypeOK ==
  /\ phase \in {"none", "live", "deleting", "absent"}
  /\ held \in BOOLEAN /\ protected \in BOOLEAN /\ exists \in BOOLEAN

Init ==
  /\ phase \in {"none", "live"} /\ protected \in BOOLEAN
  /\ held = FALSE /\ exists = FALSE

\* What users do.
Make ==
  /\ phase = "none" /\ phase' = "live"
  /\ UNCHANGED <<held, protected, exists>>

Protect ==
  /\ phase \in {"live", "deleting"} /\ protected' = ~protected
  /\ UNCHANGED <<phase, held, exists>>

Delete ==
  /\ phase = "live" /\ phase' = IF held THEN "deleting" ELSE "absent"
  /\ UNCHANGED <<held, protected, exists>>

\* What the controller does, and what becomes of things in Oxide.
Hold ==
  /\ phase = "live" /\ ~held /\ held' = TRUE
  /\ UNCHANGED <<phase, protected, exists>>

Appear ==
  /\ held /\ ~exists /\ exists' = TRUE
  /\ UNCHANGED <<phase, held, protected>>

Vanish ==
  /\ exists /\ exists' = FALSE
  /\ UNCHANGED <<phase, held, protected>>

Release ==
  /\ phase = "deleting" /\ held
  /\ exists => protected
  /\ phase' = "absent" /\ held' = FALSE
  /\ UNCHANGED <<protected, exists>>

Next == Make \/ Protect \/ Delete \/ Hold \/ Appear \/ Vanish \/ Release

Spec == Init /\ [][Next]_vars

-----------------------------------------------------------------------------

\* Nothing is left behind by an object that is gone, unless its user kept it.
NothingLeft == exists => held \/ (phase = "absent" /\ protected)
=============================================================================
