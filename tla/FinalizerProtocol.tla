-------------------------- MODULE FinalizerProtocol --------------------------
(***************************************************************************)
(* What a finalizer is for: resources outside the garbage collector's      *)
(* reach (the footprint) exist only while their custom resource is held.   *)
(*                                                                         *)
(*   absent -- Create --> open -- Hold --> held -- Delete --> dying        *)
(*      ^------ Delete -----'                                   |          *)
(*      ^--------------------------- Release -------------------'          *)
(***************************************************************************)

CONSTANTS Resources, \* what the footprint may consist of
          Vital      \* the part of it that only a deletion may destroy

VARIABLES phase, footprint

vars == <<phase, footprint>>

TypeOK ==
    /\ phase \in {"absent", "open", "held", "dying"}
    /\ footprint \subseteq Resources

Init == phase = "absent" /\ footprint = {}

Create == phase = "absent" /\ phase' = "open" /\ UNCHANGED footprint

Hold == phase = "open" /\ phase' = "held" /\ UNCHANGED footprint

Delete ==
    /\ \/ phase = "open" /\ phase' = "absent"
       \/ phase = "held" /\ phase' = "dying"
    /\ UNCHANGED footprint

\* A reconcile that started before the deletion may still create things.
Grow(r) ==
    /\ phase \in {"held", "dying"}
    /\ footprint' = footprint \cup {r}
    /\ UNCHANGED phase

Shrink(r) ==
    /\ phase = "dying" \/ r \notin Vital
    /\ footprint' = footprint \ {r}
    /\ UNCHANGED phase

Release ==
    /\ phase = "dying" /\ footprint = {}
    /\ phase' = "absent"
    /\ UNCHANGED footprint

Next ==
    \/ Create \/ Hold \/ Delete \/ Release
    \/ \E r \in Resources : Grow(r) \/ Shrink(r)

Spec == Init /\ [][Next]_vars

\* The footprint never outlives the hold.
Guard == footprint # {} => phase \in {"held", "dying"}
=============================================================================
