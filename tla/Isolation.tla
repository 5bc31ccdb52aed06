------------------------------ MODULE Isolation ------------------------------
(***************************************************************************)
(* One resource among several, and the same resource alone.                *)
(*                                                                         *)
(* The specification of Clusters for the one resource Self is what its     *)
(* user may think of: a cluster nobody else interferes with.  Clusters is  *)
(* shown to implement it, by leaving out what belongs to the others.       *)
(***************************************************************************)
EXTENDS Clusters

CONSTANT Self  \* one of the resources

ASSUME IsolationAssumption == Self \in Clusters

\* Of the objects Self may have, those it applied.
OwnStore == [x \in Mine(Self) |-> IF store[x] = Self THEN Self ELSE None]

Solo == INSTANCE Clusters WITH
    Clusters <- {Self},
    cr       <- [c \in {Self} |-> cr[c]],
    job      <- [c \in {Self} |-> job[c]],
    store    <- OwnStore

\* Self is created, synced, listed and deleted as if it were alone: whatever
\* the others do is nothing to it, and no listing shows it one of theirs.
AsIfAlone == Solo!Spec
=============================================================================
