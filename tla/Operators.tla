------------------------------ MODULE Operators ------------------------------
(***************************************************************************)
(* A rolling update of the operator's own Deployment: two processes of     *)
(* Reconciler over one resource.                                           *)
(*                                                                         *)
(* build_operator_deployment (src/src/handlers/deploy.rs) asks for one     *)
(* replica and leaves the update strategy at Kubernetes' default, which    *)
(* rounds maxSurge up to 1 and maxUnavailable down to 0: the new pod runs  *)
(* before the old one is stopped.  run_operator elects no leader, so both  *)
(* reconcile.  The API server and the budgets are shared, the informer     *)
(* cache, the queue and the running pass are each process's own.           *)
(***************************************************************************)
EXTENDS Topology

CONSTANTS Specs, MaxBirths, MaxEdits, MaxFaults

ASSUME OperatorsAssumption ==
    /\ Specs \subseteq SpecType
    /\ MaxBirths \in Nat
    /\ MaxEdits \in Nat
    /\ MaxFaults \in Nat

VARIABLES
    cr, children, volumes, births, edits, faults,  \* shared, see Reconciler
    oldCache, oldDue, oldStage, oldSnap, oldTodo, oldPending,
    newCache, newDue, newStage, newSnap, newTodo, newPending,
    running   \* the operator pods that run

shared     == <<cr, children, volumes, births, edits, faults>>
oldProcess == <<oldCache, oldDue, oldStage, oldSnap, oldTodo, oldPending>>
newProcess == <<newCache, newDue, newStage, newSnap, newTodo, newPending>>
vars       == <<shared, oldProcess, newProcess, running>>

Old == INSTANCE Reconciler WITH
    cache <- oldCache, due <- oldDue, stage <- oldStage,
    snap <- oldSnap, todo <- oldTodo, pending <- oldPending

New == INSTANCE Reconciler WITH
    cache <- newCache, due <- newDue, stage <- newStage,
    snap <- newSnap, todo <- newTodo, pending <- newPending

-----------------------------------------------------------------------------
TypeOK ==
    /\ Old!TypeOK
    /\ New!TypeOK
    /\ running \in {{"old"}, {"old", "new"}, {"new"}}

Init ==
    /\ Old!Init
    /\ New!Init
    /\ running = {"old"}

-----------------------------------------------------------------------------
(* The rollout.                                                            *)

\* Mutant: the new process waits for the next event.
SurgeUnlisted ==
    /\ running = {"old"}
    /\ running' = {"old", "new"}
    /\ newCache' = cr
    /\ UNCHANGED <<shared, oldProcess, newDue, newStage, newSnap, newTodo, newPending>>

\* The pod of the new version starts, lists the resources and queues them.
Surge ==
    /\ running = {"old"}
    /\ running' = {"old", "new"}
    /\ newCache' = cr
    /\ newDue' = Old!Exists(cr)
    /\ UNCHANGED <<shared, oldProcess, newStage, newSnap, newTodo, newPending>>

\* The pod of the old version is stopped, wherever its pass is: the process
\* does not handle the termination signal.
Stop ==
    /\ running = {"old", "new"}
    /\ running' = {"new"}
    /\ oldCache' = Old!NoCR
    /\ oldDue' = FALSE
    /\ oldStage' = "idle"
    /\ oldSnap' = Old!NoCR
    /\ oldTodo' = << >>
    /\ oldPending' = {}
    /\ UNCHANGED <<shared, newProcess>>

-----------------------------------------------------------------------------
(* What one process does leaves the other one alone.                       *)

ByOld(A) == "old" \in running /\ A /\ UNCHANGED <<newProcess, running>>
ByNew(A) == "new" \in running /\ A /\ UNCHANGED <<oldProcess, running>>

OldOperator == ByOld(Old!Runtime \/ Old!Steps \/ Old!Mishaps)
NewOperator == ByNew(New!Runtime \/ New!Steps \/ New!Mishaps)

\* Users and the collector; neither process takes part.
Surroundings ==
    /\ Old!Users \/ Old!GarbageCollect
    /\ UNCHANGED <<newProcess, running>>

Next == Surge \/ Stop \/ OldOperator \/ NewOperator \/ Surroundings

Spec == Init /\ [][Next]_vars

\* As in Reconciler, for each process that runs; a rollout that has begun
\* ends, but nothing obliges one to begin.
Fairness ==
    /\ WF_vars(Stop)
    /\ WF_vars(ByOld(Old!Watch))
    /\ WF_vars(ByOld(Old!Start \/ Old!Skip \/ Old!Steps))
    /\ WF_vars(ByNew(New!Watch))
    /\ WF_vars(ByNew(New!Start \/ New!Skip \/ New!Steps))
    /\ WF_vars(Old!GarbageCollect /\ UNCHANGED <<newProcess, running>>)

FairSpec == Spec /\ Fairness

-----------------------------------------------------------------------------
(* What a rolling update leaves in order.                                 *)

\* The update heals: a cluster whose valid spec is left alone comes to have
\* all it asks for, wherever in its pass the old process was stopped and
\* whatever it did beside the new one.
Converges == Old!Converges

\* A deletion finishes, whichever process takes it up and whichever stops.
DeletionFinishes == Old!DeletionFinishes

\* When the resource stays deleted its namespaced objects go in the end, those
\* too that the sync of one process created after the cleanup of the other:
\* they carry the uid of an owner that is gone.
ChildrenCollected ==
    <>[]~Old!Exists(cr) => <>[](\A o \in Children : ~Old!Present(o))

-----------------------------------------------------------------------------
(* What it does not; see the findings in the README.                       *)

\* No PersistentVolume is left without a resource that holds it, the promise
\* of the cleanup in src/src/cluster/cleanup.rs.  The sync of the one process
\* goes on after the cleanup of the other.
VolumesHeld == Old!FinalizerGuard
=============================================================================
