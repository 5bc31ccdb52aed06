----------------------------- MODULE Reconciler -----------------------------
(***************************************************************************)
(* One pgopr resource, the operator process that reconciles it and the     *)
(* Kubernetes API server between them.                                     *)
(*                                                                         *)
(* Every API call of the operator is a step of its own: users, the watch   *)
(* stream, the garbage collector, a failing call or a crash of the process *)
(* can come between any two of them.  The kube-rs Controller (run_operator *)
(* of src/src/handlers/operator.rs) runs at most one reconcile at a time   *)
(* for a resource and hands it the snapshot its informer cache holds.      *)
(***************************************************************************)
EXTENDS Topology

CONSTANTS Specs,      \* the specs users write
          MaxBirths,  \* bound on creations of the resource
          MaxEdits,   \* bound on spec edits
          MaxFaults   \* bound on failed calls, lost replies, crashes and drift

ASSUME ReconcilerAssumption ==
    /\ Specs \subseteq SpecType
    /\ MaxBirths \in Nat
    /\ MaxEdits \in Nat
    /\ MaxFaults \in Nat

VARIABLES
    cr,       \* the resource in the API server, NoCR when there is none
    children, \* [Children -> Entry]: the namespaced objects in the API server
    volumes,  \* the PersistentVolumes in the API server that carry our label
    cache,    \* the copy of cr in the operator's informer store
    due,      \* the controller has a reconcile scheduled: an event or a requeue
    stage,    \* how far the running reconcile is, "idle" when none runs
    snap,     \* the resource as the running reconcile was given it
    todo,     \* the API calls left of the current helper function
    pending,  \* the stacks left of the loop the reconcile is in
    births, edits, faults \* how much of the bounds is used

server   == <<cr, children, volumes>>
job      == <<stage, snap, todo, pending>>
budget   == <<births, edits, faults>>
vars     == <<server, cache, due, job, budget>>

-----------------------------------------------------------------------------
(* The resource.  The uid tells incarnations of one name apart.            *)

NoSpec == [version |-> "18", config |-> NoConfig, replicas |-> 0,
           pgmoneta |-> FALSE, pgexporter |-> "none"]

NoCR == [uid |-> 0, finalizer |-> FALSE, deleting |-> FALSE,
         spec |-> NoSpec, status |-> "none"]

CRType == [uid : 0..MaxBirths, finalizer : BOOLEAN, deleting : BOOLEAN,
           spec : SpecType, status : {"none", "invalid", "observed"}]

Exists(r) == r.uid # 0

\* A namespaced object: the uid in its owner reference and, on the Deployment
\* of a member, the configuration it was last applied with.
Entry == [owner : 0..MaxBirths, config : {BadConfig} \cup 0..MaxConfig]

Absent == [owner |-> 0, config |-> NoConfig]

Present(o) == children[o].owner # 0

-----------------------------------------------------------------------------
Stages == {"idle", "protect", "check", "invalid", "sync", "prune", "addons",
           "list", "drain", "rest", "purge"}

\* The stages in which objects are created, and those that delete everything.
SyncStages    == {"check", "invalid", "sync", "prune", "addons"}
CleanupStages == {"list", "drain", "rest", "purge"}

TypeOK ==
    /\ cr \in CRType
    /\ children \in [Children -> Entry]
    /\ volumes \subseteq Stacks
    /\ cache \in CRType
    /\ due \in BOOLEAN
    /\ stage \in Stages
    /\ snap \in CRType
    /\ todo \in Seq(Calls)
    /\ pending \subseteq Stacks
    /\ stage = "sync" => pending \subseteq Members
    /\ stage \in {"prune", "drain"} => pending \subseteq Replicas
    /\ births \in 0..MaxBirths
    /\ edits \in 0..MaxEdits
    /\ faults \in 0..MaxFaults

Init ==
    /\ cr = NoCR
    /\ children = [o \in Children |-> Absent]
    /\ volumes = {}
    /\ cache = NoCR
    /\ due = FALSE
    /\ stage = "idle"
    /\ snap = NoCR
    /\ todo = << >>
    /\ pending = {}
    /\ births = 0
    /\ edits = 0
    /\ faults = 0

-----------------------------------------------------------------------------
(* Users, who write the resource through the API server.                   *)

Create(spec) ==
    /\ ~Exists(cr)
    /\ births < MaxBirths
    /\ births' = births + 1
    /\ cr' = [uid |-> births + 1, finalizer |-> FALSE, deleting |-> FALSE,
              spec |-> spec, status |-> "none"]
    /\ UNCHANGED <<children, volumes, cache, due, job, edits, faults>>

Edit(spec) ==
    /\ Exists(cr)
    /\ spec # cr.spec
    /\ edits < MaxEdits
    /\ edits' = edits + 1
    /\ cr' = [cr EXCEPT !.spec = spec]
    /\ UNCHANGED <<children, volumes, cache, due, job, births, faults>>

\* A resource with a finalizer is only marked; without one it is gone at once.
DeleteCR ==
    /\ Exists(cr)
    /\ ~cr.deleting
    /\ cr' = IF cr.finalizer THEN [cr EXCEPT !.deleting = TRUE] ELSE NoCR
    /\ UNCHANGED <<children, volumes, cache, due, job, budget>>

-----------------------------------------------------------------------------
(* The controller runtime.                                                 *)

\* The watch stream brings the cache up to date; every applied object, but
\* not a deletion, schedules a reconcile.
Watch ==
    /\ cache # cr
    /\ cache' = cr
    /\ due' = (due \/ Exists(cr))
    /\ UNCHANGED <<server, job, budget>>

\* Mutant: the finalizer is left for a later pass.
StartUnprotected ==
    /\ due /\ stage = "idle" /\ Exists(cache)
    /\ due' = FALSE
    /\ snap' = cache
    /\ stage' = IF cache.deleting THEN "list" ELSE "check"
    /\ UNCHANGED <<server, cache, todo, pending, budget>>

\* reconcile() is entered with the cached resource.
Start ==
    /\ due /\ stage = "idle" /\ Exists(cache)
    /\ due' = FALSE
    /\ snap' = cache
    /\ stage' = CASE cache.deleting -> "list"
                  [] ~cache.deleting /\ ~cache.finalizer -> "protect"
                  [] ~cache.deleting /\ cache.finalizer -> "check"
    /\ UNCHANGED <<server, cache, todo, pending, budget>>

\* A scheduled resource that is no longer cached is skipped.
Skip ==
    /\ due /\ stage = "idle" /\ ~Exists(cache)
    /\ due' = FALSE
    /\ UNCHANGED <<server, cache, job, budget>>

\* Mutant: the reconcile ends and waits for the next event.
AwaitChange ==
    /\ stage' = "idle"
    /\ due' = due
    /\ snap' = NoCR
    /\ todo' = << >>
    /\ pending' = {}

\* The reconcile ends and its key is queued again, after 30 s when it
\* succeeded and after 5 s (on_error) when it did not.
Requeue ==
    /\ stage' = "idle"
    /\ due' = TRUE
    /\ snap' = NoCR
    /\ todo' = << >>
    /\ pending' = {}

\* The reconcile goes on, with these calls and then these stacks to handle.
Continue(next, calls, stacks) ==
    /\ stage' = next
    /\ todo' = calls
    /\ pending' = stacks
    /\ UNCHANGED <<due, snap>>

-----------------------------------------------------------------------------
(* Reconciling a resource that is not being deleted.                       *)

\* Mutant: a missing resource is not an error.
AddFinalizerIfThere ==
    /\ stage = "protect"
    /\ cr' = IF Exists(cr) THEN [cr EXCEPT !.finalizer = TRUE] ELSE cr
    /\ Continue("check", << >>, {})
    /\ UNCHANGED <<children, volumes, cache, budget>>

\* finalizer::add patches by name: whatever incarnation has the name now.
AddFinalizer ==
    /\ stage = "protect"
    /\ IF Exists(cr)
       THEN /\ cr' = [cr EXCEPT !.finalizer = TRUE]
            /\ Continue("check", << >>, {})
       ELSE /\ Requeue
            /\ UNCHANGED cr
    /\ UNCHANGED <<children, volumes, cache, budget>>

\* Mutant: the ConfigMap is not applied before the Deployments that mount it.
CheckSpecOnly ==
    /\ stage = "check"
    /\ \/ /\ snap.spec.version # "18"
          /\ Continue("invalid", << >>, {})
       \/ /\ snap.spec.version = "18"
          /\ snap.spec.config = BadConfig
          /\ Requeue
       \/ /\ snap.spec.version = "18"
          /\ snap.spec.config # BadConfig
          /\ Continue("sync", << >>, MembersOf(snap.spec))
    /\ UNCHANGED <<server, cache, budget>>

\* reconcile_state up to its first API call.
CheckSpec ==
    /\ stage = "check"
    /\ \/ /\ snap.spec.version # "18"
          /\ Continue("invalid", << >>, {})
       \/ /\ snap.spec.version = "18"
          /\ snap.spec.config = BadConfig
          /\ Requeue
       \/ /\ snap.spec.version = "18"
          /\ snap.spec.config # BadConfig
          /\ Continue("sync", SyncConfig(snap.spec), MembersOf(snap.spec))
    /\ UNCHANGED <<server, cache, budget>>

\* sync_topology takes the primary, then the replicas in ascending order.
NextMember ==
    /\ stage = "sync" /\ todo = << >>
    /\ \E m \in pending :
        /\ \A other \in pending : Ordinal(m) <= Ordinal(other)
        /\ Continue("sync", SyncMember(m), pending \ {m})
    /\ UNCHANGED <<server, cache, budget>>

\* Mutant: one replica too many is kept.
ListStaleOffByOne ==
    /\ stage = "sync" /\ todo = << >> /\ pending = {}
    /\ Continue("prune", << >>, {m \in Replicas : /\ Present(Deployment(m))
                                                  /\ Ordinal(m) > snap.spec.replicas + 1})
    /\ UNCHANGED <<server, cache, budget>>

\* Mutant: the last replica the spec asks for counts as stale.
ListStaleInclusive ==
    /\ stage = "sync" /\ todo = << >> /\ pending = {}
    /\ Continue("prune", << >>, {m \in Replicas : /\ Present(Deployment(m))
                                                  /\ Ordinal(m) >= snap.spec.replicas})
    /\ UNCHANGED <<server, cache, budget>>

\* cleanup::stale_replicas recognises a replica by its Deployment.
ListStale ==
    /\ stage = "sync" /\ todo = << >> /\ pending = {}
    /\ Continue("prune", << >>, {m \in Replicas : /\ Present(Deployment(m))
                                                  /\ Ordinal(m) > snap.spec.replicas})
    /\ UNCHANGED <<server, cache, budget>>

NextVictim ==
    /\ stage \in {"prune", "drain"} /\ todo = << >>
    /\ \E m \in pending : Continue(stage, DeleteReplicaStack(m), pending \ {m})
    /\ UNCHANGED <<server, cache, budget>>

BeginAddons ==
    /\ stage = "prune" /\ todo = << >> /\ pending = {}
    /\ Continue("addons", SyncAddons(snap.spec), {})
    /\ UNCHANGED <<server, cache, budget>>

\* Mutant: a reported invalid spec stays reported.
PatchStatusSticky ==
    /\ stage \in {"invalid", "addons"} /\ todo = << >>
    /\ cr' = IF ~Exists(cr) THEN cr
             ELSE [cr EXCEPT !.status = IF stage = "invalid" \/ @ = "invalid"
                                        THEN "invalid" ELSE "observed"]
    /\ Requeue
    /\ UNCHANGED <<children, volumes, cache, budget>>

\* Mutant: a missing resource is retried at once, from the same snapshot.
PatchStatusRetrying ==
    /\ stage \in {"invalid", "addons"} /\ todo = << >>
    /\ \/ /\ Exists(cr)
          /\ cr' = [cr EXCEPT !.status = IF stage = "invalid" THEN "invalid" ELSE "observed"]
          /\ Requeue
       \/ /\ ~Exists(cr)
          /\ UNCHANGED cr
          /\ Continue("check", << >>, {})
    /\ UNCHANGED <<children, volumes, cache, budget>>

\* patch_status, by name; a missing resource makes it an error.  The reads of
\* status::observe before it change nothing.
PatchStatus ==
    /\ stage \in {"invalid", "addons"} /\ todo = << >>
    /\ cr' = IF ~Exists(cr) THEN cr
             ELSE [cr EXCEPT !.status = IF stage = "invalid" THEN "invalid" ELSE "observed"]
    /\ Requeue
    /\ UNCHANGED <<children, volumes, cache, budget>>

-----------------------------------------------------------------------------
(* The four writes of ResourceManager, taken from the front of todo.       *)

NextCall(verb, objects) ==
    /\ todo # << >>
    /\ Head(todo).verb = verb
    /\ Head(todo).object \in objects
    /\ Continue(stage, Tail(todo), pending)
    /\ UNCHANGED <<cr, cache, budget>>

\* Mutant: what exists already keeps its configuration.
AppliedOnce(o) ==
    [owner  |-> snap.uid,
     config |-> IF Present(o) THEN children[o].config
                ELSE IF o[1] = "Deployment" /\ o[2] \in Members
                     THEN snap.spec.config ELSE NoConfig]

\* Only the member Deployments mount the configuration.
Applied(o) ==
    [owner  |-> snap.uid,
     config |-> IF o[1] = "Deployment" /\ o[2] \in Members
                THEN snap.spec.config ELSE NoConfig]

Sync ==
    /\ NextCall("apply", Children)
    /\ children' = [children EXCEPT ![Head(todo).object] = Applied(Head(todo).object)]
    /\ UNCHANGED volumes

SyncCluster ==
    /\ NextCall("apply", Volumes)
    /\ volumes' = volumes \cup {Head(todo).object[2]}
    /\ UNCHANGED children

DeleteChild ==
    /\ NextCall("delete", Children)
    /\ children' = [children EXCEPT ![Head(todo).object] = Absent]
    /\ UNCHANGED volumes

DeleteCluster ==
    /\ NextCall("delete", Volumes)
    /\ volumes' = volumes \ {Head(todo).object[2]}
    /\ UNCHANGED children

-----------------------------------------------------------------------------
(* Cleaning up after a resource that is being deleted (cleanup::all).      *)

\* Mutant: every Deployment of the cluster counts as a replica's.
ListMembers ==
    /\ stage = "list"
    /\ Continue("drain", << >>, {m \in Members : Present(Deployment(m))})
    /\ UNCHANGED <<server, cache, budget>>

ListReplicas ==
    /\ stage = "list"
    /\ Continue("drain", << >>, {m \in Replicas : Present(Deployment(m))})
    /\ UNCHANGED <<server, cache, budget>>

BeginRest ==
    /\ stage = "drain" /\ todo = << >> /\ pending = {}
    /\ Continue("rest", CleanupRest, {})
    /\ UNCHANGED <<server, cache, budget>>

\* Mutant: the label selector matches nothing.
ListVolumesNone ==
    /\ stage = "rest" /\ todo = << >>
    /\ Continue("purge", << >>, {})
    /\ UNCHANGED <<server, cache, budget>>

\* delete_cluster_by_label lists once ...
ListVolumes ==
    /\ stage = "rest" /\ todo = << >>
    /\ Continue("purge", << >>, volumes)
    /\ UNCHANGED <<server, cache, budget>>

\* ... and deletes what it listed.
PurgeVolume ==
    /\ stage = "purge"
    /\ \E m \in pending :
        /\ volumes' = volumes \ {m}
        /\ Continue("purge", << >>, pending \ {m})
    /\ UNCHANGED <<cr, children, cache, budget>>

\* finalizer::delete patches by name and lets the resource go.  Success
\* schedules nothing (await_change); a missing resource is an error.
RemoveFinalizer ==
    /\ stage = "purge" /\ pending = {}
    /\ IF Exists(cr)
       THEN /\ cr' = IF cr.deleting THEN NoCR ELSE [cr EXCEPT !.finalizer = FALSE]
            /\ stage' = "idle"
            /\ snap' = NoCR
            /\ UNCHANGED <<due, todo, pending>>
       ELSE Requeue /\ UNCHANGED cr
    /\ UNCHANGED <<children, volumes, cache, budget>>

-----------------------------------------------------------------------------
(* What goes wrong.                                                        *)

UseFault == faults < MaxFaults /\ faults' = faults + 1

\* Any API call may return an error other than 404, which ends the reconcile.
\* A call whose reply is lost is this after the call's own step.
Fail ==
    /\ stage \notin {"idle", "check"}
    /\ UseFault
    /\ Requeue
    /\ UNCHANGED <<server, cache, births, edits>>

\* The reply to the last call is lost: released, but queued again.
RemoveFinalizerUnanswered ==
    /\ stage = "purge" /\ pending = {} /\ Exists(cr)
    /\ UseFault
    /\ cr' = IF cr.deleting THEN NoCR ELSE [cr EXCEPT !.finalizer = FALSE]
    /\ Requeue
    /\ UNCHANGED <<children, volumes, cache, births, edits>>

\* The process dies; the new one lists the resources and queues what it finds.
Crash ==
    /\ UseFault
    /\ cache' = cr
    /\ due' = Exists(cr)
    /\ stage' = "idle" /\ snap' = NoCR /\ todo' = << >> /\ pending' = {}
    /\ UNCHANGED <<server, births, edits>>

\* Somebody deletes an object.  Volumes and claims in use are protected by
\* Kubernetes.  ConfigMaps are not: that nobody takes one away by hand is a
\* premise, without which ConfigMounted would not be about the operator.
Drift ==
    /\ UseFault
    /\ \E o \in Children :
        /\ o[1] \in {"Deployment", "Service", "Secret"}
        /\ Present(o)
        /\ children' = [children EXCEPT ![o] = Absent]
    /\ UNCHANGED <<cr, volumes, cache, due, job, births, edits>>

\* Kubernetes collects objects whose owner no longer exists.
GarbageCollect ==
    /\ \E o \in Children :
        /\ children[o].owner \notin {0, cr.uid}
        /\ children' = [children EXCEPT ![o] = Absent]
    /\ UNCHANGED <<cr, volumes, cache, due, job, budget>>

-----------------------------------------------------------------------------
Users == DeleteCR \/ \E spec \in Specs : Create(spec) \/ Edit(spec)

Runtime == Watch \/ Start \/ Skip

Steps ==
    \/ AddFinalizer \/ CheckSpec \/ NextMember \/ ListStale \/ NextVictim
    \/ BeginAddons \/ PatchStatus
    \/ Sync \/ SyncCluster \/ DeleteChild \/ DeleteCluster
    \/ ListReplicas \/ BeginRest \/ ListVolumes \/ PurgeVolume \/ RemoveFinalizer

Mishaps == Fail \/ RemoveFinalizerUnanswered \/ Crash \/ Drift

Next == Users \/ Runtime \/ Steps \/ Mishaps \/ GarbageCollect

Spec == Init /\ [][Next]_vars

\* The watch stream stays connected, the controller's executor and the
\* collector keep running; nothing obliges users or faults to happen.
Fairness ==
    /\ WF_vars(Watch)
    /\ WF_vars(Start \/ Skip)
    /\ WF_vars(Steps)
    /\ WF_vars(GarbageCollect)

FairSpec == Spec /\ Fairness

-----------------------------------------------------------------------------
(* What a spec asks for.                                                   *)

WantedChildren(spec) ==
    ({"Service", "Deployment", "PVC"} \X MembersOf(spec))
        \cup (IF spec.pgmoneta THEN {"Deployment", "PVC", "Secret"} \X {Pgmoneta} ELSE {})
        \cup (IF spec.pgexporter # "none"
              THEN {"Deployment", "Service", "Secret"} \X {Pgexporter} ELSE {})
        \cup (IF spec.pgexporter = "monitored" THEN {Deployment(Monitoring)} ELSE {})
        \cup (IF spec.config # NoConfig THEN {<<"ConfigMap", Config(spec.config)>>} ELSE {})

WantedVolumes(spec) ==
    MembersOf(spec) \cup (IF spec.pgmoneta THEN {Pgmoneta} ELSE {})

Needed(spec) == WantedChildren(spec) \cup ({"PV"} \X WantedVolumes(spec))

-----------------------------------------------------------------------------
(* Safety.                                                                 *)

Held == Exists(cr) /\ cr.finalizer

\* A PersistentVolume has no owner and only cleanup::all finds it by label, so
\* while one exists there is a resource and it carries the finalizer, whatever
\* snapshot the operator works from and wherever it failed or died.
FinalizerGuard == volumes # {} => Held

\* What belongs to the resource that has the name now.
Owned(o) == children[o].owner = cr.uid

Live(m) == Present(Deployment(m)) /\ Owned(Deployment(m))

\* A Deployment that belongs to the current incarnation has its claim and its
\* volume: creation goes upwards, deletion downwards, and no interleaving of a
\* stale sync, a scale-down, a retry or the collector turns that around.
StorageBeneathWorkload ==
    \A m \in Stacks : Live(m) => Owned(PVC(m)) /\ m \in volumes

\* A member Deployment of the current incarnation mounts a ConfigMap that is
\* there and belongs to the same incarnation, so the collector leaves it.
ConfigMounted ==
    \A m \in Members :
        LET config == children[Deployment(m)].config
        IN  Owned(Deployment(m)) /\ config # NoConfig
                => Owned(<<"ConfigMap", Config(config)>>)

\* Nothing is created unless the name is held by a resource with a finalizer:
\* a late sync from an old snapshot cannot revive a cluster that is gone.
CreatedUnderFinalizer ==
    [][\A o \in Children : ~Present(o) /\ Present(o)' => Held]_vars

\* Why a stale snapshot does no harm.  The cache only moves forward and one
\* reconcile runs at a time, so a resource seen with a finalizer still has it
\* until a cleanup takes it away, and a cleanup works on the current resource
\* or after it is gone.
SnapshotInv ==
    /\ cr.deleting => cr.finalizer
    /\ cr.finalizer => Exists(cr)
    /\ cache.finalizer /\ ~cache.deleting => Held
    /\ cache.deleting /\ cr.finalizer => cr.deleting
    /\ stage = "protect" /\ cache.deleting => cr.deleting
    /\ stage \in SyncStages => Held
    /\ stage \in CleanupStages =>
            (cache.finalizer => cache.deleting) /\ (cr.finalizer => cr.deleting)

\* Where calls are left to make and which: none deletes the primary's volume or
\* a ConfigMap, and a cleanup has only deletions left before it purges every volume there is.
JobInv ==
    /\ todo \in Seq(PlannedCalls)
    /\ stage \in {"idle", "protect", "check", "invalid", "list", "purge"} => todo = << >>
    /\ stage \in {"drain", "rest"} => todo \in Seq(DeleteCalls)
    /\ stage = "purge" => volumes \subseteq pending

\* The inductive invariant behind FinalizerGuard.
FinalizerInv == TypeOK /\ SnapshotInv /\ JobInv /\ FinalizerGuard

\* Incarnations are numbered upwards and the operator sees them in that order:
\* nothing belongs to a later one than the running reconcile was given.
UidInv ==
    /\ cr.uid \in {0, births}
    /\ \A o \in Children : /\ children[o].owner <= births
                           /\ children[o].owner = 0 => children[o] = Absent
                           /\ Exists(cache) => children[o].owner <= cache.uid
                           /\ stage # "idle" => children[o].owner <= snap.uid
    /\ cache.uid <= births /\ snap.uid <= births
    /\ stage # "idle" => Exists(snap) /\ (Exists(cache) => snap.uid <= cache.uid)

\* The reconcile works for the resource that has the name now.
Current == Exists(cr) /\ snap.uid = cr.uid

\* The calls left on a stack go upwards or downwards, never both: a Deployment
\* is applied on storage that is there or is applied before it, and storage is
\* deleted beneath a Deployment that is gone or is deleted before it.
StackInv(m) ==
    LET up    == Apply(Deployment(m))
        down  == Delete(Deployment(m))
    IN  /\ Behind(up, Apply(PVC(m)), todo) \/ (Current => Owned(PVC(m)))
        /\ Behind(up, Apply(PV(m)), todo) \/ m \in volumes
        /\ Left(up, todo) => ~Left(Delete(PVC(m)), todo) /\ ~Left(Delete(PV(m)), todo)
        /\ Behind(Delete(PVC(m)), down, todo) \/ ~Live(m)
        /\ Behind(Delete(PV(m)), down, todo) \/ ~Live(m)

\* How far a cleanup is with the workloads before it purges the volumes.
CleanupInv ==
    /\ stage = "drain" =>
            \A m \in Replicas : Live(m) => m \in pending \/ Left(Delete(Deployment(m)), todo)
    /\ stage = "rest" => \A m \in Stacks : Live(m) => Left(Delete(Deployment(m)), todo)
    /\ stage = "purge" => \A m \in Stacks : ~Live(m)

\* The inductive invariant behind StorageBeneathWorkload.
StorageInv ==
    /\ FinalizerInv /\ UidInv /\ StorageBeneathWorkload
    /\ \A m \in Stacks : StackInv(m)
    /\ CleanupInv

\* While members are synced the ConfigMap of the snapshot is there, or is the
\* one call left; members are synced at no other time, and never with a
\* configuration that was rejected.
ConfigInv ==
    /\ FinalizerInv /\ UidInv /\ ConfigMounted
    /\ \A o \in Children : children[o].config # BadConfig
    /\ stage = "sync" =>
            /\ snap.spec.config # BadConfig
            /\ snap.spec.config # NoConfig =>
                  \/ todo = SyncConfig(snap.spec)
                  \/ Current => Owned(<<"ConfigMap", Config(snap.spec.config)>>)
    /\ \A m \in Members : Left(Apply(Deployment(m)), todo) => stage = "sync"

\* What the current incarnation owns it owns under its finalizer, so that a
\* cleanup only meets what is being deleted.
OwnersHeld == (\E o \in Children : Present(o) /\ Owned(o)) => cr.finalizer

\* A sync has no deletion left of anything its own spec asks for.
KeptInv ==
    /\ FinalizerInv /\ UidInv /\ OwnersHeld
    /\ stage = "prune" => pending \cap MembersOf(snap.spec) = {}
    /\ stage \in SyncStages => \A o \in Needed(snap.spec) : ~Left(Delete(o), todo)

\* All that is known of a pass in the middle of its calls: what the snapshot can
\* be, what is left to do and what was done.  Inductive as a whole.
PassInv == StorageInv /\ ConfigInv /\ KeptInv

\* No pass takes away what the spec it works for asks for, least of all the
\* storage with the data, unless the resource is being deleted: however late
\* its deletions are and whatever the listing was that it acts upon.
WantedKept ==
    [][/\ \A m \in volumes \ volumes' : cr.deleting \/ m \notin WantedVolumes(snap.spec)
       /\ \A o \in Children :
             Present(o) /\ Owned(o) /\ ~Present(o)' =>
                cr.deleting \/ Drift \/ o \notin WantedChildren(snap.spec)]_vars

\* What the finalizer promises, as a protocol of its own.
Protocol == INSTANCE FinalizerProtocol WITH
    Resources <- Stacks,
    Vital     <- {Primary},
    phase     <- CASE ~Exists(cr) -> "absent"
                   [] Exists(cr) /\ cr.deleting -> "dying"
                   [] Exists(cr) /\ ~cr.deleting /\ cr.finalizer -> "held"
                   [] Exists(cr) /\ ~cr.deleting /\ ~cr.finalizer -> "open",
    footprint <- volumes

\* The operator implements the finalizer protocol: it lets go of a resource
\* only when that is being deleted and no volume is left, and the primary's
\* volume is deleted for no other reason.
FinalizerProtocolHolds == Protocol!Spec

-----------------------------------------------------------------------------
(* Liveness.                                                               *)

Settled(spec) == Exists(cr) /\ ~cr.deleting /\ cr.spec = spec

Valid(spec) == spec.version = "18" /\ spec.config # BadConfig

Realised(spec) ==
    /\ \A o \in WantedChildren(spec) : children[o].owner = cr.uid
    /\ \A m \in MembersOf(spec) : children[Deployment(m)].config = spec.config
    /\ WantedVolumes(spec) \subseteq volumes

\* Once users leave a valid spec alone the cluster comes to have all it asks
\* for and keeps it, owned by this incarnation and with this configuration,
\* whatever older snapshots were applied, failed, crashed or drifted before.
Converges ==
    \A spec \in Specs :
        Valid(spec) /\ <>[]Settled(spec) => <>[]Realised(spec)

\* Of what a settled valid spec does not ask for, these stop: replicas beyond
\* the count, pgmoneta with its storage, the Deployment of pgexporter, the
\* monitoring of a plain pgexporter.  Not so the Service and the monitoring of
\* a pgexporter that is removed altogether, which cleanup_pgexporter leaves:
\* PgexporterRetired.
Retires ==
    \A spec \in Specs :
        Valid(spec) /\ <>[]Settled(spec) =>
            <>[](/\ \A m \in Replicas \ MembersOf(spec) : ~Present(Deployment(m))
                 /\ ~spec.pgmoneta =>
                        /\ \A k \in {"Deployment", "PVC", "Secret"} : ~Present(<<k, Pgmoneta>>)
                        /\ Pgmoneta \notin volumes
                 /\ spec.pgexporter = "none" =>
                        \A k \in {"Deployment", "Secret"} : ~Present(<<k, Pgexporter>>)
                 /\ spec.pgexporter = "plain" => ~Present(Deployment(Monitoring)))

\* Removing pgexporter from the spec removes all of it, what its sync applied
\* for monitoring included; see the findings in the README.
PgexporterRetired ==
    \A spec \in Specs :
        Valid(spec) /\ spec.pgexporter = "none" /\ <>[]Settled(spec) =>
            <>[](/\ \A k \in {"Deployment", "Service", "Secret"} : ~Present(<<k, Pgexporter>>)
                 /\ ~Present(Deployment(Monitoring)))

\* The reported phase comes to tell an unsupported version from a spec that
\* is being worked on.
StatusFollows ==
    \A spec \in Specs :
        /\ (spec.version # "18" /\ <>[]Settled(spec)) => <>[](cr.status = "invalid")
        /\ (Valid(spec) /\ <>[]Settled(spec)) => <>[](cr.status = "observed")

\* Deleting a resource finishes, although every step of the cleanup may fail.
DeletionFinishes == cr.deleting ~> ~cr.deleting

\* Scaling down removes all of a replica: its Service, claim and volume too.
\* cleanup::stale_replicas promises this; see the findings in the README.
StaleReplicasRemoved ==
    \A spec \in Specs :
        Valid(spec) /\ <>[]Settled(spec) =>
            <>[](\A m \in Replicas \ MembersOf(spec) :
                    /\ ~Present(Service(m)) /\ ~Present(PVC(m))
                    /\ m \notin volumes)

\* When the resource stays deleted nothing of the cluster is left.
NothingLeft ==
    <>[]~Exists(cr) => <>[](volumes = {} /\ \A o \in Children : ~Present(o))
=============================================================================
