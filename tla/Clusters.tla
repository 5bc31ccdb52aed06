------------------------------ MODULE Clusters ------------------------------
(***************************************************************************)
(* Several pgopr resources and the names of their objects.                 *)
(*                                                                         *)
(* The controller reconciles different resources concurrently.  What keeps *)
(* them apart is only how src/src/cluster/topology.rs forms and recognises *)
(* names, the namespace of namespaced objects and the label of volumes.    *)
(*                                                                         *)
(* A name is the sequence of its segments between hyphens, those of digits *)
(* alone told from the others, so that two names are equal exactly when    *)
(* the strings are.  An action is a helper of cluster.rs or of             *)
(* cluster/cleanup.rs with all its calls: Reconciler has each call,        *)
(* incarnations of one resource and a cache that lags.                     *)
(***************************************************************************)
EXTENDS Integers, SequencesExt

CONSTANTS Clusters,     \* the resources' keys: a namespace and a name
          MaxReplicas,  \* the largest replica count a spec asks for
          MaxOrdinal,   \* the largest number parse::<u32> takes
          Specs         \* the specs users write

\* Where volumes are, instead of a namespace.
Cluster == "cluster scope"

\* A segment that has something else than digits, or none.
Word(text) == <<"word", text>>

\* A segment of digits: so many zeros before the digits of its value.
Numeral(zeros, value) == <<"numeral", zeros, value>>

Segment == ({"word"} \X STRING) \cup ({"numeral"} \X Nat \X Nat)

Key == [namespace : STRING \ {Cluster}, name : Seq(Segment) \ {<< >>}]

SpecType == [replicas : 0..MaxReplicas, addons : BOOLEAN]

ASSUME ClustersAssumption ==
    /\ Clusters \subseteq Key
    /\ MaxOrdinal \in Nat
    /\ MaxReplicas \in 0..MaxOrdinal
    /\ Specs \subseteq SpecType

VARIABLES
    cr,     \* [Clusters -> Resource]: the resources in the API server
    store,  \* [Objects -> Clusters or None]: who applied an object last
    job     \* [Clusters -> Pass]: the running reconcile of each resource

vars == <<cr, store, job>>

-----------------------------------------------------------------------------
(* Names.                                                                  *)

ReplicaPrefix(c)  == Append(c.name, Word("replica"))
ReplicaName(c, i) == Append(ReplicaPrefix(c), Numeral(0, i))
PgmonetaName(c)   == Append(c.name, Word("pgmoneta"))
PgexporterName(c) == Append(c.name, Word("pgexporter"))

PVName(name)     == name \o <<Word("pv"), Word("volume")>>
PVCName(name)    == name \o <<Word("pv"), Word("claim")>>
SecretName(name) == Append(name, Word("secret"))

\* The number in the segment after "<cluster>-replica-", if there is one:
\* zeros before it do not matter and what follows it is not looked at.
ReplicaOrdinal(c, name) ==
    LET at == Len(c.name) + 2
    IN  IF IsPrefix(ReplicaPrefix(c), name) /\ at <= Len(name) /\ name[at][1] = "numeral"
        THEN {name[at][3]} \cap (0..MaxOrdinal)
        ELSE {}

-----------------------------------------------------------------------------
(* Objects.                                                                *)

Object(kind, namespace, name) ==
    [kind |-> kind, namespace |-> namespace, name |-> name]

Volume(name) == Object("PersistentVolume", Cluster, PVName(name))

\* The four objects of the member that has this name.
MemberStack(namespace, name) ==
    {Object("Service", namespace, name), Object("Deployment", namespace, name),
     Object("PersistentVolumeClaim", namespace, PVCName(name)), Volume(name)}

PgmonetaStack(c) ==
    LET name == PgmonetaName(c)
    IN  {Object("Deployment", c.namespace, name), Object("Secret", c.namespace, SecretName(name)),
         Object("PersistentVolumeClaim", c.namespace, PVCName(name)), Volume(name)}

\* Without the Service, which cleanup_pgexporter does not delete.
PgexporterCore(c) ==
    LET name == PgexporterName(c)
    IN  {Object("Deployment", c.namespace, name), Object("Secret", c.namespace, SecretName(name))}

PgexporterService(c) == Object("Service", c.namespace, PgexporterName(c))

MonitoringDeployment(c) ==
    Object("Deployment", c.namespace, Append(PgexporterName(c), Word("mon")))

MemberNames(c, spec) == {c.name} \cup {ReplicaName(c, i) : i \in 1..spec.replicas}

\* What a resource with this spec is to have; add-ons are pgmoneta and a
\* monitored pgexporter.
Wanted(c, spec) ==
    (UNION {MemberStack(c.namespace, n) : n \in MemberNames(c, spec)})
        \cup IF spec.addons
             THEN PgmonetaStack(c) \cup PgexporterCore(c)
                    \cup {PgexporterService(c), MonitoringDeployment(c)}
             ELSE {}

Everything == [replicas |-> MaxReplicas, addons |-> TRUE]

\* All it may ever have.
Mine(c) == Wanted(c, Everything)

Objects == UNION {Mine(c) : c \in Clusters}

\* No resource has an empty name.
None == [namespace |-> "", name |-> << >>]

SyncAll(c, objects) ==
    store' = [x \in DOMAIN store |-> IF x \in objects THEN c ELSE store[x]]

DeleteAll(objects) ==
    store' = [x \in DOMAIN store |-> IF x \in objects THEN None ELSE store[x]]

-----------------------------------------------------------------------------
Resource == [phase : {"absent", "open", "held", "dying"}, spec : SpecType]

Stages == {"idle", "sync", "list", "prune", "addons", "drain", "rest", "purge"}

Names == {x.name : x \in Objects}

Pass == [stage : Stages, spec : SpecType, pending : SUBSET Names]

NoSpec == [replicas |-> 0, addons |-> FALSE]

Idle == [stage |-> "idle", spec |-> NoSpec, pending |-> {}]

TypeOK ==
    /\ cr \in [Clusters -> Resource]
    /\ store \in [Objects -> Clusters \cup {None}]
    /\ job \in [Clusters -> Pass]
    /\ \A c \in Clusters : \A n \in job[c].pending :
        /\ job[c].stage = "sync" => n \in MemberNames(c, Everything)
        /\ job[c].stage \in {"prune", "drain"} => ReplicaOrdinal(c, n) # {}

Init ==
    /\ cr = [c \in Clusters |-> [phase |-> "absent", spec |-> NoSpec]]
    /\ store = [x \in Objects |-> None]
    /\ job = [c \in Clusters |-> Idle]

-----------------------------------------------------------------------------
(* Users.                                                                  *)

Create(c, spec) ==
    /\ cr[c].phase = "absent"
    /\ cr' = [cr EXCEPT ![c] = [phase |-> "open", spec |-> spec]]
    /\ UNCHANGED <<store, job>>

Edit(c, spec) ==
    /\ cr[c].phase \in {"open", "held"} /\ spec # cr[c].spec
    /\ cr' = [cr EXCEPT ![c].spec = spec]
    /\ UNCHANGED <<store, job>>

\* Only a resource that carries the finalizer waits for the operator.
DeleteCR(c) ==
    /\ cr[c].phase \in {"open", "held"}
    /\ cr' = [cr EXCEPT ![c] = IF @.phase = "held"
                               THEN [@ EXCEPT !.phase = "dying"]
                               ELSE [phase |-> "absent", spec |-> NoSpec]]
    /\ UNCHANGED <<store, job>>

-----------------------------------------------------------------------------
(* A pass.                                                                 *)

At(c, stage) == job[c].stage = stage

Goto(c, stage, pending) ==
    job' = [job EXCEPT ![c] = [stage |-> stage, spec |-> @.spec, pending |-> pending]]

End(c) == job' = [job EXCEPT ![c] = Idle]

\* reconcile() up to the first object, with finalizer::add.
Start(c) ==
    /\ At(c, "idle") /\ cr[c].phase # "absent"
    /\ cr' = [cr EXCEPT ![c].phase = IF @ = "open" THEN "held" ELSE @]
    /\ job' = [job EXCEPT ![c] =
                    IF cr[c].phase = "dying"
                    THEN [stage |-> "list", spec |-> cr[c].spec, pending |-> {}]
                    ELSE [stage |-> "sync", spec |-> cr[c].spec,
                          pending |-> MemberNames(c, cr[c].spec)]]
    /\ UNCHANGED store

\* sync_primary and sync_replica.
SyncMember(c) ==
    /\ At(c, "sync")
    /\ \E n \in job[c].pending :
        /\ SyncAll(c, MemberStack(c.namespace, n))
        /\ Goto(c, "sync", job[c].pending \ {n})
    /\ UNCHANGED cr

\* The Deployments of the namespace, whoever they belong to.
DeploymentNames(namespace) ==
    {x.name : x \in {y \in DOMAIN store : /\ y.kind = "Deployment"
                                     /\ y.namespace = namespace
                                     /\ store[y] # None}}

\* Mutant: the last replica wanted is among them.
ListStaleInclusive(c) ==
    /\ At(c, "sync") /\ job[c].pending = {}
    /\ Goto(c, "prune", {n \in DeploymentNames(c.namespace) :
                            \E i \in ReplicaOrdinal(c, n) : i >= job[c].spec.replicas})
    /\ UNCHANGED <<cr, store>>

\* The listing of stale_replicas.
ListStale(c) ==
    /\ At(c, "sync") /\ job[c].pending = {}
    /\ Goto(c, "prune", {n \in DeploymentNames(c.namespace) :
                            \E i \in ReplicaOrdinal(c, n) : i > job[c].spec.replicas})
    /\ UNCHANGED <<cr, store>>

\* Mutant: every Deployment of the namespace counts as a replica's.
ListDeployments(c) ==
    /\ At(c, "list")
    /\ Goto(c, "drain", DeploymentNames(c.namespace))
    /\ UNCHANGED <<cr, store>>

\* The listing of cleanup::all.
ListReplicas(c) ==
    /\ At(c, "list")
    /\ Goto(c, "drain", {n \in DeploymentNames(c.namespace) : ReplicaOrdinal(c, n) # {}})
    /\ UNCHANGED <<cr, store>>

\* delete_replica_stack.
DeleteReplicaStack(c) ==
    /\ At(c, "prune") \/ At(c, "drain")
    /\ \E n \in job[c].pending :
        /\ DeleteAll(MemberStack(c.namespace, n))
        /\ Goto(c, job[c].stage, job[c].pending \ {n})
    /\ UNCHANGED cr

\* The add-ons: sync_pgmoneta and sync_pgexporter, or their cleanups.
SyncAddons(c) ==
    /\ At(c, "prune") /\ job[c].pending = {}
    /\ IF job[c].spec.addons
       THEN SyncAll(c, PgmonetaStack(c) \cup PgexporterCore(c)
                        \cup {PgexporterService(c), MonitoringDeployment(c)})
       ELSE DeleteAll(PgmonetaStack(c) \cup PgexporterCore(c))
    /\ End(c)
    /\ UNCHANGED cr

\* The middle of cleanup::all.  Of the primary and of pgmoneta the volumes,
\* and of pgexporter the Service, are not among the calls.
CleanupRest(c) ==
    /\ At(c, "drain") /\ job[c].pending = {}
    /\ DeleteAll((MemberStack(c.namespace, c.name) \cup PgmonetaStack(c)
                 \cup PgexporterCore(c) \cup {MonitoringDeployment(c)})
              \ {Volume(c.name), Volume(PgmonetaName(c))})
    /\ Goto(c, "rest", {})
    /\ UNCHANGED cr

\* Mutant: no label selector.
ListVolumesAll(c) ==
    /\ At(c, "rest")
    /\ Goto(c, "purge", {x.name : x \in {y \in DOMAIN store : /\ y.namespace = Cluster
                                                         /\ store[y] # None}})
    /\ UNCHANGED <<cr, store>>

\* Mutant: the label is the namespace.
ListVolumesNone(c) ==
    /\ At(c, "rest")
    /\ Goto(c, "purge", {x.name : x \in {y \in DOMAIN store : /\ y.namespace = Cluster
                                                         /\ store[y] # None
                                                         /\ store[y].name = <<Word(c.namespace)>>}})
    /\ UNCHANGED <<cr, store>>

\* delete_cluster_by_label: volumes labelled with the cluster's name.
ListVolumes(c) ==
    /\ At(c, "rest")
    /\ Goto(c, "purge", {x.name : x \in {y \in DOMAIN store : /\ y.namespace = Cluster
                                                         /\ store[y] # None
                                                         /\ store[y].name = c.name}})
    /\ UNCHANGED <<cr, store>>

PurgeVolume(c) ==
    /\ At(c, "purge")
    /\ \E n \in job[c].pending :
        /\ DeleteAll({Object("PersistentVolume", Cluster, n)})
        /\ Goto(c, "purge", job[c].pending \ {n})
    /\ UNCHANGED cr

\* finalizer::delete.
RemoveFinalizer(c) ==
    /\ At(c, "purge") /\ job[c].pending = {}
    /\ cr' = [cr EXCEPT ![c] = [phase |-> "absent", spec |-> NoSpec]]
    /\ End(c)
    /\ UNCHANGED store

\* A call fails and with it the pass.
Fail(c) ==
    /\ ~At(c, "idle")
    /\ End(c)
    /\ UNCHANGED <<cr, store>>

\* Kubernetes collects what has an owner that is gone.  What is left when the
\* resource is created anew counts as the new one's.
Collect(c) ==
    /\ cr[c].phase = "absent"
    /\ \E x \in DOMAIN store : x.namespace # Cluster /\ store[x] = c
    /\ DeleteAll({x \in DOMAIN store : x.namespace # Cluster /\ store[x] = c})
    /\ UNCHANGED <<cr, job>>

-----------------------------------------------------------------------------
Users(c) == DeleteCR(c) \/ \E spec \in Specs : Create(c, spec) \/ Edit(c, spec)

Steps(c) ==
    \/ Start(c) \/ SyncMember(c) \/ ListStale(c) \/ ListReplicas(c)
    \/ DeleteReplicaStack(c) \/ SyncAddons(c) \/ CleanupRest(c)
    \/ ListVolumes(c) \/ PurgeVolume(c) \/ RemoveFinalizer(c)

Next == \E c \in Clusters : Users(c) \/ Steps(c) \/ Fail(c) \/ Collect(c)

Spec == Init /\ [][Next]_vars

\* The controller takes up every resource again and again (30 s, or 5 s after
\* an error) and its executor starves no pass; the collector keeps running.
Fairness == \A c \in Clusters : WF_vars(Steps(c)) /\ WF_vars(Collect(c))

-----------------------------------------------------------------------------
(* What a neighbour may not do.                                            *)

\* The names of a cluster and a neighbour do not meet: they share no object,
\* volumes included, and no Deployment of the neighbour reads as a replica.
ApartFrom(c, d) ==
    /\ Mine(c) \cap Mine(d) = {}
    /\ \A x \in Mine(d) :
            x.kind = "Deployment" /\ x.namespace = c.namespace
                => ReplicaOrdinal(c, x.name) = {}

NamesApart == \A c, d \in Clusters : c # d => ApartFrom(c, d)

\* The pass of one resource neither takes over nor deletes what another one
\* applied, whatever it lists and however old the listing.
KeepsToItsOwn ==
    [][\A c \in Clusters, x \in DOMAIN store :
            job'[c] # job[c] /\ store[x] \in Clusters \ {c} => store'[x] = store[x]]_vars

Settled(c, spec) == cr[c].phase \in {"open", "held"} /\ cr[c].spec = spec

\* What the passes rest on: every object that is there was applied by the
\* resource it belongs to, and a pass only has own objects before it.
Owned ==
    /\ \A c \in Clusters : cr[c].spec \in SpecType /\ job[c].spec \in SpecType
    /\ store \in [Objects -> Clusters \cup {None}]
    /\ \A x \in DOMAIN store : store[x] # None => x \in Mine(store[x])
    /\ \A c \in Clusters : \A n \in job[c].pending :
        /\ job[c].stage \in {"sync", "prune", "drain"} => MemberStack(c.namespace, n) \subseteq Mine(c)
        /\ job[c].stage = "purge" => Object("PersistentVolume", Cluster, n) \in Mine(c)

\* A cluster whose spec is left alone comes to have all it asks for and keeps
\* it, while its neighbour is created, scaled, deleted and created again and
\* as long as calls do not fail for ever.
Undisturbed ==
    \A c \in Clusters : \A spec \in Specs :
        <>[]Settled(c, spec) => <>[](\A x \in Wanted(c, spec) : store[x] = c)

\* When a resource stays deleted none of what it applied is left, the volumes
\* without an owner included, while its neighbour goes on.
Released ==
    \A c \in Clusters :
        <>[](cr[c].phase = "absent") => <>[](\A x \in DOMAIN store : store[x] # c)
=============================================================================
