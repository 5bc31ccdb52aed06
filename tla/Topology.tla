------------------------------ MODULE Topology ------------------------------
(***************************************************************************)
(* The Kubernetes objects of one PostgreSQL cluster and the API calls that *)
(* create and delete them: src/src/cluster.rs, src/src/cluster/cleanup.rs  *)
(* and the names of src/src/cluster/topology.rs.                           *)
(*                                                                         *)
(* A component stands for a base name ("mycluster", "mycluster-replica-2", *)
(* "mycluster-pgmoneta", ...) and an object is a kind and a component, so  *)
(* two objects are equal exactly when the API server would see one object. *)
(***************************************************************************)
EXTENDS Integers, Sequences

CONSTANTS MaxReplicas,  \* the largest replica count a spec asks for
          MaxConfig     \* how many distinct valid spec.config maps there are

ASSUME TopologyAssumption == MaxReplicas \in Nat /\ MaxConfig \in Nat

-----------------------------------------------------------------------------
(* spec.config is absent, rejected by validate_config_keys, or one of the  *)
(* maps 1..MaxConfig: the map and its hash-named ConfigMap share a number, *)
(* as if no two maps had the same 32 bits of the hash that are in the name.*)

NoConfig  == 0
BadConfig == -1

SpecType == [version    : {"18", "other"},
             config     : {BadConfig} \cup 0..MaxConfig,
             replicas   : 0..MaxReplicas,
             pgmoneta   : BOOLEAN,
             pgexporter : {"none", "plain", "monitored"}]

-----------------------------------------------------------------------------
Primary    == <<"primary", 0>>
Replica(i) == <<"replica", i>>
Pgmoneta   == <<"pgmoneta", 0>>
Pgexporter == <<"pgexporter", 0>>
Monitoring == <<"pgexporter-mon", 0>>
Config(c)  == <<"config", c>>

Replicas == {Replica(i) : i \in 1..MaxReplicas}
Members  == {Primary} \cup Replicas
Configs  == {Config(c) : c \in 1..MaxConfig}

\* Replica(i) has ordinal i and the primary comes first.
Ordinal(m) == m[2]

\* ClusterTopology::replica_members, with the primary in front.
MembersOf(spec) == {Primary} \cup {Replica(i) : i \in 1..spec.replicas}

\* What owns a PersistentVolume labelled with the cluster's name.
Stacks == Members \cup {Pgmoneta}

\* The namespaced objects, all of them created with an owner reference.
Children ==
    ({"Service", "Deployment", "PVC"} \X Members)
        \cup ({"Deployment", "PVC", "Secret"} \X {Pgmoneta})
        \cup ({"Deployment", "Service", "Secret"} \X {Pgexporter})
        \cup ({"Deployment"} \X {Monitoring})
        \cup ({"ConfigMap"} \X Configs)

Volumes == {"PV"} \X Stacks

Deployment(c) == <<"Deployment", c>>
Service(c)    == <<"Service", c>>
PVC(c)        == <<"PVC", c>>
Secret(c)     == <<"Secret", c>>
PV(c)         == <<"PV", c>>

-----------------------------------------------------------------------------
(* API calls.  An apply is manager.sync or manager.sync_cluster, a delete  *)
(* is manager.delete or manager.delete_cluster.                            *)

Apply(o)  == [verb |-> "apply", object |-> o]
Delete(o) == [verb |-> "delete", object |-> o]

Calls       == [verb : {"apply", "delete"}, object : Children \cup Volumes]
DeleteCalls == [verb : {"delete"}, object : Children \cup Volumes]

\* All but the calls no plan below contains.
Kept         == {PV(Primary)} \cup ({"ConfigMap"} \X Configs)
PlannedCalls == Calls \ {Delete(o) : o \in Kept}

SyncConfig(spec) ==
    IF spec.config = NoConfig
    THEN << >>
    ELSE <<Apply(<<"ConfigMap", Config(spec.config)>>)>>

\* sync_primary and sync_replica make the same calls.
SyncMember(m) ==
    <<Apply(PV(m)), Apply(PVC(m)), Apply(Deployment(m)), Apply(Service(m))>>

\* Mutant: the storage goes before the workload that uses it.
DeleteReplicaStackFromBelow(m) ==
    <<Delete(PV(m)), Delete(PVC(m)), Delete(Deployment(m)), Delete(Service(m))>>

DeleteReplicaStack(m) ==
    <<Delete(Service(m)), Delete(Deployment(m)), Delete(PVC(m)), Delete(PV(m))>>

SyncPgmoneta ==
    <<Apply(PV(Pgmoneta)), Apply(PVC(Pgmoneta)),
      Apply(Secret(Pgmoneta)), Apply(Deployment(Pgmoneta))>>

CleanupPgmoneta ==
    <<Delete(Deployment(Pgmoneta)), Delete(PVC(Pgmoneta)),
      Delete(Secret(Pgmoneta)), Delete(PV(Pgmoneta))>>

SyncPgexporter(monitored) ==
    <<Apply(Secret(Pgexporter)), Apply(Deployment(Pgexporter)),
      Apply(Service(Pgexporter)),
      IF monitored THEN Apply(Deployment(Monitoring))
                   ELSE Delete(Deployment(Monitoring))>>

\* The Service and the monitoring Deployment are not among the calls.
CleanupPgexporter ==
    <<Delete(Deployment(Pgexporter)), Delete(Secret(Pgexporter))>>

\* The tail of sync_topology, after the stale replicas.
SyncAddons(spec) ==
    (IF spec.pgmoneta THEN SyncPgmoneta ELSE CleanupPgmoneta)
        \o (IF spec.pgexporter # "none"
            THEN SyncPgexporter(spec.pgexporter = "monitored")
            ELSE CleanupPgexporter)

\* cleanup::all between the replica stacks and the volumes.
CleanupRest ==
    <<Delete(Service(Primary)), Delete(Deployment(Primary)), Delete(PVC(Primary)),
      Delete(Deployment(Pgmoneta)), Delete(PVC(Pgmoneta)), Delete(Secret(Pgmoneta)),
      Delete(Deployment(Pgexporter)), Delete(Secret(Pgexporter)),
      Delete(Deployment(Monitoring))>>

-----------------------------------------------------------------------------
(* The order of calls, for the invariants.                                 *)

\* A call is left to make.
Left(c, calls) == \E i \in 1..Len(calls) : calls[i] = c

\* Every call b left has a call a before it.
Behind(b, a, calls) ==
    \A i \in 1..Len(calls) : calls[i] = b => \E j \in 1..i - 1 : calls[j] = a
=============================================================================
