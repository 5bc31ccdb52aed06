--------------------------- MODULE Isolation_proofs ---------------------------
(***************************************************************************)
(* Proofs about Isolation: a resource whose names are apart from all the   *)
(* others is served as if it were alone.                                   *)
(*                                                                         *)
(* A step for another resource changes nothing that is Self's; a step for  *)
(* Self is that step of Clusters with Self as the only resource.  Both     *)
(* rest on the invariant of Clusters_proofs.                               *)
(***************************************************************************)
EXTENDS Isolation, Clusters_proofs

-----------------------------------------------------------------------------
(* What both specifications mean by the same words.                        *)

LEMMA SoloNames ==
    /\ Solo!None = None /\ Solo!NoSpec = NoSpec /\ Solo!Idle = Idle
    /\ Solo!Cluster = Cluster
    /\ \A c, spec : Solo!MemberNames(c, spec) = MemberNames(c, spec)
    /\ \A c, n : Solo!ReplicaOrdinal(c, n) = ReplicaOrdinal(c, n)
    /\ \A c : Solo!PgmonetaName(c) = PgmonetaName(c)
BY DEF Solo!None, None, Solo!NoSpec, NoSpec, Solo!Idle, Idle, Solo!Cluster, Cluster,
       Solo!MemberNames, MemberNames, Solo!ReplicaName, ReplicaName,
       Solo!ReplicaPrefix, ReplicaPrefix, Solo!Word, Word, Solo!Numeral, Numeral,
       Solo!ReplicaOrdinal, ReplicaOrdinal, Solo!IsPrefix, IsPrefix,
       Solo!PgmonetaName, PgmonetaName

LEMMA SoloObjects ==
    /\ \A kind, namespace, n : Solo!Object(kind, namespace, n) = Object(kind, namespace, n)
    /\ \A n : Solo!Volume(n) = Volume(n)
    /\ \A namespace, n : Solo!MemberStack(namespace, n) = MemberStack(namespace, n)
    /\ \A c : /\ Solo!PgmonetaStack(c) = PgmonetaStack(c)
              /\ Solo!PgexporterCore(c) = PgexporterCore(c)
              /\ Solo!PgexporterService(c) = PgexporterService(c)
              /\ Solo!MonitoringDeployment(c) = MonitoringDeployment(c)
BY DEF Solo!Object, Object, Solo!Word, Word, Solo!Volume, Volume, Solo!Cluster, Cluster, Solo!PVName, PVName,
       Solo!PVCName, PVCName, Solo!SecretName, SecretName, Solo!MemberStack, MemberStack,
       Solo!PgmonetaName, PgmonetaName, Solo!PgexporterName, PgexporterName,
       Solo!PgmonetaStack, PgmonetaStack, Solo!PgexporterCore, PgexporterCore,
       Solo!PgexporterService, PgexporterService,
       Solo!MonitoringDeployment, MonitoringDeployment

\* Alone, there are no objects but its own.
LEMMA SoloMine == Solo!Objects = Mine(Self)
<1>1. \A c : Solo!Mine(c) = Mine(c)
  BY SoloNames, SoloObjects DEF Solo!Mine, Mine, Solo!Wanted, Wanted,
     Solo!Everything, Everything
<1> QED  BY <1>1 DEF Solo!Objects

-----------------------------------------------------------------------------
(* What Self has of the objects.                                           *)

OwnCR  == [c \in {Self} |-> cr[c]]
OwnJob == [c \in {Self} |-> job[c]]

\* Its own passes and the objects it applied, which all are its own.
LEMMA OwnState ==
    ASSUME Whole
    PROVE  /\ Self \in Clusters /\ Self # None
           /\ OwnCR[Self] = cr[Self] /\ OwnJob[Self] = job[Self]
           /\ DOMAIN OwnStore = Mine(Self) /\ Mine(Self) \subseteq DOMAIN store
           /\ \A x \in Mine(Self) : OwnStore[x] = IF store[x] = Self THEN Self ELSE None
           /\ \A x \in DOMAIN store : store[x] = Self => x \in Mine(Self)
<1>1. Self \in Clusters /\ Self # None
  BY IsolationAssumption, KeyType
<1>2. \A x \in DOMAIN store : store[x] = Self => x \in Mine(Self)
  BY <1>1 DEF Whole
<1>3. Mine(Self) \subseteq DOMAIN store
  BY <1>1, MineAreObjects DEF Whole
<1> QED  BY <1>1, <1>2, <1>3 DEF OwnCR, OwnJob, OwnStore

\* Writes to objects are the same writes to its own.
LEMMA OwnSync ==
    ASSUME Whole, NEW objects, SyncAll(Self, objects)
    PROVE  Solo!SyncAll(Self, objects)
<1>1. \A x \in Mine(Self) : store'[x] = IF x \in objects THEN Self ELSE store[x]
  BY OwnState DEF SyncAll
<1>2. OwnStore' = [x \in Mine(Self) |-> IF store'[x] = Self THEN Self ELSE None]
  BY DEF OwnStore
<1>3. OwnStore' = [x \in DOMAIN OwnStore |-> IF x \in objects THEN Self ELSE OwnStore[x]]
  BY <1>1, <1>2, OwnState
<1> QED  BY <1>3 DEF Solo!SyncAll

LEMMA OwnDelete ==
    ASSUME Whole, NEW objects, DeleteAll(objects)
    PROVE  Solo!DeleteAll(objects)
<1>1. \A x \in Mine(Self) : store'[x] = IF x \in objects THEN None ELSE store[x]
  BY OwnState DEF DeleteAll
<1>2. OwnStore' = [x \in Mine(Self) |-> IF store'[x] = Self THEN Self ELSE None]
  BY DEF OwnStore
<1>3. OwnStore' = [x \in DOMAIN OwnStore |-> IF x \in objects THEN None ELSE OwnStore[x]]
  BY <1>1, <1>2, OwnState
<1> QED  BY <1>3, SoloNames DEF Solo!DeleteAll

\* A step of the pass is.
LEMMA OwnGoto ==
    ASSUME Whole, NEW stage, NEW pending,
           job' = [job EXCEPT ![Self] = [stage |-> stage, spec |-> job[Self].spec,
                                         pending |-> pending]]
    PROVE  OwnJob' = [OwnJob EXCEPT ![Self] = [stage |-> stage, spec |-> OwnJob[Self].spec,
                                               pending |-> pending]]
<1> DEFINE p == [stage |-> stage, spec |-> job[Self].spec, pending |-> pending]
<1>1. job \in [Clusters -> Pass] /\ job' = [job EXCEPT ![Self] = p]
  BY DEF Whole
<1> HIDE DEF p
<1>2. OwnJob' = [OwnJob EXCEPT ![Self] = p]
  BY <1>1, OwnState DEF OwnJob
<1> QED  BY <1>2, OwnState DEF p

LEMMA OwnEnd ==
    ASSUME Whole, End(Self)
    PROVE  Solo!End(Self)
<1>1. job \in [Clusters -> Pass]
  BY DEF Whole
<1>2. OwnJob' = [OwnJob EXCEPT ![Self] = Idle]
  BY <1>1, OwnState DEF OwnJob, End
<1> QED  BY <1>2, SoloNames DEF Solo!End, OwnJob

\* What is left alone is left alone.
LEMMA OwnSame ==
    /\ UNCHANGED cr => UNCHANGED OwnCR
    /\ UNCHANGED store => UNCHANGED OwnStore
    /\ UNCHANGED job => UNCHANGED OwnJob
BY DEF OwnCR, OwnStore, OwnJob

LEMMA OwnAt ==
    ASSUME Whole, NEW stage
    PROVE  Solo!At(Self, stage) <=> At(Self, stage)
BY OwnState DEF Solo!At, At, OwnJob

-----------------------------------------------------------------------------
(* What Self sees of the others: nothing.                                  *)

\* Of the Deployments it lists those that read as its replicas are its own.
LEMMA OwnReplicasListed ==
    ASSUME NamesApart, Whole, NEW n, ReplicaOrdinal(Self, n) # {}
    PROVE  n \in DeploymentNames(Self.namespace)
              <=> n \in Solo!DeploymentNames(Self.namespace)
<1>1. ASSUME n \in DeploymentNames(Self.namespace)
      PROVE  n \in Solo!DeploymentNames(Self.namespace)
  <2>1. PICK x \in DOMAIN store : /\ x.kind = "Deployment" /\ x.namespace = Self.namespace
                                  /\ store[x] # None /\ n = x.name
    BY <1>1 DEF DeploymentNames
  <2>2. PICK d \in Clusters : store[x] = d /\ x \in Mine(d)
    BY <2>1 DEF Whole
  <2>3. d = Self
    BY <2>1, <2>2, IsolationAssumption DEF NamesApart, ApartFrom
  <2>4. x \in DOMAIN OwnStore /\ OwnStore[x] # None
    BY <2>2, <2>3, OwnState
  <2> QED  BY <2>1, <2>4, SoloNames DEF Solo!DeploymentNames
<1>2. ASSUME n \in Solo!DeploymentNames(Self.namespace)
      PROVE  n \in DeploymentNames(Self.namespace)
  <2>1. PICK x \in DOMAIN OwnStore : /\ x.kind = "Deployment" /\ x.namespace = Self.namespace
                                     /\ OwnStore[x] # None /\ n = x.name
    BY <1>2, SoloNames DEF Solo!DeploymentNames
  <2>2. x \in DOMAIN store /\ store[x] # None
    BY <2>1, OwnState
  <2> QED  BY <2>1, <2>2 DEF DeploymentNames
<1> QED  BY <1>1, <1>2

\* The volumes labelled with its name are its own.
OwnVolumes ==
    {x.name : x \in {y \in DOMAIN store : /\ y.namespace = Cluster
                                          /\ store[y] # None
                                          /\ store[y].name = Self.name}}

LEMMA OwnVolumesListed ==
    ASSUME NamesApart, Whole
    PROVE  OwnVolumes =
              {x.name : x \in {y \in DOMAIN OwnStore : /\ y.namespace = Cluster
                                                       /\ OwnStore[y] # None
                                                       /\ OwnStore[y].name = Self.name}}
<1>1. ASSUME NEW x \in DOMAIN store, store[x] # None, store[x].name = Self.name
      PROVE  x \in DOMAIN OwnStore /\ OwnStore[x] = Self
  <2>1. PICK d \in Clusters : store[x] = d /\ x \in Mine(d)
    BY <1>1 DEF Whole
  <2>2. d = Self
    BY <1>1, <2>1, NamesDiffer, IsolationAssumption
  <2> QED  BY <2>1, <2>2, OwnState
<1>2. ASSUME NEW x \in DOMAIN OwnStore, OwnStore[x] # None
      PROVE  x \in DOMAIN store /\ store[x] = Self /\ OwnStore[x] = Self
  BY <1>2, OwnState
<1> QED  BY <1>1, <1>2, OwnState DEF OwnVolumes

\* The collector finds what Self applied.
LEMMA OwnCollected ==
    ASSUME Whole
    PROVE  {x \in DOMAIN store : x.namespace # Cluster /\ store[x] = Self}
              = {x \in DOMAIN OwnStore : x.namespace # Cluster /\ OwnStore[x] = Self}
BY OwnState

-----------------------------------------------------------------------------
(* A step for Self.                                                        *)

\* Users write one resource.
LEMMA OwnUsers ==
    ASSUME Whole, Users(Self)
    PROVE  Solo!Users(Self)
<1>1. cr \in [Clusters -> Resource]
  BY DEF Whole
<1>2. OwnCR' = [c \in {Self} |-> cr'[c]]
  BY DEF OwnCR
<1>3. CASE DeleteCR(Self)
  <2> DEFINE r == IF cr[Self].phase = "held"
                  THEN [cr[Self] EXCEPT !.phase = "dying"]
                  ELSE [phase |-> "absent", spec |-> NoSpec]
  <2>1. cr' = [cr EXCEPT ![Self] = r] /\ cr[Self].phase \in {"open", "held"}
        /\ UNCHANGED <<store, job>>
    BY <1>3 DEF DeleteCR
  <2> HIDE DEF r
  <2>2. OwnCR' = [OwnCR EXCEPT ![Self] = r]
    BY <1>1, <1>2, <2>1, OwnState DEF OwnCR
  <2>3. Solo!DeleteCR(Self)
    BY <2>1, <2>2, OwnState, OwnSame, SoloNames DEF Solo!DeleteCR, OwnCR, OwnJob, r
  <2> QED  BY <2>3 DEF Solo!Users
<1>4. ASSUME NEW spec \in Specs, Create(Self, spec)
      PROVE  Solo!Users(Self)
  <2> DEFINE r == [phase |-> "open", spec |-> spec]
  <2>1. cr' = [cr EXCEPT ![Self] = r] /\ cr[Self].phase = "absent" /\ UNCHANGED <<store, job>>
    BY <1>4 DEF Create
  <2> HIDE DEF r
  <2>2. OwnCR' = [OwnCR EXCEPT ![Self] = r]
    BY <1>1, <1>2, <2>1, OwnState DEF OwnCR
  <2>3. Solo!Create(Self, spec)
    BY <2>1, <2>2, OwnState, OwnSame DEF Solo!Create, OwnCR, OwnJob, r
  <2> QED  BY <2>3 DEF Solo!Users
<1>5. ASSUME NEW spec \in Specs, Edit(Self, spec)
      PROVE  Solo!Users(Self)
  <2> DEFINE r == [cr[Self] EXCEPT !.spec = spec]
  <2>1. /\ cr' = [cr EXCEPT ![Self] = r]
        /\ cr[Self].phase \in {"open", "held"} /\ spec # cr[Self].spec
        /\ UNCHANGED <<store, job>>
    BY <1>5 DEF Edit
  <2> HIDE DEF r
  <2>2. OwnCR' = [OwnCR EXCEPT ![Self] = r]
    BY <1>1, <1>2, <2>1, OwnState DEF OwnCR
  <2>3. Solo!Edit(Self, spec)
    BY <2>1, <2>2, OwnState, OwnSame DEF Solo!Edit, OwnCR, OwnJob, r
  <2> QED  BY <2>3 DEF Solo!Users
<1> QED  BY <1>3, <1>4, <1>5 DEF Users

\* A pass begins with the resource it has.
LEMMA OwnStart ==
    ASSUME Whole, Start(Self)
    PROVE  Solo!Start(Self)
<1>1. cr \in [Clusters -> Resource] /\ job \in [Clusters -> Pass]
  BY DEF Whole
<1> DEFINE r == [cr[Self] EXCEPT !.phase = IF @ = "open" THEN "held" ELSE @]
           p == IF cr[Self].phase = "dying"
                THEN [stage |-> "list", spec |-> cr[Self].spec, pending |-> {}]
                ELSE [stage |-> "sync", spec |-> cr[Self].spec,
                      pending |-> MemberNames(Self, cr[Self].spec)]
<1>2. /\ cr' = [cr EXCEPT ![Self] = r] /\ job' = [job EXCEPT ![Self] = p]
      /\ At(Self, "idle") /\ cr[Self].phase # "absent" /\ UNCHANGED store
  BY DEF Start
<1> HIDE DEF r, p
<1>3. OwnCR' = [OwnCR EXCEPT ![Self] = r]
  BY <1>1, <1>2, OwnState DEF OwnCR
<1>4. OwnJob' = [OwnJob EXCEPT ![Self] = p]
  BY <1>1, <1>2, OwnState DEF OwnJob
<1>5. Solo!At(Self, "idle") /\ UNCHANGED OwnStore
  BY <1>2, OwnAt, OwnSame
<1>6. OwnCR[Self] = cr[Self]
  BY OwnState
<1> QED  BY <1>2, <1>3, <1>4, <1>5, <1>6, SoloNames DEF Solo!Start, OwnCR, OwnJob, r, p

\* Members, add-ons and what a cleanup deletes.
LEMMA OwnWrites ==
    ASSUME Whole,
           \/ SyncMember(Self) \/ DeleteReplicaStack(Self) \/ SyncAddons(Self)
           \/ CleanupRest(Self) \/ PurgeVolume(Self)
    PROVE  \/ Solo!SyncMember(Self) \/ Solo!DeleteReplicaStack(Self) \/ Solo!SyncAddons(Self)
           \/ Solo!CleanupRest(Self) \/ Solo!PurgeVolume(Self)
<1>1. UNCHANGED OwnCR
  BY OwnSame DEF SyncMember, DeleteReplicaStack, SyncAddons, CleanupRest, PurgeVolume
<1>2. job[Self] = OwnJob[Self]
  BY OwnState
<1>3. CASE SyncMember(Self)
  <2>1. PICK n \in job[Self].pending :
            /\ SyncAll(Self, MemberStack(Self.namespace, n))
            /\ Goto(Self, "sync", job[Self].pending \ {n})
    BY <1>3 DEF SyncMember
  <2>2. Solo!SyncAll(Self, Solo!MemberStack(Self.namespace, n))
    BY <2>1, OwnSync, SoloObjects
  <2>3. OwnJob' = [OwnJob EXCEPT ![Self] = [stage |-> "sync", spec |-> OwnJob[Self].spec,
                                     pending |-> job[Self].pending \ {n}]]
    BY <2>1, OwnState, GotoIs, OwnGoto
  <2>4. Solo!At(Self, "sync")
    BY <1>3, OwnAt DEF SyncMember
  <2> QED  BY <1>1, <1>2, <2>2, <2>3, <2>4 DEF Solo!SyncMember, Solo!Goto, OwnCR, OwnJob
<1>4. CASE DeleteReplicaStack(Self)
  <2>1. PICK n \in job[Self].pending :
            /\ DeleteAll(MemberStack(Self.namespace, n))
            /\ Goto(Self, job[Self].stage, job[Self].pending \ {n})
    BY <1>4 DEF DeleteReplicaStack
  <2>2. Solo!DeleteAll(Solo!MemberStack(Self.namespace, n))
    BY <2>1, OwnDelete, SoloObjects
  <2>3. OwnJob' = [OwnJob EXCEPT ![Self] = [stage |-> job[Self].stage, spec |-> OwnJob[Self].spec,
                                     pending |-> job[Self].pending \ {n}]]
    BY <2>1, OwnState, GotoIs, OwnGoto
  <2>4. Solo!At(Self, "prune") \/ Solo!At(Self, "drain")
    BY <1>4, OwnAt DEF DeleteReplicaStack
  <2> QED  BY <1>1, <1>2, <2>2, <2>3, <2>4 DEF Solo!DeleteReplicaStack, Solo!Goto, OwnCR, OwnJob
<1>5. CASE SyncAddons(Self)
  <2>1. /\ Solo!At(Self, "prune") /\ OwnJob[Self].pending = {} /\ Solo!End(Self)
    BY <1>2, <1>5, OwnAt, OwnEnd DEF SyncAddons
  <2>2. IF OwnJob[Self].spec.addons
        THEN Solo!SyncAll(Self, Solo!PgmonetaStack(Self) \cup Solo!PgexporterCore(Self)
                \cup {Solo!PgexporterService(Self), Solo!MonitoringDeployment(Self)})
        ELSE Solo!DeleteAll(Solo!PgmonetaStack(Self) \cup Solo!PgexporterCore(Self))
    BY <1>2, <1>5, OwnSync, OwnDelete, SoloObjects DEF SyncAddons
  <2> QED  BY <1>1, <2>1, <2>2 DEF Solo!SyncAddons, OwnCR, OwnJob
<1>6. CASE CleanupRest(Self)
  <2>1. /\ Solo!At(Self, "drain") /\ OwnJob[Self].pending = {}
    BY <1>2, <1>6, OwnAt DEF CleanupRest
  <2>2. Solo!DeleteAll((Solo!MemberStack(Self.namespace, Self.name) \cup Solo!PgmonetaStack(Self)
                          \cup Solo!PgexporterCore(Self) \cup {Solo!MonitoringDeployment(Self)})
                       \ {Solo!Volume(Self.name), Solo!Volume(Solo!PgmonetaName(Self))})
    BY <1>6, OwnDelete, SoloObjects, SoloNames DEF CleanupRest
  <2>3. OwnJob' = [OwnJob EXCEPT ![Self] = [stage |-> "rest", spec |-> OwnJob[Self].spec,
                                     pending |-> {}]]
    BY <1>6, OwnState, GotoIs, OwnGoto DEF CleanupRest
  <2> QED  BY <1>1, <2>1, <2>2, <2>3 DEF Solo!CleanupRest, Solo!Goto, OwnCR, OwnJob
<1>7. CASE PurgeVolume(Self)
  <2>1. PICK n \in job[Self].pending :
            /\ DeleteAll({Object("PersistentVolume", Cluster, n)})
            /\ Goto(Self, "purge", job[Self].pending \ {n})
    BY <1>7 DEF PurgeVolume
  <2>2. Solo!DeleteAll({Solo!Object("PersistentVolume", Solo!Cluster, n)})
    BY <2>1, OwnDelete, SoloObjects, SoloNames
  <2>3. OwnJob' = [OwnJob EXCEPT ![Self] = [stage |-> "purge", spec |-> OwnJob[Self].spec,
                                     pending |-> job[Self].pending \ {n}]]
    BY <2>1, OwnState, GotoIs, OwnGoto
  <2>4. Solo!At(Self, "purge")
    BY <1>7, OwnAt DEF PurgeVolume
  <2> QED  BY <1>1, <1>2, <2>2, <2>3, <2>4 DEF Solo!PurgeVolume, Solo!Goto, OwnCR, OwnJob
<1> QED  BY <1>3, <1>4, <1>5, <1>6, <1>7

\* The listings show it its own objects and nothing else.
LEMMA OwnListings ==
    ASSUME NamesApart, Whole, ListStale(Self) \/ ListReplicas(Self) \/ ListVolumes(Self)
    PROVE  Solo!ListStale(Self) \/ Solo!ListReplicas(Self) \/ Solo!ListVolumes(Self)
<1>1. UNCHANGED <<OwnCR, OwnStore>>
  BY OwnSame DEF ListStale, ListReplicas, ListVolumes
<1>2. job[Self] = OwnJob[Self]
  BY OwnState
<1>3. CASE ListStale(Self)
  <2> DEFINE Stale(names) == {n \in names : \E i \in ReplicaOrdinal(Self, n) : i > job[Self].spec.replicas}
  <2>1. Stale(DeploymentNames(Self.namespace)) = Stale(Solo!DeploymentNames(Self.namespace))
    BY OwnReplicasListed
  <2>2. Goto(Self, "prune", Stale(DeploymentNames(Self.namespace)))
    BY <1>3 DEF ListStale
  <2> HIDE DEF Stale
  <2>3. OwnJob' = [OwnJob EXCEPT ![Self] = [stage |-> "prune", spec |-> OwnJob[Self].spec,
                                     pending |-> Stale(Solo!DeploymentNames(Self.namespace))]]
    BY <2>1, <2>2, OwnState, GotoIs, OwnGoto
  <2>4. Solo!At(Self, "sync") /\ OwnJob[Self].pending = {}
    BY <1>2, <1>3, OwnAt DEF ListStale
  <2> QED  BY <1>1, <1>2, <2>3, <2>4, SoloNames DEF Solo!ListStale, Solo!Goto, OwnCR, OwnJob, Stale
<1>4. CASE ListReplicas(Self)
  <2> DEFINE Reading(names) == {n \in names : ReplicaOrdinal(Self, n) # {}}
  <2>1. Reading(DeploymentNames(Self.namespace)) = Reading(Solo!DeploymentNames(Self.namespace))
    BY OwnReplicasListed
  <2>2. Goto(Self, "drain", Reading(DeploymentNames(Self.namespace)))
    BY <1>4 DEF ListReplicas
  <2> HIDE DEF Reading
  <2>3. OwnJob' = [OwnJob EXCEPT ![Self] = [stage |-> "drain", spec |-> OwnJob[Self].spec,
                                     pending |-> Reading(Solo!DeploymentNames(Self.namespace))]]
    BY <2>1, <2>2, OwnState, GotoIs, OwnGoto
  <2>4. Solo!At(Self, "list")
    BY <1>4, OwnAt DEF ListReplicas
  <2> QED  BY <1>1, <2>3, <2>4, SoloNames DEF Solo!ListReplicas, Solo!Goto, OwnCR, OwnJob, Reading
<1>5. CASE ListVolumes(Self)
  <2>1. Goto(Self, "purge", OwnVolumes)
    BY <1>5 DEF ListVolumes, OwnVolumes
  <2>2. OwnJob' = [OwnJob EXCEPT ![Self] = [stage |-> "purge", spec |-> OwnJob[Self].spec,
                                     pending |-> OwnVolumes]]
    BY <2>1, OwnState, GotoIs, OwnGoto
  <2>3. Solo!At(Self, "rest")
    BY <1>5, OwnAt DEF ListVolumes
  <2> QED  BY <1>1, <2>2, <2>3, OwnVolumesListed, SoloNames DEF Solo!ListVolumes, Solo!Goto, OwnCR, OwnJob
<1> QED  BY <1>3, <1>4, <1>5

\* The ends of a pass and the collector.
LEMMA OwnEnds ==
    ASSUME Whole, RemoveFinalizer(Self) \/ Fail(Self) \/ Collect(Self)
    PROVE  Solo!RemoveFinalizer(Self) \/ Solo!Fail(Self) \/ Solo!Collect(Self)
<1>1. CASE RemoveFinalizer(Self)
  <2>1. cr \in [Clusters -> Resource]
    BY DEF Whole
  <2>2. OwnCR' = [OwnCR EXCEPT ![Self] = [phase |-> "absent", spec |-> NoSpec]]
    BY <1>1, <2>1, OwnState DEF RemoveFinalizer, OwnCR
  <2>3. /\ Solo!At(Self, "purge") /\ OwnJob[Self].pending = {} /\ Solo!End(Self)
        /\ UNCHANGED OwnStore
    BY <1>1, OwnState, OwnAt, OwnEnd, OwnSame DEF RemoveFinalizer
  <2> QED  BY <2>2, <2>3, SoloNames DEF Solo!RemoveFinalizer, OwnCR, OwnJob
<1>2. CASE Fail(Self)
  <2>1. ~Solo!At(Self, "idle") /\ Solo!End(Self) /\ UNCHANGED <<OwnCR, OwnStore>>
    BY <1>2, OwnAt, OwnEnd, OwnSame DEF Fail
  <2> QED  BY <2>1 DEF Solo!Fail, OwnCR
<1>3. CASE Collect(Self)
  <2>1. cr[Self].phase = "absent" /\ UNCHANGED <<cr, job>>
        /\ (\E x \in DOMAIN store : x.namespace # Cluster /\ store[x] = Self)
        /\ DeleteAll({x \in DOMAIN store : x.namespace # Cluster /\ store[x] = Self})
    BY <1>3 DEF Collect
  <2>2. \E x \in DOMAIN OwnStore : x.namespace # Cluster /\ OwnStore[x] = Self
    BY <2>1, OwnState
  <2>3. Solo!DeleteAll({x \in DOMAIN OwnStore : x.namespace # Cluster /\ OwnStore[x] = Self})
    BY <2>1, OwnCollected, OwnDelete
  <2>4. OwnCR[Self].phase = "absent" /\ UNCHANGED <<OwnCR, OwnJob>>
    BY <2>1, OwnState, OwnSame
  <2> QED  BY <2>2, <2>3, <2>4, SoloNames DEF Solo!Collect, OwnCR, OwnJob
<1> QED  BY <1>1, <1>2, <1>3

LEMMA OwnStep ==
    ASSUME NamesApart, Whole, Users(Self) \/ Steps(Self) \/ Fail(Self) \/ Collect(Self)
    PROVE  Solo!Next
<1>1. Solo!Users(Self) \/ Solo!Steps(Self) \/ Solo!Fail(Self) \/ Solo!Collect(Self)
  BY OwnUsers, OwnStart, OwnWrites, OwnListings, OwnEnds DEF Steps, Solo!Steps
<1> QED  BY <1>1 DEF Solo!Next

-----------------------------------------------------------------------------
(* A step for another one.                                                 *)

LEMMA OthersStep ==
    ASSUME NamesApart, Whole, NEW c \in Clusters, c # Self,
           Users(c) \/ Steps(c) \/ Fail(c) \/ Collect(c)
    PROVE  UNCHANGED <<OwnCR, OwnStore, OwnJob>>
<1>1. StepFor(c)
  <2>1. CASE Users(c) \/ Collect(c)
    BY <2>1, OutsideStep DEF Users
  <2>2. CASE Fail(c)
    BY <2>2, EndStep
  <2>3. CASE Steps(c)
    BY <2>3, StartStep, SyncMemberStep, ListStep, DeleteReplicaStackStep, SyncAddonsStep,
       CleanupRestStep, ListVolumesStep, PurgeVolumeStep, EndStep DEF Steps
  <2> QED  BY <2>1, <2>2, <2>3
<1>2. cr'[Self] = cr[Self]
  <2>1. cr \in [Clusters -> Resource]
    BY DEF Whole
  <2>2. UNCHANGED cr \/ \E r : cr' = [cr EXCEPT ![c] = r]
    BY DEF Users, DeleteCR, Create, Edit, Steps, Start, SyncMember, ListStale, ListReplicas,
           DeleteReplicaStack, SyncAddons, CleanupRest, ListVolumes, PurgeVolume,
           RemoveFinalizer, Fail, Collect
  <2> QED  BY <2>1, <2>2, OwnState
<1>3. job'[Self] = job[Self]
  BY <1>1, OwnState DEF StepFor, Whole
<1>4. \A x \in Mine(Self) : store'[x] = store[x]
  <2>1. \A x \in Mine(Self) : x \in Objects /\ x \notin Mine(c)
    BY OwnState DEF NamesApart, ApartFrom, Whole
  <2> QED  BY <1>1, <2>1 DEF StepFor, Frame
<1> QED  BY <1>2, <1>3, <1>4 DEF OwnCR, OwnJob, OwnStore

-----------------------------------------------------------------------------
(* The theorem.                                                            *)

LEMMA AloneInit == Init => Solo!Init
<1> SUFFICES ASSUME Init PROVE Solo!Init
  OBVIOUS
<1>1. Whole
  BY InitWhole
<1>2. /\ OwnCR = [c \in {Self} |-> [phase |-> "absent", spec |-> NoSpec]]
      /\ OwnJob = [c \in {Self} |-> Idle]
  BY <1>1, OwnState DEF Init, OwnCR, OwnJob
<1>3. OwnStore = [x \in Solo!Objects |-> None]
  <2>1. \A x \in Mine(Self) : store[x] = None
    BY <1>1, OwnState DEF Init
  <2> QED  BY <1>1, <2>1, OwnState, SoloMine DEF OwnStore
<1> QED  BY <1>2, <1>3, SoloNames DEF Solo!Init, OwnCR, OwnJob

LEMMA AloneStep == NamesApart /\ Whole /\ [Next]_vars => [Solo!Next]_(Solo!vars)
<1> SUFFICES ASSUME NamesApart, Whole, [Next]_vars PROVE Solo!Next \/ UNCHANGED Solo!vars
  OBVIOUS
<1>1. UNCHANGED <<OwnCR, OwnStore, OwnJob>> => UNCHANGED Solo!vars
  BY DEF Solo!vars, OwnCR, OwnJob
<1>2. CASE UNCHANGED vars
  BY <1>1, <1>2, OwnSame DEF vars
<1>3. CASE Next
  <2>1. PICK c \in Clusters : Users(c) \/ Steps(c) \/ Fail(c) \/ Collect(c)
    BY <1>3 DEF Next
  <2>2. CASE c = Self
    BY <2>1, <2>2, OwnStep
  <2>3. CASE c # Self
    BY <1>1, <2>1, <2>3, OthersStep
  <2> QED  BY <2>2, <2>3
<1> QED  BY <1>2, <1>3

\* A resource whose names are apart from the others' is served as if it were
\* alone, whatever becomes of them and however often calls fail: what holds of
\* one resource by itself holds of each among many.
THEOREM ServedAsIfAlone == NamesApart => (Spec => AsIfAlone)
<1> SUFFICES ASSUME NamesApart PROVE Spec => AsIfAlone
  OBVIOUS
<1>1. Whole /\ [Next]_vars => Whole'
  BY NextWhole
<1>2. Whole /\ [Next]_vars => [Solo!Next]_(Solo!vars)
  BY AloneStep
<1> QED  BY <1>1, <1>2, InitWhole, AloneInit, PTL DEF Spec, AsIfAlone, Solo!Spec
=============================================================================
