--------------------------- MODULE Clusters_proofs ---------------------------
(* Proofs about Clusters, for any set of resources whose names are apart,  *)
(* any specs and any number of failing calls.                              *)
EXTENDS Clusters, SequenceTheorems, TLAPS

-----------------------------------------------------------------------------
(* Names.                                                                  *)

\* The segments of all names.  The prover has no rule that a string is in
\* STRING: those the operator adds are listed.
Segments == Segment \cup {Word("replica"), Word("pgmoneta"), Word("pgexporter"), Word("mon")}

LEMMA Bounds ==
    MaxOrdinal \in Nat /\ MaxReplicas \in Nat /\ MaxReplicas <= MaxOrdinal
BY ClustersAssumption

LEMMA KeyType ==
    ASSUME NEW c \in Clusters
    PROVE  /\ c.name \in Seq(Segments) /\ c.name # << >>
           /\ c.namespace # Cluster
           /\ c = [namespace |-> c.namespace, name |-> c.name]
           /\ c # None
<1>1. c \in [namespace : STRING \ {Cluster}, name : Seq(Segment) \ {<< >>}]
  BY ClustersAssumption DEF Key
<1>2. c.name \in Seq(Segment) \ {<< >>} /\ c.namespace \in STRING \ {Cluster}
  BY <1>1
<1>3. c = [namespace |-> c.namespace, name |-> c.name]
  BY <1>1
<1>4. None.name = << >>
  BY DEF None
<1>5. c.name \in Seq(Segments)
  BY <1>2, SeqMonotonic DEF Segments
<1> QED  BY <1>2, <1>3, <1>4, <1>5

\* The words are different ones.
LEMMA WordsDiffer ==
    /\ Word("replica") # Word("pgmoneta")
    /\ Word("replica") # Word("pgexporter")
BY DEF Word

\* The segments every replica's name begins with.
LEMMA PrefixSegments ==
    ASSUME NEW c \in Clusters
    PROVE  /\ Len(c.name) \in Nat
           /\ ReplicaPrefix(c) \in Seq(Segments)
           /\ Len(ReplicaPrefix(c)) = Len(c.name) + 1
           /\ ReplicaPrefix(c)[Len(c.name) + 1] = Word("replica")
<1>1. c.name \in Seq(Segments) /\ Len(c.name) \in Nat
  BY KeyType, LenProperties
<1>2. Word("replica") \in Segments
  BY DEF Segments
<1> QED  BY <1>1, <1>2, AppendProperties, Zenon DEF ReplicaPrefix

\* The segments of the add-ons' names.
LEMMA AddonSegments ==
    ASSUME NEW c \in Clusters
    PROVE  /\ Len(c.name) \in Nat
           /\ PgmonetaName(c) \in Seq(Segments)
           /\ PgexporterName(c) \in Seq(Segments)
           /\ Len(PgmonetaName(c)) = Len(c.name) + 1
           /\ Len(PgexporterName(c)) = Len(c.name) + 1
           /\ Append(PgexporterName(c), Word("mon")) \in Seq(Segments)
           /\ Append(PgexporterName(c), Word("mon"))[Len(c.name) + 1] = Word("pgexporter")
<1>1. c.name \in Seq(Segments) /\ Len(c.name) \in Nat
  BY KeyType, LenProperties
<1>2. Word("pgmoneta") \in Segments /\ Word("pgexporter") \in Segments /\ Word("mon") \in Segments
  BY DEF Segments
<1>3. PgmonetaName(c) \in Seq(Segments) /\ Len(PgmonetaName(c)) = Len(c.name) + 1
  BY <1>1, <1>2, AppendProperties, Zenon DEF PgmonetaName
<1>4. /\ PgexporterName(c) \in Seq(Segments) /\ Len(PgexporterName(c)) = Len(c.name) + 1
      /\ PgexporterName(c)[Len(c.name) + 1] = Word("pgexporter")
  BY <1>1, <1>2, AppendProperties, Zenon DEF PgexporterName
<1>5. Len(c.name) + 1 \in 1..Len(PgexporterName(c))
  <2>1. Len(PgexporterName(c)) = Len(c.name) + 1
    BY <1>4, Zenon
  <2> QED  BY <1>1, <2>1
<1>6. /\ Append(PgexporterName(c), Word("mon")) \in Seq(Segments)
      /\ \A i \in 1..Len(PgexporterName(c)) :
            Append(PgexporterName(c), Word("mon"))[i] = PgexporterName(c)[i]
  <2>1. PgexporterName(c) \in Seq(Segments) /\ Word("mon") \in Segments
    BY <1>2, <1>4, Zenon
  <2> QED  BY <2>1, AppendProperties
<1> QED  BY <1>1, <1>3, <1>4, <1>5, <1>6, Zenon

\* A name that reads as a replica's is as long and has its segment.
LEMMA OrdinalSegments ==
    ASSUME NEW c \in Clusters, NEW t \in Seq(Segments), ReplicaOrdinal(c, t) # {}
    PROVE  Len(t) >= Len(c.name) + 2 /\ t[Len(c.name) + 1] = Word("replica")
<1>1. IsPrefix(ReplicaPrefix(c), t) /\ Len(c.name) + 2 <= Len(t)
  BY DEF ReplicaOrdinal
<1> DEFINE p == ReplicaPrefix(c)
<1> DEFINE n == Len(c.name) + 1
<1>2. Len(c.name) \in Nat
  BY PrefixSegments
<1>3. p \in Seq(Segments) /\ Len(p) = n /\ p[n] = Word("replica")
  BY PrefixSegments
<1>4. Len(t) \in Nat /\ n <= Len(t) /\ SubSeq(p, 1, n) = SubSeq(t, 1, n)
  BY <1>1, <1>3, LenProperties DEF IsPrefix
<1> HIDE DEF p
<1>5. \A j \in 1..n : p[j] \in Segments /\ t[j] \in Segments
  BY <1>2, <1>3, <1>4, ElementOfSeq
<1>6. SubSeq(p, 1, n)[n] = p[n] /\ SubSeq(t, 1, n)[n] = t[n]
  BY <1>2, <1>5, SubSeqProperties
<1> QED  BY <1>1, <1>2, <1>3, <1>4, <1>6

-----------------------------------------------------------------------------
(* Objects.                                                                *)

LEMMA AllMine ==
    ASSUME NEW c, NEW x
    PROVE  x \in Mine(c) <=> \/ \E n \in MemberNames(c, Everything) : x \in MemberStack(c.namespace, n)
                             \/ x \in PgmonetaStack(c)
                             \/ x \in PgexporterCore(c)
                             \/ x = PgexporterService(c)
                             \/ x = MonitoringDeployment(c)
<1> DEFINE members == UNION {MemberStack(c.namespace, n) : n \in MemberNames(c, Everything)}
<1> DEFINE addons  == PgmonetaStack(c) \cup PgexporterCore(c)
                        \cup {PgexporterService(c), MonitoringDeployment(c)}
<1>1. Everything.addons
  BY DEF Everything
<1>2. Mine(c) = members \cup IF Everything.addons THEN addons ELSE {}
  BY DEF Mine, Wanted
<1>3. x \in members <=> \E n \in MemberNames(c, Everything) : x \in MemberStack(c.namespace, n)
  OBVIOUS
<1>4. x \in addons <=> \/ x \in PgmonetaStack(c) \/ x \in PgexporterCore(c)
                      \/ x = PgexporterService(c) \/ x = MonitoringDeployment(c)
  OBVIOUS
<1> HIDE DEF members, addons
<1>5. Mine(c) = members \cup addons
  BY <1>1, <1>2, Zenon
<1> QED  BY <1>3, <1>4, <1>5

LEMMA MembersMine ==
    ASSUME NEW c \in Clusters, NEW spec \in SpecType, NEW n \in MemberNames(c, spec)
    PROVE  MemberStack(c.namespace, n) \subseteq Mine(c)
<1>1. MaxReplicas \in Nat /\ spec.replicas \in 0..MaxReplicas
  BY Bounds, ClustersAssumption DEF SpecType
<1>2. n \in MemberNames(c, Everything)
  BY <1>1 DEF MemberNames, Everything
<1> QED  BY <1>2 DEF Mine, Wanted

LEMMA AddonsMine ==
    ASSUME NEW c \in Clusters
    PROVE  PgmonetaStack(c) \cup PgexporterCore(c)
              \cup {PgexporterService(c), MonitoringDeployment(c)} \subseteq Mine(c)
BY AllMine

LEMMA PrimaryMine ==
    ASSUME NEW c \in Clusters
    PROVE  MemberStack(c.namespace, c.name) \subseteq Mine(c)
BY DEF Mine, Wanted, MemberNames

\* The Deployments of a resource, by name.
LEMMA DeploymentsMine ==
    ASSUME NEW c \in Clusters, NEW x \in Mine(c), x.kind = "Deployment"
    PROVE  \/ x.name \in MemberNames(c, Everything)
           \/ x.name = PgmonetaName(c)
           \/ x.name = PgexporterName(c)
           \/ x.name = Append(PgexporterName(c), Word("mon"))
<1>1. CASE \E n \in MemberNames(c, Everything) : x \in MemberStack(c.namespace, n)
  BY <1>1 DEF MemberStack, Object, Volume
<1>2. CASE x \in PgmonetaStack(c)
  BY <1>2 DEF PgmonetaStack, Object, Volume
<1>3. CASE x \in PgexporterCore(c)
  BY <1>3 DEF PgexporterCore, Object
<1>4. CASE x = PgexporterService(c) \/ x = MonitoringDeployment(c)
  BY <1>4 DEF PgexporterService, MonitoringDeployment, Object
<1> QED  BY <1>1, <1>2, <1>3, <1>4, AllMine

\* Of its own Deployments a pass takes only replicas for replicas.
LEMMA OwnReplicas ==
    ASSUME NEW c \in Clusters, NEW x \in Mine(c), x.kind = "Deployment",
           ReplicaOrdinal(c, x.name) # {}
    PROVE  x.name \in MemberNames(c, Everything)
<1>1. \A t \in Seq(Segments) : ReplicaOrdinal(c, t) # {} =>
            Len(t) >= Len(c.name) + 2 /\ t[Len(c.name) + 1] = Word("replica")
  BY OrdinalSegments
<1>2. x.name # PgmonetaName(c) /\ x.name # PgexporterName(c)
  BY <1>1, AddonSegments, WordsDiffer
<1>3. x.name # Append(PgexporterName(c), Word("mon"))
  BY <1>1, AddonSegments, WordsDiffer
<1> QED  BY <1>2, <1>3, DeploymentsMine

\* Every volume among the objects is a PersistentVolume.
LEMMA VolumesMine ==
    ASSUME NEW c \in Clusters, NEW x \in Mine(c), x.namespace = Cluster
    PROVE  Object("PersistentVolume", Cluster, x.name) = x
<1>1. c.namespace # Cluster
  BY KeyType
<1>2. CASE \E n \in MemberNames(c, Everything) : x \in MemberStack(c.namespace, n)
  BY <1>1, <1>2 DEF MemberStack, Object, Volume
<1>3. CASE x \in PgmonetaStack(c)
  BY <1>1, <1>3 DEF PgmonetaStack, Object, Volume
<1>4. CASE x \in PgexporterCore(c) \/ x = PgexporterService(c) \/ x = MonitoringDeployment(c)
  BY <1>1, <1>4 DEF PgexporterCore, PgexporterService, MonitoringDeployment, Object
<1> QED  BY <1>2, <1>3, <1>4, AllMine

LEMMA MineAreObjects ==
    ASSUME NEW c \in Clusters
    PROVE  Mine(c) \subseteq Objects
BY DEF Objects

LEMMA MemberIsName ==
    ASSUME NEW c \in Clusters, NEW n, MemberStack(c.namespace, n) \subseteq Mine(c)
    PROVE  n \in Names
<1> DEFINE x == Object("Deployment", c.namespace, n)
<1>1. x \in Objects
  BY MineAreObjects DEF MemberStack
<1>2. x.name = n
  BY DEF Object
<1> HIDE DEF x
<1> QED  BY <1>1, <1>2 DEF Names

-----------------------------------------------------------------------------
(* Types, whether the names are apart or not.                              *)

\* A pass as TypeOK has it.
Typed(c, p) ==
    /\ p \in Pass
    /\ \A n \in p.pending :
        /\ p.stage = "sync" => n \in MemberNames(c, Everything)
        /\ p.stage \in {"prune", "drain"} => ReplicaOrdinal(c, n) # {}

\* What any step for c keeps.
TypedFor(c) ==
    /\ cr' \in [Clusters -> Resource]
    /\ store' \in [Objects -> Clusters \cup {None}]
    /\ \E p : Typed(c, p) /\ job' = [job EXCEPT ![c] = p]

LEMMA TypeOKMeans ==
    TypeOK <=> /\ cr \in [Clusters -> Resource]
               /\ store \in [Objects -> Clusters \cup {None}]
               /\ job \in [Clusters -> Pass]
               /\ \A c \in Clusters : Typed(c, job[c])
BY DEF TypeOK, Typed

LEMMA NothingTyped ==
    /\ NoSpec \in SpecType
    /\ [phase |-> "absent", spec |-> NoSpec] \in Resource
    /\ \A c : Typed(c, Idle)
<1>1. NoSpec \in SpecType
  BY Bounds, ClustersAssumption DEF NoSpec, SpecType
<1>2. Idle \in Pass /\ Idle.pending = {}
  BY <1>1 DEF Idle, Pass, Stages
<1> QED  BY <1>1, <1>2 DEF Resource, Typed

\* The members a spec asks for.
LEMMA MembersNamed ==
    ASSUME NEW c \in Clusters, NEW spec \in SpecType
    PROVE  /\ MemberNames(c, spec) \subseteq Names
           /\ MemberNames(c, spec) \subseteq MemberNames(c, Everything)
<1>1. MaxReplicas \in Nat /\ spec.replicas \in 0..MaxReplicas
  BY Bounds, ClustersAssumption DEF SpecType
<1>2. MemberNames(c, spec) \subseteq MemberNames(c, Everything)
  BY <1>1 DEF MemberNames, Everything
<1>3. \A n \in MemberNames(c, spec) : MemberStack(c.namespace, n) \subseteq Mine(c)
  BY MembersMine
<1> QED  BY <1>2, <1>3, MemberIsName

\* The names a listing gives.
LEMMA ListedNamed ==
    ASSUME TypeOK
    PROVE  /\ \A namespace : DeploymentNames(namespace) \subseteq Names
           /\ {x.name : x \in DOMAIN store} \subseteq Names
BY DEF TypeOK, DeploymentNames, Names

\* Going on, the spec stays.
LEMMA GotoTyped ==
    ASSUME TypeOK, NEW c \in Clusters, NEW stage \in Stages, NEW pending \in SUBSET Names,
           Goto(c, stage, pending),
           \A n \in pending :
                /\ stage = "sync" => n \in MemberNames(c, Everything)
                /\ stage \in {"prune", "drain"} => ReplicaOrdinal(c, n) # {}
    PROVE  \E p : Typed(c, p) /\ job' = [job EXCEPT ![c] = p]
<1> DEFINE p == [stage |-> stage, spec |-> job[c].spec, pending |-> pending]
<1>1. job[c] \in [stage : Stages, spec : SpecType, pending : SUBSET Names]
  BY DEF TypeOK, Pass
<1>2. p \in Pass /\ p.stage = stage /\ p.pending = pending
  BY <1>1 DEF Pass
<1>3. job' = [job EXCEPT ![c] = p]
  BY DEF Goto, TypeOK
<1> HIDE DEF p
<1>4. Typed(c, p)
  BY <1>2 DEF Typed
<1> QED  BY <1>3, <1>4

\* In the loops of a pass the stage stays and names are taken out.
LEMMA LoopTyped ==
    ASSUME TypeOK, NEW c \in Clusters, NEW n, Goto(c, job[c].stage, job[c].pending \ {n})
    PROVE  \E p : Typed(c, p) /\ job' = [job EXCEPT ![c] = p]
<1>1. /\ job[c] \in [stage : Stages, spec : SpecType, pending : SUBSET Names]
      /\ Typed(c, job[c])
  BY DEF TypeOK, Typed, Pass
<1>2. job[c].stage \in Stages /\ job[c].pending \ {n} \in SUBSET Names
  BY <1>1
<1> QED  BY <1>1, <1>2, GotoTyped DEF Typed

LEMMA StoreTyped ==
    ASSUME TypeOK, NEW c \in Clusters, NEW objects,
           SyncAll(c, objects) \/ DeleteAll(objects) \/ UNCHANGED store
    PROVE  store' \in [Objects -> Clusters \cup {None}]
BY DEF TypeOK, SyncAll, DeleteAll

\* Users, the collector and the ends of a pass.
LEMMA OutsideTyped ==
    ASSUME TypeOK, NEW c \in Clusters, Users(c) \/ Collect(c) \/ Fail(c) \/ RemoveFinalizer(c)
    PROVE  TypedFor(c)
<1>1. cr[c] \in [phase : {"absent", "open", "held", "dying"}, spec : SpecType]
  BY DEF TypeOK, Resource
<1>2. cr' \in [Clusters -> Resource]
  <2>1. CASE DeleteCR(c)
    <3>1. PICK r \in Resource : cr' = [cr EXCEPT ![c] = r]
      BY <1>1, <2>1, NothingTyped DEF DeleteCR, Resource
    <3> QED  BY <3>1 DEF TypeOK
  <2>2. CASE \E spec \in Specs : Create(c, spec) \/ Edit(c, spec)
    <3>1. PICK spec \in SpecType : Create(c, spec) \/ Edit(c, spec)
      BY <2>2, ClustersAssumption
    <3>2. PICK r \in Resource : cr' = [cr EXCEPT ![c] = r]
      BY <1>1, <3>1 DEF Create, Edit, Resource
    <3> QED  BY <3>2 DEF TypeOK
  <2>3. CASE RemoveFinalizer(c)
    BY <2>3, NothingTyped DEF RemoveFinalizer, TypeOK
  <2>4. CASE Collect(c) \/ Fail(c)
    BY <2>4 DEF Collect, Fail, TypeOK
  <2> QED  BY <2>1, <2>2, <2>3, <2>4 DEF Users
<1>3. UNCHANGED store \/ Collect(c)
  BY DEF Users, DeleteCR, Create, Edit, Fail, RemoveFinalizer
<1>4. store' \in [Objects -> Clusters \cup {None}]
  BY <1>3, StoreTyped DEF Collect
<1>5. UNCHANGED job \/ End(c)
  BY DEF Users, DeleteCR, Create, Edit, Fail, RemoveFinalizer, Collect
<1>6. \E p : Typed(c, p) /\ job' = [job EXCEPT ![c] = p]
  <2>1. CASE UNCHANGED job
    <3>1. job' = [job EXCEPT ![c] = job[c]]
      BY <2>1 DEF TypeOK
    <3> QED  BY <3>1, TypeOKMeans
  <2>2. CASE End(c)
    BY <2>2, NothingTyped DEF End
  <2> QED  BY <1>5, <2>1, <2>2
<1> QED  BY <1>2, <1>4, <1>6 DEF TypedFor

LEMMA StartTyped ==
    ASSUME TypeOK, NEW c \in Clusters, Start(c)
    PROVE  TypedFor(c)
<1>1. cr[c] \in [phase : {"absent", "open", "held", "dying"}, spec : SpecType]
  BY DEF TypeOK, Resource
<1>2. cr' \in [Clusters -> Resource]
  <2>1. PICK r \in Resource : cr' = [cr EXCEPT ![c] = r]
    BY <1>1 DEF Start, Resource
  <2> QED  BY <2>1 DEF TypeOK
<1>3. store' \in [Objects -> Clusters \cup {None}]
  BY DEF Start, TypeOK
<1> DEFINE p == [stage |-> "list", spec |-> cr[c].spec, pending |-> {}]
           q == [stage |-> "sync", spec |-> cr[c].spec, pending |-> MemberNames(c, cr[c].spec)]
<1>4. Typed(c, p)
  BY <1>1 DEF Typed, Pass, Stages
<1>5. Typed(c, q)
  <2>1. MemberNames(c, cr[c].spec) \in SUBSET Names
    BY <1>1, MembersNamed
  <2>2. q \in Pass
    BY <1>1, <2>1 DEF Pass, Stages
  <2> QED  BY <1>1, <2>2, MembersNamed DEF Typed
<1>6. job' = [job EXCEPT ![c] = p] \/ job' = [job EXCEPT ![c] = q]
  BY DEF Start
<1> QED  BY <1>2, <1>3, <1>4, <1>5, <1>6 DEF TypedFor

\* The listings.
LEMMA ListTyped ==
    ASSUME TypeOK, NEW c \in Clusters, ListStale(c) \/ ListReplicas(c) \/ ListVolumes(c)
    PROVE  TypedFor(c)
<1>1. PICK stage \in {"prune", "drain", "purge"}, pending \in SUBSET Names :
        /\ Goto(c, stage, pending)
        /\ stage # "purge" => \A n \in pending : ReplicaOrdinal(c, n) # {}
  <2>1. CASE ListStale(c)
    BY <2>1, ListedNamed DEF ListStale
  <2>2. CASE ListReplicas(c)
    BY <2>2, ListedNamed DEF ListReplicas
  <2>3. CASE ListVolumes(c)
    BY <2>3, ListedNamed DEF ListVolumes
  <2> QED  BY <2>1, <2>2, <2>3
<1>2. stage \in Stages /\ stage # "sync"
  BY DEF Stages
<1>3. UNCHANGED <<cr, store>>
  BY DEF ListStale, ListReplicas, ListVolumes
<1>4. \E p : Typed(c, p) /\ job' = [job EXCEPT ![c] = p]
  BY <1>1, <1>2, GotoTyped
<1> QED  BY <1>3, <1>4 DEF TypedFor, TypeOK

\* The steps that write objects.
LEMMA WriteTyped ==
    ASSUME TypeOK, NEW c \in Clusters,
           \/ SyncMember(c) \/ DeleteReplicaStack(c) \/ SyncAddons(c)
           \/ CleanupRest(c) \/ PurgeVolume(c)
    PROVE  TypedFor(c)
<1>1. cr' \in [Clusters -> Resource]
  BY DEF SyncMember, DeleteReplicaStack, SyncAddons, CleanupRest, PurgeVolume, TypeOK
<1>2. store' \in [Objects -> Clusters \cup {None}]
  BY StoreTyped DEF SyncMember, DeleteReplicaStack, SyncAddons, CleanupRest, PurgeVolume
<1>3. CASE SyncMember(c) \/ DeleteReplicaStack(c) \/ PurgeVolume(c)
  <2>1. PICK n : Goto(c, job[c].stage, job[c].pending \ {n})
    BY <1>3 DEF SyncMember, DeleteReplicaStack, PurgeVolume, At
  <2> QED  BY <1>1, <1>2, <2>1, LoopTyped DEF TypedFor
<1>4. CASE SyncAddons(c)
  <2>1. job' = [job EXCEPT ![c] = Idle]
    BY <1>4 DEF SyncAddons, End
  <2> QED  BY <1>1, <1>2, <2>1, NothingTyped DEF TypedFor
<1>5. CASE CleanupRest(c)
  <2>1. Goto(c, "rest", {}) /\ "rest" \in Stages
    BY <1>5 DEF CleanupRest, Stages
  <2> QED  BY <1>1, <1>2, <2>1, GotoTyped DEF TypedFor
<1> QED  BY <1>3, <1>4, <1>5

LEMMA NextTyped == TypeOK /\ [Next]_vars => TypeOK'
<1> SUFFICES ASSUME TypeOK, [Next]_vars PROVE TypeOK'
  OBVIOUS
<1>1. CASE UNCHANGED vars
  BY <1>1 DEF vars, TypeOK
<1>2. CASE Next
  <2>1. PICK c \in Clusters : TypedFor(c)
    BY <1>2, OutsideTyped, StartTyped, ListTyped, WriteTyped DEF Next, Steps
  <2>2. PICK p : Typed(c, p) /\ job' = [job EXCEPT ![c] = p]
    BY <2>1 DEF TypedFor
  <2>3. job' \in [Clusters -> Pass] /\ \A d \in Clusters : Typed(d, job'[d])
    BY <2>2, TypeOKMeans DEF Typed
  <2> QED  BY <2>1, <2>3 DEF TypedFor, TypeOK, Typed
<1> QED  BY <1>1, <1>2

LEMMA InitTyped == Init => TypeOK
<1> SUFFICES ASSUME Init PROVE TypeOK
  OBVIOUS
<1>1. job \in [Clusters -> Pass] /\ \A c \in Clusters : Typed(c, job[c])
  BY NothingTyped DEF Init, Typed
<1> QED  BY <1>1, NothingTyped, TypeOKMeans DEF Init

\* Every pass holds names of objects, members while it syncs and what reads as
\* a replica while it deletes stacks, for any resources whatever.
THEOREM ClustersTyped == Spec => []TypeOK
  BY InitTyped, NextTyped, PTL DEF Spec

-----------------------------------------------------------------------------
(* The steps of one resource.                                              *)

\* A pass that only has its own objects before it.
Good(c, p) ==
    /\ p \in Pass
    /\ \A n \in p.pending :
        /\ p.stage = "sync" => n \in MemberNames(c, Everything)
        /\ p.stage \in {"prune", "drain"} => ReplicaOrdinal(c, n) # {}
        /\ p.stage \in {"sync", "prune", "drain"} => MemberStack(c.namespace, n) \subseteq Mine(c)
        /\ p.stage = "purge" => Object("PersistentVolume", Cluster, n) \in Mine(c)

\* TypeOK and Owned, pass by pass.
Whole ==
    /\ cr \in [Clusters -> Resource]
    /\ store \in [Objects -> Clusters \cup {None}]
    /\ \A x \in Objects : store[x] # None => x \in Mine(store[x])
    /\ job \in [Clusters -> Pass]
    /\ \A c \in Clusters : Good(c, job[c])

\* The objects change only where they are c's.
Frame(c) ==
    /\ store' \in [Objects -> Clusters \cup {None}]
    /\ \A x \in Objects :
        store'[x] = store[x] \/ (x \in Mine(c) /\ store'[x] \in {c, None})

\* What any step for c does.
StepFor(c) ==
    /\ Frame(c)
    /\ cr' \in [Clusters -> Resource]
    /\ \E p : Good(c, p) /\ job' = [job EXCEPT ![c] = p]

LEMMA WholeMeans == Whole => TypeOK /\ Owned
<1> SUFFICES ASSUME Whole PROVE TypeOK /\ Owned
  OBVIOUS
<1>1. TypeOK
  BY DEF Whole, Good, TypeOK
<1>2. \A c \in Clusters : cr[c].spec \in SpecType /\ job[c].spec \in SpecType
  BY DEF Whole, Resource, Pass
<1>3. Owned
  BY <1>2 DEF Whole, Good, Owned
<1> QED  BY <1>1, <1>3

LEMMA SyncFrame ==
    ASSUME Whole, NEW c \in Clusters, NEW objects, objects \subseteq Mine(c),
           SyncAll(c, objects)
    PROVE  Frame(c)
BY DEF Whole, SyncAll, Frame

LEMMA DeleteFrame ==
    ASSUME Whole, NEW c \in Clusters, NEW objects, objects \subseteq Mine(c),
           DeleteAll(objects)
    PROVE  Frame(c)
BY DEF Whole, DeleteAll, Frame

LEMMA SameFrame ==
    ASSUME Whole, NEW c \in Clusters, UNCHANGED store
    PROVE  Frame(c)
BY DEF Whole, Frame

LEMMA GotoIs ==
    ASSUME Whole, NEW c \in Clusters, NEW stage, NEW pending, Goto(c, stage, pending)
    PROVE  job' = [job EXCEPT ![c] = [stage |-> stage, spec |-> job[c].spec, pending |-> pending]]
BY DEF Whole, Goto

LEMMA GoodPass ==
    ASSUME Whole, NEW c \in Clusters, NEW stage \in Stages, NEW pending \in SUBSET Names,
           \A n \in pending :
                /\ stage = "sync" => n \in MemberNames(c, Everything)
                /\ stage \in {"prune", "drain"} => ReplicaOrdinal(c, n) # {}
                /\ stage \in {"sync", "prune", "drain"} => MemberStack(c.namespace, n) \subseteq Mine(c)
                /\ stage = "purge" => Object("PersistentVolume", Cluster, n) \in Mine(c),
           NEW spec \in SpecType
    PROVE  Good(c, [stage |-> stage, spec |-> spec, pending |-> pending])
<1> DEFINE p == [stage |-> stage, spec |-> spec, pending |-> pending]
<1>1. p \in Pass
  BY DEF Pass
<1>2. p.stage = stage /\ p.pending = pending
  OBVIOUS
<1> HIDE DEF p
<1>3. Good(c, p)
  BY <1>1, <1>2 DEF Good
<1> QED  BY <1>3 DEF p

\* Going on with fewer of the names.
LEMMA GotoRest ==
    ASSUME Whole, NEW c \in Clusters, NEW n, Goto(c, job[c].stage, job[c].pending \ {n})
    PROVE  \E p : Good(c, p) /\ job' = [job EXCEPT ![c] = p]
<1>1. /\ job[c] \in [stage : Stages, spec : SpecType, pending : SUBSET Names]
      /\ Good(c, job[c])
  BY DEF Whole, Pass
<1>2. Good(c, [stage |-> job[c].stage, spec |-> job[c].spec, pending |-> job[c].pending \ {n}])
  BY <1>1, GoodPass DEF Good
<1> QED  BY <1>2, GotoIs

LEMMA IdleGood ==
    ASSUME Whole, NEW c \in Clusters
    PROVE  Good(c, Idle)
<1>1. NoSpec \in SpecType
  BY Bounds, ClustersAssumption DEF NoSpec, SpecType
<1>2. "idle" \in Stages /\ {} \in SUBSET Names
  BY DEF Stages
<1> QED  BY <1>1, <1>2, GoodPass DEF Idle

LEMMA EndGood ==
    ASSUME Whole, NEW c \in Clusters, End(c)
    PROVE  \E p : Good(c, p) /\ job' = [job EXCEPT ![c] = p]
BY IdleGood DEF End

LEMMA JobGood ==
    ASSUME Whole, NEW c \in Clusters, UNCHANGED job
    PROVE  \E p : Good(c, p) /\ job' = [job EXCEPT ![c] = p]
<1>1. job' = [job EXCEPT ![c] = job[c]]
  BY DEF Whole
<1> QED  BY <1>1 DEF Whole

\* Users and the collector leave the passes alone.
LEMMA OutsideStep ==
    ASSUME Whole, NEW c \in Clusters,
           DeleteCR(c) \/ (\E spec \in Specs : Create(c, spec) \/ Edit(c, spec)) \/ Collect(c)
    PROVE  StepFor(c) /\ UNCHANGED job
<1>1. UNCHANGED job
  BY DEF DeleteCR, Create, Edit, Collect
<1>2. cr' \in [Clusters -> Resource]
  <2>1. /\ cr[c] \in [phase : {"absent", "open", "held", "dying"}, spec : SpecType]
        /\ Specs \subseteq SpecType /\ NoSpec \in SpecType
    BY Bounds, ClustersAssumption DEF Whole, Resource, NoSpec, SpecType
  <2>2. CASE DeleteCR(c)
    <3>1. PICK r \in Resource : cr' = [cr EXCEPT ![c] = r]
      BY <2>1, <2>2 DEF DeleteCR, Resource
    <3> QED  BY <3>1 DEF Whole
  <2>3. CASE \E spec \in Specs : Create(c, spec) \/ Edit(c, spec)
    <3>1. PICK spec \in SpecType : Create(c, spec) \/ Edit(c, spec)
      BY <2>1, <2>3
    <3>2. PICK r \in Resource : cr' = [cr EXCEPT ![c] = r]
      BY <2>1, <3>1 DEF Create, Edit, Resource
    <3> QED  BY <3>2 DEF Whole
  <2>4. CASE Collect(c)
    BY <2>4 DEF Collect, Whole
  <2> QED  BY <2>2, <2>3, <2>4
<1>3. Frame(c)
  <2>1. CASE UNCHANGED store
    BY <2>1, SameFrame
  <2>2. CASE Collect(c)
    <3>1. \A x \in Objects : store[x] = c => x \in Mine(c)
      BY KeyType DEF Whole
    <3> QED  BY <2>2, <3>1, DeleteFrame DEF Collect, Whole
  <2> QED  BY <2>1, <2>2 DEF DeleteCR, Create, Edit
<1> QED  BY <1>1, <1>2, <1>3, JobGood DEF StepFor, Whole

LEMMA StartStep ==
    ASSUME Whole, NEW c \in Clusters, Start(c)
    PROVE  StepFor(c)
<1>1. /\ cr[c] \in [phase : {"absent", "open", "held", "dying"}, spec : SpecType]
      /\ UNCHANGED store
  BY DEF Whole, Resource, Start
<1>2. cr' \in [Clusters -> Resource]
  <2>1. PICK r \in Resource : cr' = [cr EXCEPT ![c] = r]
    BY <1>1 DEF Start, Resource
  <2> QED  BY <2>1 DEF Whole
<1>3. Good(c, [stage |-> "list", spec |-> cr[c].spec, pending |-> {}])
  BY <1>1, GoodPass DEF Stages
<1>4. Good(c, [stage |-> "sync", spec |-> cr[c].spec, pending |-> MemberNames(c, cr[c].spec)])
  <2>1. \A n \in MemberNames(c, cr[c].spec) : MemberStack(c.namespace, n) \subseteq Mine(c)
    BY <1>1, MembersMine
  <2>2. MemberNames(c, cr[c].spec) \in SUBSET Names
    BY <2>1, MemberIsName
  <2>3. \A n \in MemberNames(c, cr[c].spec) : n \in MemberNames(c, Everything)
    BY <1>1, Bounds, ClustersAssumption DEF MemberNames, Everything, SpecType
  <2>4. "sync" \in Stages /\ "sync" \notin {"prune", "drain"} /\ "sync" # "purge"
    BY DEF Stages
  <2> QED  BY <1>1, <2>1, <2>2, <2>3, <2>4, GoodPass
<1>5. \E p : Good(c, p) /\ job' = [job EXCEPT ![c] = p]
  BY <1>3, <1>4 DEF Start
<1> QED  BY <1>1, <1>2, <1>5, SameFrame DEF StepFor, Whole

LEMMA SyncMemberStep ==
    ASSUME Whole, NEW c \in Clusters, SyncMember(c)
    PROVE  StepFor(c)
<1>1. PICK n \in job[c].pending :
        SyncAll(c, MemberStack(c.namespace, n)) /\ Goto(c, "sync", job[c].pending \ {n})
  BY DEF SyncMember
<1>2. job[c].stage = "sync" /\ UNCHANGED cr
  BY DEF SyncMember, At
<1>3. MemberStack(c.namespace, n) \subseteq Mine(c)
  BY <1>2 DEF Whole, Good
<1>4. Frame(c)
  BY <1>1, <1>3, SyncFrame
<1> QED  BY <1>1, <1>2, <1>4, GotoRest DEF StepFor, Whole

LEMMA DeleteReplicaStackStep ==
    ASSUME Whole, NEW c \in Clusters, DeleteReplicaStack(c)
    PROVE  StepFor(c)
<1>1. PICK n \in job[c].pending :
        DeleteAll(MemberStack(c.namespace, n)) /\ Goto(c, job[c].stage, job[c].pending \ {n})
  BY DEF DeleteReplicaStack
<1>2. job[c].stage \in {"prune", "drain"} /\ UNCHANGED cr
  BY DEF DeleteReplicaStack, At
<1>3. MemberStack(c.namespace, n) \subseteq Mine(c)
  BY <1>2 DEF Whole, Good
<1>4. Frame(c)
  BY <1>1, <1>3, DeleteFrame
<1> QED  BY <1>1, <1>2, <1>4, GotoRest DEF StepFor, Whole

\* What NamesApart is for: of the Deployments in the namespace only c's own
\* read as c's replicas.
LEMMA ReplicasAreOwn ==
    ASSUME NamesApart, Whole, NEW c \in Clusters, NEW n \in DeploymentNames(c.namespace),
           ReplicaOrdinal(c, n) # {}
    PROVE  n \in Names /\ MemberStack(c.namespace, n) \subseteq Mine(c)
<1>1. PICK x \in Objects : /\ x.kind = "Deployment" /\ x.namespace = c.namespace
                           /\ store[x] # None /\ n = x.name
  BY DEF DeploymentNames, Whole
<1>2. PICK d \in Clusters : store[x] = d /\ x \in Mine(d)
  BY <1>1 DEF Whole
<1>3. d = c
  BY <1>1, <1>2 DEF NamesApart, ApartFrom
<1>4. n \in MemberNames(c, Everything)
  BY <1>1, <1>2, <1>3, OwnReplicas
<1>5. MemberStack(c.namespace, n) \subseteq Mine(c)
  BY <1>4, AllMine
<1> QED  BY <1>5, MemberIsName

LEMMA ListStep ==
    ASSUME NamesApart, Whole, NEW c \in Clusters, ListStale(c) \/ ListReplicas(c)
    PROVE  StepFor(c)
<1>1. PICK stage, pending : /\ Goto(c, stage, pending)
                            /\ stage \in {"prune", "drain"}
                            /\ \A n \in pending : /\ n \in DeploymentNames(c.namespace)
                                                  /\ ReplicaOrdinal(c, n) # {}
  <2>1. CASE ListStale(c)
    BY <2>1 DEF ListStale
  <2>2. CASE ListReplicas(c)
    BY <2>2 DEF ListReplicas
  <2> QED  BY <2>1, <2>2
<1>2. \A n \in pending : n \in Names /\ MemberStack(c.namespace, n) \subseteq Mine(c)
  BY <1>1, ReplicasAreOwn
<1>3. UNCHANGED <<cr, store>>
  BY DEF ListStale, ListReplicas
<1>4. stage \in Stages /\ stage # "sync" /\ stage # "purge"
  BY <1>1 DEF Stages
<1>5. job[c].spec \in SpecType
  BY DEF Whole, Pass
<1>6. Good(c, [stage |-> stage, spec |-> job[c].spec, pending |-> pending])
  BY <1>1, <1>2, <1>4, <1>5, GoodPass
<1> QED  BY <1>1, <1>3, <1>6, GotoIs, SameFrame DEF StepFor, Whole

LEMMA SyncAddonsStep ==
    ASSUME Whole, NEW c \in Clusters, SyncAddons(c)
    PROVE  StepFor(c)
<1>1. End(c) /\ UNCHANGED cr
  BY DEF SyncAddons
<1>2. Frame(c)
  BY AddonsMine, SyncFrame, DeleteFrame DEF SyncAddons
<1> QED  BY <1>1, <1>2, EndGood DEF StepFor, Whole

LEMMA CleanupRestStep ==
    ASSUME Whole, NEW c \in Clusters, CleanupRest(c)
    PROVE  StepFor(c)
<1>1. Goto(c, "rest", {}) /\ UNCHANGED cr
  BY DEF CleanupRest
<1>2. Frame(c)
  BY AddonsMine, PrimaryMine, DeleteFrame DEF CleanupRest
<1>3. job[c].spec \in SpecType /\ "rest" \in Stages
  BY DEF Whole, Pass, Stages
<1>4. Good(c, [stage |-> "rest", spec |-> job[c].spec, pending |-> {}])
  BY <1>3, GoodPass
<1> QED  BY <1>1, <1>2, <1>4, GotoIs DEF StepFor, Whole

\* Two resources of one name would share their primary's volume.
LEMMA NamesDiffer ==
    ASSUME NamesApart, NEW c \in Clusters, NEW d \in Clusters, c.name = d.name
    PROVE  c = d
<1>1. Volume(c.name) \in Mine(c) /\ Volume(c.name) \in Mine(d)
  BY PrimaryMine DEF MemberStack
<1> QED  BY <1>1 DEF NamesApart, ApartFrom

LEMMA ListVolumesStep ==
    ASSUME NamesApart, Whole, NEW c \in Clusters, ListVolumes(c)
    PROVE  StepFor(c)
<1>1. PICK pending : /\ Goto(c, "purge", pending)
                     /\ \A n \in pending : \E x \in Objects :
                            /\ n = x.name /\ x.namespace = Cluster
                            /\ store[x] # None /\ store[x].name = c.name
  BY DEF ListVolumes, Whole
<1>2. UNCHANGED <<cr, store>>
  BY DEF ListVolumes
<1>3. ASSUME NEW n \in pending
      PROVE  n \in Names /\ Object("PersistentVolume", Cluster, n) \in Mine(c)
  <2>1. PICK x \in Objects : /\ n = x.name /\ x.namespace = Cluster
                             /\ store[x] # None /\ store[x].name = c.name
    BY <1>1
  <2>2. PICK d \in Clusters : store[x] = d /\ x \in Mine(d)
    BY <2>1 DEF Whole
  <2>3. d = c
    BY <2>1, <2>2, NamesDiffer
  <2> QED  BY <2>1, <2>2, <2>3, VolumesMine DEF Names
<1>4. /\ job[c].spec \in SpecType
      /\ "purge" \in Stages /\ "purge" # "sync" /\ "purge" \notin {"prune", "drain"}
  BY DEF Whole, Pass, Stages
<1>5. Good(c, [stage |-> "purge", spec |-> job[c].spec, pending |-> pending])
  BY <1>3, <1>4, GoodPass
<1> QED  BY <1>1, <1>2, <1>5, GotoIs, SameFrame DEF StepFor, Whole

LEMMA PurgeVolumeStep ==
    ASSUME Whole, NEW c \in Clusters, PurgeVolume(c)
    PROVE  StepFor(c)
<1>1. PICK n \in job[c].pending :
        /\ DeleteAll({Object("PersistentVolume", Cluster, n)})
        /\ Goto(c, "purge", job[c].pending \ {n})
  BY DEF PurgeVolume
<1>2. job[c].stage = "purge" /\ UNCHANGED cr
  BY DEF PurgeVolume, At
<1>3. Object("PersistentVolume", Cluster, n) \in Mine(c)
  BY <1>2 DEF Whole, Good
<1>4. Frame(c)
  BY <1>1, <1>3, DeleteFrame
<1> QED  BY <1>1, <1>2, <1>4, GotoRest DEF StepFor, Whole

LEMMA EndStep ==
    ASSUME Whole, NEW c \in Clusters, RemoveFinalizer(c) \/ Fail(c)
    PROVE  StepFor(c)
<1>1. End(c) /\ UNCHANGED store
  BY DEF RemoveFinalizer, Fail
<1>2. cr' \in [Clusters -> Resource]
  <2>1. [phase |-> "absent", spec |-> NoSpec] \in Resource
    BY Bounds, ClustersAssumption DEF Resource, NoSpec, SpecType
  <2> QED  BY <2>1 DEF RemoveFinalizer, Fail, Whole
<1> QED  BY <1>1, <1>2, EndGood, SameFrame DEF StepFor

-----------------------------------------------------------------------------
(* The theorems.                                                           *)

LEMMA StepKeepsWhole ==
    ASSUME Whole, NEW c \in Clusters, StepFor(c)
    PROVE  Whole'
<1>1. PICK p : Good(c, p) /\ job' = [job EXCEPT ![c] = p]
  BY DEF StepFor
<1>2. job' \in [Clusters -> Pass] /\ \A d \in Clusters : Good(d, job'[d])
  BY <1>1 DEF Whole, Good
<1>3. ASSUME NEW x \in Objects, store'[x] # None
      PROVE  x \in Mine(store'[x])
  BY <1>3 DEF Whole, StepFor, Frame
<1> QED  BY <1>2, <1>3 DEF Whole, Good, StepFor, Frame

\* A pass takes nothing from a neighbour that is apart.
LEMMA StepKeepsApart ==
    ASSUME NamesApart, Whole, NEW c \in Clusters, StepFor(c),
           NEW d \in Clusters, NEW x \in Objects,
           job'[d] # job[d], store[x] \in Clusters \ {d}
    PROVE  store'[x] = store[x]
<1>1. d = c
  BY DEF StepFor, Whole
<1>2. PICK e \in Clusters : e = store[x] /\ e # c /\ x \in Mine(e)
  BY <1>1, KeyType DEF Whole
<1>3. x \notin Mine(c)
  BY <1>2 DEF NamesApart, ApartFrom
<1> QED  BY <1>3 DEF StepFor, Frame

LEMMA StepCases ==
    ASSUME NamesApart, Whole, Next
    PROVE  \E c \in Clusters : StepFor(c)
<1>1. PICK c \in Clusters : Users(c) \/ Steps(c) \/ Fail(c) \/ Collect(c)
  BY DEF Next
<1>2. CASE Users(c) \/ Collect(c)
  BY <1>2, OutsideStep DEF Users
<1>3. CASE Fail(c)
  BY <1>3, EndStep
<1>4. CASE Steps(c)
  BY <1>4, StartStep, SyncMemberStep, ListStep, DeleteReplicaStackStep, SyncAddonsStep,
     CleanupRestStep, ListVolumesStep, PurgeVolumeStep, EndStep DEF Steps
<1> QED  BY <1>1, <1>2, <1>3, <1>4

LEMMA InitWhole == Init => Whole
<1> SUFFICES ASSUME Init PROVE Whole
  OBVIOUS
<1>1. NoSpec \in SpecType
  BY Bounds, ClustersAssumption DEF NoSpec, SpecType
<1>2. [phase |-> "absent", spec |-> NoSpec] \in Resource
  BY <1>1 DEF Resource
<1>3. Idle \in Pass /\ Idle.pending = {}
  BY <1>1 DEF Idle, Pass, Stages
<1>4. \A c \in Clusters : Good(c, Idle)
  BY <1>3 DEF Good
<1> QED  BY <1>1, <1>2, <1>3, <1>4 DEF Init, Whole

LEMMA NextWhole == NamesApart => (Whole /\ [Next]_vars => Whole')
<1> SUFFICES ASSUME NamesApart, Whole, [Next]_vars PROVE Whole'
  OBVIOUS
<1>1. CASE UNCHANGED vars
  BY <1>1 DEF vars, Whole, Good
<1>2. CASE Next
  BY <1>2, StepCases, StepKeepsWhole
<1> QED  BY <1>1, <1>2

\* Where the names of the resources are apart, every object there is was
\* applied by the resource it belongs to, and every name a pass holds is one of
\* its own (topology.rs 81-190, cleanup.rs 23-55).
THEOREM NamesApartOwned == NamesApart => (Spec => [](TypeOK /\ Owned))
<1> SUFFICES ASSUME NamesApart PROVE Spec => [](TypeOK /\ Owned)
  OBVIOUS
<1>1. Whole /\ [Next]_vars => Whole'
  BY NextWhole
<1> QED  BY <1>1, InitWhole, WholeMeans, PTL DEF Spec

\* Reconciles of different resources leave each other's objects alone as soon
\* as the names are apart, for any number of resources and of replicas that a
\* u32 holds: nothing else in cluster.rs and cleanup.rs is needed.
\* ClustersCollide shows that it does not hold without.
THEOREM NamesApartKept == NamesApart => (Spec => KeepsToItsOwn)
<1> SUFFICES ASSUME NamesApart PROVE Spec => KeepsToItsOwn
  OBVIOUS
<1>1. Whole /\ [Next]_vars => Whole'
  BY NextWhole
<1>2. Whole /\ [Next]_vars =>
        [\A c \in Clusters, x \in DOMAIN store :
            job'[c] # job[c] /\ store[x] \in Clusters \ {c} => store'[x] = store[x]]_vars
  <2> SUFFICES ASSUME Whole, Next, NEW d \in Clusters, NEW x \in DOMAIN store,
                      job'[d] # job[d], store[x] \in Clusters \ {d}
               PROVE  store'[x] = store[x]
    OBVIOUS
  <2>1. x \in Objects
    BY DEF Whole
  <2> QED  BY <2>1, StepCases, StepKeepsApart
<1> QED  BY <1>1, <1>2, InitWhole, PTL DEF Spec, KeepsToItsOwn
=============================================================================
