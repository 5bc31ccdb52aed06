-------------------------- MODULE Reconciler_proofs --------------------------
(***************************************************************************)
(* Proofs about Reconciler for every value of its constants.               *)
(*                                                                         *)
(* The plans first: which calls they contain and in which order.  Then the *)
(* types, then the invariant behind the finalizer guard, one lemma per     *)
(* group of actions and conjunct, then what follows from it: that objects  *)
(* are only created under a finalizer and that Reconciler implements       *)
(* FinalizerProtocol.                                                      *)
(***************************************************************************)
EXTENDS Reconciler, SequenceTheorems, TLAPS

-----------------------------------------------------------------------------
(* The plans of Topology are sequences of calls on objects of the cluster. *)

\* Every object a plan names is one of the cluster's.
LEMMA ObjectTypes ==
    /\ Stacks = Members \cup {Pgmoneta}
    /\ \A m \in Stacks : PV(m) \in Volumes
    /\ \A m \in Members : /\ Service(m) \in Children
                          /\ Deployment(m) \in Children
                          /\ PVC(m) \in Children
    /\ \A k \in {"Deployment", "PVC", "Secret"} : <<k, Pgmoneta>> \in Children
    /\ \A k \in {"Deployment", "Service", "Secret"} : <<k, Pgexporter>> \in Children
    /\ Deployment(Monitoring) \in Children
    /\ \A c \in 1..MaxConfig : <<"ConfigMap", Config(c)>> \in Children
  BY DEF Children, Volumes, Stacks, PV, Service, Deployment, PVC, Configs

\* Applying or deleting an object of the cluster is a call.
LEMMA CallTypes ==
    \A o \in Children \cup Volumes :
        Apply(o) \in Calls /\ Delete(o) \in Calls /\ Delete(o) \in DeleteCalls
  BY DEF Apply, Delete, Calls, DeleteCalls

\* A spec asks only for members the cluster may have.
LEMMA MembersAreStacks ==
    ASSUME NEW spec \in SpecType
    PROVE  MembersOf(spec) \subseteq Members /\ Members \subseteq Stacks /\ Replicas \subseteq Members
  BY TopologyAssumption DEF MembersOf, Members, Replicas, Stacks, SpecType

\* What reconcile_state and sync_topology send are calls on the cluster's objects.
LEMMA SyncPlans ==
    ASSUME NEW spec \in SpecType
    PROVE  /\ spec.config # BadConfig => SyncConfig(spec) \in Seq(Calls)
           /\ \A m \in Members : SyncMember(m) \in Seq(Calls)
           /\ SyncAddons(spec) \in Seq(Calls)
  <1>1. spec.config # BadConfig => SyncConfig(spec) \in Seq(Calls)
    BY ObjectTypes, CallTypes, TopologyAssumption DEF SyncConfig, SpecType, BadConfig, NoConfig
  <1>2. ASSUME NEW m \in Members PROVE SyncMember(m) \in Seq(Calls)
    BY ObjectTypes, CallTypes DEF SyncMember
  <1>3. SyncAddons(spec) \in Seq(Calls)
    <2>1. SyncPgmoneta \in Seq(Calls) /\ CleanupPgmoneta \in Seq(Calls)
      BY ObjectTypes, CallTypes DEF SyncPgmoneta, CleanupPgmoneta, Deployment, PVC, Secret
    <2>2. CleanupPgexporter \in Seq(Calls)
      BY ObjectTypes, CallTypes DEF CleanupPgexporter, Deployment, Secret
    <2>3. ASSUME NEW b \in BOOLEAN PROVE SyncPgexporter(b) \in Seq(Calls)
      BY ObjectTypes, CallTypes DEF SyncPgexporter, Deployment, Service, Secret
    <2> DEFINE Front == IF spec.pgmoneta THEN SyncPgmoneta ELSE CleanupPgmoneta
               Back  == IF spec.pgexporter # "none"
                        THEN SyncPgexporter(spec.pgexporter = "monitored")
                        ELSE CleanupPgexporter
    <2>4. Front \in Seq(Calls)
      BY <2>1
    <2>5. Back \in Seq(Calls)
      BY <2>2, <2>3
    <2>6. SyncAddons(spec) = Front \o Back
      BY DEF SyncAddons
    <2> HIDE DEF Front, Back
    <2>7. QED
      BY <2>4, <2>5, <2>6
  <1>4. QED
    BY <1>1, <1>2, <1>3

\* The cleanup plans delete, and nothing else.
LEMMA CleanupPlans ==
    /\ \A m \in Replicas : DeleteReplicaStack(m) \in Seq(DeleteCalls)
    /\ CleanupRest \in Seq(DeleteCalls)
    /\ Seq(DeleteCalls) \subseteq Seq(Calls)
  <1>1. ASSUME NEW m \in Replicas PROVE DeleteReplicaStack(m) \in Seq(DeleteCalls)
    BY ObjectTypes, CallTypes DEF DeleteReplicaStack, Members
  <1>2. CleanupRest \in Seq(DeleteCalls)
    <2>1. Primary \in Members
      BY DEF Members
    <2>2. QED
      BY <2>1, ObjectTypes, CallTypes DEF CleanupRest, Deployment, Secret, PVC
  <1>3. DeleteCalls \subseteq Calls
    BY DEF DeleteCalls, Calls
  <1>4. QED
    BY <1>1, <1>2, <1>3

\* No plan deletes the primary's volume, which is left to the purge by label,
\* or a ConfigMap, which is left to the collector.
LEMMA PlansKeep ==
    /\ \A spec \in SpecType : /\ spec.config # BadConfig => SyncConfig(spec) \in Seq(PlannedCalls)
                              /\ SyncAddons(spec) \in Seq(PlannedCalls)
    /\ \A m \in Members : SyncMember(m) \in Seq(PlannedCalls)
    /\ \A m \in Replicas : DeleteReplicaStack(m) \in Seq(PlannedCalls)
    /\ CleanupRest \in Seq(PlannedCalls)
  <1>1. \A o \in Children \cup Volumes : Apply(o) \in PlannedCalls
    BY CallTypes DEF PlannedCalls, Apply, Delete
  <1>2. \A o \in Children \cup Volumes : o \notin Kept => Delete(o) \in PlannedCalls
    BY CallTypes DEF PlannedCalls, Delete
  <1>3. \A c : /\ Deployment(c) \notin Kept /\ Service(c) \notin Kept
               /\ PVC(c) \notin Kept /\ Secret(c) \notin Kept
    BY DEF Kept, Deployment, Service, PVC, Secret, PV
  <1>4. PV(Pgmoneta) \notin Kept /\ \A m \in Replicas : PV(m) \notin Kept
    BY DEF Kept, PV, Pgmoneta, Primary, Replicas, Replica
  <1>5. Primary \in Members /\ Replicas \subseteq Members
    BY DEF Members
  <1>6. /\ Deployment(Pgmoneta) \in Children /\ PVC(Pgmoneta) \in Children
        /\ Secret(Pgmoneta) \in Children /\ Deployment(Pgexporter) \in Children
        /\ Service(Pgexporter) \in Children /\ Secret(Pgexporter) \in Children
    BY ObjectTypes DEF Deployment, PVC, Secret, Service
  <1>7. ASSUME NEW spec \in SpecType, spec.config # BadConfig
        PROVE  SyncConfig(spec) \in Seq(PlannedCalls)
    BY <1>1, <1>7, ObjectTypes, TopologyAssumption DEF SyncConfig, SpecType, BadConfig, NoConfig
  <1>8. ASSUME NEW spec \in SpecType PROVE SyncAddons(spec) \in Seq(PlannedCalls)
    <2>1. SyncPgmoneta \in Seq(PlannedCalls) /\ CleanupPgmoneta \in Seq(PlannedCalls)
      BY <1>1, <1>2, <1>3, <1>4, <1>6, ObjectTypes DEF SyncPgmoneta, CleanupPgmoneta
    <2>2. CleanupPgexporter \in Seq(PlannedCalls)
      BY <1>2, <1>3, <1>6 DEF CleanupPgexporter
    <2>3. ASSUME NEW b \in BOOLEAN PROVE SyncPgexporter(b) \in Seq(PlannedCalls)
      BY <1>1, <1>2, <1>3, <1>6, ObjectTypes DEF SyncPgexporter
    <2> DEFINE Front == IF spec.pgmoneta THEN SyncPgmoneta ELSE CleanupPgmoneta
               Back  == IF spec.pgexporter # "none"
                        THEN SyncPgexporter(spec.pgexporter = "monitored")
                        ELSE CleanupPgexporter
    <2>4. Front \in Seq(PlannedCalls) /\ Back \in Seq(PlannedCalls)
      BY <2>1, <2>2, <2>3
    <2>5. SyncAddons(spec) = Front \o Back
      BY DEF SyncAddons
    <2> HIDE DEF Front, Back
    <2>6. QED
      BY <2>4, <2>5
  <1>9. ASSUME NEW m \in Members PROVE SyncMember(m) \in Seq(PlannedCalls)
    BY <1>1, ObjectTypes DEF SyncMember
  <1>10. ASSUME NEW m \in Replicas PROVE DeleteReplicaStack(m) \in Seq(PlannedCalls)
    BY <1>2, <1>3, <1>4, <1>5, ObjectTypes DEF DeleteReplicaStack
  <1>11. CleanupRest \in Seq(PlannedCalls)
    BY <1>2, <1>3, <1>5, <1>6, ObjectTypes DEF CleanupRest
  <1>12. QED
    BY <1>7, <1>8, <1>9, <1>10, <1>11

-----------------------------------------------------------------------------
(* The order of the calls in a plan.                                       *)

\* A call is told by its verb, its kind of object and its component.
LEMMA CallsDiffer ==
    /\ \A o, p : Apply(o) # Delete(p)
    /\ \A o, p : o # p => Apply(o) # Apply(p) /\ Delete(o) # Delete(p)
  BY DEF Apply, Delete

LEMMA ObjectsDiffer ==
    /\ \A m, n : Deployment(m) # PVC(n) /\ Deployment(m) # PV(n) /\ PVC(m) # PV(n)
    /\ \A m, n : Service(m) # Deployment(n) /\ Service(m) # PVC(n) /\ Service(m) # PV(n)
    /\ \A m, n : Secret(m) # Deployment(n) /\ Secret(m) # PVC(n) /\ Secret(m) # PV(n)
    /\ \A m, n : m # n => /\ Deployment(m) # Deployment(n) /\ PVC(m) # PVC(n)
                          /\ PV(m) # PV(n)
  BY DEF Deployment, PVC, PV, Service, Secret

\* Nothing is left of an empty plan.
LEMMA EmptyPlan ==
    ASSUME NEW a, NEW b PROVE ~Left(a, << >>) /\ Behind(b, a, << >>)
  BY DEF Left, Behind

\* Making the first call leaves the others.
LEMMA LeftTail ==
    ASSUME NEW calls \in Seq(Calls), calls # << >>, NEW c
    PROVE  /\ Left(c, Tail(calls)) => Left(c, calls)
           /\ Left(c, calls) => c = Head(calls) \/ Left(c, Tail(calls))
  <1>1. /\ Tail(calls) \in Seq(Calls) /\ Len(Tail(calls)) = Len(calls) - 1
        /\ \A i \in 1..Len(Tail(calls)) : Tail(calls)[i] = calls[i + 1]
        /\ Head(calls) = calls[1] /\ Len(calls) \in Nat /\ Len(calls) > 0
    BY HeadTailProperties, LenProperties, EmptySeq
  <1>2. ASSUME Left(c, Tail(calls)) PROVE Left(c, calls)
    <2>1. PICK i \in 1..Len(Tail(calls)) : Tail(calls)[i] = c
      BY <1>2 DEF Left
    <2>2. i + 1 \in 1..Len(calls) /\ calls[i + 1] = c
      BY <1>1, <2>1
    <2>3. QED
      BY <2>2 DEF Left
  <1>3. ASSUME Left(c, calls), c # Head(calls) PROVE Left(c, Tail(calls))
    <2>1. PICK i \in 1..Len(calls) : calls[i] = c
      BY <1>3 DEF Left
    <2>2. i - 1 \in 1..Len(Tail(calls)) /\ (i - 1) + 1 = i
      BY <1>1, <1>3, <2>1
    <2>3. Tail(calls)[i - 1] = c
      BY <1>1, <2>1, <2>2
    <2>4. QED
      BY <2>2, <2>3 DEF Left
  <1>4. QED
    BY <1>2, <1>3

\* Making another call than a leaves every b behind an a, and a call that is
\* behind another is not the first.
LEMMA BehindTail ==
    ASSUME NEW calls \in Seq(Calls), calls # << >>, NEW a, NEW b, Behind(b, a, calls)
    PROVE  /\ Head(calls) # b
           /\ Head(calls) # a => Behind(b, a, Tail(calls))
  <1>1. /\ Tail(calls) \in Seq(Calls) /\ Len(Tail(calls)) = Len(calls) - 1
        /\ \A i \in 1..Len(Tail(calls)) : Tail(calls)[i] = calls[i + 1]
        /\ Head(calls) = calls[1] /\ Len(calls) \in Nat /\ Len(calls) > 0
    BY HeadTailProperties, LenProperties, EmptySeq
  <1>2. Head(calls) # b
    BY <1>1 DEF Behind
  <1>3. ASSUME Head(calls) # a, NEW i \in 1..Len(Tail(calls)), Tail(calls)[i] = b
        PROVE  \E j \in 1..i - 1 : Tail(calls)[j] = a
    <2>1. i + 1 \in 1..Len(calls) /\ calls[i + 1] = b
      BY <1>1, <1>3
    <2>2. PICK j \in 1..(i + 1) - 1 : calls[j] = a
      BY <2>1 DEF Behind
    <2>3. j # 1
      BY <1>1, <1>3, <2>2
    <2>4. j - 1 \in 1..i - 1 /\ j - 1 \in 1..Len(Tail(calls)) /\ (j - 1) + 1 = j
      BY <1>1, <2>2, <2>3
    <2>5. Tail(calls)[j - 1] = a
      BY <1>1, <2>2, <2>4
    <2>6. QED
      BY <2>4, <2>5
  <1>4. QED
    BY <1>2, <1>3 DEF Behind

\* What has nothing left is behind everything.
LEMMA NotLeftBehind ==
    ASSUME NEW calls, NEW a, NEW b, ~Left(b, calls) PROVE Behind(b, a, calls)
  BY DEF Left, Behind

\* A plan goes upwards or downwards on a stack: a Deployment is applied after
\* its storage and deleted before it.
Layered(calls) ==
    \A m \in Stacks :
        /\ Behind(Apply(Deployment(m)), Apply(PVC(m)), calls)
        /\ Behind(Apply(Deployment(m)), Apply(PV(m)), calls)
        /\ Left(Apply(Deployment(m)), calls) =>
                ~Left(Delete(PVC(m)), calls) /\ ~Left(Delete(PV(m)), calls)
        /\ Behind(Delete(PVC(m)), Delete(Deployment(m)), calls)
        /\ Behind(Delete(PV(m)), Delete(Deployment(m)), calls)

\* No call of a plan is about a stack's workload or storage.
Apart(calls) ==
    \A m \in Stacks :
        /\ ~Left(Apply(Deployment(m)), calls)
        /\ ~Left(Delete(PVC(m)), calls)
        /\ ~Left(Delete(PV(m)), calls)

LEMMA ApartLayered == ASSUME NEW calls, Apart(calls) PROVE Layered(calls)
  BY NotLeftBehind DEF Apart, Layered

\* Syncing a member goes upwards.
LEMMA SyncMemberLayered ==
    ASSUME NEW n \in Members PROVE Layered(SyncMember(n))
  <1> DEFINE s == SyncMember(n)
  <1>1. /\ Len(s) = 4
        /\ s[1] = Apply(PV(n)) /\ s[2] = Apply(PVC(n))
        /\ s[3] = Apply(Deployment(n)) /\ s[4] = Apply(Service(n))
    BY DEF SyncMember
  <1> HIDE DEF s
  <1>2. SUFFICES ASSUME NEW m \in Stacks
                 PROVE  /\ Behind(Apply(Deployment(m)), Apply(PVC(m)), s)
                        /\ Behind(Apply(Deployment(m)), Apply(PV(m)), s)
                        /\ ~Left(Delete(PVC(m)), s) /\ ~Left(Delete(PV(m)), s)
    BY NotLeftBehind DEF Layered, s
  <1>3. ASSUME NEW i \in 1..Len(s), s[i] = Apply(Deployment(m)) PROVE i = 3 /\ m = n
    <2>1. i \in {1, 2, 3, 4}
      BY <1>1
    <2>2. QED
      BY <1>1, <1>3, <2>1, CallsDiffer, ObjectsDiffer
  <1>4. ASSUME NEW i \in 1..Len(s), NEW o PROVE s[i] # Delete(o)
    <2>1. i \in {1, 2, 3, 4}
      BY <1>1
    <2>2. QED
      BY <1>1, <2>1, CallsDiffer
  <1>5. Behind(Apply(Deployment(m)), Apply(PVC(m)), s)
    BY <1>1, <1>3 DEF Behind
  <1>6. Behind(Apply(Deployment(m)), Apply(PV(m)), s)
    BY <1>1, <1>3 DEF Behind
  <1>7. QED
    BY <1>4, <1>5, <1>6 DEF Left

\* Deleting a stack goes downwards.
LEMMA DeleteReplicaStackLayered ==
    ASSUME NEW n \in Replicas
    PROVE  /\ Layered(DeleteReplicaStack(n))
           /\ Left(Delete(Deployment(n)), DeleteReplicaStack(n))
  <1> DEFINE s == DeleteReplicaStack(n)
  <1>1. /\ Len(s) = 4
        /\ s[1] = Delete(Service(n)) /\ s[2] = Delete(Deployment(n))
        /\ s[3] = Delete(PVC(n)) /\ s[4] = Delete(PV(n))
    BY DEF DeleteReplicaStack
  <1> HIDE DEF s
  <1>0. Left(Delete(Deployment(n)), s)
    BY <1>1 DEF Left
  <1>2. SUFFICES ASSUME NEW m \in Stacks
                 PROVE  /\ ~Left(Apply(Deployment(m)), s)
                        /\ Behind(Delete(PVC(m)), Delete(Deployment(m)), s)
                        /\ Behind(Delete(PV(m)), Delete(Deployment(m)), s)
    BY <1>0, NotLeftBehind DEF Layered, s
  <1>3. ASSUME NEW i \in 1..Len(s), s[i] = Delete(PVC(m)) \/ s[i] = Delete(PV(m))
        PROVE  i \in {3, 4} /\ m = n
    <2>1. i \in {1, 2, 3, 4}
      BY <1>1
    <2>2. QED
      BY <1>1, <1>3, <2>1, CallsDiffer, ObjectsDiffer
  <1>4. ASSUME NEW i \in 1..Len(s), NEW o PROVE s[i] # Apply(o)
    <2>1. i \in {1, 2, 3, 4}
      BY <1>1
    <2>2. QED
      BY <1>1, <2>1, CallsDiffer
  <1>5. Behind(Delete(PVC(m)), Delete(Deployment(m)), s)
    BY <1>1, <1>3 DEF Behind
  <1>6. Behind(Delete(PV(m)), Delete(Deployment(m)), s)
    BY <1>1, <1>3 DEF Behind
  <1>7. QED
    BY <1>4, <1>5, <1>6 DEF Left

\* The rest of a cleanup goes downwards, over both stacks that are no replica's.
LEMMA CleanupRestLayered ==
    /\ Layered(CleanupRest)
    /\ Left(Delete(Deployment(Primary)), CleanupRest)
    /\ Left(Delete(Deployment(Pgmoneta)), CleanupRest)
  <1> DEFINE s == CleanupRest
  <1>1. /\ Len(s) = 9
        /\ s[1] = Delete(Service(Primary)) /\ s[2] = Delete(Deployment(Primary))
        /\ s[3] = Delete(PVC(Primary)) /\ s[4] = Delete(Deployment(Pgmoneta))
        /\ s[5] = Delete(PVC(Pgmoneta)) /\ s[6] = Delete(Secret(Pgmoneta))
        /\ s[7] = Delete(Deployment(Pgexporter)) /\ s[8] = Delete(Secret(Pgexporter))
        /\ s[9] = Delete(Deployment(Monitoring))
    BY DEF CleanupRest
  <1> HIDE DEF s
  <1>2. Left(Delete(Deployment(Primary)), s) /\ Left(Delete(Deployment(Pgmoneta)), s)
    BY <1>1 DEF Left
  <1>3. ASSUME NEW m \in Stacks
        PROVE  /\ ~Left(Apply(Deployment(m)), s) /\ ~Left(Delete(PV(m)), s)
               /\ Behind(Delete(PVC(m)), Delete(Deployment(m)), s)
    <2>1. ASSUME NEW i \in 1..Len(s)
          PROVE  /\ s[i] # Apply(Deployment(m)) /\ s[i] # Delete(PV(m))
                 /\ s[i] = Delete(PVC(m)) => (i = 3 /\ m = Primary) \/ (i = 5 /\ m = Pgmoneta)
      <3>1. i \in {1, 2, 3, 4, 5, 6, 7, 8, 9}
        BY <1>1
      <3>2. s[i] # Apply(Deployment(m))
        BY <1>1, <3>1, CallsDiffer
      <3>3. s[i] # Delete(PV(m))
        BY <1>1, <3>1, CallsDiffer, ObjectsDiffer
      <3>4. s[i] = Delete(PVC(m)) => (i = 3 /\ m = Primary) \/ (i = 5 /\ m = Pgmoneta)
        BY <1>1, <3>1, CallsDiffer, ObjectsDiffer
      <3>5. QED
        BY <3>2, <3>3, <3>4
    <2>2. Behind(Delete(PVC(m)), Delete(Deployment(m)), s)
      BY <1>1, <2>1 DEF Behind
    <2>3. QED
      BY <2>1, <2>2 DEF Left
  <1>4. Layered(s)
    BY <1>3, NotLeftBehind DEF Layered
  <1>5. QED
    BY <1>2, <1>4 DEF s

\* The ConfigMap is no stack's.
LEMMA SyncConfigApart == ASSUME NEW spec PROVE Apart(SyncConfig(spec))
  <1> DEFINE o == <<"ConfigMap", Config(spec.config)>>
  <1>1. \A m : o # Deployment(m)
    BY DEF Deployment
  <1>2. \A x : ~Left(x, << >>)
    BY DEF Left
  <1>3. \A x : Left(x, <<Apply(o)>>) => x = Apply(o)
    BY DEF Left
  <1>4. SyncConfig(spec) = << >> \/ SyncConfig(spec) = <<Apply(o)>>
    BY DEF SyncConfig
  <1> HIDE DEF o
  <1>5. QED
    BY <1>1, <1>2, <1>3, <1>4, CallsDiffer DEF Apart

\* A call left of two plans is left of one of them.
LEMMA LeftConcat ==
    ASSUME NEW s \in Seq(Calls), NEW t \in Seq(Calls), NEW c
    PROVE  Left(c, s \o t) => Left(c, s) \/ Left(c, t)
  <1> SUFFICES ASSUME Left(c, s \o t), ~Left(c, s) PROVE Left(c, t)
    OBVIOUS
  <1>1. /\ Len(s \o t) = Len(s) + Len(t) /\ Len(s) \in Nat /\ Len(t) \in Nat
        /\ \A i \in 1..Len(s) + Len(t) :
              (s \o t)[i] = IF i <= Len(s) THEN s[i] ELSE t[i - Len(s)]
    BY ConcatProperties, LenProperties
  <1>2. PICK i \in 1..Len(s) + Len(t) : (s \o t)[i] = c
    BY <1>1 DEF Left
  <1>3. ~(i <= Len(s))
    BY <1>1, <1>2 DEF Left
  <1>4. i - Len(s) \in 1..Len(t) /\ t[i - Len(s)] = c
    BY <1>1, <1>2, <1>3
  <1>5. QED
    BY <1>4 DEF Left

\* Calls that are no b keep every b behind an a.
LEMMA BehindConcat ==
    ASSUME NEW s \in Seq(Calls), NEW t \in Seq(Calls), NEW a, NEW b,
           Behind(b, a, s), ~Left(b, t)
    PROVE  Behind(b, a, s \o t)
  <1>1. /\ Len(s \o t) = Len(s) + Len(t) /\ Len(s) \in Nat /\ Len(t) \in Nat
        /\ \A i \in 1..Len(s) + Len(t) :
              (s \o t)[i] = IF i <= Len(s) THEN s[i] ELSE t[i - Len(s)]
    BY ConcatProperties, LenProperties
  <1>2. SUFFICES ASSUME NEW i \in 1..Len(s) + Len(t), (s \o t)[i] = b
                 PROVE  \E j \in 1..i - 1 : (s \o t)[j] = a
    BY <1>1 DEF Behind
  <1>3. CASE i <= Len(s)
    <2>1. i \in 1..Len(s) /\ s[i] = b
      BY <1>1, <1>2, <1>3
    <2>2. PICK j \in 1..i - 1 : s[j] = a
      BY <2>1 DEF Behind
    <2>3. (s \o t)[j] = a
      BY <1>1, <2>1, <2>2
    <2>4. QED
      BY <2>2, <2>3
  <1>4. CASE ~(i <= Len(s))
    <2>1. i - Len(s) \in 1..Len(t) /\ t[i - Len(s)] = b
      BY <1>1, <1>2, <1>4
    <2>2. QED
      BY <2>1 DEF Left
  <1>5. QED
    BY <1>3, <1>4

\* The add-ons are synced upwards or cleaned up downwards, and no member is.
LEMMA SyncAddonsLayered ==
    ASSUME NEW spec \in SpecType
    PROVE  /\ Layered(SyncAddons(spec))
           /\ \A m \in Members : ~Left(Apply(Deployment(m)), SyncAddons(spec))
  <1> DEFINE Front == IF spec.pgmoneta THEN SyncPgmoneta ELSE CleanupPgmoneta
             Back  == IF spec.pgexporter # "none"
                      THEN SyncPgexporter(spec.pgexporter = "monitored")
                      ELSE CleanupPgexporter
  <1>1. SyncAddons(spec) = Front \o Back
    BY DEF SyncAddons
  <1>2. Front \in Seq(Calls) /\ Back \in Seq(Calls)
    <2>1. SyncPgmoneta \in Seq(Calls) /\ CleanupPgmoneta \in Seq(Calls)
      BY ObjectTypes, CallTypes DEF SyncPgmoneta, CleanupPgmoneta, Deployment, PVC, Secret
    <2>2. CleanupPgexporter \in Seq(Calls)
      BY ObjectTypes, CallTypes DEF CleanupPgexporter, Deployment, Secret
    <2>3. \A b \in BOOLEAN : SyncPgexporter(b) \in Seq(Calls)
      BY ObjectTypes, CallTypes DEF SyncPgexporter, Deployment, Service, Secret
    <2>4. QED
      BY <2>1, <2>2, <2>3
  <1>3. \A m \in Members : m # Pgmoneta
    BY DEF Members, Replicas, Primary, Replica, Pgmoneta
  <1>4. \A m \in Stacks : m # Pgexporter /\ m # Monitoring
    BY DEF Stacks, Members, Replicas, Primary, Replica, Pgmoneta, Pgexporter, Monitoring
  <1>5. Layered(SyncPgmoneta) /\ \A m \in Members : ~Left(Apply(Deployment(m)), SyncPgmoneta)
    <2> DEFINE s == SyncPgmoneta
    <2>1. /\ Len(s) = 4
          /\ s[1] = Apply(PV(Pgmoneta)) /\ s[2] = Apply(PVC(Pgmoneta))
          /\ s[3] = Apply(Secret(Pgmoneta)) /\ s[4] = Apply(Deployment(Pgmoneta))
      BY DEF SyncPgmoneta
    <2> HIDE DEF s
    <2>2. ASSUME NEW m, NEW i \in 1..Len(s)
          PROVE  /\ s[i] = Apply(Deployment(m)) => i = 4 /\ m = Pgmoneta
                 /\ s[i] # Delete(PVC(m)) /\ s[i] # Delete(PV(m))
      <3>1. i \in {1, 2, 3, 4}
        BY <2>1
      <3>2. s[i] = Apply(Deployment(m)) => i = 4 /\ m = Pgmoneta
        BY <2>1, <3>1, CallsDiffer, ObjectsDiffer
      <3>3. s[i] # Delete(PVC(m)) /\ s[i] # Delete(PV(m))
        BY <2>1, <3>1, CallsDiffer
      <3>4. QED
        BY <3>2, <3>3
    <2>3. ASSUME NEW m \in Stacks
          PROVE  /\ Behind(Apply(Deployment(m)), Apply(PVC(m)), s)
                 /\ Behind(Apply(Deployment(m)), Apply(PV(m)), s)
                 /\ ~Left(Delete(PVC(m)), s) /\ ~Left(Delete(PV(m)), s)
      <3>1. Behind(Apply(Deployment(m)), Apply(PVC(m)), s)
        BY <2>1, <2>2 DEF Behind
      <3>2. Behind(Apply(Deployment(m)), Apply(PV(m)), s)
        BY <2>1, <2>2 DEF Behind
      <3>3. QED
        BY <2>2, <3>1, <3>2 DEF Left
    <2>4. Layered(s)
      BY <2>3, NotLeftBehind DEF Layered
    <2>5. \A m \in Members : ~Left(Apply(Deployment(m)), s)
      BY <1>3, <2>2 DEF Left
    <2>6. QED
      BY <2>4, <2>5 DEF s
  <1>6. Layered(CleanupPgmoneta) /\ \A m \in Members : ~Left(Apply(Deployment(m)), CleanupPgmoneta)
    <2> DEFINE s == CleanupPgmoneta
    <2>1. /\ Len(s) = 4
          /\ s[1] = Delete(Deployment(Pgmoneta)) /\ s[2] = Delete(PVC(Pgmoneta))
          /\ s[3] = Delete(Secret(Pgmoneta)) /\ s[4] = Delete(PV(Pgmoneta))
      BY DEF CleanupPgmoneta
    <2> HIDE DEF s
    <2>2. ASSUME NEW m, NEW i \in 1..Len(s)
          PROVE  /\ s[i] = Delete(PVC(m)) => i = 2 /\ m = Pgmoneta
                 /\ s[i] = Delete(PV(m)) => i = 4 /\ m = Pgmoneta
                 /\ s[i] # Apply(Deployment(m))
      <3>1. i \in {1, 2, 3, 4}
        BY <2>1
      <3>2. s[i] = Delete(PVC(m)) => i = 2 /\ m = Pgmoneta
        BY <2>1, <3>1, CallsDiffer, ObjectsDiffer
      <3>3. s[i] = Delete(PV(m)) => i = 4 /\ m = Pgmoneta
        BY <2>1, <3>1, CallsDiffer, ObjectsDiffer
      <3>4. s[i] # Apply(Deployment(m))
        BY <2>1, <3>1, CallsDiffer
      <3>5. QED
        BY <3>2, <3>3, <3>4
    <2>3. ASSUME NEW m \in Stacks
          PROVE  /\ ~Left(Apply(Deployment(m)), s)
                 /\ Behind(Delete(PVC(m)), Delete(Deployment(m)), s)
                 /\ Behind(Delete(PV(m)), Delete(Deployment(m)), s)
      <3>1. Behind(Delete(PVC(m)), Delete(Deployment(m)), s)
        BY <2>1, <2>2 DEF Behind
      <3>2. Behind(Delete(PV(m)), Delete(Deployment(m)), s)
        BY <2>1, <2>2 DEF Behind
      <3>3. QED
        BY <2>2, <3>1, <3>2 DEF Left
    <2>4. Layered(s)
      BY <2>3, NotLeftBehind DEF Layered
    <2>5. \A m \in Members : ~Left(Apply(Deployment(m)), s)
      BY <2>2 DEF Left
    <2>6. QED
      BY <2>4, <2>5 DEF s
  <1>7. Apart(Back)
    <2>1. ASSUME NEW b \in BOOLEAN PROVE Apart(SyncPgexporter(b))
      <3> DEFINE s == SyncPgexporter(b)
      <3>1. /\ Len(s) = 4
            /\ s[1] = Apply(Secret(Pgexporter)) /\ s[2] = Apply(Deployment(Pgexporter))
            /\ s[3] = Apply(Service(Pgexporter))
            /\ s[4] \in {Apply(Deployment(Monitoring)), Delete(Deployment(Monitoring))}
        BY DEF SyncPgexporter
      <3> HIDE DEF s
      <3>2. ASSUME NEW m \in Stacks, NEW i \in 1..Len(s)
            PROVE  /\ s[i] # Apply(Deployment(m))
                   /\ s[i] # Delete(PVC(m)) /\ s[i] # Delete(PV(m))
        <4>1. i \in {1, 2, 3, 4}
          BY <3>1
        <4>2. QED
          BY <1>4, <3>1, <4>1, CallsDiffer, ObjectsDiffer
      <3>3. QED
        BY <3>2 DEF Apart, Left, s
    <2>2. Apart(CleanupPgexporter)
      <3> DEFINE s == CleanupPgexporter
      <3>1. /\ Len(s) = 2
            /\ s[1] = Delete(Deployment(Pgexporter)) /\ s[2] = Delete(Secret(Pgexporter))
        BY DEF CleanupPgexporter
      <3> HIDE DEF s
      <3>2. ASSUME NEW m \in Stacks, NEW i \in 1..Len(s)
            PROVE  /\ s[i] # Apply(Deployment(m))
                   /\ s[i] # Delete(PVC(m)) /\ s[i] # Delete(PV(m))
        <4>1. i \in {1, 2}
          BY <3>1
        <4>2. QED
          BY <3>1, <4>1, CallsDiffer, ObjectsDiffer
      <3>3. QED
        BY <3>2 DEF Apart, Left, s
    <2>3. QED
      BY <2>1, <2>2
  <1>8. Layered(Front) /\ \A m \in Members : ~Left(Apply(Deployment(m)), Front)
    BY <1>5, <1>6
  <1> HIDE DEF Front, Back
  <1>9. Layered(Front \o Back)
    <2> SUFFICES ASSUME NEW m \in Stacks
                 PROVE  /\ Behind(Apply(Deployment(m)), Apply(PVC(m)), Front \o Back)
                        /\ Behind(Apply(Deployment(m)), Apply(PV(m)), Front \o Back)
                        /\ Left(Apply(Deployment(m)), Front \o Back) =>
                              /\ ~Left(Delete(PVC(m)), Front \o Back)
                              /\ ~Left(Delete(PV(m)), Front \o Back)
                        /\ Behind(Delete(PVC(m)), Delete(Deployment(m)), Front \o Back)
                        /\ Behind(Delete(PV(m)), Delete(Deployment(m)), Front \o Back)
      BY DEF Layered
    <2>1. /\ ~Left(Apply(Deployment(m)), Back)
          /\ ~Left(Delete(PVC(m)), Back) /\ ~Left(Delete(PV(m)), Back)
      BY <1>7 DEF Apart
    <2>2. /\ Left(Apply(Deployment(m)), Front \o Back) => Left(Apply(Deployment(m)), Front)
          /\ Left(Delete(PVC(m)), Front \o Back) => Left(Delete(PVC(m)), Front)
          /\ Left(Delete(PV(m)), Front \o Back) => Left(Delete(PV(m)), Front)
      BY <1>2, <2>1, LeftConcat
    <2>3. QED
      BY <1>2, <1>8, <2>1, <2>2, BehindConcat DEF Layered
  <1>10. ASSUME NEW m \in Members PROVE ~Left(Apply(Deployment(m)), Front \o Back)
    BY <1>2, <1>7, <1>8, LeftConcat DEF Apart, Stacks
  <1>11. QED
    BY <1>1, <1>9, <1>10

-----------------------------------------------------------------------------
(* Types.                                                                  *)

\* The placeholder for a missing resource is typed and does not exist.
LEMMA NoResource == NoCR \in CRType /\ ~Exists(NoCR)
  <1>1. NoSpec \in SpecType
    BY TopologyAssumption DEF NoSpec, SpecType, NoConfig, BadConfig
  <1>2. 0 \in 0..MaxBirths
    BY ReconcilerAssumption
  <1>3. QED
    BY <1>1, <1>2 DEF CRType, NoCR, Exists

\* The fields of a resource are typed.
LEMMA ResourceFields ==
    ASSUME NEW r \in CRType
    PROVE  /\ r.spec \in SpecType
           /\ r.uid \in 0..MaxBirths
           /\ r.finalizer \in BOOLEAN
           /\ r.deleting \in BOOLEAN
  BY DEF CRType

\* Updates of one field, as the API server makes them, keep the type.
LEMMA ResourceUpdates ==
    ASSUME NEW r \in CRType
    PROVE  /\ [r EXCEPT !.deleting = TRUE] \in CRType
           /\ [r EXCEPT !.finalizer = TRUE] \in CRType
           /\ [r EXCEPT !.finalizer = FALSE] \in CRType
           /\ \A s \in SpecType : [r EXCEPT !.spec = s] \in CRType
           /\ \A s \in {"invalid", "observed"} : [r EXCEPT !.status = s] \in CRType
  BY DEF CRType

\* The initial state is typed.
LEMMA InitTyped == Init => TypeOK
  <1> SUFFICES ASSUME Init PROVE TypeOK
    OBVIOUS
  <1>1. Absent \in Entry
    BY TopologyAssumption, ReconcilerAssumption DEF Absent, Entry, NoConfig, BadConfig
  <1>2. children \in [Children -> Entry]
    BY <1>1 DEF Init
  <1>3. cr \in CRType /\ cache \in CRType /\ snap \in CRType
    BY NoResource DEF Init
  <1>4. births \in 0..MaxBirths /\ edits \in 0..MaxEdits /\ faults \in 0..MaxFaults
    BY ReconcilerAssumption DEF Init
  <1>5. stage \in Stages /\ todo \in Seq(Calls)
    BY DEF Init, Stages
  <1>6. due \in BOOLEAN
    BY DEF Init
  <1>7. QED
    BY <1>2, <1>3, <1>4, <1>5, <1>6 DEF Init, TypeOK

\* Users keep the types.
LEMMA UsersTyped == TypeOK /\ Users => TypeOK'
  <1> SUFFICES ASSUME TypeOK, Users PROVE TypeOK'
    OBVIOUS
  <1>1. CASE DeleteCR
    <2>1. cr' \in CRType
      BY <1>1, NoResource, ResourceUpdates DEF DeleteCR, TypeOK
    <2>2. QED
      BY <1>1, <2>1 DEF DeleteCR, TypeOK, job, budget
  <1>2. ASSUME NEW spec \in Specs, Create(spec) PROVE TypeOK'
    <2>1. spec \in SpecType
      BY ReconcilerAssumption
    <2>2. births' \in 0..MaxBirths /\ births + 1 \in 0..MaxBirths
      BY <1>2, ReconcilerAssumption DEF Create, TypeOK
    <2>3. cr' \in CRType
      BY <1>2, <2>1, <2>2 DEF Create, CRType
    <2>4. QED
      BY <1>2, <2>2, <2>3 DEF Create, TypeOK, job
  <1>3. ASSUME NEW spec \in Specs, Edit(spec) PROVE TypeOK'
    <2>1. cr' \in CRType
      BY <1>3, ReconcilerAssumption, ResourceUpdates DEF Edit, TypeOK
    <2>2. edits' \in 0..MaxEdits
      BY <1>3, ReconcilerAssumption DEF Edit, TypeOK
    <2>3. QED
      BY <1>3, <2>1, <2>2 DEF Edit, TypeOK, job
  <1>4. QED
    BY <1>1, <1>2, <1>3 DEF Users

\* The controller runtime keeps the types.
LEMMA RuntimeTyped == TypeOK /\ Runtime => TypeOK'
  BY DEF TypeOK, Runtime, Watch, Start, Skip, server, job, budget, Stages

\* Taking a call from todo keeps the types.
LEMMA CallTyped ==
    ASSUME TypeOK, NEW verb, NEW objects, NextCall(verb, objects)
    PROVE  /\ Head(todo) \in Calls
           /\ Head(todo).object \in objects
           /\ Tail(todo) \in Seq(Calls)
  BY DEF TypeOK, NextCall

\* What an apply writes is typed.
LEMMA AppliedTyped ==
    ASSUME TypeOK, NEW o \in Children PROVE Applied(o) \in Entry
  <1>1. snap.uid \in 0..MaxBirths /\ snap.spec.config \in {BadConfig} \cup 0..MaxConfig
    BY ResourceFields DEF TypeOK, SpecType
  <1>2. NoConfig \in {BadConfig} \cup 0..MaxConfig
    BY TopologyAssumption DEF NoConfig, BadConfig
  <1>3. QED
    BY <1>1, <1>2 DEF Applied, Entry

\* So is what a deletion leaves.
LEMMA AbsentTyped == Absent \in Entry
  BY TopologyAssumption, ReconcilerAssumption DEF Absent, Entry, NoConfig, BadConfig

\* Ending a reconcile keeps the types of what belongs to it.
LEMMA RequeueTyped ==
    Requeue => /\ due' \in BOOLEAN /\ stage' = "idle" /\ snap' \in CRType
               /\ todo' = << >> /\ todo' \in Seq(Calls) /\ pending' = {}
  BY NoResource DEF Requeue

\* The steps of a reconcile keep the types.
LEMMA StepsTyped == TypeOK /\ Steps => TypeOK'
  <1> SUFFICES ASSUME TypeOK, Steps PROVE TypeOK'
    OBVIOUS
  <1> USE DEF Stages, server, budget
  <1>1. CASE AddFinalizer
    <2>1. CASE Exists(cr)
      <3>1. cr' \in CRType
        BY <1>1, <2>1, ResourceUpdates DEF AddFinalizer, TypeOK
      <3>2. QED
        BY <1>1, <2>1, <3>1 DEF AddFinalizer, TypeOK, Continue
    <2>2. CASE ~Exists(cr)
      BY <1>1, <2>2, RequeueTyped DEF AddFinalizer, TypeOK
    <2>3. QED
      BY <2>1, <2>2
  <1>2. CASE CheckSpec
    <2>1. CASE Continue("invalid", << >>, {})
      BY <1>2, <2>1 DEF CheckSpec, TypeOK, Continue
    <2>2. CASE Requeue
      BY <1>2, <2>2, RequeueTyped DEF CheckSpec, TypeOK
    <2>3. CASE /\ snap.spec.config # BadConfig
               /\ Continue("sync", SyncConfig(snap.spec), MembersOf(snap.spec))
      <3>1. snap.spec \in SpecType
        BY ResourceFields DEF TypeOK
      <3>2. QED
        BY <1>2, <2>3, <3>1, SyncPlans, MembersAreStacks DEF CheckSpec, TypeOK, Continue
    <2>4. QED
      BY <1>2, <2>1, <2>2, <2>3 DEF CheckSpec
  <1>3. CASE NextMember
    <2>1. PICK m \in pending : Continue("sync", SyncMember(m), pending \ {m})
      BY <1>3 DEF NextMember
    <2>2. snap.spec \in SpecType /\ m \in Members
      BY <1>3, ResourceFields DEF TypeOK, NextMember
    <2>3. SyncMember(m) \in Seq(Calls)
      BY <2>2, SyncPlans
    <2>4. QED
      BY <1>3, <2>1, <2>3 DEF NextMember, TypeOK, Continue
  <1>4. CASE ListStale
    BY <1>4, MembersAreStacks, ResourceFields DEF ListStale, TypeOK, Continue
  <1>5. CASE NextVictim
    <2>1. PICK m \in pending : Continue(stage, DeleteReplicaStack(m), pending \ {m})
      BY <1>5 DEF NextVictim
    <2>2. DeleteReplicaStack(m) \in Seq(Calls)
      BY <1>5, CleanupPlans DEF NextVictim, TypeOK
    <2>3. QED
      BY <1>5, <2>1, <2>2 DEF NextVictim, TypeOK, Continue
  <1>6. CASE BeginAddons
    <2>1. SyncAddons(snap.spec) \in Seq(Calls)
      BY ResourceFields, SyncPlans DEF TypeOK
    <2>2. QED
      BY <1>6, <2>1 DEF BeginAddons, TypeOK, Continue
  <1>7. CASE PatchStatus
    <2>1. cr' \in CRType
      BY <1>7, ResourceUpdates DEF PatchStatus, TypeOK
    <2>2. QED
      BY <1>7, <2>1, RequeueTyped DEF PatchStatus, TypeOK
  <1>8. CASE Sync
    <2>1. NextCall("apply", Children)
      BY <1>8 DEF Sync
    <2>2. Applied(Head(todo).object) \in Entry
      BY <2>1, CallTyped, AppliedTyped
    <2>3. QED
      BY <1>8, <2>1, <2>2, CallTyped DEF Sync, NextCall, TypeOK, Continue
  <1>9. CASE SyncCluster
    <2>1. NextCall("apply", Volumes)
      BY <1>9 DEF SyncCluster
    <2>2. Head(todo).object[2] \in Stacks
      BY <2>1, CallTyped DEF Volumes
    <2>3. QED
      BY <1>9, <2>1, <2>2, CallTyped DEF SyncCluster, NextCall, TypeOK, Continue
  <1>10. CASE DeleteChild
    <2>1. NextCall("delete", Children)
      BY <1>10 DEF DeleteChild
    <2>2. QED
      BY <1>10, <2>1, CallTyped, AbsentTyped DEF DeleteChild, NextCall, TypeOK, Continue
  <1>11. CASE DeleteCluster
    <2>1. NextCall("delete", Volumes)
      BY <1>11 DEF DeleteCluster
    <2>2. QED
      BY <1>11, <2>1, CallTyped DEF DeleteCluster, NextCall, TypeOK, Continue
  <1>12. CASE ListReplicas
    BY <1>12, MembersAreStacks, ResourceFields DEF ListReplicas, TypeOK, Continue
  <1>13. CASE BeginRest
    BY <1>13, CleanupPlans DEF BeginRest, TypeOK, Continue
  <1>14. CASE ListVolumes
    BY <1>14 DEF ListVolumes, TypeOK, Continue
  <1>15. CASE PurgeVolume
    BY <1>15 DEF PurgeVolume, TypeOK, Continue
  <1>16. CASE RemoveFinalizer
    <2>1. CASE Exists(cr)
      <3>1. cr' \in CRType
        BY <1>16, <2>1, NoResource, ResourceUpdates DEF RemoveFinalizer, TypeOK
      <3>2. QED
        BY <1>16, <2>1, <3>1, NoResource DEF RemoveFinalizer, TypeOK
    <2>2. CASE ~Exists(cr)
      BY <1>16, <2>2, RequeueTyped DEF RemoveFinalizer, TypeOK
    <2>3. QED
      BY <2>1, <2>2
  <1>17. QED
    BY <1>1, <1>2, <1>3, <1>4, <1>5, <1>6, <1>7, <1>8, <1>9, <1>10, <1>11,
       <1>12, <1>13, <1>14, <1>15, <1>16 DEF Steps

\* Failures, crashes and drift keep the types.
LEMMA MishapsTyped == TypeOK /\ Mishaps => TypeOK'
  <1> SUFFICES ASSUME TypeOK, Mishaps PROVE TypeOK'
    OBVIOUS
  <1>1. UseFault => faults' \in 0..MaxFaults
    BY ReconcilerAssumption DEF UseFault, TypeOK
  <1> USE DEF Stages, server
  <1>2. CASE Fail
    BY <1>1, <1>2, RequeueTyped DEF Fail, TypeOK
  <1>3. CASE RemoveFinalizerUnanswered
    <2>1. cr' \in CRType
      BY <1>3, NoResource, ResourceUpdates DEF RemoveFinalizerUnanswered, TypeOK
    <2>2. QED
      BY <1>1, <1>3, <2>1, RequeueTyped DEF RemoveFinalizerUnanswered, TypeOK
  <1>4. CASE Crash
    <2>1. due' \in BOOLEAN
      BY <1>4 DEF Crash, Exists
    <2>2. QED
      BY <1>1, <1>4, <2>1, NoResource DEF Crash, TypeOK
  <1>5. CASE Drift
    BY <1>1, <1>5, AbsentTyped DEF Drift, TypeOK, job
  <1>6. QED
    BY <1>2, <1>3, <1>4, <1>5 DEF Mishaps

\* The garbage collector keeps the types.
LEMMA CollectorTyped == TypeOK /\ GarbageCollect => TypeOK'
  BY AbsentTyped DEF GarbageCollect, TypeOK, job, budget

\* TypeOK is inductive.
LEMMA NextTyped == TypeOK /\ [Next]_vars => TypeOK'
  <1>1. TypeOK /\ UNCHANGED vars => TypeOK'
    BY DEF TypeOK, vars, server, job, budget
  <1>2. QED
    BY <1>1, UsersTyped, RuntimeTyped, StepsTyped, MishapsTyped, CollectorTyped DEF Next

\* The variables keep their types for any number of replicas, any specs and
\* any bounds: in particular the loops of the reconcile only ever hold
\* replicas where replica stacks are deleted.
THEOREM TypeCorrect == Spec => []TypeOK
  BY InitTyped, NextTyped, PTL DEF Spec
-----------------------------------------------------------------------------
(* The finalizer guard.                                                    *)

\* The invariant holds at the start.
LEMMA FinalizerInit == Init => FinalizerInv
  BY InitTyped DEF Init, FinalizerInv, SnapshotInv, JobInv, FinalizerGuard, Held, NoCR,
     SyncStages, CleanupStages

\* What a step that leaves the resource and the cache alone, and moves the
\* reconcile within its half of the stages, cannot disturb.
LEMMA SnapshotStable ==
    ASSUME SnapshotInv,
           UNCHANGED <<cr, cache>>,
           stage' \in SyncStages => stage \in SyncStages,
           stage' \in CleanupStages => stage \in CleanupStages,
           stage' = "protect" => stage = "protect"
    PROVE  SnapshotInv'
  BY DEF SnapshotInv, Held

\* Users: a held resource stays held, a new one starts without a finalizer.
LEMMA UsersSnapshot == FinalizerInv /\ Users => SnapshotInv'
  <1> SUFFICES ASSUME FinalizerInv, Users PROVE SnapshotInv'
    OBVIOUS
  <1> USE DEF FinalizerInv, SnapshotInv, Held, Exists, job
  <1>1. CASE DeleteCR
    <2>1. CASE cr.finalizer
      <3>1. /\ cr'.uid = cr.uid /\ cr'.finalizer /\ cr'.deleting
            /\ UNCHANGED <<cache, stage>>
        BY <1>1, <2>1 DEF DeleteCR, TypeOK, CRType
      <3>2. QED
        BY <1>1, <3>1 DEF DeleteCR
    <2>2. CASE ~cr.finalizer
      <3>1. ~cr'.finalizer /\ ~cr'.deleting /\ UNCHANGED <<cache, stage>>
        BY <1>1, <2>2 DEF DeleteCR, NoCR
      <3>2. ~cr.deleting
        BY <2>2
      <3>3. QED
        BY <2>2, <3>1, <3>2
    <2>3. QED
      BY <2>1, <2>2
  <1>2. ASSUME NEW spec \in Specs, Create(spec) PROVE SnapshotInv'
    <2>1. ~cr'.finalizer /\ ~cr'.deleting /\ UNCHANGED <<cache, stage>>
      BY <1>2 DEF Create
    <2>2. ~Held /\ ~cr.deleting
      BY <1>2 DEF Create
    <2>3. QED
      BY <2>1, <2>2
  <1>3. ASSUME NEW spec \in Specs, Edit(spec) PROVE SnapshotInv'
    <2>1. /\ cr'.uid = cr.uid /\ cr'.finalizer = cr.finalizer /\ cr'.deleting = cr.deleting
          /\ UNCHANGED <<cache, stage>>
      BY <1>3 DEF Edit, TypeOK, CRType
    <2>2. QED
      BY <2>1
  <1>4. QED
    BY <1>1, <1>2, <1>3 DEF Users

\* The runtime moves the cache forward and starts with what it holds.
LEMMA RuntimeSnapshot == FinalizerInv /\ Runtime => SnapshotInv'
  <1> SUFFICES ASSUME FinalizerInv, Runtime PROVE SnapshotInv'
    OBVIOUS
  <1> USE DEF FinalizerInv, SnapshotInv, Held, Exists
  <1>1. CASE Watch
    BY <1>1 DEF Watch, server, job
  <1>2. CASE Start
    BY <1>2 DEF Start, server, SyncStages, CleanupStages
  <1>3. CASE Skip
    BY <1>3 DEF Skip, server, job
  <1>4. QED
    BY <1>1, <1>2, <1>3 DEF Runtime

\* Steps of the reconcile: only three of them write the resource.
LEMMA StepsSnapshot == FinalizerInv /\ Steps => SnapshotInv'
  <1> SUFFICES ASSUME FinalizerInv, Steps PROVE SnapshotInv'
    OBVIOUS
  <1> USE DEF FinalizerInv
  <1>1. CASE AddFinalizer
    <2>1. CASE Exists(cr)
      <3>1. /\ cr'.uid = cr.uid /\ cr'.finalizer /\ cr'.deleting = cr.deleting
            /\ cache' = cache /\ stage' = "check" /\ stage = "protect"
        BY <1>1, <2>1 DEF AddFinalizer, Continue, TypeOK, CRType
      <3>2. QED
        BY <2>1, <3>1 DEF SnapshotInv, Held, Exists, CleanupStages
    <2>2. CASE ~Exists(cr)
      <3>1. UNCHANGED <<cr, cache>> /\ stage' = "idle"
        BY <1>1, <2>2 DEF AddFinalizer, Requeue
      <3>2. QED
        BY <3>1, SnapshotStable DEF SyncStages, CleanupStages
    <2>3. QED
      BY <2>1, <2>2
  <1>2. CASE PatchStatus
    <2>1. /\ cr'.uid = cr.uid /\ cr'.finalizer = cr.finalizer /\ cr'.deleting = cr.deleting
          /\ cache' = cache /\ stage' = "idle"
      BY <1>2 DEF PatchStatus, Requeue, TypeOK, CRType
    <2>2. QED
      BY <2>1 DEF SnapshotInv, Held, Exists, SyncStages, CleanupStages
  <1>3. CASE RemoveFinalizer
    <2>1. stage = "purge" /\ cache' = cache /\ stage' = "idle"
      BY <1>3 DEF RemoveFinalizer, Requeue
    <2>2. cr' = NoCR \/ (~cr.deleting /\ cr' = [cr EXCEPT !.finalizer = FALSE]) \/ cr' = cr
      BY <1>3 DEF RemoveFinalizer
    <2>3. cr' = cr \/ (~cr'.finalizer /\ ~cr'.deleting)
      BY <2>2 DEF NoCR, TypeOK, CRType
    <2>4. QED
      BY <2>1, <2>3 DEF SnapshotInv, Held, SyncStages, CleanupStages
  <1>4. CASE \/ CheckSpec \/ NextMember \/ ListStale \/ NextVictim \/ BeginAddons
             \/ ListReplicas \/ BeginRest \/ ListVolumes
    <2>1. UNCHANGED <<cr, cache>>
      BY <1>4 DEF CheckSpec, NextMember, ListStale, NextVictim, BeginAddons, ListReplicas,
                  BeginRest, ListVolumes, server
    <2>2. /\ stage' \in SyncStages => stage \in SyncStages
          /\ stage' \in CleanupStages => stage \in CleanupStages
          /\ stage' # "protect"
      BY <1>4 DEF CheckSpec, NextMember, ListStale, NextVictim, BeginAddons, ListReplicas,
                  BeginRest, ListVolumes, Continue, Requeue, SyncStages, CleanupStages
    <2>3. QED
      BY <2>1, <2>2, SnapshotStable
  <1>5. CASE Sync \/ SyncCluster \/ DeleteChild \/ DeleteCluster \/ PurgeVolume
    <2>1. UNCHANGED <<cr, cache, stage>>
      BY <1>5 DEF Sync, SyncCluster, DeleteChild, DeleteCluster, PurgeVolume, NextCall, Continue
    <2>2. QED
      BY <2>1, SnapshotStable
  <1>6. QED
    BY <1>1, <1>2, <1>3, <1>4, <1>5 DEF Steps

\* A failure or crash leaves no reconcile that could be stale.
LEMMA MishapsSnapshot == FinalizerInv /\ Mishaps => SnapshotInv'
  <1> SUFFICES ASSUME FinalizerInv, Mishaps PROVE SnapshotInv'
    OBVIOUS
  <1> USE DEF FinalizerInv
  <1>1. CASE Fail
    <2>1. UNCHANGED <<cr, cache>> /\ stage' = "idle"
      BY <1>1 DEF Fail, Requeue, server
    <2>2. QED
      BY <2>1, SnapshotStable DEF SyncStages, CleanupStages
  <1>2. CASE RemoveFinalizerUnanswered
    <2>1. stage = "purge" /\ cache' = cache /\ stage' = "idle"
      BY <1>2 DEF RemoveFinalizerUnanswered, Requeue
    <2>2. cr' = NoCR \/ (~cr.deleting /\ cr' = [cr EXCEPT !.finalizer = FALSE])
      BY <1>2 DEF RemoveFinalizerUnanswered
    <2>3. ~cr'.finalizer /\ ~cr'.deleting
      BY <2>2 DEF NoCR, TypeOK, CRType
    <2>4. QED
      BY <2>1, <2>3 DEF SnapshotInv, Held, SyncStages, CleanupStages
  <1>3. CASE Crash
    BY <1>3 DEF Crash, SnapshotInv, Held, Exists, SyncStages, CleanupStages, server
  <1>4. CASE Drift
    <2>1. UNCHANGED <<cr, cache, stage>>
      BY <1>4 DEF Drift, job
    <2>2. QED
      BY <2>1, SnapshotStable
  <1>5. QED
    BY <1>1, <1>2, <1>3, <1>4 DEF Mishaps

\* The collector has no part in the snapshots.
LEMMA CollectorSnapshot == FinalizerInv /\ GarbageCollect => SnapshotInv'
  BY SnapshotStable DEF FinalizerInv, GarbageCollect, job

-----------------------------------------------------------------------------
\* Steps that touch neither the reconcile nor the volumes.
LEMMA JobStable ==
    ASSUME JobInv, UNCHANGED <<stage, todo, pending, volumes>> PROVE JobInv'
  BY DEF JobInv

\* The calls left are those of a plan.
LEMMA StepsPlanned == FinalizerInv /\ Steps => todo' \in Seq(PlannedCalls)
  <1> SUFFICES ASSUME FinalizerInv, Steps PROVE todo' \in Seq(PlannedCalls)
    OBVIOUS
  <1>1. ASSUME todo' = << >> \/ todo' = todo \/ (todo # << >> /\ todo' = Tail(todo))
        PROVE  todo' \in Seq(PlannedCalls)
    <2>1. todo \in Seq(PlannedCalls)
      BY DEF FinalizerInv, JobInv
    <2>2. todo # << >> => Tail(todo) \in Seq(PlannedCalls)
      BY <2>1
    <2>3. << >> \in Seq(PlannedCalls)
      OBVIOUS
    <2>4. QED
      BY <1>1, <2>1, <2>2, <2>3
  <1>2. CASE AddFinalizer \/ ListStale \/ PatchStatus \/ ListReplicas \/ ListVolumes
             \/ PurgeVolume \/ RemoveFinalizer
    BY <1>1, <1>2 DEF AddFinalizer, ListStale, PatchStatus, ListReplicas, ListVolumes,
                      PurgeVolume, RemoveFinalizer, Continue, Requeue
  <1>3. CASE Sync \/ SyncCluster \/ DeleteChild \/ DeleteCluster
    BY <1>1, <1>3 DEF Sync, SyncCluster, DeleteChild, DeleteCluster, NextCall, Continue
  <1>4. snap.spec \in SpecType
    BY ResourceFields DEF FinalizerInv, TypeOK
  <1>5. CASE CheckSpec
    BY <1>1, <1>4, <1>5, PlansKeep DEF CheckSpec, Continue, Requeue
  <1>6. CASE NextMember
    <2>1. PICK m \in pending : todo' = SyncMember(m)
      BY <1>6 DEF NextMember, Continue
    <2>2. m \in Members
      BY <1>6 DEF NextMember, FinalizerInv, TypeOK
    <2>3. QED
      BY <2>1, <2>2, PlansKeep
  <1>7. CASE NextVictim
    <2>1. PICK m \in pending : todo' = DeleteReplicaStack(m)
      BY <1>7 DEF NextVictim, Continue
    <2>2. m \in Replicas
      BY <1>7 DEF NextVictim, FinalizerInv, TypeOK
    <2>3. QED
      BY <2>1, <2>2, PlansKeep
  <1>8. CASE BeginAddons \/ BeginRest
    BY <1>4, <1>8, PlansKeep DEF BeginAddons, BeginRest, Continue
  <1>9. QED
    BY <1>2, <1>3, <1>5, <1>6, <1>7, <1>8 DEF Steps

\* Each step of a reconcile leaves only calls its stage may make.
LEMMA StepsJob == FinalizerInv /\ Steps => JobInv'
  <1> SUFFICES ASSUME FinalizerInv, Steps PROVE JobInv'
    OBVIOUS
  <1> USE DEF FinalizerInv
  <1>1. ASSUME stage' = "idle", todo' = << >> PROVE JobInv'
    BY <1>1 DEF JobInv
  <1>2. ASSUME stage' \in {"check", "invalid", "list"}, todo' = << >> PROVE JobInv'
    BY <1>2 DEF JobInv
  <1>3. ASSUME stage' \in {"sync", "prune", "addons"} PROVE JobInv'
    BY <1>3, StepsPlanned DEF JobInv
  <1>4. ASSUME stage' \in {"drain", "rest"}, todo' \in Seq(DeleteCalls) PROVE JobInv'
    BY <1>4, StepsPlanned DEF JobInv
  <1>5. CASE AddFinalizer
    BY <1>1, <1>2, <1>5 DEF AddFinalizer, Continue, Requeue
  <1>6. CASE CheckSpec
    BY <1>1, <1>2, <1>3, <1>6 DEF CheckSpec, Continue, Requeue
  <1>7. CASE NextMember \/ ListStale \/ BeginAddons
    BY <1>3, <1>7 DEF NextMember, ListStale, BeginAddons, Continue
  <1>8. CASE NextVictim
    <2>1. CASE stage = "prune"
      BY <1>3, <1>8, <2>1 DEF NextVictim, Continue
    <2>2. CASE stage = "drain"
      <3>1. PICK m \in pending : Continue(stage, DeleteReplicaStack(m), pending \ {m})
        BY <1>8 DEF NextVictim
      <3>2. DeleteReplicaStack(m) \in Seq(DeleteCalls)
        BY <2>2, CleanupPlans DEF TypeOK
      <3>3. QED
        BY <1>4, <2>2, <3>1, <3>2 DEF Continue
    <2>3. QED
      BY <1>8, <2>1, <2>2 DEF NextVictim
  <1>9. CASE PatchStatus
    BY <1>1, <1>9 DEF PatchStatus, Requeue
  <1>10. CASE Sync \/ SyncCluster \/ DeleteChild \/ DeleteCluster
    <2>1. todo # << >> /\ stage' = stage /\ todo' = Tail(todo)
      BY <1>10 DEF Sync, SyncCluster, DeleteChild, DeleteCluster, NextCall, Continue
    <2>2. stage \in {"sync", "prune", "addons", "drain", "rest"}
      BY <2>1 DEF JobInv, TypeOK, Stages
    <2>3. CASE stage \in {"drain", "rest"}
      <3>1. todo \in Seq(DeleteCalls)
        BY <2>3 DEF JobInv
      <3>2. Tail(todo) \in Seq(DeleteCalls)
        BY <2>1, <3>1
      <3>3. QED
        BY <1>4, <2>1, <2>3, <3>2
    <2>4. QED
      BY <1>3, <2>1, <2>2, <2>3
  <1>11. CASE ListReplicas
    BY <1>4, <1>11 DEF ListReplicas, Continue
  <1>12. CASE BeginRest
    BY <1>4, <1>12, CleanupPlans DEF BeginRest, Continue
  <1>13. CASE ListVolumes
    BY <1>13 DEF ListVolumes, Continue, server, JobInv
  <1>14. CASE PurgeVolume
    BY <1>14 DEF PurgeVolume, Continue, JobInv
  <1>15. CASE RemoveFinalizer
    BY <1>1, <1>15 DEF RemoveFinalizer, Requeue, JobInv
  <1>16. QED
    BY <1>5, <1>6, <1>7, <1>8, <1>9, <1>10, <1>11, <1>12, <1>13, <1>14, <1>15 DEF Steps

\* Nobody else adds calls or volumes.
LEMMA OthersJob ==
    FinalizerInv /\ (Users \/ Runtime \/ Mishaps \/ GarbageCollect) => JobInv'
  <1> SUFFICES ASSUME FinalizerInv, Users \/ Runtime \/ Mishaps \/ GarbageCollect
               PROVE  JobInv'
    OBVIOUS
  <1> USE DEF FinalizerInv
  <1>1. CASE Users \/ Watch \/ Skip \/ Drift \/ GarbageCollect
    BY <1>1, JobStable DEF Users, DeleteCR, Create, Edit, Watch, Skip, Drift, GarbageCollect,
                           job, server
  <1>2. CASE Start
    BY <1>2 DEF Start, JobInv
  <1>3. CASE Fail \/ RemoveFinalizerUnanswered \/ Crash
    <2>1. stage' = "idle" /\ todo' = << >>
      BY <1>3 DEF Fail, RemoveFinalizerUnanswered, Crash, Requeue
    <2>2. QED
      BY <2>1 DEF JobInv
  <1>4. QED
    BY <1>1, <1>2, <1>3 DEF Runtime, Mishaps

-----------------------------------------------------------------------------
\* An apply is sent only by a sync ...
LEMMA ApplyStage ==
    ASSUME FinalizerInv, NEW objects, NextCall("apply", objects) PROVE stage \in SyncStages
  <1>1. todo # << >> /\ Head(todo).verb = "apply"
    BY DEF NextCall
  <1>2. todo \notin Seq(DeleteCalls)
    <2> SUFFICES ASSUME todo \in Seq(DeleteCalls) PROVE FALSE
      OBVIOUS
    <2>1. Head(todo) \in DeleteCalls
      BY <1>1
    <2>2. QED
      BY <1>1, <2>1 DEF DeleteCalls
  <1>3. QED
    BY <1>1, <1>2 DEF FinalizerInv, JobInv, TypeOK, Stages, SyncStages

\* ... and so only while the resource is held.
LEMMA ApplyHeld ==
    ASSUME FinalizerInv, NEW objects, NextCall("apply", objects) PROVE Held
  BY ApplyStage DEF FinalizerInv, SnapshotInv

\* Every step keeps the volumes under the finalizer.
LEMMA GuardStep == FinalizerInv /\ [Next]_vars => FinalizerGuard'
  <1> SUFFICES ASSUME FinalizerInv, [Next]_vars PROVE FinalizerGuard'
    OBVIOUS
  <1> USE DEF FinalizerInv, FinalizerGuard, Held, Exists
  <1>1. ASSUME volumes' \subseteq volumes, cr' = cr PROVE FinalizerGuard'
    BY <1>1
  <1>2. ASSUME volumes' = volumes, Held => Held' PROVE FinalizerGuard'
    BY <1>2
  <1>3. CASE Users
    <2>1. volumes' = volumes
      BY <1>3 DEF Users, DeleteCR, Create, Edit
    <2>2. Held => Held'
      BY <1>3 DEF Users, DeleteCR, Create, Edit, TypeOK, CRType
    <2>3. QED
      BY <1>2, <2>1, <2>2
  <1>4. CASE Runtime \/ GarbageCollect \/ Fail \/ Crash \/ Drift
    BY <1>1, <1>4 DEF Runtime, Watch, Start, Skip, GarbageCollect, Fail, Crash, Drift, server
  <1>5. CASE AddFinalizer \/ PatchStatus
    <2>1. volumes' = volumes
      BY <1>5 DEF AddFinalizer, PatchStatus
    <2>2. Held => Held'
      BY <1>5 DEF AddFinalizer, PatchStatus, TypeOK, CRType
    <2>3. QED
      BY <1>2, <2>1, <2>2
  <1>6. CASE SyncCluster
    <2>1. Held
      BY <1>6, ApplyHeld DEF SyncCluster
    <2>2. cr' = cr
      BY <1>6 DEF SyncCluster, NextCall
    <2>3. QED
      BY <2>1, <2>2
  <1>7. CASE \/ CheckSpec \/ NextMember \/ ListStale \/ NextVictim \/ BeginAddons \/ Sync
             \/ DeleteChild \/ DeleteCluster \/ ListReplicas \/ BeginRest \/ ListVolumes
             \/ PurgeVolume
    BY <1>1, <1>7 DEF CheckSpec, NextMember, ListStale, NextVictim, BeginAddons, Sync,
                      DeleteChild, DeleteCluster, ListReplicas, BeginRest, ListVolumes,
                      PurgeVolume, NextCall, server
  <1>8. CASE RemoveFinalizer \/ RemoveFinalizerUnanswered
    <2>1. volumes = {}
      BY <1>8 DEF RemoveFinalizer, RemoveFinalizerUnanswered, JobInv
    <2>2. QED
      BY <1>8, <2>1 DEF RemoveFinalizer, RemoveFinalizerUnanswered
  <1>9. CASE UNCHANGED vars
    BY <1>1, <1>9 DEF vars, server
  <1>10. QED
    BY <1>3, <1>4, <1>5, <1>6, <1>7, <1>8, <1>9 DEF Next, Steps, Mishaps

\* FinalizerInv is inductive.
LEMMA FinalizerStep == FinalizerInv /\ [Next]_vars => FinalizerInv'
  <1> SUFFICES ASSUME FinalizerInv, [Next]_vars PROVE FinalizerInv'
    OBVIOUS
  <1>1. TypeOK'
    BY NextTyped DEF FinalizerInv
  <1>2. SnapshotInv'
    BY UsersSnapshot, RuntimeSnapshot, StepsSnapshot, MishapsSnapshot, CollectorSnapshot,
       SnapshotStable DEF Next, vars, server, job, FinalizerInv
  <1>3. JobInv'
    BY StepsJob, OthersJob, JobStable DEF Next, vars, server, job, FinalizerInv
  <1>4. QED
    BY <1>1, <1>2, <1>3, GuardStep DEF FinalizerInv

\* The strengthened invariant holds: snapshots are harmless, the calls left fit
\* the stage, and volumes are guarded.
THEOREM FinalizerInvariant == Spec => []FinalizerInv
  BY FinalizerInit, FinalizerStep, PTL DEF Spec

\* A PersistentVolume of the cluster exists only while the resource does and
\* carries the finalizer: for any specs, any number of replicas, faults and
\* incarnations, no snapshot is stale enough to break it.
THEOREM FinalizerGuarded == Spec => []FinalizerGuard
  BY FinalizerInvariant, PTL DEF FinalizerInv

-----------------------------------------------------------------------------
(* What follows from the invariant.                                        *)

\* An object only appears in a step taken under the finalizer.
LEMMA CreationHeld ==
    FinalizerInv /\ [Next]_vars => \A o \in Children : ~Present(o) /\ Present(o)' => Held
  <1> SUFFICES ASSUME FinalizerInv, [Next]_vars, NEW o \in Children,
                      ~Present(o), Present(o)'
               PROVE  Held
    OBVIOUS
  <1>1. CASE Sync
    BY <1>1, ApplyHeld DEF Sync
  <1>2. CASE DeleteChild \/ Drift \/ GarbageCollect
    <2>1. PICK x \in Children : children' = [children EXCEPT ![x] = Absent]
      BY <1>2, CallTyped DEF DeleteChild, Drift, GarbageCollect, NextCall
    <2>2. ~Present(o)'
      BY <2>1 DEF Present, Absent, FinalizerInv, TypeOK
    <2>3. QED
      BY <2>2
  <1>3. CASE UNCHANGED children
    BY <1>3 DEF Present
  <1>4. QED
    BY <1>1, <1>2, <1>3
    DEF Next, vars, server, Users, DeleteCR, Create, Edit, Runtime, Watch, Start, Skip,
        Steps, AddFinalizer, CheckSpec, NextMember, ListStale, NextVictim, BeginAddons,
        PatchStatus, SyncCluster, DeleteCluster, ListReplicas, BeginRest, ListVolumes,
        PurgeVolume, RemoveFinalizer, Mishaps, Fail, RemoveFinalizerUnanswered, Crash

\* No object is created under a name that is not held: a late sync cannot
\* bring back part of a cluster whose resource is gone.
THEOREM CreatedProtected == Spec => CreatedUnderFinalizer
  <1>1. FinalizerInv /\ [Next]_vars
            => [\A o \in Children : ~Present(o) /\ Present(o)' => Held]_vars
    BY CreationHeld
  <1>2. QED
    BY <1>1, FinalizerInvariant, PTL DEF Spec, CreatedUnderFinalizer

-----------------------------------------------------------------------------
(* Reconciler implements FinalizerProtocol.                                *)

\* The refinement mapping, named for the proof.
Phase == CASE ~Exists(cr) -> "absent"
           [] Exists(cr) /\ cr.deleting -> "dying"
           [] Exists(cr) /\ ~cr.deleting /\ cr.finalizer -> "held"
           [] Exists(cr) /\ ~cr.deleting /\ ~cr.finalizer -> "open"

\* The phase the refinement mapping gives each kind of resource.
LEMMA PhaseCases ==
    /\ ~Exists(cr) => Phase = "absent"
    /\ Exists(cr) /\ cr.deleting => Phase = "dying"
    /\ Exists(cr) /\ ~cr.deleting /\ cr.finalizer => Phase = "held"
    /\ Exists(cr) /\ ~cr.deleting /\ ~cr.finalizer => Phase = "open"
  BY DEF Phase

\* The same for the next state.
LEMMA PhaseCasesNext ==
    /\ ~Exists(cr)' => Phase' = "absent"
    /\ Exists(cr)' /\ cr'.deleting => Phase' = "dying"
    /\ Exists(cr)' /\ ~cr'.deleting /\ cr'.finalizer => Phase' = "held"
    /\ Exists(cr)' /\ ~cr'.deleting /\ ~cr'.finalizer => Phase' = "open"
  BY DEF Phase

\* The abstract next-state relation under the mapping.
AbstractNext ==
    \/ /\ Phase = "absent" /\ Phase' = "open" /\ UNCHANGED volumes
    \/ /\ Phase = "open" /\ Phase' = "held" /\ UNCHANGED volumes
    \/ /\ \/ Phase = "open" /\ Phase' = "absent"
          \/ Phase = "held" /\ Phase' = "dying"
       /\ UNCHANGED volumes
    \/ /\ Phase = "dying" /\ volumes = {} /\ Phase' = "absent" /\ UNCHANGED volumes
    \/ \E m \in Stacks :
        \/ /\ Phase \in {"held", "dying"}
           /\ volumes' = volumes \cup {m}
           /\ UNCHANGED Phase
        \/ /\ Phase = "dying" \/ m \notin {Primary}
           /\ volumes' = volumes \ {m}
           /\ UNCHANGED Phase

\* The abstract step, written with the mapping, is one of the protocol.
LEMMA MappedNext == AbstractNext => Protocol!Next
  BY DEF AbstractNext, Phase, Protocol!Next, Protocol!Create, Protocol!Hold, Protocol!Delete,
         Protocol!Release, Protocol!Grow, Protocol!Shrink

\* The initial state maps to an initial state.
LEMMA RefinementInit == Init => Protocol!Init
  BY NoResource DEF Init, Protocol!Init

\* What leaves the resource and the volumes alone is a stutter.
LEMMA RefinementStutter == UNCHANGED <<cr, volumes>> => UNCHANGED <<Phase, volumes>>
  BY DEF Phase, Exists

\* Users create and delete as the protocol allows, or edit, a stutter.
LEMMA RefinementUsers == FinalizerInv /\ Users => AbstractNext \/ UNCHANGED <<Phase, volumes>>
  <1> SUFFICES ASSUME FinalizerInv, Users PROVE AbstractNext \/ UNCHANGED <<Phase, volumes>>
    OBVIOUS
  <1>1. CASE DeleteCR
    <2>1. CASE cr.finalizer
      <3>1. Exists(cr)' /\ cr'.deleting
        BY <1>1, <2>1 DEF DeleteCR, FinalizerInv, TypeOK, CRType, Exists
      <3>2. Phase = "held" /\ Phase' = "dying"
        BY <1>1, <2>1, <3>1, PhaseCases, PhaseCasesNext DEF DeleteCR
      <3>3. QED
        BY <1>1, <3>2 DEF DeleteCR, AbstractNext
    <2>2. CASE ~cr.finalizer
      <3>1. ~Exists(cr)'
        BY <1>1, <2>2, NoResource DEF DeleteCR, Exists
      <3>2. Phase = "open" /\ Phase' = "absent"
        BY <1>1, <2>2, <3>1, PhaseCases, PhaseCasesNext DEF DeleteCR
      <3>3. QED
        BY <1>1, <3>2 DEF DeleteCR, AbstractNext
    <2>3. QED
      BY <2>1, <2>2
  <1>2. ASSUME NEW spec \in Specs, Create(spec)
        PROVE  AbstractNext
    <2>1. Exists(cr)' /\ ~cr'.deleting /\ ~cr'.finalizer
      BY <1>2 DEF Create, Exists, FinalizerInv, TypeOK
    <2>2. Phase = "absent" /\ Phase' = "open"
      BY <1>2, <2>1, PhaseCases, PhaseCasesNext DEF Create
    <2>3. QED
      BY <1>2, <2>2 DEF Create, AbstractNext
  <1>3. ASSUME NEW spec \in Specs, Edit(spec)
        PROVE  UNCHANGED <<Phase, volumes>>
    <2>1. cr'.uid = cr.uid /\ cr'.finalizer = cr.finalizer /\ cr'.deleting = cr.deleting
      BY <1>3 DEF Edit, FinalizerInv, TypeOK, CRType
    <2>2. QED
      BY <1>3, <2>1 DEF Edit, Phase, Exists
  <1>4. QED
    BY <1>1, <1>2, <1>3 DEF Users

\* The last step of a cleanup releases a resource that is being deleted and
\* has no volume left, or finds nothing to release.
LEMMA RefinementRelease ==
    FinalizerInv /\ (RemoveFinalizer \/ RemoveFinalizerUnanswered)
        => AbstractNext \/ UNCHANGED <<Phase, volumes>>
  <1> SUFFICES ASSUME FinalizerInv, RemoveFinalizer \/ RemoveFinalizerUnanswered
               PROVE  AbstractNext \/ UNCHANGED <<Phase, volumes>>
    OBVIOUS
  <1>1. volumes = {} /\ UNCHANGED volumes /\ (cr.finalizer => cr.deleting)
    BY DEF RemoveFinalizer, RemoveFinalizerUnanswered, FinalizerInv, JobInv, SnapshotInv,
           CleanupStages
  <1>2. CASE Exists(cr) /\ cr.deleting
    <2>1. ~Exists(cr)'
      BY <1>2, NoResource DEF RemoveFinalizer, RemoveFinalizerUnanswered, Exists
    <2>2. QED
      BY <1>1, <1>2, <2>1, PhaseCases, PhaseCasesNext DEF AbstractNext
  <1>3. CASE Exists(cr) /\ ~cr.deleting
    <2>1. cr' = [cr EXCEPT !.finalizer = FALSE] /\ ~cr.finalizer
      BY <1>1, <1>3 DEF RemoveFinalizer, RemoveFinalizerUnanswered
    <2>2. cr'.uid = cr.uid /\ ~cr'.finalizer /\ ~cr'.deleting
      BY <1>3, <2>1 DEF FinalizerInv, TypeOK, CRType
    <2>3. Exists(cr)'
      BY <1>3, <2>2 DEF Exists
    <2>4. Phase = "open" /\ Phase' = "open"
      BY <1>3, <2>1, <2>2, <2>3, PhaseCases, PhaseCasesNext
    <2>5. QED
      BY <1>1, <2>4
  <1>4. CASE ~Exists(cr)
    BY <1>1, <1>4, RefinementStutter DEF RemoveFinalizer, RemoveFinalizerUnanswered
  <1>5. QED
    BY <1>2, <1>3, <1>4

\* Each step of a reconcile maps to a step of the protocol or a stutter.
LEMMA RefinementSteps == FinalizerInv /\ Steps => AbstractNext \/ UNCHANGED <<Phase, volumes>>
  <1> SUFFICES ASSUME FinalizerInv, Steps PROVE AbstractNext \/ UNCHANGED <<Phase, volumes>>
    OBVIOUS
  <1>1. CASE AddFinalizer
    <2>1. CASE Exists(cr)
      <3>1. cr'.uid = cr.uid /\ cr'.finalizer /\ cr'.deleting = cr.deleting
        BY <1>1, <2>1 DEF AddFinalizer, FinalizerInv, TypeOK, CRType
      <3>2. Exists(cr)' /\ UNCHANGED volumes
        BY <1>1, <2>1, <3>1 DEF Exists, AddFinalizer
      <3>3. CASE cr.deleting
        BY <2>1, <3>1, <3>2, <3>3, PhaseCases, PhaseCasesNext
      <3>4. CASE ~cr.deleting
        <4>1. Phase \in {"open", "held"} /\ Phase' = "held"
          BY <2>1, <3>1, <3>2, <3>4, PhaseCases, PhaseCasesNext
        <4>2. QED
          BY <3>2, <4>1 DEF AbstractNext
      <3>5. QED
        BY <3>3, <3>4
    <2>2. CASE ~Exists(cr)
      BY <1>1, <2>2, RefinementStutter DEF AddFinalizer
    <2>3. QED
      BY <2>1, <2>2
  <1>2. CASE PatchStatus
    <2>1. cr'.uid = cr.uid /\ cr'.finalizer = cr.finalizer /\ cr'.deleting = cr.deleting
      BY <1>2 DEF PatchStatus, FinalizerInv, TypeOK, CRType
    <2>2. QED
      BY <1>2, <2>1 DEF PatchStatus, Phase, Exists
  <1>3. CASE SyncCluster
    <2>1. Held /\ Head(todo).object[2] \in Stacks
      BY <1>3, ApplyHeld, CallTyped DEF SyncCluster, Volumes, FinalizerInv
    <2>2. Phase \in {"held", "dying"}
      BY <2>1, PhaseCases DEF Held
    <2>3. UNCHANGED Phase
      BY <1>3 DEF SyncCluster, NextCall, Phase, Exists
    <2>4. QED
      BY <1>3, <2>1, <2>2, <2>3 DEF SyncCluster, AbstractNext
  <1>4. CASE DeleteCluster
    <2>1. Head(todo) \in PlannedCalls /\ Head(todo).object \in Volumes
      BY <1>4, CallTyped DEF DeleteCluster, NextCall, FinalizerInv, JobInv
    <2>2. PICK m \in Stacks : Head(todo).object = PV(m)
      BY <2>1 DEF Volumes, PV
    <2>3. Head(todo) = Delete(PV(m))
      BY <1>4, <2>1, <2>2 DEF DeleteCluster, NextCall, PlannedCalls, Kept, Calls, Delete
    <2>4. m # Primary /\ volumes' = volumes \ {m}
      BY <1>4, <2>1, <2>2, <2>3 DEF DeleteCluster, PlannedCalls, Kept, PV
    <2>5. UNCHANGED Phase
      BY <1>4 DEF DeleteCluster, NextCall, Phase, Exists
    <2>6. QED
      BY <2>4, <2>5 DEF AbstractNext
  <1>5. CASE PurgeVolume
    <2>1. PICK m \in pending : volumes' = volumes \ {m}
      BY <1>5 DEF PurgeVolume
    <2>2. m \in Stacks /\ UNCHANGED Phase
      BY <1>5 DEF PurgeVolume, FinalizerInv, TypeOK, Phase, Exists
    <2>3. CASE volumes = {}
      BY <2>1, <2>2, <2>3
    <2>4. CASE volumes # {}
      <3>1. Exists(cr) /\ cr.deleting
        BY <1>5, <2>4 DEF PurgeVolume, FinalizerInv, FinalizerGuard, Held, SnapshotInv,
                          CleanupStages
      <3>2. QED
        BY <2>1, <2>2, <3>1, PhaseCases DEF AbstractNext
    <2>5. QED
      BY <2>3, <2>4
  <1>6. CASE RemoveFinalizer
    BY <1>6, RefinementRelease
  <1>7. CASE \/ CheckSpec \/ NextMember \/ ListStale \/ NextVictim \/ BeginAddons \/ Sync
             \/ DeleteChild \/ ListReplicas \/ BeginRest \/ ListVolumes
    BY <1>7, RefinementStutter
    DEF CheckSpec, NextMember, ListStale, NextVictim, BeginAddons, Sync, DeleteChild,
        ListReplicas, BeginRest, ListVolumes, NextCall, server
  <1>8. QED
    BY <1>1, <1>2, <1>3, <1>4, <1>5, <1>6, <1>7 DEF Steps

\* Every step does.
LEMMA RefinementStep == FinalizerInv /\ [Next]_vars => [Protocol!Next]_(Protocol!vars)
  <1> SUFFICES ASSUME FinalizerInv, [Next]_vars
               PROVE  Protocol!Next \/ UNCHANGED Protocol!vars
    OBVIOUS
  <1>1. AbstractNext \/ UNCHANGED <<Phase, volumes>>
    <2>1. CASE Runtime \/ Fail \/ Crash \/ Drift \/ GarbageCollect \/ UNCHANGED vars
      BY <2>1, RefinementStutter
      DEF Runtime, Watch, Start, Skip, Fail, Crash, Drift, GarbageCollect, vars, server
    <2>2. QED
      BY <2>1, RefinementUsers, RefinementSteps, RefinementRelease DEF Next, Mishaps
  <1>2. UNCHANGED <<Phase, volumes>> => UNCHANGED Protocol!vars
    BY DEF Phase, Protocol!vars
  <1>3. QED
    BY <1>1, <1>2, MappedNext

\* The operator implements the finalizer protocol for any specs, replica
\* counts and faults: a resource is released only when it is being deleted and
\* no volume is left, and nothing but a deletion destroys the primary's volume.
THEOREM ImplementsFinalizerProtocol == Spec => FinalizerProtocolHolds
  BY RefinementInit, RefinementStep, FinalizerInvariant, PTL
  DEF Spec, FinalizerProtocolHolds, Protocol!Spec
=============================================================================
