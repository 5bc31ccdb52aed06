---------------------------- MODULE Storage_proofs ----------------------------
(***************************************************************************)
(* Proofs that, in Reconciler, no workload of the current resource stands  *)
(* without its storage or mounts a ConfigMap that is not there and that no *)
(* pass takes away what its spec asks for, for every value of the          *)
(* constants.                                                              *)
(*                                                                         *)
(* First what the operator can have seen (UidInv); then the plans that are *)
(* left in todo and their effect on one stack (StorageInv); then the       *)
(* ConfigMap (ConfigInv); then the deletions a sync has left (KeptInv).    *)
(***************************************************************************)
EXTENDS Reconciler_proofs

-----------------------------------------------------------------------------
(* Incarnations.                                                           *)

\* The counters and uids are numbers, in this state and in the next.
LEMMA UidTypes ==
    ASSUME TypeOK
    PROVE  /\ cr.uid \in Nat /\ cache.uid \in Nat /\ snap.uid \in Nat /\ births \in Nat
           /\ \A o \in Children : children[o].owner \in Nat
  BY ResourceFields, ReconcilerAssumption DEF TypeOK, Entry

\* No incarnation has come and nothing belongs to one.
LEMMA UidInit == Init => UidInv
  BY DEF Init, UidInv, NoCR, Absent, Exists

\* Where the objects stay, UidInv is about the uids only.
LEMMA UidStable ==
    ASSUME FinalizerInv, UidInv, TypeOK', UNCHANGED <<children, births>>,
           cr'.uid \in {0, cr.uid},
           cache'.uid \in {cache.uid, cr.uid},
           stage' = "idle" => snap'.uid \in {0, snap.uid},
           stage' # "idle" => \/ stage # "idle" /\ snap' = snap
                              \/ Exists(cache) /\ snap' = cache /\ cache' = cache
    PROVE  UidInv'
  <1> USE UidTypes DEF FinalizerInv, UidInv, Exists
  <1>1. cr'.uid \in {0, births'}
    OBVIOUS
  <1>2. cache'.uid <= births' /\ snap'.uid <= births'
    OBVIOUS
  <1>3. ASSUME NEW o \in Children
        PROVE  /\ children'[o].owner <= births'
               /\ children'[o].owner = 0 => children'[o] = Absent
               /\ Exists(cache)' => children'[o].owner <= cache'.uid
               /\ stage' # "idle" => children'[o].owner <= snap'.uid
    OBVIOUS
  <1>4. stage' # "idle" => Exists(snap)' /\ (Exists(cache)' => snap'.uid <= cache'.uid)
    OBVIOUS
  <1>5. QED
    BY <1>1, <1>2, <1>3, <1>4

\* Where the objects change, one is gone or belongs to what the operator saw.
LEMMA UidWritten ==
    ASSUME FinalizerInv, UidInv, UNCHANGED <<cr, cache, births, stage, snap>>,
           NEW o \in Children,
           \/ children' = [children EXCEPT ![o] = Absent]
           \/ /\ children' = [children EXCEPT ![o] = Applied(o)]
              /\ stage # "idle"
    PROVE  UidInv'
  <1> USE UidTypes DEF FinalizerInv, UidInv, Exists
  <1>1. ASSUME NEW x \in Children
        PROVE  \/ children'[x] = children[x]
               \/ children'[x] = Absent
               \/ children'[x].owner = snap.uid /\ stage # "idle"
    BY DEF TypeOK, Applied
  <1>2. Absent.owner = 0
    BY DEF Absent
  <1>3. ASSUME NEW x \in Children
        PROVE  /\ children'[x].owner <= births
               /\ children'[x].owner = 0 => children'[x] = Absent
               /\ Exists(cache) => children'[x].owner <= cache.uid
               /\ stage # "idle" => children'[x].owner <= snap.uid
    BY <1>1, <1>2
  <1>4. QED
    BY <1>3

\* Users and the runtime.
LEMMA UidUsers == FinalizerInv /\ UidInv /\ TypeOK' /\ (Users \/ Runtime) => UidInv'
  <1> SUFFICES ASSUME FinalizerInv, UidInv, TypeOK', Users \/ Runtime PROVE UidInv'
    OBVIOUS
  <1>1. CASE DeleteCR
    <2>1. cr'.uid \in {0, cr.uid}
      BY <1>1 DEF DeleteCR, NoCR, FinalizerInv, TypeOK, CRType
    <2>2. QED
      BY <1>1, <2>1, UidStable DEF DeleteCR, job, budget
  <1>2. ASSUME NEW spec \in Specs, Create(spec) PROVE UidInv'
    <2>1. /\ cr'.uid = births + 1 /\ births' = births + 1
          /\ UNCHANGED <<children, cache, stage, snap>>
      BY <1>2 DEF Create, job
    <2>2. QED
      BY <2>1, UidTypes DEF FinalizerInv, UidInv, Exists
  <1>3. ASSUME NEW spec \in Specs, Edit(spec) PROVE UidInv'
    <2>1. cr'.uid = cr.uid
      BY <1>3 DEF Edit, FinalizerInv, TypeOK, CRType
    <2>2. QED
      BY <1>3, <2>1, UidStable DEF Edit, job
  <1>4. CASE Watch
    BY <1>4, UidStable DEF Watch, server, job, budget
  <1>5. CASE Start
    BY <1>5, UidStable DEF Start, server, budget
  <1>6. CASE Skip
    BY <1>6, UidStable DEF Skip, server, job, budget
  <1>7. QED
    BY <1>1, <1>2, <1>3, <1>4, <1>5, <1>6 DEF Users, Runtime

\* The steps of a reconcile.
LEMMA UidSteps == FinalizerInv /\ UidInv /\ TypeOK' /\ Steps => UidInv'
  <1> SUFFICES ASSUME FinalizerInv, UidInv, TypeOK', Steps PROVE UidInv'
    OBVIOUS
  <1>1. CASE AddFinalizer \/ PatchStatus
    <2>1. cr'.uid = cr.uid
      BY <1>1 DEF AddFinalizer, PatchStatus, FinalizerInv, TypeOK, CRType
    <2>2. UNCHANGED <<children, cache, births>>
      BY <1>1 DEF AddFinalizer, PatchStatus, budget
    <2>3. (stage # "idle" /\ snap' = snap) \/ (stage' = "idle" /\ snap' = NoCR)
      BY <1>1 DEF AddFinalizer, PatchStatus, Continue, Requeue
    <2>4. QED
      BY <2>1, <2>2, <2>3, UidStable DEF NoCR
  <1>2. CASE \/ CheckSpec \/ NextMember \/ ListStale \/ NextVictim \/ BeginAddons
             \/ ListReplicas \/ BeginRest \/ ListVolumes
    <2>1. UNCHANGED <<cr, children, cache, births>>
      BY <1>2 DEF CheckSpec, NextMember, ListStale, NextVictim, BeginAddons, ListReplicas,
                  BeginRest, ListVolumes, server, budget
    <2>2. (stage # "idle" /\ snap' = snap) \/ (stage' = "idle" /\ snap' = NoCR)
      BY <1>2 DEF CheckSpec, NextMember, ListStale, NextVictim, BeginAddons, ListReplicas,
                  BeginRest, ListVolumes, Continue, Requeue
    <2>3. QED
      BY <2>1, <2>2, UidStable DEF NoCR
  <1>3. CASE SyncCluster \/ DeleteCluster \/ PurgeVolume
    <2>1. UNCHANGED <<cr, children, cache, births, stage, snap>>
      BY <1>3 DEF SyncCluster, DeleteCluster, PurgeVolume, NextCall, Continue, budget
    <2>2. QED
      BY <2>1, UidStable
  <1>4. CASE Sync \/ DeleteChild
    <2>1. UNCHANGED <<cr, cache, births, stage, snap>> /\ stage # "idle"
      BY <1>4 DEF Sync, DeleteChild, NextCall, Continue, budget, FinalizerInv, JobInv
    <2>2. PICK o \in Children : \/ children' = [children EXCEPT ![o] = Absent]
                                \/ children' = [children EXCEPT ![o] = Applied(o)]
      BY <1>4 DEF Sync, DeleteChild, NextCall
    <2>3. QED
      BY <2>1, <2>2, UidWritten
  <1>5. CASE RemoveFinalizer
    <2>1. cr'.uid \in {0, cr.uid}
      BY <1>5 DEF RemoveFinalizer, Requeue, NoCR, FinalizerInv, TypeOK, CRType
    <2>2. UNCHANGED <<children, cache, births>> /\ stage' = "idle" /\ snap' = NoCR
      BY <1>5 DEF RemoveFinalizer, Requeue, budget
    <2>3. QED
      BY <2>1, <2>2, UidStable DEF NoCR
  <1>6. QED
    BY <1>1, <1>2, <1>3, <1>4, <1>5 DEF Steps

\* Failures and the collector.
LEMMA UidMishaps == FinalizerInv /\ UidInv /\ TypeOK' /\ (Mishaps \/ GarbageCollect) => UidInv'
  <1> SUFFICES ASSUME FinalizerInv, UidInv, TypeOK', Mishaps \/ GarbageCollect PROVE UidInv'
    OBVIOUS
  <1>1. CASE Fail \/ RemoveFinalizerUnanswered \/ Crash
    <2>1. cr'.uid \in {0, cr.uid}
      BY <1>1 DEF Fail, RemoveFinalizerUnanswered, Crash, server, NoCR, FinalizerInv, TypeOK, CRType
    <2>2. /\ UNCHANGED <<children, births>> /\ stage' = "idle" /\ snap' = NoCR
          /\ cache' \in {cache, cr}
      BY <1>1 DEF Fail, RemoveFinalizerUnanswered, Crash, Requeue, server
    <2>3. QED
      BY <2>1, <2>2, UidStable DEF NoCR
  <1>2. CASE Drift \/ GarbageCollect
    <2>1. UNCHANGED <<cr, cache, births, stage, snap>>
      BY <1>2 DEF Drift, GarbageCollect, job, budget
    <2>2. PICK o \in Children : children' = [children EXCEPT ![o] = Absent]
      BY <1>2 DEF Drift, GarbageCollect
    <2>3. QED
      BY <2>1, <2>2, UidWritten
  <1>3. QED
    BY <1>1, <1>2 DEF Mishaps

\* UidInv is inductive, given FinalizerInv.
LEMMA UidStep == FinalizerInv /\ UidInv /\ [Next]_vars => UidInv'
  <1> SUFFICES ASSUME FinalizerInv, UidInv, [Next]_vars PROVE UidInv'
    OBVIOUS
  <1>1. TypeOK'
    BY FinalizerStep DEF FinalizerInv
  <1>2. CASE UNCHANGED vars
    BY <1>2 DEF vars, server, job, budget, UidInv, Exists
  <1>3. QED
    BY <1>1, <1>2, UidUsers, UidSteps, UidMishaps DEF Next

-----------------------------------------------------------------------------
(* Storage beneath workloads.                                              *)

\* What a stack consists of.
LEMMA StackObjects ==
    ASSUME NEW m \in Stacks
    PROVE  /\ Deployment(m) \in Children /\ PVC(m) \in Children
           /\ Deployment(m) \notin Volumes /\ PVC(m) \notin Volumes
           /\ PV(m) \in Volumes /\ PV(m) \notin Children
  <1>1. Deployment(m) \in Children /\ PVC(m) \in Children /\ PV(m) \in Volumes
    BY ObjectTypes DEF Deployment, PVC
  <1>2. \A o \in Volumes : o[1] = "PV"
    BY DEF Volumes
  <1>3. \A o \in Children : o[1] # "PV"
    BY DEF Children
  <1>4. QED
    BY <1>1, <1>2, <1>3 DEF Deployment, PVC, PV

\* A call is an apply or a deletion of its object.
LEMMA CallIs ==
    ASSUME TypeOK, NEW verb \in {"apply", "delete"}, NEW objects, NextCall(verb, objects)
    PROVE  /\ todo \in Seq(Calls) /\ todo # << >>
           /\ Head(todo) = IF verb = "apply" THEN Apply(Head(todo).object)
                                             ELSE Delete(Head(todo).object)
           /\ UNCHANGED <<cr, stage, snap, pending>> /\ todo' = Tail(todo)
  <1>1. Head(todo) \in Calls /\ Head(todo).verb = verb
    BY CallTyped DEF NextCall
  <1>2. Head(todo) = [verb |-> verb, object |-> Head(todo).object]
    BY <1>1 DEF Calls
  <1>3. QED
    BY <1>2 DEF TypeOK, NextCall, Continue, Apply, Delete

\* The workloads of the current resource are at most what they were.
Fewer == \A m \in Stacks : Live(m)' => Live(m) /\ cr'.uid = cr.uid

\* Where the objects stay and no new resource takes the name, that is so.
LEMMA FewerLive ==
    ASSUME UNCHANGED children, cr'.uid \in {0, cr.uid} PROVE Fewer
  BY DEF Fewer, Live, Present, Owned

\* A new plan is made while the objects stay.
LEMMA StoragePlanned ==
    ASSUME StorageInv, UNCHANGED <<children, volumes>>, Fewer, Layered(todo')
    PROVE  StorageBeneathWorkload' /\ \A m \in Stacks : StackInv(m)'
  <1>1. StorageBeneathWorkload'
    BY DEF StorageInv, StorageBeneathWorkload, Fewer, Owned
  <1>2. ASSUME NEW m \in Stacks PROVE StackInv(m)'
    BY DEF Layered, StackInv
  <1>3. QED
    BY <1>1, <1>2

\* The empty plan is one.
LEMMA NoPlan == Layered(<< >>)
  BY EmptyPlan DEF Layered

\* The reconcile and the objects are left alone.
LEMMA StorageStable ==
    ASSUME StorageInv, UNCHANGED <<children, volumes, stage, todo, pending, snap>>, Fewer,
           Current' => Current /\ cr'.uid = cr.uid
    PROVE  /\ StorageBeneathWorkload'
           /\ \A m \in Stacks : StackInv(m)'
           /\ CleanupInv'
  <1>1. StorageBeneathWorkload'
    BY DEF StorageInv, StorageBeneathWorkload, Fewer, Owned
  <1>2. ASSUME NEW m \in Stacks PROVE StackInv(m)'
    BY DEF StorageInv, StackInv, Fewer, Owned
  <1>3. CleanupInv'
    <2>1. Replicas \subseteq Stacks
      BY DEF Stacks, Members
    <2>2. QED
      BY <2>1 DEF StorageInv, CleanupInv, Fewer
  <1>4. QED
    BY <1>1, <1>2, <1>3

\* An apply of a namespaced object.
LEMMA StorageSync ==
    StorageInv /\ Sync => /\ StorageBeneathWorkload'
                          /\ \A m \in Stacks : StackInv(m)'
                          /\ CleanupInv'
  <1> SUFFICES ASSUME StorageInv, Sync
               PROVE  StorageBeneathWorkload' /\ (\A m \in Stacks : StackInv(m)') /\ CleanupInv'
    OBVIOUS
  <1> DEFINE o == Head(todo).object
  <1>1. TypeOK /\ FinalizerInv /\ UidInv /\ NextCall("apply", Children)
    BY DEF StorageInv, FinalizerInv, Sync
  <1>2. /\ todo \in Seq(Calls) /\ todo # << >> /\ Head(todo) = Apply(o)
        /\ UNCHANGED <<cr, stage, snap, pending, volumes>> /\ todo' = Tail(todo)
    BY <1>1, CallIs DEF Sync
  <1>3. stage \in SyncStages
    BY <1>1, ApplyStage
  <1>4. o \in Children /\ children' = [children EXCEPT ![o] = Applied(o)]
    BY DEF Sync, NextCall
  <1> HIDE DEF o
  <1>5. /\ children'[o].owner = snap.uid
        /\ \A x \in Children : x # o => children'[x] = children[x]
    BY <1>1, <1>4 DEF TypeOK, Applied
  <1>6. \A x \in Children : Present(x) /\ Owned(x) => snap.uid = cr.uid
    BY <1>1, <1>3, UidTypes DEF UidInv, Present, Owned, SyncStages
  <1>7. ASSUME NEW m \in Stacks
        PROVE  (Live(m)' => Owned(PVC(m))' /\ m \in volumes') /\ StackInv(m)'
    <2> DEFINE up == Apply(Deployment(m))  down == Delete(Deployment(m))
    <2>1. /\ StackInv(m) /\ (Live(m) => Owned(PVC(m)) /\ m \in volumes)
          /\ Deployment(m) \in Children /\ PVC(m) \in Children
          /\ Deployment(m) # PVC(m) /\ o # PV(m)
      BY <1>4, StackObjects, ObjectsDiffer DEF StorageInv, StorageBeneathWorkload
    <2>2. /\ Apply(o) # down /\ Apply(o) # Delete(PVC(m)) /\ Apply(o) # Delete(PV(m))
          /\ Apply(o) # Apply(PV(m))
          /\ o # PVC(m) => Apply(o) # Apply(PVC(m))
          /\ o # Deployment(m) => Apply(o) # up
          /\ o = Deployment(m) => Apply(o) = up
      BY <2>1, CallsDiffer
    <2> HIDE DEF up, down
    <2>3. /\ Behind(up, Apply(PVC(m)), todo) \/ (Current => Owned(PVC(m)))
          /\ Behind(up, Apply(PV(m)), todo) \/ m \in volumes
          /\ Left(up, todo) => ~Left(Delete(PVC(m)), todo) /\ ~Left(Delete(PV(m)), todo)
          /\ Behind(Delete(PVC(m)), down, todo) \/ ~Live(m)
          /\ Behind(Delete(PV(m)), down, todo) \/ ~Live(m)
      BY <2>1 DEF StackInv, up, down
    <2>4. Current' = Current
      BY <1>2 DEF Current, Exists
    <2>5. Live(m)' /\ o # Deployment(m) => Live(m)
      BY <1>2, <1>5, <2>1 DEF Live, Present, Owned
    <2>6. Live(m)' /\ o = Deployment(m) => Current
      BY <1>2, <1>5, <2>1 DEF Live, Present, Owned, Current, Exists
    <2>7. (Current => Owned(PVC(m))) => (Current => Owned(PVC(m))')
      BY <1>2, <1>5, <2>1 DEF Owned, Current
    <2>8. o = PVC(m) => (Current => Owned(PVC(m))')
      BY <1>2, <1>5 DEF Owned, Current
    <2>9. ASSUME Live(m)' PROVE Owned(PVC(m))' /\ m \in volumes'
      <3>1. CASE o = Deployment(m)
        <4>1. ~Behind(up, Apply(PVC(m)), todo) /\ ~Behind(up, Apply(PV(m)), todo)
          BY <1>2, <2>2, <3>1, BehindTail
        <4>2. QED
          BY <1>2, <2>3, <2>6, <2>7, <2>9, <3>1, <4>1
      <3>2. CASE o # Deployment(m)
        <4>1. Live(m) /\ Owned(PVC(m)) /\ m \in volumes
          BY <2>1, <2>5, <2>9, <3>2
        <4>2. Current
          BY <1>6, <2>1, <4>1 DEF Live, Present, Owned, Current, Exists
        <4>3. QED
          BY <1>2, <2>7, <4>1, <4>2
      <3>3. QED
        BY <3>1, <3>2
    <2>10. Behind(up, Apply(PVC(m)), todo') \/ (Current' => Owned(PVC(m))')
      <3>1. CASE o = PVC(m)
        BY <2>4, <2>8, <3>1
      <3>2. CASE o # PVC(m)
        BY <1>2, <2>2, <2>3, <2>4, <2>7, <3>2, BehindTail
      <3>3. QED
        BY <3>1, <3>2
    <2>11. Behind(up, Apply(PV(m)), todo') \/ m \in volumes'
      BY <1>2, <2>2, <2>3, BehindTail
    <2>12. /\ Left(up, todo') => Left(up, todo)
           /\ Left(Delete(PVC(m)), todo') => Left(Delete(PVC(m)), todo)
           /\ Left(Delete(PV(m)), todo') => Left(Delete(PV(m)), todo)
      BY <1>2, LeftTail
    <2>13. /\ Behind(Delete(PVC(m)), down, todo') \/ ~Live(m)'
           /\ Behind(Delete(PV(m)), down, todo') \/ ~Live(m)'
      <3>1. CASE o = Deployment(m)
        <4>1. Left(up, todo)
          <5>1. Head(todo) = todo[1] /\ 1 \in 1..Len(todo)
            BY <1>2, LenProperties, EmptySeq
          <5>2. QED
            BY <1>2, <2>2, <3>1, <5>1 DEF Left
        <4>2. ~Left(Delete(PVC(m)), todo') /\ ~Left(Delete(PV(m)), todo')
          BY <2>3, <2>12, <4>1
        <4>3. QED
          BY <4>2, NotLeftBehind
      <3>2. CASE o # Deployment(m)
        BY <1>2, <2>2, <2>3, <2>5, <3>2, BehindTail
      <3>3. QED
        BY <3>1, <3>2
    <2>14. StackInv(m)'
      BY <2>3, <2>10, <2>11, <2>12, <2>13 DEF StackInv, up, down
    <2>15. QED
      BY <2>9, <2>14
  <1>8. CleanupInv'
    BY <1>2, <1>3 DEF CleanupInv, SyncStages
  <1>9. StorageBeneathWorkload'
    BY <1>7 DEF StorageBeneathWorkload
  <1>10. QED
    BY <1>7, <1>8, <1>9

\* An apply of a volume.
LEMMA StorageSyncCluster ==
    StorageInv /\ SyncCluster => /\ StorageBeneathWorkload'
                                 /\ \A m \in Stacks : StackInv(m)'
                                 /\ CleanupInv'
  <1> SUFFICES ASSUME StorageInv, SyncCluster
               PROVE  StorageBeneathWorkload' /\ (\A m \in Stacks : StackInv(m)') /\ CleanupInv'
    OBVIOUS
  <1> DEFINE o == Head(todo).object
  <1>1. FinalizerInv /\ TypeOK /\ NextCall("apply", Volumes)
    BY DEF StorageInv, FinalizerInv, SyncCluster
  <1>2. /\ todo \in Seq(Calls) /\ todo # << >> /\ Head(todo) = Apply(o)
        /\ UNCHANGED <<cr, stage, snap, pending, children>> /\ todo' = Tail(todo)
    BY <1>1, CallIs DEF SyncCluster
  <1>3. stage \in SyncStages
    BY <1>1, ApplyStage
  <1>4. /\ o \in Volumes /\ volumes \subseteq volumes'
        /\ \A m \in Stacks : o = PV(m) => m \in volumes'
    BY DEF SyncCluster, NextCall, PV
  <1> HIDE DEF o
  <1>5. ASSUME NEW m \in Stacks
        PROVE  (Live(m)' => Owned(PVC(m))' /\ m \in volumes') /\ StackInv(m)'
    <2> DEFINE up == Apply(Deployment(m))  down == Delete(Deployment(m))
    <2>1. StackInv(m) /\ (Live(m) => Owned(PVC(m)) /\ m \in volumes)
      BY DEF StorageInv, StorageBeneathWorkload
    <2>2. /\ Apply(o) # down /\ Apply(o) # Delete(PVC(m)) /\ Apply(o) # Delete(PV(m))
          /\ Apply(o) # Apply(PVC(m)) /\ Apply(o) # up
          /\ o # PV(m) => Apply(o) # Apply(PV(m))
      BY <1>4, StackObjects, CallsDiffer
    <2> HIDE DEF up, down
    <2>3. /\ Behind(up, Apply(PVC(m)), todo) \/ (Current => Owned(PVC(m)))
          /\ Behind(up, Apply(PV(m)), todo) \/ m \in volumes
          /\ Left(up, todo) => ~Left(Delete(PVC(m)), todo) /\ ~Left(Delete(PV(m)), todo)
          /\ Behind(Delete(PVC(m)), down, todo) \/ ~Live(m)
          /\ Behind(Delete(PV(m)), down, todo) \/ ~Live(m)
      BY <2>1 DEF StackInv, up, down
    <2>4. /\ Current' = Current /\ Live(m)' = Live(m) /\ Owned(PVC(m))' = Owned(PVC(m))
      BY <1>2 DEF Current, Exists, Live, Present, Owned
    <2>5. Behind(up, Apply(PVC(m)), todo') \/ (Current' => Owned(PVC(m))')
      BY <1>2, <2>2, <2>3, <2>4, BehindTail
    <2>6. Behind(up, Apply(PV(m)), todo') \/ m \in volumes'
      BY <1>2, <1>4, <2>2, <2>3, BehindTail
    <2>7. Left(up, todo') => ~Left(Delete(PVC(m)), todo') /\ ~Left(Delete(PV(m)), todo')
      BY <1>2, <2>3, LeftTail
    <2>8. /\ Behind(Delete(PVC(m)), down, todo') \/ ~Live(m)'
          /\ Behind(Delete(PV(m)), down, todo') \/ ~Live(m)'
      BY <1>2, <2>2, <2>3, <2>4, BehindTail
    <2>9. StackInv(m)'
      BY <2>5, <2>6, <2>7, <2>8 DEF StackInv, up, down
    <2>10. QED
      BY <1>4, <2>1, <2>4, <2>9
  <1>6. CleanupInv'
    BY <1>2, <1>3 DEF CleanupInv, SyncStages
  <1>7. QED
    BY <1>5, <1>6 DEF StorageBeneathWorkload

\* A deletion takes a call that CleanupInv may count on only with its Deployment.
LEMMA CleanupDeletes ==
    ASSUME StorageInv, todo # << >>, UNCHANGED <<stage, pending>>, todo' = Tail(todo),
           \A m \in Stacks : Live(m)' => Live(m) /\ Head(todo) # Delete(Deployment(m))
    PROVE  CleanupInv'
  <1>1. todo \in Seq(Calls) /\ stage # "purge"
    BY DEF StorageInv, FinalizerInv, TypeOK, JobInv
  <1>2. ASSUME NEW m \in Stacks, Live(m)', Left(Delete(Deployment(m)), todo)
        PROVE  Left(Delete(Deployment(m)), todo')
    BY <1>1, <1>2, LeftTail
  <1>3. Replicas \subseteq Stacks
    BY DEF Stacks, Members
  <1>4. QED
    BY <1>1, <1>2, <1>3 DEF StorageInv, CleanupInv

\* A deletion of a namespaced object.
LEMMA StorageDeleteChild ==
    StorageInv /\ DeleteChild => /\ StorageBeneathWorkload'
                                 /\ \A m \in Stacks : StackInv(m)'
                                 /\ CleanupInv'
  <1> SUFFICES ASSUME StorageInv, DeleteChild
               PROVE  StorageBeneathWorkload' /\ (\A m \in Stacks : StackInv(m)') /\ CleanupInv'
    OBVIOUS
  <1> DEFINE o == Head(todo).object
  <1>1. TypeOK /\ NextCall("delete", Children)
    BY DEF StorageInv, FinalizerInv, DeleteChild
  <1>2. /\ todo \in Seq(Calls) /\ todo # << >> /\ Head(todo) = Delete(o)
        /\ UNCHANGED <<cr, stage, snap, pending, volumes>> /\ todo' = Tail(todo)
    BY <1>1, CallIs DEF DeleteChild
  <1>3. o \in Children /\ children' = [children EXCEPT ![o] = Absent]
    BY DEF DeleteChild, NextCall
  <1> HIDE DEF o
  <1>4. /\ children'[o].owner = 0
        /\ \A x \in Children : x # o => children'[x] = children[x]
    BY <1>1, <1>3 DEF TypeOK, Absent
  <1>5. Left(Delete(o), todo)
    <2>1. Head(todo) = todo[1] /\ 1 \in 1..Len(todo)
      BY <1>2, LenProperties, EmptySeq
    <2>2. QED
      BY <1>2, <2>1 DEF Left
  <1>6. ASSUME NEW m \in Stacks
        PROVE  /\ Live(m)' => Owned(PVC(m))' /\ m \in volumes'
               /\ StackInv(m)'
               /\ Live(m)' => Live(m) /\ Head(todo) # Delete(Deployment(m))
    <2> DEFINE up == Apply(Deployment(m))  down == Delete(Deployment(m))
    <2>1. /\ StackInv(m) /\ (Live(m) => Owned(PVC(m)) /\ m \in volumes)
          /\ Deployment(m) \in Children /\ PVC(m) \in Children
          /\ Deployment(m) # PVC(m) /\ o # PV(m)
      BY <1>3, StackObjects, ObjectsDiffer DEF StorageInv, StorageBeneathWorkload
    <2>2. /\ Delete(o) # up /\ Delete(o) # Apply(PVC(m)) /\ Delete(o) # Apply(PV(m))
          /\ Delete(o) # Delete(PV(m))
          /\ o # Deployment(m) => Delete(o) # down
          /\ o = PVC(m) => Delete(o) = Delete(PVC(m))
      BY <2>1, CallsDiffer
    <2> HIDE DEF up, down
    <2>3. /\ Behind(up, Apply(PVC(m)), todo) \/ (Current => Owned(PVC(m)))
          /\ Behind(up, Apply(PV(m)), todo) \/ m \in volumes
          /\ Left(up, todo) => ~Left(Delete(PVC(m)), todo) /\ ~Left(Delete(PV(m)), todo)
          /\ Behind(Delete(PVC(m)), down, todo) \/ ~Live(m)
          /\ Behind(Delete(PV(m)), down, todo) \/ ~Live(m)
      BY <2>1 DEF StackInv, up, down
    <2>4. Live(m)' => Live(m) /\ o # Deployment(m)
      BY <1>2, <1>4, <2>1 DEF Live, Present, Owned
    <2>5. Current' = Current /\ (o # PVC(m) => Owned(PVC(m))' = Owned(PVC(m)))
      BY <1>2, <1>4, <2>1 DEF Current, Exists, Owned
    <2>6. o = PVC(m) => ~Live(m)
      BY <1>2, <2>2, <2>3, BehindTail
    <2>7. Behind(up, Apply(PVC(m)), todo') \/ (Current' => Owned(PVC(m))')
      <3>1. CASE o = PVC(m)
        <4>1. ~Left(up, todo')
          BY <1>2, <1>5, <2>3, <3>1, LeftTail
        <4>2. QED
          BY <4>1, NotLeftBehind
      <3>2. CASE o # PVC(m)
        BY <1>2, <2>2, <2>3, <2>5, <3>2, BehindTail
      <3>3. QED
        BY <3>1, <3>2
    <2>8. Behind(up, Apply(PV(m)), todo') \/ m \in volumes'
      BY <1>2, <2>2, <2>3, BehindTail
    <2>9. Left(up, todo') => ~Left(Delete(PVC(m)), todo') /\ ~Left(Delete(PV(m)), todo')
      BY <1>2, <2>3, LeftTail
    <2>10. /\ Behind(Delete(PVC(m)), down, todo') \/ ~Live(m)'
           /\ Behind(Delete(PV(m)), down, todo') \/ ~Live(m)'
      BY <1>2, <2>2, <2>3, <2>4, BehindTail
    <2>11. StackInv(m)'
      BY <2>7, <2>8, <2>9, <2>10 DEF StackInv, up, down
    <2>12. Live(m)' => Owned(PVC(m))' /\ m \in volumes'
      BY <1>2, <2>1, <2>4, <2>5, <2>6
    <2>13. QED
      BY <1>2, <2>2, <2>4, <2>11, <2>12 DEF down
  <1>7. CleanupInv'
    BY <1>2, <1>6, CleanupDeletes
  <1>8. QED
    BY <1>6, <1>7 DEF StorageBeneathWorkload

\* A deletion of a volume.
LEMMA StorageDeleteCluster ==
    StorageInv /\ DeleteCluster => /\ StorageBeneathWorkload'
                                   /\ \A m \in Stacks : StackInv(m)'
                                   /\ CleanupInv'
  <1> SUFFICES ASSUME StorageInv, DeleteCluster
               PROVE  StorageBeneathWorkload' /\ (\A m \in Stacks : StackInv(m)') /\ CleanupInv'
    OBVIOUS
  <1> DEFINE o == Head(todo).object
  <1>1. TypeOK /\ NextCall("delete", Volumes)
    BY DEF StorageInv, FinalizerInv, DeleteCluster
  <1>2. /\ todo \in Seq(Calls) /\ todo # << >> /\ Head(todo) = Delete(o)
        /\ UNCHANGED <<cr, stage, snap, pending, children>> /\ todo' = Tail(todo)
    BY <1>1, CallIs DEF DeleteCluster
  <1>3. /\ o \in Volumes
        /\ \A m \in volumes : m \notin volumes' => o = PV(m)
    BY DEF DeleteCluster, NextCall, PV, Volumes
  <1> HIDE DEF o
  <1>4. Left(Delete(o), todo)
    <2>1. Head(todo) = todo[1] /\ 1 \in 1..Len(todo)
      BY <1>2, LenProperties, EmptySeq
    <2>2. QED
      BY <1>2, <2>1 DEF Left
  <1>5. ASSUME NEW m \in Stacks
        PROVE  /\ Live(m)' => Owned(PVC(m))' /\ m \in volumes'
               /\ StackInv(m)'
               /\ Live(m)' => Live(m) /\ Head(todo) # Delete(Deployment(m))
    <2> DEFINE up == Apply(Deployment(m))  down == Delete(Deployment(m))
    <2>1. StackInv(m) /\ (Live(m) => Owned(PVC(m)) /\ m \in volumes)
      BY DEF StorageInv, StorageBeneathWorkload
    <2>2. /\ Delete(o) # up /\ Delete(o) # Apply(PVC(m)) /\ Delete(o) # Apply(PV(m))
          /\ Delete(o) # down
      BY <1>3, StackObjects, CallsDiffer
    <2> HIDE DEF up, down
    <2>3. /\ Behind(up, Apply(PVC(m)), todo) \/ (Current => Owned(PVC(m)))
          /\ Behind(up, Apply(PV(m)), todo) \/ m \in volumes
          /\ Left(up, todo) => ~Left(Delete(PVC(m)), todo) /\ ~Left(Delete(PV(m)), todo)
          /\ Behind(Delete(PVC(m)), down, todo) \/ ~Live(m)
          /\ Behind(Delete(PV(m)), down, todo) \/ ~Live(m)
      BY <2>1 DEF StackInv, up, down
    <2>4. Current' = Current /\ Live(m)' = Live(m) /\ Owned(PVC(m))' = Owned(PVC(m))
      BY <1>2 DEF Current, Exists, Live, Present, Owned
    <2>5. o = PV(m) => ~Live(m) /\ ~Left(up, todo)
      BY <1>2, <1>4, <2>3, BehindTail
    <2>6. Behind(up, Apply(PVC(m)), todo') \/ (Current' => Owned(PVC(m))')
      BY <1>2, <2>2, <2>3, <2>4, BehindTail
    <2>7. Behind(up, Apply(PV(m)), todo') \/ m \in volumes'
      <3>1. CASE o = PV(m)
        <4>1. ~Left(up, todo')
          BY <1>2, <2>5, <3>1, LeftTail
        <4>2. QED
          BY <4>1, NotLeftBehind
      <3>2. CASE o # PV(m)
        BY <1>2, <1>3, <2>2, <2>3, <3>2, BehindTail
      <3>3. QED
        BY <3>1, <3>2
    <2>8. Left(up, todo') => ~Left(Delete(PVC(m)), todo') /\ ~Left(Delete(PV(m)), todo')
      BY <1>2, <2>3, LeftTail
    <2>9. /\ Behind(Delete(PVC(m)), down, todo') \/ ~Live(m)'
          /\ Behind(Delete(PV(m)), down, todo') \/ ~Live(m)'
      BY <1>2, <2>2, <2>3, <2>4, BehindTail
    <2>10. StackInv(m)'
      BY <2>6, <2>7, <2>8, <2>9 DEF StackInv, up, down
    <2>11. Live(m)' => Owned(PVC(m))' /\ m \in volumes'
      BY <1>3, <2>1, <2>4, <2>5
    <2>12. QED
      BY <1>2, <2>2, <2>4, <2>10, <2>11 DEF down
  <1>6. CleanupInv'
    BY <1>2, <1>5, CleanupDeletes
  <1>7. QED
    BY <1>5, <1>6 DEF StorageBeneathWorkload

\* The purge takes volumes whose workloads are gone.
LEMMA StoragePurge ==
    StorageInv /\ PurgeVolume => /\ StorageBeneathWorkload'
                                 /\ \A m \in Stacks : StackInv(m)'
                                 /\ CleanupInv'
  <1> SUFFICES ASSUME StorageInv, PurgeVolume
               PROVE  StorageBeneathWorkload' /\ (\A m \in Stacks : StackInv(m)') /\ CleanupInv'
    OBVIOUS
  <1>1. UNCHANGED <<cr, children>> /\ todo' = << >> /\ stage = "purge" /\ stage' = "purge"
    BY DEF PurgeVolume, Continue
  <1>2. \A m \in Stacks : ~Live(m)'
    BY <1>1 DEF StorageInv, CleanupInv, Live, Present, Owned
  <1>3. \A m \in Stacks : StackInv(m)'
    BY <1>1, NoPlan DEF Layered, StackInv
  <1>4. QED
    BY <1>1, <1>2, <1>3 DEF StorageBeneathWorkload, CleanupInv

\* An object that somebody deletes is not a claim in use.
LEMMA StorageLost ==
    StorageInv /\ (Drift \/ GarbageCollect) => /\ StorageBeneathWorkload'
                                               /\ \A m \in Stacks : StackInv(m)'
                                               /\ CleanupInv'
  <1> SUFFICES ASSUME StorageInv, Drift \/ GarbageCollect
               PROVE  StorageBeneathWorkload' /\ (\A m \in Stacks : StackInv(m)') /\ CleanupInv'
    OBVIOUS
  <1>1. UNCHANGED <<cr, volumes, stage, todo, pending, snap>> /\ TypeOK
    BY DEF Drift, GarbageCollect, job, StorageInv, FinalizerInv
  <1>2. PICK o \in Children :
            /\ children' = [children EXCEPT ![o] = Absent]
            /\ (\A m : o # PVC(m)) \/ children[o].owner \notin {0, cr.uid}
    BY DEF Drift, GarbageCollect, PVC
  <1>3. /\ children'[o].owner = 0
        /\ \A x \in Children : x # o => children'[x] = children[x]
    BY <1>1, <1>2 DEF TypeOK, Absent
  <1>4. ASSUME NEW m \in Stacks
        PROVE  (Live(m)' => Live(m)) /\ (Owned(PVC(m)) => Owned(PVC(m))')
    BY <1>1, <1>2, <1>3, StackObjects DEF Live, Present, Owned
  <1>5. Current' = Current /\ Replicas \subseteq Stacks
    BY <1>1 DEF Current, Exists, Stacks, Members
  <1>6. ASSUME NEW m \in Stacks PROVE StackInv(m)'
    BY <1>1, <1>4, <1>5 DEF StorageInv, StackInv
  <1>7. StorageBeneathWorkload'
    BY <1>1, <1>4 DEF StorageInv, StorageBeneathWorkload
  <1>8. CleanupInv'
    BY <1>1, <1>4, <1>5 DEF StorageInv, CleanupInv
  <1>9. QED
    BY <1>6, <1>7, <1>8

\* Users: a new resource has no workloads yet.
LEMMA StorageUsers ==
    StorageInv /\ Users => /\ StorageBeneathWorkload'
                           /\ \A m \in Stacks : StackInv(m)'
                           /\ CleanupInv'
  <1> SUFFICES ASSUME StorageInv, Users
               PROVE  StorageBeneathWorkload' /\ (\A m \in Stacks : StackInv(m)') /\ CleanupInv'
    OBVIOUS
  <1>1. TypeOK /\ UidInv
    BY DEF StorageInv, FinalizerInv
  <1>2. UNCHANGED <<children, volumes, stage, todo, pending, snap>>
    BY DEF Users, DeleteCR, Create, Edit, job
  <1>3. CASE \E spec \in Specs : Create(spec)
    <2>1. cr'.uid = births + 1
      BY <1>3 DEF Create
    <2>2. ASSUME NEW m \in Stacks PROVE ~Live(m)'
      <3>1. children[Deployment(m)].owner \in Nat /\ children[Deployment(m)].owner <= births
        BY <1>1, StackObjects, UidTypes DEF UidInv
      <3>2. QED
        BY <1>1, <1>2, <2>1, <3>1, UidTypes DEF Live, Owned
    <2>3. ~Current'
      BY <1>1, <1>2, <2>1, UidTypes DEF UidInv, Current
    <2>4. QED
      BY <1>2, <2>2, <2>3, StorageStable DEF Fewer
  <1>4. CASE DeleteCR \/ \E spec \in Specs : Edit(spec)
    <2>1. cr'.uid \in {0, cr.uid}
      BY <1>1, <1>4 DEF DeleteCR, Edit, NoCR, TypeOK, CRType
    <2>2. Current' => Current /\ cr'.uid = cr.uid
      BY <1>2, <2>1 DEF Current, Exists
    <2>3. QED
      BY <1>2, <2>1, <2>2, FewerLive, StorageStable
  <1>5. QED
    BY <1>3, <1>4 DEF Users

\* Where a reconcile ends, or is before its first plan, nothing is left to make.
LEMMA StorageAtRest ==
    ASSUME StorageInv, UNCHANGED <<children, volumes>>, cr'.uid \in {0, cr.uid},
           todo' = << >>, stage' \notin {"drain", "rest", "purge"}
    PROVE  /\ StorageBeneathWorkload'
           /\ \A m \in Stacks : StackInv(m)'
           /\ CleanupInv'
  <1>1. Fewer /\ Layered(todo')
    BY FewerLive, NoPlan
  <1>2. CleanupInv'
    BY DEF CleanupInv
  <1>3. QED
    BY <1>1, <1>2, StoragePlanned

\* The runtime.
LEMMA StorageRuntime ==
    StorageInv /\ Runtime => /\ StorageBeneathWorkload'
                             /\ \A m \in Stacks : StackInv(m)'
                             /\ CleanupInv'
  <1> SUFFICES ASSUME StorageInv, Runtime
               PROVE  StorageBeneathWorkload' /\ (\A m \in Stacks : StackInv(m)') /\ CleanupInv'
    OBVIOUS
  <1>1. CASE Watch \/ Skip
    <2>1. UNCHANGED <<cr, children, volumes, stage, todo, pending, snap>>
      BY <1>1 DEF Watch, Skip, server, job
    <2>2. Current' = Current
      BY <2>1 DEF Current, Exists
    <2>3. QED
      BY <2>1, <2>2, FewerLive, StorageStable
  <1>2. CASE Start
    <2>1. todo = << >>
      BY <1>2 DEF Start, StorageInv, FinalizerInv, JobInv
    <2>2. QED
      BY <1>2, <2>1, StorageAtRest DEF Start, server
  <1>3. QED
    BY <1>1, <1>2 DEF Runtime

\* The steps that make plans or end the reconcile.
LEMMA StoragePlans ==
    ASSUME StorageInv,
           \/ AddFinalizer \/ CheckSpec \/ NextMember \/ ListStale \/ NextVictim
           \/ BeginAddons \/ PatchStatus
           \/ ListReplicas \/ BeginRest \/ ListVolumes \/ RemoveFinalizer
    PROVE  /\ StorageBeneathWorkload'
           /\ \A m \in Stacks : StackInv(m)'
           /\ CleanupInv'
  <1>1. TypeOK /\ JobInv /\ CleanupInv
    BY DEF StorageInv, FinalizerInv
  <1>2. UNCHANGED <<children, volumes>> /\ cr'.uid \in {0, cr.uid}
    BY <1>1 DEF AddFinalizer, CheckSpec, NextMember, ListStale, NextVictim, BeginAddons,
                PatchStatus, ListReplicas, BeginRest, ListVolumes, RemoveFinalizer,
                server, NoCR, TypeOK, CRType
  <1>3. Fewer
    BY <1>2, FewerLive
  <1>4. snap.spec \in SpecType
    BY <1>1, ResourceFields DEF TypeOK
  <1>5. ASSUME Layered(todo'), stage' \notin {"drain", "rest", "purge"}
        PROVE  StorageBeneathWorkload' /\ (\A m \in Stacks : StackInv(m)') /\ CleanupInv'
    BY <1>2, <1>3, <1>5, StoragePlanned DEF CleanupInv
  <1>6. CASE AddFinalizer \/ PatchStatus \/ RemoveFinalizer
    <2>1. todo' = << >> /\ stage' \in {"check", "idle"}
      BY <1>1, <1>6 DEF AddFinalizer, PatchStatus, RemoveFinalizer, Continue, Requeue, JobInv
    <2>2. QED
      BY <1>5, <2>1, NoPlan
  <1>7. CASE CheckSpec
    <2>1. /\ todo' \in {<< >>, SyncConfig(snap.spec)}
          /\ stage' \in {"invalid", "idle", "sync"}
      BY <1>7 DEF CheckSpec, Continue, Requeue
    <2>2. QED
      BY <1>5, <2>1, NoPlan, SyncConfigApart, ApartLayered
  <1>8. CASE NextMember
    <2>1. PICK m \in Members : todo' = SyncMember(m)
      BY <1>1, <1>8 DEF NextMember, Continue, TypeOK
    <2>2. stage' = "sync"
      BY <1>8 DEF NextMember, Continue
    <2>3. QED
      BY <1>5, <2>1, <2>2, SyncMemberLayered
  <1>9. CASE ListStale
    <2>1. todo' = << >> /\ stage' = "prune"
      BY <1>9 DEF ListStale, Continue
    <2>2. QED
      BY <1>5, <2>1, NoPlan
  <1>10. CASE BeginAddons
    <2>1. todo' = SyncAddons(snap.spec) /\ stage' = "addons"
      BY <1>10 DEF BeginAddons, Continue
    <2>2. QED
      BY <1>4, <1>5, <2>1, SyncAddonsLayered
  <1>11. CASE NextVictim
    <2>1. PICK n \in pending : todo' = DeleteReplicaStack(n) /\ pending' = pending \ {n}
      BY <1>11 DEF NextVictim, Continue
    <2>2. n \in Replicas /\ stage' = stage /\ stage \in {"prune", "drain"} /\ todo = << >>
      BY <1>1, <1>11 DEF NextVictim, Continue, TypeOK
    <2>3. Layered(todo') /\ Left(Delete(Deployment(n)), todo')
      BY <2>1, <2>2, DeleteReplicaStackLayered
    <2>4. CleanupInv'
      <3> SUFFICES ASSUME stage = "drain", NEW m \in Replicas, Live(m)'
                   PROVE  m \in pending' \/ Left(Delete(Deployment(m)), todo')
        BY <2>2 DEF CleanupInv
      <3>1. m \in Stacks /\ Live(m)
        BY <1>3 DEF Fewer, Stacks, Members
      <3>2. m \in pending
        BY <1>1, <2>2, <3>1, EmptyPlan DEF CleanupInv
      <3>3. QED
        BY <2>1, <2>3, <3>2
    <2>5. QED
      BY <1>2, <1>3, <2>3, <2>4, StoragePlanned
  <1>12. CASE ListReplicas
    <2>1. /\ todo' = << >> /\ stage' = "drain"
          /\ pending' = {m \in Replicas : Present(Deployment(m))}
      BY <1>12 DEF ListReplicas, Continue
    <2>2. CleanupInv'
      BY <1>2, <2>1 DEF CleanupInv, Live, Present
    <2>3. QED
      BY <1>2, <1>3, <2>1, <2>2, NoPlan, StoragePlanned
  <1>13. CASE BeginRest
    <2>1. /\ todo' = CleanupRest /\ stage' = "rest"
          /\ stage = "drain" /\ todo = << >> /\ pending = {}
      BY <1>13 DEF BeginRest, Continue
    <2>2. ASSUME NEW m \in Stacks, Live(m)' PROVE Left(Delete(Deployment(m)), todo')
      <3>1. Live(m)
        BY <1>3, <2>2 DEF Fewer
      <3>2. m \notin Replicas
        BY <1>1, <2>1, <3>1, EmptyPlan DEF CleanupInv
      <3>3. m = Primary \/ m = Pgmoneta
        BY <3>2 DEF Stacks, Members
      <3>4. QED
        BY <2>1, <3>3, CleanupRestLayered
    <2>3. CleanupInv'
      BY <2>1, <2>2 DEF CleanupInv
    <2>4. QED
      BY <1>2, <1>3, <2>1, <2>3, CleanupRestLayered, StoragePlanned
  <1>14. CASE ListVolumes
    <2>1. todo' = << >> /\ stage' = "purge" /\ stage = "rest" /\ todo = << >>
      BY <1>14 DEF ListVolumes, Continue
    <2>2. \A m \in Stacks : ~Live(m)'
      BY <1>1, <1>3, <2>1, EmptyPlan DEF CleanupInv, Fewer
    <2>3. CleanupInv'
      BY <2>1, <2>2 DEF CleanupInv
    <2>4. QED
      BY <1>2, <1>3, <2>1, <2>3, NoPlan, StoragePlanned
  <1>15. QED
    BY <1>6, <1>7, <1>8, <1>9, <1>10, <1>11, <1>12, <1>13, <1>14

\* Failures and crashes drop the plan.
LEMMA StorageFailed ==
    ASSUME StorageInv, Fail \/ RemoveFinalizerUnanswered \/ Crash
    PROVE  /\ StorageBeneathWorkload'
           /\ \A m \in Stacks : StackInv(m)'
           /\ CleanupInv'
  <1>1. UNCHANGED <<children, volumes>> /\ todo' = << >> /\ stage' = "idle"
    BY DEF Fail, RemoveFinalizerUnanswered, Crash, Requeue, server
  <1>2. cr'.uid \in {0, cr.uid}
    BY DEF Fail, RemoveFinalizerUnanswered, Crash, server, NoCR, StorageInv, FinalizerInv,
           TypeOK, CRType
  <1>3. QED
    BY <1>1, <1>2, StorageAtRest

\* At the start there is nothing.
LEMMA StorageInit == Init => StorageInv
  <1> SUFFICES ASSUME Init PROVE StorageInv
    OBVIOUS
  <1>1. FinalizerInv /\ UidInv
    BY FinalizerInit, UidInit
  <1>2. \A m \in Stacks : ~Live(m)
    BY StackObjects DEF Init, Live, Present, Absent
  <1>3. \A m \in Stacks : StackInv(m)
    BY NoPlan DEF Init, Layered, StackInv
  <1>4. CleanupInv
    BY DEF Init, CleanupInv
  <1>5. QED
    BY <1>1, <1>2, <1>3, <1>4 DEF StorageInv, StorageBeneathWorkload

\* StorageInv is inductive.
LEMMA StorageStep == StorageInv /\ [Next]_vars => StorageInv'
  <1> SUFFICES ASSUME StorageInv, [Next]_vars PROVE StorageInv'
    OBVIOUS
  <1>1. FinalizerInv' /\ UidInv'
    BY FinalizerStep, UidStep DEF StorageInv
  <1>2. CASE UNCHANGED vars
    <2>1. UNCHANGED <<cr, children, volumes, stage, todo, pending, snap>>
      BY <1>2 DEF vars, server, job
    <2>2. Current' = Current
      BY <2>1 DEF Current, Exists
    <2>3. QED
      BY <1>1, <2>1, <2>2, FewerLive, StorageStable DEF StorageInv
  <1>3. CASE Users \/ Runtime
    BY <1>1, <1>3, StorageUsers, StorageRuntime DEF StorageInv
  <1>4. CASE Steps
    BY <1>1, <1>4, StoragePlans, StorageSync, StorageSyncCluster, StorageDeleteChild,
       StorageDeleteCluster, StoragePurge DEF Steps, StorageInv
  <1>5. CASE Mishaps \/ GarbageCollect
    BY <1>1, <1>5, StorageFailed, StorageLost DEF Mishaps, StorageInv
  <1>6. QED
    BY <1>2, <1>3, <1>4, <1>5 DEF Next

\* The inductive invariant holds: whatever of a plan is left goes upwards or
\* downwards on each stack, from what is there.
THEOREM StorageInvariant == Spec => []StorageInv
  BY StorageInit, StorageStep, PTL DEF Spec

\* A workload of the current resource has its claim and its volume beneath it
\* at every moment, whatever snapshots were applied, for any number of
\* replicas, edits, incarnations, failures and crashes.
THEOREM StorageAlwaysBeneath == Spec => []StorageBeneathWorkload
  BY StorageInvariant, PTL DEF StorageInv

-----------------------------------------------------------------------------
(* The configuration.                                                      *)

\* The ConfigMap a configuration stands for.
ConfigMap(config) == <<"ConfigMap", Config(config)>>

\* It is an object of the cluster unless the configuration is absent or
\* rejected, and none that the plans delete.
LEMMA ConfigMapObject ==
    ASSUME NEW config \in {BadConfig} \cup 0..MaxConfig,
           config # BadConfig, config # NoConfig
    PROVE  /\ ConfigMap(config) \in Children /\ ConfigMap(config) \notin Volumes
           /\ ConfigMap(config) \in Kept
           /\ \A m : ConfigMap(config) # Deployment(m)
  <1>1. config \in 1..MaxConfig
    BY TopologyAssumption DEF BadConfig, NoConfig
  <1>2. ConfigMap(config) \in Children /\ ConfigMap(config) \in Kept
    BY <1>1, ObjectTypes DEF ConfigMap, Kept, Configs
  <1>3. \A o \in Volumes : o[1] = "PV"
    BY DEF Volumes
  <1>4. QED
    BY <1>2, <1>3 DEF ConfigMap, Deployment

\* What the theorem says of one member; the Deployment, its ConfigMap and the
\* entries' configurations.
LEMMA MountTypes ==
    ASSUME ConfigInv, NEW m \in Members
    PROVE  /\ Deployment(m) \in Children /\ m \in Stacks
           /\ children[Deployment(m)].config \in {BadConfig} \cup 0..MaxConfig
           /\ children[Deployment(m)].config # BadConfig
           /\ Owned(Deployment(m)) /\ children[Deployment(m)].config # NoConfig =>
                /\ Exists(cr)
                /\ Owned(ConfigMap(children[Deployment(m)].config))
  <1>1. Deployment(m) \in Children /\ m \in Stacks
    BY ObjectTypes DEF Stacks
  <1>2. children[Deployment(m)] \in Entry
    BY <1>1 DEF ConfigInv, FinalizerInv, TypeOK
  <1>3. children[Deployment(m)].owner = 0 => children[Deployment(m)].config = NoConfig
    BY <1>1 DEF ConfigInv, UidInv, Absent
  <1>4. QED
    BY <1>1, <1>2, <1>3 DEF ConfigInv, ConfigMounted, Entry, Owned, Exists, ConfigMap

\* The objects stay and no new resource takes the name.
LEMMA MountedStays ==
    ASSUME ConfigInv, UNCHANGED children, cr'.uid \in {0, cr.uid}
    PROVE  ConfigMounted' /\ \A o \in Children : children'[o].config # BadConfig
  <1>1. ASSUME NEW m \in Members,
               Owned(Deployment(m))', children'[Deployment(m)].config # NoConfig
        PROVE  Owned(ConfigMap(children[Deployment(m)].config))'
    <2>1. cr'.uid = 0 => children[Deployment(m)].config = NoConfig
      BY <1>1, MountTypes DEF ConfigInv, UidInv, Owned, Absent
    <2>2. cr'.uid = cr.uid
      BY <1>1, <2>1
    <2>3. QED
      BY <1>1, <2>2, MountTypes DEF Owned
  <1>2. QED
    BY <1>1 DEF ConfigInv, ConfigMounted, ConfigMap

\* The reconcile and the objects are left alone.
LEMMA ConfigStable ==
    ASSUME ConfigInv, FinalizerInv', UidInv', UNCHANGED <<children, stage, todo, snap>>,
           cr'.uid \in {0, cr.uid}
    PROVE  ConfigInv'
  <1>1. Current' => Current /\ cr'.uid = cr.uid
    BY DEF Current, Exists
  <1>2. QED
    BY <1>1, MountedStays DEF ConfigInv, Owned

\* The reconcile goes to another stage than the sync of members, and syncs none.
LEMMA ConfigElsewhere ==
    ASSUME ConfigInv, FinalizerInv', UidInv', UNCHANGED children,
           cr'.uid \in {0, cr.uid}, stage' # "sync",
           \A m \in Members : ~Left(Apply(Deployment(m)), todo')
    PROVE  ConfigInv'
  BY MountedStays DEF ConfigInv

\* Deletions apply nothing.
LEMMA DeletesOnly ==
    ASSUME NEW calls \in Seq(DeleteCalls), NEW o PROVE ~Left(Apply(o), calls)
  <1>1. ASSUME NEW i \in 1..Len(calls) PROVE calls[i].verb = "delete"
    <2>1. calls[i] \in DeleteCalls
      BY ElementOfSeq
    <2>2. QED
      BY <2>1 DEF DeleteCalls
  <1>2. QED
    BY <1>1 DEF Left, Apply

\* A new resource finds nothing that belongs to it.
LEMMA ConfigUsers ==
    ASSUME ConfigInv, FinalizerInv', UidInv', Users PROVE ConfigInv'
  <1>1. TypeOK /\ UidInv
    BY DEF ConfigInv, FinalizerInv
  <1>2. UNCHANGED <<children, stage, todo, snap>>
    BY DEF Users, DeleteCR, Create, Edit, job
  <1>3. CASE \E spec \in Specs : Create(spec)
    <2>1. cr'.uid = births + 1
      BY <1>3 DEF Create
    <2>2. ASSUME NEW m \in Members PROVE ~Owned(Deployment(m))'
      <3>1. Deployment(m) \in Children
        BY ObjectTypes
      <3>2. children[Deployment(m)].owner \in Nat /\ children[Deployment(m)].owner <= births
        BY <1>1, <3>1, UidTypes DEF UidInv
      <3>3. QED
        BY <1>1, <1>2, <2>1, <3>2, UidTypes DEF Owned
    <2>3. ~Current'
      BY <1>1, <1>2, <2>1, UidTypes DEF UidInv, Current
    <2>4. QED
      BY <1>2, <2>2, <2>3 DEF ConfigInv, ConfigMounted
  <1>4. CASE DeleteCR \/ \E spec \in Specs : Edit(spec)
    <2>1. cr'.uid \in {0, cr.uid}
      BY <1>1, <1>4 DEF DeleteCR, Edit, NoCR, TypeOK, CRType
    <2>2. QED
      BY <1>2, <2>1, ConfigStable
  <1>5. QED
    BY <1>3, <1>4 DEF Users

\* The runtime.
LEMMA ConfigRuntime ==
    ASSUME ConfigInv, FinalizerInv', UidInv', Runtime PROVE ConfigInv'
  <1>1. CASE Watch \/ Skip
    BY <1>1, ConfigStable DEF Watch, Skip, server, job
  <1>2. CASE Start
    <2>1. todo' = << >> /\ stage' # "sync" /\ UNCHANGED <<cr, children>>
      BY <1>2 DEF Start, server, ConfigInv, FinalizerInv, JobInv
    <2>2. QED
      BY <2>1, EmptyPlan, ConfigElsewhere
  <1>3. QED
    BY <1>1, <1>2 DEF Runtime

\* The steps that make plans or end the reconcile.
LEMMA ConfigPlans ==
    ASSUME ConfigInv, FinalizerInv', UidInv',
           \/ AddFinalizer \/ CheckSpec \/ NextMember \/ ListStale \/ NextVictim
           \/ BeginAddons \/ PatchStatus
           \/ ListReplicas \/ BeginRest \/ ListVolumes \/ PurgeVolume \/ RemoveFinalizer
    PROVE  ConfigInv'
  <1>1. TypeOK /\ JobInv
    BY DEF ConfigInv, FinalizerInv
  <1>2. UNCHANGED children /\ cr'.uid \in {0, cr.uid}
    BY <1>1 DEF AddFinalizer, CheckSpec, NextMember, ListStale, NextVictim, BeginAddons,
                PatchStatus, ListReplicas, BeginRest, ListVolumes, PurgeVolume,
                RemoveFinalizer, server, NoCR, TypeOK, CRType
  <1>3. snap.spec \in SpecType /\ Members \subseteq Stacks
    BY <1>1, ResourceFields DEF TypeOK, Stacks
  <1>4. CASE \/ AddFinalizer \/ PatchStatus \/ RemoveFinalizer \/ ListStale
             \/ ListReplicas \/ ListVolumes \/ PurgeVolume
    <2>1. todo' = << >> /\ stage' # "sync"
      BY <1>1, <1>4 DEF AddFinalizer, PatchStatus, RemoveFinalizer, ListStale, ListReplicas,
                        ListVolumes, PurgeVolume, Continue, Requeue, JobInv
    <2>2. QED
      BY <1>2, <2>1, EmptyPlan, ConfigElsewhere
  <1>5. CASE CheckSpec
    <2>1. CASE todo' = << >> /\ stage' # "sync"
      BY <1>2, <2>1, EmptyPlan, ConfigElsewhere
    <2>2. CASE /\ snap.spec.config # BadConfig /\ snap' = snap
               /\ stage' = "sync" /\ todo' = SyncConfig(snap.spec)
      BY <1>2, <2>2, MountedStays DEF ConfigInv
    <2>3. QED
      BY <1>5, <2>1, <2>2 DEF CheckSpec, Continue, Requeue
  <1>6. CASE NextMember
    <2>1. stage = "sync" /\ stage' = "sync" /\ todo = << >> /\ UNCHANGED <<snap, cr>>
      BY <1>6 DEF NextMember, Continue, server
    <2>2. snap.spec.config # NoConfig => SyncConfig(snap.spec) # << >>
      BY DEF SyncConfig
    <2>3. snap.spec.config # NoConfig => (Current => Owned(ConfigMap(snap.spec.config)))
      BY <2>1, <2>2 DEF ConfigInv, ConfigMap
    <2>4. QED
      BY <1>2, <2>1, <2>3, MountedStays DEF ConfigInv, ConfigMap, Current, Exists, Owned
  <1>7. CASE BeginAddons
    <2>1. todo' = SyncAddons(snap.spec) /\ stage' # "sync"
      BY <1>7 DEF BeginAddons, Continue
    <2>2. QED
      BY <1>2, <1>3, <2>1, SyncAddonsLayered, ConfigElsewhere
  <1>8. CASE NextVictim \/ BeginRest
    <2>1. todo' \in Seq(DeleteCalls) /\ stage' # "sync"
      BY <1>1, <1>8, CleanupPlans DEF NextVictim, BeginRest, Continue, TypeOK
    <2>2. QED
      BY <1>2, <2>1, DeletesOnly, ConfigElsewhere
  <1>9. QED
    BY <1>4, <1>5, <1>6, <1>7, <1>8

\* A call of the plan other than on a ConfigMap or a member's Deployment.
LEMMA ConfigCall ==
    ASSUME ConfigInv, FinalizerInv', UidInv', todo \in Seq(Calls), todo # << >>,
           todo' = Tail(todo), UNCHANGED <<cr, stage, snap>>,
           ConfigMounted', \A o \in Children : children'[o].config # BadConfig,
           stage = "sync" /\ snap.spec.config # NoConfig =>
                (Current => Owned(ConfigMap(snap.spec.config))')
    PROVE  ConfigInv'
  <1>1. \A m \in Members : Left(Apply(Deployment(m)), todo') => stage' = "sync"
    BY LeftTail DEF ConfigInv
  <1>2. Current' = Current
    BY DEF Current, Exists
  <1>3. QED
    BY <1>1, <1>2 DEF ConfigInv, ConfigMap

\* The one call of SyncConfig.
LEMMA SyncConfigIs ==
    ASSUME NEW spec, spec.config # NoConfig
    PROVE  Head(SyncConfig(spec)) = Apply(ConfigMap(spec.config))
  BY DEF SyncConfig, ConfigMap

\* Volumes have nothing to do with it.
LEMMA ConfigVolumes ==
    ASSUME ConfigInv, FinalizerInv', UidInv', SyncCluster \/ DeleteCluster PROVE ConfigInv'
  <1>1. TypeOK
    BY DEF ConfigInv, FinalizerInv
  <1>2. PICK verb \in {"apply", "delete"} : NextCall(verb, Volumes)
    BY DEF SyncCluster, DeleteCluster
  <1>3. /\ todo \in Seq(Calls) /\ todo # << >> /\ todo' = Tail(todo)
        /\ UNCHANGED <<cr, stage, snap>> /\ Head(todo).object \in Volumes
    BY <1>1, <1>2, CallIs DEF NextCall
  <1>4. UNCHANGED children
    BY DEF SyncCluster, DeleteCluster
  <1>5. ASSUME stage = "sync", snap.spec.config # NoConfig, Current
        PROVE  Owned(ConfigMap(snap.spec.config))'
    <2>1. snap.spec.config \in {BadConfig} \cup 0..MaxConfig /\ snap.spec.config # BadConfig
      BY <1>1, <1>5, ResourceFields DEF TypeOK, SpecType, ConfigInv
    <2>2. todo # SyncConfig(snap.spec)
      BY <1>3, <1>5, <2>1, ConfigMapObject, SyncConfigIs DEF Apply
    <2>3. QED
      BY <1>3, <1>4, <1>5, <2>2 DEF ConfigInv, ConfigMap, Owned
  <1>6. QED
    BY <1>3, <1>4, <1>5, MountedStays, ConfigCall

\* An apply of a namespaced object: the ConfigMap first, then what mounts it.
LEMMA ConfigSync ==
    ASSUME ConfigInv, FinalizerInv', UidInv', Sync PROVE ConfigInv'
  <1>1. FinalizerInv /\ UidInv /\ TypeOK /\ NextCall("apply", Children)
    BY DEF ConfigInv, FinalizerInv, Sync
  <1> PICK o \in Children : o = Head(todo).object
    BY <1>1 DEF NextCall
  <1>2. /\ todo \in Seq(Calls) /\ todo # << >> /\ Head(todo) = Apply(o)
        /\ UNCHANGED <<cr, stage, snap>> /\ todo' = Tail(todo)
    BY <1>1, CallIs
  <1>3. children' = [children EXCEPT ![o] = Applied(o)]
    BY DEF Sync
  <1>4. stage # "idle"
    BY <1>1, ApplyStage DEF SyncStages
  <1>5. Left(Apply(o), todo)
    <2>1. Head(todo) = todo[1] /\ 1 \in 1..Len(todo)
      BY <1>2, LenProperties, EmptySeq
    <2>2. QED
      BY <1>2, <2>1 DEF Left
  <1>6. /\ children'[o] = Applied(o) /\ children'[o].owner = snap.uid
        /\ \A x \in Children : x # o => children'[x] = children[x]
    BY <1>1, <1>3 DEF TypeOK, Applied
  <1>7. \A x \in Children : Owned(x) /\ Exists(cr) => snap.uid = cr.uid
    BY <1>1, <1>4, UidTypes DEF UidInv, Owned, Exists
  <1>8. \A x \in Children : Owned(x) /\ Exists(cr) => Owned(x)'
    BY <1>2, <1>6, <1>7 DEF Owned
  <1>9. \A m \in Members : o = Deployment(m) => stage = "sync"
    BY <1>5 DEF ConfigInv
  <1>10. snap.spec.config \in {BadConfig} \cup 0..MaxConfig
    BY <1>1, ResourceFields DEF TypeOK, SpecType
  <1>11. ASSUME stage = "sync", snap.spec.config # NoConfig, Current
         PROVE  /\ Owned(ConfigMap(snap.spec.config))'
                /\ \A m : o = Deployment(m) => Owned(ConfigMap(snap.spec.config))
    <2>1. snap.spec.config # BadConfig
      BY <1>11 DEF ConfigInv
    <2>2. ConfigMap(snap.spec.config) \in Children /\ \A m : ConfigMap(snap.spec.config) # Deployment(m)
      BY <1>10, <1>11, <2>1, ConfigMapObject
    <2>3. CASE todo = SyncConfig(snap.spec)
      <3>1. o = ConfigMap(snap.spec.config)
        BY <1>2, <1>11, <2>3, SyncConfigIs, CallsDiffer
      <3>2. QED
        BY <1>2, <1>6, <1>11, <2>2, <3>1 DEF Owned, Current
    <2>4. CASE Owned(ConfigMap(snap.spec.config))
      BY <1>2, <1>8, <1>11, <2>2, <2>4 DEF Current, Owned
    <2>5. QED
      BY <1>11, <2>3, <2>4 DEF ConfigInv, ConfigMap
  <1>12. ASSUME NEW m \in Members, o = Deployment(m)
         PROVE  /\ children'[o].config # BadConfig
                /\ Owned(o)' /\ children'[o].config # NoConfig
                        => Owned(ConfigMap(children[o].config))'
    <2>1. children'[o].config = snap.spec.config /\ stage = "sync"
      BY <1>6, <1>9, <1>12 DEF Applied, Deployment
    <2>2. snap.spec.config # BadConfig
      BY <2>1 DEF ConfigInv
    <2>3. Owned(o)' => Current
      BY <1>1, <1>2, <1>4, <1>6, <1>12 DEF Owned, Current, Exists, UidInv
    <2>4. QED
      BY <1>2, <1>11, <2>1, <2>2, <2>3 DEF Owned
  <1>13. ASSUME NEW m \in Members, o # Deployment(m)
         PROVE  Owned(Deployment(m))' /\ children'[Deployment(m)].config # NoConfig
                    => Owned(ConfigMap(children[Deployment(m)].config))'
    <2> SUFFICES ASSUME Owned(Deployment(m))', children'[Deployment(m)].config # NoConfig
                 PROVE  Owned(ConfigMap(children[Deployment(m)].config))'
      OBVIOUS
    <2>1. /\ Deployment(m) \in Children
          /\ children'[Deployment(m)] = children[Deployment(m)]
      BY <1>6, <1>13, MountTypes
    <2>2. Exists(cr) /\ Owned(ConfigMap(children[Deployment(m)].config))
      BY <1>2, <2>1, MountTypes DEF Owned
    <2>3. ConfigMap(children[Deployment(m)].config) \in Children
      BY <2>1, MountTypes, ConfigMapObject
    <2>4. QED
      BY <1>8, <2>1, <2>2, <2>3 DEF Owned
  <1>14. ConfigMounted'
    BY <1>12, <1>13 DEF ConfigMounted, ConfigMap
  <1>15. ASSUME NEW x \in Children PROVE children'[x].config # BadConfig
    <2>1. CASE x # o
      BY <1>6, <2>1 DEF ConfigInv
    <2>2. CASE x = o /\ \A m \in Members : o # Deployment(m)
      <3>1. ~(o[1] = "Deployment" /\ o[2] \in Members)
        <4>1. o[1] = "Deployment" => o = Deployment(o[2])
          BY <1>3 DEF Children, Deployment
        <4>2. QED
          BY <2>2, <4>1
      <3>2. QED
        BY <1>6, <2>2, <3>1 DEF Applied, NoConfig, BadConfig
    <2>3. QED
      BY <1>12, <2>1, <2>2
  <1>16. QED
    BY <1>2, <1>11, <1>14, <1>15, ConfigCall

\* An object goes that is not a ConfigMap of the current resource.
LEMMA MountedLess ==
    ASSUME ConfigInv, UNCHANGED cr, NEW o \in Children,
           children' = [children EXCEPT ![o] = Absent],
           \A c \in Configs : o = <<"ConfigMap", c>> => (Exists(cr) => ~Owned(o))
    PROVE  /\ ConfigMounted'
           /\ \A x \in Children : children'[x].config # BadConfig
           /\ \A config \in 1..MaxConfig :
                Exists(cr) /\ Owned(ConfigMap(config)) => Owned(ConfigMap(config))'
  <1>1. /\ children'[o].config = NoConfig
        /\ \A x \in Children : x # o => children'[x] = children[x]
    BY DEF ConfigInv, FinalizerInv, TypeOK, Absent
  <1>2. ASSUME NEW config \in 1..MaxConfig, Exists(cr), Owned(ConfigMap(config))
        PROVE  Owned(ConfigMap(config))'
    BY <1>1, <1>2, ObjectTypes DEF ConfigMap, Configs, Owned
  <1>3. ASSUME NEW m \in Members, Owned(Deployment(m))', children'[Deployment(m)].config # NoConfig
        PROVE  Owned(ConfigMap(children[Deployment(m)].config))'
    <2>1. /\ Deployment(m) \in Children
          /\ children'[Deployment(m)] = children[Deployment(m)]
      BY <1>1, <1>3, MountTypes
    <2>2. Exists(cr) /\ Owned(ConfigMap(children[Deployment(m)].config))
      BY <1>3, <2>1, MountTypes DEF Owned
    <2>3. children[Deployment(m)].config \in 1..MaxConfig
      BY <1>3, <2>1, MountTypes, TopologyAssumption DEF NoConfig, BadConfig
    <2>4. QED
      BY <1>2, <2>1, <2>2, <2>3 DEF Owned
  <1>4. \A x \in Children : children'[x].config # BadConfig
    BY <1>1 DEF ConfigInv, NoConfig, BadConfig
  <1>5. QED
    BY <1>2, <1>3, <1>4 DEF ConfigMounted, ConfigMap

\* A deletion by the plan.
LEMMA ConfigDeleteChild ==
    ASSUME ConfigInv, FinalizerInv', UidInv', DeleteChild PROVE ConfigInv'
  <1>1. TypeOK /\ JobInv /\ NextCall("delete", Children)
    BY DEF ConfigInv, FinalizerInv, DeleteChild
  <1> PICK o \in Children : o = Head(todo).object
    BY <1>1 DEF NextCall
  <1>2. /\ todo \in Seq(Calls) /\ todo # << >> /\ Head(todo) = Delete(o)
        /\ UNCHANGED <<cr, stage, snap>> /\ todo' = Tail(todo)
    BY <1>1, CallIs
  <1>3. children' = [children EXCEPT ![o] = Absent]
    BY DEF DeleteChild
  <1>4. o \notin Kept
    <2>1. Head(todo) \in PlannedCalls
      BY <1>1, <1>2, HeadTailProperties DEF JobInv
    <2>2. QED
      BY <1>2, <2>1 DEF PlannedCalls
  <1>5. \A c \in Configs : o # <<"ConfigMap", c>>
    BY <1>4 DEF Kept
  <1>6. /\ ConfigMounted' /\ \A x \in Children : children'[x].config # BadConfig
        /\ \A config \in 1..MaxConfig :
                Exists(cr) /\ Owned(ConfigMap(config)) => Owned(ConfigMap(config))'
    BY <1>2, <1>3, <1>5, MountedLess
  <1>7. ASSUME stage = "sync", snap.spec.config # NoConfig, Current
        PROVE  Owned(ConfigMap(snap.spec.config))'
    <2>1. snap.spec.config \in {BadConfig} \cup 0..MaxConfig /\ snap.spec.config # BadConfig
      BY <1>1, <1>7, ResourceFields DEF TypeOK, SpecType, ConfigInv
    <2>2. snap.spec.config \in 1..MaxConfig
      BY <1>7, <2>1, TopologyAssumption DEF NoConfig, BadConfig
    <2>3. todo # SyncConfig(snap.spec)
      BY <1>2, <1>7, SyncConfigIs, CallsDiffer
    <2>4. QED
      BY <1>2, <1>6, <1>7, <2>2, <2>3 DEF ConfigInv, ConfigMap, Current, Owned
  <1>8. QED
    BY <1>2, <1>6, <1>7, ConfigCall

\* Drift takes no ConfigMap and the collector none that belongs to the resource.
LEMMA ConfigLost ==
    ASSUME ConfigInv, FinalizerInv', UidInv', Drift \/ GarbageCollect PROVE ConfigInv'
  <1>1. UNCHANGED <<cr, stage, todo, snap>> /\ TypeOK
    BY DEF Drift, GarbageCollect, job, ConfigInv, FinalizerInv
  <1>2. PICK o \in Children :
            /\ children' = [children EXCEPT ![o] = Absent]
            /\ \A c \in Configs : o = <<"ConfigMap", c>> => (Exists(cr) => ~Owned(o))
    BY DEF Drift, GarbageCollect, Owned
  <1>3. /\ ConfigMounted' /\ \A x \in Children : children'[x].config # BadConfig
        /\ \A config \in 1..MaxConfig :
                Exists(cr) /\ Owned(ConfigMap(config)) => Owned(ConfigMap(config))'
    BY <1>1, <1>2, MountedLess
  <1>4. Current' = Current
    BY <1>1 DEF Current, Exists
  <1>5. ASSUME stage = "sync", snap.spec.config # NoConfig, todo # SyncConfig(snap.spec), Current
        PROVE  Owned(ConfigMap(snap.spec.config))'
    <2>1. snap.spec.config \in {BadConfig} \cup 0..MaxConfig /\ snap.spec.config # BadConfig
      BY <1>1, <1>5, ResourceFields DEF TypeOK, SpecType, ConfigInv
    <2>2. snap.spec.config \in 1..MaxConfig
      BY <1>5, <2>1, TopologyAssumption DEF NoConfig, BadConfig
    <2>3. QED
      BY <1>1, <1>3, <1>5, <2>2 DEF ConfigInv, ConfigMap, Current, Owned
  <1>6. QED
    BY <1>1, <1>3, <1>4, <1>5 DEF ConfigInv, ConfigMap

\* Failures and crashes drop the plan.
LEMMA ConfigFailed ==
    ASSUME ConfigInv, FinalizerInv', UidInv', Fail \/ RemoveFinalizerUnanswered \/ Crash
    PROVE  ConfigInv'
  <1>1. UNCHANGED children /\ todo' = << >> /\ stage' = "idle"
    BY DEF Fail, RemoveFinalizerUnanswered, Crash, Requeue, server
  <1>2. cr'.uid \in {0, cr.uid}
    BY DEF Fail, RemoveFinalizerUnanswered, Crash, server, NoCR, ConfigInv, FinalizerInv,
           TypeOK, CRType
  <1>3. QED
    BY <1>1, <1>2, EmptyPlan, ConfigElsewhere

\* At the start nothing is mounted.
LEMMA ConfigInit == Init => ConfigInv
  <1> SUFFICES ASSUME Init PROVE ConfigInv
    OBVIOUS
  <1>1. FinalizerInv /\ UidInv
    BY FinalizerInit, UidInit
  <1>2. \A o \in Children : children[o].config = NoConfig
    BY DEF Init, Absent
  <1>3. ConfigMounted
    BY <1>2, ObjectTypes DEF ConfigMounted
  <1>4. QED
    BY <1>1, <1>2, <1>3, EmptyPlan DEF Init, ConfigInv, NoConfig, BadConfig

\* ConfigInv is inductive.
LEMMA ConfigStep == ConfigInv /\ [Next]_vars => ConfigInv'
  <1> SUFFICES ASSUME ConfigInv, [Next]_vars PROVE ConfigInv'
    OBVIOUS
  <1>1. FinalizerInv' /\ UidInv'
    BY FinalizerStep, UidStep DEF ConfigInv
  <1>2. CASE UNCHANGED vars
    BY <1>1, <1>2, ConfigStable DEF vars, server, job
  <1>3. CASE Users \/ Runtime
    BY <1>1, <1>3, ConfigUsers, ConfigRuntime
  <1>4. CASE Steps
    BY <1>1, <1>4, ConfigPlans, ConfigVolumes, ConfigSync, ConfigDeleteChild DEF Steps
  <1>5. CASE Mishaps \/ GarbageCollect
    BY <1>1, <1>5, ConfigFailed, ConfigLost DEF Mishaps
  <1>6. QED
    BY <1>2, <1>3, <1>4, <1>5 DEF Next

\* The inductive invariant holds: members are synced only with a ConfigMap
\* that is there or is the call that comes first.
THEOREM ConfigInvariant == Spec => []ConfigInv
  BY ConfigInit, ConfigStep, PTL DEF Spec

\* A member of the current resource never mounts a ConfigMap that is missing
\* or about to be collected, for any number of configurations and replicas.
THEOREM ConfigAlwaysMounted == Spec => []ConfigMounted
  BY ConfigInvariant, PTL DEF ConfigInv

-----------------------------------------------------------------------------
(* What a pass takes away.                                                 *)

\* A plan deletes nothing the spec asks for.
Spares(spec, calls) == \A o \in Needed(spec) : ~Left(Delete(o), calls)

\* The components of what a spec asks for.
LEMMA NeededComponents ==
    ASSUME NEW spec, NEW o \in Needed(spec)
    PROVE  \/ o[2] \in MembersOf(spec)
           \/ o[2] = Pgmoneta /\ spec.pgmoneta
           \/ o[2] = Pgexporter /\ spec.pgexporter # "none"
           \/ o[2] = Monitoring /\ spec.pgexporter = "monitored"
           \/ o[1] = "ConfigMap"
  <1>1. CASE o \in {"PV"} \X WantedVolumes(spec)
    BY <1>1 DEF WantedVolumes
  <1>2. CASE o \in {"Service", "Deployment", "PVC"} \X MembersOf(spec)
    BY <1>2
  <1>3. CASE o \in (IF spec.pgmoneta THEN {"Deployment", "PVC", "Secret"} \X {Pgmoneta} ELSE {})
    BY <1>3
  <1>4. CASE o \in (IF spec.pgexporter # "none"
                    THEN {"Deployment", "Service", "Secret"} \X {Pgexporter} ELSE {})
    BY <1>4
  <1>5. CASE o \in (IF spec.pgexporter = "monitored" THEN {Deployment(Monitoring)} ELSE {})
    BY <1>5 DEF Deployment
  <1>6. CASE o \in (IF spec.config # NoConfig
                    THEN {<<"ConfigMap", Config(spec.config)>>} ELSE {})
    BY <1>6
  <1>7. QED
    BY <1>1, <1>2, <1>3, <1>4, <1>5, <1>6 DEF Needed, WantedChildren

\* Members and add-ons are told apart.
LEMMA ComponentsDiffer ==
    /\ \A i : /\ Replica(i) # Primary /\ Replica(i) # Pgmoneta
              /\ Replica(i) # Pgexporter /\ Replica(i) # Monitoring
    /\ \A spec : \A m \in MembersOf(spec) :
          m # Pgmoneta /\ m # Pgexporter /\ m # Monitoring
    /\ Pgmoneta # Pgexporter /\ Pgmoneta # Monitoring /\ Pgexporter # Monitoring
  BY DEF MembersOf, Replica, Primary, Pgmoneta, Pgexporter, Monitoring

\* Syncing the configuration or a member deletes nothing.
LEMMA SyncsSpare ==
    ASSUME NEW spec, NEW m
    PROVE  Spares(spec, << >>) /\ Spares(spec, SyncConfig(spec)) /\ Spares(spec, SyncMember(m))
  <1>1. \A o : ~Left(Delete(o), << >>)
    BY EmptyPlan
  <1>2. \A o : ~Left(Delete(o), SyncConfig(spec))
    <2>1. CASE spec.config = NoConfig
      BY <1>1, <2>1 DEF SyncConfig
    <2>2. CASE spec.config # NoConfig
      BY <2>2, CallsDiffer DEF SyncConfig, Left
    <2>3. QED
      BY <2>1, <2>2
  <1>3. ASSUME NEW o PROVE ~Left(Delete(o), SyncMember(m))
    <2> DEFINE s == SyncMember(m)
    <2>1. /\ Len(s) = 4
          /\ s[1] = Apply(PV(m)) /\ s[2] = Apply(PVC(m))
          /\ s[3] = Apply(Deployment(m)) /\ s[4] = Apply(Service(m))
      BY DEF SyncMember
    <2> HIDE DEF s
    <2>2. ASSUME NEW i \in 1..Len(s) PROVE s[i] # Delete(o)
      <3>1. i \in {1, 2, 3, 4}
        BY <2>1
      <3>2. QED
        BY <2>1, <3>1, CallsDiffer
    <2>3. QED
      BY <2>2 DEF Left, s
  <1>4. QED
    BY <1>1, <1>2, <1>3 DEF Spares

\* What DeleteReplicaStack deletes is the replica's.
LEMMA StaleStackSpares ==
    ASSUME NEW spec, NEW m \in Replicas \ MembersOf(spec)
    PROVE  Spares(spec, DeleteReplicaStack(m))
  <1> DEFINE s == DeleteReplicaStack(m)
  <1>1. /\ Len(s) = 4
        /\ s[1] = Delete(Service(m)) /\ s[2] = Delete(Deployment(m))
        /\ s[3] = Delete(PVC(m)) /\ s[4] = Delete(PV(m))
    BY DEF DeleteReplicaStack
  <1> HIDE DEF s
  <1>2. ASSUME NEW o, NEW i \in 1..Len(s), s[i] = Delete(o)
        PROVE  o[2] = m /\ o[1] # "ConfigMap"
    <2>1. i \in {1, 2, 3, 4}
      BY <1>1
    <2>2. o \in {Service(m), Deployment(m), PVC(m), PV(m)}
      BY <1>1, <1>2, <2>1, CallsDiffer
    <2>3. QED
      BY <2>2 DEF Service, Deployment, PVC, PV
  <1>3. m # Pgmoneta /\ m # Pgexporter /\ m # Monitoring
    BY ComponentsDiffer DEF Replicas
  <1>4. QED
    BY <1>2, <1>3, NeededComponents DEF Spares, Left, s

\* Either part of SyncAddons deletes the add-on that is not asked for.
LEMMA AddonsSpare ==
    ASSUME NEW spec \in SpecType PROVE Spares(spec, SyncAddons(spec))
  <1> DEFINE Front == IF spec.pgmoneta THEN SyncPgmoneta ELSE CleanupPgmoneta
             Back  == IF spec.pgexporter # "none"
                      THEN SyncPgexporter(spec.pgexporter = "monitored")
                      ELSE CleanupPgexporter
  <1>1. SyncAddons(spec) = Front \o Back
    BY DEF SyncAddons
  <1>2. Front \in Seq(Calls) /\ Back \in Seq(Calls)
    <2>1. SyncPgmoneta \in Seq(Calls) /\ CleanupPgmoneta \in Seq(Calls)
      BY ObjectTypes, CallTypes DEF SyncPgmoneta, CleanupPgmoneta, Deployment, PVC, Secret
    <2>2. CleanupPgexporter \in Seq(Calls)
      BY ObjectTypes, CallTypes DEF CleanupPgexporter, Deployment, Secret
    <2>3. \A b \in BOOLEAN : SyncPgexporter(b) \in Seq(Calls)
      BY ObjectTypes, CallTypes DEF SyncPgexporter, Deployment, Service, Secret
    <2>4. QED
      BY <2>1, <2>2, <2>3
  <1>3. ASSUME NEW o, Left(Delete(o), SyncPgmoneta) PROVE FALSE
    <2> DEFINE s == SyncPgmoneta
    <2>1. /\ Len(s) = 4
          /\ s[1] = Apply(PV(Pgmoneta)) /\ s[2] = Apply(PVC(Pgmoneta))
          /\ s[3] = Apply(Secret(Pgmoneta)) /\ s[4] = Apply(Deployment(Pgmoneta))
      BY DEF SyncPgmoneta
    <2> HIDE DEF s
    <2>2. PICK i \in 1..Len(s) : s[i] = Delete(o)
      BY <1>3 DEF Left, s
    <2>3. i \in {1, 2, 3, 4}
      BY <2>1
    <2>4. QED
      BY <2>1, <2>2, <2>3, CallsDiffer
  <1>4. ASSUME NEW o, Left(Delete(o), CleanupPgmoneta)
        PROVE  o[2] = Pgmoneta /\ o[1] # "ConfigMap"
    <2> DEFINE s == CleanupPgmoneta
    <2>1. /\ Len(s) = 4
          /\ s[1] = Delete(Deployment(Pgmoneta)) /\ s[2] = Delete(PVC(Pgmoneta))
          /\ s[3] = Delete(Secret(Pgmoneta)) /\ s[4] = Delete(PV(Pgmoneta))
      BY DEF CleanupPgmoneta
    <2> HIDE DEF s
    <2>2. PICK i \in 1..Len(s) : s[i] = Delete(o)
      BY <1>4 DEF Left, s
    <2>3. i \in {1, 2, 3, 4}
      BY <2>1
    <2>4. o \in {Deployment(Pgmoneta), PVC(Pgmoneta), Secret(Pgmoneta), PV(Pgmoneta)}
      BY <2>1, <2>2, <2>3, CallsDiffer
    <2>5. QED
      BY <2>4 DEF Secret, Deployment, PVC, PV
  <1>5. ASSUME NEW b \in BOOLEAN, NEW o, Left(Delete(o), SyncPgexporter(b))
        PROVE  ~b /\ o = Deployment(Monitoring)
    <2> DEFINE s == SyncPgexporter(b)
    <2>1. /\ Len(s) = 4
          /\ s[1] = Apply(Secret(Pgexporter)) /\ s[2] = Apply(Deployment(Pgexporter))
          /\ s[3] = Apply(Service(Pgexporter))
          /\ b => s[4] = Apply(Deployment(Monitoring))
          /\ ~b => s[4] = Delete(Deployment(Monitoring))
      BY DEF SyncPgexporter
    <2> HIDE DEF s
    <2>2. PICK i \in 1..Len(s) : s[i] = Delete(o)
      BY <1>5 DEF Left, s
    <2>3. i \in {1, 2, 3, 4}
      BY <2>1
    <2>4. QED
      BY <2>1, <2>2, <2>3, CallsDiffer
  <1>6. ASSUME NEW o, Left(Delete(o), CleanupPgexporter)
        PROVE  o[2] = Pgexporter /\ o[1] # "ConfigMap"
    <2> DEFINE s == CleanupPgexporter
    <2>1. /\ Len(s) = 2
          /\ s[1] = Delete(Deployment(Pgexporter)) /\ s[2] = Delete(Secret(Pgexporter))
      BY DEF CleanupPgexporter
    <2> HIDE DEF s
    <2>2. PICK i \in 1..Len(s) : s[i] = Delete(o)
      BY <1>6 DEF Left, s
    <2>3. o \in {Deployment(Pgexporter), Secret(Pgexporter)}
      BY <2>1, <2>2, CallsDiffer
    <2>4. QED
      BY <2>3 DEF Secret, Deployment
  <1>7. ASSUME NEW o \in Needed(spec) PROVE ~Left(Delete(o), Front)
    <2>1. spec.pgmoneta \in BOOLEAN
      BY DEF SpecType
    <2>2. CASE spec.pgmoneta
      BY <1>3, <2>2
    <2>3. CASE ~spec.pgmoneta
      BY <1>4, <2>3, NeededComponents, ComponentsDiffer
    <2>4. QED
      BY <2>1, <2>2, <2>3
  <1>8. ASSUME NEW o \in Needed(spec) PROVE ~Left(Delete(o), Back)
    <2>1. CASE spec.pgexporter # "none"
      <3>1. Left(Delete(o), Back) => spec.pgexporter # "monitored" /\ o = Deployment(Monitoring)
        BY <1>5, <2>1
      <3>2. o = Deployment(Monitoring) => o[2] = Monitoring /\ o[1] # "ConfigMap"
        BY DEF Deployment
      <3>3. QED
        BY <3>1, <3>2, NeededComponents, ComponentsDiffer
    <2>2. CASE spec.pgexporter = "none"
      BY <1>6, <2>2, NeededComponents, ComponentsDiffer
    <2>3. QED
      BY <2>1, <2>2
  <1> HIDE DEF Front, Back
  <1>9. QED
    BY <1>1, <1>2, <1>7, <1>8, LeftConcat DEF Spares

\* The part of KeptInv that is about the pass.
PassSpares ==
    /\ stage = "prune" => pending \cap MembersOf(snap.spec) = {}
    /\ stage \in SyncStages => Spares(snap.spec, todo)

LEMMA KeptParts == KeptInv <=> FinalizerInv /\ UidInv /\ OwnersHeld /\ PassSpares
  BY DEF KeptInv, PassSpares, Spares

\* Objects that stay are owned under the finalizer as long as that stays.
LEMMA OwnersStay ==
    ASSUME OwnersHeld, UNCHANGED children, cr'.uid \in {0, cr.uid},
           cr'.uid # 0 /\ cr.finalizer => cr'.finalizer
    PROVE  OwnersHeld'
  BY DEF OwnersHeld, Present, Owned

\* So are they when one of them goes.
LEMMA OwnersFewer ==
    ASSUME TypeOK, OwnersHeld, UNCHANGED cr,
           \E o \in Children : children' = [children EXCEPT ![o] = Absent]
    PROVE  OwnersHeld'
  BY DEF TypeOK, OwnersHeld, Present, Owned, Absent

\* Users leave the pass alone; a new incarnation owns nothing.
LEMMA KeptUsers == KeptInv /\ Users => OwnersHeld' /\ PassSpares'
  <1> SUFFICES ASSUME KeptInv, Users PROVE OwnersHeld' /\ PassSpares'
    OBVIOUS
  <1>1. TypeOK /\ SnapshotInv /\ UidInv /\ OwnersHeld /\ PassSpares
    BY KeptParts DEF FinalizerInv
  <1>2. UNCHANGED <<children, stage, todo, pending, snap>>
    BY DEF Users, DeleteCR, Create, Edit, job
  <1>3. PassSpares'
    BY <1>1, <1>2 DEF PassSpares
  <1>4. CASE DeleteCR
    <2>1. cr'.uid \in {0, cr.uid} /\ (cr'.uid # 0 /\ cr.finalizer => cr'.finalizer)
      BY <1>1, <1>4 DEF DeleteCR, NoCR, TypeOK, CRType
    <2>2. QED
      BY <1>1, <1>2, <1>3, <2>1, OwnersStay
  <1>5. ASSUME NEW spec \in Specs, Edit(spec) PROVE OwnersHeld' /\ PassSpares'
    <2>1. cr'.uid = cr.uid /\ cr'.finalizer = cr.finalizer
      BY <1>1, <1>5 DEF Edit, TypeOK, CRType
    <2>2. QED
      BY <1>1, <1>2, <1>3, <2>1, OwnersStay
  <1>6. ASSUME NEW spec \in Specs, Create(spec) PROVE OwnersHeld' /\ PassSpares'
    <2>1. cr'.uid = births + 1
      BY <1>6 DEF Create
    <2>2. \A o \in Children : children[o].owner # cr'.uid
      BY <1>1, <2>1, UidTypes DEF UidInv
    <2>3. QED
      BY <1>2, <1>3, <2>2 DEF OwnersHeld, Owned
  <1>7. QED
    BY <1>4, <1>5, <1>6 DEF Users

\* A pass begins with no call left.
LEMMA KeptRuntime == KeptInv /\ Runtime => OwnersHeld' /\ PassSpares'
  <1> SUFFICES ASSUME KeptInv, Runtime PROVE OwnersHeld' /\ PassSpares'
    OBVIOUS
  <1>1. JobInv /\ OwnersHeld /\ PassSpares
    BY KeptParts DEF FinalizerInv
  <1>2. UNCHANGED <<cr, children>>
    BY DEF Runtime, Watch, Start, Skip, server
  <1>3. OwnersHeld'
    BY <1>1, <1>2 DEF OwnersHeld, Present, Owned
  <1>4. CASE Watch \/ Skip
    <2>1. UNCHANGED <<stage, todo, pending, snap>>
      BY <1>4 DEF Watch, Skip, job
    <2>2. PassSpares'
      BY <1>1, <2>1 DEF PassSpares, Spares
    <2>3. QED
      BY <1>3, <2>2
  <1>5. CASE Start
    <2>1. todo' = << >> /\ stage' # "prune"
      BY <1>1, <1>5 DEF Start, JobInv
    <2>2. PassSpares'
      BY <2>1, EmptyPlan DEF PassSpares, Spares
    <2>3. QED
      BY <1>3, <2>2
  <1>6. QED
    BY <1>3, <1>4, <1>5 DEF Runtime

\* The plans of a sync spare what its spec asks for.
LEMMA KeptPlans ==
    ASSUME KeptInv,
           \/ CheckSpec \/ NextMember \/ ListStale \/ NextVictim \/ BeginAddons
           \/ ListReplicas \/ BeginRest \/ ListVolumes
    PROVE  OwnersHeld' /\ PassSpares'
  <1>1. TypeOK /\ OwnersHeld /\ PassSpares
    BY KeptParts DEF FinalizerInv
  <1>2. UNCHANGED <<cr, children>>
    BY DEF CheckSpec, NextMember, ListStale, NextVictim, BeginAddons, ListReplicas,
           BeginRest, ListVolumes, server
  <1>3. OwnersHeld'
    BY <1>1, <1>2 DEF OwnersHeld, Present, Owned
  <1>4. snap.spec \in SpecType
    BY <1>1, ResourceFields DEF TypeOK
  <1>5. CASE CheckSpec
    <2>1. \/ stage' = "idle"
          \/ /\ stage' \in {"invalid", "sync"} /\ snap' = snap
             /\ todo' \in {<< >>, SyncConfig(snap.spec)}
      BY <1>5 DEF CheckSpec, Continue, Requeue
    <2>2. Spares(snap.spec, << >>) /\ Spares(snap.spec, SyncConfig(snap.spec))
      BY SyncsSpare
    <2>3. QED
      BY <1>3, <2>1, <2>2 DEF PassSpares, SyncStages
  <1>6. CASE NextMember
    <2>1. PICK m \in pending : todo' = SyncMember(m)
      BY <1>6 DEF NextMember, Continue
    <2>2. stage' = "sync" /\ snap' = snap
      BY <1>6 DEF NextMember, Continue
    <2>3. Spares(snap.spec, SyncMember(m))
      BY SyncsSpare
    <2>4. QED
      BY <1>3, <2>1, <2>2, <2>3 DEF PassSpares
  <1>7. CASE ListStale
    <2>1. /\ stage' = "prune" /\ todo' = << >> /\ snap' = snap
          /\ \A m \in pending' : m \in Replicas /\ Ordinal(m) > snap.spec.replicas
      BY <1>7 DEF ListStale, Continue
    <2>2. ASSUME NEW m \in Replicas, Ordinal(m) > snap.spec.replicas
          PROVE  m \notin MembersOf(snap.spec)
      <3>1. PICK i \in 1..MaxReplicas : m = Replica(i)
        BY DEF Replicas
      <3>2. i > snap.spec.replicas /\ snap.spec.replicas \in Nat
        BY <1>4, <2>2, <3>1, TopologyAssumption DEF Ordinal, Replica, SpecType
      <3>3. \A j \in 1..snap.spec.replicas : Replica(j) # Replica(i)
        BY <3>2, TopologyAssumption DEF Replica
      <3>4. QED
        BY <3>1, <3>3, ComponentsDiffer DEF MembersOf
    <2>3. pending' \cap MembersOf(snap.spec) = {}
      BY <2>1, <2>2
    <2>4. QED
      BY <1>3, <2>1, <2>3, SyncsSpare DEF PassSpares
  <1>8. CASE NextVictim
    <2>1. PICK m \in pending : todo' = DeleteReplicaStack(m) /\ pending' = pending \ {m}
      BY <1>8 DEF NextVictim, Continue
    <2>2. stage \in {"prune", "drain"} /\ stage' = stage /\ snap' = snap
      BY <1>8 DEF NextVictim, Continue
    <2>3. stage = "prune" => m \in Replicas \ MembersOf(snap.spec)
      BY <1>1, <2>1 DEF TypeOK, PassSpares
    <2>4. stage = "prune" => Spares(snap.spec, todo')
      BY <2>1, <2>3, StaleStackSpares
    <2>5. QED
      BY <1>1, <1>3, <2>1, <2>2, <2>4 DEF PassSpares, SyncStages
  <1>9. CASE BeginAddons
    <2>1. todo' = SyncAddons(snap.spec) /\ stage' = "addons" /\ snap' = snap
      BY <1>9 DEF BeginAddons, Continue
    <2>2. QED
      BY <1>3, <1>4, <2>1, AddonsSpare DEF PassSpares
  <1>10. CASE ListReplicas \/ BeginRest \/ ListVolumes
    <2>1. stage' \in {"drain", "rest", "purge"}
      BY <1>10 DEF ListReplicas, BeginRest, ListVolumes, Continue
    <2>2. QED
      BY <1>3, <2>1 DEF PassSpares, SyncStages
  <1>11. QED
    BY <1>3, <1>5, <1>6, <1>7, <1>8, <1>9, <1>10

\* A call that is made is one less.
LEMMA KeptCalls ==
    ASSUME KeptInv, Sync \/ SyncCluster \/ DeleteChild \/ DeleteCluster
    PROVE  OwnersHeld' /\ PassSpares'
  <1>1. TypeOK /\ OwnersHeld /\ PassSpares /\ FinalizerInv
    BY KeptParts DEF FinalizerInv
  <1>2. PICK verb, objects : verb \in {"apply", "delete"} /\ NextCall(verb, objects)
    BY DEF Sync, SyncCluster, DeleteChild, DeleteCluster
  <1>3. /\ todo \in Seq(Calls) /\ todo # << >> /\ todo' = Tail(todo)
        /\ UNCHANGED <<cr, stage, snap, pending>>
    BY <1>1, <1>2, CallIs
  <1>4. PassSpares'
    BY <1>1, <1>3, LeftTail DEF PassSpares, Spares
  <1>5. CASE SyncCluster \/ DeleteCluster
    BY <1>1, <1>3, <1>4, <1>5 DEF SyncCluster, DeleteCluster, OwnersHeld, Present, Owned
  <1>6. CASE DeleteChild
    <2>1. Head(todo).object \in Children
      BY <1>6 DEF DeleteChild, NextCall
    <2>2. QED
      BY <1>1, <1>3, <1>4, <1>6, <2>1, OwnersFewer DEF DeleteChild
  <1>7. CASE Sync
    <2>1. cr.finalizer
      BY <1>1, <1>7, ApplyHeld DEF Sync, Held
    <2>2. QED
      BY <1>3, <1>4, <2>1 DEF OwnersHeld
  <1>8. QED
    BY <1>5, <1>6, <1>7

\* The ends of a pass, the volumes it purges and what goes wrong.
LEMMA KeptEnds ==
    ASSUME KeptInv,
           \/ AddFinalizer \/ PatchStatus \/ PurgeVolume \/ RemoveFinalizer
           \/ Fail \/ RemoveFinalizerUnanswered \/ Crash
    PROVE  OwnersHeld' /\ PassSpares'
  <1>1. TypeOK /\ SnapshotInv /\ JobInv /\ OwnersHeld /\ PassSpares
    BY KeptParts DEF FinalizerInv
  <1>2. \/ stage' \in {"idle", "purge"}
        \/ stage' = "check" /\ todo' = << >>
    <2>1. Requeue => stage' = "idle"
      BY DEF Requeue
    <2>2. Continue("check", << >>, {}) => stage' = "check" /\ todo' = << >>
      BY DEF Continue
    <2>3. AddFinalizer => Continue("check", << >>, {}) \/ Requeue
      BY DEF AddFinalizer
    <2>4. PatchStatus \/ RemoveFinalizerUnanswered \/ Fail => Requeue
      BY DEF PatchStatus, RemoveFinalizerUnanswered, Fail
    <2>5. PurgeVolume => stage' = "purge"
      BY DEF PurgeVolume, Continue
    <2>6. RemoveFinalizer \/ Crash => stage' = "idle"
      BY <2>1 DEF RemoveFinalizer, Crash
    <2>7. QED
      BY <2>1, <2>2, <2>3, <2>4, <2>5, <2>6
  <1>3. PassSpares'
    BY <1>2, EmptyPlan DEF PassSpares, Spares, SyncStages
  <1>4. UNCHANGED children
    BY DEF AddFinalizer, PatchStatus, PurgeVolume, RemoveFinalizer, Fail,
           RemoveFinalizerUnanswered, Crash, server
  <1>5. CASE AddFinalizer \/ PatchStatus \/ PurgeVolume \/ Fail \/ Crash
    <2>1. cr'.uid = cr.uid /\ (cr.finalizer => cr'.finalizer)
      BY <1>1, <1>5 DEF AddFinalizer, PatchStatus, PurgeVolume, Fail, Crash, server,
                        TypeOK, CRType
    <2>2. QED
      BY <1>1, <1>3, <1>4, <2>1, OwnersStay
  <1>6. CASE RemoveFinalizer \/ RemoveFinalizerUnanswered
    <2>1. cr.finalizer => cr.deleting
      BY <1>1, <1>6 DEF RemoveFinalizer, RemoveFinalizerUnanswered, SnapshotInv, CleanupStages
    <2>2. cr'.uid \in {0, cr.uid} /\ (cr'.uid # 0 /\ cr.finalizer => cr'.finalizer)
      BY <1>1, <1>6, <2>1 DEF RemoveFinalizer, RemoveFinalizerUnanswered, NoCR, TypeOK,
                              CRType, Exists
    <2>3. QED
      BY <1>1, <1>3, <1>4, <2>2, OwnersStay
  <1>7. QED
    BY <1>5, <1>6

\* Objects that are lost.
LEMMA KeptLost ==
    ASSUME KeptInv, Drift \/ GarbageCollect PROVE OwnersHeld' /\ PassSpares'
  <1>1. TypeOK /\ OwnersHeld /\ PassSpares
    BY KeptParts DEF FinalizerInv
  <1>2. UNCHANGED <<cr, stage, todo, pending, snap>>
    BY DEF Drift, GarbageCollect, job
  <1>3. \E o \in Children : children' = [children EXCEPT ![o] = Absent]
    BY DEF Drift, GarbageCollect
  <1>4. QED
    BY <1>1, <1>2, <1>3, OwnersFewer DEF PassSpares

\* KeptInv is inductive.
LEMMA KeptStep == KeptInv /\ [Next]_vars => KeptInv'
  <1> SUFFICES ASSUME KeptInv, [Next]_vars PROVE KeptInv'
    OBVIOUS
  <1>1. FinalizerInv' /\ UidInv'
    BY KeptParts, FinalizerStep, UidStep
  <1>2. CASE UNCHANGED vars
    <2>1. UNCHANGED <<cr, children, stage, todo, pending, snap>>
      BY <1>2 DEF vars, server, job
    <2>2. OwnersHeld' /\ PassSpares'
      BY <2>1, KeptParts DEF OwnersHeld, Present, Owned, PassSpares
    <2>3. QED
      BY <1>1, <2>2 DEF KeptInv, PassSpares, Spares
  <1>3. CASE Next
    <2>1. OwnersHeld' /\ PassSpares'
      BY <1>3, KeptUsers, KeptRuntime, KeptPlans, KeptCalls, KeptEnds, KeptLost
         DEF Next, Steps, Mishaps
    <2>2. QED
      BY <1>1, <2>1 DEF KeptInv, PassSpares, Spares
  <1>4. QED
    BY <1>2, <1>3

LEMMA KeptInit == Init => KeptInv
  <1> SUFFICES ASSUME Init PROVE KeptInv
    OBVIOUS
  <1>1. FinalizerInv /\ UidInv
    BY FinalizerInit, UidInit
  <1>2. OwnersHeld /\ stage = "idle"
    BY DEF Init, OwnersHeld, Present, Absent
  <1>3. QED
    BY <1>1, <1>2 DEF KeptInv, SyncStages

\* The inductive invariant holds: the deletions a sync has left, and the stacks
\* it is going to delete, are none of what its spec asks for.
THEOREM KeptInvariant == Spec => []KeptInv
  BY KeptInit, KeptStep, PTL DEF Spec

\* A volume that goes was not asked for by the spec the pass works for, or its
\* resource is being deleted.
LEMMA VolumeGoes ==
    ASSUME KeptInv, [Next]_vars, NEW m \in volumes, m \notin volumes'
    PROVE  cr.deleting \/ m \notin WantedVolumes(snap.spec)
  <1>1. TypeOK /\ SnapshotInv /\ JobInv /\ PassSpares
    BY KeptParts DEF FinalizerInv
  <1>2. cr.finalizer
    BY KeptParts DEF FinalizerInv, FinalizerGuard, Held
  <1>3. DeleteCluster \/ PurgeVolume
    BY DEF Next, Users, DeleteCR, Create, Edit, Runtime, Watch, Start, Skip, Steps,
           AddFinalizer, CheckSpec, NextMember, ListStale, NextVictim, BeginAddons,
           PatchStatus, Sync, SyncCluster, DeleteChild, ListReplicas, BeginRest,
           ListVolumes, RemoveFinalizer, Mishaps, Fail, RemoveFinalizerUnanswered,
           Crash, Drift, GarbageCollect, vars, server
  <1>4. CASE stage \in CleanupStages
    BY <1>1, <1>2, <1>4 DEF SnapshotInv
  <1>5. CASE stage \notin CleanupStages
    <2>1. DeleteCluster /\ NextCall("delete", Volumes)
      BY <1>3, <1>5 DEF PurgeVolume, DeleteCluster, CleanupStages
    <2>2. /\ todo \in Seq(Calls) /\ todo # << >>
          /\ Head(todo) = Delete(Head(todo).object)
      BY <1>1, <2>1, CallIs
    <2>3. stage \in SyncStages
      BY <1>1, <1>5, <2>2 DEF TypeOK, Stages, SyncStages, CleanupStages, JobInv
    <2>4. Left(Delete(Head(todo).object), todo)
      <3>1. todo[1] = Delete(Head(todo).object) /\ 1 \in 1..Len(todo)
        BY <2>2
      <3>2. QED
        BY <3>1 DEF Left
    <2>5. Head(todo).object = PV(m)
      <3>1. Head(todo).object \in Volumes /\ Head(todo).object[2] = m
        BY <2>1 DEF NextCall, DeleteCluster
      <3>2. QED
        BY <3>1 DEF Volumes, PV
    <2>6. PV(m) \notin Needed(snap.spec)
      BY <1>1, <2>3, <2>4, <2>5 DEF PassSpares, Spares
    <2>7. QED
      BY <2>6 DEF Needed, PV
  <1>6. QED
    BY <1>4, <1>5

\* So was an object of the current resource, unless it drifted.
LEMMA ChildGoes ==
    ASSUME KeptInv, [Next]_vars, NEW o \in Children, Present(o), Owned(o), ~Present(o)'
    PROVE  cr.deleting \/ Drift \/ o \notin WantedChildren(snap.spec)
  <1>1. TypeOK /\ SnapshotInv /\ JobInv /\ PassSpares
    BY KeptParts DEF FinalizerInv
  <1>2. cr.finalizer
    BY KeptParts DEF OwnersHeld
  <1>3. children'[o] # children[o]
    BY DEF Present
  <1>4. Sync \/ DeleteChild \/ Drift \/ GarbageCollect
    BY <1>3 DEF Next, Users, DeleteCR, Create, Edit, Runtime, Watch, Start, Skip, Steps,
           AddFinalizer, CheckSpec, NextMember, ListStale, NextVictim, BeginAddons,
           PatchStatus, SyncCluster, DeleteCluster, ListReplicas, BeginRest,
           ListVolumes, PurgeVolume, RemoveFinalizer, Mishaps, Fail,
           RemoveFinalizerUnanswered, Crash, vars, server
  <1>5. CASE GarbageCollect
    <2>1. PICK x \in Children : /\ children[x].owner \notin {0, cr.uid}
                                /\ children' = [children EXCEPT ![x] = Absent]
      BY <1>5 DEF GarbageCollect
    <2>2. x = o
      BY <1>1, <1>3, <2>1 DEF TypeOK
    <2>3. QED
      BY <2>1, <2>2 DEF Owned
  <1>6. CASE Sync
    <2>1. NextCall("apply", Children)
      BY <1>6 DEF Sync
    <2>2. stage \in SyncStages /\ Exists(snap)
      BY <1>1, <2>1, ApplyStage, KeptParts DEF UidInv, SyncStages, FinalizerInv
    <2>3. children'[o].owner = snap.uid
      BY <1>1, <1>3, <1>6 DEF Sync, TypeOK, Applied
    <2>4. QED
      BY <2>2, <2>3 DEF Present, Exists
  <1>7. CASE DeleteChild
    <2>1. NextCall("delete", Children)
      BY <1>7 DEF DeleteChild
    <2>2. /\ todo \in Seq(Calls) /\ todo # << >>
          /\ Head(todo) = Delete(Head(todo).object)
      BY <1>1, <2>1, CallIs
    <2>3. Head(todo).object = o
      BY <1>1, <1>3, <1>7 DEF DeleteChild, TypeOK
    <2>4. CASE stage \in CleanupStages
      BY <1>1, <1>2, <2>4 DEF SnapshotInv
    <2>5. CASE stage \notin CleanupStages
      <3>1. stage \in SyncStages
        BY <1>1, <2>2, <2>5 DEF TypeOK, Stages, SyncStages, CleanupStages, JobInv
      <3>2. todo[1] = Delete(o) /\ 1 \in 1..Len(todo)
        BY <2>2, <2>3
      <3>3. Left(Delete(o), todo)
        BY <3>2 DEF Left
      <3>4. QED
        BY <1>1, <3>1, <3>3 DEF PassSpares, Spares, Needed
    <2>6. QED
      BY <2>4, <2>5
  <1>8. QED
    BY <1>4, <1>5, <1>6, <1>7

\* No pass takes away what the spec it works for asks for: of a resource that
\* is not being deleted neither a member's data nor anything else, whatever the
\* pass was given and listed, and whatever has changed since.
THEOREM WantedAlwaysKept == Spec => WantedKept
  <1>1. KeptInv /\ [Next]_vars
        => [/\ \A m \in volumes \ volumes' : cr.deleting \/ m \notin WantedVolumes(snap.spec)
            /\ \A o \in Children :
                  Present(o) /\ Owned(o) /\ ~Present(o)' =>
                     cr.deleting \/ Drift \/ o \notin WantedChildren(snap.spec)]_vars
    BY VolumeGoes, ChildGoes
  <1>2. QED
    BY <1>1, KeptInvariant, PTL DEF Spec, WantedKept

\* Everything the proofs know of a pass in the middle of its calls.
THEOREM PassInvariant == Spec => []PassInv
  BY StorageInvariant, ConfigInvariant, KeptInvariant, PTL DEF PassInv
=============================================================================
