-------------------------- MODULE Operators_proofs --------------------------
(* Proofs about Operators: types, and the guard until the rollout begins.  *)
(* Each process is one of Reconciler, so what Reconciler_proofs shows of   *)
(* single steps holds of it; what is left is the state the two share.      *)
EXTENDS Operators, TLAPS

OldP == INSTANCE Reconciler_proofs WITH
    cache <- oldCache, due <- oldDue, stage <- oldStage,
    snap <- oldSnap, todo <- oldTodo, pending <- oldPending

NewP == INSTANCE Reconciler_proofs WITH
    cache <- newCache, due <- newDue, stage <- newStage,
    snap <- newSnap, todo <- newTodo, pending <- newPending

-----------------------------------------------------------------------------
\* Seen from here or with the proofs, the old process is the same.
USE DEF
    Old!NoConfig, Old!BadConfig, Old!SpecType, Old!Primary, Old!Replica, Old!Pgmoneta,
    Old!Pgexporter, Old!Monitoring, Old!Config, Old!Replicas, Old!Members, Old!Configs,
    Old!Ordinal, Old!MembersOf, Old!Stacks, Old!Children, Old!Volumes, Old!Deployment,
    Old!Service, Old!PVC, Old!Secret, Old!PV, Old!Apply, Old!Delete, Old!Calls,
    Old!DeleteCalls, Old!Kept, Old!PlannedCalls, Old!SyncConfig, Old!SyncMember,
    Old!DeleteReplicaStack, Old!SyncPgmoneta, Old!CleanupPgmoneta, Old!SyncPgexporter,
    Old!CleanupPgexporter, Old!SyncAddons, Old!CleanupRest, Old!server, Old!job,
    Old!budget, Old!vars, Old!NoSpec, Old!Held, Old!NoCR, Old!CRType, Old!Exists, Old!Entry,
    Old!Absent, Old!Present, Old!Stages, Old!SyncStages, Old!CleanupStages, Old!TypeOK,
    Old!Init, Old!Create, Old!Edit, Old!DeleteCR, Old!Watch, Old!Start, Old!Skip,
    Old!Requeue, Old!Continue, Old!AddFinalizer, Old!CheckSpec, Old!NextMember,
    Old!ListStale, Old!NextVictim, Old!BeginAddons, Old!PatchStatus, Old!NextCall,
    Old!Applied, Old!Sync, Old!SyncCluster, Old!DeleteChild, Old!DeleteCluster,
    Old!ListReplicas, Old!BeginRest, Old!ListVolumes, Old!PurgeVolume, Old!RemoveFinalizer,
    Old!UseFault, Old!Fail, Old!RemoveFinalizerUnanswered, Old!Crash, Old!Drift,
    Old!GarbageCollect, Old!Users, Old!Runtime, Old!Steps, Old!Mishaps, Old!FinalizerGuard,
    OldP!NoConfig, OldP!BadConfig, OldP!SpecType, OldP!Primary, OldP!Replica,
    OldP!Pgmoneta, OldP!Pgexporter, OldP!Monitoring, OldP!Config, OldP!Replicas,
    OldP!Members, OldP!Configs, OldP!Ordinal, OldP!MembersOf, OldP!Stacks, OldP!Children,
    OldP!Volumes, OldP!Deployment, OldP!Service, OldP!PVC, OldP!Secret, OldP!PV,
    OldP!Apply, OldP!Delete, OldP!Calls, OldP!DeleteCalls, OldP!Kept, OldP!PlannedCalls,
    OldP!SyncConfig, OldP!SyncMember, OldP!DeleteReplicaStack, OldP!SyncPgmoneta,
    OldP!CleanupPgmoneta, OldP!SyncPgexporter, OldP!CleanupPgexporter, OldP!SyncAddons,
    OldP!CleanupRest, OldP!server, OldP!job, OldP!budget, OldP!vars, OldP!NoSpec, OldP!Held,
    OldP!NoCR, OldP!CRType, OldP!Exists, OldP!Entry, OldP!Absent, OldP!Present,
    OldP!Stages, OldP!SyncStages, OldP!CleanupStages, OldP!TypeOK, OldP!Init, OldP!Create,
    OldP!Edit, OldP!DeleteCR, OldP!Watch, OldP!Start, OldP!Skip, OldP!Requeue,
    OldP!Continue, OldP!AddFinalizer, OldP!CheckSpec, OldP!NextMember, OldP!ListStale,
    OldP!NextVictim, OldP!BeginAddons, OldP!PatchStatus, OldP!NextCall, OldP!Applied,
    OldP!Sync, OldP!SyncCluster, OldP!DeleteChild, OldP!DeleteCluster, OldP!ListReplicas,
    OldP!BeginRest, OldP!ListVolumes, OldP!PurgeVolume, OldP!RemoveFinalizer,
    OldP!UseFault, OldP!Fail, OldP!RemoveFinalizerUnanswered, OldP!Crash, OldP!Drift,
    OldP!GarbageCollect, OldP!Users, OldP!Runtime, OldP!Steps, OldP!Mishaps,
    OldP!FinalizerGuard
LEMMA OldSame ==
    /\ Old!TypeOK <=> OldP!TypeOK
    /\ Old!Init <=> OldP!Init
    /\ Old!Users <=> OldP!Users
    /\ Old!Runtime <=> OldP!Runtime
    /\ Old!Steps <=> OldP!Steps
    /\ Old!Mishaps <=> OldP!Mishaps
    /\ Old!GarbageCollect <=> OldP!GarbageCollect
    /\ Old!FinalizerGuard <=> OldP!FinalizerGuard
  <1>1. Old!TypeOK <=> OldP!TypeOK
    OBVIOUS
  <1>2. Old!Init <=> OldP!Init
    OBVIOUS
  <1>3. Old!Users <=> OldP!Users
    OBVIOUS
  <1>4. Old!Runtime <=> OldP!Runtime
    OBVIOUS
  <1>5. Old!Steps <=> OldP!Steps
    OBVIOUS
  <1>6. Old!Mishaps <=> OldP!Mishaps
    OBVIOUS
  <1>7. Old!GarbageCollect <=> OldP!GarbageCollect
    OBVIOUS
  <1>8. Old!FinalizerGuard <=> OldP!FinalizerGuard
    OBVIOUS
  <1>9. QED
    BY ONLY <1>1, <1>2, <1>3, <1>4, <1>5, <1>6, <1>7, <1>8
HIDE DEF
    Old!NoConfig, Old!BadConfig, Old!SpecType, Old!Primary, Old!Replica, Old!Pgmoneta,
    Old!Pgexporter, Old!Monitoring, Old!Config, Old!Replicas, Old!Members, Old!Configs,
    Old!Ordinal, Old!MembersOf, Old!Stacks, Old!Children, Old!Volumes, Old!Deployment,
    Old!Service, Old!PVC, Old!Secret, Old!PV, Old!Apply, Old!Delete, Old!Calls,
    Old!DeleteCalls, Old!Kept, Old!PlannedCalls, Old!SyncConfig, Old!SyncMember,
    Old!DeleteReplicaStack, Old!SyncPgmoneta, Old!CleanupPgmoneta, Old!SyncPgexporter,
    Old!CleanupPgexporter, Old!SyncAddons, Old!CleanupRest, Old!server, Old!job,
    Old!budget, Old!vars, Old!NoSpec, Old!Held, Old!NoCR, Old!CRType, Old!Exists, Old!Entry,
    Old!Absent, Old!Present, Old!Stages, Old!SyncStages, Old!CleanupStages, Old!TypeOK,
    Old!Init, Old!Create, Old!Edit, Old!DeleteCR, Old!Watch, Old!Start, Old!Skip,
    Old!Requeue, Old!Continue, Old!AddFinalizer, Old!CheckSpec, Old!NextMember,
    Old!ListStale, Old!NextVictim, Old!BeginAddons, Old!PatchStatus, Old!NextCall,
    Old!Applied, Old!Sync, Old!SyncCluster, Old!DeleteChild, Old!DeleteCluster,
    Old!ListReplicas, Old!BeginRest, Old!ListVolumes, Old!PurgeVolume, Old!RemoveFinalizer,
    Old!UseFault, Old!Fail, Old!RemoveFinalizerUnanswered, Old!Crash, Old!Drift,
    Old!GarbageCollect, Old!Users, Old!Runtime, Old!Steps, Old!Mishaps, Old!FinalizerGuard,
    OldP!NoConfig, OldP!BadConfig, OldP!SpecType, OldP!Primary, OldP!Replica,
    OldP!Pgmoneta, OldP!Pgexporter, OldP!Monitoring, OldP!Config, OldP!Replicas,
    OldP!Members, OldP!Configs, OldP!Ordinal, OldP!MembersOf, OldP!Stacks, OldP!Children,
    OldP!Volumes, OldP!Deployment, OldP!Service, OldP!PVC, OldP!Secret, OldP!PV,
    OldP!Apply, OldP!Delete, OldP!Calls, OldP!DeleteCalls, OldP!Kept, OldP!PlannedCalls,
    OldP!SyncConfig, OldP!SyncMember, OldP!DeleteReplicaStack, OldP!SyncPgmoneta,
    OldP!CleanupPgmoneta, OldP!SyncPgexporter, OldP!CleanupPgexporter, OldP!SyncAddons,
    OldP!CleanupRest, OldP!server, OldP!job, OldP!budget, OldP!vars, OldP!NoSpec, OldP!Held,
    OldP!NoCR, OldP!CRType, OldP!Exists, OldP!Entry, OldP!Absent, OldP!Present,
    OldP!Stages, OldP!SyncStages, OldP!CleanupStages, OldP!TypeOK, OldP!Init, OldP!Create,
    OldP!Edit, OldP!DeleteCR, OldP!Watch, OldP!Start, OldP!Skip, OldP!Requeue,
    OldP!Continue, OldP!AddFinalizer, OldP!CheckSpec, OldP!NextMember, OldP!ListStale,
    OldP!NextVictim, OldP!BeginAddons, OldP!PatchStatus, OldP!NextCall, OldP!Applied,
    OldP!Sync, OldP!SyncCluster, OldP!DeleteChild, OldP!DeleteCluster, OldP!ListReplicas,
    OldP!BeginRest, OldP!ListVolumes, OldP!PurgeVolume, OldP!RemoveFinalizer,
    OldP!UseFault, OldP!Fail, OldP!RemoveFinalizerUnanswered, OldP!Crash, OldP!Drift,
    OldP!GarbageCollect, OldP!Users, OldP!Runtime, OldP!Steps, OldP!Mishaps,
    OldP!FinalizerGuard

\* Seen from here or with the proofs, the new process is the same.
USE DEF
    New!NoConfig, New!BadConfig, New!SpecType, New!Primary, New!Replica, New!Pgmoneta,
    New!Pgexporter, New!Monitoring, New!Config, New!Replicas, New!Members, New!Configs,
    New!Ordinal, New!MembersOf, New!Stacks, New!Children, New!Volumes, New!Deployment,
    New!Service, New!PVC, New!Secret, New!PV, New!Apply, New!Delete, New!Calls,
    New!DeleteCalls, New!Kept, New!PlannedCalls, New!SyncConfig, New!SyncMember,
    New!DeleteReplicaStack, New!SyncPgmoneta, New!CleanupPgmoneta, New!SyncPgexporter,
    New!CleanupPgexporter, New!SyncAddons, New!CleanupRest, New!server, New!job,
    New!budget, New!vars, New!NoSpec, New!Held, New!NoCR, New!CRType, New!Exists, New!Entry,
    New!Absent, New!Present, New!Stages, New!SyncStages, New!CleanupStages, New!TypeOK,
    New!Init, New!Create, New!Edit, New!DeleteCR, New!Watch, New!Start, New!Skip,
    New!Requeue, New!Continue, New!AddFinalizer, New!CheckSpec, New!NextMember,
    New!ListStale, New!NextVictim, New!BeginAddons, New!PatchStatus, New!NextCall,
    New!Applied, New!Sync, New!SyncCluster, New!DeleteChild, New!DeleteCluster,
    New!ListReplicas, New!BeginRest, New!ListVolumes, New!PurgeVolume, New!RemoveFinalizer,
    New!UseFault, New!Fail, New!RemoveFinalizerUnanswered, New!Crash, New!Drift,
    New!GarbageCollect, New!Users, New!Runtime, New!Steps, New!Mishaps, New!FinalizerGuard,
    NewP!NoConfig, NewP!BadConfig, NewP!SpecType, NewP!Primary, NewP!Replica,
    NewP!Pgmoneta, NewP!Pgexporter, NewP!Monitoring, NewP!Config, NewP!Replicas,
    NewP!Members, NewP!Configs, NewP!Ordinal, NewP!MembersOf, NewP!Stacks, NewP!Children,
    NewP!Volumes, NewP!Deployment, NewP!Service, NewP!PVC, NewP!Secret, NewP!PV,
    NewP!Apply, NewP!Delete, NewP!Calls, NewP!DeleteCalls, NewP!Kept, NewP!PlannedCalls,
    NewP!SyncConfig, NewP!SyncMember, NewP!DeleteReplicaStack, NewP!SyncPgmoneta,
    NewP!CleanupPgmoneta, NewP!SyncPgexporter, NewP!CleanupPgexporter, NewP!SyncAddons,
    NewP!CleanupRest, NewP!server, NewP!job, NewP!budget, NewP!vars, NewP!NoSpec, NewP!Held,
    NewP!NoCR, NewP!CRType, NewP!Exists, NewP!Entry, NewP!Absent, NewP!Present,
    NewP!Stages, NewP!SyncStages, NewP!CleanupStages, NewP!TypeOK, NewP!Init, NewP!Create,
    NewP!Edit, NewP!DeleteCR, NewP!Watch, NewP!Start, NewP!Skip, NewP!Requeue,
    NewP!Continue, NewP!AddFinalizer, NewP!CheckSpec, NewP!NextMember, NewP!ListStale,
    NewP!NextVictim, NewP!BeginAddons, NewP!PatchStatus, NewP!NextCall, NewP!Applied,
    NewP!Sync, NewP!SyncCluster, NewP!DeleteChild, NewP!DeleteCluster, NewP!ListReplicas,
    NewP!BeginRest, NewP!ListVolumes, NewP!PurgeVolume, NewP!RemoveFinalizer,
    NewP!UseFault, NewP!Fail, NewP!RemoveFinalizerUnanswered, NewP!Crash, NewP!Drift,
    NewP!GarbageCollect, NewP!Users, NewP!Runtime, NewP!Steps, NewP!Mishaps,
    NewP!FinalizerGuard
LEMMA NewSame ==
    /\ New!TypeOK <=> NewP!TypeOK
    /\ New!Init <=> NewP!Init
    /\ New!Users <=> NewP!Users
    /\ New!Runtime <=> NewP!Runtime
    /\ New!Steps <=> NewP!Steps
    /\ New!Mishaps <=> NewP!Mishaps
    /\ New!GarbageCollect <=> NewP!GarbageCollect
    /\ New!FinalizerGuard <=> NewP!FinalizerGuard
  <1>1. New!TypeOK <=> NewP!TypeOK
    OBVIOUS
  <1>2. New!Init <=> NewP!Init
    OBVIOUS
  <1>3. New!Users <=> NewP!Users
    OBVIOUS
  <1>4. New!Runtime <=> NewP!Runtime
    OBVIOUS
  <1>5. New!Steps <=> NewP!Steps
    OBVIOUS
  <1>6. New!Mishaps <=> NewP!Mishaps
    OBVIOUS
  <1>7. New!GarbageCollect <=> NewP!GarbageCollect
    OBVIOUS
  <1>8. New!FinalizerGuard <=> NewP!FinalizerGuard
    OBVIOUS
  <1>9. QED
    BY ONLY <1>1, <1>2, <1>3, <1>4, <1>5, <1>6, <1>7, <1>8
HIDE DEF
    New!NoConfig, New!BadConfig, New!SpecType, New!Primary, New!Replica, New!Pgmoneta,
    New!Pgexporter, New!Monitoring, New!Config, New!Replicas, New!Members, New!Configs,
    New!Ordinal, New!MembersOf, New!Stacks, New!Children, New!Volumes, New!Deployment,
    New!Service, New!PVC, New!Secret, New!PV, New!Apply, New!Delete, New!Calls,
    New!DeleteCalls, New!Kept, New!PlannedCalls, New!SyncConfig, New!SyncMember,
    New!DeleteReplicaStack, New!SyncPgmoneta, New!CleanupPgmoneta, New!SyncPgexporter,
    New!CleanupPgexporter, New!SyncAddons, New!CleanupRest, New!server, New!job,
    New!budget, New!vars, New!NoSpec, New!Held, New!NoCR, New!CRType, New!Exists, New!Entry,
    New!Absent, New!Present, New!Stages, New!SyncStages, New!CleanupStages, New!TypeOK,
    New!Init, New!Create, New!Edit, New!DeleteCR, New!Watch, New!Start, New!Skip,
    New!Requeue, New!Continue, New!AddFinalizer, New!CheckSpec, New!NextMember,
    New!ListStale, New!NextVictim, New!BeginAddons, New!PatchStatus, New!NextCall,
    New!Applied, New!Sync, New!SyncCluster, New!DeleteChild, New!DeleteCluster,
    New!ListReplicas, New!BeginRest, New!ListVolumes, New!PurgeVolume, New!RemoveFinalizer,
    New!UseFault, New!Fail, New!RemoveFinalizerUnanswered, New!Crash, New!Drift,
    New!GarbageCollect, New!Users, New!Runtime, New!Steps, New!Mishaps, New!FinalizerGuard,
    NewP!NoConfig, NewP!BadConfig, NewP!SpecType, NewP!Primary, NewP!Replica,
    NewP!Pgmoneta, NewP!Pgexporter, NewP!Monitoring, NewP!Config, NewP!Replicas,
    NewP!Members, NewP!Configs, NewP!Ordinal, NewP!MembersOf, NewP!Stacks, NewP!Children,
    NewP!Volumes, NewP!Deployment, NewP!Service, NewP!PVC, NewP!Secret, NewP!PV,
    NewP!Apply, NewP!Delete, NewP!Calls, NewP!DeleteCalls, NewP!Kept, NewP!PlannedCalls,
    NewP!SyncConfig, NewP!SyncMember, NewP!DeleteReplicaStack, NewP!SyncPgmoneta,
    NewP!CleanupPgmoneta, NewP!SyncPgexporter, NewP!CleanupPgexporter, NewP!SyncAddons,
    NewP!CleanupRest, NewP!server, NewP!job, NewP!budget, NewP!vars, NewP!NoSpec, NewP!Held,
    NewP!NoCR, NewP!CRType, NewP!Exists, NewP!Entry, NewP!Absent, NewP!Present,
    NewP!Stages, NewP!SyncStages, NewP!CleanupStages, NewP!TypeOK, NewP!Init, NewP!Create,
    NewP!Edit, NewP!DeleteCR, NewP!Watch, NewP!Start, NewP!Skip, NewP!Requeue,
    NewP!Continue, NewP!AddFinalizer, NewP!CheckSpec, NewP!NextMember, NewP!ListStale,
    NewP!NextVictim, NewP!BeginAddons, NewP!PatchStatus, NewP!NextCall, NewP!Applied,
    NewP!Sync, NewP!SyncCluster, NewP!DeleteChild, NewP!DeleteCluster, NewP!ListReplicas,
    NewP!BeginRest, NewP!ListVolumes, NewP!PurgeVolume, NewP!RemoveFinalizer,
    NewP!UseFault, NewP!Fail, NewP!RemoveFinalizerUnanswered, NewP!Crash, NewP!Drift,
    NewP!GarbageCollect, NewP!Users, NewP!Runtime, NewP!Steps, NewP!Mishaps,
    NewP!FinalizerGuard

-----------------------------------------------------------------------------
(* Types.                                                                  *)

\* The constants of each process are the ones assumed of here.
LEMMA OldAssumed == Specs \subseteq OldP!SpecType
  BY OperatorsAssumption
  DEF SpecType, NoConfig, BadConfig, OldP!SpecType, OldP!NoConfig, OldP!BadConfig

LEMMA NewAssumed == Specs \subseteq NewP!SpecType
  BY OperatorsAssumption
  DEF SpecType, NoConfig, BadConfig, NewP!SpecType, NewP!NoConfig, NewP!BadConfig

LEMMA OldTyped ==
    ASSUME Old!TypeOK,
           Old!Users \/ Old!Runtime \/ Old!Steps \/ Old!Mishaps \/ Old!GarbageCollect
    PROVE  Old!TypeOK'
  <1>1. OldP!TypeOK /\ OldP!Users => OldP!TypeOK'
    BY OldAssumed, OperatorsAssumption, TopologyAssumption, OldP!UsersTyped
  <1>2. OldP!TypeOK /\ OldP!Runtime => OldP!TypeOK'
    BY OldAssumed, OperatorsAssumption, TopologyAssumption, OldP!RuntimeTyped
  <1>3. OldP!TypeOK /\ OldP!Steps => OldP!TypeOK'
    BY OldAssumed, OperatorsAssumption, TopologyAssumption, OldP!StepsTyped
  <1>4. OldP!TypeOK /\ OldP!Mishaps => OldP!TypeOK'
    BY OldAssumed, OperatorsAssumption, TopologyAssumption, OldP!MishapsTyped
  <1>5. OldP!TypeOK /\ OldP!GarbageCollect => OldP!TypeOK'
    BY OldAssumed, OperatorsAssumption, TopologyAssumption, OldP!CollectorTyped
  <1>6. (Old!TypeOK <=> OldP!TypeOK)'
    BY OldSame, PTL
  <1>7. QED
    BY <1>1, <1>2, <1>3, <1>4, <1>5, <1>6, OldSame

LEMMA NewTyped ==
    ASSUME New!TypeOK,
           New!Users \/ New!Runtime \/ New!Steps \/ New!Mishaps \/ New!GarbageCollect
    PROVE  New!TypeOK'
  <1>1. NewP!TypeOK /\ NewP!Users => NewP!TypeOK'
    BY NewAssumed, OperatorsAssumption, TopologyAssumption, NewP!UsersTyped
  <1>2. NewP!TypeOK /\ NewP!Runtime => NewP!TypeOK'
    BY NewAssumed, OperatorsAssumption, TopologyAssumption, NewP!RuntimeTyped
  <1>3. NewP!TypeOK /\ NewP!Steps => NewP!TypeOK'
    BY NewAssumed, OperatorsAssumption, TopologyAssumption, NewP!StepsTyped
  <1>4. NewP!TypeOK /\ NewP!Mishaps => NewP!TypeOK'
    BY NewAssumed, OperatorsAssumption, TopologyAssumption, NewP!MishapsTyped
  <1>5. NewP!TypeOK /\ NewP!GarbageCollect => NewP!TypeOK'
    BY NewAssumed, OperatorsAssumption, TopologyAssumption, NewP!CollectorTyped
  <1>6. (New!TypeOK <=> NewP!TypeOK)'
    BY NewSame, PTL
  <1>7. QED
    BY <1>1, <1>2, <1>3, <1>4, <1>5, <1>6, NewSame

\* The types of a process are kept by what keeps those of the other one and
\* leaves its own variables alone.
LEMMA SharedTyped ==
    /\ Old!TypeOK /\ New!TypeOK' /\ UNCHANGED oldProcess => Old!TypeOK'
    /\ New!TypeOK /\ Old!TypeOK' /\ UNCHANGED newProcess => New!TypeOK'
  <1>1. /\ Old!CRType = New!CRType
        /\ Old!Entry = New!Entry
        /\ Old!Children = New!Children
        /\ Old!Stacks = New!Stacks
    BY DEF Old!CRType, Old!SpecType, Old!NoConfig, Old!BadConfig, Old!Entry, Old!Children,
       Old!Stacks, Old!Members, Old!Replicas, Old!Primary, Old!Replica, Old!Pgmoneta,
       Old!Pgexporter, Old!Monitoring, Old!Configs, Old!Config,
       New!CRType, New!SpecType, New!NoConfig, New!BadConfig, New!Entry, New!Children,
       New!Stacks, New!Members, New!Replicas, New!Primary, New!Replica, New!Pgmoneta,
       New!Pgexporter, New!Monitoring, New!Configs, New!Config
  <1>2. QED
    BY <1>1 DEF oldProcess, newProcess, Old!TypeOK, New!TypeOK

LEMMA OperatorsInitTyped == Init => TypeOK
  <1>1. Old!Init => Old!TypeOK
    BY OldAssumed, OperatorsAssumption, TopologyAssumption, OldSame, OldP!InitTyped
  <1>2. New!Init => New!TypeOK
    BY NewAssumed, OperatorsAssumption, TopologyAssumption, NewSame, NewP!InitTyped
  <1>3. QED
    BY <1>1, <1>2 DEF Init, TypeOK

LEMMA OperatorsNextTyped == TypeOK /\ [Next]_vars => TypeOK'
  <1> SUFFICES ASSUME TypeOK, [Next]_vars PROVE TypeOK'
    OBVIOUS
  <1> USE DEF TypeOK
  <1>1. CASE Surge
    <2>1. Old!TypeOK'
      BY <1>1 DEF Surge, shared, oldProcess, Old!TypeOK
    <2>2. New!TypeOK'
      BY <1>1 DEF Surge, shared, New!TypeOK, Old!Exists
    <2>3. QED
      BY <1>1, <2>1, <2>2 DEF Surge
  <1>2. CASE Stop
    <2>1. New!TypeOK'
      BY <1>2 DEF Stop, shared, newProcess, New!TypeOK
    <2>2. Old!TypeOK'
      <3>1. Old!NoCR \in Old!CRType
        BY OldAssumed, OperatorsAssumption, TopologyAssumption, OldP!NoResource
        DEF Old!NoCR, Old!NoSpec, Old!CRType, Old!SpecType, Old!NoConfig, Old!BadConfig,
            OldP!NoCR, OldP!NoSpec, OldP!CRType, OldP!SpecType, OldP!NoConfig, OldP!BadConfig
      <3>2. << >> \in Seq(Old!Calls) /\ "idle" \in Old!Stages
        BY DEF Old!Stages
      <3>3. QED
        BY <1>2, <3>1, <3>2 DEF Stop, shared, Old!TypeOK
    <2>3. QED
      BY <1>2, <2>1, <2>2 DEF Stop
  <1>3. CASE OldOperator
    <2>1. Old!TypeOK'
      BY <1>3, OldTyped DEF OldOperator, ByOld
    <2>2. QED
      BY <1>3, <2>1, SharedTyped DEF OldOperator, ByOld
  <1>4. CASE NewOperator
    <2>1. New!TypeOK'
      BY <1>4, NewTyped DEF NewOperator, ByNew
    <2>2. QED
      BY <1>4, <2>1, SharedTyped DEF NewOperator, ByNew
  <1>5. CASE Surroundings
    <2>1. Old!TypeOK'
      BY <1>5, OldTyped DEF Surroundings
    <2>2. QED
      BY <1>5, <2>1, SharedTyped DEF Surroundings
  <1>6. CASE UNCHANGED vars
    BY <1>6 DEF vars, shared, oldProcess, newProcess, Old!TypeOK, New!TypeOK
  <1>7. QED
    BY <1>1, <1>2, <1>3, <1>4, <1>5, <1>6 DEF Next

\* Every variable of both processes and of what they share keeps its type, for
\* all bounds and sets of specs.
THEOREM OperatorsTyped == Spec => []TypeOK
  BY OperatorsInitTyped, OperatorsNextTyped, PTL DEF Spec

-----------------------------------------------------------------------------
(* The guard.                                                              *)

\* As long as one operator runs it is Reconciler, step by step, and has the
\* inductive invariant of that one.
AloneInv == running = {"old"} => OldP!FinalizerInv

LEMMA AloneInit == Init => AloneInv
  <1>1. OldP!Init => OldP!FinalizerInv
    BY OldAssumed, OperatorsAssumption, TopologyAssumption, OldP!FinalizerInit
  <1>2. QED
    BY <1>1, OldSame DEF Init, AloneInv

LEMMA AloneStep == AloneInv /\ [Next]_vars => AloneInv'
  <1> SUFFICES ASSUME AloneInv, [Next]_vars, running' = {"old"} PROVE OldP!FinalizerInv'
    BY DEF AloneInv
  <1>1. running = {"old"} /\ ~Surge /\ ~Stop /\ ~NewOperator
    <2>1. "old" # "new"
      BY SMT
    <2>2. QED
      BY <2>1 DEF Next, vars, Surge, Stop, OldOperator, NewOperator, Surroundings, ByOld, ByNew
  <1>2. OldP!FinalizerInv
    BY <1>1 DEF AloneInv
  <1>3. OldP!FinalizerInv /\ [OldP!Next]_(OldP!vars) => OldP!FinalizerInv'
    BY OldAssumed, OperatorsAssumption, TopologyAssumption, OldP!FinalizerStep
  <1>4. OldOperator \/ Surroundings => OldP!Next
    BY OldSame DEF OldOperator, Surroundings, ByOld, OldP!Next
  <1>5. UNCHANGED vars => UNCHANGED OldP!vars
    BY DEF vars, shared, oldProcess, OldP!vars, OldP!server, OldP!job, OldP!budget
  <1>6. QED
    BY <1>1, <1>2, <1>3, <1>4, <1>5 DEF Next

\* Until a second operator pod is started no PersistentVolume is without a
\* resource that holds it: what TLC finds broken later, the overlap breaks.
THEOREM HeldBeforeOverlap == Spec => []("new" \notin running => VolumesHeld)
  <1>1. AloneInv /\ TypeOK => ("new" \notin running => VolumesHeld)
    <2> SUFFICES ASSUME AloneInv, TypeOK, "new" \notin running PROVE VolumesHeld
      OBVIOUS
    <2>1. running = {"old"}
      BY DEF TypeOK
    <2>2. OldP!FinalizerGuard
      BY <2>1 DEF AloneInv, OldP!FinalizerInv
    <2>3. QED
      BY <2>2, OldSame DEF VolumesHeld
  <1>2. QED
    BY <1>1, AloneInit, AloneStep, OperatorsTyped, PTL DEF Spec
=============================================================================
