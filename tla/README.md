# pgopr in TLA+

A verification project for [pgopr](../src/README.md), the Kubernetes operator
for PostgreSQL. Paths below are relative to `src/src/` unless they start with
`src/`.

    tlc -config ReconcilerEdits.cfg MCReconciler.tla      model-check one run
    tlapm Reconciler_proofs.tla                           check its proofs

## 1. The system

pgopr is one Rust binary with two roles. Without a subcommand it is the
operator: a kube-rs `Controller` over the `pgopr` custom resource. With one it
is a command that writes that resource (or deploys the operator) and exits.
They share nothing but the Kubernetes API server.

| component | code | state | operations | where |
|---|---|---|---|---|
| reconcile loop, finalizer | `main.rs`, `finalizer.rs`, `handlers/operator.rs` | informer cache, queue, the running pass | `reconcile`, `on_error`, `add`, `delete` | `Reconciler`; two processes of it in `Operators`, several resources in `Clusters`, one among them in `Isolation` |
| topology sync and cleanup | `cluster.rs`, `cluster/cleanup.rs`, `cluster/topology.rs` | the Deployments, Services, PVCs, Secrets, ConfigMaps and PVs in the API server | `sync_topology`, `stale_replicas`, `cleanup::all`, add-on sync and cleanup | `Topology`, `Reconciler`; the names in `Clusters` |
| resource manager | `manager.rs` | none | apply, delete, delete by label | `Topology`, `Reconciler`, `Clusters` |
| configuration | `cluster/config.rs` | hash-named ConfigMaps | validate, apply | `Reconciler` |
| status | `cluster/status.rs` | `status` of the resource | `observe`, `invalid_spec`, `patch_status` | `Status` (and the phase only in `Reconciler`) |
| commands | `handlers/cluster.rs` | none; get, create, patch, delete of the resource | ten `provision` / `retire` commands; `install`, `uninstall` | `Cli`; `Deploy` |
| resource definition | `crd.rs` | the CRD | types; deploy, undeploy | the types in `Topology`, `Cli`, `Status`; the rest in `Deploy` |
| builders | `primary.rs`, `replica.rs`, `services.rs`, `persistent.rs`, `pgmoneta.rs`, `pgexporter.rs`, `workload.rs` | none | build objects | object identity and mounted configuration only |
| operator deployment | `handlers/deploy.rs` | namespace, account, role, Deployment | deploy, undeploy | `Deploy`, its rolling update in `Operators` |
| local configuration, generator | `local_config.rs`, `handlers/init.rs`, `handlers/local_config.rs`, `handlers/generate.rs` | one local file | read, write, print | not modelled: sequential input and output |

How they interact, and what makes it hard:

- A pass of the operator is a sequence of dozens of API calls. It works from
  the informer's **copy** of the resource, which lags: users edit, delete and
  re-create the resource meanwhile, and every call addresses objects **by
  name**, whichever incarnation has the name by then.
- PersistentVolumes are cluster-scoped, have no owner and are out of the garbage
  collector's reach. Only `cleanup::all` deletes them all (by label), so a finalizer must
  hold the resource while one exists.
- Any call may fail, any reply may be lost, the process may die between two
  calls. The answer is always the same: a later pass from the start.
- The status is written by the pass that observed it and is itself an event
  that starts the next pass.
- Commands read and write the resource in separate calls, without a
  `resourceVersion`, in as many processes as users start.
- The operator itself is deployed, updated and removed while resources exist,
  by commands of up to six calls that panic on an error. An update runs two
  operators at once; without an operator a finalizer stays on for ever.
- Resources are reconciled concurrently. What keeps the objects of two apart is
  how their names are formed and recognised.

What makes each part correct: the finalizer protocol (no volume outlives the
hold, nothing is created for a name that is not held); the order of storage and
workload; a mounted ConfigMap exists; convergence to the last spec and an end
of every deletion; a status that was true while it was observed, becomes
accurate and then comes to rest; commands that do not undo each other and do what their help
text says; an operator that has its rights as long as it is deployed, and serves
what its predecessors left if they are enough; passes that keep to their own objects.

## 2. Modules

    FinalizerProtocol     abstract: absent -> open -> held -> dying
       ^ implements
    Reconciler  <-- two INSTANCEs --  Operators
       | EXTENDS
       v
    Topology <--- EXTENDS --- Status

    Cli         the commands, with the operator's two steps on the finalizer

    Isolation   one resource among several implements that resource alone
       | EXTENDS, and one more INSTANCE with the one resource only
       v
    Clusters    several resources, a pass in larger steps
    Deploy      the operator's own life, a pass in three steps

- **`Topology`**: the objects of a cluster as pairs of a kind and a component
  (so equality is equality of names), and every list of API calls of
  `cluster.rs` and `cluster/cleanup.rs` in order. Pure operators.
- **`Reconciler`**: the resource `cr`, the `children` (by owner uid and, on a
  member Deployment, the mounted configuration), the `volumes`, the informer
  `cache` and the running pass. Between two API calls anything else can happen.
- **`FinalizerProtocol`**: what the finalizer is for, in four phases and a
  footprint. `Reconciler` implements it (`FinalizerProtocolHolds`).
- **`Cli`**: processes that run commands of one or two calls. Of the operator it
  has `Hold` and `Release` only, `finalizer::add` and `finalizer::delete`.
- **`Status`**: one pass of `status::observe` against Deployments, pods and
  claims that change under it, and the loop from the status write to the next
  pass.
- **`Operators`**: two instances of `Reconciler` with their own cache, queue and
  pass over one API server, and the rolling update that starts one and stops
  the other.
- **`Clusters`**: several resources whose passes interleave, with the names of
  `topology.rs` segment by segment.
- **`Isolation`**: the abstract specification that a resource promises its owner:
  `Solo` is `Clusters` with `Self` as the only resource, and `AsIfAlone` says that
  what all resources do together is, for `Self`, a behaviour of it. The
  refinement mapping restricts `cr`, `job` and `store` to what is `Self`'s.
- **`Deploy`**: `install`, `uninstall`, `deploy` and `undeploy` call by call, the
  account, Role, RoleBinding, Deployment, namespace and definition they write,
  the pods, and one resource for each namespace.
- `MCReconciler`, `MCCli`, `MCStatus`, `MCOperators`, `MCClusters`, `MCDeploy`:
  specs, commands and names for TLC.
- `Reconciler_proofs`, `Storage_proofs` (also about `Reconciler`),
  `Operators_proofs`, `Status_proofs`, `Cli_proofs`, `Deploy_proofs`,
  `Clusters_proofs`, `Isolation_proofs`: lemmas and theorems.

Definitions named as a mutant in their comment are variants of the definition
that follows them, with one plausible mistake; no specification uses them. They show that each
property can fail.

### State and actions of `Reconciler`

| code | model |
|---|---|
| `metadata.uid`, `finalizers`, `deletionTimestamp`, `spec`, `status` | `cr.uid` (0: no resource), `.finalizer`, `.deleting`, `.spec`, `.status` |
| informer store, scheduler | `cache`, `due` |
| the local state of a pass | `stage`, `snap` (the `Arc<pgopr>`), `todo` (calls left of the current helper), `pending` (members left of the current loop) |
| `reconcile` branches | `Start`: to `protect`, `check` or `list` |
| `finalizer::add` / `delete` | `AddFinalizer` / `RemoveFinalizer` |
| `reconcile_state` up to the first call | `CheckSpec` (unsupported version, rejected config, or go on) |
| `sync_primary`, the replica loop | `NextMember`, then the calls |
| `stale_replicas` | `ListStale`, `NextVictim` |
| add-ons | `BeginAddons` |
| `manager.sync`, `sync_cluster`, `delete`, `delete_cluster` | `Sync`, `SyncCluster`, `DeleteChild`, `DeleteCluster`: one call each |
| `cleanup::all` | `ListReplicas`, `NextVictim`, `BeginRest`, `ListVolumes`, `PurgeVolume` |
| `patch_status` | `PatchStatus` |
| `?` on an error, `on_error` | `Fail` (and `PatchStatus`, `AddFinalizer`, `RemoveFinalizer` on a missing resource) |
| API server, collector, users | `Create`, `Edit`, `DeleteCR`, `GarbageCollect`, `Watch` |

Abstractions, and why they keep the behaviour:

- The kube-rs scheduler runs at most one reconcile per object and drops
  duplicates, so one pass and one flag `due` are enough for one resource.
- `Watch` brings the cache up to date in one step. A cache that lags by many
  versions is one that has not taken the step yet; stopping at an intermediate
  version is the same as taking the step earlier.
- Deletes of namespaced objects take effect at once; Kubernetes would keep a
  claim or volume that is in use in state Terminating. `Drift`, an outsider's
  deletion, therefore spares claims and volumes. It spares ConfigMaps too,
  which Kubernetes does not protect: `ConfigMounted` has the premise that nobody
  deletes them by hand.
- A call whose reply is lost is the call followed by `Fail`. The last call of
  a pass needs an action of its own (`RemoveFinalizerUnanswered`).
- After a finished cleanup nothing is requeued (`Action::await_change`); after
  every other end the pass runs again (30 s or 5 s; the model has no clock).
- The informer's list after a restart queues what exists (`Crash`).

### State and actions of `Cli`

`phase` is the resource's phase in `FinalizerProtocol`, `client[c]` the local
state of a process: its command, its next call and the replica count it has
read. `GetCluster`, `CreateCluster`, `PatchCluster` and `DeleteCluster` are the
four calls, `Patched` is the merge patch of each command: what RFC 7386 makes of `{}`, of null
and of a missing parent. A failed call ends a command (`CallFails`, `End`).
`grown` counts the successful writes of `provision replica`, and `overtaken` has
the processes that are about to patch and whose view of the count is out of date:
since they looked, another call wrote the count or the resource went. Both are
history variables.

### State and actions of `Status`

The specs are those that are observed: `StatusAssumption` leaves out the two kinds
for which `reconcile_state` (`cluster.rs:49`, `cluster.rs:57`) does not call `observe`. Those branches
are `CheckSpec` of `Reconciler`.

`GetDeployment`, `GetClaim`, `ListPods` and `ListOthers` are the reads of
`observe` in order, `Finalize`, `PgmonetaReport` and `PgexporterReport` the
decisions, `LastTransition` the carry-over of `condition`. A get that fails
counts as absence, a list that fails ends the pass. Which object a read is for is
kept; the lists of services, PVCs and PVs are one call, since no decision
depends on them. Pods are reduced to whether one has a failure reason that
`is_failure_reason` lists. Time stamps are numbers reused in turn: only whether
two passes write different ones matters. `witness` is a history variable: every fact that held at
some moment of the running pass.

### State and actions of `Operators`

`Old` and `New` are `Reconciler` with the process' variables renamed; `cr`, the
objects and the budgets are shared. `Surge` starts the new pod, whose informer
lists the resource; `Stop` ends the old one anywhere in its pass (`run_operator`
installs no signal handler). Both come from the Deployment that
`build_operator_deployment` writes: one replica and the default strategy, of
which Kubernetes makes a surge of one pod and none unavailable.

### State and actions of `Clusters`

A name is the sequence of its segments between hyphens: a `Word`, or a `Numeral`
of leading zeros and a value. So `replica_ordinal` (prefix, next segment, any
number that `parse::<u32>` takes, whatever follows) is `ReplicaOrdinal`, and `0`,
`10` and `007` are ordinals as they are in the code. `MaxOrdinal` stands for
2^32 - 1: the proofs are for any value, and for TLC, whose integers
are narrower, it is 99. `store[x]`
is the resource that applied object `x` last: owner and label in one. Here an
action is one helper with all its calls (`SyncMember`, `DeleteReplicaStack`,
`SyncAddons`, `CleanupRest`): which calls lie between two of them is
`Reconciler`'s subject, and here only which objects they address matters. The
three listings (`ListStale`, `ListReplicas`, `ListVolumes`) are steps of their
own, since what they return is used later. A resource that is created while
objects of its predecessor are left takes them over; the uids that tell them
apart are in `Reconciler`. Calls fail without a bound; `MCClusters` counts them
for TLC.

### State and actions of `Deploy`

| code | model |
|---|---|
| `handle_deploy`, `handle_undeploy`, `handle_install`, `handle_uninstall` | `command`, `at`: which of its `Calls` is next |
| `.expect`, `panic!`, an interrupt | `Abort` (a call that took effect may be followed by it) |
| `let _ = crd_deploy(..)`, `let _ = crd_undeploy(..)` | `CRDFails`: the command goes on |
| create, 409, patch | `ApplyCRD`: a definition that is being deleted stays so |
| server-side apply of the five objects | `ApplyNamespace`, ..., `ApplyDeployment` |
| delete, 404 as success | `DeleteDeployment`, ..., `DeleteNamespace` |
| `build_operator_role`, `build_operator_role_binding` | `RoleRules`, `Bound`, `May` |
| `PGOPR_TARGET_NAMESPACE` in the Deployment | `deployment`, `pods` |
| a pass | `Protect`, `Sync`, `Cleanup`, each only with the rights it needs |
| Kubernetes | `StartPod`, `StopPod`, `RetireCRD`, `RetireNamespace` (its parts go in any order) |

`--dry-run` prints and `--wait` only watches, so neither is an action. A target
`"*"` is not one of `Targets`: `deploy` would panic at the Role, whose namespace
cannot be `*`.

## 3. What is checked

| run | bounds | shows |
|---|---|---|
| `ReconcilerEdits` | five specs: 0, 1 or 2 replicas, all add-ons, two configurations and a rejected one, a wrong version; 1 resource, 1 edit, 1 fault | types, `StorageBeneathWorkload`, `ConfigMounted`, `WantedKept`, the inductive invariant `PassInv`, the protocol; `Converges`, `Retires`, `StatusFollows` |
| `ReconcilerIncarnations` | 1 replica, 2 births, 2 faults | over re-creation: `FinalizerGuard`, the inductive invariant `PassInv`, `CreatedUnderFinalizer`; `Converges`, `DeletionFinishes`, `NothingLeft` |
| `CliConcurrent` | 3 processes, 4 commands of all ten | `CountAccounted`, `CountsExactly`, `OnlyOwnComponent` |
| `StatusLive` | a replica or both add-ons; any 2 of changes, edits and faults | types, `WitnessInv`, `ReportsWitnessed`, `StatusConverges`, `StatusQuiesces` |
| `OperatorsRollout` | a primary, 1 resource that users delete or not, one rollout | under two operators and a stop anywhere: `Converges`, `DeletionFinishes`, `ChildrenCollected` |
| `DeployOrder` | 2 targets, one of them `pgopr-system`; commands unbounded | `Grounded`, `Swept`, `Served`, `UninstallFinishes`, `Cleared` |
| `ClustersApart` | clusters `a` and `a-replica` of one namespace, two specs (a replica, or the add-ons), 1 fault; users unbounded | `Owned`, `AsIfAlone` of `a`, `KeepsToItsOwn`, `Undisturbed`, `Released` |

The bounds are named constants: `MaxReplicas`, `MaxConfig` (sizes), `MaxBirths`,
`MaxEdits`, `MaxFaults`, `MaxEvents`, `MaxCommands` (budgets of what users and
the environment do), `Stamps` and `Word`. Passes of the operator are not
bounded. Two replicas make the order and the loop over victims visible; two births
are the least that lets a stale pass meet a successor, and one edit the least
that lets one meet a newer spec. One fault leaves a pass unfinished for a newer
snapshot to take up; two, in `ReconcilerIncarnations`, let the retry fail again.
Two changes are the least with which a pass sees a state that never was as a
whole; in `Status` changes, edits and faults share one budget. What is proved
holds for any budget. Three processes are
needed for a read, a foreign write and a read after a re-creation to overlap;
`Word` is 8, so no count of four commands reaches it.
`OperatorsRollout` has 261,000 states since every state of one pass meets every
state of the other; a second birth or an edit takes it to 5 and 15 million. A
primary has every stage of a pass, and what differs with replicas is in
`ReconcilerEdits`. In `DeployOrder` commands, users and pods are not bounded at
all; a third target exceeds 4.6 million states, and what is not liveness is proved for any
number. `ClustersApart` has the closest pair of names that are still apart:
the second cluster's name begins like those of the first one's replicas. With
all four specs it exceeds 2.7 million states. An assumption of `MCClusters`
has TLC evaluate the names on either side: `a` is not apart from
`a-replica-0`, `-1`, `-10` or `-007`, and it is from a number beyond `MaxOrdinal` and from
`a-replica-b-1`.
`CHECK_DEADLOCK FALSE` is set where users may leave a deleted resource deleted
or run out of commands; `Status` never stops and its deadlocks are checked.

### Fairness

- `Reconciler`: weak fairness of `Watch` (the watch stream reconnects), of
  `Start \/ Skip` and of the steps of a pass (the tokio executor runs and every
  API call returns), and of the collector. Users, failures, crashes and drift
  owe nothing; faults are bounded by `MaxFaults`, so a run is one in which they
  stop at some time.
- `Cli`: none, since nothing is claimed to happen eventually.
- `Status`: a due pass starts, a pass goes on, the watch delivers.
- `Operators`: as `Reconciler`, for each process while it runs; a rollout that
  has begun ends, but none has to begin.
- `Deploy`: Kubernetes' controllers and a running operator go on; no command has
  to be started, continued or to succeed.
- `Clusters`: the passes and the collector go on; users and failures owe nothing.

### What the liveness runs say and do not say

`Converges` is about the presence, owner and configuration of what is wanted,
`Retires` about what is not wanted. `Retires` does not claim that everything of a
stale replica goes, nor the Service and the monitoring Deployment of a
pgexporter that is removed: the code does not do that (findings 1 and 2, whose
properties `StaleReplicasRemoved` and `PgexporterRetired` are the full promises).
`StatusFollows` says nothing of a rejected configuration, for
which the code leaves the last status in place. `StatusQuiesces` has a premise, that from some time on each
pass starts from the current copy. Without it TLC finds a cluster at rest on which
two passes read snapshots that lag by one write and hand two time stamps back and forth for ever,
since `condition` carries the time over from the snapshot and not from the
server.

`Undisturbed` is about one cluster whose spec is left alone while its neighbour's users
never rest.

`DeployedServes` is what a completed `deploy` should be worth: every resource in
its namespace, also one that lost its operator in deletion, is served or goes,
again and again. It does not hold of what `deploy` installs (finding 4): `Granted`
is what somebody gave the account beside the Role, and with nothing granted
`DeployRole` violates it. `Served` is the same with the premise that PersistentVolumes were
granted (`VolumesGranted`); `DeployOrder` grants them, so that it shows that the
Role lacks nothing else. `UninstallFinishes` has that premise too, since an
operator without the right cleans up nothing. It and `Cleared` say exactly when a deletion of
the definition or of the namespace hangs: when a finalizer is left that no
operator bound to its Role there takes off.

## 4. Findings

Runs that expect a violation. Each states what a comment, a help text or a
message promises.

1. `ReconcilerStaleReplicas`: `stale_replicas` (`cluster/cleanup.rs:23`) finds a
   replica by its Deployment. If a call after the Deployment's deletion fails, the
   claim and the volume stay until the whole cluster is deleted.
2. `ReconcilerPgexporter`: `cleanup_pgexporter` (`cluster.rs:337`) deletes the
   Deployment and the Secret of pgexporter, and leaves its Service and, if it was
   monitored, the monitoring Deployment until the whole cluster is deleted.
3. `OperatorsOverlap`: in a rolling update of the operator (`handlers/deploy.rs:196`)
   the sync of the old process creates a PersistentVolume after the cleanup of
   the new one has let the resource go. What is namespaced is collected by its
   owner's uid (`ChildrenCollected`); the volume stays. `FinalizerGuard`, proved
   for one operator, needs that there is one.
4. `DeployRole`: the Role of `build_operator_role` (`handlers/deploy.rs:81`) does not
   name PersistentVolumes and, being a Role, could not grant these cluster-scoped
   objects. No pass of an operator that has just been deployed gets past its
   first volume, and no finalizer ever comes off.
5. `ClustersCollide`: `pv_name` (`cluster/topology.rs:184`) and the label of the
   volumes leave the namespace out. Two clusters of one name, under an operator
   that watches all namespaces, apply the same volumes in turn, and the
   deletion of one deletes those of the other.

More follow from reading the code that the models translate and have no run of
their own:

- A cluster named like a replica of another one in its namespace (`a` and
  `a-replica-10`) loses its primary when `a` is scaled or deleted
  (`cluster/topology.rs:172`; such a pair is not `ApartFrom` each other).
- A rejected configuration (`cluster.rs:57`) ends every pass before the status
  is written and is never reported (`CheckSpec` in `Reconciler`).
- Two overlapping `provision replica` (`handlers/cluster.rs:385`) add one replica;
  `CountAccounted` and `CountsExactly` are what holds.
- `retire grafana` (`handlers/cluster.rs:334`) on a cluster without pgexporter starts
  pgexporter (`Patched` in `Cli`, and `Creates`, the exception of `OnlyOwnComponent`).
- `provision primary` (`handlers/cluster.rs:115`) while the old resource is being
  deleted does nothing and reports nothing.
- `provision pgmoneta` and `provision pgexporter` on a missing resource
  (`handlers/cluster.rs:170`) create a cluster without the add-on (`CreateCluster`).
- A failing get (`cluster/status.rs:175`) is reported as "pgmoneta Deployment does
  not exist" (`GetDeployment` in `Status`).
- `install` while the definition is being deleted succeeds, and the definition
  is gone later (`ApplyCRD`, `crd.rs:176`).
- `deploy` to a second namespace moves the one operator and leaves Role and
  RoleBinding in the first; what is being deleted there waits
  (`ApplyDeployment`).
- `undeploy --delete-namespace` takes the databases along if the namespace
  watched is `pgopr-system` (`RetireNamespace`), where
  `handlers/deploy.rs:386` says they "are left intact".

## 5. What is proved

All theorems hold for every value of the constants that satisfies the modules'
assumptions: `TopologyAssumption`, `ReconcilerAssumption`, `CliAssumption`,
`DeployAssumption`,
`ClustersAssumption`, `IsolationAssumption`, `OperatorsAssumption` and `StatusAssumption`, which say that bounds are natural
numbers, that specs, commands and keys are of their type, and that `Nowhere` is no target.

- **`Reconciler_proofs`.** `FinalizerGuard` (volumes exist only while the
  resource is held) is not inductive: a stale pass could create a volume after the
  resource is gone, unless one knows why it cannot. `FinalizerInv` adds
  `SnapshotInv`, the argument proper: the cache only moves forward and passes are
  serial, so a resource that was *seen* with a finalizer still has it until some
  cleanup takes it away, and no cleanup runs beside a sync; while one does
  clean up, neither the cache nor the resource shows a successor that is already protected. `JobInv` says
  which calls are left in which stage: none deletes the primary's volume, and a
  purge has every existing volume in its list. From the invariant follow
  `TypeCorrect`, `FinalizerGuarded`, `CreatedProtected` (an action property) and
  `ImplementsFinalizerProtocol` (the refinement: every step is a step of
  the protocol or a stutter).
- **`Cli_proofs`.** `CountsAccounted` needs `CountInv`: the counts that
  processes have read and not yet written are accounted for as well.
  `CommandsTyped` is its typing part. `CommandsKeepApart` is the action property
  `OnlyOwnComponent`. `CountedExactly` (`CountsExactly`) needs `KnowInv`: a process
  about to write the count that was not overtaken has read the count that is there, whatever
  else of the spec was patched meanwhile.
- **`Deploy_proofs`.** `Grounded` and `Swept` compare the cluster with commands
  that may have ended anywhere, so the inductive invariant `PlaneInv` adds
  `Progress`: what the calls made so far have established *and nothing can have
  taken away since*. For `deploy` that holds only while the namespace is active,
  because what goes with a deleted namespace goes in any order; that an absent
  namespace has no Deployment in it closes the gap when it is created anew. The
  lemmas before it say which call stands where in which command.
- **`Clusters_proofs`.** `NamesApart => (Spec => KeepsToItsOwn)`: disjoint names
  are all that concurrent reconciles need. The invariant `Owned` says that
  whatever is there was applied by the resource it belongs to; a listing then
  returns, of the names it recognises, own ones only (`ReplicasAreOwn`), because
  `NamesApart` rules out the other clusters and the lemmas about
  segments rule out the own Deployments that are not replicas. `MaxReplicas` is any
  number up to `MaxOrdinal`, that is, any replica count of a u32. The run
  `ClustersApart` has an instance of the premise, which `MCClusters` checks, and
  `ClustersCollide` shows that it is needed.
- **`Isolation_proofs`.** `NamesApart => (Spec => AsIfAlone)`, a refinement: a
  step for another resource leaves everything of `Self` as it is, and a step for
  `Self` is the same step of `Clusters` with one resource. Both directions of
  the invariant `Owned` are used: a pass reads only own objects (what it lists is
  the same with and without the others) and writes only own ones. Whatever holds
  of one resource alone therefore holds of each of many, as far as it is about
  safety. `ClustersTyped` needs no disjoint names.
- **`Operators_proofs`.** Each process is an `INSTANCE` of `Reconciler`, and the
  lemmas about single steps are cited from an instance of `Reconciler_proofs`.
  `OldSame` and `NewSame` say that the two instances are the same formulas; the
  long lists of definitions there serve nothing else. `HeldBeforeOverlap`:
  until the second pod starts `FinalizerInv` holds of the first one, so finding 3
  is an effect of the overlap alone.
- **`Status_proofs`.** `ReportsWitnessed` compares a report with facts that held
  at *some* moment of the pass. `WitnessInv` says that everything noted so far
  is a witnessed fact, that what is so now is witnessed too (so that the next
  read notes one), and that nothing noted outlives its pass. `Running` needs
  cardinalities: it is reported when as many replicas were seen available as the
  spec asks for, and a subset as large as the whole is the whole.

### The storage proofs

`Storage_proofs` has three inductive invariants on top of `FinalizerInv`; `PassInv`,
which both runs of `Reconciler` check, is all of them together. All of
them need `UidInv`: uids grow, the operator sees them in that order and passes
are serial, so nothing in the cluster is of a later incarnation than the
snapshot a pass works from. What a late pass does to a successor can therefore
be told from what it does to its own resource (`Current`).

- `StorageInv` (for `StorageBeneathWorkload`). That storage comes first is easy
  to say of a whole plan and hard in the middle of one, with the claim perhaps there
  from an earlier pass and a failure before the Deployment. `StackInv` states it
  for what is *left* in `todo`, by two operators of `Topology`: `Left(c, calls)`
  and `Behind(b, a, calls)` (b is not called before a). A Deployment that is yet to be
  applied finds its storage there or applied before; storage that is yet
  to be deleted has its Deployment gone or deleted before; and never both in one
  plan. `CleanupInv` says what a cleanup has reached: every live Deployment is
  still to be deleted, and none is left when the volumes are purged.
- `ConfigInv` (for `ConfigMounted`). While members are synced, the ConfigMap of
  the snapshot is there or applying it is the one call left. It holds over edits
  because ConfigMaps are named by their content and never deleted by a pass.
- `KeptInv` (for `WantedKept`). A sync never has a deletion left of what its own
  spec asks for; a cleanup only runs on what is being deleted, which takes
  `OwnersHeld`: what the current incarnation owns it owns under its finalizer, so a
  stale cleanup cannot meet it. The theorem speaks of the spec the *pass*
  works for. Of the last spec it would be false, and TLC says so: with
  `cr.spec` for `snap.spec` it finds an edit that asks for a replica again while a
  pass goes on deleting it; a later pass creates it anew.

### Only model-checked

- Liveness: `Converges`, `Retires`, `StatusFollows`, `DeletionFinishes`,
  `NothingLeft`, `ChildrenCollected`, `StatusConverges`, `StatusQuiesces`,
  `Served`, `UninstallFinishes`, `Cleared`, `Undisturbed`, `Released`. They rest on
  fairness, whose meaning is ENABLED, which the prover cannot reason about.
- That `NamesApart` holds of two given clusters: `MCClusters` evaluates it for
  the closest names that are apart. For all names it is a statement about sequences of segments and
  Kubernetes' rules for names, which are not in the model.

Every invariant and every action property of a passing run is a theorem.
There are no recursive definitions.

## 6. Not modelled

- Local configuration, the generator, `crd_generate`: sequential input and output.
- Host paths: every primary has `/tmp/kind` on its node (`cluster/topology.rs:14`),
  so two clusters on one node share a data directory whatever their names.
- Other controllers' finalizers (`main.rs:377`); the state Terminating of claims
  and volumes in use.
- The content of objects beyond owner and configuration; escaping and hashing. Eight hex
  digits of the hash, 32 bits, are in the name of a ConfigMap
  (`cluster/config.rs:91`): two configurations that agree in them would share it.
- A request that takes effect after the operator that sent it has restarted.
  `Operators` lets the old process act beside the new one, which covers the case
  for a rollout and not for a crash.

Hazards that no property covers are listed with the reason in `PROJECT.json`.

## 7. Plan

Done in the order of importance: `Topology`, `Reconciler`, `FinalizerProtocol`,
their proofs, `Cli` and its proofs, `Status`; then `Operators`, `Clusters` and
`Deploy` with the proofs of the latter two; then the proofs of storage,
configuration and what is kept, of `Status` and `Operators`, and `Isolation`. What is left:

1. Proofs: the link between `Clusters` and `Reconciler`, whose steps are finer
   (one resource alone in `Clusters` as an abstraction of `Reconciler`); the half of
   `ChildrenCollected` that is safety, that nothing is created for an
   incarnation whose owner no running process has seen.
2. Extensions of `Reconciler`: foreign finalizers, Terminating claims and
   volumes, requests that land late, ConfigMaps that pile up.
