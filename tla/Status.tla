------------------------------- MODULE Status -------------------------------
(***************************************************************************)
(* How the operator observes a cluster and reports it in the status of the *)
(* pgopr resource: src/src/cluster/status.rs and patch_status of           *)
(* src/src/cluster.rs.                                                     *)
(*                                                                         *)
(* One pass reads the Deployments, pods and claims one API call at a time  *)
(* while Kubernetes keeps changing them, and derives the conditions from   *)
(* the status in the snapshot it was given.  Each change of the status is  *)
(* an event of the resource the controller watches, so it starts the next  *)
(* pass.  Calls that write objects are in Reconciler; here their effect is *)
(* one of the changes the world makes.                                     *)
(***************************************************************************)
EXTENDS Topology, FiniteSets

CONSTANTS Specs,      \* the specs users write
          Stamps,     \* number of time stamps, reused in turn
          MaxEvents   \* bound on changes of the observed objects, spec edits
                      \* and failed API calls, all together

\* The specs that are observed at all.  reconcile_state reports an unsupported
\* version without observing and a rejected configuration not at all: those
\* branches are in Reconciler.
ASSUME StatusAssumption ==
    /\ Specs \subseteq {s \in SpecType : s.version = "18" /\ s.config # BadConfig}
    /\ Stamps \in Nat \ {0, 1}
    /\ MaxEvents \in Nat

VARIABLES
    workload, \* [Watched -> Load]: each Deployment and the pods with its app label
    claim,    \* pgmoneta's PVC
    cr,       \* spec and status of the resource
    cache,    \* the copy of cr in the informer store
    due,      \* a pass is scheduled
    running,  \* a pass runs
    snap,     \* cr as the pass was given it
    todo,     \* the reads left
    seen,     \* what the pass has read of the workloads
    seenClaim,\* and of the claim
    clock,    \* the last time stamp taken
    witness,  \* facts that held at some moment of the running pass
    events    \* how much of the bound is used

world    == <<workload, claim>>
pass     == <<running, snap, todo, seen, seenClaim>>
resource == <<cr, cache, due, clock>>
vars     == <<world, resource, pass, witness, events>>

-----------------------------------------------------------------------------
\* The Deployments a pass for this spec reads.
Observed(spec) ==
    MembersOf(spec)
        \cup (IF spec.pgmoneta THEN {Pgmoneta} ELSE {})
        \cup (IF spec.pgexporter # "none" THEN {Pgexporter, Monitoring} ELSE {})

Watched == UNION {Observed(spec) : spec \in Specs}

\* failing: some container of some pod waits or ended for a reason that
\* is_failure_reason lists.  Pods outlive their Deployment for a while.
Load == [state : {"absent", "unready", "ready"}, failing : BOOLEAN]

Missing == [state |-> "absent", failing |-> FALSE]
Healthy == [state |-> "ready", failing |-> FALSE]

ClaimStates == {"absent", "pending", "bound"}

Available(load) == load.state = "ready"

Phases  == {"Pending", "Running", "Degraded", "Failed"}
Reasons == {"PodFailure", "ClusterReady", "ReplicasNotReady", "PrimaryNotReady"}
AddonReports == {"none", "ready", "DeploymentNotFound", "DeploymentNotReady",
                 "StorageNotFound", "StorageNotBound"}

\* The one condition is Ready; its reason determines its status.
Report == [phase : Phases, reason : Reasons, since : 0..Stamps - 1,
           pgmoneta : AddonReports, pgexporter : AddonReports]

\* A resource without a status has no condition to carry over.
NoReport == [phase |-> "none", reason |-> "none", since |-> 0,
             pgmoneta |-> "none", pgexporter |-> "none"]

Resource == [spec : Specs, status : Report \cup {NoReport}]

\* The snapshot when no pass runs.
NoResource == [spec |-> << >>, status |-> NoReport]

Reads == {"get", "pods", "claim", "lists"} \X Watched

TypeOK ==
    /\ workload \in [Watched -> Load] /\ claim \in ClaimStates
    /\ cr \in Resource /\ cache \in Resource /\ snap \in Resource \cup {NoResource}
    /\ due \in BOOLEAN /\ running \in BOOLEAN
    /\ todo \in Seq(Reads)
    /\ seen \in [Watched -> Load] /\ seenClaim \in ClaimStates
    /\ clock \in 0..Stamps - 1
    /\ events \in 0..MaxEvents

-----------------------------------------------------------------------------
(* Reading.                                                                *)

\* Mutant: the loop runs once too often.
ReplicaReadsOffByOne(n) ==
    [k \in 1..2 * (n + 1) |-> <<IF k % 2 = 1 THEN "get" ELSE "pods", Replica((k + 1) \div 2)>>]

\* observe_deployments, without the primary: each replica and then its pods.
ReplicaReads(n) ==
    [k \in 1..2 * n |-> <<IF k % 2 = 1 THEN "get" ELSE "pods", Replica((k + 1) \div 2)>>]

\* observe: no decision depends on what the lists of Services, PVCs and PVs
\* return, but each may fail.
Observe(spec) ==
    <<<<"get", Primary>>, <<"pods", Primary>>>>
        \o ReplicaReads(spec.replicas)
        \o <<<<"lists", Primary>>>>
        \o (IF spec.pgmoneta
            THEN <<<<"get", Pgmoneta>>, <<"claim", Pgmoneta>>, <<"pods", Pgmoneta>>>>
            ELSE << >>)
        \o (IF spec.pgexporter # "none"
            THEN <<<<"get", Pgexporter>>, <<"pods", Pgexporter>>,
                   <<"get", Monitoring>>, <<"pods", Monitoring>>>>
            ELSE << >>)

NextRead(kind) ==
    /\ running /\ todo # << >> /\ Head(todo)[1] = kind
    /\ todo' = Tail(todo)
    /\ UNCHANGED <<world, resource, running, snap, witness>>

\* A get that fails for whatever reason counts as the object's absence.
GetDeployment ==
    /\ NextRead("get")
    /\ LET d == Head(todo)[2]
       IN  \/ /\ seen' = [seen EXCEPT ![d].state = workload[d].state]
              /\ UNCHANGED events
           \/ /\ events < MaxEvents
              /\ events' = events + 1
              /\ UNCHANGED seen
    /\ UNCHANGED seenClaim

GetClaim ==
    /\ NextRead("claim")
    /\ \/ /\ seenClaim' = claim
          /\ UNCHANGED events
       \/ /\ events < MaxEvents
          /\ events' = events + 1
          /\ UNCHANGED seenClaim
    /\ UNCHANGED seen

\* pod_failure_reason, which is only asked about a Deployment that was found.
ListPods ==
    /\ NextRead("pods")
    /\ LET d == Head(todo)[2]
       IN  seen' = IF seen[d].state = "absent" THEN seen
                   ELSE [seen EXCEPT ![d].failing = workload[d].failing]
    /\ UNCHANGED <<seenClaim, events>>

ListOthers ==
    /\ NextRead("lists")
    /\ UNCHANGED <<seen, seenClaim, events>>

-----------------------------------------------------------------------------
(* Deciding.                                                               *)

ReadyReplicas(spec, loads) ==
    Cardinality({m \in MembersOf(spec) \ {Primary} : Available(loads[m])})

\* Mutant: the ready replicas are compared with those that were found.
FinalizeFound(spec, loads) ==
    IF \E m \in MembersOf(spec) : loads[m].failing THEN <<"Failed", "PodFailure">>
    ELSE IF /\ Available(loads[Primary])
            /\ ReadyReplicas(spec, loads)
                 = Cardinality({m \in MembersOf(spec) \ {Primary} : loads[m].state # "absent"})
         THEN <<"Running", "ClusterReady">>
    ELSE IF Available(loads[Primary]) THEN <<"Degraded", "ReplicasNotReady">>
    ELSE <<"Pending", "PrimaryNotReady">>

\* Mutant: what is ready outranks what fails.
FinalizeReadyFirst(spec, loads) ==
    IF Available(loads[Primary]) /\ ReadyReplicas(spec, loads) = spec.replicas
    THEN <<"Running", "ClusterReady">>
    ELSE IF \E m \in MembersOf(spec) : loads[m].failing THEN <<"Failed", "PodFailure">>
    ELSE IF Available(loads[Primary]) THEN <<"Degraded", "ReplicasNotReady">>
    ELSE <<"Pending", "PrimaryNotReady">>

\* finalize and failure_reason: phase and reason.
Finalize(spec, loads) ==
    IF \E m \in MembersOf(spec) : loads[m].failing THEN <<"Failed", "PodFailure">>
    ELSE IF Available(loads[Primary]) /\ ReadyReplicas(spec, loads) = spec.replicas
         THEN <<"Running", "ClusterReady">>
    ELSE IF Available(loads[Primary]) THEN <<"Degraded", "ReplicasNotReady">>
    ELSE <<"Pending", "PrimaryNotReady">>

\* The tail of observe_pgmoneta; pods of pgmoneta do not make it unready.
PgmonetaReport(spec, load, bound) ==
    CASE ~spec.pgmoneta -> "none"
      [] spec.pgmoneta /\ load.state = "absent" -> "DeploymentNotFound"
      [] spec.pgmoneta /\ load.state = "unready" -> "DeploymentNotReady"
      [] spec.pgmoneta /\ load.state = "ready" ->
            CASE bound = "bound"   -> "ready"
              [] bound = "absent"  -> "StorageNotFound"
              [] bound = "pending" -> "StorageNotBound"

\* The tail of observe_pgexporter.
PgexporterReport(spec, load) ==
    CASE spec.pgexporter = "none" -> "none"
      [] spec.pgexporter # "none" /\ load.state = "absent" -> "DeploymentNotFound"
      [] spec.pgexporter # "none" /\ load.state = "unready" -> "DeploymentNotReady"
      [] spec.pgexporter # "none" /\ load.state = "ready" -> "ready"

\* Mutant: every report is stamped anew.
Now(reason) == (clock + 1) % Stamps

\* condition: the time stamp of an unchanged condition in the snapshot stays.
LastTransition(reason) ==
    IF snap.status.reason = reason THEN snap.status.since ELSE (clock + 1) % Stamps

-----------------------------------------------------------------------------
(* A pass.                                                                 *)

\* The operator finds a cluster without a status, new or running.
Init ==
    /\ \/ workload = [d \in Watched |-> Missing] /\ claim = "absent"
       \/ workload = [d \in Watched |-> Healthy] /\ claim = "bound"
    /\ cr \in [spec : Specs, status : {NoReport}]
    /\ cache = cr
    /\ due = TRUE
    /\ running = FALSE
    /\ snap = NoResource
    /\ todo = << >>
    /\ seen = [d \in Watched |-> Missing]
    /\ seenClaim = "absent"
    /\ clock = 0
    /\ witness = {}
    /\ events = 0

\* What is true of the objects, for the witness.
Facts(loads, bound) ==
    {<<loads[d].state, d>> : d \in Watched}
        \cup {<<"failing", d>> : d \in {e \in Watched : loads[e].failing}}
        \cup {<<"claim", bound>>}

Start ==
    /\ due /\ ~running
    /\ due' = FALSE /\ running' = TRUE
    /\ snap' = cache
    /\ todo' = Observe(cache.spec)
    /\ witness' = Facts(workload, claim)
    /\ UNCHANGED <<world, cr, cache, clock, seen, seenClaim, events>>

\* Mutant: a pass begins with what the one before it saw.
FinishKept ==
    /\ due' = TRUE /\ running' = FALSE
    /\ snap' = NoResource
    /\ todo' = << >>
    /\ witness' = {}
    /\ UNCHANGED <<seen, seenClaim>>

\* The pass is over, and queued again after 30 s or, by on_error, 5 s.
Finish ==
    /\ due' = TRUE /\ running' = FALSE
    /\ snap' = NoResource
    /\ todo' = << >>
    /\ seen' = [d \in Watched |-> Missing]
    /\ seenClaim' = "absent"
    /\ witness' = {}

\* patch_status applies the whole status.
PatchStatus ==
    /\ running /\ todo = << >>
    /\ LET decision == Finalize(snap.spec, seen)
           reason == decision[2]
       IN  /\ cr' = [cr EXCEPT !.status =
                [phase |-> decision[1], reason |-> reason, since |-> LastTransition(reason),
                 pgmoneta |-> PgmonetaReport(snap.spec, seen[Pgmoneta], seenClaim),
                 pgexporter |-> PgexporterReport(snap.spec, seen[Pgexporter])]]
           /\ clock' = IF cr'.status.since = (clock + 1) % Stamps
                       THEN cr'.status.since ELSE clock
    /\ Finish
    /\ UNCHANGED <<world, cache, events>>

\* A list or the patch fails, which ends the pass.
Fail ==
    /\ running
    /\ todo # << >> => Head(todo)[1] \in {"pods", "lists"}
    /\ events < MaxEvents
    /\ events' = events + 1
    /\ Finish
    /\ UNCHANGED <<world, cr, cache, clock>>

-----------------------------------------------------------------------------
(* Everybody else.                                                         *)

Watch ==
    /\ cache # cr
    /\ cache' = cr
    /\ due' = TRUE
    /\ UNCHANGED <<world, cr, clock, pass, witness, events>>

Edit ==
    /\ events < MaxEvents
    /\ events' = events + 1
    /\ \E spec \in Specs \ {cr.spec} : cr' = [cr EXCEPT !.spec = spec]
    /\ UNCHANGED <<world, cache, due, clock, pass, witness>>

\* A Deployment, its pods or the claim change.
Change ==
    /\ events < MaxEvents
    /\ events' = events + 1
    /\ \/ /\ \E d \in Watched, load \in Load : workload' = [workload EXCEPT ![d] = load]
          /\ UNCHANGED claim
       \/ /\ claim' \in ClaimStates
          /\ UNCHANGED workload
    /\ witness' = IF running THEN witness \cup Facts(workload', claim') ELSE {}
    /\ UNCHANGED <<resource, pass>>

Read == GetDeployment \/ GetClaim \/ ListPods \/ ListOthers

Next == Start \/ Read \/ PatchStatus \/ Fail \/ Watch \/ Edit \/ Change

Spec == Init /\ [][Next]_vars

FairSpec ==
    /\ Spec
    /\ WF_vars(Start)
    /\ WF_vars(Read \/ PatchStatus)
    /\ WF_vars(Watch)

-----------------------------------------------------------------------------
\* What the running pass was given is a resource, what it has seen is what it
\* read of the objects since it began, and it begins with nothing seen: a call
\* that fails leaves an object missing, never as another pass saw it.
WitnessInv ==
    /\ running => snap \in Resource
    /\ running => Facts(workload, claim) \subseteq witness
    /\ ~running => seen = [d \in Watched |-> Missing] /\ seenClaim = "absent"
    /\ \A d \in Watched :
          /\ seen[d].state # "absent" => <<seen[d].state, d>> \in witness
          /\ seen[d].failing => <<"failing", d>> \in witness
    /\ seenClaim # "absent" => <<"claim", seenClaim>> \in witness

\* A pass reads its objects at different moments, but what it reports as well
\* or as failed was so at some moment of that very pass, however many calls
\* failed: readiness is never made up, nor taken over from an earlier pass.
ReportsWitnessed ==
    [][PatchStatus =>
        /\ cr'.status.phase = "Running" =>
              \A m \in MembersOf(snap.spec) : <<"ready", m>> \in witness
        /\ cr'.status.phase = "Failed" =>
              \E m \in MembersOf(snap.spec) : <<"failing", m>> \in witness
        /\ cr'.status.phase = "Degraded" => <<"ready", Primary>> \in witness
        /\ cr'.status.pgmoneta = "ready" =>
              {<<"ready", Pgmoneta>>, <<"claim", "bound">>} \subseteq witness
        /\ cr'.status.pgexporter = "ready" => <<"ready", Pgexporter>> \in witness]_vars

\* The phase a reader of the status expects of these objects.
Accurate ==
    LET members == MembersOf(cr.spec)
        found(m) == workload[m].state # "absent"
        well(m)  == Available(workload[m])
    IN  /\ cr.status.phase = "Failed"
              <=> \E m \in members : found(m) /\ workload[m].failing
        /\ cr.status.phase = "Running"
              <=> \A m \in members : well(m) /\ ~workload[m].failing
        /\ cr.status.phase = "Pending" => ~well(Primary)
        /\ cr.status.phase = "Degraded" =>
              well(Primary) /\ \E m \in members \ {Primary} : ~well(m)
        /\ cr.spec.pgmoneta =>
              (cr.status.pgmoneta = "ready" <=> well(Pgmoneta) /\ claim = "bound")
        /\ ~cr.spec.pgmoneta => cr.status.pgmoneta = "none"

\* The bound lets the spec and the objects come to rest, and then the status
\* comes to describe them and keeps doing so.
StatusConverges == <>[]Accurate

\* Each status change wakes the controller again.  Provided that the watch
\* stream in the end delivers a change before the next pass begins, this dies
\* down: a cluster at rest does not keep the operator writing.
StatusQuiesces ==
    <>[][Start => cache = cr]_vars => <>[][cr' = cr]_vars
=============================================================================
