------------------------------- MODULE Deploy -------------------------------
(***************************************************************************)
(* The operator's control plane: install, uninstall, deploy and undeploy   *)
(* (src/src/handlers/deploy.rs, src/src/crd.rs, src/src/handlers/          *)
(* cluster.rs), the operator pod they bring up and take down, and one      *)
(* pgopr resource in every namespace an operator can be sent to.           *)
(*                                                                         *)
(* An administrator runs one command at a time.  Every API call is a step: *)
(* Kubernetes, the users of the resources and the operator come between    *)
(* any two, and a command may end after any of them, by a call that fails  *)
(* (the code panics) or by an interrupt.                                   *)
(***************************************************************************)
EXTENDS Integers, Sequences

CONSTANTS Targets,   \* the namespaces an operator can be told to watch
          System,    \* OPERATOR_NAMESPACE, "pgopr-system"; it may be a target
          Nowhere,   \* no namespace
          Granted    \* what the operator may do beyond its Role

ASSUME DeployAssumption == Nowhere \notin Targets

VARIABLES
    crd,        \* the custom resource definition
    ns,         \* the namespace System
    account,    \* the ServiceAccount exists
    roles,      \* the targets that have the Role
    bindings,   \* the targets that have the RoleBinding
    deployment, \* the target in the Deployment, Nowhere when there is none
    pods,       \* the targets of the operator pods that run
    resource,   \* [Targets -> Phases]: the pgopr resource of the namespace
    command,    \* the command that runs
    at,         \* which of its calls is next
    last        \* the command that was completed last, if none began since

plane   == <<ns, account, roles, bindings, deployment>>
cluster == <<crd, plane, pods, resource>>
shell   == <<command, at, last>>
vars    == <<cluster, shell>>

-----------------------------------------------------------------------------
(* Commands and their calls.                                               *)

Command(name, target, purge) == [name |-> name, target |-> target, purge |-> purge]

NoCommand == Command("none", Nowhere, FALSE)
Install   == Command("install", Nowhere, FALSE)
Uninstall == Command("uninstall", Nowhere, FALSE)

Deploys   == {Command("deploy", t, FALSE) : t \in Targets}
Undeploys == {Command("undeploy", t, purge) : t \in Targets, purge \in BOOLEAN}
Commands  == {Install, Uninstall} \cup Deploys \cup Undeploys

\* Mutant: the Deployment is applied before its rights.
DeployCallsEarly ==
    <<"apply CRD", "apply Namespace", "apply ServiceAccount",
      "apply Deployment", "apply Role", "apply RoleBinding">>

DeployCalls ==
    <<"apply CRD", "apply Namespace", "apply ServiceAccount",
      "apply Role", "apply RoleBinding", "apply Deployment">>

\* Mutant: the account is left to the deletion of the namespace.
UndeployCallsShort(purge) ==
    <<"delete Deployment", "delete RoleBinding", "delete Role",
      IF purge THEN "delete Namespace" ELSE "delete ServiceAccount">>

\* Mutant: the flag is not looked at.
UndeployCallsUnflagged(purge) ==
    <<"delete Deployment", "delete RoleBinding", "delete Role", "delete ServiceAccount">>

\* Mutant: the flag is looked at before the first call.
UndeployCallsAllOrNone(purge) ==
    IF purge
    THEN <<"delete Deployment", "delete RoleBinding", "delete Role",
           "delete ServiceAccount", "delete Namespace">>
    ELSE << >>

UndeployCalls(purge) ==
    SubSeq(<<"delete Deployment", "delete RoleBinding", "delete Role",
             "delete ServiceAccount", "delete Namespace">>, 1, IF purge THEN 5 ELSE 4)

Calls(c) ==
    CASE c.name = "install"   -> <<"apply CRD">>
      [] c.name = "uninstall" -> <<"delete CRD">>
      [] c.name = "deploy"    -> DeployCalls
      [] c.name = "undeploy"  -> UndeployCalls(c.purge)
      [] c.name = "none"      -> << >>

-----------------------------------------------------------------------------
(* Rights.  A pass needs, besides the resource itself, every kind of       *)
(* object that sync_topology, status::observe and cleanup::all touch.      *)

\* Mutant: claims are forgotten.
RoleRulesShort == {"pgoprs", "pods", "services", "secrets", "configmaps", "deployments"}

\* The resources in the rules of build_operator_role.
RoleRules == {"pgoprs", "pods", "services", "persistentvolumeclaims",
              "secrets", "configmaps", "deployments"}

CleanupKinds == {"pgoprs", "deployments", "services", "persistentvolumeclaims",
                 "secrets", "persistentvolumes"}

SyncKinds == CleanupKinds \cup {"pods", "configmaps"}

\* The RoleBinding of a target binds the Role there to the account.
Bound(t) == account /\ t \in roles /\ t \in bindings

May(t, kinds) == kinds \subseteq Granted \cup IF Bound(t) THEN RoleRules ELSE {}

-----------------------------------------------------------------------------
Lifecycle == {"absent", "active", "terminating"}

\* "held" carries the finalizer, "served" has had a whole pass as well.
Phases == {"absent", "open", "held", "served", "dying"}

TypeOK ==
    /\ crd \in Lifecycle
    /\ ns \in Lifecycle
    /\ account \in BOOLEAN
    /\ roles \subseteq Targets
    /\ bindings \subseteq Targets
    /\ deployment \in Targets \cup {Nowhere}
    /\ pods \subseteq Targets
    /\ resource \in [Targets -> Phases]
    /\ crd = "absent" => \A t \in Targets : resource[t] = "absent"
    /\ command \in Commands \cup {NoCommand}
    /\ at \in 1..7
    /\ command # NoCommand => at <= Len(Calls(command))
    /\ last \in Commands \cup {NoCommand}

Init ==
    /\ crd = "absent"
    /\ ns = "absent"
    /\ account = FALSE
    /\ roles = {}
    /\ bindings = {}
    /\ deployment = Nowhere
    /\ pods = {}
    /\ resource = [t \in Targets |-> "absent"]
    /\ command = NoCommand
    /\ at = 1
    /\ last = NoCommand

-----------------------------------------------------------------------------
(* The administrator.                                                      *)

Begin(c) ==
    /\ command = NoCommand
    /\ command' = c
    /\ at' = 1
    /\ last' = NoCommand
    /\ UNCHANGED cluster

\* A call other than of the CRD fails, or the command is interrupted.
Abort ==
    /\ command # NoCommand
    /\ command' = NoCommand
    /\ at' = 1
    /\ UNCHANGED <<cluster, last>>

\* This call is next and takes effect.  The command may be interrupted before
\* it has the reply to its last call.
Done(call) ==
    /\ command # NoCommand
    /\ Calls(command)[at] = call
    /\ IF at < Len(Calls(command))
       THEN at' = at + 1 /\ UNCHANGED <<command, last>>
       ELSE command' = NoCommand /\ at' = 1 /\ last' \in {command, NoCommand}

\* Creating an object needs a namespace that is not being deleted; updating
\* one that is still there does not.
Writable(n, exists) == n # System \/ ns = "active" \/ (ns = "terminating" /\ exists)

\* crd_deploy creates, and patches when that is a conflict.
ApplyCRD ==
    /\ Done("apply CRD")
    /\ crd' = IF crd = "absent" THEN "active" ELSE crd
    /\ UNCHANGED <<plane, pods, resource>>

\* The result of crd_deploy and of crd_undeploy is ignored.
CRDFails ==
    /\ Done("apply CRD") \/ Done("delete CRD")
    /\ UNCHANGED cluster

DeleteCRD ==
    /\ Done("delete CRD")
    /\ crd' = IF crd = "active" THEN "terminating" ELSE crd
    /\ UNCHANGED <<plane, pods, resource>>

ApplyNamespace ==
    /\ Done("apply Namespace")
    /\ ns' = IF ns = "absent" THEN "active" ELSE ns
    /\ UNCHANGED <<crd, account, roles, bindings, deployment, pods, resource>>

ApplyServiceAccount ==
    /\ Done("apply ServiceAccount")
    /\ Writable(System, account)
    /\ account' = TRUE
    /\ UNCHANGED <<crd, ns, roles, bindings, deployment, pods, resource>>

ApplyRole ==
    /\ Done("apply Role")
    /\ Writable(command.target, command.target \in roles)
    /\ roles' = roles \cup {command.target}
    /\ UNCHANGED <<crd, ns, account, bindings, deployment, pods, resource>>

ApplyRoleBinding ==
    /\ Done("apply RoleBinding")
    /\ Writable(command.target, command.target \in bindings)
    /\ bindings' = bindings \cup {command.target}
    /\ UNCHANGED <<crd, ns, account, roles, deployment, pods, resource>>

\* One Deployment, whatever target it had before.
ApplyDeployment ==
    /\ Done("apply Deployment")
    /\ Writable(System, deployment # Nowhere)
    /\ deployment' = command.target
    /\ UNCHANGED <<crd, ns, account, roles, bindings, pods, resource>>

\* Deleting what is not there is a success.
DeleteDeployment ==
    /\ Done("delete Deployment")
    /\ deployment' = Nowhere
    /\ UNCHANGED <<crd, ns, account, roles, bindings, pods, resource>>

DeleteRoleBinding ==
    /\ Done("delete RoleBinding")
    /\ bindings' = bindings \ {command.target}
    /\ UNCHANGED <<crd, ns, account, roles, deployment, pods, resource>>

DeleteRole ==
    /\ Done("delete Role")
    /\ roles' = roles \ {command.target}
    /\ UNCHANGED <<crd, ns, account, bindings, deployment, pods, resource>>

DeleteServiceAccount ==
    /\ Done("delete ServiceAccount")
    /\ account' = FALSE
    /\ UNCHANGED <<crd, ns, roles, bindings, deployment, pods, resource>>

DeleteNamespace ==
    /\ Done("delete Namespace")
    /\ ns' = IF ns = "active" THEN "terminating" ELSE ns
    /\ UNCHANGED <<crd, account, roles, bindings, deployment, pods, resource>>

Administrator ==
    \/ Abort \/ CRDFails
    \/ ApplyCRD \/ DeleteCRD \/ ApplyNamespace \/ DeleteNamespace
    \/ ApplyServiceAccount \/ ApplyRole \/ ApplyRoleBinding \/ ApplyDeployment
    \/ DeleteDeployment \/ DeleteRoleBinding \/ DeleteRole \/ DeleteServiceAccount
    \/ \E c \in Commands : Begin(c)

-----------------------------------------------------------------------------
(* Users of the resources.                                                 *)

CreateResource(t) ==
    /\ resource[t] = "absent"
    /\ crd = "active"
    /\ t = System => ns = "active"
    /\ resource' = [resource EXCEPT ![t] = "open"]
    /\ UNCHANGED <<crd, plane, pods, shell>>

\* Only a resource with the finalizer waits for the operator.
Deleted(phase) == IF phase \in {"absent", "open"} THEN "absent" ELSE "dying"

DeleteResource(t) ==
    /\ resource[t] \in {"open", "held", "served"}
    /\ resource' = [resource EXCEPT ![t] = Deleted(@)]
    /\ UNCHANGED <<crd, plane, pods, shell>>

Users == \E t \in Targets : CreateResource(t) \/ DeleteResource(t)

-----------------------------------------------------------------------------
(* Kubernetes.                                                             *)

StartPod ==
    /\ deployment \in Targets \ pods
    /\ account /\ ns = "active"
    /\ pods' = pods \cup {deployment}
    /\ UNCHANGED <<crd, plane, resource, shell>>

\* The pod of a Deployment that is gone or has another target.
StopPod ==
    /\ \E t \in pods \ {deployment} : pods' = pods \ {t}
    /\ UNCHANGED <<crd, plane, resource, shell>>

\* A definition that is being deleted goes after its resources.
RetireCRD ==
    /\ crd = "terminating"
    /\ IF \A t \in Targets : resource[t] = "absent"
       THEN crd' = "absent" /\ UNCHANGED resource
       ELSE /\ resource' = [t \in Targets |-> Deleted(resource[t])]
            /\ resource' # resource
            /\ UNCHANGED crd
    /\ UNCHANGED <<plane, pods, shell>>

\* A namespace that is being deleted goes after what is in it.
RetireNamespace ==
    /\ ns = "terminating"
    /\ \/ /\ account' = FALSE /\ account
          /\ UNCHANGED <<ns, roles, bindings, deployment, resource>>
       \/ /\ System \in roles /\ roles' = roles \ {System}
          /\ UNCHANGED <<ns, account, bindings, deployment, resource>>
       \/ /\ System \in bindings /\ bindings' = bindings \ {System}
          /\ UNCHANGED <<ns, account, roles, deployment, resource>>
       \/ /\ deployment # Nowhere /\ deployment' = Nowhere
          /\ UNCHANGED <<ns, account, roles, bindings, resource>>
       \/ /\ \E t \in Targets \cap {System} :
                /\ resource[t] \in {"open", "held", "served"}
                /\ resource' = [resource EXCEPT ![t] = Deleted(@)]
          /\ UNCHANGED <<ns, account, roles, bindings, deployment>>
       \/ /\ ~account /\ deployment = Nowhere /\ pods = {}
          /\ System \notin roles \cup bindings
          /\ \A t \in Targets \cap {System} : resource[t] = "absent"
          /\ ns' = "absent"
          /\ UNCHANGED <<account, roles, bindings, deployment, resource>>
    /\ UNCHANGED <<crd, pods, shell>>

-----------------------------------------------------------------------------
(* The operator pod, a pass as Reconciler has it call by call.             *)

Protect(t) ==
    /\ t \in pods /\ resource[t] = "open"
    /\ May(t, {"pgoprs"})
    /\ resource' = [resource EXCEPT ![t] = "held"]
    /\ UNCHANGED <<crd, plane, pods, shell>>

Sync(t) ==
    /\ t \in pods /\ resource[t] = "held"
    /\ t = System => ns = "active"
    /\ May(t, SyncKinds)
    /\ resource' = [resource EXCEPT ![t] = "served"]
    /\ UNCHANGED <<crd, plane, pods, shell>>

Cleanup(t) ==
    /\ t \in pods /\ resource[t] = "dying"
    /\ May(t, CleanupKinds)
    /\ resource' = [resource EXCEPT ![t] = "absent"]
    /\ UNCHANGED <<crd, plane, pods, shell>>

Reconcile(t) == Protect(t) \/ Sync(t) \/ Cleanup(t)

Kubernetes == StartPod \/ StopPod \/ RetireCRD \/ RetireNamespace

Next == Administrator \/ Users \/ Kubernetes \/ \E t \in Targets : Reconcile(t)

Spec == Init /\ [][Next]_vars

\* Kubernetes and a running operator keep working; nothing obliges the
\* administrator or the users.
Fairness ==
    /\ WF_vars(StartPod) /\ WF_vars(StopPod)
    /\ WF_vars(RetireCRD) /\ WF_vars(RetireNamespace)
    /\ \A t \in Targets : WF_vars(Reconcile(t))

FairSpec == Spec /\ Fairness

-----------------------------------------------------------------------------
(* Safety.                                                                 *)

\* An operator is never deployed without the identity and the rights it runs
\* with, whichever commands were interrupted or failed at which call and in
\* whatever order the parts of a deleted namespace go.
Grounded == deployment # Nowhere /\ ns = "active" => Bound(deployment)

\* What a completed undeploy leaves: no operator, no account, no rights in the
\* namespace named, even if some of it was gone before.
Swept ==
    last \in Undeploys =>
        /\ deployment = Nowhere
        /\ ~account
        /\ last.target \notin roles \cup bindings

\* What the calls made so far have established.
Progress ==
    /\ command.name = "deploy" /\ ns = "active" =>
        /\ at >= 4 => account
        /\ at >= 5 => command.target \in roles
        /\ at >= 6 => command.target \in bindings
    /\ command.name = "undeploy" =>
        /\ at >= 2 => deployment = Nowhere
        /\ at >= 3 => command.target \notin bindings
        /\ at >= 4 => command.target \notin roles
        /\ at >= 5 => ~account

\* The inductive invariant behind the two.
PlaneInv ==
    /\ TypeOK
    /\ Progress
    /\ Grounded
    /\ Swept
    /\ ns = "absent" => deployment = Nowhere
    /\ last # NoCommand => command = NoCommand

-----------------------------------------------------------------------------
(* Liveness.                                                               *)

\* An operator whose deploy was completed and not followed by anything serves
\* its namespace: resources do not stay without a pass or in deletion, not
\* those either that an earlier operator left behind.  This is what deploy is
\* for; with no rights but those it gives it is false, see the findings in the
\* README.
DeployedServes ==
    \A t \in Targets :
        <>[](last = Command("deploy", t, FALSE)) =>
            []<>(resource[t] \in {"absent", "served"})

\* Somebody gave the account, beside the Role, the one right that no Role can
\* give, because PersistentVolumes are in no namespace.  Nothing in the
\* repository does.
VolumesGranted == "persistentvolumes" \in Granted

\* If somebody granted PersistentVolumes, deploy gives the operator all else it
\* needs to serve its namespace.
Served == VolumesGranted => DeployedServes

\* If somebody granted PersistentVolumes, an uninstall finishes, unless again
\* and again a resource waits for its cleanup in a namespace where no operator
\* runs that is bound to its Role.
UninstallFinishes ==
    VolumesGranted =>
        (<>[](crd = "terminating") =>
            []<>(\E t \in Targets : resource[t] = "dying" /\ ~(t \in pods /\ Bound(t))))

\* A completed undeploy with --delete-namespace clears the namespace, unless a
\* resource lies in it whose finalizer nobody takes off any more.
Cleared ==
    \A t \in Targets :
        <>[](last = Command("undeploy", t, TRUE)) =>
            \/ <>[](ns = "absent")
            \/ <>[](\E s \in Targets \cap {System} : resource[s] = "dying")
=============================================================================
