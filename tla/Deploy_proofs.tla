---------------------------- MODULE Deploy_proofs ----------------------------
(* Proofs about Deploy, for any set of targets and any granted rights.     *)
EXTENDS Deploy, SequenceTheorems, TLAPS

-----------------------------------------------------------------------------
(* Which call stands where in which command.                               *)

LEMMA DeployCallPlaces ==
    /\ Len(DeployCalls) = 6
    /\ DeployCalls[1] = "apply CRD"
    /\ DeployCalls[2] = "apply Namespace"
    /\ DeployCalls[3] = "apply ServiceAccount"
    /\ DeployCalls[4] = "apply Role"
    /\ DeployCalls[5] = "apply RoleBinding"
    /\ DeployCalls[6] = "apply Deployment"
BY DEF DeployCalls

LEMMA UndeployCallPlaces ==
    ASSUME NEW purge \in BOOLEAN
    PROVE  /\ Len(UndeployCalls(purge)) = IF purge THEN 5 ELSE 4
           /\ UndeployCalls(purge)[1] = "delete Deployment"
           /\ UndeployCalls(purge)[2] = "delete RoleBinding"
           /\ UndeployCalls(purge)[3] = "delete Role"
           /\ UndeployCalls(purge)[4] = "delete ServiceAccount"
           /\ purge => UndeployCalls(purge)[5] = "delete Namespace"
<1> DEFINE order == <<"delete Deployment", "delete RoleBinding", "delete Role",
                      "delete ServiceAccount", "delete Namespace">>
<1> DEFINE names == {"delete Deployment", "delete RoleBinding", "delete Role",
                     "delete ServiceAccount", "delete Namespace"}
<1>1. /\ order[1] = "delete Deployment" /\ order[2] = "delete RoleBinding"
      /\ order[3] = "delete Role" /\ order[4] = "delete ServiceAccount"
      /\ order[5] = "delete Namespace"
  OBVIOUS
<1>2. UndeployCalls(purge) = SubSeq(order, 1, IF purge THEN 5 ELSE 4)
  BY DEF UndeployCalls
<1> HIDE DEF order
<1>3. ASSUME NEW i \in 1..5 PROVE order[i] \in names
  <2>1. i = 1 \/ i = 2 \/ i = 3 \/ i = 4 \/ i = 5
    OBVIOUS
  <2> QED  BY <1>1, <2>1, Zenon
<1> HIDE DEF names
<1>4. CASE purge = TRUE
  <2>1. UndeployCalls(purge) = SubSeq(order, 1, 5)
    BY <1>2, <1>4
  <2>2. Len(SubSeq(order, 1, 5)) = 5 /\ \A i \in 1..5 : SubSeq(order, 1, 5)[i] = order[i]
    BY <1>3, SubSeqProperties
  <2>3. /\ UndeployCalls(purge)[1] = order[1] /\ UndeployCalls(purge)[2] = order[2]
        /\ UndeployCalls(purge)[3] = order[3] /\ UndeployCalls(purge)[4] = order[4]
        /\ UndeployCalls(purge)[5] = order[5]
    BY <2>1, <2>2
  <2> QED  BY <1>1, <1>4, <2>1, <2>2, <2>3
<1>5. CASE purge = FALSE
  <2>1. UndeployCalls(purge) = SubSeq(order, 1, 4)
    BY <1>2, <1>5
  <2>2. \A i \in 1..4 : order[i] \in names
    BY <1>3
  <2>3. Len(SubSeq(order, 1, 4)) = 4 /\ \A i \in 1..4 : SubSeq(order, 1, 4)[i] = order[i]
    BY <2>2, SubSeqProperties
  <2>4. /\ UndeployCalls(purge)[1] = order[1] /\ UndeployCalls(purge)[2] = order[2]
        /\ UndeployCalls(purge)[3] = order[3] /\ UndeployCalls(purge)[4] = order[4]
    BY <2>1, <2>3
  <2> QED  BY <1>1, <1>5, <2>1, <2>3, <2>4
<1> QED  BY <1>4, <1>5

LEMMA OneCall ==
    ASSUME NEW x, NEW s, s = <<x>>
    PROVE  Len(s) = 1 /\ s[1] = x
OBVIOUS

LEMMA CommandKinds ==
    ASSUME NEW c \in Commands \cup {NoCommand}
    PROVE  \/ c.name = "none" /\ c = NoCommand /\ Calls(c) = << >>
           \/ c.name = "install" /\ Calls(c) = <<"apply CRD">>
           \/ c.name = "uninstall" /\ Calls(c) = <<"delete CRD">>
           \/ c.name = "deploy" /\ c.target \in Targets /\ Calls(c) = DeployCalls
           \/ /\ c.name = "undeploy" /\ c.target \in Targets /\ c.purge \in BOOLEAN
              /\ Calls(c) = UndeployCalls(c.purge)
<1>1. CASE c = NoCommand
  BY <1>1 DEF NoCommand, Command, Calls
<1>2. CASE c = Install
  BY <1>2 DEF Install, Command, Calls
<1>3. CASE c = Uninstall
  BY <1>3 DEF Uninstall, Command, Calls
<1>4. CASE c \in Deploys
  <2>1. PICK t \in Targets : c = [name |-> "deploy", target |-> t, purge |-> FALSE]
    BY <1>4 DEF Deploys, Command
  <2>2. c.name = "deploy" /\ c.target \in Targets
    BY <2>1
  <2> QED  BY <2>2 DEF Calls
<1>5. CASE c \in Undeploys
  <2>1. PICK t \in Targets, purge \in BOOLEAN :
            c = [name |-> "undeploy", target |-> t, purge |-> purge]
    BY <1>5 DEF Undeploys, Command
  <2>2. c.name = "undeploy" /\ c.target \in Targets /\ c.purge \in BOOLEAN
    BY <2>1
  <2> QED  BY <2>2 DEF Calls
<1> QED  BY <1>1, <1>2, <1>3, <1>4, <1>5 DEF Commands

\* A call says which command runs, and where in it.
LEMMA CallPlaces ==
    ASSUME NEW c \in Commands \cup {NoCommand}, c # NoCommand,
           NEW i \in 1..7, i <= Len(Calls(c))
    PROVE  /\ Calls(c)[i] = "apply CRD" => c.name \in {"deploy", "install"} /\ i = 1
           /\ Calls(c)[i] = "delete CRD" => c.name = "uninstall" /\ i = 1
           /\ Calls(c)[i] = "apply Namespace" => c.name = "deploy" /\ i = 2
           /\ Calls(c)[i] = "apply ServiceAccount" => c.name = "deploy" /\ i = 3
           /\ Calls(c)[i] = "apply Role" => c.name = "deploy" /\ i = 4
           /\ Calls(c)[i] = "apply RoleBinding" => c.name = "deploy" /\ i = 5
           /\ Calls(c)[i] = "apply Deployment" => c.name = "deploy" /\ i = 6
           /\ Calls(c)[i] = "delete Deployment" => c.name = "undeploy" /\ i = 1
           /\ Calls(c)[i] = "delete RoleBinding" => c.name = "undeploy" /\ i = 2
           /\ Calls(c)[i] = "delete Role" => c.name = "undeploy" /\ i = 3
           /\ Calls(c)[i] = "delete ServiceAccount" => c.name = "undeploy" /\ i = 4
           /\ Calls(c)[i] = "delete Namespace" => c.name = "undeploy" /\ i = 5
<1>1. CASE c.name \in {"install", "uninstall"}
  <2>1. \/ Calls(c) = <<"apply CRD">> /\ c.name = "install"
        \/ Calls(c) = <<"delete CRD">> /\ c.name = "uninstall"
    BY <1>1, CommandKinds
  <2>2. /\ Len(Calls(c)) = 1
        /\ \/ Calls(c)[1] = "apply CRD" /\ c.name = "install"
           \/ Calls(c)[1] = "delete CRD" /\ c.name = "uninstall"
    BY <2>1, OneCall
  <2>5. Len(Calls(c)) = 1
    BY <2>2, Zenon
  <2>3. i = 1
    BY <2>5
  <2>4. CASE Calls(c)[1] = "apply CRD" /\ c.name = "install"
    BY <2>3, <2>4
  <2>6. CASE Calls(c)[1] = "delete CRD" /\ c.name = "uninstall"
    BY <2>3, <2>6
  <2> QED  BY <2>2, <2>4, <2>6
<1>2. CASE c.name = "deploy"
  <2>1. Calls(c) = DeployCalls
    BY <1>2, CommandKinds
  <2>4. Len(Calls(c)) = 6
    BY <2>1, DeployCallPlaces
  <2>2. i = 1 \/ i = 2 \/ i = 3 \/ i = 4 \/ i = 5 \/ i = 6
    BY <2>4
  <2> QED  BY <1>2, <2>1, <2>2, DeployCallPlaces
<1>3. CASE c.name = "undeploy"
  <2>1. c.purge \in BOOLEAN /\ Calls(c) = UndeployCalls(c.purge)
    BY <1>3, CommandKinds
  <2>4. Len(Calls(c)) = IF c.purge THEN 5 ELSE 4
    BY <2>1, UndeployCallPlaces
  <2>2. i = 1 \/ i = 2 \/ i = 3 \/ i = 4 \/ (i = 5 /\ c.purge)
    BY <2>1, <2>4
  <2> QED  BY <1>3, <2>1, <2>2, UndeployCallPlaces
<1> QED  BY <1>1, <1>2, <1>3, CommandKinds

\* An undeploy has at least four calls and a deploy six.
LEMMA CallCounts ==
    ASSUME NEW c \in Commands \cup {NoCommand}, c # NoCommand
    PROVE  /\ Len(Calls(c)) \in 1..6
           /\ c.name = "undeploy" => Len(Calls(c)) >= 4
<1>1. CASE c.name = "undeploy"
  <2>1. c.purge \in BOOLEAN /\ Calls(c) = UndeployCalls(c.purge)
    BY <1>1, CommandKinds
  <2>2. Len(Calls(c)) = IF c.purge THEN 5 ELSE 4
    BY <2>1, UndeployCallPlaces
  <2> QED  BY <2>1, <2>2
<1>2. CASE c.name = "deploy"
  <2>1. Calls(c) = DeployCalls
    BY <1>2, CommandKinds
  <2>2. Len(Calls(c)) = 6
    BY <2>1, DeployCallPlaces
  <2> QED  BY <1>2, <2>2
<1>3. CASE c.name \in {"install", "uninstall"}
  <2>1. Calls(c) = <<"apply CRD">> \/ Calls(c) = <<"delete CRD">>
    BY <1>3, CommandKinds
  <2>2. Len(Calls(c)) = 1
    BY <2>1, OneCall
  <2> QED  BY <1>3, <2>2
<1> QED  BY <1>1, <1>2, <1>3, CommandKinds

-----------------------------------------------------------------------------
(* What a step of a command does to the shell.                             *)

LEMMA DoneStep ==
    ASSUME PlaneInv, NEW call, Done(call)
    PROVE  /\ command \in Commands /\ command # NoCommand
           /\ at \in 1..7 /\ at <= Len(Calls(command)) /\ Len(Calls(command)) \in 1..6
           /\ Calls(command)[at] = call
           /\ last = NoCommand
           /\ \/ /\ at < Len(Calls(command))
                 /\ at' = at + 1 /\ command' = command /\ last' = last
              \/ /\ at = Len(Calls(command))
                 /\ at' = 1 /\ command' = NoCommand /\ last' \in {command, NoCommand}
<1>1. /\ command \in Commands \cup {NoCommand} /\ command # NoCommand
      /\ at \in 1..7 /\ at <= Len(Calls(command)) /\ last = NoCommand
  BY DEF PlaneInv, TypeOK, Done
<1>2. Len(Calls(command)) \in 1..6
  BY <1>1, CallCounts
<1>3. Calls(command)[at] = call
  BY DEF Done
<1>4. CASE at < Len(Calls(command))
  BY <1>1, <1>2, <1>3, <1>4 DEF Done
<1>5. CASE at = Len(Calls(command))
  BY <1>1, <1>2, <1>3, <1>5 DEF Done
<1> QED  BY <1>1, <1>2, <1>4, <1>5

LEMMA NotACommand == NoCommand.name = "none" /\ NoCommand \notin Undeploys
<1>1. NoCommand.name = "none"
  BY DEF NoCommand, Command
<1>2. \A c \in Undeploys : c.name = "undeploy"
  BY DEF Undeploys, Command
<1> QED  BY <1>1, <1>2

LEMMA Increment ==
    ASSUME NEW n \in 1..7, NEW m \in 1..6, n < m
    PROVE  n + 1 <= m /\ n + 1 \in 1..7
OBVIOUS

\* The shell keeps its type.
LEMMA DoneType ==
    ASSUME PlaneInv, NEW call, Done(call)
    PROVE  /\ command' \in Commands \cup {NoCommand}
           /\ at' \in 1..7
           /\ command' # NoCommand => at' <= Len(Calls(command'))
           /\ last' \in Commands \cup {NoCommand}
           /\ last' # NoCommand => command' = NoCommand
<1>1. CASE at < Len(Calls(command)) /\ at' = at + 1 /\ command' = command /\ last' = last
  <2>1. at \in 1..7 /\ Len(Calls(command)) \in 1..6 /\ command \in Commands /\ last = NoCommand
    BY DoneStep
  <2>3. at \in 1..7 /\ Len(Calls(command)) \in 1..6
    BY <2>1, Zenon
  <2>4. at < Len(Calls(command))
    BY <1>1, Zenon
  <2>2. at + 1 <= Len(Calls(command)) /\ at + 1 \in 1..7
    BY <2>3, <2>4, Increment, Zenon
  <2>5. at' <= Len(Calls(command')) /\ at' \in 1..7
    BY <1>1, <2>2, Zenon
  <2>6. command' \in Commands \cup {NoCommand} /\ last' = NoCommand
    BY <1>1, <2>1, Zenon
  <2> QED  BY <2>5, <2>6
<1>2. CASE at' = 1 /\ command' = NoCommand /\ last' \in {command, NoCommand}
  BY <1>2, DoneStep
<1> QED  BY <1>1, <1>2, DoneStep

\* Only the last calls of an undeploy complete one.
LEMMA DoneUndeploy ==
    ASSUME PlaneInv, NEW call, Done(call), last' \in Undeploys
    PROVE  /\ last' = command /\ command.name = "undeploy"
           /\ \/ call = "delete ServiceAccount" /\ at = 4
              \/ call = "delete Namespace" /\ at = 5
<1>1. /\ last' = command /\ at = Len(Calls(command)) /\ Calls(command)[at] = call
  BY DoneStep, NotACommand
<1>2. command \in Undeploys
  BY <1>1
<1>3. command.name = "undeploy" /\ command.purge \in BOOLEAN
  BY <1>2 DEF Undeploys, Command
<1>4. Calls(command) = UndeployCalls(command.purge)
  BY <1>3 DEF Calls
<1>5. CASE command.purge = TRUE
  BY <1>1, <1>3, <1>4, <1>5, UndeployCallPlaces
<1>6. CASE command.purge = FALSE
  BY <1>1, <1>3, <1>4, <1>6, UndeployCallPlaces
<1> QED  BY <1>1, <1>3, <1>5, <1>6

-----------------------------------------------------------------------------
(* The steps of a command keep the invariant.                         *)

\* A command that has just ended has no progress to account for.
LEMMA DoneProgress ==
    ASSUME PlaneInv, NEW call, Done(call), command' = command /\ at' = at + 1 => Progress'
    PROVE  Progress'
<1>1. CASE command' = NoCommand
  BY <1>1, NotACommand DEF Progress
<1>2. CASE command' = command /\ at' = at + 1
  BY <1>2
<1> QED  BY <1>1, <1>2, DoneStep

LEMMA BeginStep ==
    ASSUME PlaneInv, NEW c \in Commands, Begin(c)
    PROVE  PlaneInv'
<1>1. command' = c /\ at' = 1 /\ last' = NoCommand /\ UNCHANGED cluster
  BY DEF Begin
<1>2. c # NoCommand => 1 <= Len(Calls(c))
  BY CallCounts
<1>3. TypeOK'
  BY <1>1, <1>2 DEF PlaneInv, TypeOK, cluster, plane
<1>4. Progress'
  BY <1>1 DEF Progress
<1>5. Grounded' /\ Swept'
  BY <1>1, NotACommand DEF PlaneInv, Grounded, Bound, Swept, cluster, plane
<1> QED  BY <1>1, <1>3, <1>4, <1>5 DEF PlaneInv, cluster, plane

LEMMA AbortStep ==
    ASSUME PlaneInv, Abort
    PROVE  PlaneInv'
<1>1. command' = NoCommand /\ at' = 1 /\ UNCHANGED <<cluster, last>> /\ last = NoCommand
  BY DEF Abort, PlaneInv
<1>2. TypeOK'
  BY <1>1 DEF PlaneInv, TypeOK, cluster, plane
<1>3. Progress'
  BY <1>1, NotACommand DEF Progress
<1>4. Grounded' /\ Swept'
  BY <1>1, NotACommand DEF PlaneInv, Grounded, Bound, Swept, cluster, plane
<1> QED  BY <1>1, <1>2, <1>3, <1>4 DEF PlaneInv, cluster, plane

LEMMA ApplyNamespaceStep ==
    ASSUME PlaneInv, ApplyNamespace
    PROVE  PlaneInv'
<1>1. Done("apply Namespace")
  BY DEF ApplyNamespace
<1>2. command.name = "deploy" /\ at = 2 /\ command.target \in Targets
  BY <1>1, DoneStep, CallPlaces, CommandKinds
<1>3. TypeOK'
  BY <1>1, <1>2, DoneType DEF PlaneInv, TypeOK, Lifecycle, ApplyNamespace
<1>4. Progress'
  <2>1. ASSUME command' = command, at' = at + 1
        PROVE  Progress'
    <3>1. at = 2 /\ at' = at + 1
      BY <1>2, <2>1, Zenon
    <3>2. /\ ~(at >= 4) /\ ~(at >= 5) /\ ~(at >= 6)
          /\ ~(at' >= 4) /\ ~(at' >= 5) /\ ~(at' >= 6)
      BY <3>1
    <3>3. command'.name = "deploy" /\ command'.target = command.target
      BY <1>2, <2>1, Zenon
    <3> QED  BY <1>2, <2>1, <3>2, <3>3, Zenon DEF PlaneInv, Progress, ApplyNamespace
  <2> QED  BY <1>1, <2>1, DoneProgress
<1>5. Grounded'
  BY <1>2 DEF PlaneInv, TypeOK, Progress, Grounded, Bound, ApplyNamespace
<1>6. Swept'
  BY <1>1, <1>2, DoneUndeploy DEF Swept
<1>7. (ns' = "absent" => deployment' = Nowhere) /\ (last' # NoCommand => command' = NoCommand)
  BY <1>1, DoneType DEF PlaneInv, TypeOK, ApplyNamespace
<1> QED  BY <1>3, <1>4, <1>5, <1>6, <1>7 DEF PlaneInv

LEMMA ApplyServiceAccountStep ==
    ASSUME PlaneInv, ApplyServiceAccount
    PROVE  PlaneInv'
<1>1. Done("apply ServiceAccount")
  BY DEF ApplyServiceAccount
<1>2. command.name = "deploy" /\ at = 3 /\ command.target \in Targets
  BY <1>1, DoneStep, CallPlaces, CommandKinds
<1>3. TypeOK'
  BY <1>1, <1>2, DoneType DEF PlaneInv, TypeOK, Lifecycle, ApplyServiceAccount
<1>4. Progress'
  <2>1. ASSUME command' = command, at' = at + 1
        PROVE  Progress'
    <3>1. at = 3 /\ at' = at + 1
      BY <1>2, <2>1, Zenon
    <3>2. /\ ~(at >= 4) /\ ~(at >= 5) /\ ~(at >= 6)
          /\ at' >= 4 /\ ~(at' >= 5) /\ ~(at' >= 6)
      BY <3>1
    <3>3. command'.name = "deploy" /\ command'.target = command.target
      BY <1>2, <2>1, Zenon
    <3> QED  BY <1>2, <2>1, <3>2, <3>3, Zenon DEF PlaneInv, Progress, ApplyServiceAccount
  <2> QED  BY <1>1, <2>1, DoneProgress
<1>5. Grounded'
  BY <1>2 DEF PlaneInv, TypeOK, Progress, Grounded, Bound, ApplyServiceAccount
<1>6. Swept'
  BY <1>1, <1>2, DoneUndeploy DEF Swept
<1>7. (ns' = "absent" => deployment' = Nowhere) /\ (last' # NoCommand => command' = NoCommand)
  BY <1>1, DoneType DEF PlaneInv, TypeOK, ApplyServiceAccount
<1> QED  BY <1>3, <1>4, <1>5, <1>6, <1>7 DEF PlaneInv

LEMMA ApplyRoleStep ==
    ASSUME PlaneInv, ApplyRole
    PROVE  PlaneInv'
<1>1. Done("apply Role")
  BY DEF ApplyRole
<1>2. command.name = "deploy" /\ at = 4 /\ command.target \in Targets
  BY <1>1, DoneStep, CallPlaces, CommandKinds
<1>3. TypeOK'
  BY <1>1, <1>2, DoneType DEF PlaneInv, TypeOK, Lifecycle, ApplyRole
<1>4. Progress'
  <2>1. ASSUME command' = command, at' = at + 1
        PROVE  Progress'
    <3>1. at = 4 /\ at' = at + 1
      BY <1>2, <2>1, Zenon
    <3>2. /\ at >= 4 /\ ~(at >= 5) /\ ~(at >= 6)
          /\ at' >= 4 /\ at' >= 5 /\ ~(at' >= 6)
      BY <3>1
    <3>3. command'.name = "deploy" /\ command'.target = command.target
      BY <1>2, <2>1, Zenon
    <3> QED  BY <1>2, <2>1, <3>2, <3>3, Zenon DEF PlaneInv, Progress, ApplyRole
  <2> QED  BY <1>1, <2>1, DoneProgress
<1>5. Grounded'
  BY <1>2 DEF PlaneInv, TypeOK, Progress, Grounded, Bound, ApplyRole
<1>6. Swept'
  BY <1>1, <1>2, DoneUndeploy DEF Swept
<1>7. (ns' = "absent" => deployment' = Nowhere) /\ (last' # NoCommand => command' = NoCommand)
  BY <1>1, DoneType DEF PlaneInv, TypeOK, ApplyRole
<1> QED  BY <1>3, <1>4, <1>5, <1>6, <1>7 DEF PlaneInv

LEMMA ApplyRoleBindingStep ==
    ASSUME PlaneInv, ApplyRoleBinding
    PROVE  PlaneInv'
<1>1. Done("apply RoleBinding")
  BY DEF ApplyRoleBinding
<1>2. command.name = "deploy" /\ at = 5 /\ command.target \in Targets
  BY <1>1, DoneStep, CallPlaces, CommandKinds
<1>3. TypeOK'
  BY <1>1, <1>2, DoneType DEF PlaneInv, TypeOK, Lifecycle, ApplyRoleBinding
<1>4. Progress'
  <2>1. ASSUME command' = command, at' = at + 1
        PROVE  Progress'
    <3>1. at = 5 /\ at' = at + 1
      BY <1>2, <2>1, Zenon
    <3>2. /\ at >= 4 /\ at >= 5 /\ ~(at >= 6)
          /\ at' >= 4 /\ at' >= 5 /\ at' >= 6
      BY <3>1
    <3>3. command'.name = "deploy" /\ command'.target = command.target
      BY <1>2, <2>1, Zenon
    <3> QED  BY <1>2, <2>1, <3>2, <3>3, Zenon DEF PlaneInv, Progress, ApplyRoleBinding
  <2> QED  BY <1>1, <2>1, DoneProgress
<1>5. Grounded'
  BY <1>2 DEF PlaneInv, TypeOK, Progress, Grounded, Bound, ApplyRoleBinding
<1>6. Swept'
  BY <1>1, <1>2, DoneUndeploy DEF Swept
<1>7. (ns' = "absent" => deployment' = Nowhere) /\ (last' # NoCommand => command' = NoCommand)
  BY <1>1, DoneType DEF PlaneInv, TypeOK, ApplyRoleBinding
<1> QED  BY <1>3, <1>4, <1>5, <1>6, <1>7 DEF PlaneInv

LEMMA ApplyDeploymentStep ==
    ASSUME PlaneInv, ApplyDeployment
    PROVE  PlaneInv'
<1>1. Done("apply Deployment")
  BY DEF ApplyDeployment
<1>2. command.name = "deploy" /\ at = 6 /\ command.target \in Targets
  BY <1>1, DoneStep, CallPlaces, CommandKinds
<1>3. TypeOK'
  BY <1>1, <1>2, DoneType DEF PlaneInv, TypeOK, Lifecycle, ApplyDeployment, Writable
<1>4. Progress'
  <2>1. ASSUME command' = command, at' = at + 1
        PROVE  Progress'
    <3>1. at = 6 /\ at' = at + 1
      BY <1>2, <2>1, Zenon
    <3>2. /\ at >= 4 /\ at >= 5 /\ at >= 6
          /\ at' >= 4 /\ at' >= 5 /\ at' >= 6
      BY <3>1
    <3>3. command'.name = "deploy" /\ command'.target = command.target
      BY <1>2, <2>1, Zenon
    <3> QED  BY <1>2, <2>1, <3>2, <3>3, Zenon DEF PlaneInv, Progress, ApplyDeployment, Writable
  <2> QED  BY <1>1, <2>1, DoneProgress
<1>5. Grounded'
  <2>1. at >= 4 /\ at >= 5 /\ at >= 6
    BY <1>2
  <2>2. ns = "active" => Bound(command.target)
    BY <1>2, <2>1, Zenon DEF PlaneInv, Progress, Bound
  <2> QED  BY <2>2, Zenon DEF Grounded, Bound, ApplyDeployment
<1>6. Swept'
  BY <1>1, <1>2, DoneUndeploy DEF Swept
<1>7. (ns' = "absent" => deployment' = Nowhere) /\ (last' # NoCommand => command' = NoCommand)
  BY <1>1, DoneType DEF PlaneInv, TypeOK, ApplyDeployment, Writable
<1> QED  BY <1>3, <1>4, <1>5, <1>6, <1>7 DEF PlaneInv

LEMMA DeleteDeploymentStep ==
    ASSUME PlaneInv, DeleteDeployment
    PROVE  PlaneInv'
<1>1. Done("delete Deployment")
  BY DEF DeleteDeployment
<1>2. command.name = "undeploy" /\ at = 1 /\ command.target \in Targets
  BY <1>1, DoneStep, CallPlaces, CommandKinds
<1>3. TypeOK'
  BY <1>1, <1>2, DoneType DEF PlaneInv, TypeOK, Lifecycle, DeleteDeployment
<1>4. Progress'
  <2>1. ASSUME command' = command, at' = at + 1
        PROVE  Progress'
    <3>1. at = 1 /\ at' = at + 1
      BY <1>2, <2>1, Zenon
    <3>2. /\ ~(at >= 2) /\ ~(at >= 3) /\ ~(at >= 4) /\ ~(at >= 5)
          /\ at' >= 2 /\ ~(at' >= 3) /\ ~(at' >= 4) /\ ~(at' >= 5)
      BY <3>1
    <3>3. command'.name = "undeploy" /\ command'.target = command.target
      BY <1>2, <2>1, Zenon
    <3> QED  BY <1>2, <2>1, <3>2, <3>3, Zenon DEF PlaneInv, Progress, DeleteDeployment
  <2> QED  BY <1>1, <2>1, DoneProgress
<1>5. Grounded'
  BY <1>2 DEF PlaneInv, TypeOK, Progress, Grounded, Bound, DeleteDeployment
<1>6. Swept'
  <2>1. ASSUME last' \in Undeploys PROVE FALSE
    <3>1. at = 4 \/ at = 5
      BY <1>1, <2>1, DoneUndeploy, Zenon
    <3>2. at = 1
      BY <1>2
    <3> QED  BY <3>1, <3>2
  <2> QED  BY <2>1 DEF Swept
<1>7. (ns' = "absent" => deployment' = Nowhere) /\ (last' # NoCommand => command' = NoCommand)
  BY <1>1, DoneType DEF PlaneInv, TypeOK, DeleteDeployment
<1> QED  BY <1>3, <1>4, <1>5, <1>6, <1>7 DEF PlaneInv

LEMMA DeleteRoleBindingStep ==
    ASSUME PlaneInv, DeleteRoleBinding
    PROVE  PlaneInv'
<1>1. Done("delete RoleBinding")
  BY DEF DeleteRoleBinding
<1>2. command.name = "undeploy" /\ at = 2 /\ command.target \in Targets
  BY <1>1, DoneStep, CallPlaces, CommandKinds
<1>3. TypeOK'
  BY <1>1, <1>2, DoneType DEF PlaneInv, TypeOK, Lifecycle, DeleteRoleBinding
<1>4. Progress'
  <2>1. ASSUME command' = command, at' = at + 1
        PROVE  Progress'
    <3>1. at = 2 /\ at' = at + 1
      BY <1>2, <2>1, Zenon
    <3>2. /\ at >= 2 /\ ~(at >= 3) /\ ~(at >= 4) /\ ~(at >= 5)
          /\ at' >= 2 /\ at' >= 3 /\ ~(at' >= 4) /\ ~(at' >= 5)
      BY <3>1
    <3>3. command'.name = "undeploy" /\ command'.target = command.target
      BY <1>2, <2>1, Zenon
    <3> QED  BY <1>2, <2>1, <3>2, <3>3, Zenon DEF PlaneInv, Progress, DeleteRoleBinding
  <2> QED  BY <1>1, <2>1, DoneProgress
<1>5. Grounded'
  <2>1. at >= 2
    BY <1>2
  <2>2. deployment' = Nowhere
    BY <1>2, <2>1, Zenon DEF PlaneInv, Progress, DeleteRoleBinding
  <2> QED  BY <2>2, Zenon DEF Grounded
<1>6. Swept'
  <2>1. ASSUME last' \in Undeploys PROVE FALSE
    <3>1. at = 4 \/ at = 5
      BY <1>1, <2>1, DoneUndeploy, Zenon
    <3>2. at = 2
      BY <1>2
    <3> QED  BY <3>1, <3>2
  <2> QED  BY <2>1 DEF Swept
<1>7. (ns' = "absent" => deployment' = Nowhere) /\ (last' # NoCommand => command' = NoCommand)
  BY <1>1, DoneType DEF PlaneInv, TypeOK, DeleteRoleBinding
<1> QED  BY <1>3, <1>4, <1>5, <1>6, <1>7 DEF PlaneInv

LEMMA DeleteRoleStep ==
    ASSUME PlaneInv, DeleteRole
    PROVE  PlaneInv'
<1>1. Done("delete Role")
  BY DEF DeleteRole
<1>2. command.name = "undeploy" /\ at = 3 /\ command.target \in Targets
  BY <1>1, DoneStep, CallPlaces, CommandKinds
<1>3. TypeOK'
  BY <1>1, <1>2, DoneType DEF PlaneInv, TypeOK, Lifecycle, DeleteRole
<1>4. Progress'
  <2>1. ASSUME command' = command, at' = at + 1
        PROVE  Progress'
    <3>1. at = 3 /\ at' = at + 1
      BY <1>2, <2>1, Zenon
    <3>2. /\ at >= 2 /\ at >= 3 /\ ~(at >= 4) /\ ~(at >= 5)
          /\ at' >= 2 /\ at' >= 3 /\ at' >= 4 /\ ~(at' >= 5)
      BY <3>1
    <3>3. command'.name = "undeploy" /\ command'.target = command.target
      BY <1>2, <2>1, Zenon
    <3> QED  BY <1>2, <2>1, <3>2, <3>3, Zenon DEF PlaneInv, Progress, DeleteRole
  <2> QED  BY <1>1, <2>1, DoneProgress
<1>5. Grounded'
  <2>1. at >= 2
    BY <1>2
  <2>2. deployment' = Nowhere
    BY <1>2, <2>1, Zenon DEF PlaneInv, Progress, DeleteRole
  <2> QED  BY <2>2, Zenon DEF Grounded
<1>6. Swept'
  <2>1. ASSUME last' \in Undeploys PROVE FALSE
    <3>1. at = 4 \/ at = 5
      BY <1>1, <2>1, DoneUndeploy, Zenon
    <3>2. at = 3
      BY <1>2
    <3> QED  BY <3>1, <3>2
  <2> QED  BY <2>1 DEF Swept
<1>7. (ns' = "absent" => deployment' = Nowhere) /\ (last' # NoCommand => command' = NoCommand)
  BY <1>1, DoneType DEF PlaneInv, TypeOK, DeleteRole
<1> QED  BY <1>3, <1>4, <1>5, <1>6, <1>7 DEF PlaneInv

LEMMA DeleteServiceAccountStep ==
    ASSUME PlaneInv, DeleteServiceAccount
    PROVE  PlaneInv'
<1>1. Done("delete ServiceAccount")
  BY DEF DeleteServiceAccount
<1>2. command.name = "undeploy" /\ at = 4 /\ command.target \in Targets
  BY <1>1, DoneStep, CallPlaces, CommandKinds
<1>3. TypeOK'
  BY <1>1, <1>2, DoneType DEF PlaneInv, TypeOK, Lifecycle, DeleteServiceAccount
<1>4. Progress'
  <2>1. ASSUME command' = command, at' = at + 1
        PROVE  Progress'
    <3>1. at = 4 /\ at' = at + 1
      BY <1>2, <2>1, Zenon
    <3>2. /\ at >= 2 /\ at >= 3 /\ at >= 4 /\ ~(at >= 5)
          /\ at' >= 2 /\ at' >= 3 /\ at' >= 4 /\ at' >= 5
      BY <3>1
    <3>3. command'.name = "undeploy" /\ command'.target = command.target
      BY <1>2, <2>1, Zenon
    <3> QED  BY <1>2, <2>1, <3>2, <3>3, Zenon DEF PlaneInv, Progress, DeleteServiceAccount
  <2> QED  BY <1>1, <2>1, DoneProgress
<1>5. Grounded'
  <2>1. at >= 2
    BY <1>2
  <2>2. deployment' = Nowhere
    BY <1>2, <2>1, Zenon DEF PlaneInv, Progress, DeleteServiceAccount
  <2> QED  BY <2>2, Zenon DEF Grounded
<1>6. Swept'
  <2>1. ASSUME last' \in Undeploys
        PROVE  /\ deployment' = Nowhere /\ ~account'
               /\ last'.target \notin roles' \cup bindings'
    <3>1. at >= 2 /\ at >= 3 /\ at >= 4
      BY <1>2
    <3>2. last' = command
      BY <1>1, <2>1, DoneUndeploy
    <3>3. /\ deployment' = Nowhere /\ ~account'
          /\ command.target \notin roles' /\ command.target \notin bindings'
      BY <1>2, <3>1, Zenon DEF PlaneInv, Progress, DeleteServiceAccount
    <3> QED  BY <3>2, <3>3
  <2> QED  BY <2>1, Zenon DEF Swept
<1>7. (ns' = "absent" => deployment' = Nowhere) /\ (last' # NoCommand => command' = NoCommand)
  BY <1>1, DoneType DEF PlaneInv, TypeOK, DeleteServiceAccount
<1> QED  BY <1>3, <1>4, <1>5, <1>6, <1>7 DEF PlaneInv

LEMMA DeleteNamespaceStep ==
    ASSUME PlaneInv, DeleteNamespace
    PROVE  PlaneInv'
<1>1. Done("delete Namespace")
  BY DEF DeleteNamespace
<1>2. command.name = "undeploy" /\ at = 5 /\ command.target \in Targets
  BY <1>1, DoneStep, CallPlaces, CommandKinds
<1>3. TypeOK'
  BY <1>1, <1>2, DoneType DEF PlaneInv, TypeOK, Lifecycle, DeleteNamespace
<1>4. Progress'
  <2>1. ASSUME command' = command, at' = at + 1
        PROVE  Progress'
    <3>1. at = 5 /\ at' = at + 1
      BY <1>2, <2>1, Zenon
    <3>2. /\ at >= 2 /\ at >= 3 /\ at >= 4 /\ at >= 5
          /\ at' >= 2 /\ at' >= 3 /\ at' >= 4 /\ at' >= 5
      BY <3>1
    <3>3. command'.name = "undeploy" /\ command'.target = command.target
      BY <1>2, <2>1, Zenon
    <3> QED  BY <1>2, <2>1, <3>2, <3>3, Zenon DEF PlaneInv, Progress, DeleteNamespace
  <2> QED  BY <1>1, <2>1, DoneProgress
<1>5. Grounded'
  BY <1>2 DEF PlaneInv, TypeOK, Progress, Grounded, Bound, DeleteNamespace
<1>6. Swept'
  <2>1. ASSUME last' \in Undeploys
        PROVE  /\ deployment' = Nowhere /\ ~account'
               /\ last'.target \notin roles' \cup bindings'
    <3>1. at >= 2 /\ at >= 3 /\ at >= 4 /\ at >= 5
      BY <1>2
    <3>2. last' = command
      BY <1>1, <2>1, DoneUndeploy
    <3>3. /\ deployment' = Nowhere /\ ~account'
          /\ command.target \notin roles' /\ command.target \notin bindings'
      BY <1>2, <3>1, Zenon DEF PlaneInv, Progress, DeleteNamespace
    <3> QED  BY <3>2, <3>3
  <2> QED  BY <2>1, Zenon DEF Swept
<1>7. (ns' = "absent" => deployment' = Nowhere) /\ (last' # NoCommand => command' = NoCommand)
  BY <1>1, DoneType DEF PlaneInv, TypeOK, DeleteNamespace
<1> QED  BY <1>3, <1>4, <1>5, <1>6, <1>7 DEF PlaneInv

\* The calls of the definition leave the rest alone, whether they work or not.
LEMMA CRDStep ==
    ASSUME PlaneInv, ApplyCRD \/ DeleteCRD \/ CRDFails
    PROVE  PlaneInv'
<1>1. PICK call : Done(call) /\ call \in {"apply CRD", "delete CRD"}
  BY DEF ApplyCRD, DeleteCRD, CRDFails
<1>2. command.name \in {"install", "uninstall", "deploy"} /\ at = 1
  BY <1>1, DoneStep, CallPlaces
<1>3. UNCHANGED <<plane, pods, resource>>
  BY DEF ApplyCRD, DeleteCRD, CRDFails, cluster
<1>4. crd' \in Lifecycle /\ (crd' = "absent" => crd = "absent")
  BY DEF ApplyCRD, DeleteCRD, CRDFails, cluster, PlaneInv, TypeOK, Lifecycle
<1>5. TypeOK'
  BY <1>1, <1>3, <1>4, DoneType DEF PlaneInv, TypeOK, plane
<1>6. Progress'
  <2>1. ASSUME command' = command, at' = at + 1
        PROVE  Progress'
    <3>1. at = 1 /\ at' = at + 1
      BY <1>2, <2>1, Zenon
    <3>4. at' = 2
      BY <3>1
    <3>2. ~(at' >= 4) /\ ~(at' >= 5) /\ ~(at' >= 6)
      BY <3>4
    <3>3. command'.name # "undeploy"
      BY <1>2, <2>1
    <3> QED  BY <3>2, <3>3, Zenon DEF Progress
  <2> QED  BY <1>1, <2>1, DoneProgress
<1>7. Grounded'
  BY <1>3 DEF PlaneInv, Grounded, Bound, plane
<1>8. Swept'
  BY <1>1, <1>2, DoneUndeploy DEF Swept
<1> QED  BY <1>1, <1>3, <1>5, <1>6, <1>7, <1>8, DoneType DEF PlaneInv, plane

-----------------------------------------------------------------------------
(* So do the users, Kubernetes and the operator.                           *)

\* Steps that touch resources, pods and the definition only.
LEMMA OutsideStep ==
    ASSUME PlaneInv, UNCHANGED <<plane, shell>>,
           crd' \in Lifecycle, pods' \subseteq Targets, resource' \in [Targets -> Phases],
           crd' = "absent" => \A t \in Targets : resource'[t] = "absent"
    PROVE  PlaneInv'
<1>1. TypeOK'
  BY DEF PlaneInv, TypeOK, plane, shell
<1>2. Progress' /\ Grounded' /\ Swept'
  BY DEF PlaneInv, Progress, Grounded, Bound, Swept, plane, shell
<1> QED  BY <1>1, <1>2 DEF PlaneInv, plane, shell

LEMMA ResourceStep ==
    ASSUME PlaneInv, NEW t \in Targets,
           CreateResource(t) \/ DeleteResource(t) \/ Reconcile(t)
    PROVE  PlaneInv'
<1>1. /\ UNCHANGED <<plane, shell>> /\ UNCHANGED crd /\ UNCHANGED pods
      /\ crd # "absent" \/ resource[t] = "absent"
  BY DEF CreateResource, DeleteResource, Reconcile, Protect, Sync, Cleanup, PlaneInv, TypeOK
<1>2. crd # "absent"
  BY <1>1 DEF CreateResource, DeleteResource, Reconcile, Protect, Sync, Cleanup
<1>3. PICK p \in Phases : resource' = [resource EXCEPT ![t] = p]
  BY DEF CreateResource, DeleteResource, Reconcile, Protect, Sync, Cleanup, Deleted, Phases
<1>4. resource' \in [Targets -> Phases]
  BY <1>3 DEF PlaneInv, TypeOK
<1> QED  BY <1>1, <1>2, <1>4, OutsideStep DEF PlaneInv, TypeOK

LEMMA PodStep ==
    ASSUME PlaneInv, StartPod \/ StopPod
    PROVE  PlaneInv'
<1>1. pods' \subseteq Targets /\ UNCHANGED <<crd, plane, resource, shell>>
  BY DEF StartPod, StopPod, PlaneInv, TypeOK
<1> QED  BY <1>1, OutsideStep DEF PlaneInv, TypeOK

LEMMA RetireCRDStep ==
    ASSUME PlaneInv, RetireCRD
    PROVE  PlaneInv'
<1>1. UNCHANGED <<plane, pods, shell>>
  BY DEF RetireCRD
<1>2. \A t \in Targets : Deleted(resource[t]) \in Phases
  BY DEF Deleted, Phases
<1>3. crd' \in Lifecycle /\ resource' \in [Targets -> Phases]
  BY <1>2 DEF RetireCRD, PlaneInv, TypeOK, Lifecycle
<1>4. crd' = "absent" => \A t \in Targets : resource'[t] = "absent"
  BY DEF RetireCRD
<1> QED  BY <1>1, <1>3, <1>4, OutsideStep DEF PlaneInv, TypeOK

\* What goes with the namespace was owed to nobody: it is not active.
LEMMA RetireNamespaceStep ==
    ASSUME PlaneInv, RetireNamespace
    PROVE  PlaneInv'
<1>1. /\ ns = "terminating" /\ ns' \in {"terminating", "absent"}
      /\ UNCHANGED <<crd, pods, shell>>
      /\ account' = account \/ account' = FALSE
      /\ roles' \subseteq roles /\ bindings' \subseteq bindings
      /\ deployment' \in {deployment, Nowhere}
      /\ ns' = "absent" => deployment' = Nowhere
  BY DEF RetireNamespace
<1>2. resource' \in [Targets -> Phases]
  <2>1. CASE resource' = resource
    BY <2>1 DEF PlaneInv, TypeOK
  <2>2. CASE \E t \in Targets : resource' = [resource EXCEPT ![t] = Deleted(@)]
    BY <2>2 DEF PlaneInv, TypeOK, Deleted, Phases
  <2> QED  BY <2>1, <2>2 DEF RetireNamespace
<1>3. crd' = "absent" => \A t \in Targets : resource'[t] = "absent"
  BY <1>1 DEF RetireNamespace, PlaneInv, TypeOK
<1>4. TypeOK'
  BY <1>1, <1>2, <1>3 DEF PlaneInv, TypeOK, Lifecycle, shell
<1>5. Progress'
  <2>1. /\ command' = command /\ at' = at /\ ns' # "active"
        /\ deployment = Nowhere => deployment' = Nowhere
        /\ account' => account
        /\ \A t : t \notin roles => t \notin roles'
        /\ \A t : t \notin bindings => t \notin bindings'
    <3>1. account' => account
      BY <1>1, Zenon
    <3> QED  BY <1>1, <3>1 DEF shell
  <2>2. Progress
    BY DEF PlaneInv
  <2>3. CASE command.name = "deploy"
    BY <2>1, <2>3, Zenon DEF Progress
  <2>4. CASE command.name = "undeploy"
    BY <2>1, <2>2, <2>4, Zenon DEF Progress
  <2> QED  BY <2>1, <2>3, <2>4, Zenon DEF Progress
<1>6. Grounded'
  BY <1>1 DEF Grounded
<1>7. Swept'
  BY <1>1 DEF PlaneInv, Swept, shell
<1> QED  BY <1>1, <1>4, <1>5, <1>6, <1>7 DEF PlaneInv, shell

-----------------------------------------------------------------------------
(* The theorems.                                                           *)

LEMMA InitPlane == Init => PlaneInv
<1> SUFFICES ASSUME Init PROVE PlaneInv
  OBVIOUS
<1>1. TypeOK
  <2>1. command = NoCommand /\ at = 1 /\ last = NoCommand
    BY DEF Init
  <2>2. resource \in [Targets -> Phases] /\ \A t \in Targets : resource[t] = "absent"
    BY DEF Init, Phases
  <2>3. crd \in Lifecycle /\ ns \in Lifecycle /\ account \in BOOLEAN /\ pods \subseteq Targets
    BY DEF Init, Lifecycle
  <2>4. roles \subseteq Targets /\ bindings \subseteq Targets /\ deployment \in Targets \cup {Nowhere}
    BY DEF Init
  <2>5. at \in 1..7
    BY <2>1
  <2> QED  BY <2>1, <2>2, <2>3, <2>4, <2>5, Zenon DEF TypeOK
<1>2. Progress /\ Grounded /\ Swept
  BY NotACommand DEF Init, Progress, Grounded, Swept
<1> QED  BY <1>1, <1>2 DEF Init, PlaneInv

LEMMA NextPlane == PlaneInv /\ [Next]_vars => PlaneInv'
<1> SUFFICES ASSUME PlaneInv, [Next]_vars PROVE PlaneInv'
  OBVIOUS
<1>1. CASE UNCHANGED vars
  BY <1>1, OutsideStep DEF vars, cluster, PlaneInv, TypeOK
<1>2. CASE Administrator
  BY <1>2, AbortStep, BeginStep, CRDStep, ApplyNamespaceStep, ApplyServiceAccountStep,
     ApplyRoleStep, ApplyRoleBindingStep, ApplyDeploymentStep, DeleteDeploymentStep,
     DeleteRoleBindingStep, DeleteRoleStep, DeleteServiceAccountStep, DeleteNamespaceStep
     DEF Administrator
<1>3. CASE Users \/ \E t \in Targets : Reconcile(t)
  BY <1>3, ResourceStep DEF Users
<1>4. CASE Kubernetes
  BY <1>4, PodStep, RetireCRDStep, RetireNamespaceStep DEF Kubernetes
<1> QED  BY <1>1, <1>2, <1>3, <1>4 DEF Next

\* PlaneInv is an invariant: what the calls of an interrupted or running
\* command have established, and what a deleted namespace takes along.
THEOREM PlaneInvariant == Spec => []PlaneInv
BY InitPlane, NextPlane, PTL DEF Spec

\* Every variable keeps its type; a definition that is gone has no resources.
THEOREM TypeCorrect == Spec => []TypeOK
<1>1. PlaneInv => TypeOK
  BY DEF PlaneInv
<1> QED  BY <1>1, PlaneInvariant, PTL

\* handle_deploy and handle_undeploy never leave an operator deployed without
\* its account, Role and RoleBinding, at whichever call a command ended and
\* whatever the commands before it left (deploy.rs 280-465).
THEOREM AlwaysGrounded == Spec => []Grounded
<1>1. PlaneInv => Grounded
  BY DEF PlaneInv
<1> QED  BY <1>1, PlaneInvariant, PTL

\* After a completed handle_undeploy nothing of the operator is left, for any
\* number of targets (deploy.rs 392-465).
THEOREM AlwaysSwept == Spec => []Swept
<1>1. PlaneInv => Swept
  BY DEF PlaneInv
<1> QED  BY <1>1, PlaneInvariant, PTL
=============================================================================
