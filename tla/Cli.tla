--------------------------------- MODULE Cli ---------------------------------
(***************************************************************************)
(* The `pgopr provision` and `pgopr retire` commands of                    *)
(* src/src/handlers/cluster.rs.  A command is a process of its own that    *)
(* makes one or two API calls on the pgopr resource; several may run at a  *)
(* time, and between their calls the operator adds its finalizer or lets   *)
(* a deleted resource go.                                                  *)
(***************************************************************************)
EXTENDS Integers

CONSTANTS Clients,     \* processes that run commands, one after the other
          Commands,    \* the commands they run
          Word,        \* 2^32: replica counts are u32
          MaxCommands  \* bound on commands begun

\* Commands that read the resource before they write it ...
ReadFirst ==
    {"provision primary", "provision replica", "provision pgmoneta",
     "provision pgexporter", "provision grafana", "retire replica"}

\* ... those that create it when it is not there, and those that just write.
Creators == ReadFirst \ {"provision grafana", "retire replica"}
Blind    == {"retire primary", "retire pgmoneta", "retire pgexporter", "retire grafana"}
Patchers == (ReadFirst \cup Blind) \ {"provision primary", "retire primary"}
Counters == {"provision replica", "retire replica"}

ASSUME CliAssumption ==
    /\ Commands \subseteq ReadFirst \cup Blind
    /\ Word \in Nat \ {0}
    /\ MaxCommands \in Nat

VARIABLES
    phase,    \* of the resource, as in FinalizerProtocol
    spec,     \* its spec, Fresh(0) when there is none
    client,   \* [Clients -> what the process is doing]
    begun,    \* commands begun
    grown,    \* history: successful writes of `provision replica`
    overtaken \* history: the processes about to patch a resource whose count
              \* another call wrote, or that went, since they looked at it

cluster == <<phase, spec>>
vars == <<cluster, client, begun, grown, overtaken>>

-----------------------------------------------------------------------------
SpecType == [replicas   : 0..Word - 1,
             pgmoneta   : BOOLEAN,
             pgexporter : {"none", "plain", "monitored"}]

\* create_cluster: a spec with this replica count and no add-on.
Fresh(n) == [replicas |-> n % Word, pgmoneta |-> FALSE, pgexporter |-> "none"]

\* step is the call to make next, replicas the count the process has read.
Idle == [command |-> "none", step |-> "idle", replicas |-> 0, failed |-> FALSE]

ClientType == [command  : Commands \cup {"none"},
               step     : {"idle", "get", "create", "patch", "delete"},
               replicas : 0..Word - 1,
               failed   : BOOLEAN]

TypeOK ==
    /\ phase \in {"absent", "open", "held", "dying"}
    /\ spec \in SpecType
    /\ client \in [Clients -> ClientType]
    /\ begun \in 0..MaxCommands
    /\ grown \in Nat
    /\ overtaken \subseteq Clients

Init ==
    /\ phase = "absent"
    /\ spec = Fresh(0)
    /\ client = [c \in Clients |-> Idle]
    /\ begun = 0
    /\ grown = 0
    /\ overtaken = {}

-----------------------------------------------------------------------------
(* One command.                                                            *)

Begin(c, command) ==
    /\ client[c].step = "idle"
    /\ begun < MaxCommands
    /\ begun' = begun + 1
    /\ client' = [client EXCEPT ![c] =
          [Idle EXCEPT !.command = command,
                       !.step = CASE command \in ReadFirst -> "get"
                                  [] command = "retire primary" -> "delete"
                                  [] OTHER -> "patch"]]
    /\ UNCHANGED <<cluster, grown, overtaken>>

\* The process goes on to its second call.
Proceed(c, step, replicas) ==
    client' = [client EXCEPT ![c].step = step, ![c].replicas = replicas]

\* The command is over; a failure is only logged.
End(c, failed) ==
    client' = [client EXCEPT ![c].step = "idle", ![c].replicas = 0, ![c].failed = failed]

\* The count is written, or goes with its resource: whoever else is about to
\* patch is behind.  A process that ends is not any more.
Overtake(c) == overtaken' = {d \in Clients \ {c} : client[d].step = "patch"}
KeepUp(c)   == overtaken' = overtaken \ {c}

\* get_cluster and the match on its result.
GetCluster(c) ==
    /\ client[c].step = "get"
    /\ LET command == client[c].command
       IN  \/ /\ phase # "absent"
              /\ IF command = "provision primary"
                 THEN End(c, FALSE)
                 ELSE Proceed(c, "patch", spec.replicas)
           \/ /\ phase = "absent"
              /\ IF command \in Creators
                 THEN Proceed(c, "create", 0)
                 ELSE End(c, TRUE)
    /\ UNCHANGED <<cluster, begun, grown, overtaken>>

\* The name may be taken by now (409).  What is created has no add-on.
CreateCluster(c) ==
    /\ client[c].step = "create"
    /\ IF phase = "absent"
       THEN /\ phase' = "open"
            /\ spec' = Fresh(IF client[c].command = "provision replica" THEN 1 ELSE 0)
            /\ grown' = grown + (IF client[c].command = "provision replica" THEN 1 ELSE 0)
            /\ Overtake(c)
            /\ End(c, FALSE)
       ELSE /\ End(c, TRUE)
            /\ UNCHANGED <<cluster, grown, overtaken>>
    /\ UNCHANGED begun

\* Mutant: the decrement wraps.
PatchedWrapping(command, read, s) ==
    CASE command = "provision replica"    -> [s EXCEPT !.replicas = (read + 1) % Word]
      [] command = "retire replica"       -> [s EXCEPT !.replicas = (read - 1) % Word]
      [] command = "provision pgmoneta"   -> [s EXCEPT !.pgmoneta = TRUE]
      [] command = "retire pgmoneta"      -> [s EXCEPT !.pgmoneta = FALSE]
      [] OTHER                            -> s

\* Mutant: the decrement stops nowhere.
PatchedNegative(command, read, s) ==
    CASE command = "provision replica"    -> [s EXCEPT !.replicas = (read + 1) % Word]
      [] command = "retire replica"       -> [s EXCEPT !.replicas = read - 1]
      [] OTHER                            -> s

\* Mutant: the section is replaced by an empty one.
PatchedReplacing(command, read, s) ==
    CASE command = "provision replica"    -> [s EXCEPT !.replicas = (read + 1) % Word]
      [] command = "provision pgexporter" -> [s EXCEPT !.pgexporter = "plain"]
      [] command = "retire pgexporter"    -> [s EXCEPT !.pgexporter = "none"]
      [] command = "provision grafana"    -> [s EXCEPT !.pgexporter = "monitored"]
      [] OTHER                            -> s

\* Mutant: the patch carries the replica count that was read as well.
PatchedWhole(command, read, s) ==
    CASE command = "provision replica"    -> [s EXCEPT !.replicas = (read + 1) % Word]
      [] command = "provision pgmoneta"   -> [s EXCEPT !.pgmoneta = TRUE, !.replicas = read]
      [] OTHER                            -> s

\* The merge patches: null removes a field, {} creates what is missing and
\* leaves what is there, and nothing else of the spec is touched.
Patched(command, read, s) ==
    CASE command = "provision replica"    -> [s EXCEPT !.replicas = (read + 1) % Word]
      [] command = "retire replica"       -> [s EXCEPT !.replicas = IF read = 0 THEN 0 ELSE read - 1]
      [] command = "provision pgmoneta"   -> [s EXCEPT !.pgmoneta = TRUE]
      [] command = "retire pgmoneta"      -> [s EXCEPT !.pgmoneta = FALSE]
      [] command = "provision pgexporter" -> [s EXCEPT !.pgexporter = IF @ = "none" THEN "plain" ELSE @]
      [] command = "retire pgexporter"    -> [s EXCEPT !.pgexporter = "none"]
      [] command = "provision grafana"    -> [s EXCEPT !.pgexporter = "monitored"]
      [] command = "retire grafana"       -> [s EXCEPT !.pgexporter = "plain"]

\* A patch finds whatever incarnation has the name now, or none (404).
PatchCluster(c) ==
    /\ client[c].step = "patch"
    /\ IF phase # "absent"
       THEN /\ spec' = Patched(client[c].command, client[c].replicas, spec)
            /\ grown' = grown + (IF client[c].command = "provision replica" THEN 1 ELSE 0)
            /\ IF client[c].command \in Counters THEN Overtake(c) ELSE KeepUp(c)
            /\ End(c, FALSE)
       ELSE /\ KeepUp(c)
            /\ End(c, TRUE)
            /\ UNCHANGED <<spec, grown>>
    /\ UNCHANGED <<phase, begun>>

\* handle_retire_primary; a missing resource is as good as a deleted one.
DeleteCluster(c) ==
    /\ client[c].step = "delete"
    /\ phase' = IF phase \in {"held", "dying"} THEN "dying" ELSE "absent"
    /\ spec' = IF phase' = "absent" THEN Fresh(0) ELSE spec
    /\ IF phase' = "absent" THEN Overtake(c) ELSE KeepUp(c)
    /\ End(c, FALSE)
    /\ UNCHANGED <<begun, grown>>

\* Any call may fail; nothing is tried again.
CallFails(c) ==
    /\ client[c].step # "idle"
    /\ KeepUp(c)
    /\ End(c, TRUE)
    /\ UNCHANGED <<cluster, begun, grown>>

-----------------------------------------------------------------------------
(* The operator, as far as the commands can tell.                          *)

\* finalizer::add.
Hold ==
    /\ phase = "open"
    /\ phase' = "held"
    /\ UNCHANGED <<spec, client, begun, grown, overtaken>>

\* finalizer::delete.
Release ==
    /\ phase = "dying"
    /\ phase' = "absent"
    /\ spec' = Fresh(0)
    /\ overtaken' = {d \in Clients : client[d].step = "patch"}
    /\ UNCHANGED <<client, begun, grown>>

-----------------------------------------------------------------------------
Write(c) == CreateCluster(c) \/ PatchCluster(c) \/ DeleteCluster(c)

Next ==
    \/ Hold \/ Release
    \/ \E c \in Clients :
        \/ \E command \in Commands : Begin(c, command)
        \/ GetCluster(c) \/ Write(c) \/ CallFails(c)

Spec == Init /\ [][Next]_vars

-----------------------------------------------------------------------------
\* Racing commands may lose increments but never invent replicas: the count is
\* at most the number of successful `provision replica`, even when a count read
\* from a deleted cluster is written into its successor.
CountAccounted == spec.replicas <= grown

\* What a spec switches on and off.  Monitoring is a field of pgexporter's.
Parts(s) == [replicas   |-> s.replicas,
             pgmoneta   |-> s.pgmoneta,
             pgexporter |-> s.pgexporter # "none",
             monitoring |-> s.pgexporter = "monitored"]

Component(command) ==
    CASE command \in Counters -> {"replicas"}
      [] command \in {"provision pgmoneta", "retire pgmoneta"} -> {"pgmoneta"}
      [] command = "provision pgexporter" -> {"pgexporter"}
      [] command = "retire pgexporter" -> {"pgexporter", "monitoring"}
      [] command \in {"provision grafana", "retire grafana"} -> {"monitoring"}
      [] OTHER -> {}

\* The exception: a merge patch creates the object it patches a field of, so a
\* command about monitoring switches on a pgexporter that was off, `retire
\* grafana` too.
Creates(command, s, part) ==
    /\ command \in {"provision grafana", "retire grafana"}
    /\ part = "pgexporter" /\ s.pgexporter = "none"

\* What a process has read is accounted for, and its step fits its command.
InFlight(r) ==
    /\ r.replicas <= grown
    /\ r.step = "get" => r.command \in ReadFirst
    /\ r.step = "patch" => r.command \in Patchers

\* The inductive invariant behind it: the counts in flight are accounted for.
CountInv ==
    /\ TypeOK
    /\ CountAccounted
    /\ \A c \in Clients : InFlight(client[c])

\* A process that is not overtaken knows the count.
Knows(c) ==
    client[c].step = "patch" /\ client[c].command \in Counters /\ c \notin overtaken =>
        phase # "absent" /\ client[c].replicas = spec.replicas

\* The inductive invariant behind CountsExactly.
KnowInv == CountInv /\ \A c \in Clients : Knows(c)

\* However stale what a command has read, it overwrites only the component it
\* is about: commands about different components cannot undo each other, but
\* for the pgexporter that a command about its monitoring creates.
OnlyOwnComponent ==
    [][phase # "absent" /\ phase' # "absent" =>
        \A part \in DOMAIN Parts(spec) : Parts(spec)'[part] # Parts(spec)[part] =>
            \E c \in Clients :
                /\ client[c].step = "patch" /\ client'[c].step = "idle"
                /\ \/ part \in Component(client[c].command)
                   \/ Creates(client[c].command, spec, part)]_vars

\* Reading the count and writing it are two calls, and updates are lost.  But
\* never without an overlap: a command that succeeds adds or removes exactly
\* one replica, unless a call about the count, or the end of the resource, came
\* between its two; whatever else is patched meanwhile does not matter.
CountsExactly ==
    [][\A c \in Clients \ overtaken :
        client[c].step = "patch" /\ client'[c].step = "idle" /\ ~client'[c].failed =>
            /\ client[c].command = "provision replica" =>
                    spec'.replicas = (spec.replicas + 1) % Word
            /\ client[c].command = "retire replica" =>
                    spec'.replicas = IF spec.replicas = 0 THEN 0 ELSE spec.replicas - 1]_vars
=============================================================================
