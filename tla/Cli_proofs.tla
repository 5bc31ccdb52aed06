----------------------------- MODULE Cli_proofs -----------------------------
(***************************************************************************)
(* For any number of concurrent commands: the replica count is accounted   *)
(* for, updates of it are lost in overlaps only, and commands about        *)
(* different components keep apart.                                        *)
(***************************************************************************)
EXTENDS Cli, TLAPS

\* Counts modulo the word stay in range and never grow past what they were.
LEMMA Wraps ==
    ASSUME NEW n \in Nat
    PROVE  n % Word \in 0..Word - 1 /\ n % Word <= n
  BY CliAssumption, SMT

\* The spec create_cluster writes.
LEMMA FreshTyped ==
    ASSUME NEW n \in Nat
    PROVE  Fresh(n) \in SpecType /\ Fresh(n).replicas <= n
  BY Wraps DEF Fresh, SpecType

\* A merge patch keeps the spec a spec, and the count grows only with
\* `provision replica`, to at most one more than what was read.
LEMMA PatchedTyped ==
    ASSUME NEW s \in SpecType, NEW count \in 0..Word - 1,
           NEW command \in Patchers
    PROVE  /\ Patched(command, count, s) \in SpecType
           /\ command = "provision replica" => Patched(command, count, s).replicas <= count + 1
           /\ command # "provision replica" =>
                \/ Patched(command, count, s).replicas = s.replicas
                \/ Patched(command, count, s).replicas <= count
  <1> Word \in Nat \ {0} BY CliAssumption
  <1>1. count + 1 \in Nat OBVIOUS
  <1>2. (count + 1) % Word \in 0..Word - 1 /\ (count + 1) % Word <= count + 1
    BY <1>1, Wraps
  <1>3. (IF count = 0 THEN 0 ELSE count - 1) \in 0..count
    OBVIOUS
  <1>4. CASE command = "provision replica"
    BY <1>2, <1>3, <1>4 DEF Patched, SpecType
  <1>5. CASE command = "retire replica"
    <2>1. PICK n \in 0..count : n = (IF count = 0 THEN 0 ELSE count - 1)
      BY <1>3
    <2>2. Patched(command, count, s) = [s EXCEPT !.replicas = n]
      BY <1>5, <2>1 DEF Patched
    <2>3. n \in 0..Word - 1 /\ n <= count
      BY <2>1
    <2> QED BY <1>5, <2>2, <2>3 DEF SpecType
  <1>6. CASE command = "provision pgmoneta"
    BY <1>2, <1>3, <1>6 DEF Patched, SpecType
  <1>7. CASE command = "retire pgmoneta"
    BY <1>2, <1>3, <1>7 DEF Patched, SpecType
  <1>8. CASE command = "provision pgexporter"
    BY <1>2, <1>3, <1>8 DEF Patched, SpecType
  <1>9. CASE command = "retire pgexporter"
    BY <1>2, <1>3, <1>9 DEF Patched, SpecType
  <1>10. CASE command = "provision grafana"
    BY <1>2, <1>3, <1>10 DEF Patched, SpecType
  <1>11. CASE command = "retire grafana"
    BY <1>2, <1>3, <1>11 DEF Patched, SpecType
  <1> QED BY <1>4, <1>5, <1>6, <1>7, <1>8, <1>9, <1>10, <1>11 DEF Patchers, ReadFirst, Blind

-----------------------------------------------------------------------------
\* The spec that stands for no resource, and any command's idle process.
LEMMA IdleTyped == /\ Fresh(0) \in SpecType /\ Fresh(0).replicas = 0
                   /\ Idle \in ClientType
  <1>1. Word \in Nat \ {0} BY CliAssumption
  <1>2. 0 % Word = 0 BY <1>1, SMT
  <1> QED BY <1>1, <1>2 DEF Fresh, SpecType, Idle, ClientType

\* It has read nothing.
LEMMA IdleCount == Idle.replicas = 0 /\ Idle.step = "idle"
  BY DEF Idle

\* CountInv holds at the start.
LEMMA CountInit == Init => CountInv
  <1> SUFFICES ASSUME Init PROVE CountInv OBVIOUS
  <1>1. MaxCommands \in Nat BY CliAssumption
  <1>2. client \in [Clients -> ClientType] BY IdleTyped DEF Init
  <1>3. TypeOK BY <1>1, <1>2, IdleTyped DEF Init, TypeOK
  <1>4. CountAccounted BY IdleTyped DEF Init, CountAccounted
  <1>5. \A c \in Clients : InFlight(client[c])
    <2>1. Idle.replicas = 0 /\ Idle.step = "idle" BY DEF Idle
    <2>2. \A c \in Clients : client[c] = Idle BY DEF Init
    <2>3. grown = 0 BY DEF Init
    <2>4. 0 <= 0 OBVIOUS
    <2> QED BY <2>1, <2>2, <2>3, <2>4 DEF InFlight
  <1> QED BY <1>3, <1>4, <1>5 DEF CountInv

\* A step of one process to a state that is accounted for.
LEMMA ClientMoves ==
    ASSUME CountInv, NEW c \in Clients, NEW r \in ClientType,
           client' = [client EXCEPT ![c] = r],
           grown' \in Nat, grown <= grown',
           r.replicas <= grown', r.step = "get" => r.command \in ReadFirst,
           r.step = "patch" => r.command \in Patchers
    PROVE  /\ client' \in [Clients -> ClientType]
           /\ \A other \in Clients : InFlight(client[other])'
  <1>1. client' \in [Clients -> ClientType] BY DEF CountInv, TypeOK
  <1>2. ASSUME NEW other \in Clients
        PROVE  InFlight(client[other])'
    <2>1. /\ client[other].replicas \in Nat /\ client[other].replicas <= grown
          /\ grown \in Nat
          /\ client[other].step = "get" => client[other].command \in ReadFirst
          /\ client[other].step = "patch" => client[other].command \in Patchers
      BY CliAssumption DEF CountInv, TypeOK, ClientType, InFlight
    <2>2. CASE other = c
      <3>1. client'[other] = r BY <2>2 DEF CountInv, TypeOK
      <3> QED BY <3>1 DEF InFlight
    <2>3. CASE other # c
      <3>1. client'[other] = client[other] BY <2>3 DEF CountInv, TypeOK
      <3>2. client[other].replicas <= grown' BY <2>1
      <3> QED BY <2>1, <3>1, <3>2 DEF InFlight
    <2> QED BY <2>2, <2>3
  <1> QED BY <1>1, <1>2

\* What a process is after its command.
LEMMA EndRecord ==
    ASSUME NEW r \in ClientType, NEW failed \in BOOLEAN
    PROVE  LET over == [r EXCEPT !.step = "idle", !.replicas = 0, !.failed = failed]
           IN  over \in ClientType /\ over.replicas = 0 /\ over.step = "idle"
  <1> Word \in Nat \ {0} BY CliAssumption
  <1>1. r = [command |-> r.command, step |-> r.step, replicas |-> r.replicas, failed |-> r.failed]
    BY DEF ClientType
  <1>2. r.command \in Commands \cup {"none"} BY DEF ClientType
  <1>3. 0 \in 0..Word - 1 OBVIOUS
  <1> QED BY <1>1, <1>2, <1>3 DEF ClientType

\* A command that is over has no count in flight.
LEMMA EndMoves ==
    ASSUME CountInv, NEW c \in Clients, NEW failed \in BOOLEAN, End(c, failed),
           grown' \in Nat, grown <= grown'
    PROVE  /\ client' \in [Clients -> ClientType]
           /\ \A other \in Clients : InFlight(client[other])'
  <1> DEFINE r == [client[c] EXCEPT !.step = "idle", !.replicas = 0, !.failed = failed]
  <1>1. client[c] \in ClientType BY DEF CountInv, TypeOK
  <1>2. r \in ClientType /\ r.replicas = 0 /\ r.step = "idle" BY <1>1, EndRecord
  <1>3. client' = [client EXCEPT ![c] = r] BY DEF End, CountInv, TypeOK
  <1>4. r.replicas <= grown' BY <1>2
  <1> HIDE DEF r
  <1> QED BY <1>2, <1>3, <1>4, ClientMoves

-----------------------------------------------------------------------------
\* The other actions' part of the invariant, when they leave the processes.
LEMMA ServerMoves ==
    ASSUME CountInv, overtaken' \subseteq Clients, UNCHANGED <<client, begun, grown>>,
           phase' \in {"absent", "open", "held", "dying"},
           spec' = spec \/ spec' = Fresh(0)
    PROVE  CountInv'
  <1>1. spec' \in SpecType /\ spec'.replicas <= grown
    <2>1. CASE spec' = spec BY <2>1 DEF CountInv, TypeOK, CountAccounted
    <2>2. CASE spec' = Fresh(0)
      <3>1. grown \in Nat /\ 0 <= grown BY DEF CountInv, TypeOK
      <3> QED BY <2>2, <3>1, IdleTyped
    <2> QED BY <2>1, <2>2
  <1> QED BY <1>1 DEF CountInv, TypeOK, CountAccounted, InFlight

\* Creating the resource.
LEMMA CreateMoves ==
    ASSUME CountInv, overtaken' \subseteq Clients, NEW c \in Clients, CreateCluster(c)
    PROVE  CountInv'
  <1>1. grown \in Nat BY DEF CountInv, TypeOK
  <1>2. CASE phase = "absent"
    <2> DEFINE one == IF client[c].command = "provision replica" THEN 1 ELSE 0
    <2>1. one \in Nat /\ one <= 1 OBVIOUS
    <2>2. phase' = "open" /\ spec' = Fresh(one) /\ grown' = grown + one /\ End(c, FALSE)
          /\ begun' = begun
      BY <1>2 DEF CreateCluster
    <2> HIDE DEF one
    <2>3. grown' \in Nat /\ grown <= grown' /\ one <= grown' BY <1>1, <2>1, <2>2
    <2>4. spec' \in SpecType /\ spec'.replicas \in Nat /\ spec'.replicas <= one
      BY <2>1, <2>2, FreshTyped, CliAssumption DEF SpecType
    <2>5. spec'.replicas <= grown' BY <2>1, <2>3, <2>4
    <2>6. /\ client' \in [Clients -> ClientType]
          /\ \A other \in Clients : InFlight(client[other])'
      BY <2>2, <2>3, EndMoves
    <2> QED BY <2>2, <2>3, <2>4, <2>5, <2>6 DEF CountInv, TypeOK, CountAccounted
  <1>3. CASE phase # "absent"
    <2>1. End(c, TRUE) /\ UNCHANGED <<cluster, grown, begun>>
      BY <1>3 DEF CreateCluster
    <2>3. grown' \in Nat /\ grown <= grown' BY <1>1, <2>1
    <2>2. /\ client' \in [Clients -> ClientType]
          /\ \A other \in Clients : InFlight(client[other])'
      BY <2>1, <2>3, EndMoves
    <2> QED BY <2>1, <2>2 DEF CountInv, TypeOK, CountAccounted, cluster
  <1> QED BY <1>2, <1>3

\* Patching it: the one case that needs the counts in flight.
LEMMA PatchMoves ==
    ASSUME CountInv, overtaken' \subseteq Clients, NEW c \in Clients, PatchCluster(c)
    PROVE  CountInv'
  <1>1. grown \in Nat BY DEF CountInv, TypeOK
  <1>2. CASE phase # "absent"
    <2>1. PICK one \in Nat, command \in Patchers, count \in 0..Word - 1 :
             /\ command = client[c].command /\ count = client[c].replicas
             /\ one = (IF command = "provision replica" THEN 1 ELSE 0)
      BY DEF CountInv, TypeOK, ClientType, InFlight, PatchCluster
    <2>2. /\ spec' = Patched(command, count, spec)
          /\ grown' = grown + one
          /\ End(c, FALSE) /\ UNCHANGED <<phase, begun>>
      BY <1>2, <2>1 DEF PatchCluster
    <2>3. spec \in SpecType /\ spec.replicas <= grown /\ count <= grown
      BY <2>1 DEF CountInv, TypeOK, CountAccounted, InFlight
    <2>4. /\ spec' \in SpecType
          /\ command = "provision replica" => spec'.replicas <= count + 1
          /\ command # "provision replica" =>
                spec'.replicas = spec.replicas \/ spec'.replicas <= count
      BY <2>2, <2>3, PatchedTyped
    <2>5. grown' \in Nat /\ grown <= grown' BY <1>1, <2>2
    <2>6. /\ client' \in [Clients -> ClientType]
          /\ \A other \in Clients : InFlight(client[other])'
      BY <2>2, <2>5, EndMoves
    <2>7. Word \in Nat /\ count \in Nat BY CliAssumption
    <2>8. spec'.replicas \in Nat /\ spec.replicas \in Nat
      <3>1. \A s \in SpecType : s.replicas \in Nat BY <2>7 DEF SpecType
      <3> QED BY <2>3, <2>4, <3>1
    <2>9. spec'.replicas <= grown'
      <3>1. CASE command = "provision replica"
        <4>1. grown' = grown + 1 /\ spec'.replicas <= count + 1 BY <2>1, <2>2, <2>4, <3>1
        <4> QED BY <1>1, <2>3, <2>7, <2>8, <4>1
      <3>2. CASE command # "provision replica"
        <4>1. spec'.replicas = spec.replicas \/ spec'.replicas <= count
          BY <2>4, <3>2
        <4>2. spec'.replicas <= grown BY <1>1, <2>3, <2>7, <2>8, <4>1
        <4> QED BY <1>1, <2>5, <2>8, <4>2
      <3> QED BY <3>1, <3>2
    <2> QED BY <2>2, <2>4, <2>5, <2>6, <2>9 DEF CountInv, TypeOK, CountAccounted
  <1>3. CASE phase = "absent"
    <2>1. End(c, TRUE) /\ UNCHANGED <<spec, grown, phase, begun>>
      BY <1>3 DEF PatchCluster
    <2>3. grown' \in Nat /\ grown <= grown' BY <1>1, <2>1
    <2>2. /\ client' \in [Clients -> ClientType]
          /\ \A other \in Clients : InFlight(client[other])'
      BY <2>1, <2>3, EndMoves
    <2> QED BY <2>1, <2>2 DEF CountInv, TypeOK, CountAccounted
  <1> QED BY <1>2, <1>3

-----------------------------------------------------------------------------
\* A step that ends or advances a process and leaves the resource alone.
LEMMA ReadMoves ==
    ASSUME CountInv, overtaken' \subseteq Clients, UNCHANGED <<cluster, grown>>, begun' \in 0..MaxCommands,
           client' \in [Clients -> ClientType],
           \A other \in Clients : InFlight(client[other])'
    PROVE  CountInv'
  BY DEF CountInv, TypeOK, CountAccounted, cluster

\* Beginning a command.
LEMMA BeginMoves ==
    ASSUME CountInv, overtaken' \subseteq Clients, NEW c \in Clients, NEW command \in Commands, Begin(c, command)
    PROVE  CountInv'
  <1>1. command \in ReadFirst \cup Blind BY CliAssumption
  <1>2. PICK step \in {"get", "delete", "patch"} :
           step = (CASE command \in ReadFirst -> "get"
                     [] command = "retire primary" -> "delete"
                     [] OTHER -> "patch")
    OBVIOUS
  <1>3. /\ step = "get" => command \in ReadFirst
        /\ step = "patch" => command \in Patchers
    BY <1>1, <1>2 DEF Patchers, Blind
  <1>4. /\ client' = [client EXCEPT ![c] = [Idle EXCEPT !.command = command, !.step = step]]
        /\ UNCHANGED <<cluster, grown>> /\ begun' = begun + 1 /\ begun < MaxCommands
    BY <1>2 DEF Begin
  <1>5. PICK r \in ClientType :
           /\ r = [Idle EXCEPT !.command = command, !.step = step]
           /\ r.step = step /\ r.command = command /\ r.replicas = 0
    <2>1. PICK s \in ClientType : s = Idle BY IdleTyped
    <2>2. s = [command |-> s.command, step |-> s.step, replicas |-> s.replicas, failed |-> s.failed]
          /\ s.failed \in BOOLEAN /\ s.replicas \in 0..Word - 1
      BY DEF ClientType
    <2>3. PICK r : r = [s EXCEPT !.command = command, !.step = step]
      OBVIOUS
    <2>4. r \in ClientType /\ r.step = step /\ r.command = command /\ r.replicas = s.replicas
      BY <2>2, <2>3 DEF ClientType
    <2>5. r.replicas = 0 BY <2>1, <2>4, IdleCount
    <2> QED BY <2>1, <2>3, <2>4, <2>5
  <1>6. grown' \in Nat /\ grown <= grown' /\ 0 <= grown' BY <1>4 DEF CountInv, TypeOK
  <1>7. /\ client' \in [Clients -> ClientType]
        /\ \A other \in Clients : InFlight(client[other])'
    BY <1>3, <1>4, <1>5, <1>6, ClientMoves
  <1>8. begun' \in 0..MaxCommands BY <1>4, CliAssumption DEF CountInv, TypeOK
  <1> QED BY <1>4, <1>7, <1>8, ReadMoves

\* Going on is accounted for.
LEMMA ProceedMoves ==
    ASSUME CountInv, overtaken' \subseteq Clients, NEW c \in Clients, NEW step \in {"create", "patch"},
           NEW count \in 0..Word - 1, count <= grown,
           step = "patch" => client[c].command \in Patchers,
           Proceed(c, step, count), UNCHANGED <<cluster, begun, grown>>
    PROVE  CountInv'
  <1>1. PICK s \in ClientType : s = client[c] BY DEF CountInv, TypeOK
  <1>2. s = [command |-> s.command, step |-> s.step, replicas |-> s.replicas, failed |-> s.failed]
        /\ s.command \in Commands \cup {"none"} /\ s.failed \in BOOLEAN
    BY DEF ClientType
  <1>3. PICK r : r = [s EXCEPT !.step = step, !.replicas = count]
    OBVIOUS
  <1>4. /\ r \in ClientType
        /\ r.replicas = count /\ r.step = step /\ r.command = client[c].command
    BY <1>1, <1>2, <1>3 DEF ClientType
  <1>5. client' = [client EXCEPT ![c] = r]
    BY <1>1, <1>3 DEF Proceed, CountInv, TypeOK
  <1>6. grown' \in Nat /\ grown <= grown' /\ r.replicas <= grown'
    BY <1>4 DEF CountInv, TypeOK
  <1>7. /\ client' \in [Clients -> ClientType]
        /\ \A other \in Clients : InFlight(client[other])'
    BY <1>4, <1>5, <1>6, ClientMoves
  <1>8. begun' \in 0..MaxCommands BY DEF CountInv, TypeOK
  <1> QED BY <1>7, <1>8, ReadMoves

\* Reading the resource.
LEMMA GetMoves ==
    ASSUME CountInv, overtaken' \subseteq Clients, NEW c \in Clients, GetCluster(c)
    PROVE  CountInv'
  <1>1. UNCHANGED <<cluster, begun, grown>> BY DEF GetCluster
  <1>2. grown' \in Nat /\ grown <= grown' /\ begun' \in 0..MaxCommands
    BY <1>1 DEF CountInv, TypeOK
  <1>3. ASSUME NEW failed \in BOOLEAN, End(c, failed)
        PROVE  CountInv'
    <2>1. /\ client' \in [Clients -> ClientType]
          /\ \A other \in Clients : InFlight(client[other])'
      BY <1>2, <1>3, EndMoves
    <2> QED BY <1>1, <1>2, <2>1, ReadMoves
  <1>4. CASE Proceed(c, "create", 0)
    <2>1. 0 \in 0..Word - 1 /\ 0 <= grown
      <3> Word \in Nat \ {0} BY CliAssumption
      <3> QED BY <1>1, <1>2
    <2> QED BY <1>1, <1>4, <2>1, ProceedMoves
  <1>5. CASE client[c].command # "provision primary" /\ client[c].command \in ReadFirst
             /\ Proceed(c, "patch", spec.replicas)
    <2>1. spec.replicas \in 0..Word - 1 /\ spec.replicas <= grown
      BY DEF CountInv, TypeOK, CountAccounted, SpecType
    <2>2. client[c].command \in Patchers BY <1>5 DEF Patchers, ReadFirst
    <2> QED BY <1>1, <1>5, <2>1, <2>2, ProceedMoves
  <1>6. client[c].command \in ReadFirst BY DEF GetCluster, CountInv, InFlight
  <1>7. \/ \E failed \in BOOLEAN : End(c, failed)
        \/ Proceed(c, "create", 0)
        \/ client[c].command # "provision primary" /\ Proceed(c, "patch", spec.replicas)
    BY DEF GetCluster
  <1> QED BY <1>3, <1>4, <1>5, <1>6, <1>7

\* Deleting it.
LEMMA DeleteMoves ==
    ASSUME CountInv, overtaken' \subseteq Clients, NEW c \in Clients, DeleteCluster(c)
    PROVE  CountInv'
  <1>1. End(c, FALSE) /\ UNCHANGED <<begun, grown>> BY DEF DeleteCluster
  <1>2. grown' \in Nat /\ grown <= grown' /\ 0 <= grown /\ begun' \in 0..MaxCommands
    BY <1>1 DEF CountInv, TypeOK
  <1>3. /\ client' \in [Clients -> ClientType]
        /\ \A other \in Clients : InFlight(client[other])'
    BY <1>1, <1>2, EndMoves
  <1>4. spec' = spec \/ spec' = Fresh(0) BY DEF DeleteCluster
  <1>5. spec' \in SpecType /\ spec'.replicas <= grown'
    <2>1. CASE spec' = spec BY <1>1, <2>1 DEF CountInv, TypeOK, CountAccounted
    <2>2. CASE spec' = Fresh(0) BY <1>1, <1>2, <2>2, IdleTyped
    <2> QED BY <1>4, <2>1, <2>2
  <1>6. phase' \in {"absent", "open", "held", "dying"} BY DEF DeleteCluster
  <1> QED BY <1>1, <1>2, <1>3, <1>5, <1>6 DEF CountInv, TypeOK, CountAccounted

\* A call that fails.
LEMMA FailMoves ==
    ASSUME CountInv, overtaken' \subseteq Clients, NEW c \in Clients, CallFails(c)
    PROVE  CountInv'
  <1>1. End(c, TRUE) /\ UNCHANGED <<cluster, begun, grown>> BY DEF CallFails
  <1>2. grown' \in Nat /\ grown <= grown' /\ begun' \in 0..MaxCommands
    BY <1>1 DEF CountInv, TypeOK
  <1>3. /\ client' \in [Clients -> ClientType]
        /\ \A other \in Clients : InFlight(client[other])'
    BY <1>1, <1>2, EndMoves
  <1> QED BY <1>1, <1>2, <1>3, ReadMoves

\* Only processes are overtaken.
LEMMA OvertakenTyped ==
    ASSUME CountInv, [Next]_vars
    PROVE  overtaken' \subseteq Clients
  <1>1. overtaken \subseteq Clients BY DEF CountInv, TypeOK
  <1>2. ASSUME NEW c \in Clients, Overtake(c) \/ KeepUp(c) \/ overtaken' = overtaken
        PROVE  overtaken' \subseteq Clients
    BY <1>1, <1>2 DEF Overtake, KeepUp
  <1>3. ASSUME NEW c \in Clients, Write(c) \/ CallFails(c) \/ GetCluster(c)
        PROVE  overtaken' \subseteq Clients
    BY <1>2, <1>3 DEF Write, CallFails, GetCluster, CreateCluster, PatchCluster, DeleteCluster
  <1>4. ASSUME NEW c \in Clients, NEW command \in Commands, Begin(c, command)
        PROVE  overtaken' \subseteq Clients
    BY <1>1, <1>4 DEF Begin
  <1>5. CASE Hold \/ UNCHANGED vars BY <1>1, <1>5 DEF Hold, vars
  <1>6. CASE Release BY <1>6 DEF Release
  <1> QED BY <1>3, <1>4, <1>5, <1>6 DEF Next

\* CountInv is inductive.
LEMMA CountStep == CountInv /\ [Next]_vars => CountInv'
  <1> SUFFICES ASSUME CountInv, [Next]_vars PROVE CountInv' OBVIOUS
  <1>0. overtaken' \subseteq Clients BY OvertakenTyped
  <1>1. ASSUME NEW c \in Clients, NEW command \in Commands, Begin(c, command)
        PROVE  CountInv'
    BY <1>0, <1>1, BeginMoves
  <1>2. ASSUME NEW c \in Clients, GetCluster(c) PROVE CountInv'
    BY <1>0, <1>2, GetMoves
  <1>3. ASSUME NEW c \in Clients, Write(c) PROVE CountInv'
    BY <1>0, <1>3, CreateMoves, PatchMoves, DeleteMoves DEF Write
  <1>4. ASSUME NEW c \in Clients, CallFails(c) PROVE CountInv'
    BY <1>0, <1>4, FailMoves
  <1>5. CASE Hold
    <2>1. phase' = "held" /\ UNCHANGED <<spec, client, begun, grown>>
      BY <1>5 DEF Hold
    <2> QED BY <1>0, <2>1, ServerMoves
  <1>6. CASE Release
    <2>1. phase' = "absent" /\ spec' = Fresh(0) /\ UNCHANGED <<client, begun, grown>>
      BY <1>6 DEF Release
    <2> QED BY <1>0, <2>1, ServerMoves
  <1>7. CASE UNCHANGED vars
    BY <1>0, <1>7 DEF vars, cluster, CountInv, TypeOK, CountAccounted, InFlight
  <1> QED BY <1>1, <1>2, <1>3, <1>4, <1>5, <1>6, <1>7 DEF Next

\* Replica counts are accounted for, however many commands race, fail halfway
\* or act on a resource that was deleted and created again meanwhile.
THEOREM CountsAccounted == Spec => []CountAccounted
  <1>1. CountInv => CountAccounted BY DEF CountInv
  <1> QED BY <1>1, CountInit, CountStep, PTL DEF Spec

\* The state keeps its types, the word of the count included.
THEOREM CommandsTyped == Spec => []TypeOK
  <1>1. CountInv => TypeOK BY DEF CountInv
  <1> QED BY <1>1, CountInit, CountStep, PTL DEF Spec

-----------------------------------------------------------------------------
(* Commands about different components.                                    *)

\* A merge patch changes the component its command is about, and no other but
\* the pgexporter it creates.
LEMMA PatchedOwn ==
    ASSUME NEW s \in SpecType, NEW count, NEW command \in Patchers,
           NEW part \in DOMAIN Parts(s),
           Parts(Patched(command, count, s))[part] # Parts(s)[part]
    PROVE  part \in Component(command) \/ Creates(command, s, part)
  <1>1. part \in {"replicas", "pgmoneta", "pgexporter", "monitoring"}
    BY DEF Parts
  <1>2. CASE command \in Counters
    <2>1. PICK n : Patched(command, count, s) = [s EXCEPT !.replicas = n]
      BY <1>2 DEF Patched, Counters
    <2>2. part = "replicas" BY <1>1, <2>1 DEF SpecType, Parts
    <2> QED BY <1>2, <2>2 DEF Component, Counters
  <1>3. CASE command \in {"provision pgmoneta", "retire pgmoneta"}
    <2>1. PICK on : Patched(command, count, s) = [s EXCEPT !.pgmoneta = on]
      BY <1>3 DEF Patched
    <2>2. part = "pgmoneta" BY <1>1, <2>1 DEF SpecType, Parts
    <2> QED BY <1>3, <2>2 DEF Component, Counters
  <1>4. ASSUME NEW mode, Patched(command, count, s) = [s EXCEPT !.pgexporter = mode]
        PROVE  /\ part \in {"pgexporter", "monitoring"}
               /\ part = "pgexporter" => (mode # "none") # (s.pgexporter # "none")
               /\ part = "monitoring" => (mode = "monitored") # (s.pgexporter = "monitored")
    BY <1>1, <1>4 DEF SpecType, Parts
  <1>5. CASE command = "provision pgexporter"
    <2>1. Patched(command, count, s)
            = [s EXCEPT !.pgexporter = IF s.pgexporter = "none" THEN "plain" ELSE s.pgexporter]
      BY <1>5 DEF Patched, SpecType
    <2>2. part = "pgexporter" BY <2>1, <1>4 DEF SpecType
    <2> QED BY <1>5, <2>2 DEF Component, Counters
  <1>6. CASE command = "retire pgexporter"
    <2>1. Patched(command, count, s) = [s EXCEPT !.pgexporter = "none"]
      BY <1>6 DEF Patched
    <2>2. part \in {"pgexporter", "monitoring"} BY <2>1, <1>4
    <2> QED BY <1>6, <2>2 DEF Component, Counters
  <1>7. CASE command \in {"provision grafana", "retire grafana"}
    <2>1. PICK mode \in {"plain", "monitored"} :
             Patched(command, count, s) = [s EXCEPT !.pgexporter = mode]
      BY <1>7 DEF Patched
    <2>2. part = "monitoring" \/ (part = "pgexporter" /\ s.pgexporter = "none")
      BY <2>1, <1>4
    <2> QED BY <1>7, <2>2 DEF Component, Creates, Counters
  <1> QED BY <1>2, <1>3, <1>5, <1>6, <1>7 DEF Patchers, ReadFirst, Blind, Counters

\* The spec of a resource that stays is changed by patches only.
LEMMA ChangedByPatch ==
    ASSUME [Next]_vars, phase # "absent", phase' # "absent", spec' # spec
    PROVE  \E c \in Clients : PatchCluster(c)
  <1>1. ~(Hold \/ Release \/ UNCHANGED vars)
    BY DEF Hold, Release, vars, cluster
  <1>2. ASSUME NEW c \in Clients, NEW command \in Commands PROVE ~Begin(c, command)
    BY DEF Begin, cluster
  <1>3. ASSUME NEW c \in Clients
        PROVE  ~(GetCluster(c) \/ CallFails(c) \/ CreateCluster(c) \/ DeleteCluster(c))
    BY DEF GetCluster, CallFails, CreateCluster, DeleteCluster, cluster
  <1> QED BY <1>1, <1>2, <1>3 DEF Next, Write

\* A process whose patch went through is done.
LEMMA PatchEnds ==
    ASSUME CountInv, NEW c \in Clients, PatchCluster(c)
    PROVE  client[c].step = "patch" /\ client'[c].step = "idle"
           /\ client[c].command \in Patchers
  <1>1. PICK failed \in BOOLEAN : End(c, failed)
    BY DEF PatchCluster
  <1>2. client \in [Clients -> ClientType] BY DEF CountInv, TypeOK
  <1>3. client'[c].step = "idle" BY <1>1, <1>2 DEF End, ClientType
  <1>4. client[c].step = "patch" BY DEF PatchCluster
  <1> QED BY <1>3, <1>4 DEF CountInv, InFlight

\* However many commands race, and however old what they have read, none of
\* them undoes what another one did to a different component.
THEOREM CommandsKeepApart == Spec => OnlyOwnComponent
  <1>1. CountInv /\ [Next]_vars
        => [phase # "absent" /\ phase' # "absent" =>
              \A part \in DOMAIN Parts(spec) : Parts(spec)'[part] # Parts(spec)[part] =>
                  \E c \in Clients :
                      /\ client[c].step = "patch" /\ client'[c].step = "idle"
                      /\ \/ part \in Component(client[c].command)
                         \/ Creates(client[c].command, spec, part)]_vars
    <2> SUFFICES ASSUME CountInv, [Next]_vars, phase # "absent", phase' # "absent",
                        NEW part \in DOMAIN Parts(spec),
                        Parts(spec)'[part] # Parts(spec)[part]
                 PROVE  \E c \in Clients :
                            /\ client[c].step = "patch" /\ client'[c].step = "idle"
                            /\ \/ part \in Component(client[c].command)
                               \/ Creates(client[c].command, spec, part)
      OBVIOUS
    <2>1. Parts(spec)' = Parts(spec') BY DEF Parts
    <2>2. spec' # spec BY <2>1
    <2>3. PICK c \in Clients : PatchCluster(c) BY <2>2, ChangedByPatch
    <2>4. client[c].step = "patch" /\ client'[c].step = "idle"
          /\ client[c].command \in Patchers
      BY <2>3, PatchEnds
    <2>5. spec' = Patched(client[c].command, client[c].replicas, spec)
      BY <2>3 DEF PatchCluster
    <2>6. spec \in SpecType BY DEF CountInv, TypeOK
    <2>7. Parts(Patched(client[c].command, client[c].replicas, spec))[part] # Parts(spec)[part]
      BY <2>1, <2>5
    <2>8. \/ part \in Component(client[c].command)
          \/ Creates(client[c].command, spec, part)
      BY <2>4, <2>6, <2>7, PatchedOwn
    <2> QED BY <2>4, <2>8
  <1> QED BY <1>1, CountInit, CountStep, PTL DEF Spec, OnlyOwnComponent

-----------------------------------------------------------------------------
(* Updates of the count.                                                   *)

\* Patches about something else leave the count.
LEMMA CountKept ==
    ASSUME NEW s \in SpecType, NEW count, NEW command \in Patchers \ Counters
    PROVE  Patched(command, count, s).replicas = s.replicas
  BY DEF Patched, Patchers, ReadFirst, Blind, Counters, SpecType

\* A step of one process that leaves the count, or overtakes the others.
LEMMA OthersKnow ==
    ASSUME KnowInv, NEW c \in Clients, NEW r \in ClientType,
           client' = [client EXCEPT ![c] = r],
           r.step = "patch" /\ r.command \in Counters =>
                phase' # "absent" /\ r.replicas = spec'.replicas,
           \/ Overtake(c)
           \/ /\ KeepUp(c) \/ overtaken' = overtaken
              /\ spec'.replicas = spec.replicas
              /\ phase # "absent" => phase' # "absent"
    PROVE  \A d \in Clients : Knows(d)'
  <1>1. ASSUME NEW d \in Clients PROVE Knows(d)'
    <2>1. CASE d = c
      <3>1. client'[d] = r BY <2>1 DEF KnowInv, CountInv, TypeOK
      <3> QED BY <3>1 DEF Knows
    <2>2. CASE d # c
      <3>1. client'[d] = client[d] BY <2>2 DEF KnowInv, CountInv, TypeOK
      <3>2. CASE Overtake(c) BY <2>2, <3>1, <3>2 DEF Knows, Overtake
      <3>3. CASE ~Overtake(c)
        <4>1. d \in overtaken' <=> d \in overtaken BY <2>2, <3>3 DEF KeepUp
        <4>2. Knows(d) BY DEF KnowInv
        <4> QED BY <3>1, <3>3, <4>1, <4>2 DEF Knows
      <3> QED BY <3>2, <3>3
    <2> QED BY <2>1, <2>2
  <1> QED BY <1>1

\* The end of a command is such a step.
LEMMA EndKnows ==
    ASSUME KnowInv, NEW c \in Clients, NEW failed \in BOOLEAN, End(c, failed),
           \/ Overtake(c)
           \/ /\ KeepUp(c) \/ overtaken' = overtaken
              /\ spec'.replicas = spec.replicas
              /\ phase # "absent" => phase' # "absent"
    PROVE  \A d \in Clients : Knows(d)'
  <1> DEFINE r == [client[c] EXCEPT !.step = "idle", !.replicas = 0, !.failed = failed]
  <1>1. client[c] \in ClientType BY DEF KnowInv, CountInv, TypeOK
  <1>2. r \in ClientType /\ r.step = "idle" BY <1>1, EndRecord
  <1>3. client' = [client EXCEPT ![c] = r] BY DEF End
  <1> HIDE DEF r
  <1> QED BY <1>2, <1>3, OthersKnow

\* Writing keeps the others informed or overtakes them.
LEMMA WriteKnows ==
    ASSUME KnowInv, NEW c \in Clients, Write(c)
    PROVE  \A d \in Clients : Knows(d)'
  <1>1. CASE CreateCluster(c)
    <2>1. CASE phase = "absent" BY <1>1, <2>1, EndKnows DEF CreateCluster
    <2>2. CASE phase # "absent" BY <1>1, <2>2, EndKnows DEF CreateCluster, cluster
    <2> QED BY <2>1, <2>2
  <1>2. CASE PatchCluster(c)
    <2>1. CASE phase # "absent" /\ client[c].command \in Counters
      BY <1>2, <2>1, EndKnows DEF PatchCluster
    <2>2. CASE phase # "absent" /\ client[c].command \notin Counters
      <3>1. client[c].command \in Patchers \ Counters /\ spec \in SpecType
        BY <1>2, <2>2, PatchEnds DEF KnowInv, CountInv, TypeOK
      <3>2. spec' = Patched(client[c].command, client[c].replicas, spec)
            /\ KeepUp(c) /\ End(c, FALSE) /\ phase' = phase
        BY <1>2, <2>2 DEF PatchCluster
      <3>3. spec'.replicas = spec.replicas BY <3>1, <3>2, CountKept
      <3> QED BY <3>2, <3>3, EndKnows
    <2>3. CASE phase = "absent" BY <1>2, <2>3, EndKnows DEF PatchCluster
    <2> QED BY <2>1, <2>2, <2>3
  <1>3. CASE DeleteCluster(c)
    <2>1. CASE phase' = "absent" BY <1>3, <2>1, EndKnows DEF DeleteCluster
    <2>2. CASE phase' # "absent" BY <1>3, <2>2, EndKnows DEF DeleteCluster
    <2> QED BY <2>1, <2>2
  <1> QED BY <1>1, <1>2, <1>3 DEF Write

\* A command begins with nothing it could know.
LEMMA BeginKnows ==
    ASSUME KnowInv, NEW c \in Clients, NEW command \in Commands, Begin(c, command)
    PROVE  \A d \in Clients : Knows(d)'
  <1>1. PICK step \in {"get", "delete", "patch"} :
           step = (CASE command \in ReadFirst -> "get"
                     [] command = "retire primary" -> "delete"
                     [] OTHER -> "patch")
    OBVIOUS
  <1>2. step = "patch" => command \notin Counters
    BY <1>1 DEF ReadFirst, Counters
  <1>3. PICK s \in ClientType : s = Idle BY IdleTyped
  <1>4. s = [command |-> s.command, step |-> s.step, replicas |-> s.replicas, failed |-> s.failed]
        /\ s.failed \in BOOLEAN /\ s.replicas \in 0..Word - 1
    BY DEF ClientType
  <1>5. PICK r : r = [s EXCEPT !.command = command, !.step = step]
    OBVIOUS
  <1>6. r \in ClientType /\ r.step = step /\ r.command = command
    BY <1>4, <1>5 DEF ClientType
  <1>7. client' = [client EXCEPT ![c] = r] /\ UNCHANGED <<phase, spec, overtaken>>
    BY <1>1, <1>3, <1>5 DEF Begin, cluster
  <1> QED BY <1>2, <1>6, <1>7, OthersKnow

\* What is read is known.
LEMMA GetKnows ==
    ASSUME KnowInv, NEW c \in Clients, GetCluster(c)
    PROVE  \A d \in Clients : Knows(d)'
  <1>1. UNCHANGED <<phase, spec, overtaken>> BY DEF GetCluster, cluster
  <1>2. ASSUME NEW failed \in BOOLEAN, End(c, failed)
        PROVE  \A d \in Clients : Knows(d)'
    BY <1>1, <1>2, EndKnows
  <1>3. ASSUME NEW step \in {"create", "patch"}, NEW count \in 0..Word - 1,
               Proceed(c, step, count),
               step = "patch" => phase # "absent" /\ count = spec.replicas
        PROVE  \A d \in Clients : Knows(d)'
    <2>1. PICK s \in ClientType : s = client[c] BY DEF KnowInv, CountInv, TypeOK
    <2>2. s = [command |-> s.command, step |-> s.step, replicas |-> s.replicas, failed |-> s.failed]
          /\ s.command \in Commands \cup {"none"} /\ s.failed \in BOOLEAN
      BY DEF ClientType
    <2>3. PICK r : r = [s EXCEPT !.step = step, !.replicas = count]
      OBVIOUS
    <2>4. r \in ClientType /\ r.replicas = count /\ r.step = step
      BY <2>2, <2>3 DEF ClientType
    <2>5. client' = [client EXCEPT ![c] = r]
      BY <1>3, <2>1, <2>3 DEF Proceed
    <2> QED BY <1>1, <1>3, <2>4, <2>5, OthersKnow
  <1>4. spec.replicas \in 0..Word - 1 /\ 0 \in 0..Word - 1
    BY CliAssumption DEF KnowInv, CountInv, TypeOK, SpecType
  <1>5. \/ \E failed \in BOOLEAN : End(c, failed)
        \/ Proceed(c, "create", 0)
        \/ phase # "absent" /\ Proceed(c, "patch", spec.replicas)
    BY DEF GetCluster
  <1>6. CASE phase # "absent" /\ Proceed(c, "patch", spec.replicas)
    BY <1>3, <1>4, <1>6
  <1>7. CASE Proceed(c, "create", 0) BY <1>3, <1>4, <1>7
  <1> QED BY <1>2, <1>5, <1>6, <1>7

\* KnowInv is inductive.
LEMMA KnowStep == KnowInv /\ [Next]_vars => KnowInv'
  <1> SUFFICES ASSUME KnowInv, [Next]_vars PROVE \A d \in Clients : Knows(d)'
    BY CountStep DEF KnowInv
  <1>1. ASSUME NEW c \in Clients, NEW command \in Commands, Begin(c, command)
        PROVE  \A d \in Clients : Knows(d)'
    BY <1>1, BeginKnows
  <1>2. ASSUME NEW c \in Clients, GetCluster(c) PROVE \A d \in Clients : Knows(d)'
    BY <1>2, GetKnows
  <1>3. ASSUME NEW c \in Clients, Write(c) PROVE \A d \in Clients : Knows(d)'
    BY <1>3, WriteKnows
  <1>4. ASSUME NEW c \in Clients, CallFails(c) PROVE \A d \in Clients : Knows(d)'
    BY <1>4, EndKnows DEF CallFails, cluster
  <1>5. CASE Hold BY <1>5 DEF Hold, KnowInv, Knows
  <1>6. CASE Release BY <1>6 DEF Release, KnowInv, Knows
  <1>7. CASE UNCHANGED vars BY <1>7 DEF vars, cluster, KnowInv, Knows
  <1> QED BY <1>1, <1>2, <1>3, <1>4, <1>5, <1>6, <1>7 DEF Next

\* A lost update takes an overlap: for any number of commands, a provision or
\* retire that nothing about the count came between counts by exactly one.
THEOREM CountedExactly == Spec => CountsExactly
  <1>1. Init => KnowInv
    <2> SUFFICES ASSUME Init PROVE \A c \in Clients : Knows(c)
      BY CountInit DEF KnowInv
    <2> QED BY IdleCount DEF Init, Knows
  <1>2. ASSUME KnowInv, [Next]_vars, NEW c \in Clients \ overtaken,
               client[c].step = "patch", client'[c].step = "idle", ~client'[c].failed
        PROVE  /\ client[c].command = "provision replica" =>
                    spec'.replicas = (spec.replicas + 1) % Word
               /\ client[c].command = "retire replica" =>
                    spec'.replicas = IF spec.replicas = 0 THEN 0 ELSE spec.replicas - 1
    <2>1. client \in [Clients -> ClientType] /\ spec \in SpecType
      BY <1>2 DEF KnowInv, CountInv, TypeOK
    <2>2. ~(Hold \/ Release \/ UNCHANGED vars)
      BY <1>2 DEF Hold, Release, vars
    <2>3. ASSUME NEW d \in Clients, NEW command \in Commands PROVE ~Begin(d, command)
      <3> SUFFICES ASSUME Begin(d, command) PROVE FALSE OBVIOUS
      <3>1. d # c BY <1>2 DEF Begin
      <3> QED BY <1>2, <2>1, <3>1 DEF Begin
    <2>4. ASSUME NEW d \in Clients PROVE ~GetCluster(d)
      <3> SUFFICES ASSUME GetCluster(d) PROVE FALSE OBVIOUS
      <3>1. d # c BY <1>2 DEF GetCluster
      <3> QED BY <1>2, <2>1, <3>1 DEF GetCluster, End, Proceed
    <2>5. ASSUME NEW d \in Clients, CreateCluster(d) \/ DeleteCluster(d) PROVE FALSE
      <3>1. d # c BY <1>2, <2>5 DEF CreateCluster, DeleteCluster
      <3> QED BY <1>2, <2>1, <2>5, <3>1 DEF CreateCluster, DeleteCluster, End
    <2>6. ASSUME NEW d \in Clients, CallFails(d) PROVE FALSE
      BY <1>2, <2>1, <2>6 DEF CallFails, End, ClientType
    <2>7. PICK d \in Clients : PatchCluster(d)
      BY <1>2, <2>2, <2>3, <2>4, <2>5, <2>6 DEF Next, Write
    <2>8. d = c BY <1>2, <2>1, <2>7 DEF PatchCluster, End
    <2>9. phase # "absent"
      <3> SUFFICES ASSUME phase = "absent" PROVE FALSE OBVIOUS
      <3>1. End(c, TRUE) BY <2>7, <2>8 DEF PatchCluster
      <3>2. client'[c].failed BY <2>1, <3>1 DEF End, ClientType
      <3> QED BY <1>2, <3>2
    <2>10. spec' = Patched(client[c].command, client[c].replicas, spec)
      BY <2>7, <2>8, <2>9 DEF PatchCluster
    <2>11. client[c].command \in Counters => client[c].replicas = spec.replicas
      BY <1>2 DEF KnowInv, Knows
    <2>12. CASE client[c].command = "provision replica"
      BY <2>1, <2>10, <2>11, <2>12 DEF Patched, Counters, SpecType
    <2>13. CASE client[c].command = "retire replica"
      BY <2>1, <2>10, <2>11, <2>13 DEF Patched, Counters, SpecType
    <2> QED BY <2>12, <2>13
  <1>3. KnowInv /\ [Next]_vars
        => [\A c \in Clients \ overtaken :
              client[c].step = "patch" /\ client'[c].step = "idle" /\ ~client'[c].failed =>
                /\ client[c].command = "provision replica" =>
                        spec'.replicas = (spec.replicas + 1) % Word
                /\ client[c].command = "retire replica" =>
                        spec'.replicas = IF spec.replicas = 0 THEN 0 ELSE spec.replicas - 1]_vars
    BY <1>2
  <1> QED BY <1>1, <1>3, KnowStep, PTL DEF Spec, CountsExactly
=============================================================================
