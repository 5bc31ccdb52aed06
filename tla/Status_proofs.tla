---------------------------- MODULE Status_proofs ----------------------------
(***************************************************************************)
(* Proofs about Status for every set of specs, number of replicas and      *)
(* time stamps: types, that a pass has seen only what was so while it ran, *)
(* and from that what a report means.                                      *)
(***************************************************************************)
EXTENDS Status, FiniteSetTheorems, TLAPS

-----------------------------------------------------------------------------
(* What a pass reads.                                                      *)

\* The objects a spec asks for are watched.
LEMMA ObservedWatched ==
    ASSUME NEW spec \in Specs
    PROVE  /\ MembersOf(spec) \subseteq Watched
           /\ spec.pgmoneta => Pgmoneta \in Watched
           /\ spec.pgexporter # "none" => Pgexporter \in Watched /\ Monitoring \in Watched
  BY DEF Watched, Observed

\* The fields of a spec are typed.
LEMMA SpecFields ==
    ASSUME NEW spec \in Specs
    PROVE  /\ spec \in SpecType
           /\ spec.replicas \in Nat
           /\ spec.pgmoneta \in BOOLEAN
           /\ spec.pgexporter \in {"none", "plain", "monitored"}
  BY StatusAssumption, TopologyAssumption DEF SpecType

\* The reads of the replicas are reads of replicas the spec asks for.
LEMMA ReplicaReadsTyped ==
    ASSUME NEW spec \in Specs
    PROVE  ReplicaReads(spec.replicas) \in Seq(Reads)
  <1> DEFINE n == spec.replicas
  <1>1. n \in Nat
    BY SpecFields
  <1>2. ASSUME NEW k \in 1..2 * n
        PROVE  <<IF k % 2 = 1 THEN "get" ELSE "pods", Replica((k + 1) \div 2)>> \in Reads
    <2>1. (k + 1) \div 2 \in 1..n
      BY <1>1
    <2>2. Replica((k + 1) \div 2) \in MembersOf(spec)
      BY <2>1 DEF MembersOf
    <2>3. Replica((k + 1) \div 2) \in Watched
      BY <2>2, ObservedWatched
    <2>4. QED
      BY <2>3 DEF Reads
  <1>3. 2 * n \in Nat
    BY <1>1
  <1>4. ReplicaReads(n) \in [1..2 * n -> Reads]
    BY <1>2 DEF ReplicaReads
  <1>5. QED
    BY <1>3, <1>4

\* So is everything else a pass reads.
LEMMA ObserveTyped ==
    ASSUME NEW spec \in Specs PROVE Observe(spec) \in Seq(Reads)
  <1>1. Primary \in Watched
    BY ObservedWatched DEF MembersOf
  <1>2. <<<<"get", Primary>>, <<"pods", Primary>>>> \in Seq(Reads)
        /\ <<<<"lists", Primary>>>> \in Seq(Reads)
    BY <1>1 DEF Reads
  <1> DEFINE
        moneta   == IF spec.pgmoneta
                    THEN <<<<"get", Pgmoneta>>, <<"claim", Pgmoneta>>, <<"pods", Pgmoneta>>>>
                    ELSE << >>
        exporter == IF spec.pgexporter # "none"
                    THEN <<<<"get", Pgexporter>>, <<"pods", Pgexporter>>,
                           <<"get", Monitoring>>, <<"pods", Monitoring>>>>
                    ELSE << >>
  <1>3. moneta \in Seq(Reads)
    <2>1. CASE spec.pgmoneta
      <3>1. Pgmoneta \in Watched
        BY <2>1, ObservedWatched
      <3>2. /\ <<"get", Pgmoneta>> \in Reads
            /\ <<"claim", Pgmoneta>> \in Reads
            /\ <<"pods", Pgmoneta>> \in Reads
        BY <3>1 DEF Reads
      <3>3. QED
        BY <2>1, <3>2
    <2>2. CASE ~spec.pgmoneta
      BY <2>2
    <2>3. QED
      BY <2>1, <2>2
  <1>4. exporter \in Seq(Reads)
    <2>1. CASE spec.pgexporter # "none"
      <3>1. Pgexporter \in Watched /\ Monitoring \in Watched
        BY <2>1, ObservedWatched
      <3>2. /\ <<"get", Pgexporter>> \in Reads /\ <<"pods", Pgexporter>> \in Reads
            /\ <<"get", Monitoring>> \in Reads /\ <<"pods", Monitoring>> \in Reads
        BY <3>1 DEF Reads
      <3>3. QED
        BY <2>1, <3>2
    <2>2. CASE spec.pgexporter = "none"
      BY <2>2
    <2>3. QED
      BY <2>1, <2>2
  <1>5. Observe(spec) = <<<<"get", Primary>>, <<"pods", Primary>>>>
                          \o ReplicaReads(spec.replicas) \o <<<<"lists", Primary>>>>
                          \o moneta \o exporter
    BY DEF Observe
  <1> HIDE DEF moneta, exporter
  <1>6. QED
    BY <1>2, <1>3, <1>4, <1>5, ReplicaReadsTyped

-----------------------------------------------------------------------------
(* Types.                                                                  *)

\* No status to carry over from has a time stamp that is in range all the same.
LEMMA Since ==
    ASSUME NEW r \in Resource \cup {NoResource}
    PROVE  r.status.since \in 0..Stamps - 1
  BY StatusAssumption DEF Resource, NoResource, Report, NoReport

\* A resource that is given is one of the two.
LEMMA ResourceFields ==
    ASSUME NEW r \in Resource
    PROVE  /\ r.spec \in Specs
           /\ \A s \in Report : [r EXCEPT !.status = s] \in Resource
           /\ \A s \in Specs : [r EXCEPT !.spec = s] \in Resource
  BY DEF Resource

\* The initial state is typed.
LEMMA InitTyped == Init => TypeOK
  <1> SUFFICES ASSUME Init PROVE TypeOK
    OBVIOUS
  <1>1. Missing \in Load /\ Healthy \in Load
    BY DEF Missing, Healthy, Load
  <1>2. workload \in [Watched -> Load] /\ seen \in [Watched -> Load]
    BY <1>1 DEF Init
  <1>3. claim \in ClaimStates /\ seenClaim \in ClaimStates
    BY DEF Init, ClaimStates
  <1>4. cr \in Resource /\ cache \in Resource
    BY DEF Init, Resource
  <1>5. clock \in 0..Stamps - 1 /\ events \in 0..MaxEvents
    BY StatusAssumption DEF Init
  <1>6. todo \in Seq(Reads) /\ snap \in Resource \cup {NoResource}
    BY DEF Init
  <1>7. due \in BOOLEAN /\ running \in BOOLEAN
    BY DEF Init
  <1>8. QED
    BY <1>2, <1>3, <1>4, <1>5, <1>6, <1>7 DEF TypeOK

\* Ending a pass keeps the types of what belongs to it.
LEMMA FinishTyped ==
    Finish => /\ due' \in BOOLEAN /\ running' \in BOOLEAN
              /\ snap' \in Resource \cup {NoResource}
              /\ todo' \in Seq(Reads)
              /\ seen' \in [Watched -> Load] /\ seenClaim' \in ClaimStates
  <1> SUFFICES ASSUME Finish
               PROVE  /\ due' \in BOOLEAN /\ running' \in BOOLEAN
                      /\ snap' \in Resource \cup {NoResource}
                      /\ todo' \in Seq(Reads)
                      /\ seen' \in [Watched -> Load] /\ seenClaim' \in ClaimStates
    OBVIOUS
  <1>1. Missing \in Load
    BY DEF Missing, Load
  <1>2. todo' \in Seq(Reads)
    BY DEF Finish
  <1>3. seen' \in [Watched -> Load] /\ seenClaim' \in ClaimStates
    BY <1>1 DEF Finish, ClaimStates
  <1>4. QED
    BY <1>2, <1>3 DEF Finish

\* A read is one of a watched object, and leaves the rest of the reads.
LEMMA ReadTyped ==
    ASSUME TypeOK, NEW kind, NextRead(kind)
    PROVE  Head(todo)[2] \in Watched /\ todo' \in Seq(Reads)
  <1>1. todo \in Seq(Reads) /\ todo # << >>
    BY DEF TypeOK, NextRead
  <1>2. Head(todo) \in Reads /\ Tail(todo) \in Seq(Reads)
    BY <1>1
  <1>3. QED
    BY <1>2 DEF Reads, NextRead

\* The reads keep the types.
LEMMA ReadStepsTyped == TypeOK /\ Read => TypeOK'
  <1> SUFFICES ASSUME TypeOK, Read PROVE TypeOK'
    OBVIOUS
  <1> DEFINE d == Head(todo)[2]
  <1>f. events < MaxEvents /\ events' = events + 1 => events' \in 0..MaxEvents
    BY StatusAssumption DEF TypeOK
  <1>1. CASE GetDeployment
    <2>1. NextRead("get")
      BY <1>1 DEF GetDeployment
    <2>2. d \in Watched /\ todo' \in Seq(Reads)
      BY <2>1, ReadTyped
    <2>3. [seen EXCEPT ![d].state = workload[d].state] \in [Watched -> Load]
      BY <2>2 DEF TypeOK, Load
    <2>4. seen' \in [Watched -> Load] /\ events' \in 0..MaxEvents
      BY <1>1, <1>f, <2>3 DEF GetDeployment, TypeOK
    <2>5. QED
      BY <1>1, <2>1, <2>2, <2>4
         DEF GetDeployment, NextRead, TypeOK, world, resource
  <1>2. CASE GetClaim
    <2>1. NextRead("claim")
      BY <1>2 DEF GetClaim
    <2>2. todo' \in Seq(Reads)
      BY <2>1, ReadTyped
    <2>3. seenClaim' \in ClaimStates /\ events' \in 0..MaxEvents
      BY <1>2, <1>f DEF GetClaim, TypeOK
    <2>4. QED
      BY <1>2, <2>1, <2>2, <2>3 DEF GetClaim, NextRead, TypeOK, world, resource
  <1>3. CASE ListPods
    <2>1. NextRead("pods")
      BY <1>3 DEF ListPods
    <2>2. d \in Watched /\ todo' \in Seq(Reads)
      BY <2>1, ReadTyped
    <2>3. [seen EXCEPT ![d].failing = workload[d].failing] \in [Watched -> Load]
      BY <2>2 DEF TypeOK, Load
    <2>4. seen' \in [Watched -> Load]
      BY <1>3, <2>3 DEF ListPods, TypeOK
    <2>5. QED
      BY <1>3, <2>1, <2>2, <2>4 DEF ListPods, NextRead, TypeOK, world, resource
  <1>4. CASE ListOthers
    <2>1. NextRead("lists")
      BY <1>4 DEF ListOthers
    <2>2. todo' \in Seq(Reads)
      BY <2>1, ReadTyped
    <2>3. QED
      BY <1>4, <2>1, <2>2 DEF ListOthers, NextRead, TypeOK, world, resource
  <1>5. QED
    BY <1>1, <1>2, <1>3, <1>4 DEF Read

\* What is written to the status is a report.
LEMMA ReportTyped ==
    ASSUME TypeOK, NEW spec \in Specs, NEW loads \in [Watched -> Load], NEW bound \in ClaimStates
    PROVE  /\ Finalize(spec, loads)[1] \in Phases
           /\ Finalize(spec, loads)[2] \in Reasons
           /\ PgmonetaReport(spec, loads[Pgmoneta], bound) \in AddonReports
           /\ PgexporterReport(spec, loads[Pgexporter]) \in AddonReports
  <1>1. Finalize(spec, loads) \in Phases \X Reasons
    BY Zenon DEF Finalize, Phases, Reasons
  <1>2. spec.pgmoneta => loads[Pgmoneta].state \in {"absent", "unready", "ready"}
    BY ObservedWatched DEF Load
  <1>3. spec.pgexporter # "none" => loads[Pgexporter].state \in {"absent", "unready", "ready"}
    BY ObservedWatched DEF Load
  <1>4. PgmonetaReport(spec, loads[Pgmoneta], bound) \in AddonReports
    BY <1>2, SpecFields DEF PgmonetaReport, AddonReports, ClaimStates
  <1>5. PgexporterReport(spec, loads[Pgexporter]) \in AddonReports
    BY <1>3, SpecFields DEF PgexporterReport, AddonReports
  <1>6. QED
    BY <1>1, <1>4, <1>5

\* Writing the status keeps the types.
LEMMA PatchStatusTyped == TypeOK /\ WitnessInv /\ PatchStatus => TypeOK'
  <1> SUFFICES ASSUME TypeOK, WitnessInv, PatchStatus PROVE TypeOK'
    OBVIOUS
  <1>1. snap \in Resource /\ snap.spec \in Specs
    BY ResourceFields DEF WitnessInv, PatchStatus
  <1> DEFINE decision == Finalize(snap.spec, seen)
             since    == LastTransition(decision[2])
             report   == [phase |-> decision[1], reason |-> decision[2], since |-> since,
                          pgmoneta |-> PgmonetaReport(snap.spec, seen[Pgmoneta], seenClaim),
                          pgexporter |-> PgexporterReport(snap.spec, seen[Pgexporter])]
  <1>2. (clock + 1) % Stamps \in 0..Stamps - 1
    BY StatusAssumption DEF TypeOK
  <1>3. since \in 0..Stamps - 1
    BY <1>1, <1>2, Since DEF LastTransition
  <1>4. seen \in [Watched -> Load] /\ seenClaim \in ClaimStates
    BY DEF TypeOK
  <1> HIDE DEF since
  <1>5. report \in Report
    BY <1>1, <1>3, <1>4, ReportTyped DEF Report
  <1>6. cr' = [cr EXCEPT !.status = report]
    BY DEF PatchStatus, since
  <1> HIDE DEF report
  <1>7. cr' \in Resource
    BY <1>5, <1>6, ResourceFields DEF TypeOK
  <1>8. clock' \in 0..Stamps - 1
    BY <1>2 DEF PatchStatus, TypeOK
  <1>9. Finish /\ UNCHANGED <<world, cache, events>>
    BY DEF PatchStatus
  <1>10. QED
    BY <1>7, <1>8, <1>9, FinishTyped DEF TypeOK, world

\* The rest of the actions keep the types.
LEMMA OthersTyped ==
    TypeOK /\ (Start \/ Fail \/ Watch \/ Edit \/ Change \/ UNCHANGED vars) => TypeOK'
  <1> SUFFICES ASSUME TypeOK, Start \/ Fail \/ Watch \/ Edit \/ Change \/ UNCHANGED vars
               PROVE  TypeOK'
    OBVIOUS
  <1> USE DEF world, pass, resource
  <1>1. CASE Start
    <2>1. cache \in Resource /\ Observe(cache.spec) \in Seq(Reads)
      BY ObserveTyped, ResourceFields DEF TypeOK
    <2>2. QED
      BY <1>1, <2>1 DEF Start, TypeOK
  <1>2. CASE Fail
    <2>1. events' \in 0..MaxEvents
      BY <1>2, StatusAssumption DEF Fail, TypeOK
    <2>2. Finish /\ UNCHANGED <<world, cr, cache, clock>>
      BY <1>2 DEF Fail
    <2>3. QED
      BY <2>1, <2>2, FinishTyped DEF TypeOK
  <1>3. CASE Watch
    BY <1>3 DEF Watch, TypeOK
  <1>4. CASE Edit
    <2>1. cr' \in Resource
      BY <1>4, ResourceFields DEF Edit, TypeOK
    <2>2. events' \in 0..MaxEvents
      BY <1>4, StatusAssumption DEF Edit, TypeOK
    <2>3. QED
      BY <1>4, <2>1, <2>2 DEF Edit, TypeOK
  <1>5. CASE Change
    <2>1. workload' \in [Watched -> Load] /\ claim' \in ClaimStates
      BY <1>5 DEF Change, TypeOK
    <2>2. events' \in 0..MaxEvents
      BY <1>5, StatusAssumption DEF Change, TypeOK
    <2>3. QED
      BY <1>5, <2>1, <2>2 DEF Change, TypeOK
  <1>6. CASE UNCHANGED vars
    BY <1>6 DEF vars, TypeOK
  <1>7. QED
    BY <1>1, <1>2, <1>3, <1>4, <1>5, <1>6

-----------------------------------------------------------------------------
(* What a pass has seen was so while it ran.                               *)

\* Nothing is seen yet where nothing is seen of any object.
LEMMA NothingSeen ==
    ASSUME seen = [d \in Watched |-> Missing], NEW d \in Watched
    PROVE  seen[d].state = "absent" /\ ~seen[d].failing
  BY DEF Missing

\* The state of a watched object is a fact, that its pods fail is one if they
\* do, and so is the state of the claim.
LEMMA FactsHold ==
    /\ \A d \in Watched : <<workload[d].state, d>> \in Facts(workload, claim)
    /\ \A d \in Watched :
          workload[d].failing => <<"failing", d>> \in Facts(workload, claim)
    /\ <<"claim", claim>> \in Facts(workload, claim)
  BY DEF Facts

\* Whatever ends a pass leaves nothing seen.
LEMMA FinishWitness == Finish => WitnessInv'
  <1> SUFFICES ASSUME Finish PROVE WitnessInv'
    OBVIOUS
  <1>1. ~running' /\ seen' = [d \in Watched |-> Missing] /\ seenClaim' = "absent"
    BY DEF Finish
  <1>2. \A d \in Watched : seen'[d].state = "absent" /\ ~seen'[d].failing
    BY <1>1 DEF Missing
  <1>3. QED
    BY <1>1, <1>2 DEF WitnessInv

\* The initial state has no pass.
LEMMA InitWitness == Init => WitnessInv
  <1> SUFFICES ASSUME Init PROVE WitnessInv
    OBVIOUS
  <1>1. ~running /\ seen = [d \in Watched |-> Missing] /\ seenClaim = "absent"
    BY DEF Init
  <1>2. QED
    BY <1>1, NothingSeen DEF WitnessInv

\* A pass begins with nothing seen and the facts of the moment.
LEMMA StartWitness == TypeOK /\ WitnessInv /\ Start => WitnessInv'
  <1> SUFFICES ASSUME TypeOK, WitnessInv, Start PROVE WitnessInv'
    OBVIOUS
  <1>1. seen = [d \in Watched |-> Missing] /\ seenClaim = "absent"
    BY DEF WitnessInv, Start
  <1>2. \A d \in Watched : seen[d].state = "absent" /\ ~seen[d].failing
    BY <1>1, NothingSeen
  <1>3. UNCHANGED <<workload, claim, seen, seenClaim>> /\ snap' = cache /\ running'
        /\ witness' = Facts(workload, claim)
    BY DEF Start, world
  <1>4. snap' \in Resource
    BY <1>3 DEF TypeOK
  <1>5. Facts(workload, claim)' = Facts(workload, claim)
    BY <1>3 DEF Facts
  <1>6. QED
    BY <1>1, <1>2, <1>3, <1>4, <1>5 DEF WitnessInv

\* A read takes over what is so, or nothing.
LEMMA ReadWitness == TypeOK /\ WitnessInv /\ Read => WitnessInv'
  <1> SUFFICES ASSUME TypeOK, WitnessInv, Read PROVE WitnessInv'
    OBVIOUS
  <1> DEFINE d == Head(todo)[2]
  <1>1. PICK kind : NextRead(kind)
    BY DEF Read, GetDeployment, GetClaim, ListPods, ListOthers
  <1>2. d \in Watched
    BY <1>1, ReadTyped
  <1>3. running /\ UNCHANGED <<workload, claim, running, snap, witness>>
    BY <1>1 DEF NextRead, world
  <1>4. Facts(workload, claim)' = Facts(workload, claim)
    BY <1>3 DEF Facts
  <1>5. /\ <<workload[d].state, d>> \in witness
        /\ workload[d].failing => <<"failing", d>> \in witness
        /\ <<"claim", claim>> \in witness
    BY <1>2, <1>3, FactsHold DEF WitnessInv
  <1>6. \A e \in Watched :
          /\ seen'[e].state # "absent" => <<seen'[e].state, e>> \in witness
          /\ seen'[e].failing => <<"failing", e>> \in witness
    <2>1. CASE seen' = seen
      BY <2>1 DEF WitnessInv
    <2>2. CASE seen' = [seen EXCEPT ![d].state = workload[d].state]
      <3> SUFFICES ASSUME NEW e \in Watched
                   PROVE  /\ seen'[e].state # "absent" => <<seen'[e].state, e>> \in witness
                          /\ seen'[e].failing => <<"failing", e>> \in witness
        OBVIOUS
      <3>1. seen \in [Watched -> Load] /\ seen[e] \in Load
        BY DEF TypeOK
      <3>2. seen'[e].failing = seen[e].failing
        BY <1>2, <2>2, <3>1 DEF Load
      <3>3. seen'[e].state = IF e = d THEN workload[d].state ELSE seen[e].state
        BY <1>2, <2>2, <3>1 DEF Load
      <3>4. QED
        BY <1>5, <3>2, <3>3 DEF WitnessInv
    <2>3. CASE seen' = [seen EXCEPT ![d].failing = workload[d].failing]
      BY <1>2, <1>5, <2>3 DEF WitnessInv, TypeOK, Load
    <2>4. QED
      BY <2>1, <2>2, <2>3 DEF Read, GetDeployment, GetClaim, ListPods, ListOthers
  <1>7. seenClaim' # "absent" => <<"claim", seenClaim'>> \in witness
    <2>1. seenClaim' = seenClaim \/ seenClaim' = claim
      BY DEF Read, GetDeployment, GetClaim, ListPods, ListOthers
    <2>2. QED
      BY <1>5, <2>1 DEF WitnessInv
  <1>8. QED
    BY <1>3, <1>4, <1>6, <1>7 DEF WitnessInv

\* While a pass runs facts are only added.
LEMMA ChangeWitness == TypeOK /\ WitnessInv /\ Change => WitnessInv'
  <1> SUFFICES ASSUME TypeOK, WitnessInv, Change PROVE WitnessInv'
    OBVIOUS
  <1>1. UNCHANGED <<running, snap, seen, seenClaim>>
    BY DEF Change, pass
  <1>2. CASE running
    <2>1. witness' = witness \cup Facts(workload', claim')
      BY <1>2 DEF Change
    <2>2. Facts(workload, claim)' = Facts(workload', claim')
      BY DEF Facts
    <2>3. QED
      BY <1>1, <1>2, <2>1, <2>2 DEF WitnessInv
  <1>3. CASE ~running
    <2>1. seen = [d \in Watched |-> Missing] /\ seenClaim = "absent"
      BY <1>3 DEF WitnessInv
    <2>2. \A d \in Watched : seen[d].state = "absent" /\ ~seen[d].failing
      BY <2>1, NothingSeen
    <2>3. QED
      BY <1>1, <1>3, <2>1, <2>2 DEF WitnessInv
  <1>4. QED
    BY <1>2, <1>3

\* Every step keeps what has been seen witnessed.
LEMMA WitnessStep == TypeOK /\ WitnessInv /\ [Next]_vars => TypeOK' /\ WitnessInv'
  <1> SUFFICES ASSUME TypeOK, WitnessInv, [Next]_vars PROVE TypeOK' /\ WitnessInv'
    OBVIOUS
  <1>1. TypeOK'
    BY PatchStatusTyped, ReadStepsTyped, OthersTyped DEF Next
  <1>2. CASE Watch \/ Edit \/ UNCHANGED vars
    <2>1. UNCHANGED <<world, pass, witness>>
      BY <1>2 DEF Watch, Edit, vars
    <2>2. UNCHANGED <<workload, claim, running, snap, seen, seenClaim, witness>>
      BY <2>1 DEF world, pass
    <2>3. Facts(workload, claim)' = Facts(workload, claim)
      BY <2>2 DEF Facts
    <2>4. WitnessInv'
      BY <2>2, <2>3 DEF WitnessInv
    <2>5. QED
      BY <1>1, <2>4
  <1>3. CASE PatchStatus \/ Fail
    BY <1>1, <1>3, FinishWitness DEF PatchStatus, Fail
  <1>4. QED
    BY <1>1, <1>2, <1>3, StartWitness, ReadWitness, ChangeWitness DEF Next

\* Every variable of Status keeps its type, so that a report is always one of
\* the conditions and reasons that status.rs has.
THEOREM StatusTyped == Spec => []TypeOK
  <1>1. TypeOK /\ WitnessInv /\ [Next]_vars => (TypeOK /\ WitnessInv)'
    BY WitnessStep
  <1>2. QED
    BY <1>1, InitTyped, InitWitness, PTL DEF Spec

\* What a running pass has seen of the objects was so at some moment since it
\* began, however they change and whichever calls fail.
THEOREM SeenWitnessed == Spec => []WitnessInv
  <1>1. TypeOK /\ WitnessInv /\ [Next]_vars => (TypeOK /\ WitnessInv)'
    BY WitnessStep
  <1>2. QED
    BY <1>1, InitTyped, InitWitness, PTL DEF Spec

-----------------------------------------------------------------------------
(* What a report means.                                                    *)

\* A spec for n replicas has that many members beside the primary.
LEMMA MemberCount ==
    ASSUME NEW spec \in Specs
    PROVE  /\ IsFiniteSet(MembersOf(spec) \ {Primary})
           /\ Cardinality(MembersOf(spec) \ {Primary}) = spec.replicas
  <1> DEFINE n     == spec.replicas
             rest  == MembersOf(spec) \ {Primary}
             f     == [i \in 1..n |-> Replica(i)]
  <1>1. n \in Nat
    BY SpecFields
  <1>2. rest = {Replica(i) : i \in 1..n}
    <2>1. \A i \in 1..n : Replica(i) # Primary
      BY DEF Replica, Primary
    <2>2. QED
      BY <2>1, Zenon DEF MembersOf
  <1>3. f \in Bijection(1..n, rest)
    <2>1. f \in [1..n -> rest]
      BY <1>2
    <2>2. \A i, j \in 1..n : f[i] = f[j] => i = j
      BY DEF Replica
    <2>3. \A m \in rest : \E i \in 1..n : f[i] = m
      BY <1>2
    <2>4. QED
      BY <2>1, <2>2, <2>3 DEF Bijection, Injection, Surjection, IsInjective
  <1>4. ExistsBijection(1..n, rest)
    BY <1>3 DEF ExistsBijection
  <1>5. QED
    BY <1>1, <1>4, FS_CountingElements, FS_NatBijection

\* When as many replicas are ready as the spec asks for, each of them is.
LEMMA AllReady ==
    ASSUME NEW spec \in Specs, NEW loads, ReadyReplicas(spec, loads) = spec.replicas
    PROVE  \A m \in MembersOf(spec) \ {Primary} : Available(loads[m])
  <1> DEFINE rest  == MembersOf(spec) \ {Primary}
             ready == {m \in rest : Available(loads[m])}
  <1>1. IsFiniteSet(rest) /\ Cardinality(rest) = spec.replicas
    BY MemberCount
  <1>2. ready \subseteq rest /\ Cardinality(ready) = Cardinality(rest)
    BY <1>1 DEF ReadyReplicas
  <1>3. ready = rest
    BY <1>1, <1>2, FS_Subset
  <1>4. QED
    BY <1>3

\* What patch_status writes was seen, and so it was so.
LEMMA ReportStep ==
    ASSUME TypeOK, WitnessInv, PatchStatus
    PROVE  /\ cr'.status.phase = "Running" =>
                 \A m \in MembersOf(snap.spec) : <<"ready", m>> \in witness
           /\ cr'.status.phase = "Failed" =>
                 \E m \in MembersOf(snap.spec) : <<"failing", m>> \in witness
           /\ cr'.status.phase = "Degraded" => <<"ready", Primary>> \in witness
           /\ cr'.status.pgmoneta = "ready" =>
                 {<<"ready", Pgmoneta>>, <<"claim", "bound">>} \subseteq witness
           /\ cr'.status.pgexporter = "ready" => <<"ready", Pgexporter>> \in witness
  <1>1. snap \in Resource /\ snap.spec \in Specs
    BY ResourceFields DEF WitnessInv, PatchStatus
  <1>2. MembersOf(snap.spec) \subseteq Watched /\ Primary \in MembersOf(snap.spec)
    BY <1>1, ObservedWatched DEF MembersOf
  <1>3. \A d \in Watched : seen[d].state = "ready" => <<"ready", d>> \in witness
    BY DEF WitnessInv
  <1> DEFINE decision == Finalize(snap.spec, seen)
  <1>4. /\ cr'.status.phase = decision[1]
        /\ cr'.status.pgmoneta = PgmonetaReport(snap.spec, seen[Pgmoneta], seenClaim)
        /\ cr'.status.pgexporter = PgexporterReport(snap.spec, seen[Pgexporter])
    BY DEF PatchStatus, TypeOK, Resource
  <1>5. cr'.status.phase = "Running" =>
           \A m \in MembersOf(snap.spec) : <<"ready", m>> \in witness
    <2> SUFFICES ASSUME decision[1] = "Running", NEW m \in MembersOf(snap.spec)
                 PROVE  <<"ready", m>> \in witness
      BY <1>4
    <2>1. Available(seen[Primary]) /\ ReadyReplicas(snap.spec, seen) = snap.spec.replicas
      BY DEF Finalize
    <2>2. Available(seen[m])
      BY <1>1, <2>1, AllReady
    <2>3. QED
      BY <1>2, <1>3, <2>2 DEF Available
  <1>6. cr'.status.phase = "Failed" =>
           \E m \in MembersOf(snap.spec) : <<"failing", m>> \in witness
    <2> SUFFICES ASSUME decision[1] = "Failed"
                 PROVE  \E m \in MembersOf(snap.spec) : <<"failing", m>> \in witness
      BY <1>4
    <2>1. PICK m \in MembersOf(snap.spec) : seen[m].failing
      BY DEF Finalize
    <2>2. QED
      BY <1>2, <2>1 DEF WitnessInv
  <1>7. cr'.status.phase = "Degraded" => <<"ready", Primary>> \in witness
    <2> SUFFICES ASSUME decision[1] = "Degraded" PROVE <<"ready", Primary>> \in witness
      BY <1>4
    <2>1. Available(seen[Primary])
      BY DEF Finalize
    <2>2. QED
      BY <1>2, <1>3, <2>1 DEF Available
  <1>8. cr'.status.pgmoneta = "ready" =>
           {<<"ready", Pgmoneta>>, <<"claim", "bound">>} \subseteq witness
    <2> SUFFICES ASSUME PgmonetaReport(snap.spec, seen[Pgmoneta], seenClaim) = "ready"
                 PROVE  <<"ready", Pgmoneta>> \in witness /\ <<"claim", "bound">> \in witness
      BY <1>4
    <2>1. snap.spec.pgmoneta
      BY <1>1, SpecFields DEF PgmonetaReport
    <2>2. Pgmoneta \in Watched
      BY <1>1, <2>1, ObservedWatched
    <2>3. seen[Pgmoneta].state \in {"absent", "unready", "ready"} /\ seenClaim \in ClaimStates
      BY <2>2 DEF TypeOK, Load
    <2>4. seen[Pgmoneta].state = "ready" /\ seenClaim = "bound"
      BY <2>1, <2>3 DEF PgmonetaReport, ClaimStates
    <2>5. QED
      BY <1>3, <2>2, <2>4 DEF WitnessInv
  <1>9. cr'.status.pgexporter = "ready" => <<"ready", Pgexporter>> \in witness
    <2> SUFFICES ASSUME PgexporterReport(snap.spec, seen[Pgexporter]) = "ready"
                 PROVE  <<"ready", Pgexporter>> \in witness
      BY <1>4
    <2>1. snap.spec.pgexporter # "none"
      BY <1>1, SpecFields DEF PgexporterReport
    <2>2. Pgexporter \in Watched
      BY <1>1, <2>1, ObservedWatched
    <2>3. seen[Pgexporter].state \in {"absent", "unready", "ready"}
      BY <2>2 DEF TypeOK, Load
    <2>4. seen[Pgexporter].state = "ready"
      BY <2>1, <2>3 DEF PgexporterReport
    <2>5. QED
      BY <1>3, <2>2, <2>4
  <1>10. QED
    BY <1>5, <1>6, <1>7, <1>8, <1>9

\* What the status reports as ready or as failing was so while the pass that
\* reports it ran: Running means that the primary and as many replicas as the
\* spec asks for were ready, each at some moment of the pass.
THEOREM ReportsTrue == Spec => ReportsWitnessed
  <1>1. TypeOK /\ WitnessInv /\ [Next]_vars
        => [PatchStatus =>
              /\ cr'.status.phase = "Running" =>
                    \A m \in MembersOf(snap.spec) : <<"ready", m>> \in witness
              /\ cr'.status.phase = "Failed" =>
                    \E m \in MembersOf(snap.spec) : <<"failing", m>> \in witness
              /\ cr'.status.phase = "Degraded" => <<"ready", Primary>> \in witness
              /\ cr'.status.pgmoneta = "ready" =>
                    {<<"ready", Pgmoneta>>, <<"claim", "bound">>} \subseteq witness
              /\ cr'.status.pgexporter = "ready" => <<"ready", Pgexporter>> \in witness]_vars
    BY ReportStep
  <1>2. QED
    BY <1>1, StatusTyped, SeenWitnessed, PTL DEF Spec, ReportsWitnessed
=============================================================================
