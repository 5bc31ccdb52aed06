----------------------------- MODULE MCClusters -----------------------------
(* Instances of Clusters for TLC, with a bound on what fails.              *)
EXTENDS Isolation

CONSTANT MaxFaults  \* bound on failed calls

VARIABLE faults     \* how much of it is used

In(namespace, name) == [namespace |-> namespace, name |-> name]

\* The cluster "a", and the neighbour of this name in its namespace.
First == In("n1", <<Word("a")>>)
Beside(tail) == In("n1", <<Word("a")>> \o tail)

\* The name of the second begins like the names of the first one's replicas.
Apart == {First, Beside(<<Word("replica")>>)}

\* One name in two namespaces, which an operator that watches all of them
\* (src/src/handlers/operator.rs, target "*") reconciles both.
Namesakes == {First, In("n2", <<Word("a")>>)}

\* "a-replica-<numeral>".
Numbered(zeros, value) == Beside(<<Word("replica"), Numeral(zeros, value)>>)

\* A replica and no add-ons, or the other way round.
TwoSpecs == {[replicas |-> 1, addons |-> FALSE], [replicas |-> 0, addons |-> TRUE]}

\* The first pair is apart and the second is not.
ASSUME InstancesDiffer ==
    /\ Clusters = Apart => NamesApart
    /\ Clusters = Namesakes => ~NamesApart

\* Nor is a cluster whose name reads as a replica's, among the ordinals in use
\* or not: "a-replica-1", "a-replica-0", "a-replica-10", "a-replica-007".  One
\* with a number too large for a u32, or with a word more before it, is.
ASSUME NumbersMatter ==
    /\ \A value \in {0, 1, 10, MaxOrdinal} : ~ApartFrom(First, Numbered(0, value))
    /\ ~ApartFrom(First, Numbered(2, 7))
    /\ ApartFrom(First, Numbered(0, MaxOrdinal + 1))
    /\ ApartFrom(First, Beside(<<Word("replica"), Word("b"), Numeral(0, 1)>>))

BoundedInit == Init /\ faults = 0

BoundedNext == \E c \in Clusters :
    \/ (Users(c) \/ Steps(c) \/ Collect(c)) /\ UNCHANGED faults
    \/ Fail(c) /\ faults < MaxFaults /\ faults' = faults + 1

BoundedSpec == BoundedInit /\ [][BoundedNext]_<<vars, faults>>

FairSpec == BoundedSpec /\ Fairness
=============================================================================
