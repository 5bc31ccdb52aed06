---------------------------- MODULE MCOperators ----------------------------
(* Specs for model checking Operators.                                     *)
EXTENDS Operators

\* A primary and nothing else: its pass has all stages and few objects.
PrimarySpecs ==
    {[version |-> "18", config |-> NoConfig, replicas |-> 0,
      pgmoneta |-> FALSE, pgexporter |-> "none"]}
=============================================================================
