------------------------------ MODULE MCStatus ------------------------------
(* Specs for model checking Status.                                        *)
EXTENDS Status

Wants(replicas, pgmoneta, pgexporter) ==
    [version |-> "18", config |-> NoConfig, replicas |-> replicas,
     pgmoneta |-> pgmoneta, pgexporter |-> pgexporter]

\* A primary with a replica, and one with the add-ons.
StatusSpecs == {Wants(1, FALSE, "none"), Wants(0, TRUE, "plain")}
=============================================================================
