---------------------------- MODULE MCReconciler ----------------------------
(* Specs and bounds for model checking Reconciler.                         *)
EXTENDS Reconciler

Plain(n) == [NoSpec EXCEPT !.replicas = n]

\* One spec, for runs about incarnations of the resource.
OneSpec == {Plain(1)}

\* Everything switched on, off and in between, two configurations, one that is
\* rejected, and an unsupported version.
EditSpecs ==
    {Plain(0),
     [Plain(2) EXCEPT !.config = 1, !.pgmoneta = TRUE, !.pgexporter = "monitored"],
     [Plain(1) EXCEPT !.config = 2, !.pgexporter = "plain"],
     [Plain(1) EXCEPT !.config = BadConfig],
     [Plain(0) EXCEPT !.version = "other"]}

\* What the findings take.
ScalingSpecs   == {Plain(0), Plain(2)}
MonitoredSpecs == {Plain(0), [Plain(0) EXCEPT !.pgexporter = "monitored"]}
=============================================================================
