------------------------------ MODULE MCDeploy ------------------------------
(* An instance of Deploy for TLC.                                          *)
EXTENDS Deploy

\* An operator for another namespace or for its own.
TwoTargets == {"default", "pgopr-system"}

\* A cluster administrator has bound the account to what no Role can name, or
\* nobody did, which is how deploy leaves it.
ByHand   == {"persistentvolumes"}
NoOthers == {}
=============================================================================
