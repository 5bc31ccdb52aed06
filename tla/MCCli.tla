-------------------------------- MODULE MCCli --------------------------------
(* Commands for model checking Cli.                                        *)
EXTENDS Cli

AllCommands == ReadFirst \cup Blind
=============================================================================
