---------------------------- MODULE MCCommandLine ----------------------------
(***************************************************************************)
(* Instances of CommandLine for TLC: two directories of one file each.     *)
(***************************************************************************)
EXTENDS CommandLine

MCTwoDirectories == <<0, 1, 0, 3>>
=============================================================================
