----------------------------- MODULE MCAuditor ------------------------------
(***************************************************************************)
(* An instance of AuthorityRotation and TransparencyLog for TLC: the two   *)
(* things an auditor holds a copy of and renews, the manifest of an        *)
(* authority and the checkpoint of a log.                                  *)
(*                                                                         *)
(* The two share no variable and every property is about one of them, so   *)
(* that behaviours in which only one has left its initial state show all   *)
(* there is to see.                                                        *)
(***************************************************************************)
EXTENDS MCAuthorityRotation, TransparencyLog

MCInit == Init /\ LogInit

\* The publisher of the log may stop, and so may the auditor.
MCNext ==
  \/ LogInit /\ Next /\ UNCHANGED logVars
  \/ Init /\ (LogNext \/ UNCHANGED logVars) /\ UNCHANGED vars

MCSpec == MCInit /\ [][MCNext]_<<vars, logVars>>
=============================================================================
