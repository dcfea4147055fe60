--------------------------- MODULE MCEgressStreams ---------------------------
(***************************************************************************)
(* Instances of EgressStreams for TLC: two streams of two chunks, the      *)
(* second chunk of the one equal to the first of the other.                *)
(***************************************************************************)
EXTENDS EgressStreams, TLC

CONSTANTS A, B, H1, H2, H3

MCContent == A :> <<H1, H2>> @@ B :> <<H2, H3>>
=============================================================================
