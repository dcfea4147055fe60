----------------------------- MODULE MCTrustRoot ----------------------------
(***************************************************************************)
(* Instances of TrustRoot for TLC: the publisher and one other identity.   *)
(***************************************************************************)
EXTENDS TrustRoot

CONSTANTS Id1, Id2

MCVersions == <<"V1", "V2">>
MCPins == {NoValue, Fingerprint(Id1), Fingerprint(Id2)}
MCSchemas == {NoValue, "future"}
=============================================================================
