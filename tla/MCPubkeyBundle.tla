--------------------------- MODULE MCPubkeyBundle ---------------------------
(***************************************************************************)
(* Instances of PubkeyBundle for TLC: two publishers and two keys, which   *)
(* go by two identifiers, so that one of them may be used again.           *)
(***************************************************************************)
EXTENDS PubkeyBundle

CONSTANTS Pub1, Pub2

MCPublicKeys == <<"K1", "K2">>
MCKeyIds == {"id1", "id2"}
MCDateForms == {TRUE, FALSE}
=============================================================================
