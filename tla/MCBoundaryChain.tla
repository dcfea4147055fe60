-------------------------- MODULE MCBoundaryChain ---------------------------
(***************************************************************************)
(* Instances of BoundaryChain for TLC.                                     *)
(***************************************************************************)
EXTENDS BoundaryChain, TLC

CONSTANTS C1, C2, OtherAuthority, E1, E2

MCAuthorityWritten == (C1 :> NoValue) @@ (C2 :> DefaultAuthority)
MCActivity == (C1 :> << <<E1>>, <<E1, E2>> >>) @@ (C2 :> << <<>> >>)
MCVersions == <<"V1", "V2">>
MCIssued == (C1 :> 2) @@ (C2 :> 1)

Field(f, values) == {[field |-> f, value |-> v] : v \in values}

\* Every check of the ladder and of the linkage has an edit that fails it.
MCEdits ==
  UNION {Field("kind", {"auditproof"}), Field("version", {NoValue}), Field("capsule_id", {C2}),
         Field("attestation_index", {NoValue, 0, 1, 2}), Field("cutoff_ts", {Unparseable, 0}),
         Field("activity_event_count", {0}), Field("hash_algorithm", {"sha256"}),
         Field("continuation", {NoValue}), Field("boundary_evidence", {{"munmap"}}),
         Field("authority_id", {OtherAuthority}), Field("signing_key_version", {"V1"}),
         Field("prev_attestation_hash", {GenesisHash}), Field("signature", {NoValue})}

MCTrails == UNION {[1 .. n -> {E1, E2}] : n \in 0 .. 2}
=============================================================================
