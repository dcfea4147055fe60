------------------------ MODULE BoundaryAttestation -------------------------
(***************************************************************************)
(* One BoundaryAttestation document and its verification (boundary.rs,     *)
(* stages 1 to 3), and the activity trail it commits to (stage 5).         *)
(*                                                                         *)
(* A document is a record.  NoValue in a field is absence, a value of      *)
(* another type or, in the attestation block, the empty string.  A time is *)
(* a natural number, and Unparseable when it is no RFC 3339 string.        *)
(***************************************************************************)
EXTENDS TrustChain

CONSTANTS
  DefaultAuthority,  \* us-kms-nanorix-v1
  Unparseable        \* a string that is no time

\* BoundaryFailureReason.
Failures ==
  {"KindMismatch", "VersionUnsupported", "RequiredFieldMissing", "AlgorithmUnsupported",
   "ContinuationStatementMismatch", "MethodVocabularyViolation", "CanonicalHashMismatch",
   "SignatureMismatch", "SigningKeyVersionUnknown", "AuthorityRevoked", "CapsuleIdMismatch",
   "IndexNotStrictlyIncremented", "PrevAttestationHashMismatch", "GenesisPrevHashMismatch",
   "CutoffTimestampUnparseable", "CutoffNotIncreasing", "ActivityCommitmentMismatch",
   "ActivityEventCountMismatch"}

ASSUME NoFailureAssumption == NoValue \notin Failures

Kind == "boundary_attestation"
SupportedVersions == {"1.0"}
ContinuationStatement == "remained live, not a destruction claim"
ObservationMethods == {"procfs_observation", "mountinfo_observation", "cgroup_v2_observation"}
GenesisHash == <<"genesis">>

Outside == {"canonical_hash", "signature", "public_key"}

\* What the hash covers: the document without its own hash and its signature.
View(d) == [f \in DOMAIN d \ Outside |-> d[f]]

RecomputeCanonicalHash(d) == <<"canonical", View(d)>>

\* Mutant: the chain forgets what came before an event.
LastEventOnly(events) ==
  IF events = <<>> THEN GenesisHash ELSE <<"link", GenesisHash, events[Len(events)]>>

\* prev = SHA-512(prev, NUL, hash of the event), from genesis.
RecomputeActivityCommitment(events) ==
  LET prev[n \in 0 .. Len(events)] ==
        IF n = 0 THEN GenesisHash ELSE <<"link", prev[n - 1], events[n]>>
  IN  prev[Len(events)]

-----------------------------------------------------------------------------
(* A ladder of checks ends at the first that does not hold.                *)

Check(failure, holds) == [failure |-> failure, holds |-> holds]

FirstFailure(checks) ==
  LET failing == {i \in DOMAIN checks : ~checks[i].holds}
  IN  IF failing = {} THEN NoValue
      ELSE checks[CHOOSE i \in failing : \A j \in failing : i <= j].failure

RequiredFields ==
  {"capsule_id", "cutoff_ts", "activity_commitment", "prev_attestation_hash",
   "canonical_hash", "attestation_index", "activity_event_count"}

\* Stage 1.
FormChecks(d) ==
  <<Check("KindMismatch", d.kind = Kind),
    Check("RequiredFieldMissing", d.version # NoValue),
    Check("VersionUnsupported", d.version \in SupportedVersions),
    Check("RequiredFieldMissing", \A f \in RequiredFields : d[f] # NoValue),
    Check("AlgorithmUnsupported", d.hash_algorithm = "sha512" /\ d.signature_algorithm = "Ed25519"),
    Check("ContinuationStatementMismatch", d.continuation = ContinuationStatement),
    Check("RequiredFieldMissing", d.boundary_evidence # NoValue),
    Check("MethodVocabularyViolation",
          d.boundary_evidence # NoValue => d.boundary_evidence \subseteq ObservationMethods)>>

-----------------------------------------------------------------------------
(* The verdict.                                                            *)

Metadata(d) == [capsule_id |-> d.capsule_id, attestation_index |-> d.attestation_index]

Failed(d, failure, stage) ==
  [valid |-> FALSE, failure_reason |-> failure, stage_reached |-> stage,
   signature_checked |-> FALSE, trust_anchored |-> FALSE, metadata |-> Metadata(d)]

Verified(d, stage, checked, anchored) ==
  [valid |-> TRUE, failure_reason |-> NoValue, stage_reached |-> stage,
   signature_checked |-> checked, trust_anchored |-> anchored, metadata |-> Metadata(d)]

Sign(key, message) == [key |-> key, message |-> message]

\* verify_message_with_key over the recomputed hash.
VerifiesUnder(d, key) == d.signature.key = key /\ d.signature.message = RecomputeCanonicalHash(d)

Signed(d) == d.signature # NoValue /\ d.public_key # NoValue

FindSigningKey(d, manifest) ==
  FindKey(manifest, IF d.authority_id = NoValue THEN DefaultAuthority ELSE d.authority_id,
          d.signing_key_version)

\* Stage 3, authenticity.
AnchorToManifest(d, manifest) ==
  LET lookup == FindSigningKey(d, manifest)
  IN  CASE lookup = NoValue -> Failed(d, "SigningKeyVersionUnknown", 3)
        [] lookup # NoValue ->
             IF ~VerifiesUnder(d, lookup.record.public_key) THEN Failed(d, "SignatureMismatch", 3)
             ELSE IF lookup.revoked THEN Failed(d, "AuthorityRevoked", 3)
             ELSE Verified(d, 3, TRUE, TRUE)

\* Stages 1 to 3.
VerifyBoundaryAttestation(d, manifest) ==
  LET malformed == FirstFailure(FormChecks(d))
  IN  CASE malformed # NoValue -> Failed(d, malformed, 1)
        [] malformed = NoValue ->
             IF d.canonical_hash # RecomputeCanonicalHash(d) THEN Failed(d, "CanonicalHashMismatch", 2)
             ELSE IF ~Signed(d) THEN Verified(d, 2, FALSE, FALSE)
             ELSE IF ~VerifiesUnder(d, d.public_key) THEN Failed(d, "SignatureMismatch", 3)
             ELSE IF manifest = NoValue THEN Verified(d, 3, TRUE, FALSE)
             ELSE AnchorToManifest(d, manifest)

\* Stage 5: NoValue when the disclosed events are the ones committed to.
VerifyDisclosedActivityTrail(d, events) ==
  FirstFailure(
    <<Check("ActivityEventCountMismatch", d.activity_event_count = Len(events)),
      Check("ActivityCommitmentMismatch",
            d.activity_commitment = RecomputeActivityCommitment(events))>>)
=============================================================================
