-------------------------- MODULE AuditProofIssuer --------------------------
(***************************************************************************)
(* How a genuine AuditProof comes to be: a profile says what the capsule   *)
(* did, IssueProof builds the document the way the fixture builder does    *)
(* (fields first, signature over the version's message last).              *)
(***************************************************************************)
EXTENDS AuditProofDocument

CONSTANTS
  Profiles,       \* what the issued proofs are about
  OtherFields     \* the signed fields no check reads (jurisdiction, org, state, ...)

(***************************************************************************)
(* A profile names the version, capsule, timestamp, activity trail, key    *)
(* (NoValue: never signed), authority, key version and signing mode, and,  *)
(* each possibly NoValue, the bodies of the receipts, the parent chain     *)
(* hashes, the customer's activity record and the customer authority.      *)
(* "legacy" profiles are from before destroyed_at was on the wire.         *)
(***************************************************************************)

\* What a profile lists is a sequence; a record has at least one segment.
ASSUME ProfilesAssumption ==
  \A p \in Profiles :
    /\ \A list \in {p.activity, p.receipts, p.parents, p.record} \ {NoValue} :
         Len(list) \in Nat /\ list = [i \in 1 .. Len(list) |-> list[i]]
    /\ p.activity # NoValue
    /\ p.record # <<>>

IssuedReceipts(p) ==
  IF p.receipts = NoValue THEN NoValue
  ELSE [i \in DOMAIN p.receipts |->
          [record_index      |-> i - 1,
           body              |-> p.receipts[i],
           record_chain_hash |-> RecordHash(p.capsule, i - 1, p.receipts[i])]]

IssuedParents(p) ==
  IF p.parents = NoValue THEN NoValue
  ELSE [i \in DOMAIN p.parents |->
          [parent_chain_hash |-> p.parents[i], attributed |-> TRUE]]

UnsignedProof(p) ==
  LET receipts == IssuedReceipts(p)
      parents  == IssuedParents(p)
      rr_root  == IF p.receipts = NoValue THEN NoValue ELSE
                    MerkleRoot([i \in DOMAIN receipts |-> receipts[i].record_chain_hash])
      pp_root  == IF p.parents = NoValue THEN NoValue ELSE MerkleRoot(p.parents)
      chain    == [i \in 1 .. ChainSteps |->
                     [subsystem  |-> CanonicalChain[i],
                      chain_hash |-> CanonicalHash(i, p.at, rr_root, pp_root)]]
  IN  [cdp_version                     |-> p.version,
       reserved_slot                   |-> FALSE,
       capsule_id                      |-> p.capsule,
       activity                        |-> p.activity,
       signing_authority               |-> p.customer_authority,
       authority_id                    |-> p.authority,
       signing_key_version             |-> p.key_version,
       signing_mode                    |-> p.mode,
       signature_algorithm             |-> "Ed25519",
       body                            |-> OtherFields,
       destroyed_at                    |-> IF p.legacy THEN NoValue ELSE p.at,
       key_id_time                     |-> p.at,
       chain                           |-> chain,
       final_hash                      |-> chain[ChainSteps].chain_hash,
       document_hash                   |-> NoValue,
       record_receipts                 |-> receipts,
       record_receipts_merkle_root     |-> rr_root,
       parent_proof_hashes             |-> parents,
       parent_proofs_merkle_root       |-> pp_root,
       customer_declared_activity_root |-> IF p.record = NoValue THEN NoValue
                                           ELSE ComputeActivityRoot(p.record),
       attested_key_version            |-> NoValue,
       algorithm                       |-> IF p.key = NoValue THEN NoValue ELSE "Ed25519",
       public_key                      |-> p.key,
       signature                       |-> NoValue]

\* A 2.0 issuer fills document_hash with a commitment to the document.
WithDocumentHash(d) ==
  IF d.cdp_version = "2.0"
    THEN [d EXCEPT !.document_hash = <<"document", CanonicalView(d)>>] ELSE d

IssueProof(p) ==
  LET d == WithDocumentHash(UnsignedProof(p))
  IN  IF p.key = NoValue THEN d
      ELSE [d EXCEPT !.signature = Sign(p.key, SignedMessage(d))]

Issued == [p \in Profiles |-> IssueProof(p)]

IssuedProofs == {Issued[p] : p \in Profiles}

\* An issuer emits a version this build knows, a customer's record only where the
\* view covers its root, and a trail whose streams have the roots it says.
ASSUME IssuerAssumption ==
  \A p \in Profiles :
    /\ p.version \in SupportedVersions \ {NoValue}
    /\ p.record # NoValue => p.version \in CanonicalViewSignedVersions
    /\ VerifyStreamingMerkleRoots(p.activity) = "none"

\* What is there is not the absence of it.
ASSUME PresenceAssumption ==
  \A p \in Profiles :
    /\ Issued[p].chain # NoValue
    /\ p.key # NoValue => Issued[p].signature # NoValue
    /\ p.record # NoValue => ComputeActivityRoot(p.record) \notin {NoValue, BadRoot}
    /\ p.receipts \notin {NoValue, <<>>} => Issued[p].record_receipts_merkle_root # NoValue
    /\ p.parents \notin {NoValue, <<>>} => Issued[p].parent_proofs_merkle_root # NoValue
=============================================================================
