------------------------- MODULE AuditProofDocument -------------------------
(***************************************************************************)
(* An AuditProof document, the hashes it carries and the message its       *)
(* signature covers (lib.rs, canonical_recompute.rs), and how an issuer    *)
(* builds one (fixtures/generator.rs).                                     *)
(*                                                                         *)
(* A document is a record.  NoValue in a field is JSON null or absence,    *)
(* where the code tells them apart from nothing else; in a field that is   *)
(* read as a string and never hashed as it stands, also a value of another *)
(* type, and where the code treats it the same the empty string.  An       *)
(* absent trail is the empty one.  "body" is the rest of the view as the   *)
(* recompute leaves it (no org_id is the empty one, an empty fingerprint   *)
(* is null).  Prefixes such as "sha512:" are stripped before every         *)
(* comparison, so hashes are their terms.                                  *)
(***************************************************************************)
EXTENDS StreamingMerkle, CustomerActivity

CONSTANTS
  IndexModulus,          \* 2^32: record_index is read as u64 and hashed as u32
  ParseI64               \* the number each key version that parses as an i64 stands for

ASSUME IndexModulusAssumption == IndexModulus \in Nat \ {0}
ASSUME KeyVersionAssumption == NoValue \notin DOMAIN ParseI64

-----------------------------------------------------------------------------
(* The chain.                                                              *)

CanonicalChain ==
  <<"eee_namespace", "eee_tmpfs", "eee_memory", "dire_keys",
    "dire_identity", "fgx_forensic", "rzl_audit", "capsule_destroy">>

ChainSteps == Len(CanonicalChain)

\* Mutant: the timestamp is left out of the step hash.
UntimedStepHash(i, at, roots) == <<"step", i, roots>>

\* Subsystem, action and method are constants of the index and the previous
\* hash is fixed by the timestamp, so the index, the timestamp and the roots
\* mixed into the last step are what a step hash depends on.
StepHash(i, at, roots) == <<"step", i, at, roots>>

\* Mutant: the root of the receipts is left out of step 8.
Step8RootsWithoutReceipts(rr_root, pp_root) == IF pp_root = NoValue THEN <<>> ELSE <<pp_root>>

\* Step 8 takes in the roots that are present.  With one root present the
\* formula does not say which of the two it is.
Step8Roots(rr_root, pp_root) ==
  (IF rr_root = NoValue THEN <<>> ELSE <<rr_root>>)
    \o (IF pp_root = NoValue THEN <<>> ELSE <<pp_root>>)

CanonicalHash(i, at, rr_root, pp_root) ==
  StepHash(i, at, IF i = ChainSteps THEN Step8Roots(rr_root, pp_root) ELSE <<>>)

\* destroyed_at, or for documents from before that field the time inside key_id.
ChainTimestamp(d) == IF d.destroyed_at # NoValue THEN d.destroyed_at ELSE d.key_id_time

-----------------------------------------------------------------------------
(* Receipts and parents.  A receipt's body stands for its id, input and    *)
(* output hash, activity trail and pattern tag, which are hashed as one.   *)

RecordHash(capsule_id, index, body) ==
  <<"record", capsule_id, index % IndexModulus, body>>

ReceiptHash(capsule_id, r) == RecordHash(capsule_id, r.record_index, r.body)

ReceiptLeaves(d) ==
  [i \in DOMAIN d.record_receipts |-> ReceiptHash(d.capsule_id, d.record_receipts[i])]

ParentLeaves(d) ==
  [i \in DOMAIN d.parent_proof_hashes |-> d.parent_proof_hashes[i].parent_chain_hash]

-----------------------------------------------------------------------------
(* The signed message.                                                     *)

SupportedVersions == {"1.0", "2.0", "2.1", "2.2"}
ASSUME NoVersionAssumption == NoValue \notin SupportedVersions

\* A key version is hashed as a number: "2", "02" and "+2" are one number, and what
\* does not parse, is no string or is not there counts as 0.
KeyVersionNumber(text) == IF text \in DOMAIN ParseI64 THEN ParseI64[text] ELSE 0

\* The canonical view: the fields inside the hash, as the recompute reads them.
CanonicalView(d) ==
  [version                         |-> d.cdp_version,
   signing_mode                    |-> d.signing_mode,
   authority_id                    |-> d.authority_id,
   signing_key_version             |-> KeyVersionNumber(d.signing_key_version),
   capsule_id                      |-> d.capsule_id,
   activity_trail                  |-> d.activity,
   destruction_chain               |-> d.chain,
   parent_proofs_merkle_root       |-> d.parent_proofs_merkle_root,
   record_receipts_merkle_root     |-> d.record_receipts_merkle_root,
   customer_declared_activity_root |-> d.customer_declared_activity_root,
   signature_algorithm             |-> d.signature_algorithm,
   body                            |-> d.body]

\* Mutant: the default mode is written into the view.
RecomputeWithDefaultMode(d) ==
  <<"canonical", [CanonicalView(d) EXCEPT !.signing_mode =
                    IF @ = NoValue THEN "nanorix_only" ELSE @]>>

RecomputeCanonicalHash(d) == <<"canonical", CanonicalView(d)>>

\* An absent signing_mode reads as nanorix_only; 1.0 and 2.0 never read it.
UnsupportedMode(d) ==
  d.cdp_version \in CanonicalViewSignedVersions
    /\ d.signing_mode \notin {NoValue, "nanorix_only"}

SignedMessage(d) ==
  CASE d.cdp_version = "1.0" -> d.final_hash
    [] d.cdp_version = "2.0" -> d.document_hash
    [] OTHER -> RecomputeCanonicalHash(d)

\* Ed25519, with a key that only its holder signs with.
Sign(key, message) == [key |-> key, message |-> message]

\* Mutant: the key passed in is ignored for the one the document carries.
VerifiesUnderEmbedded(d, key) ==
  d.signature.key = d.public_key /\ d.signature.message = SignedMessage(d)

\* verify_message_with_key; a signature or key that does not decode never verifies.
VerifiesUnder(d, key) == d.signature.key = key /\ d.signature.message = SignedMessage(d)
=============================================================================
