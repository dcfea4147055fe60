---------------------------- MODULE ReceiptBundle ----------------------------
(***************************************************************************)
(* The portable receipt bundle (bundle.rs): one receipt of an AuditProof   *)
(* with the anchors of the proof, extracted by whoever has the proof and   *)
(* verified by somebody who has the bundle only.                           *)
(*                                                                         *)
(* Neither extraction nor the way of a bundle verifies anything, so the    *)
(* proof and the bundle may each have changed since they were made.  Here  *)
(* are the bundle's functions in Rust and what may happen to it on its     *)
(* way; PortedBundles has who extracts it and who verifies it.             *)
(*                                                                         *)
(* NoValue in a field is its absence, NoText the empty string.  A          *)
(* signature of NoValue, in a bundle, is one that decodes to no 64 bytes.  *)
(***************************************************************************)
EXTENDS AuditProofIssuer, SequencesExt

CONSTANTS
  Records,       \* the record indices asked for
  ForeignKeys,   \* keys of nobody who issues proofs
  OtherBodies,   \* receipts no proof has
  MaxChanges     \* bound: alterations of proof and bundle

\* extract_receipt_bundle takes a u32.
ASSUME RecordsAssumption == Records \subseteq 0 .. IndexModulus - 1
ASSUME ForeignKeysAssumption == \A p \in Profiles : p.key \notin ForeignKeys
ASSUME MaxChangesAssumption == MaxChanges \in Nat

\* What of a receipt is hashed beside the capsule and the index; a trail of
\* NoValue is none, or an empty one.
BodyFields ==
  {"record_id", "record_input_hash", "record_output_hash", "record_activity_trail", "pattern_tag"}

ASSUME BodiesAssumption ==
  /\ \A p \in Profiles : p.receipts # NoValue =>
       \A i \in DOMAIN p.receipts : p.receipts[i] = [f \in BodyFields |-> p.receipts[i][f]]
  /\ \A body \in OtherBodies : body = [f \in BodyFields |-> body[f]]

VARIABLES
  source,    \* the profile the proof was issued for
  proof,     \* the AuditProof the bundle is extracted from
  bundle,    \* NoValue before extraction
  changes,   \* alterations so far
  tampered,  \* whether the bundle, rather than the proof, was altered
  outcome    \* NoValue, the error of extraction, or reader -> error of verification

bundleVars == <<source, proof, bundle, changes, tampered, outcome>>

-----------------------------------------------------------------------------
(* The path of a receipt to the root.                                      *)

\* What the issuer writes: the sibling of every level, of an odd tail itself.
Positions(leaves, index) ==
  LET at[k \in 0 .. Height(leaves)] == IF k = 0 THEN index ELSE at[k - 1] \div 2
  IN  at

Sibling(level, at) ==
  IF at % 2 = 1 THEN level[at]
  ELSE level[IF at + 2 <= Len(level) THEN at + 2 ELSE at + 1]

InclusionPath(leaves, index) ==
  [k \in 1 .. Height(leaves) |->
     Sibling(PairLevels(leaves)[k - 1], Positions(leaves, index)[k - 1])]

Climb(at, sibling) ==
  [hash  |-> IF at.index % 2 = 0 THEN PairHash(at.hash, sibling) ELSE PairHash(sibling, at.hash),
   index |-> at.index \div 2]

Climbed(leaf, index, path) ==
  LET node[k \in 0 .. Len(path)] ==
        IF k = 0 THEN [hash |-> leaf, index |-> index] ELSE Climb(node[k - 1], path[k])
  IN  node

\* The root a path leads to; an empty one leads to the leaf.
RootOnPath(leaf, index, path) == Climbed(leaf, index, path)[Len(path)].hash

VerifyMerkleInclusionProof(leaf, index, path, root) == RootOnPath(leaf, index, path) = root

-----------------------------------------------------------------------------
(* Extraction.                                                             *)

CanonicalTarget == "document_canonical_hash"
Step8Target == "step8_chain_hash"

\* Mutant: 2.2 is taken for a version that signs step 8.
SignatureTargetOf21(version) == IF version = "2.1" THEN CanonicalTarget ELSE NoValue

\* NoValue is the older form, which means the step-8 hash.
SignatureTarget(version) ==
  IF version \in CanonicalViewSignedVersions THEN CanonicalTarget ELSE NoValue

ExtractError(d, record) ==
  CASE d.record_receipts = NoValue -> "NoReceipts"
    [] d.record_receipts # NoValue ->
         IF record >= Len(d.record_receipts) THEN "IndexOutOfBounds"
         ELSE IF \/ NoValue \in {d.destroyed_at, d.public_key, d.signature,
                                 d.record_receipts_merkle_root}
                 \/ d.chain = <<>>
           THEN "MissingField" ELSE "none"

\* A receipt carries the path its issuer gave it, and its index as a whole number.
WithPath(d, record) ==
  LET r == d.record_receipts[record + 1]
      leaves == [i \in DOMAIN d.record_receipts |-> d.record_receipts[i].record_chain_hash]
  IN  [record_index           |-> r.record_index,
       index_form             |-> "whole",
       body                   |-> r.body,
       record_chain_hash      |-> r.record_chain_hash,
       merkle_inclusion_proof |-> InclusionPath(leaves, record)]

ExtractReceiptBundle(d, record) ==
  [bundle_version              |-> "1.0",
   bundle_type                 |-> "receipt",
   receipt                     |-> WithPath(d, record),
   capsule_id                  |-> d.capsule_id,
   verification_key            |-> d.public_key,
   step_8_chain_hash           |-> Last(d.chain).chain_hash,
   signature                   |-> d.signature,
   record_receipts_merkle_root |-> d.record_receipts_merkle_root,
   timestamp                   |-> d.destroyed_at,
   signature_target            |-> SignatureTarget(d.cdp_version),
   document_canonical_hash     |-> IF SignatureTarget(d.cdp_version) = CanonicalTarget
                                     THEN RecomputeCanonicalHash(d) ELSE NoValue]

-----------------------------------------------------------------------------
(* Verification.                                                           *)

SignedAnchor(b) ==
  IF b.signature_target = CanonicalTarget THEN b.document_canonical_hash ELSE b.step_8_chain_hash

SignatureError(b) ==
  IF b.signature_target = CanonicalTarget /\ b.document_canonical_hash = NoValue
    THEN "MissingCanonicalHashAnchor"
  ELSE IF b.signature_target \notin {NoValue, Step8Target, CanonicalTarget}
    THEN "UnknownSignatureTarget"
  ELSE IF b.signature # [key |-> b.verification_key, message |-> SignedAnchor(b)]
    THEN "SignatureFailed" ELSE "none"

\* How an index is written: 1, 1.0, 1.5 (record_index being the whole part), "1".
IndexForms == {"whole", "decimal", "fraction", "text"}

\* The tag and the trail may be missing, nothing else; as_u64 takes whole numbers only.
Misshapen(r) ==
  \/ r.index_form # "whole"
  \/ NoValue \in {r.record_index, r.record_chain_hash, r.body.record_id,
                  r.body.record_input_hash, r.body.record_output_hash}

ReceiptError(b) ==
  LET r == b.receipt
  IN  IF Misshapen(r) THEN "Shape"
      ELSE IF ReceiptHash(b.capsule_id, r) # r.record_chain_hash THEN "RecordChainHashMismatch"
      ELSE IF ~VerifyMerkleInclusionProof(r.record_chain_hash, r.record_index % IndexModulus,
                 r.merkle_inclusion_proof, b.record_receipts_merkle_root)
        THEN "MerkleInclusionFailed" ELSE "none"

VerifyReceiptBundle(b) ==
  IF b.bundle_version # "1.0" \/ b.bundle_type # "receipt" THEN "Shape"
  ELSE IF ReceiptError(b) # "none" THEN ReceiptError(b)
  ELSE SignatureError(b)

-----------------------------------------------------------------------------
(* The proof and the bundle on their ways.                                 *)

BundleInit ==
  /\ source \in Profiles
  /\ proof = Issued[source]
  /\ bundle = NoValue
  /\ changes = 0
  /\ tampered = FALSE
  /\ outcome = NoValue

ChangeProof(d) ==
  /\ bundle = NoValue
  /\ changes < MaxChanges
  /\ proof' = d
  /\ changes' = changes + 1
  /\ UNCHANGED <<source, bundle, tampered, outcome>>

\* A field is taken from another proof.
TakeProofField(f, p) == ChangeProof([proof EXCEPT ![f] = Issued[p][f]])
LoseProofField(f) == ChangeProof([proof EXCEPT ![f] = NoValue])

Change(b) ==
  /\ bundle # NoValue
  /\ changes < MaxChanges
  /\ bundle' = b
  /\ changes' = changes + 1
  /\ tampered' = TRUE
  /\ UNCHANGED <<source, proof, outcome>>

\* Bundles that others extracted from unaltered proofs.
OtherBundles ==
  UNION {{ExtractReceiptBundle(Issued[p], record) :
            record \in {r \in Records : ExtractError(Issued[p], r) = "none"}} : p \in Profiles}

TakeField(f, b) == Change([bundle EXCEPT ![f] = b[f]])
Relabel(target) == Change([bundle EXCEPT !.signature_target = target])
SwapAnchors == Change([bundle EXCEPT !.step_8_chain_hash = bundle.document_canonical_hash,
                                     !.document_canonical_hash = bundle.step_8_chain_hash])
SignAnew(key) == Change([bundle EXCEPT !.verification_key = key,
                                       !.signature = Sign(key, SignedAnchor(bundle))])
LoseSignature == Change([bundle EXCEPT !.signature = NoValue])

\* A body with its missing hashes as empty ones.
Filled(body) ==
  [body EXCEPT !.record_input_hash  = IF @ = NoValue THEN NoText ELSE @,
               !.record_output_hash = IF @ = NoValue THEN NoText ELSE @]

HasIndex == bundle # NoValue /\ bundle.receipt.record_index # NoValue

\* A receipt no proof has, with its own hash right or left as it was.
Forge(body) ==
  \/ Change([bundle EXCEPT !.receipt.body = body])
  \/ /\ HasIndex
     /\ Change([bundle EXCEPT !.receipt.body = body,
                               !.receipt.record_chain_hash = ReceiptHash(bundle.capsule_id,
                                 [bundle.receipt EXCEPT !.body = Filled(body)])])

\* The index in another width, another form, or the next one.
WidenIndex == HasIndex /\ Change([bundle EXCEPT !.receipt.record_index = @ + IndexModulus])
RewriteIndex(form) == Change([bundle EXCEPT !.receipt.index_form = form])
NextIndex ==
  HasIndex /\ Change([bundle EXCEPT !.receipt.record_index = @ + 1,
                                    !.receipt.record_chain_hash = ReceiptHash(bundle.capsule_id,
                                      [bundle.receipt EXCEPT !.record_index = @ + 1])])

\* A field is missing, or there and empty.
SpoilBody(f, x) == Change([bundle EXCEPT !.receipt.body[f] = x])
SpoilReceipt(f, x) == Change([bundle EXCEPT !.receipt[f] = x])
BlankCanonicalHash == Change([bundle EXCEPT !.document_canonical_hash = NoText])

ShortenPath ==
  /\ bundle # NoValue /\ bundle.receipt.merkle_inclusion_proof # <<>>
  /\ Change([bundle EXCEPT !.receipt.merkle_inclusion_proof = Tail(@)])
TakePath(b) ==
  Change([bundle EXCEPT !.receipt.merkle_inclusion_proof = b.receipt.merkle_inclusion_proof])

\* The root is made to fit the receipt.
Reroot ==
  HasIndex /\ Change([bundle EXCEPT !.record_receipts_merkle_root =
                RootOnPath(bundle.receipt.record_chain_hash,
                           bundle.receipt.record_index % IndexModulus,
                           bundle.receipt.merkle_inclusion_proof)])

ProofChanges ==
  \/ \E p \in Profiles : \E f \in DOMAIN proof : TakeProofField(f, p)
  \/ \E f \in {"record_receipts", "record_receipts_merkle_root", "public_key", "signature"} :
       LoseProofField(f)

BundleChanges ==
  \/ \E b \in OtherBundles : (\E f \in DOMAIN b : TakeField(f, b)) \/ TakePath(b)
  \/ \E target \in {NoValue, Step8Target, CanonicalTarget, "other"} : Relabel(target)
  \/ \E key \in ForeignKeys : SignAnew(key)
  \/ \E body \in OtherBodies : Forge(body)
  \/ \E f \in BodyFields \ {"record_activity_trail"} : \E x \in {NoValue, NoText} : SpoilBody(f, x)
  \/ \E x \in {NoValue, NoText} : SpoilReceipt("record_chain_hash", x)
  \/ SpoilReceipt("record_index", NoValue)
  \/ \E form \in IndexForms : RewriteIndex(form)
  \/ BlankCanonicalHash
  \/ SwapAnchors \/ LoseSignature \/ WidenIndex \/ NextIndex \/ ShortenPath \/ Reroot

-----------------------------------------------------------------------------
(* What was issued.                                                        *)

ReceiptsOf(p) ==
  IF p.receipts = NoValue THEN {}
  ELSE {<<p.capsule, (i - 1) % IndexModulus, p.receipts[i]>> : i \in DOMAIN p.receipts}

\* What a bundle shows of an issued proof is there and not empty; a tag is an
\* enumeration's wire form, which is never empty.
ASSUME BundlePresenceAssumption ==
  /\ NoValue \notin Nat \cup {CanonicalTarget, Step8Target}
  /\ \A p \in Profiles :
       /\ RecomputeCanonicalHash(Issued[p]) \notin {NoValue, NoText}
       /\ p.receipts # NoValue =>
            \A i \in DOMAIN p.receipts :
              LET body == p.receipts[i]
              IN  /\ {NoValue, NoText} \cap {body.record_id, RecordHash(p.capsule, i - 1, body)} = {}
                  /\ NoValue \notin {body.record_input_hash, body.record_output_hash}
                  /\ body.pattern_tag # NoText
=============================================================================
