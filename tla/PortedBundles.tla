---------------------------- MODULE PortedBundles ----------------------------
(***************************************************************************)
(* The receipt bundle in Go (bundle.go), Python (bundle.py) and TypeScript *)
(* (bundle.ts): a bundle that one of them or the Rust code extracted, on   *)
(* its way to a reader who has any of the four.                            *)
(*                                                                         *)
(* Python and TypeScript know neither signature_target nor                 *)
(* document_canonical_hash, and each language has its own way with a field *)
(* that is missing, empty or of another type.                              *)
(***************************************************************************)
EXTENDS ReceiptBundle

VARIABLE extractor  \* the language the bundle is extracted in

vars == <<bundleVars, extractor>>

Languages == {"rust", "go", "python", "typescript"}

\* Those that know what a version signs.
Targeting == {"rust", "go"}

-----------------------------------------------------------------------------
(* Extraction.                                                             *)

Untargeted(b) == [b EXCEPT !.signature_target = NoValue, !.document_canonical_hash = NoValue]

\* extract_receipt_bundle, extractReceiptBundle: without a signature target.
ExtractPlain(port, d, record) == Untargeted(ExtractReceiptBundle(d, record))

ExtractedBy(port, d, record) ==
  IF port \in Targeting THEN ExtractReceiptBundle(d, record) ELSE ExtractPlain(port, d, record)

-----------------------------------------------------------------------------
(* Verification.                                                           *)

\* In Rust and Go record_index is 32 bits wide; Go and Python cut a fraction off.
IndexRead(port, index) == IF port \in Targeting THEN index % IndexModulus ELSE index

\* TypeScript hashes a fraction as it is written, and on the path takes it for a
\* right child, then for the whole number half of it is.
WrittenOut(port, r) == port = "typescript" /\ r.index_form = "fraction"

PathIndex(port, r) ==
  IF WrittenOut(port, r) THEN 2 * (r.record_index \div 2) + 1 ELSE IndexRead(port, r.record_index)

\* Go and Python take a missing hash for an empty one, Python an empty tag for none.
BodyRead(port, body) ==
  [Filled(body) EXCEPT !.pattern_tag = IF port = "python" /\ @ = NoText THEN NoValue ELSE @]

\* Mutant: the receipt's own hash is believed.
ClaimedBundleHash(port, b) == b.receipt.record_chain_hash

BundleReceiptHash(port, b) ==
  LET r == b.receipt
      index == IndexRead(port, r.record_index)
      body  == BodyRead(port, r.body)
  IN  IF WrittenOut(port, r) THEN <<"record", b.capsule_id, index, body, "fraction">>
      ELSE <<"record", b.capsule_id, index, body>>

\* Python takes a number out of a text; Go takes an empty id or hash for a missing one.
MisshapenIn(port, r) ==
  \/ NoValue \in {r.record_index, r.record_chain_hash, r.body.record_id}
  \/ port # "python" /\ r.index_form = "text"
  \/ port = "go" /\ NoText \in {r.record_chain_hash, r.body.record_id}

\* A missing hash is no string to strip in TypeScript: no BundleError but a TypeError.
PortReceiptError(port, b) ==
  LET r == b.receipt
  IN  IF MisshapenIn(port, r) THEN "Shape"
      ELSE IF /\ port = "typescript"
              /\ NoValue \in {r.body.record_input_hash, r.body.record_output_hash}
        THEN "TypeError"
      ELSE IF BundleReceiptHash(port, b) # r.record_chain_hash THEN "RecordChainHashMismatch"
      ELSE IF ~VerifyMerkleInclusionProof(r.record_chain_hash, PathIndex(port, r),
                 r.merkle_inclusion_proof, b.record_receipts_merkle_root)
        THEN "MerkleInclusionFailed" ELSE "none"

SignedOver(b, message) ==
  IF b.signature = [key |-> b.verification_key, message |-> message]
    THEN "none" ELSE "SignatureFailed"

\* Mutant: without a canonical hash Go falls back on step 8.
GoSignatureFallingBack(b) ==
  CASE b.signature_target \in {NoValue, Step8Target} -> SignedOver(b, b.step_8_chain_hash)
    [] b.signature_target = CanonicalTarget ->
         SignedOver(b, IF b.document_canonical_hash = NoValue THEN b.step_8_chain_hash
                                                              ELSE b.document_canonical_hash)
    [] OTHER -> "UnknownSignatureTarget"

\* An empty canonical hash is none.
GoSignatureError(b) ==
  CASE b.signature_target \in {NoValue, Step8Target} -> SignedOver(b, b.step_8_chain_hash)
    [] b.signature_target = CanonicalTarget ->
         IF b.document_canonical_hash \in {NoValue, NoText} THEN "MissingCanonicalHashAnchor"
         ELSE SignedOver(b, b.document_canonical_hash)
    [] OTHER -> "UnknownSignatureTarget"

\* Mutant: a bundle without a signature passes.
PlainSignatureOptional(b) ==
  IF b.signature = NoValue THEN "none" ELSE SignedOver(b, b.step_8_chain_hash)

\* Python and TypeScript: over step 8, whatever the bundle names as signed.
PlainSignatureError(b) == SignedOver(b, b.step_8_chain_hash)

\* VerifyReceiptBundle, verify_receipt_bundle, verifyReceiptBundle.
PortVerify(port, b) ==
  IF b.bundle_version # "1.0" \/ b.bundle_type # "receipt" THEN "Shape"
  ELSE IF PortReceiptError(port, b) # "none" THEN PortReceiptError(port, b)
  ELSE IF port = "go" THEN GoSignatureError(b) ELSE PlainSignatureError(b)

VerifiedBy(port, b) == IF port = "rust" THEN VerifyReceiptBundle(b) ELSE PortVerify(port, b)

-----------------------------------------------------------------------------
(* From the extractor to the readers, with what may change on either side. *)

Init == BundleInit /\ extractor \in Languages

\* bundle_extract.
Extract(record) ==
  /\ bundle = NoValue
  /\ LET error == ExtractError(proof, record)
     IN  \/ /\ error = "none"
            /\ bundle' = ExtractedBy(extractor, proof, record)
            /\ UNCHANGED outcome
         \/ /\ error # "none"
            /\ outcome' = error
            /\ UNCHANGED bundle
  /\ UNCHANGED <<source, proof, changes, tampered, extractor>>

\* bundle_verify, by a reader of each language: none of them alters the bundle.
Verify ==
  /\ bundle # NoValue
  /\ outcome' = [language \in Languages |-> VerifiedBy(language, bundle)]
  /\ UNCHANGED <<source, proof, bundle, changes, tampered, extractor>>

Next ==
  \/ outcome = NoValue /\ (ProofChanges \/ BundleChanges) /\ UNCHANGED extractor
  \/ outcome = NoValue /\ ((\E record \in Records : Extract(record)) \/ Verify)
  \/ outcome # NoValue /\ UNCHANGED vars

Spec == Init /\ [][Next]_vars

-----------------------------------------------------------------------------
(* Properties.                                                             *)

Verified == bundle # NoValue /\ outcome # NoValue

Accepted(language) == Verified /\ outcome[language] = "none"

\* The verification key is one the holder knows for an issuer's.
ByIssuer == bundle.verification_key \notin ForeignKeys

\* bundle.rs, 458-480: a reader in any language who goes on to the source proof,
\* and finds the root of the bundle there, has a receipt of that proof: capsule,
\* position and content, as the language reads them.  Without the source proof the
\* root is bound by nothing: neither signature covers what the bundle shows of it.
ReceiptIsOfItsProof ==
  \A language \in Languages : Accepted(language) =>
    \A p \in Profiles :
      bundle.record_receipts_merkle_root = Issued[p].record_receipts_merkle_root =>
        <<bundle.capsule_id, IndexRead(language, bundle.receipt.record_index),
          BodyRead(language, bundle.receipt.body)>> \in ReceiptsOf(p)

\* The hash a language checks the signature of.
AnchorIn(language) ==
  IF language \in Targeting THEN SignedAnchor(bundle) ELSE bundle.step_8_chain_hash

\* bundle.rs, 202-207 and 419-453: the anchor a language checked under an
\* issuer's key was signed by that issuer, and since the canonical hash is
\* computed at extraction, it is that of a proof altered in nothing it covers.
AcceptedAnchorIsIssued ==
  \A language \in Languages : Accepted(language) /\ ByIssuer =>
    /\ \E p \in Profiles :
         /\ p.key = bundle.verification_key
         /\ SignedMessage(Issued[p]) = AnchorIn(language)
    /\ language \in Targeting /\ bundle.signature_target = CanonicalTarget /\ ~tampered =>
         \E p \in Profiles : CanonicalView(proof) = CanonicalView(Issued[p])

\* The index of the receipt is no wider than the 32 bits Rust and Go read of it.
NarrowIndex == bundle.receipt.record_index = NoValue \/ bundle.receipt.record_index < IndexModulus

\* A field is written in a way that the language reads otherwise than Rust does.
ReadsOtherwise(language) ==
  LET r == bundle.receipt
  IN  \/ /\ language # "rust"
         /\ \/ r.index_form \in {"decimal", "fraction"}
            \/ NoValue \in {r.body.record_input_hash, r.body.record_output_hash}
      \/ /\ language = "python"
         /\ r.index_form = "text" \/ r.body.pattern_tag = NoText
      \/ /\ language = "go"
         /\ \/ NoText \in {r.record_chain_hash, r.body.record_id}
            \/ /\ bundle.signature_target = CanonicalTarget
               /\ bundle.document_canonical_hash = NoText

\* bundle.go, bundle.py, bundle.ts: altered or not, a bundle has in every language
\* the answer it has in Rust, the kind of error included, with two exceptions: a
\* field written in one of the ways that are read otherwise; and in Python and
\* TypeScript a signature over a target they do not know, of a receipt in order.
LanguagesAgree ==
  Verified /\ NarrowIndex =>
    \A language \in Languages :
      \/ outcome[language] = outcome["rust"]
      \/ ReadsOtherwise(language)
      \/ /\ language \notin Targeting
         /\ bundle.signature_target \notin {NoValue, Step8Target}
         /\ ReceiptError(bundle) = "none"

\* bundle.rs, 35-39: the bundle of an unaltered proof verifies: of one that signs
\* step 8 in every language, whichever extracted it; of one that signs its
\* canonical view wherever the extractor and the reader know the target.
GenuineBundleVerifies ==
  Verified /\ changes = 0 =>
    \A language \in Languages :
      (\/ source.version = "1.0"
       \/ /\ source.version \in CanonicalViewSignedVersions
          /\ {extractor, language} \subseteq Targeting)
      => Accepted(language)

-----------------------------------------------------------------------------
(* What the comments say, and the code does not do.                        *)

\* bundle.rs, 34-36, has 1.0 and 2.0 signed over step 8 and 2.1 over the canonical
\* hash, and 5-7 the ports agree byte by byte, as bundle.py, 4, says of itself: so
\* the bundle of an unaltered proof of any version verifies in every language,
\* whichever extracted it.  False of 2.0, which is signed over document_hash, in all
\* of them, and of 2.1 and 2.2 where Python or TypeScript extracts or reads.
PortableBundleVerifies ==
  Verified /\ changes = 0 => \A language \in Languages : Accepted(language)
=============================================================================
