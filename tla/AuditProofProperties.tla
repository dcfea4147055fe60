------------------------ MODULE AuditProofProperties ------------------------
(***************************************************************************)
(* What a verdict of the ladder entitles its reader to conclude about the  *)
(* proof that was issued.                                                  *)
(***************************************************************************)
EXTENDS AuditProof

-----------------------------------------------------------------------------
(* Vocabulary.                                                             *)

Authentic == verdict = Accepted(8)

\* The profiles whose issued proof carries the signature the document carries.
Origins == {p \in Profiles : Issued[p].signature = doc.signature}

\* The fields a 2.1 / 2.2 signature covers, by their names in the document.
SignedFields ==
  {"cdp_version", "signing_mode", "authority_id", "capsule_id", "activity", "chain",
   "parent_proofs_merkle_root", "record_receipts_merkle_root",
   "customer_declared_activity_root", "signature_algorithm", "body"}

\* The versions whose message binds the chain: all but 2.0, whose message is a field.
ChainBindingVersions == SupportedVersions \ {"2.0"}

-----------------------------------------------------------------------------
(* Invariants.                                                             *)

\* Stage 8 (anchor_to_trust_chain): the signature is one an issuer made, over
\* the very message the document in hand amounts to.  A document that ships its
\* own consistent key and signature does not get there.
AnchoredMessageIsIssued ==
  Authentic => \E p \in Origins : SignedMessage(Issued[p]) = SignedMessage(doc)

\* Stage 8 on the versions signed over the canonical view: every field of the
\* view reads as it was issued; none was altered, added or stripped.  Of the key
\* version that is said up to the number it is hashed as: its text may have changed
\* to another of the same number ("2" to "02", "v1" to nothing), as a key version
\* in the attestation, which no signature covers, can name the key instead.
SignedViewIsIssued ==
  Authentic /\ doc.cdp_version \in CanonicalViewSignedVersions =>
    \E p \in Origins :
      LET d == Issued[p] IN
        /\ \A f \in SignedFields : doc[f] = d[f]
        /\ KeyVersionNumber(doc.signing_key_version) = KeyVersionNumber(d.signing_key_version)

\* A residency pin that ends in stage 8 on those versions was met by the region
\* the capsule was started in when the proof was issued, not by one written
\* into the trail later (the pin reads metadata.region long before the
\* signature is checked).
ResidencyHonoured ==
  /\ Authentic
  /\ policy.required_region # NoValue
  /\ doc.cdp_version \in CanonicalViewSignedVersions
  => \E p \in Origins : \E i \in DOMAIN p.activity :
       /\ p.activity[i].event = "capsule_started"
       /\ p.activity[i].region = policy.required_region
       /\ \A j \in 1 .. i - 1 : p.activity[j].event # "capsule_started"

\* A set that is shown, and that the signature vouches for.  A 1.0 signature covers
\* the roots in step 8, which does not say whose root it took in: there the one root
\* can be moved to the other set and its own set emptied, so an empty set says nothing.
Shown(set) == set # NoValue /\ (doc.cdp_version = "1.0" => set # <<>>)

\* Receipts shown under stage 8 are those the issuer batched: the same set of
\* (capsule, index as the hash sees it, content), none missing, none foreign.
\* Not the same sequence: the tree pairs an odd tail with itself.
ReceiptSetIsIssued ==
  Authentic /\ doc.cdp_version \in ChainBindingVersions /\ Shown(doc.record_receipts) =>
    \E p \in Origins :
      {<<doc.capsule_id, doc.record_receipts[i].record_index % IndexModulus,
         doc.record_receipts[i].body>> : i \in DOMAIN doc.record_receipts}
      = IF p.receipts = NoValue THEN {}
        ELSE {<<p.capsule, (i - 1) % IndexModulus, p.receipts[i]>> : i \in DOMAIN p.receipts}

\* The same for the parents, by chain hash: no lineage is added or dropped.
ParentSetIsIssued ==
  Authentic /\ doc.cdp_version \in ChainBindingVersions /\ Shown(doc.parent_proof_hashes) =>
    \E p \in Origins :
      {doc.parent_proof_hashes[i].parent_chain_hash : i \in DOMAIN doc.parent_proof_hashes}
      = IF p.parents = NoValue THEN {} ELSE {p.parents[i] : i \in DOMAIN p.parents}

\* Neither set shown under stage 8 is another than the one issued.
SetsAreIssued == ReceiptSetIsIssued /\ ParentSetIsIssued

\* The destruction time a reader is given under stage 8, from destroyed_at or
\* recovered from key_id and disclosed, is the one the issuer's chain hashed.
TimestampIsIssued ==
  Authentic /\ doc.cdp_version \in ChainBindingVersions =>
    \E p \in Origins :
      p.at = IF doc.destroyed_at # NoValue THEN doc.destroyed_at ELSE metadata.recovered

\* "checked" is said of a customer's record under stage 8 only when it has
\* exactly the lines, in the order and the number, that the issuer committed to.
CheckedRecordIsIssuers ==
  Authentic /\ metadata.checked = TRUE =>
    \E p \in Origins :
      p.record # NoValue
        /\ SplitActivityLines(p.record) = SplitActivityLines(policy.customer_activity)

\* A manifest is never ignored and never half applied: given one, a signed
\* document is accepted at stage 8 or not at all, and only under a key that some
\* authority that is not revoked publishes.
ManifestDecides ==
  verdict.valid /\ policy.trust_chain # NoValue /\ doc.signature # NoValue
                /\ doc.public_key # NoValue =>
    /\ verdict.stage = 8
    /\ \E a \in DOMAIN policy.trust_chain :
         /\ ~policy.trust_chain[a].revoked
         /\ doc.signature.key \in PublishedKeys([b \in {a} |-> policy.trust_chain[a]])

-----------------------------------------------------------------------------
(* What a reader asks, and whether the issued proof answers it.            *)

\* The authority a proof names, and its key version, have a standing entry.
Published(p, manifest) ==
  LET a == IF p.authority = NoValue THEN DefaultAuthority ELSE p.authority
  IN  /\ a \in DOMAIN manifest
      /\ ~manifest[a].revoked
      /\ \E list \in {manifest[a].active_versions, manifest[a].archived_versions} :
           \E i \in DOMAIN list : list[i] = KeyVersionRecord(p.key_version, p.key)

FirstRegionIs(p, region) ==
  \E i \in DOMAIN p.activity :
    /\ p.activity[i].event = "capsule_started"
    /\ p.activity[i].region = region
    /\ \A j \in 1 .. i - 1 : p.activity[j].event # "capsule_started"

\* Everything the policy asks holds of what the profile says was done, in a
\* mode this build implements.  Nothing is said here of a proof that declares
\* another mode, signed or not: an unsigned one is accepted in part, although
\* docs/signed-containment-evidence.md, 154-155, wants it rejected.
Satisfies(p, pol) ==
  /\ pol.required_authority_id \in {NoValue, p.customer_authority}
  /\ pol.required_region # NoValue => FirstRegionIs(p, pol.required_region)
  /\ pol.customer_activity # NoValue =>
       p.record # NoValue
         /\ SplitActivityLines(p.record) = SplitActivityLines(pol.customer_activity)
  /\ p.mode \in {NoValue, "nanorix_only"}
  /\ p.key # NoValue /\ pol.trust_chain # NoValue => Published(p, pol.trust_chain)

Untouched(d, pol) == d \in {Issued[p] : p \in {q \in Profiles : Satisfies(q, pol)}}

\* A genuine proof, from any era and under a rotated key too, is never refused
\* a reader whose questions it answers: it reaches the stage its signature and
\* the reader's manifest allow.
GenuineProofAccepted ==
  pc = "done" /\ Untouched(doc, policy) =>
    verdict = Accepted(CASE doc.signature = NoValue -> 4
                         [] doc.signature # NoValue /\ policy.trust_chain = NoValue -> 7
                         [] OTHER -> 8)

-----------------------------------------------------------------------------
(* The ladder implements the promise of VerifierOutcome.                   *)

FactsOfDocument ==
  IF pc = "transit" THEN NoValue
  ELSE [genuine  |-> Untouched(doc, policy),
        signed   |-> doc.signature # NoValue /\ doc.public_key # NoValue,
        anchored |-> policy.trust_chain # NoValue,
        vouched  |-> /\ policy.trust_chain # NoValue
                     /\ \E p \in Origins :
                          /\ SignedMessage(Issued[p]) = SignedMessage(doc)
                          /\ \E a \in DOMAIN policy.trust_chain :
                               /\ ~policy.trust_chain[a].revoked
                               /\ p.key \in PublishedKeys([b \in {a} |-> policy.trust_chain[a]])]

OutcomeOfVerdict ==
  CASE pc # "done" -> NoValue
    [] pc = "done" /\ ~verdict.valid -> "failed"
    [] pc = "done" /\ verdict = Accepted(4) -> "unsigned"
    [] pc = "done" /\ verdict = Accepted(7) -> "integrity"
    [] pc = "done" /\ verdict = Accepted(8) -> "authentic"

Promise == INSTANCE VerifierOutcome
             WITH received <- pc # "transit", facts <- FactsOfDocument, outcome <- OutcomeOfVerdict

\* Refinement: every behaviour of the ladder is one VerifierOutcome allows, and
\* a document that was submitted is eventually answered.
ImplementsVerifierOutcome == Promise!Spec
=============================================================================
