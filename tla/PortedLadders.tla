---------------------------- MODULE PortedLadders ----------------------------
(***************************************************************************)
(* The ladder in Go (verifier.go), Python (_ladder.py) and TypeScript      *)
(* (auditproof.ts): of each its verdict and what the verdict discloses, as *)
(* functions of the document and the policy, beside the ladder of          *)
(* AuditProof.  None of the three knows a trust-chain manifest.            *)
(***************************************************************************)
EXTENDS AuditProof

-----------------------------------------------------------------------------
(* Receipts and parents.                                                   *)

\* record_index is hashed as it stands, but in Go as a uint32.  What Go makes
\* of a number that is none is left to its build: the properties leave it out.
IndexRead(port, index) == IF port = "go" THEN index % IndexModulus ELSE index

PortReceiptHash(port, d, i) ==
  <<"record", d.capsule_id, IndexRead(port, d.record_receipts[i].record_index),
    d.record_receipts[i].body>>

\* A set without a root: Go passes it over, the others take only an empty one.
RootlessFault(port, set) == IF port = "go" \/ set = <<>> THEN "none" ELSE "RequiredFieldMissing"

\* verifyRecordReceiptsArray, _verify_record_receipts, verifyRecordReceipts.
PortReceiptFault(port, d) ==
  LET receipts == d.record_receipts
      root     == d.record_receipts_merkle_root
      leaves   == [i \in DOMAIN receipts |-> PortReceiptHash(port, d, i)]
  IN  IF receipts = NoValue THEN "none"
      ELSE IF root = NoValue THEN RootlessFault(port, receipts)
      ELSE IF \E i \in DOMAIN receipts : receipts[i].record_chain_hash # leaves[i]
             THEN "StepHashMismatch"
      ELSE IF root = MerkleRoot(leaves) THEN "none" ELSE "FinalHashMismatch"

\* verifyParentProofsArray, _verify_parent_proofs, verifyParentProofs.
PortParentFault(port, d) ==
  LET parents == d.parent_proof_hashes
      root    == d.parent_proofs_merkle_root
  IN  IF parents = NoValue THEN "none"
      ELSE IF root = NoValue THEN RootlessFault(port, parents)
      ELSE IF root = MerkleRoot(ParentLeaves(d)) THEN "none" ELSE "FinalHashMismatch"

-----------------------------------------------------------------------------
(* The rungs.  Undecided is the answer of one that lets the document pass. *)

Unless(test, stage, reason) == IF test THEN Undecided ELSE Rejected(stage, reason)
Fault(stage, reason) == Unless(reason = "none", stage, reason)

VersionRung(d) ==
  IF d.cdp_version = NoValue THEN Rejected(1, "RequiredFieldMissing")
  ELSE Unless(d.cdp_version \in SupportedVersions, 2, "CdpVersionUnsupported")

PinRung(d, pol) ==
  IF pol.required_authority_id \notin {NoValue, d.signing_authority}
    THEN Rejected(2, "AuthorityIdMismatch")
  ELSE Unless(pol.required_region \in {NoValue, Region(d)}, 2, "RegionMismatch")

ShapeRung(d) ==
  IF d.chain = NoValue THEN Rejected(3, "RequiredFieldMissing")
  ELSE Unless(Len(d.chain) = ChainSteps, 3, "StepCountInvalid")

\* The first step that is wrong names the fault, its hash before its label.
WalkRung(d) ==
  LET wrong == BrokenSteps(d) \cup MislabelledSteps(d)
      first == CHOOSE i \in wrong : \A j \in wrong : i <= j
  IN  IF wrong = {} THEN Undecided
      ELSE Rejected(3, IF first \in BrokenSteps(d) THEN "StepHashMismatch"
                                                   ELSE "ChainStepIdentityMismatch")

RecordRung(d, pol) ==
  IF pol.customer_activity = NoValue THEN Undecided
  ELSE Fault(3, VerifyCustomerDeclaredActivity(d.customer_declared_activity_root, d.cdp_version,
                                               pol.customer_activity))

NothingToCheck(d) == NoValue \in {d.signature, d.public_key}

SignatureRung(d) ==
  IF NothingToCheck(d) THEN Undecided
  ELSE IF UnsupportedMode(d) THEN Rejected(4, "AlgorithmUnsupported")
  ELSE Unless(VerifiesUnder(d, d.public_key), 7, "SignatureMismatch")

GoRungs ==
  <<"version", "root_gate", "pins", "shape", "walk", "receipts", "parents",
    "record", "final_hash", "algorithm", "signature">>

\* Mutant: streams are looked at after the customer's record.
PortRungsStreamsLast(port) ==
  IF port = "go" THEN GoRungs
  ELSE <<"version", "slots", "root_gate", "pins", "shape", "walk", "receipts", "parents",
         "record", "streams", "final_hash", "algorithm", "signature">>

\* The rungs in their order; Go has none for the reserved slots and the streams.
PortRungs(port) ==
  IF port = "go" THEN GoRungs
  ELSE <<"version", "slots", "root_gate", "pins", "shape", "walk", "receipts", "parents",
         "streams", "record", "final_hash", "algorithm", "signature">>

Rung(rung, port, d, pol) ==
  CASE rung = "version"    -> VersionRung(d)
    [] rung = "slots"      -> Unless(~d.reserved_slot, 2, "UnsignedFieldPopulated")
    [] rung = "root_gate"  -> Fault(2, GateDeclaredActivityRoot(d.customer_declared_activity_root,
                                                                d.cdp_version))
    [] rung = "pins"       -> PinRung(d, pol)
    [] rung = "shape"      -> ShapeRung(d)
    [] rung = "walk"       -> WalkRung(d)
    [] rung = "receipts"   -> Fault(3, PortReceiptFault(port, d))
    [] rung = "parents"    -> Fault(3, PortParentFault(port, d))
    [] rung = "streams"    -> Fault(3, VerifyStreamingMerkleRoots(d.activity))
    [] rung = "record"     -> RecordRung(d, pol)
    [] rung = "final_hash" -> Unless(d.final_hash = d.chain[ChainSteps].chain_hash, 4, "FinalHashMismatch")
    [] rung = "algorithm"  -> Unless({d.algorithm, d.signature_algorithm} \subseteq {NoValue, "Ed25519"},
                                     4, "AlgorithmUnsupported")
    [] rung = "signature"  -> SignatureRung(d)

-----------------------------------------------------------------------------
(* The verdict.                                                            *)

\* How many rungs the document passes: none after one that it does not pass.
Climbed(port, d, pol) ==
  LET rungs == PortRungs(port)
      passed[i \in 0 .. Len(rungs)] ==
        IF i = 0 THEN 0
        ELSE LET below == passed[i - 1]
             IN  IF below = i - 1 /\ Rung(rungs[i], port, d, pol) = Undecided THEN i ELSE below
  IN  passed[Len(rungs)]

PortVerdict(port, d, pol) ==
  LET climbed == Climbed(port, d, pol)
  IN  IF climbed < Len(PortRungs(port)) THEN Rung(PortRungs(port)[climbed + 1], port, d, pol)
      ELSE Accepted(IF NothingToCheck(d) THEN 4 ELSE 7)

\* What is disclosed along with it; Go does not count unattested parents.
PortMetadata(port, d, pol) ==
  LET passed == {PortRungs(port)[i] : i \in 1 .. Climbed(port, d, pol)}
  IN  [region     |-> IF "root_gate" \in passed THEN Region(d) ELSE NoValue,
       recovered  |-> IF "shape" \in passed /\ d.destroyed_at = NoValue THEN d.key_id_time ELSE NoValue,
       unattested |-> IF "parents" \in passed /\ port # "go" THEN UnattestedParents(d) ELSE NoValue,
       checked    |-> IF "record" \notin passed THEN NoValue
                      ELSE IF pol.customer_activity # NoValue THEN TRUE
                      ELSE IF d.customer_declared_activity_root # NoValue THEN FALSE ELSE NoValue]

-----------------------------------------------------------------------------
(* Conformance: on one document, under one policy, one verdict.            *)

Judged == pc = "done" /\ policy.trust_chain = NoValue

\* Each record_index is a number, and no wider than the 32 bits that Rust and Go read of it.
Narrow(d) ==
  d.record_receipts # NoValue =>
    \A i \in DOMAIN d.record_receipts :
      d.record_receipts[i].record_index \in 0 .. IndexModulus - 1

Conforms(port) ==
  /\ PortVerdict(port, doc, policy) = verdict
  /\ PortMetadata(port, doc, policy) = metadata

Rootless(set, root) == set \notin {NoValue, <<>>} /\ root = NoValue

\* The checks that Go has no rung for, as the verdict the ladder gives on them.
OutsideGo(d) ==
  \/ d.reserved_slot /\ verdict = Rejected(2, "UnsignedFieldPopulated")
  \/ /\ \/ Rootless(d.record_receipts, d.record_receipts_merkle_root)
        \/ Rootless(d.parent_proof_hashes, d.parent_proofs_merkle_root)
     /\ verdict = Rejected(3, "RequiredFieldMissing")
  \/ /\ VerifyStreamingMerkleRoots(d.activity) # "none"
     /\ verdict = Rejected(3, VerifyStreamingMerkleRoots(d.activity))

\* Python and TypeScript: the three ladders name the same first fault at the same
\* stage and disclose the same region, timestamp, parents and record with it,
\* whatever rung the document falls at.
PortsAgree ==
  Judged /\ Narrow(doc) => Conforms("python") /\ Conforms("typescript")

\* Go: where its verdict is another, the document has a fault Go does not look
\* for, and the ladder refused it for that one; what Go discloses of a document
\* it judges alike is what the ladder does, but for the count of parents.
GoDiffersByMissingChecksOnly ==
  Judged /\ Narrow(doc) =>
    \/ /\ PortVerdict("go", doc, policy) = verdict
       /\ PortMetadata("go", doc, policy) = [metadata EXCEPT !.unattested = NoValue]
    \/ OutsideGo(doc)

\* On one document, under one policy, four ladders and one verdict, but for the
\* faults that Go does not look for.
LaddersAgree == PortsAgree /\ GoDiffersByMissingChecksOnly
=============================================================================
