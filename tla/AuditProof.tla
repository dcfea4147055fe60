----------------------------- MODULE AuditProof -----------------------------
(***************************************************************************)
(* verify_auditproof (lib.rs): the stage ladder over one AuditProof.       *)
(*                                                                         *)
(* A genuine proof leaves its issuer, may change between issue and         *)
(* verification, and is then taken rung by rung through the ladder under a *)
(* policy.  A rung either lets the document through to the next rung or    *)
(* ends the run with a verdict; the first failing rung names the fault.    *)
(***************************************************************************)
EXTENDS AuditProofIssuer, TrustChain

CONSTANTS
  Policies,            \* the policies a reader verifies under
  Edits,               \* per field, the values a changed document may carry in it
  ForeignKeys,         \* signing keys that are not an issuer's
  MaxEdits,            \* bound: fields changed between issue and verification
  DefaultAuthority     \* "us-kms-nanorix-v1"

\* Signatures change only by SwapSignature and SignAnew; a set of receipts or of
\* parents is a JSON array or reads as absent.
ASSUME EditsAssumption ==
  /\ "signature" \notin DOMAIN Edits
  /\ \A f \in {"record_receipts", "parent_proof_hashes"} \cap DOMAIN Edits :
       \A list \in Edits[f] \ {NoValue} : Len(list) \in Nat /\ DOMAIN list = 1 .. Len(list)

\* A record that a reader checks has at least one segment.
ASSUME PoliciesAssumption ==
  \A pol \in Policies : pol.customer_activity # NoValue =>
    LET record == pol.customer_activity
    IN  /\ Len(record) \in Nat /\ record = [i \in 1 .. Len(record) |-> record[i]]
        /\ record # <<>>
ASSUME MaxEditsAssumption == MaxEdits \in Nat
ASSUME CheckedAssumption == NoValue \notin BOOLEAN

\* The key lists of a manifest are sequences, and it publishes keys of issuers
\* only: what the pinned signature of the manifest stands for.
ASSUME ManifestAssumption ==
  \A pol \in Policies : pol.trust_chain # NoValue =>
    /\ \A a \in DOMAIN pol.trust_chain :
         \A list \in {pol.trust_chain[a].active_versions, pol.trust_chain[a].archived_versions} :
           Len(list) \in Nat /\ DOMAIN list = 1 .. Len(list)
    /\ PublishedKeys(pol.trust_chain) \cap ForeignKeys = {}

\* However often an authority lists a key version, the entry is the same.
ASSUME VersionsAssumption ==
  \A pol \in Policies : pol.trust_chain # NoValue =>
    \A a \in DOMAIN pol.trust_chain :
      LET lists == {pol.trust_chain[a].active_versions, pol.trust_chain[a].archived_versions}
      IN  \A one, other \in lists : \A i \in DOMAIN one, j \in DOMAIN other :
            /\ one[i].signing_key_version = other[j].signing_key_version => one[i] = other[j]
            /\ one[i] # NoValue
            /\ \A status \in {"Active", "Archived"} :
                 Lookup(one[i], pol.trust_chain[a], status) # NoValue

VARIABLES
  issued,     \* the proof as it left the issuer
  doc,        \* the document in front of the verifier
  edits,      \* how many times it was changed
  policy,     \* the reader's VerifierPolicy, once there is a reader
  pc,         \* the next rung
  metadata,   \* what the verdict discloses
  verdict     \* VerificationResult: validity, stage reached, failure reason

vars == <<issued, doc, edits, policy, pc, metadata, verdict>>

-----------------------------------------------------------------------------
Undecided == [valid |-> FALSE, stage |-> 0, reason |-> "undecided"]
Rejected(stage, reason) == [valid |-> FALSE, stage |-> stage, reason |-> reason]
Accepted(stage) == [valid |-> TRUE, stage |-> stage, reason |-> "none"]

NoMetadata ==
  [region |-> NoValue, recovered |-> NoValue, unattested |-> NoValue, checked |-> NoValue]

Init ==
  /\ issued \in IssuedProofs
  /\ doc = issued
  /\ edits = 0
  /\ policy = NoValue
  /\ pc = "transit"
  /\ metadata = NoMetadata
  /\ verdict = Undecided

-----------------------------------------------------------------------------
(* Between issue and verification.                                         *)

Change(d) ==
  /\ pc = "transit"
  /\ edits < MaxEdits
  /\ edits' = edits + 1
  /\ doc' = d
  /\ UNCHANGED <<issued, policy, pc, metadata, verdict>>

\* A field other than the signature reads differently from what was issued.
EditField ==
  \E f \in DOMAIN Edits : \E v \in Edits[f] : Change([doc EXCEPT ![f] = v])

\* The signature is lost, or is that of another genuine proof.
SwapSignature ==
  \E s \in {NoValue} \cup {p.signature : p \in IssuedProofs} :
    Change([doc EXCEPT !.signature = s])

\* Somebody else signs the document as it now reads.
SignAnew ==
  \E k \in ForeignKeys :
    Change([doc EXCEPT !.signature = Sign(k, SignedMessage(doc)), !.public_key = k])

Submit ==
  /\ pc = "transit"
  /\ pc' = "version"
  /\ policy' \in Policies
  /\ UNCHANGED <<issued, doc, edits, metadata, verdict>>

-----------------------------------------------------------------------------
(* The ladder.                                                             *)

Pass(rung) ==
  /\ pc' = rung
  /\ UNCHANGED <<issued, doc, edits, policy, verdict>>

Decide(result) ==
  /\ pc' = "done"
  /\ verdict' = result
  /\ UNCHANGED <<issued, doc, edits, policy, metadata>>

Reject(stage, reason) == Decide(Rejected(stage, reason))

\* Stages 1 and 2: cdp_version is there and known.
CheckVersion ==
  /\ pc = "version"
  /\ \/ /\ doc.cdp_version = NoValue
        /\ Reject(1, "RequiredFieldMissing")
     \/ /\ doc.cdp_version \notin {NoValue} \cup SupportedVersions
        /\ Reject(2, "CdpVersionUnsupported")
     \/ /\ doc.cdp_version \in SupportedVersions
        /\ Pass("gates")
        /\ UNCHANGED metadata

Starts(d) == {i \in DOMAIN d.activity : d.activity[i].event = "capsule_started"}

\* Mutant: the last capsule_started event names the region.
RegionOfLastStart(d) ==
  IF Starts(d) = {} THEN NoValue
  ELSE d.activity[CHOOSE i \in Starts(d) : \A j \in Starts(d) : j <= i].region

\* The region is that of the first capsule_started event, which is signed.
Region(d) ==
  IF Starts(d) = {} THEN NoValue
  ELSE d.activity[CHOOSE i \in Starts(d) : \A j \in Starts(d) : i <= j].region

\* Stage 2: nothing sits in a slot, or in a root, that no signature covers.
CheckUnsignedFields ==
  LET gate == GateDeclaredActivityRoot(doc.customer_declared_activity_root, doc.cdp_version)
  IN  /\ pc = "gates"
      /\ \/ /\ doc.reserved_slot
            /\ Reject(2, "UnsignedFieldPopulated")
         \/ /\ ~doc.reserved_slot
            /\ gate # "none"
            /\ Reject(2, gate)
         \/ /\ ~doc.reserved_slot
            /\ gate = "none"
            /\ metadata' = [metadata EXCEPT !.region = Region(doc)]
            /\ Pass("pins")

\* Stage 2: the reader's authority pin, then the residency pin.
CheckPins ==
  LET authority == policy.required_authority_id
      wrong_authority == authority # NoValue /\ doc.signing_authority # authority
      wrong_region    == policy.required_region \notin {NoValue, metadata.region}
  IN  /\ pc = "pins"
      /\ \/ /\ wrong_authority
            /\ Reject(2, "AuthorityIdMismatch")
         \/ /\ ~wrong_authority
            /\ wrong_region
            /\ Reject(2, "RegionMismatch")
         \/ /\ ~wrong_authority
            /\ ~wrong_region
            /\ Pass("chain")
            /\ UNCHANGED metadata

\* Stage 3: there is a chain, of eight steps; which timestamp it hashes is disclosed.
CheckChainShape ==
  /\ pc = "chain"
  /\ \/ /\ doc.chain = NoValue
        /\ Reject(3, "RequiredFieldMissing")
     \/ /\ doc.chain # NoValue
        /\ Len(doc.chain) # ChainSteps
        /\ Reject(3, "StepCountInvalid")
     \/ /\ doc.chain # NoValue
        /\ Len(doc.chain) = ChainSteps
        /\ metadata' = [metadata EXCEPT !.recovered =
                          IF doc.destroyed_at = NoValue THEN doc.key_id_time ELSE NoValue]
        /\ Pass("walk")

\* The steps whose hash does not reproduce, and those that do under a wrong label.
BrokenSteps(d) ==
  {i \in 1 .. ChainSteps :
     d.chain[i].chain_hash #
       CanonicalHash(i, ChainTimestamp(d), d.record_receipts_merkle_root,
                     d.parent_proofs_merkle_root)}
MislabelledSteps(d) == {i \in 1 .. ChainSteps : d.chain[i].subsystem # CanonicalChain[i]}

\* At one index the hash is compared before the label.
FirstFaultIsAHash(d) ==
  \E i \in BrokenSteps(d) : \A j \in MislabelledSteps(d) : i <= j

\* Stage 3: eight steps that reproduce from the canonical inputs.
WalkChain ==
  /\ pc = "walk"
  /\ \/ /\ FirstFaultIsAHash(doc)
        /\ Reject(3, "StepHashMismatch")
     \/ /\ MislabelledSteps(doc) # {}
        /\ ~FirstFaultIsAHash(doc)
        /\ Reject(3, "ChainStepIdentityMismatch")
     \/ /\ BrokenSteps(doc) \cup MislabelledSteps(doc) = {}
        /\ Pass("receipts")
        /\ UNCHANGED metadata

\* verify_record_receipts: a set without a root fails, an empty set without one passes.
ReceiptFault(d) ==
  LET receipts == d.record_receipts
      root     == d.record_receipts_merkle_root
  IN  CASE receipts = NoValue -> "none"
        [] receipts # NoValue /\ root = NoValue ->
             IF receipts = <<>> THEN "none" ELSE "RequiredFieldMissing"
        [] receipts # NoValue /\ root # NoValue ->
             IF \E i \in DOMAIN receipts :
                  receipts[i].record_chain_hash # ReceiptHash(d.capsule_id, receipts[i])
               THEN "StepHashMismatch"
               ELSE IF root = MerkleRoot(ReceiptLeaves(d)) THEN "none" ELSE "FinalHashMismatch"

CheckReceipts ==
  /\ pc = "receipts"
  /\ \/ ReceiptFault(doc) # "none" /\ Reject(3, ReceiptFault(doc))
     \/ ReceiptFault(doc) = "none" /\ Pass("parents") /\ UNCHANGED metadata

\* verify_parent_proofs: the same, over the parent chain hashes alone.
ParentFault(d) ==
  LET parents == d.parent_proof_hashes
      root    == d.parent_proofs_merkle_root
  IN  CASE parents = NoValue -> "none"
        [] parents # NoValue /\ root = NoValue ->
             IF parents = <<>> THEN "none" ELSE "RequiredFieldMissing"
        [] parents # NoValue /\ root # NoValue ->
             IF root = MerkleRoot(ParentLeaves(d)) THEN "none" ELSE "FinalHashMismatch"

\* count_unattested_parent_attribution
UnattestedParents(d) ==
  IF d.parent_proof_hashes = NoValue THEN NoValue
  ELSE LET n == Cardinality({i \in DOMAIN d.parent_proof_hashes :
                               d.parent_proof_hashes[i].attributed})
       IN  IF n = 0 THEN NoValue ELSE n

CheckParents ==
  /\ pc = "parents"
  /\ \/ /\ ParentFault(doc) # "none"
        /\ Reject(3, ParentFault(doc))
     \/ /\ ParentFault(doc) = "none"
        /\ metadata' = [metadata EXCEPT !.unattested = UnattestedParents(doc)]
        /\ Pass("streams")

CheckStreams ==
  LET fault == VerifyStreamingMerkleRoots(doc.activity)
  IN  /\ pc = "streams"
      /\ \/ fault # "none" /\ Reject(3, fault)
         \/ fault = "none" /\ Pass("record") /\ UNCHANGED metadata

\* The customer's record, when the reader has it; otherwise declared, not checked.
CheckActivityRecord ==
  LET root   == doc.customer_declared_activity_root
      record == policy.customer_activity
      fault  == IF record = NoValue THEN "none"
                ELSE VerifyCustomerDeclaredActivity(root, doc.cdp_version, record)
  IN  /\ pc = "record"
      /\ \/ /\ fault # "none"
            /\ Reject(3, fault)
         \/ /\ fault = "none"
            /\ metadata' = [metadata EXCEPT !.checked =
                              CASE record # NoValue -> TRUE
                                [] record = NoValue /\ root # NoValue -> FALSE
                                [] OTHER -> NoValue]
            /\ Pass("final_hash")

\* Stage 4: final_hash names the chain, and the algorithm is one this build checks.
CheckFinalHash ==
  LET last  == doc.chain[ChainSteps].chain_hash
      other == {doc.algorithm, doc.signature_algorithm} \ {NoValue, "Ed25519"}
  IN  /\ pc = "final_hash"
      /\ \/ /\ doc.final_hash # last
            /\ Reject(4, "FinalHashMismatch")
         \/ /\ doc.final_hash = last
            /\ other # {}
            /\ Reject(4, "AlgorithmUnsupported")
         \/ /\ doc.final_hash = last
            /\ other = {}
            /\ Pass("signature")
            /\ UNCHANGED metadata

\* Stage 7: the signature verifies under the key the document carries.
CheckSignature ==
  LET absent == doc.signature = NoValue \/ doc.public_key = NoValue
  IN  /\ pc = "signature"
      /\ \/ /\ absent
            /\ Decide(Accepted(4))
         \/ /\ ~absent
            /\ UnsupportedMode(doc)
            /\ Reject(4, "AlgorithmUnsupported")
         \/ /\ ~absent
            /\ ~UnsupportedMode(doc)
            /\ ~VerifiesUnder(doc, doc.public_key)
            /\ Reject(7, "SignatureMismatch")
         \/ /\ ~absent
            /\ ~UnsupportedMode(doc)
            /\ VerifiesUnder(doc, doc.public_key)
            /\ policy.trust_chain = NoValue
            /\ Decide(Accepted(7))
         \/ /\ ~absent
            /\ ~UnsupportedMode(doc)
            /\ VerifiesUnder(doc, doc.public_key)
            /\ policy.trust_chain # NoValue
            /\ Pass("anchor")
            /\ UNCHANGED metadata

\* The key the manifest publishes for the authority and key version the document
\* names.  An attested_key_version that is there but no string reads as "", one more
\* version no manifest lists.
ManifestKey(d, manifest) ==
  FindKey(manifest,
          IF d.authority_id = NoValue THEN DefaultAuthority ELSE d.authority_id,
          IF d.attested_key_version # NoValue THEN d.attested_key_version
                                              ELSE d.signing_key_version)

\* Stages 6 to 8, anchor_to_trust_chain: the same signature under the manifest's key.
AnchorToTrustChain ==
  LET found == ManifestKey(doc, policy.trust_chain)
  IN  /\ pc = "anchor"
      /\ \/ /\ found = NoValue
            /\ Reject(6, "SigningKeyVersionUnknown")
         \/ /\ found # NoValue
            /\ ~VerifiesUnder(doc, found.record.public_key)
            /\ Reject(7, "SignatureMismatch")
         \/ /\ found # NoValue
            /\ VerifiesUnder(doc, found.record.public_key)
            /\ found.revoked
            /\ Reject(8, "AuthorityRevoked")
         \/ /\ found # NoValue
            /\ VerifiesUnder(doc, found.record.public_key)
            /\ ~found.revoked
            /\ Decide(Accepted(8))

Ladder ==
  \/ CheckVersion \/ CheckUnsignedFields \/ CheckPins \/ CheckChainShape \/ WalkChain
  \/ CheckReceipts \/ CheckParents \/ CheckStreams \/ CheckActivityRecord \/ CheckFinalHash
  \/ CheckSignature \/ AnchorToTrustChain

\* The verdict stands; nothing further happens.
Done == pc = "done" /\ UNCHANGED vars

Next == EditField \/ SwapSignature \/ SignAnew \/ Submit \/ Ladder \/ Done

\* verify_auditproof runs to its verdict once it is called.
Spec == Init /\ [][Next]_vars /\ WF_vars(Ladder)
=============================================================================
