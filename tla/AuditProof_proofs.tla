-------------------------- MODULE AuditProof_proofs --------------------------
(***************************************************************************)
(* What stage 8 of the ladder means, proved for every set of profiles, of  *)
(* policies and of changes, and for any number of changes.                 *)
(*                                                                         *)
(* The argument: a signature in a document is an issuer's or is under a    *)
(* foreign key, whatever was changed around it; stage 8 is reached only    *)
(* with a signature that verifies under a published key; published keys    *)
(* are not foreign; so the message is one an issuer signed, and a message  *)
(* determines the fields it was computed from.                             *)
(***************************************************************************)
EXTENDS AuditProofProperties, PortedLadders, Common_proofs, TLAPS

-----------------------------------------------------------------------------
(* The inductive invariant.                                                *)

\* A signature in circulation: none, one an issuer made, or a foreign one.
Circulating(s) ==
  \/ s = NoValue
  \/ \E p \in Profiles : s = Issued[p].signature
  \/ \E k \in ForeignKeys : s.key = k

\* What the last rung established when it accepted at stage 8.
Anchored ==
  LET found == ManifestKey(doc, policy.trust_chain)
  IN  /\ policy.trust_chain # NoValue
      /\ doc.signature # NoValue
      /\ found # NoValue
      /\ VerifiesUnder(doc, found.record.public_key)
      /\ ~found.revoked

DocumentInv ==
  /\ "signature" \in DOMAIN doc
  /\ Circulating(doc.signature)

Signed == doc.signature # NoValue /\ doc.public_key # NoValue

LadderInv ==
  /\ pc # "transit" => policy \in Policies
  /\ pc # "done" => verdict = Undecided
  /\ pc = "anchor" => Signed /\ policy.trust_chain # NoValue

VerdictInv ==
  /\ verdict = Accepted(4) => ~Signed
  /\ verdict = Accepted(7) => Signed /\ policy.trust_chain = NoValue
  /\ verdict = Accepted(8) => Signed /\ Anchored
  /\ verdict.valid => verdict \in {Accepted(4), Accepted(7), Accepted(8)}

IInv == DocumentInv /\ LadderInv /\ VerdictInv

-----------------------------------------------------------------------------
(* Issued proofs.                                                          *)

\* The fields a message is computed from, of which the signature is not one.
MessageFields ==
  SignedFields \cup {"final_hash", "document_hash", "signing_key_version"}

LEMMA MessageIsOfItsFields ==
  ASSUME NEW d, NEW e, \A f \in MessageFields : d[f] = e[f]
  PROVE  SignedMessage(d) = SignedMessage(e)
<1>1. CanonicalView(d) = CanonicalView(e)
  BY DEF CanonicalView, MessageFields, SignedFields
<1> QED
  BY <1>1 DEF SignedMessage, RecomputeCanonicalHash, MessageFields, SignedFields

\* The domain of a document as issued, so far as the message is concerned.
LEMMA UnsignedFields ==
  ASSUME NEW p
  PROVE  LET d == WithDocumentHash(UnsignedProof(p))
         IN  /\ MessageFields \cup {"signature"} \subseteq DOMAIN d
             /\ d.signature = NoValue
  BY DEF WithDocumentHash, UnsignedProof, MessageFields, SignedFields

\* An issued proof is signed over the message it amounts to, or not at all.
LEMMA IssuedSignature ==
  ASSUME NEW p \in Profiles, Issued[p].signature # NoValue
  PROVE  Issued[p].signature = Sign(p.key, SignedMessage(Issued[p]))
<1> DEFINE d == WithDocumentHash(UnsignedProof(p))
<1>1. Issued[p] = IssueProof(p)
  BY DEF Issued
<1>2. MessageFields \cup {"signature"} \subseteq DOMAIN d /\ d.signature = NoValue
  BY UnsignedFields
<1>3. p.key # NoValue
  BY <1>1, <1>2 DEF IssueProof
<1>4. Issued[p] = [d EXCEPT !.signature = Sign(p.key, SignedMessage(d))]
  BY <1>1, <1>3 DEF IssueProof
<1> HIDE DEF d
<1>5. \A f \in MessageFields : Issued[p][f] = d[f]
  BY <1>2, <1>4 DEF MessageFields, SignedFields
<1>6. SignedMessage(Issued[p]) = SignedMessage(d)
  BY <1>5, MessageIsOfItsFields
<1> QED
  BY <1>2, <1>4, <1>6

LEMMA IssuedHasSignatureField ==
  ASSUME NEW p \in Profiles
  PROVE  "signature" \in DOMAIN Issued[p]
<1> DEFINE d == WithDocumentHash(UnsignedProof(p))
<1>1. "signature" \in DOMAIN d
  BY UnsignedFields
<1> HIDE DEF d
<1>2. Issued[p] = d \/ Issued[p] = [d EXCEPT !.signature = Sign(p.key, SignedMessage(d))]
  BY DEF Issued, IssueProof, d
<1> QED
  BY <1>1, <1>2

-----------------------------------------------------------------------------
(* Every step preserves the invariant.                                     *)

LEMMA InitEstablishes == Init => IInv
<1> SUFFICES ASSUME Init PROVE IInv
  OBVIOUS
<1>1. PICK p \in Profiles : doc = Issued[p]
  BY DEF Init, IssuedProofs
<1>2. DocumentInv
  BY <1>1, IssuedHasSignatureField DEF DocumentInv, Circulating
<1>3. LadderInv
  BY DEF Init, LadderInv
<1>4. VerdictInv
  BY DEF Init, VerdictInv, Undecided, Accepted
<1> QED
  BY <1>2, <1>3, <1>4 DEF IInv

\* A change leaves a circulating signature in the document.
LEMMA ChangesCirculate ==
  ASSUME DocumentInv, EditField \/ SwapSignature \/ SignAnew
  PROVE  DocumentInv'
<1>1. CASE EditField
  <2>1. PICK f \in DOMAIN Edits : \E v \in Edits[f] : doc' = [doc EXCEPT ![f] = v]
    BY <1>1 DEF EditField, Change
  <2>2. f # "signature"
    BY EditsAssumption
  <2>3. doc'.signature = doc.signature /\ "signature" \in DOMAIN doc'
    BY <2>1, <2>2 DEF DocumentInv
  <2> QED
    BY <2>3 DEF DocumentInv, Circulating
<1>2. CASE SwapSignature
  <2>1. PICK s \in {NoValue} \cup {q.signature : q \in IssuedProofs} :
          doc' = [doc EXCEPT !.signature = s]
    BY <1>2 DEF SwapSignature, Change
  <2>2. doc'.signature = s /\ "signature" \in DOMAIN doc'
    BY <2>1 DEF DocumentInv
  <2> QED
    BY <2>1, <2>2 DEF DocumentInv, Circulating, IssuedProofs
<1>3. CASE SignAnew
  <2>1. PICK k \in ForeignKeys :
          doc' = [doc EXCEPT !.signature = Sign(k, SignedMessage(doc)), !.public_key = k]
    BY <1>3 DEF SignAnew, Change
  <2>2. doc'.signature = Sign(k, SignedMessage(doc)) /\ "signature" \in DOMAIN doc'
    BY <2>1 DEF DocumentInv
  <2> QED
    BY <2>2 DEF DocumentInv, Circulating, Sign
<1> QED
  BY <1>1, <1>2, <1>3

\* A rung below the anchor that rejects, or lets the document through.
PlainRung ==
  /\ pc \notin {"transit", "done"}
  /\ UNCHANGED <<doc, policy>>
  /\ \/ pc' = "done" /\ ~verdict'.valid
     \/ pc' \notin {"transit", "done", "anchor"} /\ verdict' = verdict

LEMMA PlainRungPreserves ==
  ASSUME IInv, PlainRung
  PROVE  IInv'
<1>1. doc' = doc /\ policy' = policy /\ policy \in Policies /\ verdict = Undecided
  BY DEF PlainRung, IInv, LadderInv
<1>2. DocumentInv'
  BY <1>1 DEF IInv, DocumentInv, Circulating
<1>3. LadderInv'
  BY <1>1 DEF PlainRung, LadderInv
<1>4. VerdictInv'
  BY <1>1 DEF PlainRung, VerdictInv, Undecided, Accepted
<1> QED
  BY <1>2, <1>3, <1>4 DEF IInv

\* The rungs before the signature only reject or let through.
LEMMA EarlyRungsArePlain ==
  ASSUME \/ CheckVersion \/ CheckUnsignedFields \/ CheckPins \/ CheckChainShape \/ WalkChain
         \/ CheckReceipts \/ CheckParents \/ CheckStreams \/ CheckActivityRecord
         \/ CheckFinalHash
  PROVE  PlainRung
<1> USE DEF PlainRung, Pass, Reject, Rejected, Decide
<1>1. CASE CheckVersion
  BY <1>1 DEF CheckVersion
<1>2. CASE CheckUnsignedFields
  BY <1>2 DEF CheckUnsignedFields
<1>3. CASE CheckPins
  BY <1>3 DEF CheckPins
<1>4. CASE CheckChainShape
  BY <1>4 DEF CheckChainShape
<1>5. CASE WalkChain
  BY <1>5 DEF WalkChain
<1>6. CASE CheckReceipts
  BY <1>6 DEF CheckReceipts
<1>7. CASE CheckParents
  BY <1>7 DEF CheckParents
<1>8. CASE CheckStreams
  BY <1>8 DEF CheckStreams
<1>9. CASE CheckActivityRecord
  <2>1. pc = "record" /\ (Pass("final_hash") \/ \E fault : Reject(3, fault))
    BY <1>9, Zenon DEF CheckActivityRecord
  <2> QED
    BY <2>1
<1>10. CASE CheckFinalHash
  BY <1>10 DEF CheckFinalHash
<1> QED
  BY <1>1, <1>2, <1>3, <1>4, <1>5, <1>6, <1>7, <1>8, <1>9, <1>10

LEMMA SignatureRungPreserves ==
  ASSUME IInv, CheckSignature
  PROVE  IInv'
<1>1. pc = "signature" /\ verdict = Undecided /\ policy \in Policies
  BY DEF CheckSignature, IInv, LadderInv
<1>2. CASE PlainRung
  BY <1>2, PlainRungPreserves
<1>3. CASE Decide(Accepted(4)) /\ ~Signed
  BY <1>1, <1>3 DEF Decide, IInv, DocumentInv, Circulating, LadderInv, VerdictInv, Accepted,
                    Signed
<1>4. CASE Decide(Accepted(7)) /\ Signed /\ policy.trust_chain = NoValue
  BY <1>1, <1>4 DEF Decide, IInv, DocumentInv, Circulating, LadderInv, VerdictInv, Accepted,
                    Signed
<1>5. CASE Pass("anchor") /\ Signed /\ policy.trust_chain # NoValue
  BY <1>1, <1>5 DEF Pass, IInv, DocumentInv, Circulating, LadderInv, VerdictInv, Accepted,
                    Undecided, Signed
<1>6. \/ PlainRung
      \/ Decide(Accepted(4)) /\ ~Signed
      \/ Decide(Accepted(7)) /\ Signed /\ policy.trust_chain = NoValue
      \/ Pass("anchor") /\ Signed /\ policy.trust_chain # NoValue
  BY DEF CheckSignature, Signed, PlainRung, Reject, Rejected, Decide, Pass
<1> QED
  BY <1>2, <1>3, <1>4, <1>5, <1>6

LEMMA AnchorRungPreserves ==
  ASSUME IInv, AnchorToTrustChain
  PROVE  IInv'
<1>1. /\ pc = "anchor"
      /\ policy \in Policies
      /\ Signed /\ policy.trust_chain # NoValue
  BY DEF AnchorToTrustChain, IInv, LadderInv
<1>2. CASE PlainRung
  BY <1>2, PlainRungPreserves
<1>3. CASE Decide(Accepted(8)) /\ Signed /\ Anchored
  <2>1. doc' = doc /\ policy' = policy /\ verdict' = Accepted(8) /\ pc' = "done"
    BY <1>3 DEF Decide
  <2>2. Signed' /\ Anchored'
    BY <1>3, <2>1 DEF Signed, Anchored, ManifestKey, VerifiesUnder
  <2>3. VerdictInv'
    BY <2>1, <2>2 DEF VerdictInv, Accepted
  <2> QED
    BY <1>1, <2>1, <2>3 DEF IInv, DocumentInv, Circulating, LadderInv
<1>4. PlainRung \/ (Decide(Accepted(8)) /\ Signed /\ Anchored)
  BY <1>1 DEF AnchorToTrustChain, Signed, Anchored, PlainRung, Reject, Rejected, Decide
<1> QED
  BY <1>2, <1>3, <1>4

LEMMA NextPreserves == IInv /\ [Next]_vars => IInv'
<1> SUFFICES ASSUME IInv, [Next]_vars PROVE IInv'
  OBVIOUS
<1>1. CASE EditField \/ SwapSignature \/ SignAnew
  <2>1. pc = "transit" /\ pc' = pc /\ verdict' = verdict /\ policy' = policy
    BY <1>1 DEF EditField, SwapSignature, SignAnew, Change
  <2>2. DocumentInv'
    BY <1>1, ChangesCirculate DEF IInv
  <2> QED
    BY <2>1, <2>2 DEF IInv, LadderInv, VerdictInv, Undecided, Accepted
<1>2. CASE Submit
  BY <1>2 DEF Submit, IInv, DocumentInv, Circulating, LadderInv, VerdictInv, Undecided, Accepted
<1>3. CASE Ladder
  BY <1>3, EarlyRungsArePlain, PlainRungPreserves, SignatureRungPreserves, AnchorRungPreserves DEF Ladder
<1>4. CASE UNCHANGED vars
  <2>1. doc' = doc /\ policy' = policy /\ verdict' = verdict /\ pc' = pc
    BY <1>4 DEF vars
  <2>2. Anchored' = Anchored /\ Signed' = Signed
    BY <2>1 DEF Anchored, ManifestKey, VerifiesUnder, Signed
  <2> QED
    BY <2>1, <2>2 DEF IInv, DocumentInv, Circulating, LadderInv, VerdictInv
<1> QED
  BY <1>1, <1>2, <1>3, <1>4 DEF Next, Done

LEMMA Invariance == Spec => []IInv
  BY InitEstablishes, NextPreserves, PTL DEF Spec

-----------------------------------------------------------------------------
(* What stage 8 means.                                                     *)

\* The key the anchor resolved is published by a standing authority.
LEMMA AnchorKeyIsPublished ==
  ASSUME Anchored, policy \in Policies
  PROVE  /\ \E a \in DOMAIN policy.trust_chain :
              /\ ~policy.trust_chain[a].revoked
              /\ doc.signature.key \in PublishedKeys([b \in {a} |-> policy.trust_chain[a]])
         /\ doc.signature.key \notin ForeignKeys
         /\ doc.signature.message = SignedMessage(doc)
<1> DEFINE manifest == policy.trust_chain
           a == IF doc.authority_id = NoValue THEN DefaultAuthority ELSE doc.authority_id
           version == IF doc.attested_key_version # NoValue THEN doc.attested_key_version
                                                            ELSE doc.signing_key_version
           found == FindKey(manifest, a, version)
<1>1. /\ found # NoValue /\ ~found.revoked
      /\ doc.signature.key = found.record.public_key
      /\ doc.signature.message = SignedMessage(doc)
      /\ manifest # NoValue
  BY DEF Anchored, ManifestKey, VerifiesUnder
<1>2. /\ \A b \in DOMAIN manifest : IsList(manifest[b].active_versions)
                                      /\ IsList(manifest[b].archived_versions)
      /\ PublishedKeys(manifest) \cap ForeignKeys = {}
  BY <1>1, ManifestAssumption DEF IsList
<1> HIDE DEF a, version
<1>3. /\ a \in DOMAIN manifest
      /\ found.revoked = manifest[a].revoked
      /\ found.record.public_key \in PublishedKeys([b \in {a} |-> manifest[a]])
  BY <1>1, <1>2, FindKeyIsPublished
<1>4. found.record.public_key \in PublishedKeys(manifest)
  BY <1>3, PublishedByOne
<1> QED
  BY <1>1, <1>2, <1>3, <1>4

\* A published key's signature in a document is one an issuer made, over the
\* message of the document.
LEMMA AnchoredOrigin ==
  ASSUME IInv, Authentic
  PROVE  \E p \in Origins : SignedMessage(Issued[p]) = SignedMessage(doc)
<1>1. Anchored /\ policy \in Policies
  BY DEF IInv, VerdictInv, LadderInv, Authentic, Undecided, Accepted
<1>2. /\ doc.signature # NoValue
      /\ doc.signature.key \notin ForeignKeys
      /\ doc.signature.message = SignedMessage(doc)
  BY <1>1, AnchorKeyIsPublished DEF Anchored
<1>3. PICK p \in Profiles : doc.signature = Issued[p].signature
  BY <1>2 DEF IInv, DocumentInv, Circulating
<1>4. Issued[p].signature = Sign(p.key, SignedMessage(Issued[p]))
  BY <1>2, <1>3, IssuedSignature
<1> QED
  BY <1>2, <1>3, <1>4 DEF Origins, Sign

\* Stage 8 is reached only by a document whose signed message an issuer signed.
THEOREM AuthenticMeansIssued == Spec => []AnchoredMessageIsIssued
<1>1. IInv => AnchoredMessageIsIssued
  BY AnchoredOrigin DEF AnchoredMessageIsIssued
<1> QED
  BY <1>1, Invariance, PTL

-----------------------------------------------------------------------------
(* A message determines the fields it was computed from.                   *)

LEMMA EightSteps == ChainSteps = 8
  BY DEF ChainSteps, CanonicalChain

\* The fields of an issued proof that decide which message it is signed over.
LEMMA IssuedFields ==
  ASSUME NEW p \in Profiles
  PROVE  /\ Issued[p].cdp_version = p.version
         /\ \A i \in 1 .. ChainSteps : \E rr_root, pp_root :
              Issued[p].chain[i].chain_hash = CanonicalHash(i, p.at, rr_root, pp_root)
         /\ Issued[p].final_hash = Issued[p].chain[ChainSteps].chain_hash
         /\ p.version = "2.0" => \E view : Issued[p].document_hash = <<"document", view>>
<1> DEFINE u == UnsignedProof(p)
           d == WithDocumentHash(u)
<1>1. /\ u.cdp_version = p.version
      /\ \A i \in 1 .. ChainSteps : \E rr_root, pp_root :
           u.chain[i].chain_hash = CanonicalHash(i, p.at, rr_root, pp_root)
      /\ u.final_hash = u.chain[ChainSteps].chain_hash
      /\ {"cdp_version", "chain", "final_hash", "document_hash", "signature"} \subseteq DOMAIN u
  BY DEF UnsignedProof
<1> HIDE DEF u
<1>2. /\ d.cdp_version = u.cdp_version /\ d.chain = u.chain /\ d.final_hash = u.final_hash
      /\ u.cdp_version = "2.0" => \E view : d.document_hash = <<"document", view>>
      /\ DOMAIN d = DOMAIN u
  BY <1>1 DEF WithDocumentHash
<1> HIDE DEF d
<1>3. Issued[p] = d \/ Issued[p] = [d EXCEPT !.signature = Sign(p.key, SignedMessage(d))]
  BY DEF Issued, IssueProof, d, u
<1>4. /\ Issued[p].cdp_version = d.cdp_version /\ Issued[p].chain = d.chain
      /\ Issued[p].final_hash = d.final_hash /\ Issued[p].document_hash = d.document_hash
  BY <1>1, <1>2, <1>3
<1> QED
  BY <1>1, <1>2, <1>4

\* The last step hash of an issued proof names its timestamp.
LEMMA IssuedLastStep ==
  ASSUME NEW p \in Profiles
  PROVE  \E roots : Issued[p].chain[ChainSteps].chain_hash = StepHash(ChainSteps, p.at, roots)
  BY IssuedFields, EightSteps DEF CanonicalHash

\* An issued message that is a canonical hash is that of the issued view: a final
\* hash and a document hash are never mistaken for one.
LEMMA CanonicalMessagesAreOfIssuedViews ==
  ASSUME NEW p \in Profiles, NEW d, SignedMessage(Issued[p]) = RecomputeCanonicalHash(d)
  PROVE  CanonicalView(Issued[p]) = CanonicalView(d)
<1>1. CASE p.version = "1.0"
  <2>1. SignedMessage(Issued[p]) = Issued[p].final_hash
    BY <1>1, IssuedFields DEF SignedMessage
  <2>2. PICK roots : Issued[p].final_hash = <<"step", ChainSteps, p.at, roots>>
    BY IssuedFields, IssuedLastStep DEF StepHash
  <2> QED
    BY <2>1, <2>2 DEF RecomputeCanonicalHash
<1>2. CASE p.version = "2.0"
  <2>1. SignedMessage(Issued[p]) = Issued[p].document_hash
    BY <1>2, IssuedFields DEF SignedMessage
  <2>2. PICK view : Issued[p].document_hash = <<"document", view>>
    BY <1>2, IssuedFields
  <2> QED
    BY <2>1, <2>2 DEF RecomputeCanonicalHash
<1>3. CASE p.version \notin {"1.0", "2.0"}
  <2>1. SignedMessage(Issued[p]) = RecomputeCanonicalHash(Issued[p])
    BY <1>3, IssuedFields DEF SignedMessage
  <2> QED
    BY <2>1 DEF RecomputeCanonicalHash
<1> QED
  BY <1>1, <1>2, <1>3

\* Two documents with one view agree on every signed field.
LEMMA ViewDeterminesFields ==
  ASSUME NEW d, NEW e, CanonicalView(d) = CanonicalView(e)
  PROVE  /\ \A f \in SignedFields : d[f] = e[f]
         /\ KeyVersionNumber(d.signing_key_version) = KeyVersionNumber(e.signing_key_version)
<1>1. \A f \in SignedFields : d[f] = e[f]
  BY DEF CanonicalView, SignedFields
<1>2. CanonicalView(d).signing_key_version = CanonicalView(e).signing_key_version
  OBVIOUS
<1> QED
  BY <1>1, <1>2 DEF CanonicalView

\* What stage 8 says of a 2.1 / 2.2 document.
LEMMA AuthenticView ==
  ASSUME IInv, Authentic, doc.cdp_version \in CanonicalViewSignedVersions
  PROVE  \E p \in Origins : CanonicalView(Issued[p]) = CanonicalView(doc)
<1>1. PICK p \in Origins : SignedMessage(Issued[p]) = SignedMessage(doc)
  BY AnchoredOrigin
<1>2. SignedMessage(doc) = RecomputeCanonicalHash(doc)
  BY DEF SignedMessage, CanonicalViewSignedVersions
<1> QED
  BY <1>1, <1>2, CanonicalMessagesAreOfIssuedViews DEF Origins

\* Under stage 8 every field inside the canonical hash reads as it was issued, and
\* the key version stands for the number it was hashed as.
THEOREM AuthenticMeansUnchanged == Spec => []SignedViewIsIssued
<1>1. IInv => SignedViewIsIssued
  <2> SUFFICES ASSUME IInv, Authentic, doc.cdp_version \in CanonicalViewSignedVersions
               PROVE  \E p \in Origins :
                        LET d == Issued[p] IN
                          /\ \A f \in SignedFields : doc[f] = d[f]
                          /\ KeyVersionNumber(doc.signing_key_version)
                               = KeyVersionNumber(d.signing_key_version)
    BY DEF SignedViewIsIssued
  <2>1. PICK p \in Origins : CanonicalView(Issued[p]) = CanonicalView(doc)
    BY AuthenticView
  <2> QED
    BY <2>1, ViewDeterminesFields
<1> QED
  BY <1>1, Invariance, PTL

-----------------------------------------------------------------------------
(* The manifest decides.                                                   *)

\* Given a manifest, a signed document is accepted at stage 8 or not at all.
THEOREM ManifestIsNeverIgnored == Spec => []ManifestDecides
<1>1. IInv => ManifestDecides
  <2> SUFFICES ASSUME IInv, verdict.valid, policy.trust_chain # NoValue,
                      doc.signature # NoValue, doc.public_key # NoValue
               PROVE  /\ verdict.stage = 8
                      /\ \E a \in DOMAIN policy.trust_chain :
                           /\ ~policy.trust_chain[a].revoked
                           /\ doc.signature.key
                                \in PublishedKeys([b \in {a} |-> policy.trust_chain[a]])
    BY DEF ManifestDecides
  <2>1. verdict = Accepted(8)
    BY DEF IInv, VerdictInv, Signed
  <2>2. Anchored /\ policy \in Policies
    BY <2>1 DEF IInv, VerdictInv, LadderInv, Undecided, Accepted
  <2> QED
    BY <2>1, <2>2, AnchorKeyIsPublished DEF Accepted
<1> QED
  BY <1>1, Invariance, PTL

-----------------------------------------------------------------------------
(* The timestamp.  The chain is walked long before the signature is        *)
(* checked, so what the walk established has to last until the verdict.    *)

PastWalk == {"receipts", "parents", "streams", "record", "final_hash", "signature", "anchor"}

TimeDisclosed == doc.destroyed_at = NoValue => metadata.recovered = doc.key_id_time
ChainReproduced == BrokenSteps(doc) = {}
FinalHashBound == doc.final_hash = doc.chain[ChainSteps].chain_hash

ChainInv ==
  /\ "recovered" \in DOMAIN metadata
  /\ pc \in {"walk"} \cup PastWalk => TimeDisclosed
  /\ pc \in PastWalk => ChainReproduced
  /\ pc \in {"signature", "anchor"} => FinalHashBound
  /\ pc # "done" => ~verdict.valid
  /\ verdict.valid => TimeDisclosed /\ ChainReproduced /\ FinalHashBound

LEMMA ChainInvInit == Init => ChainInv
  BY DEF Init, ChainInv, NoMetadata, Undecided, PastWalk

LEMMA ChainInvNext == ChainInv /\ [Next]_vars => ChainInv'
<1> SUFFICES ASSUME ChainInv, [Next]_vars PROVE ChainInv'
  OBVIOUS
<1> USE DEF ChainInv, PastWalk, Pass, Reject, Rejected, Decide
<1>1. CASE EditField \/ SwapSignature \/ SignAnew \/ Submit
  BY <1>1 DEF EditField, SwapSignature, SignAnew, Submit, Change
<1>2. CASE CheckVersion \/ CheckUnsignedFields \/ CheckPins
  BY <1>2 DEF CheckVersion, CheckUnsignedFields, CheckPins
<1>3. CASE CheckChainShape
  BY <1>3 DEF CheckChainShape, TimeDisclosed
<1>4. CASE WalkChain
  BY <1>4 DEF WalkChain, TimeDisclosed, ChainReproduced
<1>5. CASE CheckReceipts \/ CheckStreams
  BY <1>5 DEF CheckReceipts, CheckStreams, TimeDisclosed, ChainReproduced
<1>6. CASE CheckParents
  BY <1>6 DEF CheckParents, TimeDisclosed, ChainReproduced
<1>7. CASE CheckActivityRecord
  <2>1. /\ pc = "record"
        /\ \/ \E fault : Reject(3, fault)
           \/ Pass("final_hash") /\ \E v : metadata' = [metadata EXCEPT !.checked = v]
    BY <1>7, Zenon DEF CheckActivityRecord
  <2> QED
    BY <2>1 DEF TimeDisclosed, ChainReproduced
<1>8. CASE CheckFinalHash
  BY <1>8 DEF CheckFinalHash, TimeDisclosed, ChainReproduced, FinalHashBound
<1>9. CASE CheckSignature
  BY <1>9 DEF CheckSignature, TimeDisclosed, ChainReproduced, FinalHashBound, Accepted
<1>10. CASE AnchorToTrustChain
  BY <1>10 DEF AnchorToTrustChain, TimeDisclosed, ChainReproduced, FinalHashBound, Accepted
<1>11. CASE UNCHANGED vars
  BY <1>11 DEF vars, TimeDisclosed, ChainReproduced, FinalHashBound
<1> QED
  BY <1>1, <1>2, <1>3, <1>4, <1>5, <1>6, <1>7, <1>8, <1>9, <1>10, <1>11
     DEF Next, Ladder, Done

LEMMA ChainInvariance == Spec => []ChainInv
  BY ChainInvInit, ChainInvNext, PTL DEF Spec

\* A chain that reproduces ends in a hash over the timestamp of its document.
LEMMA ReproducedLastStep ==
  ASSUME ChainReproduced
  PROVE  \E roots : doc.chain[ChainSteps].chain_hash
                      = StepHash(ChainSteps, ChainTimestamp(doc), roots)
  BY EightSteps DEF ChainReproduced, BrokenSteps, CanonicalHash

\* Under stage 8 the destruction time a reader is given is the one the issuer's
\* chain hashed.
THEOREM AuthenticMeansIssuersTime == Spec => []TimestampIsIssued
<1>1. IInv /\ ChainInv => TimestampIsIssued
  <2> SUFFICES ASSUME IInv, ChainInv, Authentic, doc.cdp_version \in ChainBindingVersions
               PROVE  \E p \in Origins : p.at = ChainTimestamp(doc)
    BY DEF TimestampIsIssued, ChainInv, TimeDisclosed, ChainTimestamp, Authentic, Accepted
  <2>1. ChainReproduced /\ FinalHashBound
    BY DEF ChainInv, Authentic, Accepted
  <2>2. PICK mine : doc.chain[ChainSteps].chain_hash
                      = <<"step", ChainSteps, ChainTimestamp(doc), mine>>
    BY <2>1, ReproducedLastStep DEF StepHash
  <2>3. ASSUME NEW p \in Origins,
               Issued[p].chain[ChainSteps].chain_hash = doc.chain[ChainSteps].chain_hash
        PROVE  p.at = ChainTimestamp(doc)
    <3>1. PICK theirs : Issued[p].chain[ChainSteps].chain_hash
                          = <<"step", ChainSteps, p.at, theirs>>
      BY IssuedLastStep DEF StepHash, Origins
    <3> QED
      BY <2>2, <2>3, <3>1
  <2>4. CASE doc.cdp_version = "1.0"
    <3>1. PICK p \in Origins : SignedMessage(Issued[p]) = SignedMessage(doc)
      BY AnchoredOrigin
    <3>2. SignedMessage(Issued[p]) = doc.chain[ChainSteps].chain_hash
      BY <2>1, <2>4, <3>1 DEF SignedMessage, FinalHashBound
    <3>3. SignedMessage(Issued[p]) = Issued[p].final_hash
      <4>1. p.version = "1.0"
        <5>1. CASE p.version = "2.0"
          BY <2>2, <3>2, <5>1, IssuedFields DEF SignedMessage, Origins
        <5>2. CASE p.version \notin {"1.0", "2.0"}
          BY <2>2, <3>2, <5>2, IssuedFields DEF SignedMessage, RecomputeCanonicalHash, Origins
        <5> QED
          BY <5>1, <5>2
      <4> QED
        BY <4>1, IssuedFields DEF SignedMessage, Origins
    <3> QED
      BY <2>3, <3>2, <3>3, IssuedFields DEF Origins
  <2>5. CASE doc.cdp_version \in CanonicalViewSignedVersions
    <3>1. PICK p \in Origins : CanonicalView(Issued[p]) = CanonicalView(doc)
      BY <2>5, AuthenticView
    <3>2. Issued[p].chain = doc.chain
      BY <3>1, ViewDeterminesFields DEF SignedFields
    <3> QED
      BY <2>3, <3>2
  <2> QED
    BY <2>4, <2>5 DEF ChainBindingVersions, SupportedVersions, CanonicalViewSignedVersions
<1> QED
  BY <1>1, Invariance, ChainInvariance, PTL

-----------------------------------------------------------------------------
(* What the other rungs established, long before the signature was         *)
(* checked, still holds at the verdict: the region pin, both sets against  *)
(* their roots, and the customer's record.                                 *)

PastRecord == {"final_hash", "signature", "anchor"}
PastParents == {"streams", "record"} \cup PastRecord
PastReceipts == {"parents"} \cup PastParents
PastPins == {"chain", "walk", "receipts"} \cup PastReceipts

RegionDisclosed == metadata.region = Region(doc)
RegionHonoured == policy.required_region # NoValue => metadata.region = policy.required_region
ReceiptsHold == ReceiptFault(doc) = "none"
ParentsHold == ParentFault(doc) = "none"
RecordHolds ==
  metadata.checked = TRUE =>
    /\ policy.customer_activity # NoValue
    /\ VerifyCustomerDeclaredActivity(doc.customer_declared_activity_root, doc.cdp_version,
                                      policy.customer_activity) = "none"

RungInv ==
  /\ DOMAIN metadata = {"region", "recovered", "unattested", "checked"}
  /\ pc # "done" => ~verdict.valid
  /\ pc \in {"pins"} \cup PastPins \/ verdict.valid => RegionDisclosed
  /\ pc \in PastPins \/ verdict.valid => RegionHonoured
  /\ pc \in PastReceipts \/ verdict.valid => ReceiptsHold
  /\ pc \in PastParents \/ verdict.valid => ParentsHold
  /\ pc \in PastRecord \/ verdict.valid => RecordHolds

LEMMA RungInvInit == Init => RungInv
  BY DEF Init, RungInv, NoMetadata, Undecided, PastPins, PastReceipts, PastParents, PastRecord

\* The ways a step goes: the document is still in transit, or a rung rejects,
\* accepts, or lets through, the last with what it disclosed.
StillInTransit ==
  /\ pc = "transit" /\ pc' \in {"transit", "version"}
  /\ UNCHANGED <<metadata, verdict>>
Rejects ==
  /\ pc \notin {"transit", "done"} /\ pc' = "done" /\ ~verdict'.valid
  /\ UNCHANGED <<doc, policy, metadata>>
Accepts ==
  /\ pc \in {"signature", "anchor"} /\ pc' = "done"
  /\ UNCHANGED <<doc, policy, metadata>>
LetsThrough(from, to) ==
  /\ pc = from /\ pc' = to
  /\ UNCHANGED <<doc, policy, verdict>>

Silently == UNCHANGED metadata
Discloses(field) == \E v : metadata' = [metadata EXCEPT ![field] = v]

LEMMA StepsOfTheLadder ==
  ASSUME Ladder
  PROVE  \/ Rejects
         \/ Accepts
         \/ LetsThrough("version", "gates") /\ Silently
         \/ LetsThrough("gates", "pins") /\ metadata' = [metadata EXCEPT !.region = Region(doc)]
         \/ LetsThrough("pins", "chain") /\ Silently /\ RegionHonoured
         \/ LetsThrough("chain", "walk") /\ Discloses("recovered")
         \/ LetsThrough("walk", "receipts") /\ Silently
         \/ LetsThrough("receipts", "parents") /\ Silently /\ ReceiptsHold
         \/ LetsThrough("parents", "streams") /\ Discloses("unattested") /\ ParentsHold
         \/ LetsThrough("streams", "record") /\ Silently
         \/ LetsThrough("record", "final_hash") /\ CheckActivityRecord
         \/ LetsThrough("final_hash", "signature") /\ Silently
         \/ LetsThrough("signature", "anchor") /\ Silently
<1> USE DEF Rejects, Accepts, LetsThrough, Silently, Pass, Reject, Rejected, Decide
<1>1. CASE CheckVersion
  BY <1>1 DEF CheckVersion
<1>2. CASE CheckUnsignedFields
  BY <1>2 DEF CheckUnsignedFields
<1>3. CASE CheckPins
  BY <1>3 DEF CheckPins, RegionHonoured
<1>4. CASE CheckChainShape
  BY <1>4 DEF CheckChainShape, Discloses
<1>5. CASE WalkChain
  BY <1>5 DEF WalkChain
<1>6. CASE CheckReceipts
  BY <1>6 DEF CheckReceipts, ReceiptsHold
<1>7. CASE CheckParents
  BY <1>7 DEF CheckParents, ParentsHold, Discloses
<1>8. CASE CheckStreams
  BY <1>8 DEF CheckStreams
<1>9. CASE CheckActivityRecord
  <2>1. pc = "record" /\ (Pass("final_hash") \/ \E fault : Reject(3, fault))
    BY <1>9, Zenon DEF CheckActivityRecord
  <2> QED
    BY <1>9, <2>1
<1>10. CASE CheckFinalHash
  BY <1>10 DEF CheckFinalHash
<1>11. CASE CheckSignature
  BY <1>11 DEF CheckSignature
<1>12. CASE AnchorToTrustChain
  BY <1>12 DEF AnchorToTrustChain
<1> QED
  BY <1>1, <1>2, <1>3, <1>4, <1>5, <1>6, <1>7, <1>8, <1>9, <1>10, <1>11, <1>12 DEF Ladder

LEMMA LadderLeavesDocument ==
  ASSUME Ladder
  PROVE  doc' = doc /\ policy' = policy
BY StepsOfTheLadder DEF Rejects, Accepts, LetsThrough

\* "checked" is said only of a record that the reader has and that verified.
LEMMA RecordRungHolds ==
  ASSUME RungInv, LetsThrough("record", "final_hash"), CheckActivityRecord
  PROVE  Discloses("checked") /\ RecordHolds'
<1> DEFINE root == doc.customer_declared_activity_root
           record == policy.customer_activity
           fault == IF record = NoValue THEN "none"
                    ELSE VerifyCustomerDeclaredActivity(root, doc.cdp_version, record)
           said == CASE record # NoValue -> TRUE
                     [] record = NoValue /\ root # NoValue -> FALSE
                     [] OTHER -> NoValue
<1>1. fault = "none" /\ metadata' = [metadata EXCEPT !.checked = said]
  <2>1. pc' = "final_hash"
    BY DEF LetsThrough
  <2>2. \/ pc' = "done"
        \/ fault = "none" /\ metadata' = [metadata EXCEPT !.checked = said]
    BY Zenon DEF CheckActivityRecord, Reject, Decide
  <2> QED
    BY <2>1, <2>2
<1>2. record = NoValue => said \in {FALSE, NoValue}
  OBVIOUS
<1>3. record = NoValue => said # TRUE
  BY <1>2, CheckedAssumption
<1> HIDE DEF said
<1>4. metadata'.checked = said
  BY <1>1 DEF RungInv
<1>5. doc' = doc /\ policy' = policy
  BY DEF LetsThrough
<1>6. metadata'.checked = TRUE =>
        record # NoValue /\ VerifyCustomerDeclaredActivity(root, doc.cdp_version, record) = "none"
  BY <1>1, <1>3, <1>4, Zenon
<1>7. Discloses("checked")
  BY <1>1 DEF Discloses
<1> QED
  BY <1>5, <1>6, <1>7 DEF RecordHolds

LEMMA RungInvNext == RungInv /\ [Next]_vars => RungInv'
<1> SUFFICES ASSUME RungInv, [Next]_vars PROVE RungInv'
  OBVIOUS
<1> USE DEF PastRecord, PastParents, PastReceipts, PastPins
<1>1. CASE EditField \/ SwapSignature \/ SignAnew \/ Submit
  <2>1. StillInTransit
    BY <1>1 DEF EditField, SwapSignature, SignAnew, Submit, Change, StillInTransit
  <2> QED
    BY <2>1 DEF StillInTransit, RungInv
<1>2. CASE Ladder
  <2>1. CASE Rejects
    BY <2>1 DEF Rejects, RungInv
  <2>2. CASE Accepts
    BY <2>2 DEF Accepts, RungInv, RegionDisclosed, RegionHonoured, ReceiptsHold, ParentsHold,
                RecordHolds
  <2>3. CASE LetsThrough("version", "gates") /\ Silently
    BY <2>3 DEF LetsThrough, Silently, RungInv
  <2>4. CASE LetsThrough("gates", "pins") /\ metadata' = [metadata EXCEPT !.region = Region(doc)]
    BY <2>4 DEF LetsThrough, RungInv, RegionDisclosed
  <2>5. CASE LetsThrough("pins", "chain") /\ Silently /\ RegionHonoured
    BY <2>5 DEF LetsThrough, Silently, RungInv, RegionDisclosed, RegionHonoured
  <2>6. CASE LetsThrough("chain", "walk") /\ Discloses("recovered")
    BY <2>6 DEF LetsThrough, Discloses, RungInv, RegionDisclosed, RegionHonoured
  <2>7. CASE LetsThrough("walk", "receipts") /\ Silently
    BY <2>7 DEF LetsThrough, Silently, RungInv, RegionDisclosed, RegionHonoured
  <2>8. CASE LetsThrough("receipts", "parents") /\ Silently /\ ReceiptsHold
    BY <2>8 DEF LetsThrough, Silently, RungInv, RegionDisclosed, RegionHonoured, ReceiptsHold
  <2>9. CASE LetsThrough("parents", "streams") /\ Discloses("unattested") /\ ParentsHold
    BY <2>9 DEF LetsThrough, Discloses, RungInv, RegionDisclosed, RegionHonoured, ReceiptsHold,
                ParentsHold
  <2>10. CASE LetsThrough("streams", "record") /\ Silently
    BY <2>10 DEF LetsThrough, Silently, RungInv, RegionDisclosed, RegionHonoured, ReceiptsHold,
                 ParentsHold
  <2>11. CASE LetsThrough("record", "final_hash") /\ CheckActivityRecord
    <3>1. Discloses("checked") /\ RecordHolds'
      BY <2>11, RecordRungHolds
    <3> QED
      BY <2>11, <3>1 DEF LetsThrough, Discloses, RungInv, RegionDisclosed, RegionHonoured,
                         ReceiptsHold, ParentsHold
  <2>12. CASE (LetsThrough("final_hash", "signature") \/ LetsThrough("signature", "anchor"))
              /\ Silently
    BY <2>12 DEF LetsThrough, Silently, RungInv, RegionDisclosed, RegionHonoured, ReceiptsHold,
                 ParentsHold, RecordHolds
  <2> QED
    BY <1>2, <2>1, <2>2, <2>3, <2>4, <2>5, <2>6, <2>7, <2>8, <2>9, <2>10, <2>11, <2>12,
       StepsOfTheLadder
<1>3. CASE UNCHANGED vars
  BY <1>3 DEF vars, RungInv, RegionDisclosed, RegionHonoured, ReceiptsHold, ParentsHold, RecordHolds
<1> QED
  BY <1>1, <1>2, <1>3 DEF Next, Done

LEMMA RungInvariance == Spec => []RungInv
  BY RungInvInit, RungInvNext, PTL DEF Spec

-----------------------------------------------------------------------------
(* What an issued proof says of its profile.                               *)

ReceiptLeavesOf(p) ==
  [i \in DOMAIN p.receipts |-> RecordHash(p.capsule, i - 1, p.receipts[i])]
ReceiptsRootOf(p) == IF p.receipts = NoValue THEN NoValue ELSE MerkleRoot(ReceiptLeavesOf(p))
ParentsRootOf(p) == IF p.parents = NoValue THEN NoValue ELSE MerkleRoot(p.parents)

LEMMA IssuedContent ==
  ASSUME NEW p \in Profiles
  PROVE  /\ Issued[p].activity = p.activity
         /\ Issued[p].record_receipts_merkle_root = ReceiptsRootOf(p)
         /\ Issued[p].parent_proofs_merkle_root = ParentsRootOf(p)
         /\ Issued[p].customer_declared_activity_root
              = IF p.record = NoValue THEN NoValue ELSE ComputeActivityRoot(p.record)
         /\ Issued[p].final_hash
              = StepHash(ChainSteps, p.at, Step8Roots(ReceiptsRootOf(p), ParentsRootOf(p)))
<1> DEFINE u == UnsignedProof(p)
           d == WithDocumentHash(u)
           receipts == IssuedReceipts(p)
           leaves == [i \in DOMAIN receipts |-> receipts[i].record_chain_hash]
           fields == {"activity", "record_receipts_merkle_root", "parent_proofs_merkle_root",
                      "customer_declared_activity_root", "final_hash"}
<1>1. p.receipts # NoValue => leaves = ReceiptLeavesOf(p)
  BY DEF IssuedReceipts, ReceiptLeavesOf
<1> HIDE DEF leaves
<1>2. /\ u.activity = p.activity
      /\ u.record_receipts_merkle_root
           = IF p.receipts = NoValue THEN NoValue ELSE MerkleRoot(leaves)
      /\ u.parent_proofs_merkle_root = ParentsRootOf(p)
      /\ u.customer_declared_activity_root
           = IF p.record = NoValue THEN NoValue ELSE ComputeActivityRoot(p.record)
  BY DEF UnsignedProof, ParentsRootOf, leaves
<1>3. u.record_receipts_merkle_root = ReceiptsRootOf(p)
  BY <1>1, <1>2 DEF ReceiptsRootOf
<1>4. u.final_hash = CanonicalHash(ChainSteps, p.at, u.record_receipts_merkle_root,
                                   u.parent_proofs_merkle_root)
  BY EightSteps DEF UnsignedProof
<1>5. u.final_hash = StepHash(ChainSteps, p.at, Step8Roots(ReceiptsRootOf(p), ParentsRootOf(p)))
  BY <1>2, <1>3, <1>4 DEF CanonicalHash
<1>6. fields \cup {"signature", "document_hash"} \subseteq DOMAIN u
  BY DEF UnsignedProof
<1> HIDE DEF u
<1>7. (\A f \in fields : d[f] = u[f]) /\ DOMAIN d = DOMAIN u
  BY <1>6 DEF WithDocumentHash
<1> HIDE DEF d
<1>8. Issued[p] = d \/ Issued[p] = [d EXCEPT !.signature = Sign(p.key, SignedMessage(d))]
  BY DEF Issued, IssueProof, d, u
<1>9. \A f \in fields : Issued[p][f] = u[f]
  BY <1>6, <1>7, <1>8
<1> QED
  BY <1>2, <1>3, <1>5, <1>9

-----------------------------------------------------------------------------
(* The region.                                                             *)

\* A residency pin under stage 8 was met by the region the capsule was started in
\* when its proof was issued.
THEOREM AuthenticMeansResident == Spec => []ResidencyHonoured
<1>1. IInv /\ RungInv => ResidencyHonoured
  <2> SUFFICES ASSUME IInv, RungInv, Authentic, policy.required_region # NoValue,
                      doc.cdp_version \in CanonicalViewSignedVersions
               PROVE  \E p \in Origins : \E i \in DOMAIN p.activity :
                        /\ p.activity[i].event = "capsule_started"
                        /\ p.activity[i].region = policy.required_region
                        /\ \A j \in 1 .. i - 1 : p.activity[j].event # "capsule_started"
    BY DEF ResidencyHonoured
  <2>1. Region(doc) = policy.required_region
    BY DEF RungInv, RegionDisclosed, RegionHonoured, Authentic, Accepted
  <2>2. PICK p \in Origins : CanonicalView(Issued[p]) = CanonicalView(doc)
    BY AuthenticView
  <2>3. p \in Profiles
    BY DEF Origins
  <2>4. doc.activity = p.activity
    BY <2>2, <2>3, ViewDeterminesFields, IssuedContent DEF SignedFields
  <2>5. DOMAIN p.activity = 1 .. Len(p.activity) /\ Len(p.activity) \in Nat
    BY <2>3, ProfilesAssumption
  <2> DEFINE starts == Starts(doc)
             first == CHOOSE i \in starts : \A j \in starts : i <= j
  <2>6. starts = {i \in DOMAIN p.activity : p.activity[i].event = "capsule_started"}
    BY <2>4 DEF Starts
  <2>7. starts # {} /\ Region(doc) = p.activity[first].region
    BY <2>1, <2>4 DEF Region
  <2>8. first \in starts /\ \A j \in starts : first <= j
    <3>1. starts \subseteq Nat
      BY <2>5, <2>6
    <3> HIDE DEF starts
    <3> QED
      BY <2>7, <3>1, ChosenLeast
  <2> HIDE DEF starts, first
  <2>9. first \in DOMAIN p.activity /\ p.activity[first].event = "capsule_started"
    BY <2>6, <2>8
  <2>10. ASSUME NEW j \in 1 .. first - 1
         PROVE  p.activity[j].event # "capsule_started"
    <3>1. j \in DOMAIN p.activity /\ ~(first <= j)
      BY <2>5, <2>9
    <3> QED
      BY <2>6, <2>8, <3>1
  <2> QED
    BY <2>1, <2>7, <2>9, <2>10
<1> QED
  BY <1>1, Invariance, RungInvariance, PTL

-----------------------------------------------------------------------------
(* The sets of receipts and of parents.                                    *)

\* A chain hash is neither a node of a tree nor the hash of a receipt.  The tree of
\* the parents is over their chain hashes as they are, so this is what separates its
\* leaves from its nodes, and its root from that of the receipts.
IsChainHash(h) ==
  /\ \A left, right : h # PairHash(left, right)
  /\ \A capsule_id, index, body : h # RecordHash(capsule_id, index, body)

\* Of the parents issuers batch, and of those a changed document shows.
IssuedLineage ==
  \A p \in Profiles : p.parents # NoValue =>
    \A i \in DOMAIN p.parents : IsChainHash(p.parents[i])
ShownLineage ==
  "parent_proof_hashes" \in DOMAIN Edits =>
    \A parents \in Edits["parent_proof_hashes"] \ {NoValue} :
      \A i \in DOMAIN parents : IsChainHash(parents[i].parent_chain_hash)

\* The two sets of a document are sequences, or absent.
ListsInv ==
  /\ {"record_receipts", "parent_proof_hashes"} \subseteq DOMAIN doc
  /\ doc.record_receipts # NoValue => IsList(doc.record_receipts)
  /\ doc.parent_proof_hashes # NoValue => IsList(doc.parent_proof_hashes)

LineageInv ==
  doc.parent_proof_hashes # NoValue =>
    \A i \in DOMAIN doc.parent_proof_hashes :
      IsChainHash(doc.parent_proof_hashes[i].parent_chain_hash)

\* A sequence made from another one, element by element.
LEMMA MappedList ==
  ASSUME NEW list, IsList(list), NEW new, new = [i \in DOMAIN list |-> new[i]]
  PROVE  IsList(new) /\ Len(new) = Len(list) /\ DOMAIN new = DOMAIN list
BY DEF IsList

LEMMA IssuedSets ==
  ASSUME NEW p \in Profiles
  PROVE  /\ {"record_receipts", "parent_proof_hashes"} \subseteq DOMAIN Issued[p]
         /\ Issued[p].record_receipts = IssuedReceipts(p)
         /\ Issued[p].parent_proof_hashes = IssuedParents(p)
<1> DEFINE u == UnsignedProof(p)
           d == WithDocumentHash(u)
<1>1. /\ {"record_receipts", "parent_proof_hashes", "signature", "document_hash"} \subseteq DOMAIN u
      /\ u.record_receipts = IssuedReceipts(p)
      /\ u.parent_proof_hashes = IssuedParents(p)
  BY DEF UnsignedProof
<1> HIDE DEF u
<1>2. /\ d.record_receipts = u.record_receipts /\ d.parent_proof_hashes = u.parent_proof_hashes
      /\ DOMAIN d = DOMAIN u
  BY <1>1 DEF WithDocumentHash
<1> HIDE DEF d
<1>3. Issued[p] = d \/ Issued[p] = [d EXCEPT !.signature = Sign(p.key, SignedMessage(d))]
  BY DEF Issued, IssueProof, d, u
<1> QED
  BY <1>1, <1>2, <1>3

\* What a profile lists, as the proofs here use it.
LEMMA ProfileLists ==
  ASSUME NEW p \in Profiles
  PROVE  /\ p.receipts # NoValue => IsList(p.receipts)
         /\ p.parents # NoValue => IsList(p.parents)
         /\ p.record # NoValue => IsList(p.record)
BY ProfilesAssumption DEF IsList

LEMMA ListsInvInit == Init => ListsInv /\ (IssuedLineage => LineageInv)
<1> SUFFICES ASSUME Init PROVE ListsInv /\ (IssuedLineage => LineageInv)
  OBVIOUS
<1>1. PICK p \in Profiles : doc = Issued[p]
  BY DEF Init, IssuedProofs
<1>2. doc.record_receipts # NoValue => IsList(doc.record_receipts)
  <2>1. CASE p.receipts = NoValue
    BY <1>1, <2>1, IssuedSets DEF IssuedReceipts
  <2>2. CASE p.receipts # NoValue
    <3>1. IssuedReceipts(p) = [i \in DOMAIN p.receipts |-> IssuedReceipts(p)[i]]
      BY <2>2 DEF IssuedReceipts
    <3> QED
      BY <1>1, <2>2, <3>1, IssuedSets, ProfileLists, MappedList
  <2> QED
    BY <2>1, <2>2
<1>3. p.parents # NoValue => /\ DOMAIN IssuedParents(p) = DOMAIN p.parents
                             /\ IssuedParents(p) = [i \in DOMAIN p.parents |-> IssuedParents(p)[i]]
                             /\ \A i \in DOMAIN p.parents :
                                  IssuedParents(p)[i].parent_chain_hash = p.parents[i]
  BY DEF IssuedParents
<1>4. p.parents = NoValue => doc.parent_proof_hashes = NoValue
  BY <1>1, IssuedSets DEF IssuedParents
<1>5. doc.parent_proof_hashes # NoValue => IsList(doc.parent_proof_hashes)
  BY <1>1, <1>3, <1>4, IssuedSets, ProfileLists, MappedList
<1>6. ListsInv
  BY <1>1, <1>2, <1>5, IssuedSets DEF ListsInv
<1>7. IssuedLineage => LineageInv
  BY <1>1, <1>3, <1>4, IssuedSets DEF IssuedLineage, LineageInv
<1> QED
  BY <1>6, <1>7

LEMMA ListsInvNext ==
  /\ ListsInv /\ [Next]_vars => ListsInv'
  /\ ShownLineage /\ ListsInv /\ LineageInv /\ [Next]_vars => LineageInv'
<1> SUFFICES ASSUME ListsInv, [Next]_vars
             PROVE  ListsInv' /\ (ShownLineage /\ LineageInv => LineageInv')
  OBVIOUS
<1>1. CASE EditField
  <2>1. PICK f \in DOMAIN Edits : \E v \in Edits[f] : doc' = [doc EXCEPT ![f] = v]
    BY <1>1 DEF EditField, Change
  <2>2. PICK v \in Edits[f] : doc' = [doc EXCEPT ![f] = v]
    BY <2>1
  <2>3. /\ DOMAIN doc' = DOMAIN doc
        /\ doc'.record_receipts = IF f = "record_receipts" THEN v ELSE doc.record_receipts
        /\ doc'.parent_proof_hashes
             = IF f = "parent_proof_hashes" THEN v ELSE doc.parent_proof_hashes
    BY <2>2 DEF ListsInv
  <2>4. f \in {"record_receipts", "parent_proof_hashes"} /\ v # NoValue => IsList(v)
    BY EditsAssumption DEF IsList
  <2>5. ListsInv'
    BY <2>3, <2>4 DEF ListsInv
  <2>6. ShownLineage /\ LineageInv => LineageInv'
    BY <2>3 DEF ShownLineage, LineageInv
  <2> QED
    BY <2>5, <2>6
<1>2. CASE SwapSignature \/ SignAnew
  <2>1. \/ \E s : doc' = [doc EXCEPT !.signature = s]
        \/ \E s, k : doc' = [doc EXCEPT !.signature = s, !.public_key = k]
    BY <1>2 DEF SwapSignature, SignAnew, Change
  <2>2. /\ DOMAIN doc' = DOMAIN doc
        /\ doc'.record_receipts = doc.record_receipts
        /\ doc'.parent_proof_hashes = doc.parent_proof_hashes
    BY <2>1 DEF ListsInv
  <2> QED
    BY <2>2 DEF ListsInv, LineageInv
<1>3. CASE Submit \/ Ladder \/ UNCHANGED vars
  <2>1. doc' = doc
    BY <1>3, LadderLeavesDocument DEF Submit, vars
  <2> QED
    BY <2>1 DEF ListsInv, LineageInv
<1> QED
  BY <1>1, <1>2, <1>3 DEF Next, Done

LEMMA ListsInvariance == Spec => []ListsInv
  BY ListsInvInit, ListsInvNext, PTL DEF Spec

LEMMA LineageInvariance ==
  ASSUME IssuedLineage, ShownLineage
  PROVE  Spec => []LineageInv
<1>1. Init => ListsInv /\ LineageInv
  BY ListsInvInit
<1>2. (ListsInv /\ LineageInv) /\ [Next]_vars => (ListsInv /\ LineageInv)'
  BY ListsInvNext
<1> QED
  BY <1>1, <1>2, PTL DEF Spec

\* Hashes of receipts, made into leaves: never a node of the tree.
LEMMA ReceiptLeavesFacts ==
  /\ ListsInv /\ doc.record_receipts # NoValue =>
       LET leaves == ReceiptLeaves(doc)
       IN  /\ IsList(leaves) /\ NoInnerNode(leaves)
           /\ Len(leaves) = Len(doc.record_receipts)
           /\ DOMAIN leaves = DOMAIN doc.record_receipts
  /\ \A p \in Profiles : p.receipts # NoValue =>
       LET leaves == ReceiptLeavesOf(p)
       IN  /\ IsList(leaves) /\ NoInnerNode(leaves)
           /\ Len(leaves) = Len(p.receipts)
           /\ DOMAIN leaves = DOMAIN p.receipts
<1>1. ASSUME ListsInv, doc.record_receipts # NoValue
      PROVE  LET leaves == ReceiptLeaves(doc)
             IN  /\ IsList(leaves) /\ NoInnerNode(leaves)
                 /\ Len(leaves) = Len(doc.record_receipts)
                 /\ DOMAIN leaves = DOMAIN doc.record_receipts
  <2> DEFINE leaves == ReceiptLeaves(doc)
  <2>1. leaves = [i \in DOMAIN doc.record_receipts |-> leaves[i]]
    BY DEF ReceiptLeaves
  <2>2. \A i \in DOMAIN leaves : \E c, n, b : leaves[i] = <<"record", c, n, b>>
    BY DEF ReceiptLeaves, ReceiptHash, RecordHash
  <2> HIDE DEF leaves
  <2>3. NoInnerNode(leaves)
    BY <2>2 DEF NoInnerNode, PairHash
  <2>4. IsList(leaves) /\ Len(leaves) = Len(doc.record_receipts) /\ DOMAIN leaves = DOMAIN doc.record_receipts
    BY <1>1, <2>1, MappedList DEF ListsInv
  <2> QED
    BY <2>3, <2>4 DEF leaves
<1>2. ASSUME NEW p \in Profiles, p.receipts # NoValue
      PROVE  LET leaves == ReceiptLeavesOf(p)
             IN  /\ IsList(leaves) /\ NoInnerNode(leaves)
                 /\ Len(leaves) = Len(p.receipts)
                 /\ DOMAIN leaves = DOMAIN p.receipts
  <2> DEFINE leaves == ReceiptLeavesOf(p)
  <2>1. leaves = [i \in DOMAIN p.receipts |-> leaves[i]]
    BY DEF ReceiptLeavesOf
  <2>2. \A i \in DOMAIN leaves : \E c, n, b : leaves[i] = <<"record", c, n, b>>
    BY DEF ReceiptLeavesOf, RecordHash
  <2> HIDE DEF leaves
  <2>3. NoInnerNode(leaves)
    BY <2>2 DEF NoInnerNode, PairHash
  <2>4. IsList(leaves) /\ Len(leaves) = Len(p.receipts) /\ DOMAIN leaves = DOMAIN p.receipts
    BY <1>2, <2>1, MappedList, ProfileLists
  <2> QED
    BY <2>3, <2>4 DEF leaves
<1> QED
  BY <1>1, <1>2

\* Only the empty sequence has the root of none.
LEMMA NoRoot ==
  ASSUME NEW list, IsList(list), Len(list) = 0, list = [i \in DOMAIN list |-> list[i]]
  PROVE  MerkleRoot(list) = NoValue
<1>1. list = <<>>
  BY DEF IsList
<1> QED
  BY <1>1 DEF MerkleRoot

\* The set of the receipts that a document shows, and of those a profile batches.
ReceiptsShown(d) ==
  {<<d.capsule_id, d.record_receipts[i].record_index % IndexModulus,
     d.record_receipts[i].body>> : i \in DOMAIN d.record_receipts}
ReceiptsBatched(p) ==
  {<<p.capsule, (i - 1) % IndexModulus, p.receipts[i]>> : i \in DOMAIN p.receipts}

\* Receipts shown against the root of receipts that were batched are those.
LEMMA SameReceipts ==
  ASSUME ListsInv, ReceiptsHold, doc.record_receipts # NoValue,
         doc.record_receipts_merkle_root # NoValue, NEW p \in Profiles,
         p.receipts # NoValue, MerkleRoot(ReceiptLeavesOf(p)) = doc.record_receipts_merkle_root
  PROVE  ReceiptsShown(doc) = ReceiptsBatched(p)
<1> DEFINE mine == ReceiptLeaves(doc)
           theirs == ReceiptLeavesOf(p)
<1>1. MerkleRoot(mine) = MerkleRoot(theirs) /\ MerkleRoot(mine) # NoValue
  BY DEF ReceiptsHold, ReceiptFault
<1>2. /\ mine = [i \in DOMAIN mine |-> mine[i]]
      /\ theirs = [i \in DOMAIN theirs |-> theirs[i]]
  BY DEF ReceiptLeaves, ReceiptLeavesOf
<1>3. /\ IsList(mine) /\ NoInnerNode(mine) /\ DOMAIN mine = DOMAIN doc.record_receipts
      /\ IsList(theirs) /\ NoInnerNode(theirs) /\ DOMAIN theirs = DOMAIN p.receipts
  BY ReceiptLeavesFacts
<1>4. \A i \in DOMAIN mine : mine[i] = <<"record", doc.capsule_id,
          doc.record_receipts[i].record_index % IndexModulus, doc.record_receipts[i].body>>
  BY DEF ReceiptLeaves, ReceiptHash, RecordHash
<1>5. \A i \in DOMAIN theirs :
        theirs[i] = <<"record", p.capsule, (i - 1) % IndexModulus, p.receipts[i]>>
  BY DEF ReceiptLeavesOf, RecordHash
<1> HIDE DEF mine, theirs
<1>6. Len(mine) # 0 /\ Len(theirs) # 0
  BY <1>1, <1>2, <1>3, NoRoot
<1>7. Members(mine) = Members(theirs)
  BY <1>1, <1>3, <1>6, RootBindsSet
<1>8. \A i \in DOMAIN mine : \E j \in DOMAIN theirs : mine[i] = theirs[j]
  BY <1>7 DEF Members
<1>9. \A j \in DOMAIN theirs : \E i \in DOMAIN mine : mine[i] = theirs[j]
  BY <1>7 DEF Members
<1>10. ReceiptsShown(doc) \subseteq ReceiptsBatched(p)
  BY <1>3, <1>4, <1>5, <1>8 DEF ReceiptsShown, ReceiptsBatched
<1>11. ReceiptsBatched(p) \subseteq ReceiptsShown(doc)
  BY <1>3, <1>4, <1>5, <1>9 DEF ReceiptsShown, ReceiptsBatched
<1> QED
  BY <1>10, <1>11

\* What stage 8 says of a 1.0 document: its step 8 took in the issued roots.
LEMMA AuthenticFirstEra ==
  ASSUME IInv, ChainInv, Authentic, doc.cdp_version = "1.0"
  PROVE  \E p \in Origins :
           Step8Roots(ReceiptsRootOf(p), ParentsRootOf(p))
             = Step8Roots(doc.record_receipts_merkle_root, doc.parent_proofs_merkle_root)
<1> DEFINE mine == Step8Roots(doc.record_receipts_merkle_root, doc.parent_proofs_merkle_root)
           theirs(p) == Step8Roots(ReceiptsRootOf(p), ParentsRootOf(p))
<1>1. ChainReproduced /\ FinalHashBound
  BY DEF ChainInv, Authentic, Accepted
<1>2. doc.chain[ChainSteps].chain_hash = <<"step", ChainSteps, ChainTimestamp(doc), mine>>
  BY <1>1, EightSteps DEF ChainReproduced, BrokenSteps, CanonicalHash, StepHash
<1>3. PICK p \in Origins : SignedMessage(Issued[p]) = SignedMessage(doc)
  BY AnchoredOrigin
<1>4. p \in Profiles
  BY DEF Origins
<1>5. SignedMessage(Issued[p]) = <<"step", ChainSteps, ChainTimestamp(doc), mine>>
  BY <1>1, <1>2, <1>3 DEF SignedMessage, FinalHashBound
<1> HIDE DEF mine
<1>6. p.version = "1.0"
  <2>1. CASE p.version = "2.0"
    BY <1>4, <1>5, <2>1, IssuedFields DEF SignedMessage
  <2>2. CASE p.version \notin {"1.0", "2.0"}
    BY <1>4, <1>5, <2>2, IssuedFields DEF SignedMessage, RecomputeCanonicalHash
  <2> QED
    BY <2>1, <2>2
<1>7. SignedMessage(Issued[p]) = <<"step", ChainSteps, p.at, theirs(p)>>
  BY <1>4, <1>6, IssuedFields, IssuedContent DEF SignedMessage, StepHash
<1>8. theirs(p) = mine
  <2> HIDE DEF theirs
  <2> QED
    BY <1>5, <1>7
<1> QED
  BY <1>8 DEF mine

\* Under stage 8 the receipts shown are those that the issuer batched.
LEMMA ReceiptsAreIssued ==
  ASSUME IssuedLineage, IInv, ChainInv, RungInv, ListsInv
  PROVE  ReceiptSetIsIssued
<1> SUFFICES ASSUME Authentic, doc.cdp_version \in ChainBindingVersions,
                    Shown(doc.record_receipts)
             PROVE  \E p \in Origins : ReceiptsShown(doc) = IF p.receipts = NoValue THEN {}
                                                            ELSE ReceiptsBatched(p)
  BY DEF ReceiptSetIsIssued, ReceiptsShown, ReceiptsBatched
<1> DEFINE root == doc.record_receipts_merkle_root
<1>1. ReceiptsHold /\ doc.record_receipts # NoValue
  BY DEF RungInv, Authentic, Accepted, Shown
<1>2. ASSUME NEW p \in Origins, root # NoValue, ReceiptsRootOf(p) = root
      PROVE  ReceiptsShown(doc) = IF p.receipts = NoValue THEN {} ELSE ReceiptsBatched(p)
  <2>1. p \in Profiles /\ p.receipts # NoValue /\ MerkleRoot(ReceiptLeavesOf(p)) = root
    BY <1>2 DEF Origins, ReceiptsRootOf
  <2> QED
    BY <1>1, <1>2, <2>1, SameReceipts
<1>3. CASE doc.cdp_version \in CanonicalViewSignedVersions
  <2>1. PICK p \in Origins : CanonicalView(Issued[p]) = CanonicalView(doc)
    BY <1>3, AuthenticView
  <2>2. p \in Profiles /\ ReceiptsRootOf(p) = root
    BY <2>1, ViewDeterminesFields, IssuedContent DEF SignedFields, Origins
  <2>3. CASE root # NoValue
    BY <1>2, <2>2, <2>3
  <2>4. CASE root = NoValue
    <3>1. doc.record_receipts = <<>>
      BY <1>1, <2>4 DEF ReceiptsHold, ReceiptFault
    <3>2. ReceiptsShown(doc) = {}
      BY <3>1 DEF ReceiptsShown
    <3>3. p.receipts \in {NoValue, <<>>}
      BY <2>2, <2>4, PresenceAssumption, IssuedContent
    <3>4. p.receipts # NoValue => ReceiptsBatched(p) = {}
      BY <3>3 DEF ReceiptsBatched
    <3> QED
      BY <3>2, <3>4
  <2> QED
    BY <2>3, <2>4
<1>4. CASE doc.cdp_version = "1.0"
  <2>1. root # NoValue
    BY <1>1, <1>4 DEF Shown, ReceiptsHold, ReceiptFault
  <2>2. PICK p \in Origins : Step8Roots(ReceiptsRootOf(p), ParentsRootOf(p))
                               = Step8Roots(root, doc.parent_proofs_merkle_root)
    BY <1>4, AuthenticFirstEra
  <2>3. p \in Profiles
    BY DEF Origins
  <2>4. ReceiptsRootOf(p) = root \/ (ReceiptsRootOf(p) = NoValue /\ ParentsRootOf(p) = root)
    BY <2>1, <2>2 DEF Step8Roots
  <2>5. ParentsRootOf(p) # root
    <3> SUFFICES ASSUME ParentsRootOf(p) = root PROVE FALSE
      OBVIOUS
    <3> DEFINE mine == ReceiptLeaves(doc)
    <3>1. p.parents # NoValue /\ MerkleRoot(p.parents) = MerkleRoot(mine)
      BY <1>1, <2>1 DEF ParentsRootOf, ReceiptsHold, ReceiptFault
    <3>2. IsList(p.parents) /\ p.parents = [i \in DOMAIN p.parents |-> p.parents[i]]
      BY <2>3, <3>1, ProfilesAssumption, ProfileLists
    <3>3. IsList(mine) /\ NoInnerNode(mine) /\ mine = [i \in DOMAIN mine |-> mine[i]]
      BY <1>1, ReceiptLeavesFacts DEF ReceiptLeaves
    <3>4. \A i \in DOMAIN mine : \E c, n, b : mine[i] = RecordHash(c, n, b)
      BY DEF ReceiptLeaves, ReceiptHash
    <3>5. MerkleRoot(mine) # NoValue
      BY <1>1, <2>1 DEF ReceiptsHold, ReceiptFault
    <3> HIDE DEF mine
    <3>6. Len(mine) # 0 /\ Len(p.parents) # 0
      BY <3>1, <3>2, <3>3, <3>5, NoRoot
    <3>7. NoInnerNode(p.parents)
      BY <2>3, <3>1 DEF IssuedLineage, IsChainHash, NoInnerNode
    <3>8. Members(mine) = Members(p.parents)
      BY <3>1, <3>2, <3>3, <3>6, <3>7, RootBindsSet
    <3>9. 1 \in DOMAIN mine
      BY <3>3, <3>6 DEF IsList
    <3>10. \E i \in DOMAIN p.parents : p.parents[i] = mine[1]
      BY <3>8, <3>9 DEF Members
    <3> QED
      BY <2>3, <3>1, <3>4, <3>9, <3>10 DEF IssuedLineage, IsChainHash
  <2> QED
    BY <1>2, <2>1, <2>4, <2>5
<1> QED
  BY <1>3, <1>4 DEF ChainBindingVersions, SupportedVersions, CanonicalViewSignedVersions

\* The set of the parents that a document shows.
ParentsShown(d) ==
  {d.parent_proof_hashes[i].parent_chain_hash : i \in DOMAIN d.parent_proof_hashes}

\* Chain hashes are leaves that are never taken for a node.
LEMMA ParentLeavesFacts ==
  ASSUME ListsInv, LineageInv, doc.parent_proof_hashes # NoValue
  PROVE  /\ IsList(ParentLeaves(doc)) /\ NoInnerNode(ParentLeaves(doc))
         /\ ParentLeaves(doc) = [i \in DOMAIN ParentLeaves(doc) |-> ParentLeaves(doc)[i]]
         /\ Members(ParentLeaves(doc)) = ParentsShown(doc)
         /\ \A i \in DOMAIN ParentLeaves(doc) : IsChainHash(ParentLeaves(doc)[i])
<1> DEFINE leaves == ParentLeaves(doc)
           parents == doc.parent_proof_hashes
<1>1. /\ leaves = [i \in DOMAIN parents |-> leaves[i]]
      /\ DOMAIN leaves = DOMAIN parents
      /\ \A i \in DOMAIN parents : leaves[i] = parents[i].parent_chain_hash
  BY DEF ParentLeaves
<1> HIDE DEF leaves
<1>2. IsList(leaves)
  BY <1>1, MappedList DEF ListsInv
<1>3. \A i \in DOMAIN leaves : IsChainHash(leaves[i])
  BY <1>1 DEF LineageInv
<1>4. NoInnerNode(leaves)
  BY <1>3 DEF IsChainHash, NoInnerNode
<1>5. Members(leaves) = ParentsShown(doc)
  BY <1>1 DEF Members, ParentsShown
<1> QED
  BY <1>1, <1>2, <1>3, <1>4, <1>5 DEF leaves

\* Under stage 8 the parents shown are those that the issuer batched.
LEMMA ParentsAreIssued ==
  ASSUME IssuedLineage, IInv, ChainInv, RungInv, ListsInv, LineageInv
  PROVE  ParentSetIsIssued
<1> SUFFICES ASSUME Authentic, doc.cdp_version \in ChainBindingVersions,
                    Shown(doc.parent_proof_hashes)
             PROVE  \E p \in Origins : ParentsShown(doc) = IF p.parents = NoValue THEN {}
                                                           ELSE Members(p.parents)
  BY DEF ParentSetIsIssued, ParentsShown, Members
<1> DEFINE root == doc.parent_proofs_merkle_root
           mine == ParentLeaves(doc)
<1>1. ParentsHold /\ doc.parent_proof_hashes # NoValue
  BY DEF RungInv, Authentic, Accepted, Shown
<1>2. root # NoValue => root = MerkleRoot(mine)
  BY <1>1 DEF ParentsHold, ParentFault
<1>3. /\ IsList(mine) /\ NoInnerNode(mine) /\ mine = [i \in DOMAIN mine |-> mine[i]]
      /\ Members(mine) = ParentsShown(doc)
      /\ \A i \in DOMAIN mine : IsChainHash(mine[i])
  BY <1>1, ParentLeavesFacts
<1> HIDE DEF mine
<1>4. root # NoValue => Len(mine) # 0
  BY <1>2, <1>3, NoRoot
<1>5. ASSUME NEW p \in Origins, root # NoValue, ParentsRootOf(p) = root
      PROVE  ParentsShown(doc) = IF p.parents = NoValue THEN {} ELSE Members(p.parents)
  <2>1. p \in Profiles /\ p.parents # NoValue /\ MerkleRoot(p.parents) = root
    BY <1>5 DEF Origins, ParentsRootOf
  <2>2. IsList(p.parents) /\ p.parents = [i \in DOMAIN p.parents |-> p.parents[i]]
    BY <2>1, ProfilesAssumption, ProfileLists
  <2>3. NoInnerNode(p.parents)
    BY <2>1 DEF IssuedLineage, IsChainHash, NoInnerNode
  <2>4. Len(p.parents) # 0
    BY <1>5, <2>1, <2>2, NoRoot
  <2>5. Members(mine) = Members(p.parents)
    BY <1>2, <1>3, <1>4, <1>5, <2>1, <2>2, <2>3, <2>4, RootBindsSet
  <2> QED
    BY <1>3, <2>1, <2>5
<1>6. CASE doc.cdp_version \in CanonicalViewSignedVersions
  <2>1. PICK p \in Origins : CanonicalView(Issued[p]) = CanonicalView(doc)
    BY <1>6, AuthenticView
  <2>2. p \in Profiles /\ ParentsRootOf(p) = root
    BY <2>1, ViewDeterminesFields, IssuedContent DEF SignedFields, Origins
  <2>3. CASE root # NoValue
    BY <1>5, <2>2, <2>3
  <2>4. CASE root = NoValue
    <3>1. doc.parent_proof_hashes = <<>>
      BY <1>1, <2>4 DEF ParentsHold, ParentFault
    <3>2. ParentsShown(doc) = {}
      BY <3>1 DEF ParentsShown
    <3>3. p.parents \in {NoValue, <<>>}
      BY <2>2, <2>4, PresenceAssumption, IssuedContent
    <3>4. p.parents # NoValue => Members(p.parents) = {}
      BY <3>3 DEF Members
    <3> QED
      BY <3>2, <3>4
  <2> QED
    BY <2>3, <2>4
<1>7. CASE doc.cdp_version = "1.0"
  <2>1. root # NoValue
    BY <1>1, <1>7 DEF Shown, ParentsHold, ParentFault
  <2>2. PICK p \in Origins : Step8Roots(ReceiptsRootOf(p), ParentsRootOf(p))
                               = Step8Roots(doc.record_receipts_merkle_root, root)
    BY <1>7, AuthenticFirstEra
  <2>3. p \in Profiles
    BY DEF Origins
  <2>4. ParentsRootOf(p) = root \/ (ParentsRootOf(p) = NoValue /\ ReceiptsRootOf(p) = root)
    BY <2>1, <2>2 DEF Step8Roots
  <2>5. ReceiptsRootOf(p) # root
    <3> SUFFICES ASSUME ReceiptsRootOf(p) = root PROVE FALSE
      OBVIOUS
    <3> DEFINE theirs == ReceiptLeavesOf(p)
    <3>1. p.receipts # NoValue /\ MerkleRoot(theirs) = MerkleRoot(mine) /\ MerkleRoot(theirs) # NoValue
      BY <1>2, <2>1 DEF ReceiptsRootOf
    <3>2. /\ IsList(theirs) /\ NoInnerNode(theirs)
          /\ theirs = [i \in DOMAIN theirs |-> theirs[i]]
      BY <2>3, <3>1, ReceiptLeavesFacts DEF ReceiptLeavesOf
    <3>3. \A i \in DOMAIN theirs : \E c, n, b : theirs[i] = RecordHash(c, n, b)
      BY DEF ReceiptLeavesOf
    <3> HIDE DEF theirs
    <3>4. Len(theirs) # 0
      BY <3>1, <3>2, NoRoot
    <3>5. Members(theirs) = Members(mine)
      BY <1>3, <1>4, <2>1, <3>1, <3>2, <3>4, RootBindsSet
    <3>6. 1 \in DOMAIN theirs
      BY <3>2, <3>4 DEF IsList
    <3>7. \E i \in DOMAIN mine : mine[i] = theirs[1]
      BY <3>5, <3>6 DEF Members
    <3> QED
      BY <1>3, <3>3, <3>6, <3>7 DEF IsChainHash
  <2> QED
    BY <1>5, <2>1, <2>4, <2>5
<1> QED
  BY <1>6, <1>7 DEF ChainBindingVersions, SupportedVersions, CanonicalViewSignedVersions

\* Under stage 8 neither set shown is another than the one issued, wherever parents
\* are named by their chain hashes.
THEOREM AuthenticMeansIssuedSets ==
  ASSUME IssuedLineage, ShownLineage
  PROVE  Spec => []SetsAreIssued
<1>1. IInv /\ ChainInv /\ RungInv /\ ListsInv /\ LineageInv => SetsAreIssued
  BY ReceiptsAreIssued, ParentsAreIssued DEF SetsAreIssued
<1> QED
  BY <1>1, Invariance, ChainInvariance, RungInvariance, ListsInvariance, LineageInvariance, PTL

-----------------------------------------------------------------------------
(* The customer's record.                                                  *)

\* The lines of a record: what its last, empty segment is taken off.
LEMMA LinesOfRecord ==
  ASSUME NEW record, Len(record) \in Nat, record = [i \in 1 .. Len(record) |-> record[i]],
         record # <<>>
  PROVE  LET lines == SplitActivityLines(record)
         IN  IsList(lines) /\ lines = [i \in 1 .. Len(lines) |-> lines[i]]
<1> DEFINE n == Len(record)
           short == SubSeq(record, 1, n - 1)
<1>1. n \in Nat /\ n # 0
  OBVIOUS
<1>2. short = [i \in 1 .. n - 1 |-> record[i]]
  BY <1>1
<1>3. IsList(short) /\ short = [i \in 1 .. Len(short) |-> short[i]]
  <2> HIDE DEF n, short
  <2>1. n - 1 \in Nat /\ Len(short) = n - 1
    BY <1>1, <1>2
  <2> QED
    BY <1>2, <2>1 DEF IsList
<1>4. SplitActivityLines(record) \in {short, record}
  BY DEF SplitActivityLines
<1>5. IsList(record)
  BY DEF IsList
<1> QED
  BY <1>3, <1>4, <1>5

\* Equal roots are of equal lines, in order and number.
LEMMA ActivityRootBinds ==
  ASSUME NEW mine, Len(mine) \in Nat, mine = [i \in 1 .. Len(mine) |-> mine[i]], mine # <<>>,
         NEW theirs, Len(theirs) \in Nat, theirs = [i \in 1 .. Len(theirs) |-> theirs[i]],
         theirs # <<>>,
         ComputeActivityRoot(mine) = ComputeActivityRoot(theirs)
  PROVE  SplitActivityLines(mine) = SplitActivityLines(theirs)
<1> DEFINE a == SplitActivityLines(mine)
           b == SplitActivityLines(theirs)
           la == LeafHashes(mine)
           lb == LeafHashes(theirs)
<1>1. /\ IsList(a) /\ a = [i \in 1 .. Len(a) |-> a[i]]
      /\ IsList(b) /\ b = [i \in 1 .. Len(b) |-> b[i]]
  BY LinesOfRecord
<1>2. /\ la = [i \in DOMAIN a |-> la[i]] /\ \A i \in DOMAIN a : la[i] = <<"line", a[i]>>
      /\ lb = [i \in DOMAIN b |-> lb[i]] /\ \A i \in DOMAIN b : lb[i] = <<"line", b[i]>>
  BY DEF LeafHashes
<1>3. /\ Len(la) = Len(lb)
      /\ (IF la = <<>> THEN GenesisHash ELSE MerkleRoot(la))
           = (IF lb = <<>> THEN GenesisHash ELSE MerkleRoot(lb))
  BY DEF ComputeActivityRoot
<1> HIDE DEF a, b, la, lb
<1>4. /\ IsList(la) /\ Len(la) = Len(a) /\ DOMAIN la = DOMAIN a
      /\ IsList(lb) /\ Len(lb) = Len(b) /\ DOMAIN lb = DOMAIN b
  BY <1>1, <1>2, MappedList
<1>5. NoInnerNode(la) /\ NoInnerNode(lb)
  BY <1>2, <1>4 DEF NoInnerNode, PairHash
<1>6. \A i \in DOMAIN la : la[i] = lb[i]
  <2>1. CASE Len(la) = 0
    BY <1>4, <2>1 DEF IsList
  <2>2. CASE Len(la) # 0
    <3>1. la # <<>> /\ lb # <<>>
      BY <1>3, <2>2, EmptyIsList
    <3>2. MerkleRoot(la) = MerkleRoot(lb)
      BY <1>3, <3>1
    <3> QED
      <4>1. IsList(la) /\ Len(la) # 0 /\ NoInnerNode(la)
        BY <1>4, <1>5, <2>2
      <4>2. IsList(lb) /\ NoInnerNode(lb) /\ Len(la) = Len(lb)
        BY <1>3, <1>4, <1>5
      <4> QED
        BY <3>2, <4>1, <4>2, RootBindsSequence
  <2> QED
    BY <2>1, <2>2
<1>7. Len(a) = Len(b) /\ DOMAIN a = DOMAIN b
  BY <1>1, <1>3, <1>4 DEF IsList
<1>8. \A i \in 1 .. Len(a) : a[i] = b[i]
  BY <1>1, <1>2, <1>4, <1>6, <1>7 DEF IsList
<1> QED
  BY <1>1, <1>7, <1>8 DEF a, b

\* Under stage 8 a record said to be checked is the one the issuer committed to.
THEOREM AuthenticMeansIssuersRecord == Spec => []CheckedRecordIsIssuers
<1>1. IInv /\ RungInv => CheckedRecordIsIssuers
  <2> SUFFICES ASSUME IInv, RungInv, Authentic, metadata.checked = TRUE
               PROVE  \E p \in Origins :
                        p.record # NoValue
                          /\ SplitActivityLines(p.record)
                               = SplitActivityLines(policy.customer_activity)
    BY DEF CheckedRecordIsIssuers
  <2> DEFINE record == policy.customer_activity
             root == doc.customer_declared_activity_root
  <2>1. record # NoValue
          /\ VerifyCustomerDeclaredActivity(root, doc.cdp_version, record) = "none"
    BY DEF RungInv, RecordHolds, Authentic, Accepted
  <2>2. /\ root # NoValue /\ root = ComputeActivityRoot(record)
        /\ doc.cdp_version \in CanonicalViewSignedVersions
    BY <2>1 DEF VerifyCustomerDeclaredActivity, GateDeclaredActivityRoot
  <2>3. PICK p \in Origins : CanonicalView(Issued[p]) = CanonicalView(doc)
    BY <2>2, AuthenticView
  <2>4. p \in Profiles /\ root = IF p.record = NoValue THEN NoValue ELSE ComputeActivityRoot(p.record)
    BY <2>3, ViewDeterminesFields, IssuedContent DEF SignedFields, Origins
  <2>5. p.record # NoValue /\ ComputeActivityRoot(p.record) = ComputeActivityRoot(record)
    BY <2>2, <2>4
  <2>6. policy \in Policies
    BY DEF IInv, LadderInv, VerdictInv, Authentic, Accepted, Undecided
  <2>7. /\ Len(record) \in Nat /\ record = [i \in 1 .. Len(record) |-> record[i]]
        /\ record # <<>>
    BY <2>1, <2>6, PoliciesAssumption
  <2>8. /\ Len(p.record) \in Nat /\ p.record = [i \in 1 .. Len(p.record) |-> p.record[i]]
        /\ p.record # <<>>
    BY <2>4, <2>5, ProfilesAssumption
  <2>9. SplitActivityLines(p.record) = SplitActivityLines(record)
    BY <2>5, <2>7, <2>8, ActivityRootBinds
  <2> QED
    BY <2>5, <2>9
<1> QED
  BY <1>1, Invariance, RungInvariance, PTL

-----------------------------------------------------------------------------
(* A genuine proof is never refused a reader whose questions it answers.   *)
(* No rung looks at anything but the document and the policy, so what each *)
(* finds in an issued proof is enough.                                     *)

\* The fields of an issued proof are those it was built with.
LEMMA IssuedAsBuilt ==
  ASSUME NEW p \in Profiles
  PROVE  \A f \in DOMAIN UnsignedProof(p) \ {"document_hash", "signature"} :
           Issued[p][f] = UnsignedProof(p)[f]
<1> DEFINE u == UnsignedProof(p)
           d == WithDocumentHash(u)
           fields == DOMAIN u \ {"document_hash", "signature"}
<1>1. d = u \/ d = [u EXCEPT !.document_hash = <<"document", CanonicalView(u)>>]
  BY DEF WithDocumentHash
<1> HIDE DEF u
<1>2. \A f \in fields : d[f] = u[f] /\ f \in DOMAIN d
  BY <1>1
<1> HIDE DEF d
<1>3. Issued[p] = d \/ Issued[p] = [d EXCEPT !.signature = Sign(p.key, SignedMessage(d))]
  BY DEF Issued, IssueProof, d, u
<1>4. \A f \in fields : Issued[p][f] = u[f]
  BY <1>2, <1>3
<1> QED
  BY <1>4 DEF u

LEMMA IssuedPlainFields ==
  ASSUME NEW p \in Profiles
  PROVE  LET d == Issued[p] IN
           /\ d.cdp_version = p.version /\ ~d.reserved_slot /\ d.capsule_id = p.capsule
           /\ d.signing_authority = p.customer_authority /\ d.authority_id = p.authority
           /\ d.signing_key_version = p.key_version /\ d.signing_mode = p.mode
           /\ d.signature_algorithm = "Ed25519" /\ d.algorithm \in {NoValue, "Ed25519"}
           /\ d.attested_key_version = NoValue /\ d.public_key = p.key
           /\ d.destroyed_at \in {NoValue, p.at} /\ d.key_id_time = p.at
<1> DEFINE u == UnsignedProof(p)
           fields == {"cdp_version", "reserved_slot", "capsule_id", "signing_authority",
                      "authority_id", "signing_key_version", "signing_mode",
                      "signature_algorithm", "algorithm", "attested_key_version", "public_key",
                      "destroyed_at", "key_id_time"}
<1>1. fields \subseteq DOMAIN u \ {"document_hash", "signature"}
  BY DEF UnsignedProof
<1>2. /\ u.cdp_version = p.version /\ ~u.reserved_slot /\ u.capsule_id = p.capsule
      /\ u.signing_authority = p.customer_authority /\ u.authority_id = p.authority
      /\ u.signing_key_version = p.key_version /\ u.signing_mode = p.mode
      /\ u.signature_algorithm = "Ed25519" /\ u.algorithm \in {NoValue, "Ed25519"}
      /\ u.attested_key_version = NoValue /\ u.public_key = p.key
      /\ u.destroyed_at \in {NoValue, p.at} /\ u.key_id_time = p.at
  BY DEF UnsignedProof
<1>3. \A f \in fields : Issued[p][f] = u[f]
  BY <1>1, IssuedAsBuilt
<1> HIDE DEF u
<1> QED
  BY <1>2, <1>3

\* The chain of an issued proof reproduces, label by label and hash by hash.
LEMMA IssuedChain ==
  ASSUME NEW p \in Profiles
  PROVE  LET d == Issued[p] IN
           /\ d.chain # NoValue /\ Len(d.chain) = ChainSteps
           /\ BrokenSteps(d) = {} /\ MislabelledSteps(d) = {}
           /\ d.final_hash = d.chain[ChainSteps].chain_hash
<1> DEFINE d == Issued[p]
           u == UnsignedProof(p)
<1>1. /\ Len(u.chain) = ChainSteps
      /\ \A i \in 1 .. ChainSteps :
           /\ u.chain[i].subsystem = CanonicalChain[i]
           /\ u.chain[i].chain_hash
                = CanonicalHash(i, p.at, u.record_receipts_merkle_root, u.parent_proofs_merkle_root)
      /\ {"chain", "record_receipts_merkle_root", "parent_proofs_merkle_root"}
           \subseteq DOMAIN u \ {"document_hash", "signature"}
  BY EightSteps DEF UnsignedProof
<1> HIDE DEF u
<1>2. /\ d.chain = u.chain /\ d.record_receipts_merkle_root = u.record_receipts_merkle_root
      /\ d.parent_proofs_merkle_root = u.parent_proofs_merkle_root
  BY <1>1, IssuedAsBuilt DEF u
<1>3. ChainTimestamp(d) = p.at
  BY IssuedPlainFields DEF ChainTimestamp
<1>4. d.chain # NoValue
  BY PresenceAssumption
<1>5. d.final_hash = d.chain[ChainSteps].chain_hash
  BY IssuedFields
<1> HIDE DEF d
<1>6. BrokenSteps(d) = {} /\ MislabelledSteps(d) = {}
  BY <1>1, <1>2, <1>3 DEF BrokenSteps, MislabelledSteps
<1> QED
  BY <1>1, <1>2, <1>4, <1>5, <1>6 DEF d

\* Its sets are over the roots it carries.
LEMMA IssuedSetsHold ==
  ASSUME NEW p \in Profiles
  PROVE  ReceiptFault(Issued[p]) = "none" /\ ParentFault(Issued[p]) = "none"
<1> DEFINE d == Issued[p]
           receipts == d.record_receipts
           parents == d.parent_proof_hashes
<1>1. /\ receipts = IssuedReceipts(p) /\ parents = IssuedParents(p)
      /\ d.record_receipts_merkle_root = ReceiptsRootOf(p)
      /\ d.parent_proofs_merkle_root = ParentsRootOf(p)
      /\ d.capsule_id = p.capsule
  BY IssuedSets, IssuedContent, IssuedPlainFields
<1>2. ReceiptFault(d) = "none"
  <2>1. CASE p.receipts = NoValue
    BY <1>1, <2>1 DEF IssuedReceipts, ReceiptFault
  <2>2. CASE p.receipts # NoValue
    <3>1. /\ DOMAIN receipts = DOMAIN p.receipts
          /\ \A i \in DOMAIN receipts :
               /\ receipts[i].record_chain_hash = RecordHash(p.capsule, i - 1, p.receipts[i])
               /\ receipts[i].record_index = i - 1 /\ receipts[i].body = p.receipts[i]
      BY <1>1, <2>2 DEF IssuedReceipts
    <3>2. ReceiptLeaves(d) = ReceiptLeavesOf(p)
      BY <1>1, <3>1 DEF ReceiptLeaves, ReceiptLeavesOf, ReceiptHash
    <3>3. \A i \in DOMAIN receipts :
            receipts[i].record_chain_hash = ReceiptHash(d.capsule_id, receipts[i])
      BY <1>1, <3>1 DEF ReceiptHash
    <3>4. d.record_receipts_merkle_root = MerkleRoot(ReceiptLeaves(d))
      BY <1>1, <2>2, <3>2 DEF ReceiptsRootOf
    <3>5. d.record_receipts_merkle_root = NoValue => receipts = <<>>
      <4>1. d.record_receipts_merkle_root = NoValue => p.receipts = <<>>
        BY <2>2, PresenceAssumption
      <4>2. p.receipts = <<>> => receipts = <<>>
        BY <1>1, <2>2 DEF IssuedReceipts
      <4> QED
        BY <4>1, <4>2
    <3> HIDE DEF d, receipts
    <3> QED
      BY <3>3, <3>4, <3>5 DEF ReceiptFault, receipts
  <2> QED
    BY <2>1, <2>2
<1>3. ParentFault(d) = "none"
  <2>1. CASE p.parents = NoValue
    BY <1>1, <2>1 DEF IssuedParents, ParentFault
  <2>2. CASE p.parents # NoValue
    <3>1. /\ DOMAIN parents = DOMAIN p.parents
          /\ \A i \in DOMAIN parents : parents[i].parent_chain_hash = p.parents[i]
      BY <1>1, <2>2 DEF IssuedParents
    <3>2. p.parents = [i \in DOMAIN p.parents |-> p.parents[i]]
      BY <2>2, ProfilesAssumption
    <3>3. ParentLeaves(d) = p.parents
      BY <3>1, <3>2 DEF ParentLeaves
    <3>4. d.parent_proofs_merkle_root = MerkleRoot(ParentLeaves(d))
      BY <1>1, <2>2, <3>3 DEF ParentsRootOf
    <3>5. d.parent_proofs_merkle_root = NoValue => parents = <<>>
      <4>1. d.parent_proofs_merkle_root = NoValue => p.parents = <<>>
        BY <2>2, PresenceAssumption
      <4>2. p.parents = <<>> => parents = <<>>
        BY <1>1, <2>2 DEF IssuedParents
      <4> QED
        BY <4>1, <4>2
    <3> HIDE DEF d, parents
    <3> QED
      BY <3>4, <3>5 DEF ParentFault, parents
  <2> QED
    BY <2>1, <2>2
<1> QED
  BY <1>2, <1>3

\* A customer's record with the same lines has the same root.
LEMMA SameLinesSameRoot ==
  ASSUME NEW a, NEW b, SplitActivityLines(a) = SplitActivityLines(b)
  PROVE  ComputeActivityRoot(a) = ComputeActivityRoot(b)
BY DEF ComputeActivityRoot, LeafHashes

\* The manifest resolves to the key of a proof whose key version it publishes.
LEMMA PublishedResolves ==
  ASSUME NEW p \in Profiles, policy \in Policies, policy.trust_chain # NoValue,
         Published(p, policy.trust_chain)
  PROVE  LET found == ManifestKey(Issued[p], policy.trust_chain)
         IN  found # NoValue /\ found.record.public_key = p.key /\ ~found.revoked
<1> DEFINE manifest == policy.trust_chain
           a == IF p.authority = NoValue THEN DefaultAuthority ELSE p.authority
           version == p.key_version
           active == manifest[a].active_versions
           archived == manifest[a].archived_versions
           found == FindKey(manifest, a, version)
<1>1. ManifestKey(Issued[p], manifest) = found
  BY IssuedPlainFields DEF ManifestKey
<1>2. /\ a \in DOMAIN manifest /\ ~manifest[a].revoked
      /\ \E list \in {active, archived} : \E i \in DOMAIN list :
           list[i] = KeyVersionRecord(version, p.key)
  BY DEF Published
<1> HIDE DEF a
<1>3. IsList(active) /\ IsList(archived)
  BY <1>2, ManifestAssumption DEF IsList
<1>4. \A one, other \in {active, archived} : \A i \in DOMAIN one, j \in DOMAIN other :
        /\ one[i].signing_key_version = other[j].signing_key_version => one[i] = other[j]
        /\ one[i] # NoValue
        /\ Lookup(one[i], manifest[a], "Active") # NoValue
        /\ Lookup(one[i], manifest[a], "Archived") # NoValue
  BY <1>2, VersionsAssumption
<1>5. PICK list \in {active, archived} : \E i \in DOMAIN list :
        list[i] = KeyVersionRecord(version, p.key)
  BY <1>2
<1>6. PICK i \in DOMAIN list : list[i] = KeyVersionRecord(version, p.key)
  BY <1>5
<1>7. list[i].signing_key_version = version /\ list[i].public_key = p.key
  BY <1>6 DEF KeyVersionRecord
<1> HIDE DEF manifest, version, active, archived
<1>8. \A one \in {active, archived} : \A j \in DOMAIN one :
        one[j].signing_key_version = version => one[j].public_key = p.key
  BY <1>4, <1>7
<1>9. FirstOf(active, version) # NoValue \/ FirstOf(archived, version) # NoValue
  BY <1>3, <1>4, <1>7, FirstOfFinds
<1>10. ASSUME NEW one \in {active, archived}, FirstOf(one, version) # NoValue,
              NEW status \in {"Active", "Archived"}
       PROVE  LET it == Lookup(FirstOf(one, version), manifest[a], status)
              IN  it # NoValue /\ it.record.public_key = p.key /\ ~it.revoked
  <2>1. PICK j \in DOMAIN one :
          FirstOf(one, version) = one[j] /\ one[j].signing_key_version = version
    BY <1>3, <1>10, FirstOfIsAnEntry
  <2>2. Lookup(one[j], manifest[a], status) # NoValue
    BY <1>4
  <2> QED
    BY <1>2, <1>8, <2>1, <2>2 DEF Lookup, manifest
<1>11. found \in {Lookup(FirstOf(one, version), manifest[a], status) :
                    one \in {l \in {active, archived} : FirstOf(l, version) # NoValue},
                    status \in {"Active", "Archived"}}
  BY <1>2, <1>9 DEF FindKey, active, archived, manifest
<1> QED
  BY <1>1, <1>10, <1>11 DEF manifest

\* The rungs before the signature let an issued proof through to a reader whose
\* questions it answers.
LEMMA EarlyRungsLetGenuineThrough ==
  ASSUME NEW p \in Profiles, doc = Issued[p], Satisfies(p, policy), RungInv,
         \/ CheckVersion \/ CheckUnsignedFields \/ CheckPins \/ CheckChainShape \/ WalkChain
         \/ CheckReceipts \/ CheckParents \/ CheckStreams \/ CheckActivityRecord
         \/ CheckFinalHash
  PROVE  pc' # "done"
<1> DEFINE root == doc.customer_declared_activity_root
           record == policy.customer_activity
<1>1. /\ doc.cdp_version = p.version /\ ~doc.reserved_slot
      /\ doc.signing_authority = p.customer_authority
      /\ doc.signature_algorithm = "Ed25519" /\ doc.algorithm \in {NoValue, "Ed25519"}
  BY IssuedPlainFields
<1>2. doc.activity = p.activity
        /\ root = IF p.record = NoValue THEN NoValue ELSE ComputeActivityRoot(p.record)
  BY IssuedContent
<1>3. GateDeclaredActivityRoot(root, doc.cdp_version) = "none"
  BY <1>1, <1>2, IssuerAssumption, PresenceAssumption DEF GateDeclaredActivityRoot
<1> USE DEF Pass
<1>4. CASE CheckVersion
  <2>1. doc.cdp_version \in SupportedVersions /\ doc.cdp_version # NoValue
    BY <1>1, IssuerAssumption
  <2>2. Pass("gates")
    BY <1>4, <2>1, Zenon DEF CheckVersion
  <2> QED
    BY <2>2
<1>5. CASE CheckUnsignedFields
  BY <1>1, <1>3, <1>5 DEF CheckUnsignedFields
<1>6. CASE CheckPins
  <2>1. policy.required_authority_id # NoValue =>
          doc.signing_authority = policy.required_authority_id
    BY <1>1 DEF Satisfies
  <2>2. policy.required_region \in {NoValue, metadata.region}
    <3> SUFFICES ASSUME policy.required_region # NoValue
                 PROVE  policy.required_region = metadata.region
      OBVIOUS
    <3>1. metadata.region = Region(doc)
      BY <1>6 DEF CheckPins, RungInv, RegionDisclosed
    <3>2. PICK i \in DOMAIN p.activity :
            /\ p.activity[i].event = "capsule_started"
            /\ p.activity[i].region = policy.required_region
            /\ \A j \in 1 .. i - 1 : p.activity[j].event # "capsule_started"
      BY DEF Satisfies, FirstRegionIs
    <3>3. DOMAIN p.activity = 1 .. Len(p.activity) /\ Len(p.activity) \in Nat
      BY ProfilesAssumption
    <3> DEFINE starts == Starts(doc)
               first == CHOOSE k \in starts : \A j \in starts : k <= j
    <3>4. starts = {k \in DOMAIN p.activity : p.activity[k].event = "capsule_started"}
      BY <1>2 DEF Starts
    <3>5. i \in starts /\ starts \subseteq Nat
      BY <3>2, <3>3, <3>4
    <3>6. Region(doc) = p.activity[first].region
      BY <1>2, <3>5 DEF Region
    <3> HIDE DEF starts
    <3>7. first \in starts /\ \A j \in starts : first <= j
      BY <3>5, ChosenLeast
    <3> HIDE DEF first
    <3>8. first = i
      <4>1. first <= i /\ first \in Nat /\ i \in Nat /\ first >= 1
        BY <3>3, <3>4, <3>5, <3>7
      <4>2. first \notin 1 .. i - 1
        BY <3>2, <3>4, <3>7
      <4> QED
        BY <4>1, <4>2
    <3> QED
      BY <3>1, <3>2, <3>6, <3>8
  <2> QED
    BY <1>6, <2>1, <2>2 DEF CheckPins
<1>7. CASE CheckChainShape
  BY <1>7, IssuedChain DEF CheckChainShape
<1>8. CASE WalkChain
  BY <1>8, IssuedChain DEF WalkChain, FirstFaultIsAHash
<1>9. CASE CheckReceipts
  BY <1>9, IssuedSetsHold DEF CheckReceipts
<1>10. CASE CheckParents
  BY <1>10, IssuedSetsHold DEF CheckParents
<1>11. CASE CheckStreams
  <2>1. VerifyStreamingMerkleRoots(doc.activity) = "none"
    BY <1>2, IssuerAssumption
  <2> QED
    BY <1>11, <2>1, Zenon DEF CheckStreams
<1>12. CASE CheckActivityRecord
  <2>1. record # NoValue =>
          VerifyCustomerDeclaredActivity(root, doc.cdp_version, record) = "none"
    <3> SUFFICES ASSUME record # NoValue
                 PROVE  VerifyCustomerDeclaredActivity(root, doc.cdp_version, record) = "none"
      OBVIOUS
    <3>1. p.record # NoValue /\ SplitActivityLines(p.record) = SplitActivityLines(record)
      BY DEF Satisfies
    <3>2. root = ComputeActivityRoot(record) /\ root # NoValue
      BY <1>2, <3>1, SameLinesSameRoot, PresenceAssumption
    <3> QED
      BY <1>3, <3>2 DEF VerifyCustomerDeclaredActivity
  <2>2. Pass("final_hash")
    BY <1>12, <2>1, Zenon DEF CheckActivityRecord
  <2> QED
    BY <2>2
<1>13. CASE CheckFinalHash
  <2>1. {doc.algorithm, doc.signature_algorithm} \ {NoValue, "Ed25519"} = {}
    BY <1>1
  <2> QED
    BY <1>13, <2>1, IssuedChain DEF CheckFinalHash
<1> QED
  BY <1>4, <1>5, <1>6, <1>7, <1>8, <1>9, <1>10, <1>11, <1>12, <1>13

\* What an issued proof deserves: the stage its signature and the manifest allow.
Deserved ==
  Accepted(CASE doc.signature = NoValue -> 4
             [] doc.signature # NoValue /\ policy.trust_chain = NoValue -> 7
             [] OTHER -> 8)

LEMMA SignatureRungIsFair ==
  ASSUME NEW p \in Profiles, doc = Issued[p], Satisfies(p, policy), CheckSignature,
         pc' = "done"
  PROVE  verdict' = Deserved
<1>1. doc.public_key = p.key /\ doc.signing_mode = p.mode
  BY IssuedPlainFields
<1>2. CASE p.key = NoValue
  <2>1. doc.signature = NoValue
    BY <1>2, UnsignedFields DEF Issued, IssueProof
  <2> QED
    BY <1>1, <1>2, <2>1 DEF CheckSignature, Decide, Deserved
<1>3. CASE p.key # NoValue
  <2>1. doc.signature # NoValue /\ doc.public_key # NoValue
    BY <1>1, <1>3, PresenceAssumption
  <2>2. VerifiesUnder(doc, doc.public_key)
    <3>1. Issued[p].signature = Sign(p.key, SignedMessage(Issued[p]))
      BY <2>1, IssuedSignature
    <3> QED
      BY <1>1, <3>1 DEF VerifiesUnder, Sign
  <2>3. ~UnsupportedMode(doc)
    BY <1>1 DEF UnsupportedMode, Satisfies
  <2>4. \/ policy.trust_chain = NoValue /\ Decide(Accepted(7))
        \/ Pass("anchor")
    BY <2>1, <2>2, <2>3 DEF CheckSignature
  <2> QED
    BY <2>1, <2>4 DEF Decide, Pass, Deserved
<1> QED
  BY <1>2, <1>3

LEMMA AnchorRungIsFair ==
  ASSUME NEW p \in Profiles, doc = Issued[p], Satisfies(p, policy), AnchorToTrustChain, IInv
  PROVE  verdict' = Deserved
<1>1. policy \in Policies /\ doc.signature # NoValue /\ policy.trust_chain # NoValue
  BY DEF AnchorToTrustChain, IInv, LadderInv, Signed
<1>2. p.key # NoValue
  BY <1>1, UnsignedFields DEF Issued, IssueProof
<1>3. Published(p, policy.trust_chain)
  BY <1>1, <1>2 DEF Satisfies
<1>4. LET found == ManifestKey(doc, policy.trust_chain)
      IN  found # NoValue /\ found.record.public_key = p.key /\ ~found.revoked
  BY <1>1, <1>3, PublishedResolves
<1>5. VerifiesUnder(doc, p.key)
  <2>1. Issued[p].signature = Sign(p.key, SignedMessage(Issued[p]))
    BY <1>1, IssuedSignature
  <2> QED
    BY <2>1 DEF VerifiesUnder, Sign
<1>6. Decide(Accepted(8))
  BY <1>4, <1>5 DEF AnchorToTrustChain
<1> QED
  BY <1>1, <1>6 DEF Decide, Deserved

LEMMA GenuineNext ==
  IInv /\ RungInv /\ GenuineProofAccepted /\ [Next]_vars => GenuineProofAccepted'
<1> SUFFICES ASSUME IInv, RungInv, GenuineProofAccepted, [Next]_vars
             PROVE  GenuineProofAccepted'
  OBVIOUS
<1>1. CASE EditField \/ SwapSignature \/ SignAnew \/ Submit
  <2>1. pc' # "done"
    BY <1>1 DEF EditField, SwapSignature, SignAnew, Submit, Change
  <2> QED
    BY <2>1 DEF GenuineProofAccepted
<1>2. CASE UNCHANGED vars
  BY <1>2 DEF vars, GenuineProofAccepted, Untouched, Satisfies, Published, FirstRegionIs
<1>3. CASE Ladder
  <2> SUFFICES ASSUME pc' = "done", Untouched(doc', policy')
               PROVE  verdict' = Deserved'
    BY DEF GenuineProofAccepted, Deserved
  <2>1. doc' = doc /\ policy' = policy
    BY <1>3, LadderLeavesDocument
  <2>2. PICK p \in Profiles : doc = Issued[p] /\ Satisfies(p, policy)
    BY <2>1 DEF Untouched
  <2>3. Deserved' = Deserved
    BY <2>1 DEF Deserved
  <2>4. CASE CheckSignature
    BY <2>2, <2>3, <2>4, SignatureRungIsFair
  <2>5. CASE AnchorToTrustChain
    BY <2>2, <2>3, <2>5, AnchorRungIsFair
  <2>6. CASE \/ CheckVersion \/ CheckUnsignedFields \/ CheckPins \/ CheckChainShape \/ WalkChain
             \/ CheckReceipts \/ CheckParents \/ CheckStreams \/ CheckActivityRecord
             \/ CheckFinalHash
    BY <2>2, <2>6, EarlyRungsLetGenuineThrough
  <2> QED
    BY <1>3, <2>4, <2>5, <2>6 DEF Ladder
<1> QED
  BY <1>1, <1>2, <1>3 DEF Next, Done

\* A genuine proof that a reader asks nothing else of is never refused.
THEOREM GenuineIsNeverRefused == Spec => []GenuineProofAccepted
<1>1. Init => GenuineProofAccepted
  BY DEF Init, GenuineProofAccepted
<1>2. (IInv /\ RungInv) /\ GenuineProofAccepted /\ [Next]_vars => GenuineProofAccepted'
  BY GenuineNext
<1> QED
  BY <1>1, <1>2, Invariance, RungInvariance, PTL DEF Spec

-----------------------------------------------------------------------------
(* The ladder implements VerifierOutcome: the initial states map to an     *)
(* initial state, and every step to one that is allowed, or to none.       *)

\* Somebody whose key stands signed the message, once stage 8 has said so.
LEMMA AcceptedIsVouched ==
  ASSUME IInv, Authentic
  PROVE  /\ policy.trust_chain # NoValue
         /\ \E p \in Origins :
              /\ SignedMessage(Issued[p]) = SignedMessage(doc)
              /\ \E a \in DOMAIN policy.trust_chain :
                   /\ ~policy.trust_chain[a].revoked
                   /\ p.key \in PublishedKeys([b \in {a} |-> policy.trust_chain[a]])
<1>1. Anchored /\ policy \in Policies
  BY DEF IInv, VerdictInv, LadderInv, Authentic, Undecided, Accepted
<1>2. PICK p \in Origins : SignedMessage(Issued[p]) = SignedMessage(doc)
  BY AnchoredOrigin
<1>3. doc.signature # NoValue /\ doc.signature = Issued[p].signature /\ p \in Profiles
  BY <1>1 DEF Anchored, Origins
<1>4. doc.signature.key = p.key
  <2>1. Issued[p].signature = Sign(p.key, SignedMessage(Issued[p]))
    BY <1>3, IssuedSignature
  <2> QED
    BY <1>3, <2>1 DEF Sign
<1> QED
  BY <1>1, <1>2, <1>4, AnchorKeyIsPublished DEF Anchored

LEMMA InitMaps == Init => Promise!Init
  BY DEF Init, Promise!Init, FactsOfDocument, OutcomeOfVerdict

\* What holds of a document depends on nothing a rung changes.
LEMMA FactsStand ==
  ASSUME doc' = doc, policy' = policy, (pc' = "transit") = (pc = "transit")
  PROVE  FactsOfDocument' = FactsOfDocument
<1>1. Origins' = Origins
  BY DEF Origins
<1>2. Untouched(doc, policy)' = Untouched(doc, policy)
  BY DEF Untouched, Satisfies, FirstRegionIs
<1> QED
  BY <1>1, <1>2, Zenon DEF FactsOfDocument

LEMMA FactsAreFacts == pc # "transit" => FactsOfDocument \in Promise!Facts
<1> SUFFICES ASSUME pc # "transit" PROVE FactsOfDocument \in Promise!Facts
  OBVIOUS
<1> DEFINE vouched == /\ policy.trust_chain # NoValue
                      /\ \E p \in Origins :
                           /\ SignedMessage(Issued[p]) = SignedMessage(doc)
                           /\ \E a \in DOMAIN policy.trust_chain :
                                /\ ~policy.trust_chain[a].revoked
                                /\ p.key \in PublishedKeys([b \in {a} |-> policy.trust_chain[a]])
           signed == doc.signature # NoValue /\ doc.public_key # NoValue
           anchored == policy.trust_chain # NoValue
           genuine == Untouched(doc, policy)
<1>1. vouched \in BOOLEAN /\ signed \in BOOLEAN /\ anchored \in BOOLEAN
  OBVIOUS
<1>2. genuine \in BOOLEAN
  BY DEF Untouched
<1>3. FactsOfDocument = [genuine |-> genuine, signed |-> signed, anchored |-> anchored,
                         vouched |-> vouched]
  BY Zenon DEF FactsOfDocument
<1> HIDE DEF genuine, signed, anchored, vouched
<1> QED
  BY <1>1, <1>2, <1>3 DEF Promise!Facts

\* The answer a verdict gives is one that the facts allow.
Allowed ==
  \/ OutcomeOfVerdict = "failed" /\ ~FactsOfDocument.genuine
  \/ OutcomeOfVerdict = "unsigned" /\ ~FactsOfDocument.signed
  \/ /\ OutcomeOfVerdict = "integrity"
     /\ FactsOfDocument.signed /\ ~FactsOfDocument.anchored
  \/ /\ OutcomeOfVerdict = "authentic"
     /\ FactsOfDocument.signed /\ FactsOfDocument.anchored /\ FactsOfDocument.vouched

LEMMA AnswersAreAllowed == IInv /\ GenuineProofAccepted /\ pc = "done" => Allowed
<1> SUFFICES ASSUME IInv, GenuineProofAccepted, pc = "done" PROVE Allowed
  OBVIOUS
<1> USE DEF Allowed
<1>1. /\ FactsOfDocument.genuine <=> Untouched(doc, policy)
      /\ FactsOfDocument.signed <=> Signed
      /\ FactsOfDocument.anchored <=> policy.trust_chain # NoValue
      /\ FactsOfDocument.vouched <=>
           /\ policy.trust_chain # NoValue
           /\ \E p \in Origins :
                /\ SignedMessage(Issued[p]) = SignedMessage(doc)
                /\ \E a \in DOMAIN policy.trust_chain :
                     /\ ~policy.trust_chain[a].revoked
                     /\ p.key \in PublishedKeys([b \in {a} |-> policy.trust_chain[a]])
  BY Zenon DEF FactsOfDocument, Signed
<1>2. CASE ~verdict.valid
  <2>1. OutcomeOfVerdict = "failed"
    BY <1>2 DEF OutcomeOfVerdict, Accepted
  <2>2. ~Untouched(doc, policy)
    BY <1>2 DEF GenuineProofAccepted, Accepted
  <2> QED
    BY <1>1, <2>1, <2>2, Zenon
<1>3. CASE verdict = Accepted(4)
  <2>1. OutcomeOfVerdict = "unsigned"
    BY <1>3 DEF OutcomeOfVerdict, Accepted
  <2>2. ~Signed
    BY <1>3 DEF IInv, VerdictInv
  <2> QED
    BY <1>1, <2>1, <2>2, Zenon
<1>4. CASE verdict = Accepted(7)
  <2>1. OutcomeOfVerdict = "integrity"
    BY <1>4 DEF OutcomeOfVerdict, Accepted
  <2>2. Signed /\ policy.trust_chain = NoValue
    BY <1>4 DEF IInv, VerdictInv
  <2> QED
    BY <1>1, <2>1, <2>2, Zenon
<1>5. CASE verdict = Accepted(8)
  <2>1. OutcomeOfVerdict = "authentic"
    BY <1>5 DEF OutcomeOfVerdict, Accepted
  <2>2. Signed
    BY <1>5 DEF IInv, VerdictInv
  <2> QED
    BY <1>1, <1>5, <2>1, <2>2, AcceptedIsVouched, Zenon DEF Authentic
<1> QED
  BY <1>2, <1>3, <1>4, <1>5 DEF IInv, VerdictInv

\* Both hold of the state after a step as well.
LEMMA AfterTheStep ==
  /\ (pc # "transit" => FactsOfDocument \in Promise!Facts)'
  /\ (IInv /\ GenuineProofAccepted /\ pc = "done" => Allowed)'
<1>1. (pc # "transit" => FactsOfDocument \in Promise!Facts)'
  BY FactsAreFacts, PTL
<1>2. (IInv /\ GenuineProofAccepted /\ pc = "done" => Allowed)'
  BY AnswersAreAllowed, PTL
<1> QED
  BY <1>1, <1>2

LEMMA StepMaps ==
  ASSUME IInv, IInv', GenuineProofAccepted', [Next]_vars
  PROVE  [Promise!Next]_(Promise!vars)
<1> DEFINE received == pc # "transit"
           facts == FactsOfDocument
           outcome == OutcomeOfVerdict
<1>1. pc # "done" => outcome = NoValue
  BY DEF OutcomeOfVerdict
<1>2. pc' # "done" => outcome' = NoValue
  BY DEF OutcomeOfVerdict
<1>3. CASE EditField \/ SwapSignature \/ SignAnew
  <2>1. pc = "transit" /\ pc' = "transit"
    BY <1>3 DEF EditField, SwapSignature, SignAnew, Change
  <2>2. received' = received /\ facts' = facts /\ outcome' = outcome
    BY <1>1, <1>2, <2>1 DEF FactsOfDocument
  <2> QED
    BY <2>2 DEF Promise!vars
<1>4. CASE Submit
  <2>1. pc = "transit" /\ pc' = "version"
    BY <1>4 DEF Submit
  <2>2. ~received /\ received' /\ outcome' = outcome
    BY <1>1, <1>2, <2>1
  <2>3. facts' \in Promise!Facts
    BY <2>1, AfterTheStep
  <2> QED
    BY <2>2, <2>3 DEF Promise!Next, Promise!Receive
<1>5. CASE Ladder
  <2>1. doc' = doc /\ policy' = policy /\ pc \notin {"transit", "done"} /\ pc' # "transit"
    BY <1>5, StepsOfTheLadder DEF Rejects, Accepts, LetsThrough
  <2>2. received /\ received' /\ facts' = facts
    BY <2>1, FactsStand
  <2>3. CASE pc' # "done"
    <3>1. outcome' = outcome
      BY <1>1, <1>2, <2>1, <2>3
    <3> QED
      BY <2>2, <3>1 DEF Promise!vars
  <2>4. CASE pc' = "done"
    <3>1. \/ outcome' = "failed" /\ ~facts'.genuine
          \/ outcome' = "unsigned" /\ ~facts'.signed
          \/ outcome' = "integrity" /\ facts'.signed /\ ~facts'.anchored
          \/ outcome' = "authentic" /\ facts'.signed /\ facts'.anchored /\ facts'.vouched
      BY <2>4, AfterTheStep DEF Allowed
    <3>2. received /\ outcome = NoValue /\ received' = received /\ facts' = facts
      BY <1>1, <2>1, <2>2
    <3> HIDE DEF received, facts, outcome
    <3> QED
      BY <3>1, <3>2 DEF Promise!Next, Promise!Answer, Promise!Fail, Promise!Partial,
                        Promise!Integrity, Promise!Authenticity, received, facts, outcome
  <2> QED
    BY <2>3, <2>4
<1>6. CASE UNCHANGED vars
  <2>1. doc' = doc /\ policy' = policy /\ pc' = pc /\ verdict' = verdict
    BY <1>6 DEF vars
  <2>2. received' = received /\ facts' = facts
    BY <2>1, FactsStand
  <2>3. outcome' = outcome
    BY <2>1 DEF OutcomeOfVerdict
  <2> QED
    BY <2>2, <2>3 DEF Promise!vars
<1> QED
  BY <1>3, <1>4, <1>5, <1>6 DEF Next, Done

\* Whatever the ladder does is something the promise allows, in the order it allows.
THEOREM LadderKeepsItsPromise == Spec => Promise!Init /\ [][Promise!Next]_(Promise!vars)
<1>1. IInv /\ IInv' /\ GenuineProofAccepted' /\ [Next]_vars => [Promise!Next]_(Promise!vars)
  BY StepMaps
<1> QED
  BY <1>1, InitMaps, Invariance, GenuineIsNeverRefused, PTL DEF Spec

-----------------------------------------------------------------------------
(* Four ladders and one verdict.  A port's verdict is that of its first    *)
(* rung which does not let the document pass; the ladder takes a rung at a *)
(* time.  At each of its rungs every port has passed the document so far.  *)

\* The rungs of Python and TypeScript, which are the most.
Order ==
  <<"version", "slots", "root_gate", "pins", "shape", "walk", "receipts", "parents",
    "streams", "record", "final_hash", "algorithm", "signature">>

LEMMA OrderOf ==
  /\ DOMAIN Order = 1 .. 13 /\ Len(Order) = 13
  /\ Order[1] = "version" /\ Order[2] = "slots" /\ Order[3] = "root_gate" /\ Order[4] = "pins"
  /\ Order[5] = "shape" /\ Order[6] = "walk" /\ Order[7] = "receipts" /\ Order[8] = "parents"
  /\ Order[9] = "streams" /\ Order[10] = "record" /\ Order[11] = "final_hash"
  /\ Order[12] = "algorithm" /\ Order[13] = "signature"
  BY DEF Order

LEMMA GoOrderOf ==
  /\ DOMAIN GoRungs = 1 .. 11 /\ Len(GoRungs) = 11
  /\ GoRungs[1] = "version" /\ GoRungs[2] = "root_gate" /\ GoRungs[3] = "pins"
  /\ GoRungs[4] = "shape" /\ GoRungs[5] = "walk" /\ GoRungs[6] = "receipts"
  /\ GoRungs[7] = "parents" /\ GoRungs[8] = "record" /\ GoRungs[9] = "final_hash"
  /\ GoRungs[10] = "algorithm" /\ GoRungs[11] = "signature"
  BY DEF GoRungs

\* A document climbs as far as the first rung that does not let it pass.
LEMMA ClimbsTo ==
  ASSUME NEW port, NEW d, NEW pol, NEW n \in Nat, IsList(PortRungs(port)), Len(PortRungs(port)) = n,
         NEW k \in 1 .. n + 1,
         \A i \in 1 .. k - 1 : Rung(PortRungs(port)[i], port, d, pol) = Undecided,
         k \in 1 .. n => Rung(PortRungs(port)[k], port, d, pol) # Undecided
  PROVE  Climbed(port, d, pol) = k - 1
<1> DEFINE passes(i) == Rung(PortRungs(port)[i], port, d, pol) = Undecided
           Step(below, i) == IF below = i - 1 /\ passes(i) THEN i ELSE below
           Climb(f) == f = [i \in 0 .. n |-> IF i = 0 THEN 0 ELSE Step(f[i - 1], i)]
           h == [i \in 0 .. n |-> IF i < k THEN i ELSE k - 1]
           g == CHOOSE f : Climb(f)
<1>1. Climbed(port, d, pol) = g[n]
  BY DEF Climbed
<1>2. /\ \A i \in 1 .. n : i < k => passes(i)
      /\ \A i \in 1 .. n : i = k => ~passes(i)
  OBVIOUS
<1> HIDE DEF passes
<1>3. Climb(h)
  <2>1. ASSUME NEW i \in 0 .. n PROVE h[i] = IF i = 0 THEN 0 ELSE Step(h[i - 1], i)
    <3>1. CASE i = 0
      BY <3>1
    <3>2. CASE i # 0
      <4>1. /\ i \in 1 .. n /\ i - 1 \in 0 .. n
            /\ h[i] = IF i < k THEN i ELSE k - 1
            /\ h[i - 1] = IF i - 1 < k THEN i - 1 ELSE k - 1
        BY <3>2
      <4> HIDE DEF h
      <4>2. CASE i < k
        BY <1>2, <3>2, <4>1, <4>2
      <4>3. CASE i = k
        BY <1>2, <3>2, <4>1, <4>3
      <4>4. CASE i > k
        BY <3>2, <4>1, <4>4
      <4> QED
        BY <4>1, <4>2, <4>3, <4>4
    <3> QED
      BY <3>1, <3>2
  <2> QED
    BY <2>1
<1>4. Climb(g)
  <2> HIDE DEF Climb, h
  <2> QED
    BY <1>3
<1>5. \A i \in 0 .. n : g[i] = IF i = 0 THEN 0 ELSE Step(g[i - 1], i)
  BY <1>4
<1> HIDE DEF g, Climb
<1> DEFINE S == {i \in 0 .. n : g[i] = IF i < k THEN i ELSE k - 1}
<1>6. 0 \in S
  BY <1>5
<1>7. ASSUME NEW i \in 0 .. n - 1, i \in S PROVE i + 1 \in S
  <2>1. /\ i + 1 \in 1 .. n /\ i + 1 \in 0 .. n /\ i + 1 # 0 /\ (i + 1) - 1 = i
        /\ g[i] = IF i < k THEN i ELSE k - 1
    BY <1>7
  <2>2. g[i + 1] = Step(g[i], i + 1)
    BY <1>5, <2>1
  <2>3. g[i + 1] = IF i + 1 < k THEN i + 1 ELSE k - 1
    <3>1. CASE i + 1 < k
      BY <1>2, <2>1, <2>2, <3>1
    <3>2. CASE i + 1 = k
      BY <1>2, <2>1, <2>2, <3>2
    <3>3. CASE i + 1 > k
      BY <2>1, <2>2, <3>3
    <3> QED
      BY <3>1, <3>2, <3>3
  <2> QED
    BY <2>1, <2>3
<1>8. 0 .. n \subseteq S
  <2> HIDE DEF S
  <2> QED
    BY <1>6, <1>7, BoundedInduction
<1>9. g[n] = k - 1
  <2>1. g[n] = IF n < k THEN n ELSE k - 1
    BY <1>8
  <2> QED
    BY <2>1
<1> QED
  BY <1>1, <1>9

Own(port, rung) == port = "go" => rung \notin {"slots", "streams"}

\* The rungs before number k let the document pass, and what that discloses.
Behind(port, k, d, pol) ==
  \A i \in 1 .. k - 1 : Own(port, Order[i]) => Rung(Order[i], port, d, pol) = Undecided

Disclosed(port, k, d, pol) ==
  [region     |-> IF k > 3 THEN Region(d) ELSE NoValue,
   recovered  |-> IF k > 5 /\ d.destroyed_at = NoValue THEN d.key_id_time ELSE NoValue,
   unattested |-> IF k > 8 /\ port # "go" THEN UnattestedParents(d) ELSE NoValue,
   checked    |-> IF k <= 10 THEN NoValue
                  ELSE IF pol.customer_activity # NoValue THEN TRUE
                  ELSE IF d.customer_declared_activity_root # NoValue THEN FALSE ELSE NoValue]

Answer(port, k, d, pol) ==
  IF k <= 13 THEN Rung(Order[k], port, d, pol)
  ELSE Accepted(IF NothingToCheck(d) THEN 4 ELSE 7)

GoPlace(m) == IF m = 1 THEN 1 ELSE IF m <= 7 THEN m + 1 ELSE m + 2

\* Python and TypeScript answer at the first rung that does not let the document
\* pass, and disclose what those before it do.
LEMMA PlainLadder ==
  ASSUME NEW port \in {"python", "typescript"}, NEW d, NEW pol, NEW k \in 1 .. 14,
         Behind(port, k, d, pol),
         k <= 13 => Rung(Order[k], port, d, pol) # Undecided
  PROVE  /\ PortVerdict(port, d, pol) = Answer(port, k, d, pol)
         /\ PortMetadata(port, d, pol) = Disclosed(port, k, d, pol)
<1>1. PortRungs(port) = Order
  BY DEF PortRungs, Order
<1>2. Climbed(port, d, pol) = k - 1
  <2>1. \A i \in 1 .. k - 1 : Rung(PortRungs(port)[i], port, d, pol) = Undecided
    BY <1>1 DEF Behind, Own
  <2>2. IsList(PortRungs(port)) /\ Len(PortRungs(port)) = 13
    BY <1>1, OrderOf DEF IsList
  <2>3. k \in 1 .. 13 => Rung(PortRungs(port)[k], port, d, pol) # Undecided
    BY <1>1
  <2>4. ASSUME NEW n \in Nat, n = 13 PROVE Climbed(port, d, pol) = k - 1
    <3>1. IsList(PortRungs(port)) /\ Len(PortRungs(port)) = n
      BY <2>2, <2>4
    <3>2. k \in 1 .. n + 1
      BY <2>4
    <3>3. k \in 1 .. n => Rung(PortRungs(port)[k], port, d, pol) # Undecided
      BY <2>3, <2>4
    <3> QED
      BY <2>1, <3>1, <3>2, <3>3, ClimbsTo
  <2> QED
    BY <2>4
<1>3. PortVerdict(port, d, pol) = Answer(port, k, d, pol)
  BY <1>1, <1>2, OrderOf DEF PortVerdict, Answer
<1> DEFINE passed == {PortRungs(port)[i] : i \in 1 .. Climbed(port, d, pol)}
<1>4. /\ "root_gate" \in passed <=> k > 3
      /\ "shape" \in passed <=> k > 5
      /\ "parents" \in passed <=> k > 8
      /\ "record" \in passed <=> k > 10
  BY <1>1, <1>2, OrderOf
<1>5. PortMetadata(port, d, pol) = Disclosed(port, k, d, pol)
  <2> DEFINE checked == IF pol.customer_activity # NoValue THEN TRUE
                        ELSE IF d.customer_declared_activity_root # NoValue THEN FALSE ELSE NoValue
  <2>1. PortMetadata(port, d, pol) =
          [region     |-> IF "root_gate" \in passed THEN Region(d) ELSE NoValue,
           recovered  |-> IF "shape" \in passed /\ d.destroyed_at = NoValue THEN d.key_id_time ELSE NoValue,
           unattested |-> IF "parents" \in passed /\ port # "go" THEN UnattestedParents(d) ELSE NoValue,
           checked    |-> IF "record" \notin passed THEN NoValue ELSE checked]
    BY Zenon DEF PortMetadata
  <2>2. Disclosed(port, k, d, pol) =
          [region     |-> IF k > 3 THEN Region(d) ELSE NoValue,
           recovered  |-> IF k > 5 /\ d.destroyed_at = NoValue THEN d.key_id_time ELSE NoValue,
           unattested |-> IF k > 8 /\ port # "go" THEN UnattestedParents(d) ELSE NoValue,
           checked    |-> IF k <= 10 THEN NoValue ELSE checked]
    BY Zenon DEF Disclosed
  <2> HIDE DEF passed, checked
  <2>3. "record" \notin passed <=> k <= 10
    BY <1>4
  <2> QED
    BY <1>4, <2>1, <2>2, <2>3
<1> QED
  BY <1>3, <1>5

\* So does Go, with its own rungs.
LEMMA GoLadder ==
  ASSUME NEW d, NEW pol, NEW m \in 1 .. 12, Behind("go", GoPlace(m), d, pol),
         m <= 11 => Rung(Order[GoPlace(m)], "go", d, pol) # Undecided
  PROVE  /\ PortVerdict("go", d, pol) = Answer("go", GoPlace(m), d, pol)
         /\ PortMetadata("go", d, pol) = Disclosed("go", GoPlace(m), d, pol)
<1>1. PortRungs("go") = GoRungs
  BY DEF PortRungs
<1>2. \A i \in 1 .. 11 : GoPlace(i) \in 1 .. 13 /\ GoRungs[i] = Order[GoPlace(i)]
                         /\ Own("go", Order[GoPlace(i)])
  BY OrderOf, GoOrderOf DEF GoPlace, Own
<1>3. \A i \in 1 .. m - 1 : GoPlace(i) \in 1 .. GoPlace(m) - 1 /\ i \in 1 .. 11
  BY DEF GoPlace
<1>4. Climbed("go", d, pol) = m - 1
  <2>1. \A i \in 1 .. m - 1 : Rung(PortRungs("go")[i], "go", d, pol) = Undecided
    BY <1>1, <1>2, <1>3 DEF Behind
  <2>2. IsList(PortRungs("go")) /\ Len(PortRungs("go")) = 11
    BY <1>1, GoOrderOf DEF IsList
  <2>3. m \in 1 .. 11 => Rung(PortRungs("go")[m], "go", d, pol) # Undecided
    BY <1>1, <1>2
  <2>4. ASSUME NEW n \in Nat, n = 11 PROVE Climbed("go", d, pol) = m - 1
    <3>1. IsList(PortRungs("go")) /\ Len(PortRungs("go")) = n
      BY <2>2, <2>4
    <3>2. m \in 1 .. n + 1
      BY <2>4
    <3>3. m \in 1 .. n => Rung(PortRungs("go")[m], "go", d, pol) # Undecided
      BY <2>3, <2>4
    <3> QED
      BY <2>1, <3>1, <3>2, <3>3, ClimbsTo
  <2> QED
    BY <2>4
<1>5. PortVerdict("go", d, pol) = Answer("go", GoPlace(m), d, pol)
  <2>1. CASE m = 12
    BY <1>1, <1>4, <2>1, GoOrderOf DEF PortVerdict, Answer, GoPlace
  <2>2. CASE m <= 11
    <3>1. m \in 1 .. 11 /\ m - 1 < 11 /\ (m - 1) + 1 = m
      BY <2>2
    <3>2. PortVerdict("go", d, pol) = Rung(GoRungs[m], "go", d, pol)
      BY <1>1, <1>4, <3>1, GoOrderOf DEF PortVerdict
    <3> QED
      BY <1>2, <3>1, <3>2 DEF Answer
  <2> QED
    BY <2>1, <2>2
<1> DEFINE passed == {PortRungs("go")[i] : i \in 1 .. Climbed("go", d, pol)}
<1>6. /\ "root_gate" \in passed <=> GoPlace(m) > 3
      /\ "shape" \in passed <=> GoPlace(m) > 5
      /\ "record" \in passed <=> GoPlace(m) > 10
  BY <1>1, <1>4, GoOrderOf DEF GoPlace
<1>7. PortMetadata("go", d, pol) = Disclosed("go", GoPlace(m), d, pol)
  <2> DEFINE checked == IF pol.customer_activity # NoValue THEN TRUE
                        ELSE IF d.customer_declared_activity_root # NoValue THEN FALSE ELSE NoValue
  <2>1. PortMetadata("go", d, pol) =
          [region     |-> IF "root_gate" \in passed THEN Region(d) ELSE NoValue,
           recovered  |-> IF "shape" \in passed /\ d.destroyed_at = NoValue THEN d.key_id_time ELSE NoValue,
           unattested |-> IF "parents" \in passed /\ "go" # "go" THEN UnattestedParents(d) ELSE NoValue,
           checked    |-> IF "record" \notin passed THEN NoValue ELSE checked]
    BY Zenon DEF PortMetadata
  <2>2. Disclosed("go", GoPlace(m), d, pol) =
          [region     |-> IF GoPlace(m) > 3 THEN Region(d) ELSE NoValue,
           recovered  |-> IF GoPlace(m) > 5 /\ d.destroyed_at = NoValue THEN d.key_id_time ELSE NoValue,
           unattested |-> IF GoPlace(m) > 8 /\ "go" # "go" THEN UnattestedParents(d) ELSE NoValue,
           checked    |-> IF GoPlace(m) <= 10 THEN NoValue ELSE checked]
    BY Zenon DEF Disclosed
  <2> HIDE DEF passed, checked
  <2>3. "record" \notin passed <=> GoPlace(m) <= 10
    BY <1>6 DEF GoPlace
  <2> QED
    BY <1>6, <2>1, <2>2, <2>3
<1> QED
  BY <1>5, <1>7

\* The number of the rung that the ladder is at.
Place ==
  [version |-> 1, gates |-> 2, pins |-> 4, chain |-> 5, walk |-> 6, receipts |-> 7, parents |-> 8,
   streams |-> 9, record |-> 10, final_hash |-> 11, signature |-> 13]

Ports == {"python", "typescript", "go"}

\* At each rung of the ladder, a port has passed the document so far, and has
\* disclosed the same.
ClimbInv ==
  /\ pc = "transit" => metadata = NoMetadata
  /\ pc = "anchor" => policy.trust_chain # NoValue
  /\ Narrow(doc) /\ pc \in DOMAIN Place =>
       /\ metadata = Disclosed("python", Place[pc], doc, policy)
       /\ \A port \in Ports : Behind(port, Place[pc], doc, policy)

\* What each rung answers.
LEMMA RungsByName ==
  ASSUME NEW port, NEW d, NEW pol
  PROVE  /\ Rung("version", port, d, pol) = VersionRung(d)
         /\ Rung("slots", port, d, pol) = Unless(~d.reserved_slot, 2, "UnsignedFieldPopulated")
         /\ Rung("root_gate", port, d, pol)
              = Fault(2, GateDeclaredActivityRoot(d.customer_declared_activity_root, d.cdp_version))
         /\ Rung("pins", port, d, pol) = PinRung(d, pol)
         /\ Rung("shape", port, d, pol) = ShapeRung(d)
         /\ Rung("walk", port, d, pol) = WalkRung(d)
         /\ Rung("receipts", port, d, pol) = Fault(3, PortReceiptFault(port, d))
         /\ Rung("parents", port, d, pol) = Fault(3, PortParentFault(port, d))
         /\ Rung("streams", port, d, pol) = Fault(3, VerifyStreamingMerkleRoots(d.activity))
         /\ Rung("record", port, d, pol) = RecordRung(d, pol)
         /\ Rung("final_hash", port, d, pol)
              = Unless(d.final_hash = d.chain[ChainSteps].chain_hash, 4, "FinalHashMismatch")
         /\ Rung("algorithm", port, d, pol)
              = Unless({d.algorithm, d.signature_algorithm} \subseteq {NoValue, "Ed25519"},
                       4, "AlgorithmUnsupported")
         /\ Rung("signature", port, d, pol) = SignatureRung(d)
  BY DEF Rung

\* A refusal is an answer.
LEMMA RejectedIsDecided ==
  ASSUME NEW stage \in {1, 2, 3, 4, 7}, NEW reason
  PROVE  Rejected(stage, reason) # Undecided
<1>1. Rejected(stage, reason).stage = stage /\ Undecided.stage = 0
  BY DEF Rejected, Undecided
<1> QED
  BY <1>1

\* A rung that a port does not have lets everything pass.
LEMMA OneRungMore ==
  ASSUME NEW port, NEW d, NEW pol, NEW k \in 1 .. 13, Behind(port, k, d, pol),
         Own(port, Order[k]) => Rung(Order[k], port, d, pol) = Undecided
  PROVE  Behind(port, k + 1, d, pol)
<1>1. \A i \in 1 .. (k + 1) - 1 : i \in 1 .. k - 1 \/ i = k
  OBVIOUS
<1> QED
  BY <1>1 DEF Behind

\* The ladder goes on, and the ports with it.
LEMMA GoesOn ==
  ASSUME ClimbInv, doc' = doc, policy' = policy, pc' \in DOMAIN Place,
         Narrow(doc) => /\ metadata' = Disclosed("python", Place[pc'], doc, policy)
                        /\ \A port \in Ports : Behind(port, Place[pc'], doc, policy)
  PROVE  ClimbInv' /\ LaddersAgree'
<1>1. pc' \notin {"transit", "anchor", "done"}
  BY DEF Place
<1> QED
  BY <1>1 DEF ClimbInv, LaddersAgree, PortsAgree, GoDiffersByMissingChecksOnly, Judged

\* The ladder answers, and the ports do at the same rung, but for what Go leaves out.
LEMMA Answers ==
  ASSUME doc' = doc, policy' = policy, pc' = "done", NEW k \in 1 .. 14,
         Narrow(doc) =>
           /\ metadata' = Disclosed("python", k, doc, policy)
           /\ k <= 13 => verdict' # Undecided
           /\ \A port \in {"python", "typescript"} :
                Behind(port, k, doc, policy) /\ Answer(port, k, doc, policy) = verdict'
           /\ \/ OutsideGo(doc)'
              \/ /\ k \notin {2, 9}
                 /\ Behind("go", k, doc, policy) /\ Answer("go", k, doc, policy) = verdict'
  PROVE  ClimbInv' /\ LaddersAgree'
<1>1. ClimbInv'
  <2>1. pc' \notin DOMAIN Place
    BY DEF Place
  <2> QED
    BY <2>1 DEF ClimbInv
<1>2. ASSUME Narrow(doc), NEW port \in {"python", "typescript"} PROVE Conforms(port)'
  <2>1. k <= 13 => Rung(Order[k], port, doc, policy) # Undecided
    BY <1>2 DEF Answer
  <2>2. /\ PortVerdict(port, doc, policy) = verdict'
        /\ PortMetadata(port, doc, policy) = Disclosed(port, k, doc, policy)
    BY <1>2, <2>1, PlainLadder
  <2>3. Disclosed(port, k, doc, policy) = metadata'
    BY <1>2 DEF Disclosed
  <2> QED
    BY <2>2, <2>3 DEF Conforms
<1>3. ASSUME Narrow(doc), ~OutsideGo(doc)'
      PROVE  /\ PortVerdict("go", doc, policy) = verdict'
             /\ PortMetadata("go", doc, policy) = [metadata' EXCEPT !.unattested = NoValue]
  <2>1. PICK m \in 1 .. 12 : k = GoPlace(m) /\ (m <= 11 => k <= 13)
    <3> DEFINE m == IF k = 1 THEN 1 ELSE IF k <= 8 THEN k - 1 ELSE k - 2
    <3>1. m \in 1 .. 12 /\ k = GoPlace(m) /\ (m <= 11 => k <= 13)
      BY <1>3 DEF GoPlace
    <3> QED
      BY <3>1
  <2>2. Behind("go", GoPlace(m), doc, policy)
    BY <1>3, <2>1
  <2>3. m <= 11 => Rung(Order[GoPlace(m)], "go", doc, policy) # Undecided
    BY <1>3, <2>1 DEF Answer
  <2>4. /\ PortVerdict("go", doc, policy) = verdict'
        /\ PortMetadata("go", doc, policy) = Disclosed("go", k, doc, policy)
    BY <1>3, <2>1, <2>2, <2>3, GoLadder
  <2>5. Disclosed("go", k, doc, policy)
          = [Disclosed("python", k, doc, policy) EXCEPT !.unattested = NoValue]
    <3> DEFINE region    == IF k > 3 THEN Region(doc) ELSE NoValue
               recovered == IF k > 5 /\ doc.destroyed_at = NoValue THEN doc.key_id_time ELSE NoValue
               counted   == IF k > 8 THEN UnattestedParents(doc) ELSE NoValue
               checked   == IF k <= 10 THEN NoValue
                            ELSE IF policy.customer_activity # NoValue THEN TRUE
                            ELSE IF doc.customer_declared_activity_root # NoValue THEN FALSE ELSE NoValue
    <3>1. Disclosed("python", k, doc, policy) =
            [region |-> region, recovered |-> recovered, unattested |-> counted, checked |-> checked]
      BY Zenon DEF Disclosed
    <3>2. Disclosed("go", k, doc, policy) =
            [region |-> region, recovered |-> recovered, unattested |-> NoValue, checked |-> checked]
      BY Zenon DEF Disclosed
    <3> HIDE DEF region, recovered, counted, checked
    <3> QED
      BY <3>1, <3>2
  <2> QED
    BY <1>3, <2>4, <2>5
<1>4. PortsAgree'
  BY <1>2 DEF PortsAgree
<1>5. GoDiffersByMissingChecksOnly'
  BY <1>3 DEF GoDiffersByMissingChecksOnly
<1> QED
  BY <1>1, <1>4, <1>5 DEF LaddersAgree

\* What a port finds in the sets of a document: Go passes one without a root.
LEMMA SetsAlike ==
  ASSUME NEW d, Narrow(d)
  PROVE  /\ \A port \in {"python", "typescript"} :
              /\ PortReceiptFault(port, d) = ReceiptFault(d)
              /\ PortParentFault(port, d) = ParentFault(d)
         /\ \/ PortReceiptFault("go", d) = ReceiptFault(d)
            \/ /\ Rootless(d.record_receipts, d.record_receipts_merkle_root)
               /\ ReceiptFault(d) = "RequiredFieldMissing"
         /\ \/ PortParentFault("go", d) = ParentFault(d)
            \/ /\ Rootless(d.parent_proof_hashes, d.parent_proofs_merkle_root)
               /\ ParentFault(d) = "RequiredFieldMissing"
<1>1. \A port \in Ports : d.record_receipts # NoValue =>
        \A i \in DOMAIN d.record_receipts :
          PortReceiptHash(port, d, i) = ReceiptHash(d.capsule_id, d.record_receipts[i])
  <2> SUFFICES ASSUME NEW port \in Ports, d.record_receipts # NoValue,
                      NEW i \in DOMAIN d.record_receipts
               PROVE  PortReceiptHash(port, d, i) = ReceiptHash(d.capsule_id, d.record_receipts[i])
    OBVIOUS
  <2> DEFINE index == d.record_receipts[i].record_index
  <2>1. index \in 0 .. IndexModulus - 1
    BY DEF Narrow
  <2> HIDE DEF index
  <2>2. index % IndexModulus = index
    BY <2>1, IndexModulusAssumption
  <2>3. IndexRead(port, index) = index % IndexModulus
    BY <2>2 DEF IndexRead
  <2> QED
    BY <2>3 DEF PortReceiptHash, ReceiptHash, RecordHash, index
<1>2. \A port \in Ports : d.record_receipts # NoValue =>
        [i \in DOMAIN d.record_receipts |-> PortReceiptHash(port, d, i)] = ReceiptLeaves(d)
  BY <1>1 DEF ReceiptLeaves
<1>3. ASSUME NEW port \in Ports, d.record_receipts # NoValue, d.record_receipts_merkle_root # NoValue
      PROVE  PortReceiptFault(port, d) = ReceiptFault(d)
  <2>1. (\E i \in DOMAIN d.record_receipts :
           d.record_receipts[i].record_chain_hash
             # [j \in DOMAIN d.record_receipts |-> PortReceiptHash(port, d, j)][i])
        <=> \E i \in DOMAIN d.record_receipts :
              d.record_receipts[i].record_chain_hash
                # ReceiptHash(d.capsule_id, d.record_receipts[i])
    BY <1>1, <1>3
  <2> QED
    BY <1>2, <1>3, <2>1 DEF PortReceiptFault, ReceiptFault
<1>4. \A port \in {"python", "typescript"} :
        /\ PortReceiptFault(port, d) = ReceiptFault(d)
        /\ PortParentFault(port, d) = ParentFault(d)
  BY <1>3 DEF Ports, PortReceiptFault, ReceiptFault, PortParentFault, ParentFault, RootlessFault
<1>5. \/ PortReceiptFault("go", d) = ReceiptFault(d)
      \/ /\ Rootless(d.record_receipts, d.record_receipts_merkle_root)
         /\ ReceiptFault(d) = "RequiredFieldMissing"
  BY <1>3 DEF Ports, PortReceiptFault, ReceiptFault, RootlessFault, Rootless
<1>6. \/ PortParentFault("go", d) = ParentFault(d)
      \/ /\ Rootless(d.parent_proof_hashes, d.parent_proofs_merkle_root)
         /\ ParentFault(d) = "RequiredFieldMissing"
  BY DEF PortParentFault, ParentFault, RootlessFault, Rootless
<1> QED
  BY <1>4, <1>5, <1>6

\* The first step that is wrong is one whose hash is.
LEMMA FirstWrongStep ==
  ASSUME NEW d
  PROVE  WalkRung(d) = IF BrokenSteps(d) \cup MislabelledSteps(d) = {} THEN Undecided
                       ELSE IF FirstFaultIsAHash(d) THEN Rejected(3, "StepHashMismatch")
                       ELSE Rejected(3, "ChainStepIdentityMismatch")
<1> DEFINE wrong == BrokenSteps(d) \cup MislabelledSteps(d)
           first == CHOOSE i \in wrong : \A j \in wrong : i <= j
<1>1. CASE wrong = {}
  BY <1>1 DEF WalkRung
<1>2. CASE wrong # {}
  <2>1. wrong \subseteq Nat
    BY EightSteps DEF BrokenSteps, MislabelledSteps
  <2>2. first \in wrong /\ \A j \in wrong : first <= j
    <3> HIDE DEF wrong
    <3> QED
      BY <1>2, <2>1, ChosenLeast
  <2> HIDE DEF first
  <2>3. first \in BrokenSteps(d) <=> FirstFaultIsAHash(d)
    <3>1. ASSUME FirstFaultIsAHash(d) PROVE first \in BrokenSteps(d)
      <4>1. PICK i \in BrokenSteps(d) : \A j \in MislabelledSteps(d) : i <= j
        BY <3>1 DEF FirstFaultIsAHash
      <4>2. first <= i /\ first \in Nat /\ i \in Nat
        BY <2>1, <2>2, <4>1
      <4>3. first \in MislabelledSteps(d) => first = i
        BY <4>1, <4>2
      <4> QED
        BY <2>2, <4>1, <4>3
    <3>2. ASSUME first \in BrokenSteps(d) PROVE FirstFaultIsAHash(d)
      BY <2>2, <3>2 DEF FirstFaultIsAHash
    <3> QED
      BY <3>1, <3>2
  <2> QED
    BY <1>2, <2>3 DEF WalkRung, first
<1> QED
  BY <1>1, <1>2

\* Every rung of the ladder is one or two of a port's.
LEMMA VersionRungKept == ClimbInv /\ CheckVersion => ClimbInv' /\ LaddersAgree'
<1> SUFFICES ASSUME ClimbInv, CheckVersion PROVE ClimbInv' /\ LaddersAgree'
  OBVIOUS
<1>1. /\ pc = "version" /\ doc' = doc /\ policy' = policy /\ metadata' = metadata
      /\ pc \in DOMAIN Place /\ Place[pc] = 1
  BY DEF CheckVersion, Reject, Decide, Pass, Place
<1>2. CASE doc.cdp_version \in SupportedVersions
  <2>1. pc' = "gates" /\ pc' \in DOMAIN Place /\ Place[pc'] = 2
    BY <1>2, NoVersionAssumption DEF CheckVersion, Reject, Decide, Pass, Place
  <2>2. VersionRung(doc) = Undecided
    BY <1>2, NoVersionAssumption DEF VersionRung, Unless
  <2>3. Narrow(doc) => \A port \in Ports : Behind(port, 1 + 1, doc, policy)
    BY <1>1, <2>2, OneRungMore, OrderOf, RungsByName DEF ClimbInv
  <2>4. Narrow(doc) => metadata' = Disclosed("python", 2, doc, policy)
    BY <1>1 DEF ClimbInv, Disclosed
  <2> QED
    BY <1>1, <2>1, <2>3, <2>4, GoesOn
<1>3. CASE doc.cdp_version \notin SupportedVersions
  <2>1. pc' = "done" /\ verdict' = VersionRung(doc) /\ verdict' # Undecided
    BY <1>3, RejectedIsDecided DEF CheckVersion, Reject, Decide, Pass, VersionRung, Unless
  <2>2. \A port \in Ports : Answer(port, 1, doc, policy) = verdict'
    BY <2>1, OrderOf, RungsByName DEF Answer
  <2> QED
    BY <1>1, <2>1, <2>2, Answers DEF ClimbInv, Ports
<1> QED
  BY <1>2, <1>3

\* The slots, which Go has no rung for, and then the root.
LEMMA UnsignedFieldsRungKept == ClimbInv /\ CheckUnsignedFields => ClimbInv' /\ LaddersAgree'
<1> SUFFICES ASSUME ClimbInv, CheckUnsignedFields PROVE ClimbInv' /\ LaddersAgree'
  OBVIOUS
<1> DEFINE gate == GateDeclaredActivityRoot(doc.customer_declared_activity_root, doc.cdp_version)
<1>1. /\ pc = "gates" /\ doc' = doc /\ policy' = policy
      /\ pc \in DOMAIN Place /\ Place[pc] = 2
  BY DEF CheckUnsignedFields, Reject, Decide, Pass, Place
<1>2. CASE doc.reserved_slot
  <2>1. /\ pc' = "done" /\ verdict' = Rejected(2, "UnsignedFieldPopulated") /\ verdict' # Undecided
        /\ metadata' = metadata
    BY <1>2, RejectedIsDecided DEF CheckUnsignedFields, Reject, Decide, Pass
  <2>2. \A port \in Ports : Answer(port, 2, doc, policy) = verdict'
    BY <1>2, <2>1, OrderOf, RungsByName DEF Answer, Unless
  <2>3. OutsideGo(doc)'
    BY <1>1, <1>2, <2>1 DEF OutsideGo
  <2> QED
    BY <1>1, <2>1, <2>2, <2>3, Answers DEF ClimbInv, Ports
<1>3. CASE ~doc.reserved_slot
  <2>1. Narrow(doc) => \A port \in Ports : Behind(port, 2 + 1, doc, policy)
    BY <1>1, <1>3, OneRungMore, OrderOf, RungsByName DEF ClimbInv, Unless
  <2>2. \A port \in Ports : Rung(Order[3], port, doc, policy) = Fault(2, gate)
    BY OrderOf, RungsByName
  <2>3. CASE gate = "none"
    <3>1. /\ pc' = "pins" /\ pc' \in DOMAIN Place /\ Place[pc'] = 4
          /\ metadata' = [metadata EXCEPT !.region = Region(doc)]
      BY <1>3, <2>3 DEF CheckUnsignedFields, Reject, Decide, Pass, Place
    <3>2. Narrow(doc) => \A port \in Ports : Behind(port, 3 + 1, doc, policy)
      BY <2>1, <2>2, <2>3, OneRungMore DEF Fault, Unless
    <3>3. Narrow(doc) => metadata' = Disclosed("python", 4, doc, policy)
      BY <1>1, <3>1 DEF ClimbInv, Disclosed
    <3> QED
      BY <1>1, <3>1, <3>2, <3>3, GoesOn
  <2>4. CASE gate # "none"
    <3>1. /\ pc' = "done" /\ verdict' = Rejected(2, gate) /\ verdict' # Undecided
          /\ metadata' = metadata
      BY <1>3, <2>4, RejectedIsDecided DEF CheckUnsignedFields, Reject, Decide, Pass
    <3>2. \A port \in Ports : Answer(port, 3, doc, policy) = verdict'
      BY <2>2, <2>4, <3>1 DEF Answer, Fault, Unless
    <3>3. Narrow(doc) => metadata' = Disclosed("python", 3, doc, policy)
      BY <1>1, <3>1 DEF ClimbInv, Disclosed
    <3> QED
      BY <1>1, <2>1, <3>1, <3>2, <3>3, Answers DEF Ports
  <2> QED
    BY <2>3, <2>4
<1> QED
  BY <1>2, <1>3

LEMMA PinsRungKept == ClimbInv /\ CheckPins => ClimbInv' /\ LaddersAgree'
<1> SUFFICES ASSUME ClimbInv, CheckPins PROVE ClimbInv' /\ LaddersAgree'
  OBVIOUS
<1> DEFINE pinned == /\ policy.required_authority_id \in {NoValue, doc.signing_authority}
                     /\ policy.required_region \in {NoValue, metadata.region}
<1>1. /\ pc = "pins" /\ doc' = doc /\ policy' = policy /\ metadata' = metadata
      /\ pc \in DOMAIN Place /\ Place[pc] = 4
  BY DEF CheckPins, Reject, Decide, Pass, Place
<1>2. Narrow(doc) => metadata.region = Region(doc)
  BY <1>1 DEF ClimbInv, Disclosed
<1>3. \A port \in Ports : Rung(Order[4], port, doc, policy) = PinRung(doc, policy)
  BY OrderOf, RungsByName
<1>4. CASE pinned
  <2>1. pc' = "chain" /\ pc' \in DOMAIN Place /\ Place[pc'] = 5
    BY <1>4 DEF CheckPins, Reject, Decide, Pass, Place
  <2>2. Narrow(doc) => PinRung(doc, policy) = Undecided
    BY <1>2, <1>4 DEF PinRung, Unless
  <2>3. Narrow(doc) => \A port \in Ports : Behind(port, 4 + 1, doc, policy)
    BY <1>1, <1>3, <2>2, OneRungMore DEF ClimbInv
  <2>4. Narrow(doc) => metadata' = Disclosed("python", 5, doc, policy)
    BY <1>1 DEF ClimbInv, Disclosed
  <2> QED
    BY <1>1, <2>1, <2>3, <2>4, GoesOn
<1>5. CASE ~pinned
  <2>1. /\ pc' = "done" /\ verdict' # Undecided
        /\ Narrow(doc) => verdict' = PinRung(doc, policy)
    BY <1>2, <1>5, RejectedIsDecided DEF CheckPins, Reject, Decide, Pass, PinRung, Unless
  <2>2. Narrow(doc) => \A port \in Ports : Answer(port, 4, doc, policy) = verdict'
    BY <1>3, <2>1 DEF Answer
  <2> QED
    BY <1>1, <2>1, <2>2, Answers DEF ClimbInv, Ports
<1> QED
  BY <1>4, <1>5

LEMMA ShapeRungKept == ClimbInv /\ CheckChainShape => ClimbInv' /\ LaddersAgree'
<1> SUFFICES ASSUME ClimbInv, CheckChainShape PROVE ClimbInv' /\ LaddersAgree'
  OBVIOUS
<1>1. /\ pc = "chain" /\ doc' = doc /\ policy' = policy
      /\ pc \in DOMAIN Place /\ Place[pc] = 5
  BY DEF CheckChainShape, Reject, Decide, Pass, Place
<1>2. \A port \in Ports : Rung(Order[5], port, doc, policy) = ShapeRung(doc)
  BY OrderOf, RungsByName
<1>3. CASE doc.chain # NoValue /\ Len(doc.chain) = ChainSteps
  <2>1. /\ pc' = "walk" /\ pc' \in DOMAIN Place /\ Place[pc'] = 6
        /\ metadata' = [metadata EXCEPT !.recovered =
                          IF doc.destroyed_at = NoValue THEN doc.key_id_time ELSE NoValue]
    BY <1>3 DEF CheckChainShape, Reject, Decide, Pass, Place
  <2>2. ShapeRung(doc) = Undecided
    BY <1>3 DEF ShapeRung, Unless
  <2>3. Narrow(doc) => \A port \in Ports : Behind(port, 5 + 1, doc, policy)
    BY <1>1, <1>2, <2>2, OneRungMore DEF ClimbInv
  <2>4. Narrow(doc) => metadata' = Disclosed("python", 6, doc, policy)
    BY <1>1, <2>1 DEF ClimbInv, Disclosed
  <2> QED
    BY <1>1, <2>1, <2>3, <2>4, GoesOn
<1>4. CASE ~(doc.chain # NoValue /\ Len(doc.chain) = ChainSteps)
  <2>1. /\ pc' = "done" /\ verdict' = ShapeRung(doc) /\ verdict' # Undecided
        /\ metadata' = metadata
    BY <1>4, RejectedIsDecided DEF CheckChainShape, Reject, Decide, Pass, ShapeRung, Unless
  <2>2. \A port \in Ports : Answer(port, 5, doc, policy) = verdict'
    BY <1>2, <2>1 DEF Answer
  <2> QED
    BY <1>1, <2>1, <2>2, Answers DEF ClimbInv, Ports
<1> QED
  BY <1>3, <1>4

LEMMA WalkRungKept == ClimbInv /\ WalkChain => ClimbInv' /\ LaddersAgree'
<1> SUFFICES ASSUME ClimbInv, WalkChain PROVE ClimbInv' /\ LaddersAgree'
  OBVIOUS
<1> DEFINE wrong == BrokenSteps(doc) \cup MislabelledSteps(doc)
<1>1. /\ pc = "walk" /\ doc' = doc /\ policy' = policy /\ metadata' = metadata
      /\ pc \in DOMAIN Place /\ Place[pc] = 6
  BY DEF WalkChain, Reject, Decide, Pass, Place
<1>2. \A port \in Ports : Rung(Order[6], port, doc, policy) = WalkRung(doc)
  BY OrderOf, RungsByName
<1>3. CASE wrong = {}
  <2>1. pc' = "receipts" /\ pc' \in DOMAIN Place /\ Place[pc'] = 7
    BY <1>3 DEF WalkChain, Reject, Decide, Pass, Place, FirstFaultIsAHash
  <2>2. WalkRung(doc) = Undecided
    BY <1>3, FirstWrongStep
  <2>3. Narrow(doc) => \A port \in Ports : Behind(port, 6 + 1, doc, policy)
    BY <1>1, <1>2, <2>2, OneRungMore DEF ClimbInv
  <2>4. Narrow(doc) => metadata' = Disclosed("python", 7, doc, policy)
    BY <1>1 DEF ClimbInv, Disclosed
  <2> QED
    BY <1>1, <2>1, <2>3, <2>4, GoesOn
<1>4. CASE wrong # {}
  <2>1. pc' = "done" /\ verdict' = WalkRung(doc) /\ verdict' # Undecided
    BY <1>4, FirstWrongStep, RejectedIsDecided DEF WalkChain, Reject, Decide, Pass
  <2>2. \A port \in Ports : Answer(port, 6, doc, policy) = verdict'
    BY <1>2, <2>1 DEF Answer
  <2> QED
    BY <1>1, <2>1, <2>2, Answers DEF ClimbInv, Ports
<1> QED
  BY <1>3, <1>4

LEMMA ReceiptsRungKept == ClimbInv /\ CheckReceipts => ClimbInv' /\ LaddersAgree'
<1> SUFFICES ASSUME ClimbInv, CheckReceipts PROVE ClimbInv' /\ LaddersAgree'
  OBVIOUS
<1>1. /\ pc = "receipts" /\ doc' = doc /\ policy' = policy /\ metadata' = metadata
      /\ pc \in DOMAIN Place /\ Place[pc] = 7
  BY DEF CheckReceipts, Reject, Decide, Pass, Place
<1>2. \A port \in Ports :
        Rung(Order[7], port, doc, policy) = Fault(3, PortReceiptFault(port, doc))
  BY OrderOf, RungsByName
<1>3. CASE ReceiptFault(doc) = "none"
  <2>1. pc' = "parents" /\ pc' \in DOMAIN Place /\ Place[pc'] = 8
    BY <1>3 DEF CheckReceipts, Reject, Decide, Pass, Place
  <2>2. Narrow(doc) => \A port \in Ports : Rung(Order[7], port, doc, policy) = Undecided
    BY <1>2, <1>3, SetsAlike DEF Fault, Unless, Ports
  <2>3. Narrow(doc) => \A port \in Ports : Behind(port, 7 + 1, doc, policy)
    BY <1>1, <2>2, OneRungMore DEF ClimbInv
  <2>4. Narrow(doc) => metadata' = Disclosed("python", 8, doc, policy)
    BY <1>1 DEF ClimbInv, Disclosed
  <2> QED
    BY <1>1, <2>1, <2>3, <2>4, GoesOn
<1>4. CASE ReceiptFault(doc) # "none"
  <2>1. pc' = "done" /\ verdict' = Rejected(3, ReceiptFault(doc)) /\ verdict' # Undecided
    BY <1>4, RejectedIsDecided DEF CheckReceipts, Reject, Decide, Pass
  <2>2. ASSUME NEW port \in Ports, PortReceiptFault(port, doc) = ReceiptFault(doc)
        PROVE  Answer(port, 7, doc, policy) = verdict'
    BY <1>2, <1>4, <2>1, <2>2 DEF Answer, Fault, Unless
  <2>3. Narrow(doc) => \A port \in {"python", "typescript"} : Answer(port, 7, doc, policy) = verdict'
    BY <2>2, SetsAlike DEF Ports
  <2>4. Narrow(doc) => OutsideGo(doc)' \/ Answer("go", 7, doc, policy) = verdict'
    BY <1>1, <2>1, <2>2, SetsAlike DEF Ports, OutsideGo
  <2> QED
    BY <1>1, <2>1, <2>3, <2>4, Answers DEF ClimbInv, Ports
<1> QED
  BY <1>3, <1>4

LEMMA ParentsRungKept == ClimbInv /\ CheckParents => ClimbInv' /\ LaddersAgree'
<1> SUFFICES ASSUME ClimbInv, CheckParents PROVE ClimbInv' /\ LaddersAgree'
  OBVIOUS
<1>1. /\ pc = "parents" /\ doc' = doc /\ policy' = policy
      /\ pc \in DOMAIN Place /\ Place[pc] = 8
  BY DEF CheckParents, Reject, Decide, Pass, Place
<1>2. \A port \in Ports :
        Rung(Order[8], port, doc, policy) = Fault(3, PortParentFault(port, doc))
  BY OrderOf, RungsByName
<1>3. CASE ParentFault(doc) = "none"
  <2>1. /\ pc' = "streams" /\ pc' \in DOMAIN Place /\ Place[pc'] = 9
        /\ metadata' = [metadata EXCEPT !.unattested = UnattestedParents(doc)]
    BY <1>3 DEF CheckParents, Reject, Decide, Pass, Place
  <2>2. Narrow(doc) => \A port \in Ports : Rung(Order[8], port, doc, policy) = Undecided
    BY <1>2, <1>3, SetsAlike DEF Fault, Unless, Ports
  <2>3. Narrow(doc) => \A port \in Ports : Behind(port, 8 + 1, doc, policy)
    BY <1>1, <2>2, OneRungMore DEF ClimbInv
  <2>4. Narrow(doc) => metadata' = Disclosed("python", 9, doc, policy)
    BY <1>1, <2>1 DEF ClimbInv, Disclosed
  <2> QED
    BY <1>1, <2>1, <2>3, <2>4, GoesOn
<1>4. CASE ParentFault(doc) # "none"
  <2>1. /\ pc' = "done" /\ verdict' = Rejected(3, ParentFault(doc)) /\ verdict' # Undecided
        /\ metadata' = metadata
    BY <1>4, RejectedIsDecided DEF CheckParents, Reject, Decide, Pass
  <2>2. ASSUME NEW port \in Ports, PortParentFault(port, doc) = ParentFault(doc)
        PROVE  Answer(port, 8, doc, policy) = verdict'
    BY <1>2, <1>4, <2>1, <2>2 DEF Answer, Fault, Unless
  <2>3. Narrow(doc) => \A port \in {"python", "typescript"} : Answer(port, 8, doc, policy) = verdict'
    BY <2>2, SetsAlike DEF Ports
  <2>4. Narrow(doc) => OutsideGo(doc)' \/ Answer("go", 8, doc, policy) = verdict'
    BY <1>1, <2>1, <2>2, SetsAlike DEF Ports, OutsideGo
  <2> QED
    BY <1>1, <2>1, <2>3, <2>4, Answers DEF ClimbInv, Ports
<1> QED
  BY <1>3, <1>4

LEMMA StreamsRungKept == ClimbInv /\ CheckStreams => ClimbInv' /\ LaddersAgree'
<1> SUFFICES ASSUME ClimbInv, CheckStreams PROVE ClimbInv' /\ LaddersAgree'
  OBVIOUS
<1> DEFINE fault == VerifyStreamingMerkleRoots(doc.activity)
<1>1. /\ pc = "streams" /\ doc' = doc /\ policy' = policy /\ metadata' = metadata
      /\ pc \in DOMAIN Place /\ Place[pc] = 9
  BY DEF CheckStreams, Reject, Decide, Pass, Place
<1>2. \A port \in Ports : Rung(Order[9], port, doc, policy) = Fault(3, fault)
  BY OrderOf, RungsByName
<1>3. CASE fault = "none"
  <2>1. pc' = "record" /\ pc' \in DOMAIN Place /\ Place[pc'] = 10
    BY <1>3 DEF CheckStreams, Reject, Decide, Pass, Place
  <2>2. \A port \in Ports : Rung(Order[9], port, doc, policy) = Undecided
    BY <1>2, <1>3 DEF Fault, Unless
  <2>3. Narrow(doc) => \A port \in Ports : Behind(port, 9 + 1, doc, policy)
    BY <1>1, <2>2, OneRungMore DEF ClimbInv
  <2>4. Narrow(doc) => metadata' = Disclosed("python", 10, doc, policy)
    BY <1>1 DEF ClimbInv, Disclosed
  <2> QED
    BY <1>1, <2>1, <2>3, <2>4, GoesOn
<1>4. CASE fault # "none"
  <2>1. pc' = "done" /\ verdict' = Rejected(3, fault) /\ verdict' # Undecided
    BY <1>4, RejectedIsDecided DEF CheckStreams, Reject, Decide, Pass
  <2>2. \A port \in Ports : Answer(port, 9, doc, policy) = verdict'
    BY <1>2, <1>4, <2>1 DEF Answer, Fault, Unless
  <2>3. OutsideGo(doc)'
    BY <1>1, <1>4, <2>1 DEF OutsideGo
  <2> QED
    BY <1>1, <2>1, <2>2, <2>3, Answers DEF ClimbInv, Ports
<1> QED
  BY <1>3, <1>4

LEMMA RecordRungKept == ClimbInv /\ CheckActivityRecord => ClimbInv' /\ LaddersAgree'
<1> SUFFICES ASSUME ClimbInv, CheckActivityRecord PROVE ClimbInv' /\ LaddersAgree'
  OBVIOUS
<1> DEFINE record == policy.customer_activity
           fault  == IF record = NoValue THEN "none"
                     ELSE VerifyCustomerDeclaredActivity(doc.customer_declared_activity_root,
                                                         doc.cdp_version, record)
           said   == IF record # NoValue THEN TRUE
                     ELSE IF doc.customer_declared_activity_root # NoValue THEN FALSE ELSE NoValue
<1>1. /\ pc = "record" /\ doc' = doc /\ policy' = policy
      /\ pc \in DOMAIN Place /\ Place[pc] = 10
  BY DEF CheckActivityRecord, Reject, Decide, Pass, Place
<1>2. /\ \A port \in Ports : Rung(Order[10], port, doc, policy) = RecordRung(doc, policy)
      /\ RecordRung(doc, policy) = Fault(3, fault)
  BY OrderOf, RungsByName DEF RecordRung, Fault, Unless
<1>3. CASE fault = "none"
  <2>1. pc' = "final_hash" /\ pc' \in DOMAIN Place /\ Place[pc'] = 11
    <3>1. pc' = "final_hash"
      BY <1>3, Zenon DEF CheckActivityRecord, Reject, Decide, Pass
    <3> QED
      BY <3>1 DEF Place
  <2>6. metadata' = [metadata EXCEPT !.checked = said]
    <3> DEFINE stated == CASE record # NoValue -> TRUE
                           [] record = NoValue /\ doc.customer_declared_activity_root # NoValue -> FALSE
                           [] OTHER -> NoValue
    <3>1. metadata' = [metadata EXCEPT !.checked = stated]
      <4> HIDE DEF fault
      <4> QED
        BY <1>3 DEF CheckActivityRecord, Reject, Decide, Pass, fault
    <3>2. stated = said
      <4>1. CASE record # NoValue
        BY <4>1
      <4>2. CASE record = NoValue /\ doc.customer_declared_activity_root # NoValue
        BY <4>2
      <4>3. CASE record = NoValue /\ doc.customer_declared_activity_root = NoValue
        BY <4>3
      <4> QED
        BY <4>1, <4>2, <4>3
    <3> QED
      BY <3>1, <3>2
  <2>2. \A port \in Ports : Rung(Order[10], port, doc, policy) = Undecided
    BY <1>2, <1>3 DEF Fault, Unless
  <2>3. Narrow(doc) => \A port \in Ports : Behind(port, 10 + 1, doc, policy)
    BY <1>1, <2>2, OneRungMore DEF ClimbInv
  <2>4. Disclosed("python", 11, doc, policy)
          = [Disclosed("python", 10, doc, policy) EXCEPT !.checked = said]
    <3> HIDE DEF said
    <3>1. /\ Disclosed("python", 10, doc, policy) =
               [region |-> Region(doc),
                recovered |-> IF doc.destroyed_at = NoValue THEN doc.key_id_time ELSE NoValue,
                unattested |-> UnattestedParents(doc), checked |-> NoValue]
          /\ Disclosed("python", 11, doc, policy) =
               [region |-> Region(doc),
                recovered |-> IF doc.destroyed_at = NoValue THEN doc.key_id_time ELSE NoValue,
                unattested |-> UnattestedParents(doc), checked |-> said]
      BY DEF Disclosed, said
    <3> QED
      BY <3>1
  <2>5. Narrow(doc) => metadata' = Disclosed("python", 11, doc, policy)
    <3> HIDE DEF said
    <3> QED
      BY <1>1, <2>4, <2>6 DEF ClimbInv
  <2> HIDE DEF said, fault
  <2> QED
    BY <1>1, <2>1, <2>3, <2>5, GoesOn
<1>4. CASE fault # "none"
  <2>1. /\ pc' = "done" /\ verdict' = Rejected(3, fault) /\ verdict' # Undecided
        /\ metadata' = metadata
    BY <1>4, RejectedIsDecided DEF CheckActivityRecord, Reject, Decide, Pass
  <2>2. \A port \in Ports : Answer(port, 10, doc, policy) = verdict'
    BY <1>2, <1>4, <2>1 DEF Answer, Fault, Unless
  <2> QED
    BY <1>1, <2>1, <2>2, Answers DEF ClimbInv, Ports
<1> QED
  BY <1>3, <1>4

LEMMA FinalHashRungKept == ClimbInv /\ CheckFinalHash => ClimbInv' /\ LaddersAgree'
<1> SUFFICES ASSUME ClimbInv, CheckFinalHash PROVE ClimbInv' /\ LaddersAgree'
  OBVIOUS
<1> DEFINE bound == doc.final_hash = doc.chain[ChainSteps].chain_hash
           known == {doc.algorithm, doc.signature_algorithm} \subseteq {NoValue, "Ed25519"}
<1>1. /\ pc = "final_hash" /\ doc' = doc /\ policy' = policy /\ metadata' = metadata
      /\ pc \in DOMAIN Place /\ Place[pc] = 11
  BY DEF CheckFinalHash, Reject, Decide, Pass, Place
<1>2. \A port \in Ports :
        /\ Rung(Order[11], port, doc, policy) = Unless(bound, 4, "FinalHashMismatch")
        /\ Rung(Order[12], port, doc, policy) = Unless(known, 4, "AlgorithmUnsupported")
  BY OrderOf, RungsByName
<1>3. \A k \in {11, 12, 13} : Narrow(doc) => metadata' = Disclosed("python", k, doc, policy)
  <2>1. /\ Disclosed("python", 12, doc, policy) = Disclosed("python", 11, doc, policy)
        /\ Disclosed("python", 13, doc, policy) = Disclosed("python", 11, doc, policy)
    BY DEF Disclosed
  <2> QED
    BY <1>1, <2>1 DEF ClimbInv
<1>4. CASE ~bound
  <2>1. /\ pc' = "done" /\ verdict' = Rejected(4, "FinalHashMismatch") /\ verdict' # Undecided
    BY <1>4, RejectedIsDecided DEF CheckFinalHash, Reject, Decide, Pass
  <2>2. \A port \in Ports : Answer(port, 11, doc, policy) = verdict'
    BY <1>2, <1>4, <2>1 DEF Answer, Unless
  <2> QED
    BY <1>1, <2>1, <2>2, Answers DEF ClimbInv, Ports
<1>5. CASE bound
  <2>1. Narrow(doc) => \A port \in Ports : Behind(port, 11 + 1, doc, policy)
    BY <1>1, <1>2, <1>5, OneRungMore DEF ClimbInv, Unless
  <2>2. CASE known
    <3>1. pc' = "signature" /\ pc' \in DOMAIN Place /\ Place[pc'] = 13
      BY <1>5, <2>2 DEF CheckFinalHash, Reject, Decide, Pass, Place
    <3>2. Narrow(doc) => \A port \in Ports : Behind(port, 12 + 1, doc, policy)
      BY <1>2, <2>1, <2>2, OneRungMore DEF Unless
    <3> QED
      BY <1>1, <1>3, <3>1, <3>2, GoesOn
  <2>3. CASE ~known
    <3>1. pc' = "done" /\ verdict' = Rejected(4, "AlgorithmUnsupported") /\ verdict' # Undecided
      BY <1>5, <2>3, RejectedIsDecided DEF CheckFinalHash, Reject, Decide, Pass
    <3>2. \A port \in Ports : Answer(port, 12, doc, policy) = verdict'
      BY <1>2, <2>3, <3>1 DEF Answer, Unless
    <3> QED
      BY <1>1, <1>3, <2>1, <3>1, <3>2, Answers DEF Ports
  <2> QED
    BY <2>2, <2>3
<1> QED
  BY <1>4, <1>5

\* With a manifest the ladder goes on where the ports end: nothing is claimed of that.
LEMMA SignatureRungKept == ClimbInv /\ CheckSignature => ClimbInv' /\ LaddersAgree'
<1> SUFFICES ASSUME ClimbInv, CheckSignature PROVE ClimbInv' /\ LaddersAgree'
  OBVIOUS
<1>1. /\ pc = "signature" /\ doc' = doc /\ policy' = policy /\ metadata' = metadata
      /\ pc \in DOMAIN Place /\ Place[pc] = 13
  BY DEF CheckSignature, Reject, Decide, Pass, Place
<1>2. \A port \in Ports : Rung(Order[13], port, doc, policy) = SignatureRung(doc)
  BY OrderOf, RungsByName
<1>3. \A k \in {13, 14} : Narrow(doc) => metadata' = Disclosed("python", k, doc, policy)
  <2>1. Disclosed("python", 14, doc, policy) = Disclosed("python", 13, doc, policy)
    BY DEF Disclosed
  <2> QED
    BY <1>1, <2>1 DEF ClimbInv
<1>4. CASE SignatureRung(doc) # Undecided
  <2>1. /\ pc' = "done" /\ verdict' = SignatureRung(doc)
    BY <1>4, RejectedIsDecided
    DEF CheckSignature, Reject, Decide, Pass, SignatureRung, Unless, NothingToCheck
  <2>2. \A port \in Ports : Answer(port, 13, doc, policy) = verdict'
    BY <1>2, <2>1 DEF Answer
  <2> QED
    BY <1>1, <1>4, <2>1, <2>2, Answers DEF ClimbInv, Ports
<1>5. CASE SignatureRung(doc) = Undecided
  <2>1. Narrow(doc) => \A port \in Ports : Behind(port, 13 + 1, doc, policy)
    BY <1>1, <1>2, <1>5, OneRungMore DEF ClimbInv
  <2>2. NothingToCheck(doc) \/ (~UnsupportedMode(doc) /\ VerifiesUnder(doc, doc.public_key))
    BY <1>5, RejectedIsDecided DEF SignatureRung, Unless
  <2>3. \/ /\ pc' = "done"
           /\ verdict' = Accepted(IF NothingToCheck(doc) THEN 4 ELSE 7)
        \/ pc' = "anchor" /\ policy.trust_chain # NoValue
    BY <2>2 DEF CheckSignature, Reject, Decide, Pass, NothingToCheck
  <2>4. CASE pc' = "done" /\ verdict' = Accepted(IF NothingToCheck(doc) THEN 4 ELSE 7)
    <3>1. \A port \in Ports : Answer(port, 14, doc, policy) = verdict'
      BY <2>4 DEF Answer
    <3> QED
      BY <1>1, <1>3, <2>1, <2>4, <3>1, Answers DEF Ports
  <2>5. CASE pc' = "anchor" /\ policy.trust_chain # NoValue
    BY <1>1, <2>5 DEF ClimbInv, Place, LaddersAgree, PortsAgree, GoDiffersByMissingChecksOnly, Judged
  <2> QED
    BY <2>3, <2>4, <2>5
<1> QED
  BY <1>4, <1>5

LEMMA AnchorRungKept == ClimbInv /\ AnchorToTrustChain => ClimbInv' /\ LaddersAgree'
<1> SUFFICES ASSUME ClimbInv, AnchorToTrustChain PROVE ClimbInv' /\ LaddersAgree'
  OBVIOUS
<1>1. pc' = "done" /\ policy' = policy /\ policy.trust_chain # NoValue
  BY DEF AnchorToTrustChain, Reject, Decide, ClimbInv
<1> QED
  BY <1>1 DEF ClimbInv, Place, LaddersAgree, PortsAgree, GoDiffersByMissingChecksOnly, Judged

LEMMA ClimbInit == Init => ClimbInv /\ LaddersAgree
BY DEF Init, ClimbInv, Place, LaddersAgree, PortsAgree, GoDiffersByMissingChecksOnly, Judged

LEMMA ClimbNext ==
  ClimbInv /\ LaddersAgree /\ [Next]_vars => ClimbInv' /\ LaddersAgree'
<1> SUFFICES ASSUME ClimbInv, LaddersAgree, [Next]_vars PROVE ClimbInv' /\ LaddersAgree'
  OBVIOUS
<1>1. CASE EditField \/ SwapSignature \/ SignAnew
  <2>1. pc' = "transit" /\ pc = "transit" /\ metadata' = metadata
    BY <1>1 DEF EditField, SwapSignature, SignAnew, Change
  <2> QED
    BY <2>1 DEF ClimbInv, Place, LaddersAgree, PortsAgree, GoDiffersByMissingChecksOnly, Judged
<1>2. CASE Submit
  <2>1. pc' = "version" /\ pc = "transit" /\ metadata' = NoMetadata
    BY <1>2 DEF Submit, ClimbInv
  <2>2. metadata' = Disclosed("python", 1, doc', policy')
    BY <2>1 DEF NoMetadata, Disclosed
  <2>3. \A port \in Ports : Behind(port, 1, doc', policy')
    BY DEF Behind
  <2>4. pc' \in DOMAIN Place /\ Place[pc'] = 1
    BY <2>1 DEF Place
  <2> QED
    BY <2>1, <2>2, <2>3, <2>4
    DEF ClimbInv, LaddersAgree, PortsAgree, GoDiffersByMissingChecksOnly, Judged
<1>3. CASE Ladder
  BY <1>3, VersionRungKept, UnsignedFieldsRungKept, PinsRungKept, ShapeRungKept, WalkRungKept,
     ReceiptsRungKept, ParentsRungKept, StreamsRungKept, RecordRungKept, FinalHashRungKept,
     SignatureRungKept, AnchorRungKept DEF Ladder
<1>4. CASE UNCHANGED vars
  BY <1>4 DEF vars, ClimbInv, LaddersAgree, PortsAgree, GoDiffersByMissingChecksOnly, Judged,
     Conforms, OutsideGo
<1> QED
  BY <1>1, <1>2, <1>3, <1>4 DEF Next, Done

\* One document, one policy, four ladders and one verdict, but for the faults that Go
\* does not look for: for every document, changed or not, at every rung it may fall at.
THEOREM OneDocumentOneVerdict == Spec => []LaddersAgree
  BY ClimbInit, ClimbNext, PTL DEF Spec
=============================================================================
