---------------------------- MODULE Anchors_proofs ----------------------------
(***************************************************************************)
(* What an auditor's two anchors are worth.                                *)
(*                                                                         *)
(* The identity manifest (TrustRoot): what a trusted manifest is, for      *)
(* every identity, pin, number of versions and of alterations, and for     *)
(* manifests of a later schema too.                                        *)
(*                                                                         *)
(* The log checkpoint (TransparencyLog, Checkpoint): both kinds of proof   *)
(* of the append-only tree are complete and sound, for every size and      *)
(* every index, so that a checkpoint that is followed never commits to     *)
(* another history, and an anchored AuditProof stays where it was.         *)
(***************************************************************************)
EXTENDS TrustRoot, TransparencyLog, Common_proofs, TLAPS

Fields == {"schema_version", "issued_at", "authorities", "identity_fingerprint",
           "identity_public_key", "manifest_signature", "pqc_manifest_signature"}

\* A signature that was made: over a payload, or over one with fields this
\* build does not know.
Made(signature, given) ==
  \E s \in given :
    /\ signature.key = s[1]
    /\ \/ signature.message = s[2]
       \/ \E future \in Future : signature.message = [known |-> s[2], future |-> future]

Readable(m) == m = [f \in Fields |-> m[f]]

\* A manifest as it may reach the auditor.
Sound(m, given) ==
  /\ Readable(m)
  /\ m.manifest_signature = NoValue \/ Made(m.manifest_signature, given)

PayloadFields == Fields \ Signatures

\* A document that was given out, or is supplied.
Carries(d, given) == "manifest" \in DOMAIN d /\ Sound(d.manifest, given)

Inv ==
  /\ now \in Nat
  /\ \A d \in published : Carries(d, signed)
  /\ option # NoValue => Carries(option, signed)
  /\ \A s \in signed : DOMAIN s[2] = PayloadFields

\* What the publisher signs bears its date, and after the revocation the
\* revocation.
Dated ==
  /\ now \in Nat
  /\ record = [active_versions   |-> record.active_versions,
               archived_versions |-> record.archived_versions,
               revoked           |-> record.revoked]
  /\ revokedAt # NoValue => record.revoked
  /\ \A s \in signed : s[1] = Publisher =>
       /\ s[2].issued_at \in Nat /\ s[2].issued_at < now
       /\ revokedAt # NoValue /\ revokedAt <= s[2].issued_at
            => s[2].authorities[Authority].revoked

-----------------------------------------------------------------------------
(* Signing.                                                                *)

\* The payload of a manifest does not depend on its signatures.
LEMMA PayloadLemma ==
  ASSUME NEW m, Readable(m)
  PROVE  /\ DOMAIN SignedPayload(m) = PayloadFields
         /\ \A f \in PayloadFields : SignedPayload(m)[f] = m[f]
BY DEF SignedPayload, Readable, PayloadFields, Signatures

\* Altering a signature alters no payload.
LEMMA UnsignedPayload ==
  ASSUME NEW m, NEW x, Readable(m)
  PROVE  /\ Readable([m EXCEPT !.manifest_signature = x])
         /\ SignedPayload([m EXCEPT !.manifest_signature = x]) = SignedPayload(m)
         /\ [m EXCEPT !.manifest_signature = x].manifest_signature = x
<1> DEFINE n == [m EXCEPT !.manifest_signature = x]
<1>1. "manifest_signature" \in DOMAIN m /\ DOMAIN m = Fields
  BY DEF Readable, Fields
<1>2. DOMAIN n = Fields /\ n.manifest_signature = x
  BY <1>1
<1>3. \A f \in Fields : f # "manifest_signature" => n[f] = m[f]
  BY <1>1
<1>4. Readable(n)
  BY <1>1, <1>2 DEF Readable
<1>5. SignedPayload(n) = SignedPayload(m)
  BY <1>1, <1>2, <1>3 DEF SignedPayload, Signatures
<1> QED
  BY <1>2, <1>4, <1>5

\* build_and_sign: the signature is over the payload, the date is in it.
LEMMA BuildLemma ==
  ASSUME NEW at, NEW authorities, NEW identity
  PROVE  LET m == BuildAndSign(at, authorities, identity)
         IN  /\ Readable(m)
             /\ m.manifest_signature = [key |-> identity, message |-> SignedPayload(m)]
             /\ DOMAIN SignedPayload(m) = PayloadFields
             /\ SignedPayload(m).issued_at = at
             /\ SignedPayload(m).authorities = authorities
<1> DEFINE u == [schema_version         |-> "1",
                 issued_at              |-> at,
                 authorities            |-> authorities,
                 identity_fingerprint   |-> Fingerprint(identity),
                 identity_public_key    |-> identity,
                 manifest_signature     |-> NoValue,
                 pqc_manifest_signature |-> NoValue]
            x == [key |-> identity, message |-> SignedPayload(u)]
            m == [u EXCEPT !.manifest_signature = x]
<1>1. Readable(u)
  BY DEF Readable, Fields
<1>2. BuildAndSign(at, authorities, identity) = m
  BY DEF BuildAndSign
<1> HIDE DEF x
<1>3. Readable(m) /\ SignedPayload(m) = SignedPayload(u) /\ m.manifest_signature = x
  BY <1>1, UnsignedPayload
<1>4. /\ DOMAIN SignedPayload(u) = PayloadFields
      /\ SignedPayload(u).issued_at = at /\ SignedPayload(u).authorities = authorities
  BY DEF SignedPayload, Signatures, PayloadFields, Fields
<1> QED
  BY <1>2, <1>3, <1>4 DEF x

\* A later schema signs more than this build reads.
LEMMA LaterLemma ==
  ASSUME NEW m, NEW future, Readable(m),
         m.manifest_signature = [key |-> m.manifest_signature.key,
                                 message |-> m.manifest_signature.message]
  PROVE  /\ Readable(Signed(m, future))
         /\ SignedPayload(Signed(m, future)) = SignedPayload(m)
         /\ Signed(m, future).manifest_signature.key = m.manifest_signature.key
         /\ \/ Signed(m, future).manifest_signature.message = m.manifest_signature.message
            \/ Signed(m, future).manifest_signature.message
                 = [known |-> m.manifest_signature.message, future |-> future]
<1>1. CASE future = NoValue
  BY <1>1 DEF Signed
<1>2. CASE future # NoValue
  <2> DEFINE x == [m.manifest_signature EXCEPT
                     !.message = [known |-> m.manifest_signature.message, future |-> future]]
  <2>1. Signed(m, future) = [m EXCEPT !.manifest_signature = x]
    BY <1>2 DEF Signed
  <2>2. x.key = m.manifest_signature.key
        /\ x.message = [known |-> m.manifest_signature.message, future |-> future]
    OBVIOUS
  <2> HIDE DEF x
  <2>3. /\ Readable([m EXCEPT !.manifest_signature = x])
        /\ SignedPayload([m EXCEPT !.manifest_signature = x]) = SignedPayload(m)
        /\ [m EXCEPT !.manifest_signature = x].manifest_signature = x
    BY UnsignedPayload
  <2> QED
    BY <2>1, <2>2, <2>3
<1> QED
  BY <1>1, <1>2

-----------------------------------------------------------------------------
(* The invariant.                                                          *)

\* What was signed stays signed.
LEMMA MadeStays ==
  ASSUME NEW d, NEW given, NEW more, Carries(d, given), given \subseteq more
  PROVE  Carries(d, more)
BY DEF Carries, Sound, Made

\* Before anything is published.
LEMMA InitInv == Init => Inv /\ Dated
<1> SUFFICES ASSUME Init PROVE Inv /\ Dated
  OBVIOUS
<1>1. Inv
  BY DEF Init, Inv
<1>2. record = [active_versions   |-> record.active_versions,
                archived_versions |-> record.archived_versions,
                revoked           |-> record.revoked]
  <2>1. PICK active : record = [active_versions |-> active, archived_versions |-> <<>>,
                                revoked |-> FALSE]
    BY DEF Init, AuthorityRecord
  <2> QED
    BY <2>1
<1> QED
  BY <1>1, <1>2 DEF Init, Dated

\* One field taken from another sound manifest, lost, or a second signature.
LEMMA AlteredSound ==
  ASSUME NEW m, NEW given, NEW f, NEW x, Sound(m, given),
         f = "manifest_signature" => x = NoValue \/ Made(x, given)
  PROVE  Sound([m EXCEPT ![f] = x], given)
<1> DEFINE n == [m EXCEPT ![f] = x]
<1>1. DOMAIN m = Fields
  BY DEF Sound, Readable
<1>2. Readable(n)
  BY <1>1 DEF Readable
<1>3. CASE f = "manifest_signature"
  <2>1. n.manifest_signature = x
    BY <1>1, <1>3 DEF Fields
  <2> QED
    BY <1>2, <1>3, <2>1 DEF Sound
<1>4. CASE f # "manifest_signature"
  <2>1. n.manifest_signature = m.manifest_signature
    BY <1>1, <1>4 DEF Fields
  <2> QED
    BY <1>2, <2>1 DEF Sound
<1> QED
  BY <1>3, <1>4

\* What build_and_sign returns carries a signature that was made.
LEMMA SignedSound ==
  ASSUME NEW m, NEW identity, NEW given, Readable(m),
         m.manifest_signature.key = identity,
         \/ m.manifest_signature.message = SignedPayload(m)
         \/ \E future \in Future :
              m.manifest_signature.message = [known |-> SignedPayload(m), future |-> future]
  PROVE  Sound(m, given \cup {<<identity, SignedPayload(m)>>})
<1> DEFINE s == <<identity, SignedPayload(m)>>
<1>1. s \in given \cup {s} /\ s[1] = identity /\ s[2] = SignedPayload(m)
  OBVIOUS
<1>2. Made(m.manifest_signature, given \cup {s})
  BY <1>1 DEF Made
<1> QED
  BY <1>2 DEF Sound

\* A publication is of a payload that is then among the signed ones.
LEMMA PublishSigns ==
  ASSUME NEW future \in Future, NEW at, NEW authorities, NEW identity, NEW given
  PROVE  LET m == Signed(BuildAndSign(at, authorities, identity), future)
         IN  /\ Sound(m, given \cup {<<identity, SignedPayload(m)>>})
             /\ DOMAIN SignedPayload(m) = PayloadFields
             /\ SignedPayload(m).issued_at = at
             /\ SignedPayload(m).authorities = authorities
<1> DEFINE b == BuildAndSign(at, authorities, identity)
           m == Signed(b, future)
<1>1. /\ Readable(b)
      /\ b.manifest_signature = [key |-> identity, message |-> SignedPayload(b)]
      /\ DOMAIN SignedPayload(b) = PayloadFields
      /\ SignedPayload(b).issued_at = at
      /\ SignedPayload(b).authorities = authorities
  BY BuildLemma
<1> HIDE DEF b
<1>2. b.manifest_signature.key = identity /\ b.manifest_signature.message = SignedPayload(b)
  BY <1>1
<1>3. b.manifest_signature = [key |-> b.manifest_signature.key,
                              message |-> b.manifest_signature.message]
  BY <1>1, <1>2
<1>4. /\ Readable(m)
      /\ SignedPayload(m) = SignedPayload(b)
      /\ m.manifest_signature.key = b.manifest_signature.key
      /\ \/ m.manifest_signature.message = b.manifest_signature.message
         \/ m.manifest_signature.message = [known |-> b.manifest_signature.message, future |-> future]
  BY <1>1, <1>3, LaterLemma
<1>5. Sound(m, given \cup {<<identity, SignedPayload(m)>>})
  BY <1>2, <1>4, SignedSound DEF m
<1> QED
  BY <1>1, <1>4, <1>5 DEF b

\* So is a manifest that another identity signs.
LEMMA ImpersonateSigns ==
  ASSUME NEW at, NEW authorities, NEW identity, NEW given
  PROVE  LET m == BuildAndSign(at, authorities, identity)
         IN  /\ Sound(m, given \cup {<<identity, SignedPayload(m)>>})
             /\ DOMAIN SignedPayload(m) = PayloadFields
<1> DEFINE m == BuildAndSign(at, authorities, identity)
<1>1. /\ Readable(m)
      /\ m.manifest_signature = [key |-> identity, message |-> SignedPayload(m)]
      /\ DOMAIN SignedPayload(m) = PayloadFields
  BY BuildLemma
<1>2. m.manifest_signature.key = identity /\ m.manifest_signature.message = SignedPayload(m)
  BY <1>1
<1>3. Sound(m, given \cup {<<identity, SignedPayload(m)>>})
  BY <1>1, <1>2, SignedSound
<1> QED
  BY <1>1, <1>3

\* Every action keeps the invariant.
LEMMA NextInv == Inv /\ [Next]_vars => Inv'
<1> SUFFICES ASSUME Inv, [Next]_vars PROVE Inv'
  OBVIOUS
<1>1. CASE Publish
  <2>1. PICK future \in Future :
          LET m == Signed(BuildAndSign(now, Of(record), Publisher), future)
          IN  /\ published' = published \cup {Document(m, future)}
              /\ signed' = signed \cup {<<Publisher, SignedPayload(m)>>}
    BY <1>1 DEF Publish
  <2> DEFINE m == Signed(BuildAndSign(now, Of(record), Publisher), future)
             s == <<Publisher, SignedPayload(m)>>
  <2>2. Sound(m, signed \cup {s}) /\ DOMAIN SignedPayload(m) = PayloadFields
    BY PublishSigns
  <2>3. published' = published \cup {Document(m, future)} /\ signed' = signed \cup {s}
    BY <2>1
  <2> HIDE DEF m
  <2>4. now' \in Nat /\ option' = option
    BY <1>1 DEF Publish, Inv
  <2>5. Carries(Document(m, future), signed')
    BY <2>2, <2>3 DEF Document, Carries
  <2>6. \A d \in published' : Carries(d, signed')
    BY <2>2, <2>3, <2>5, MadeStays DEF Inv
  <2>7. option' # NoValue => Carries(option', signed')
    BY <2>3, <2>4, MadeStays DEF Inv
  <2>8. \A t \in signed' : DOMAIN t[2] = PayloadFields
    BY <2>2, <2>3 DEF Inv
  <2> QED
    BY <2>4, <2>6, <2>7, <2>8 DEF Inv
<1>2. ASSUME NEW identity \in Identities, Impersonate(identity) PROVE Inv'
  <2> DEFINE m == BuildAndSign(now, Of(AuthorityRecord(
                    <<KeyVersionRecord(Versions[1], <<"key of", identity>>)>>, <<>>, FALSE)), identity)
             s == <<identity, SignedPayload(m)>>
  <2>1. Sound(m, signed \cup {s}) /\ DOMAIN SignedPayload(m) = PayloadFields
    BY ImpersonateSigns
  <2>2. published' = published \cup {Document(m, NoValue)} /\ signed' = signed \cup {s}
    BY <1>2 DEF Impersonate
  <2> HIDE DEF m
  <2>3. now' = now /\ option' = option
    BY <1>2 DEF Impersonate
  <2>4. Carries(Document(m, NoValue), signed')
    BY <2>1, <2>2 DEF Document, Carries
  <2>5. \A d \in published' : Carries(d, signed')
    BY <2>1, <2>2, <2>4, MadeStays DEF Inv
  <2>6. option' # NoValue => Carries(option', signed')
    BY <2>2, <2>3, MadeStays DEF Inv
  <2>7. \A t \in signed' : DOMAIN t[2] = PayloadFields
    BY <2>1, <2>2 DEF Inv
  <2> QED
    BY <2>3, <2>5, <2>6, <2>7 DEF Inv
<1>3. CASE Revoke \/ \E i \in DOMAIN Versions : Rotate(i)
  BY <1>3 DEF Revoke, Rotate, Inv
<1>4. ASSUME NEW document \in published, Fetch(document) PROVE Inv'
  BY <1>4 DEF Fetch, Inv
<1>5. ASSUME NEW f, NEW x, f = "manifest_signature" => x = NoValue \/ Made(x, signed),
             Alter([option.manifest EXCEPT ![f] = x])
      PROVE  Inv'
  <2>1. Sound([option.manifest EXCEPT ![f] = x], signed)
    BY <1>5, AlteredSound DEF Alter, Inv, Carries
  <2>2. option' = [option EXCEPT !.manifest = [option.manifest EXCEPT ![f] = x]]
    BY <1>5 DEF Alter
  <2>3. "manifest" \in DOMAIN option
    BY <1>5 DEF Alter, Inv, Carries
  <2>4. Carries(option', signed)
    BY <2>1, <2>2, <2>3 DEF Carries
  <2> QED
    BY <1>5, <2>4 DEF Alter, Inv
<1>6. ASSUME NEW document \in published, NEW f \in DOMAIN document.manifest,
             TakeField(f, document)
      PROVE  Inv'
  BY <1>5, <1>6 DEF TakeField, Inv, Carries, Sound
<1>7. ASSUME NEW f, LoseField(f) PROVE Inv'
  BY <1>5, <1>7 DEF LoseField
<1>8. CASE FillPqc
  <2>1. Alter([option.manifest EXCEPT !["pqc_manifest_signature"] = "post-quantum"])
    BY <1>8 DEF FillPqc
  <2> QED
    BY <1>5, <2>1
<1>9. CASE SetUp
  BY <1>9 DEF SetUp, Inv
<1>10. CASE UNCHANGED vars
  BY <1>10 DEF vars, Inv
<1> QED
  BY <1>1, <1>2, <1>3, <1>4, <1>6, <1>7, <1>8, <1>9, <1>10 DEF Next, Act

\* Only SetUp decides.
LEMMA ActChangesNoOutcome ==
  ASSUME outcome = NoValue, Act, ~SetUp
  PROVE  outcome' = NoValue
BY DEF Act, Publish, Revoke, Rotate, Impersonate, Fetch, Alter, TakeField, LoseField,
       FillPqc

\* The dates and the revocations of what the publisher signs.
LEMMA NextDated == Dated /\ [Next]_vars => Dated'
<1> SUFFICES ASSUME Dated, [Next]_vars PROVE Dated'
  OBVIOUS
<1>1. CASE Publish
  <2>1. PICK future \in Future :
          signed' = signed \cup {<<Publisher, SignedPayload(
            Signed(BuildAndSign(now, Of(record), Publisher), future))>>}
    BY <1>1 DEF Publish
  <2> DEFINE m == Signed(BuildAndSign(now, Of(record), Publisher), future)
  <2>2. /\ Sound(m, signed \cup {<<Publisher, SignedPayload(m)>>})
        /\ SignedPayload(m).issued_at = now
        /\ SignedPayload(m).authorities = Of(record)
    BY PublishSigns
  <2>3. SignedPayload(m).authorities[Authority] = record
    BY <2>2 DEF Of
  <2>4. signed' = signed \cup {<<Publisher, SignedPayload(m)>>}
    BY <2>1
  <2> HIDE DEF m
  <2>5. now' = now + 1 /\ record' = record /\ revokedAt' = revokedAt
    BY <1>1 DEF Publish
  <2> QED
    BY <2>2, <2>3, <2>4, <2>5 DEF Dated
<1>2. CASE Revoke
  <2>1. /\ record' = [record EXCEPT !.revoked = TRUE]
        /\ revokedAt' = now /\ now' = now /\ signed' = signed
    BY <1>2 DEF Revoke
  <2>2. record' = [active_versions |-> record'.active_versions,
                   archived_versions |-> record'.archived_versions,
                   revoked |-> record'.revoked] /\ record'.revoked
    BY <2>1 DEF Dated
  <2> QED
    BY <2>1, <2>2 DEF Dated
<1>3. ASSUME NEW i, Rotate(i) PROVE Dated'
  <2>1. PICK a, b : record' = [record EXCEPT !.archived_versions = a, !.active_versions = b]
    BY <1>3 DEF Rotate
  <2>2. record' = [active_versions |-> record'.active_versions,
                   archived_versions |-> record'.archived_versions,
                   revoked |-> record'.revoked] /\ record'.revoked = record.revoked
    BY <2>1 DEF Dated
  <2>3. revokedAt' = revokedAt /\ now' = now /\ signed' = signed
    BY <1>3 DEF Rotate
  <2> QED
    BY <2>2, <2>3 DEF Dated
<1>4. ASSUME NEW identity, Impersonate(identity) PROVE Dated'
  <2>1. PICK payload : signed' = signed \cup {<<identity, payload>>}
    BY <1>4 DEF Impersonate
  <2>2. identity # Publisher /\ now' = now /\ record' = record /\ revokedAt' = revokedAt
    BY <1>4 DEF Impersonate
  <2> QED
    BY <2>1, <2>2 DEF Dated
<1>5. CASE UNCHANGED <<now, record, revokedAt, signed>>
  BY <1>5 DEF Dated
<1>6. ASSUME NEW document, Fetch(document) PROVE Dated'
  BY <1>5, <1>6 DEF Fetch
<1>7. ASSUME NEW manifest, Alter(manifest) PROVE Dated'
  BY <1>5, <1>7 DEF Alter
<1>8. CASE SetUp
  BY <1>5, <1>8 DEF SetUp
<1>9. CASE UNCHANGED vars
  BY <1>5, <1>9 DEF vars
<1> QED
  BY <1>1, <1>2, <1>3, <1>4, <1>6, <1>7, <1>8, <1>9 DEF Next, Act, TakeField, LoseField, FillPqc

-----------------------------------------------------------------------------
(* What is trusted.                                                        *)

\* verify_signature accepts what the pinned identity signed, as it reads: a
\* signature of a later schema is over fields this build does not have.
LEMMA VerifiedIsSigned ==
  ASSUME NEW m, NEW pinned, Inv, Sound(m, signed),
         m.manifest_signature # NoValue, VerifySignature(m, pinned) = "none"
  PROVE  \E s \in signed : Fingerprint(s[1]) = pinned /\ s[2] = SignedPayload(m)
<1>1. /\ m.identity_public_key \in Identities
      /\ {m.identity_fingerprint, pinned} = {Fingerprint(m.identity_public_key)}
      /\ m.manifest_signature.key = m.identity_public_key
      /\ m.manifest_signature.message = SignedPayload(m)
  BY DEF VerifySignature
<1>2. Fingerprint(m.identity_public_key) = pinned
  BY <1>1
<1>3. PICK s \in signed :
        /\ m.manifest_signature.key = s[1]
        /\ \/ m.manifest_signature.message = s[2]
           \/ \E future \in Future : m.manifest_signature.message = [known |-> s[2], future |-> future]
  BY DEF Sound, Made
<1>4. DOMAIN SignedPayload(m) = PayloadFields
  BY PayloadLemma DEF Sound
<1>5. "known" \notin PayloadFields
  BY DEF PayloadFields, Fields
<1>6. m.manifest_signature.message = s[2]
  <2>1. ASSUME NEW future, m.manifest_signature.message = [known |-> s[2], future |-> future]
        PROVE  FALSE
    <3>1. "known" \in DOMAIN SignedPayload(m)
      BY <1>1, <2>1
    <3> QED
      BY <1>4, <1>5, <3>1
  <2> QED
    BY <1>3, <2>1
<1> QED
  BY <1>1, <1>2, <1>3, <1>6

\* What SetUp leaves behind.
Settled ==
  outcome # NoValue =>
    /\ outcome.trust_chain # NoValue => TrustedManifestIsSigned
    /\ option # NoValue /\ outcome.verifies => outcome.trust_chain = option.manifest
    /\ outcome.trust_chain # NoValue => outcome.trust_chain = option.manifest /\ option # NoValue

\* main trusts the manifest it was given, verified, or stops.
LEMMA SetUpSettles ==
  ASSUME Inv, SetUp
  PROVE  Settled'
<1>1. /\ option' = option /\ pin' = pin /\ signed' = signed
  BY DEF SetUp
<1>2. CASE outcome'.trust_chain = NoValue /\ (option # NoValue => ~outcome'.verifies)
  BY <1>1, <1>2 DEF Settled, TrustedManifestIsSigned, Trusted
<1>3. CASE /\ option # NoValue /\ Loads(option)
           /\ VerifySignature(option.manifest, pin) = "none"
           /\ outcome'.trust_chain = option.manifest
  <2>1. option.manifest.manifest_signature # NoValue /\ Sound(option.manifest, signed)
    BY <1>3 DEF Loads, Mandatory, Inv, Carries
  <2>2. \E s \in signed : Fingerprint(s[1]) = pin /\ s[2] = SignedPayload(option.manifest)
    BY <1>3, <2>1, VerifiedIsSigned
  <2>3. \E s \in signed' : Fingerprint(s[1]) = pin' /\ s[2] = SignedPayload(outcome'.trust_chain)
    BY <1>1, <1>3, <2>2
  <2> QED
    BY <1>1, <1>3, <2>3 DEF Settled, TrustedManifestIsSigned, Trusted
<1> QED
  BY <1>2, <1>3 DEF SetUp, Refuse, Proceed

\* What SetUp left behind stays.
LEMMA NextSettled == Inv /\ Settled /\ [Next]_vars => Settled'
<1> SUFFICES ASSUME Inv, Settled, [Next]_vars PROVE Settled'
  OBVIOUS
<1>1. CASE outcome = NoValue /\ Act /\ ~SetUp
  BY <1>1, ActChangesNoOutcome DEF Settled
<1>2. CASE SetUp
  BY <1>2, SetUpSettles
<1>3. CASE UNCHANGED vars
  BY <1>3 DEF vars, Settled, TrustedManifestIsSigned, Trusted
<1> QED
  BY <1>1, <1>2, <1>3 DEF Next

\* The invariant all three results follow from: signatures are made, dates are
\* true, and what main settled about the manifest stands (main.rs 274-298).
THEOREM Invariance == Spec => [](Inv /\ Dated /\ Settled)
<1>1. Init => Inv /\ Dated /\ Settled
  BY InitInv DEF Init, Settled
<1>2. Inv /\ Dated /\ Settled /\ [Next]_vars => (Inv /\ Dated /\ Settled)'
  BY NextInv, NextDated, NextSettled
<1> QED
  BY <1>1, <1>2, PTL DEF Spec

\* Whoever altered the manifest on the way and however: what is trusted was
\* signed, as it reads, by the identity that is pinned (trust_chain.rs 233-244).
THEOREM TrustedIsSigned == Spec => []TrustedManifestIsSigned
<1>1. Settled => TrustedManifestIsSigned
  BY DEF Settled, TrustedManifestIsSigned, Trusted
<1> QED
  BY <1>1, Invariance, PTL

\* No proof is verified without the manifest that was supplied (main.rs 274-277).
THEOREM NoDowngrade == Spec => []NeverDowngraded
<1>1. Settled => NeverDowngraded
  BY DEF Settled, NeverDowngraded
<1> QED
  BY <1>1, Invariance, PTL

\* An older manifest of the publisher's shows the date it was issued at, and a
\* revocation no later than that date (trust_chain.rs 245).
THEOREM StaleIsDated == Spec => []StaleManifestBearsItsDate
<1>1. ASSUME Inv, Dated, Settled PROVE StaleManifestBearsItsDate
  <2> SUFFICES ASSUME Trusted, pin = Fingerprint(Publisher),
                      revokedAt # NoValue, revokedAt <= outcome.trust_chain.issued_at
               PROVE  outcome.trust_chain.authorities[Authority].revoked
    BY DEF StaleManifestBearsItsDate
  <2> DEFINE m == outcome.trust_chain
  <2>1. Readable(m)
    BY <1>1 DEF Trusted, Settled, Inv, Carries, Sound
  <2>2. PICK s \in signed : Fingerprint(s[1]) = pin /\ s[2] = SignedPayload(m)
    BY <1>1 DEF Trusted, Settled, TrustedManifestIsSigned
  <2>3. s[1] = Publisher
    BY <2>2 DEF Fingerprint
  <2>4. s[2].issued_at = m.issued_at /\ s[2].authorities = m.authorities
    BY <2>1, <2>2, PayloadLemma DEF PayloadFields, Fields, Signatures
  <2> QED
    BY <1>1, <2>2, <2>3, <2>4 DEF Dated
<1> QED
  BY <1>1, Invariance, PTL

-----------------------------------------------------------------------------
(* What is not refused: a manifest as this build's schema has it.          *)

\* A manifest as build_and_sign leaves it.
Genuine(m) ==
  /\ m \in TrustChainManifests
  /\ m.identity_fingerprint = Fingerprint(m.identity_public_key)
  /\ m.manifest_signature.key = m.identity_public_key
  /\ m.manifest_signature.message = SignedPayload(m)

\* The second signature is reserved: nothing is written there but a filler.
Reserved(m) == m.pqc_manifest_signature \in {NoValue, "post-quantum"}

IssuedInv ==
  /\ now \in Nat
  /\ record \in AuthorityRecords
  /\ \A d \in published : Reserved(d.manifest) /\ (d.future = NoValue => Genuine(d.manifest))
  /\ option # NoValue => Reserved(option.manifest)

\* build_and_sign returns a genuine manifest.
LEMMA BuildIsGenuine ==
  ASSUME NEW at \in Nat, NEW authorities \in [{Authority} -> AuthorityRecords],
         NEW identity \in Identities
  PROVE  /\ Genuine(BuildAndSign(at, authorities, identity))
         /\ BuildAndSign(at, authorities, identity).pqc_manifest_signature = NoValue
<1> DEFINE u == [schema_version         |-> "1",
                 issued_at              |-> at,
                 authorities            |-> authorities,
                 identity_fingerprint   |-> Fingerprint(identity),
                 identity_public_key    |-> identity,
                 manifest_signature     |-> NoValue,
                 pqc_manifest_signature |-> NoValue]
            x == [key |-> identity, message |-> SignedPayload(u)]
            m == [u EXCEPT !.manifest_signature = x]
<1>1. BuildAndSign(at, authorities, identity) = m
  BY DEF BuildAndSign
<1>2. SignedPayload(u) = [schema_version       |-> "1",
                          issued_at            |-> at,
                          authorities          |-> authorities,
                          identity_fingerprint |-> Fingerprint(identity),
                          identity_public_key  |-> identity]
  BY DEF SignedPayload, Signatures
<1>3. SignedPayload(u) \in Payloads
  BY <1>2 DEF Payloads
<1>4. x \in ManifestSignatures /\ x.key = identity /\ x.message = SignedPayload(u)
  BY <1>3 DEF ManifestSignatures
<1>5. Readable(u)
  BY DEF Readable, Fields
<1> HIDE DEF x
<1>6. m = [schema_version         |-> "1",
           issued_at              |-> at,
           authorities            |-> authorities,
           identity_fingerprint   |-> Fingerprint(identity),
           identity_public_key    |-> identity,
           manifest_signature     |-> x,
           pqc_manifest_signature |-> NoValue]
  OBVIOUS
<1>7. SignedPayload(m) = SignedPayload(u) /\ m.manifest_signature = x
  BY <1>5, UnsignedPayload
<1>8. /\ m.identity_fingerprint = Fingerprint(identity)
      /\ m.identity_public_key = identity /\ m.pqc_manifest_signature = NoValue
  BY <1>6
<1>9. m \in TrustChainManifests
  BY <1>4, <1>6 DEF TrustChainManifests
<1> HIDE DEF m
<1> QED
  BY <1>1, <1>4, <1>7, <1>8, <1>9 DEF Genuine

\* A later schema alters the first signature only.
LEMMA LaterIsReserved ==
  ASSUME NEW m, NEW future, "pqc_manifest_signature" \in DOMAIN m, Reserved(m)
  PROVE  Reserved(Signed(m, future))
BY DEF Reserved, Signed

\* A record of an authority with one key.
LEMMA FirstRecord ==
  ASSUME NEW i \in DOMAIN Versions, NEW x \in Identities \cup {Versions[j] : j \in DOMAIN Versions}
  PROVE  /\ <<KeyVersionRecord(Versions[i], <<"key of", x>>)>> \in Seq(KeyVersionRecords)
         /\ AuthorityRecord(<<KeyVersionRecord(Versions[i], <<"key of", x>>)>>, <<>>, FALSE)
              \in AuthorityRecords
<1> DEFINE r == KeyVersionRecord(Versions[i], <<"key of", x>>)
<1>1. r \in KeyVersionRecords
  BY DEF KeyVersionRecord, KeyVersionRecords
<1> HIDE DEF r
<1>2. <<r>> \in Seq(KeyVersionRecords)
  BY <1>1
<1>3. AuthorityRecord(<<r>>, <<>>, FALSE) \in AuthorityRecords
  BY <1>2 DEF AuthorityRecord, AuthorityRecords
<1> QED
  BY <1>2, <1>3 DEF r

\* Rotating and revoking leave a record.
LEMMA RecordStays ==
  ASSUME record \in AuthorityRecords, Revoke \/ \E i \in DOMAIN Versions : Rotate(i)
  PROVE  record' \in AuthorityRecords
<1>1. CASE Revoke
  BY <1>1 DEF Revoke, AuthorityRecords
<1>2. ASSUME NEW i \in DOMAIN Versions, Rotate(i) PROVE record' \in AuthorityRecords
  <2> DEFINE new == <<KeyVersionRecord(Versions[i + 1], <<"key of", Versions[i + 1]>>)>>
             old == record.archived_versions \o record.active_versions
  <2>1. i + 1 \in DOMAIN Versions
    <3>1. i \in 1 .. Len(Versions) - 1
      BY <1>2, Zenon DEF Rotate
    <3> QED
      BY <3>1, VersionsAssumption
  <2>2. new \in Seq(KeyVersionRecords)
    BY <2>1, FirstRecord
  <2>3. /\ record.archived_versions \in Seq(KeyVersionRecords)
        /\ record.active_versions \in Seq(KeyVersionRecords) /\ record.revoked \in BOOLEAN
    BY DEF AuthorityRecords
  <2>4. old \in Seq(KeyVersionRecords)
    BY <2>3
  <2>5. record' = [record EXCEPT !.archived_versions = old, !.active_versions = new]
    BY <1>2 DEF Rotate
  <2> HIDE DEF new, old
  <2> QED
    BY <2>2, <2>4, <2>5 DEF AuthorityRecords
<1> QED
  BY <1>1, <1>2

\* Before anything is published.
LEMMA InitIssued == Init => IssuedInv
<1> SUFFICES ASSUME Init PROVE IssuedInv
  OBVIOUS
<1>1. 1 \in DOMAIN Versions
  BY VersionsAssumption
<1>2. record \in AuthorityRecords
  BY <1>1, FirstRecord DEF Init
<1> QED
  BY <1>2 DEF Init, IssuedInv

\* Every action keeps it.
LEMMA NextIssued == Inv /\ IssuedInv /\ [Next]_vars => IssuedInv'
<1> SUFFICES ASSUME Inv, IssuedInv, [Next]_vars PROVE IssuedInv'
  OBVIOUS
<1>1. CASE Publish
  <2>1. PICK future \in Future :
          published' = published \cup
            {Document(Signed(BuildAndSign(now, Of(record), Publisher), future), future)}
    BY <1>1 DEF Publish
  <2> DEFINE b == BuildAndSign(now, Of(record), Publisher)
             d == Document(Signed(b, future), future)
  <2>2. Of(record) \in [{Authority} -> AuthorityRecords]
    BY DEF Of, IssuedInv
  <2>3. Genuine(b) /\ b.pqc_manifest_signature = NoValue
    BY <2>2, BuildIsGenuine, PublisherAssumption DEF IssuedInv
  <2> HIDE DEF b
  <2>4. "pqc_manifest_signature" \in DOMAIN b
    BY <2>3 DEF Genuine, TrustChainManifests
  <2>5. Reserved(Signed(b, future))
    BY <2>3, <2>4, LaterIsReserved DEF Reserved
  <2>6. d.future = NoValue => Genuine(d.manifest)
    BY <2>3 DEF Document, Signed
  <2>7. Reserved(d.manifest)
    BY <2>5 DEF Document
  <2>8. published' = published \cup {d}
    BY <2>1 DEF b
  <2> HIDE DEF d
  <2>9. now' \in Nat /\ record' = record /\ option' = option
    BY <1>1 DEF Publish, IssuedInv
  <2> QED
    BY <2>6, <2>7, <2>8, <2>9 DEF IssuedInv
<1>2. ASSUME NEW identity \in Identities, Impersonate(identity) PROVE IssuedInv'
  <2> DEFINE r == AuthorityRecord(<<KeyVersionRecord(Versions[1], <<"key of", identity>>)>>, <<>>, FALSE)
             d == Document(BuildAndSign(now, Of(r), identity), NoValue)
  <2>1. published' = published \cup {d}
    BY <1>2 DEF Impersonate
  <2>2. r \in AuthorityRecords
    <3>1. 1 \in DOMAIN Versions
      BY VersionsAssumption
    <3> QED
      BY <3>1, FirstRecord
  <2> HIDE DEF r
  <2>3. Of(r) \in [{Authority} -> AuthorityRecords]
    BY <2>2 DEF Of
  <2>4. Genuine(d.manifest) /\ Reserved(d.manifest)
    BY <2>3, BuildIsGenuine DEF IssuedInv, Document, Reserved
  <2> HIDE DEF d
  <2>5. now' = now /\ record' = record /\ option' = option
    BY <1>2 DEF Impersonate
  <2> QED
    BY <2>1, <2>4, <2>5 DEF IssuedInv
<1>3. CASE Revoke \/ \E i \in DOMAIN Versions : Rotate(i)
  <2>1. record' \in AuthorityRecords
    BY <1>3, RecordStays DEF IssuedInv
  <2>2. now' = now /\ published' = published /\ option' = option
    BY <1>3 DEF Revoke, Rotate
  <2> QED
    BY <2>1, <2>2 DEF IssuedInv
<1>4. ASSUME NEW document \in published, Fetch(document) PROVE IssuedInv'
  BY <1>4 DEF Fetch, IssuedInv
<1>5. ASSUME NEW f, NEW x, f = "pqc_manifest_signature" => x \in {NoValue, "post-quantum"},
             Alter([option.manifest EXCEPT ![f] = x])
      PROVE  IssuedInv'
  <2> DEFINE m == [option.manifest EXCEPT ![f] = x]
  <2>1. "manifest" \in DOMAIN option /\ DOMAIN option.manifest = Fields
    BY <1>5 DEF Alter, Inv, Carries, Sound, Readable
  <2>2. Reserved(option.manifest)
    BY <1>5 DEF Alter, IssuedInv
  <2>3. Reserved(m)
    BY <1>5, <2>1, <2>2 DEF Reserved, Fields
  <2>4. option' = [option EXCEPT !.manifest = m]
    BY <1>5 DEF Alter
  <2> HIDE DEF m
  <2>5. option'.manifest = m
    BY <2>1, <2>4
  <2>6. now' = now /\ record' = record /\ published' = published
    BY <1>5 DEF Alter
  <2> QED
    BY <2>3, <2>5, <2>6 DEF IssuedInv
<1>6. ASSUME NEW document \in published, NEW f \in DOMAIN document.manifest,
             TakeField(f, document)
      PROVE  IssuedInv'
  <2>1. document.manifest.pqc_manifest_signature \in {NoValue, "post-quantum"}
    BY DEF IssuedInv, Reserved
  <2> QED
    BY <1>5, <1>6, <2>1 DEF TakeField
<1>7. ASSUME NEW f, LoseField(f) PROVE IssuedInv'
  BY <1>5, <1>7 DEF LoseField
<1>8. CASE FillPqc
  <2>1. Alter([option.manifest EXCEPT !["pqc_manifest_signature"] = "post-quantum"])
    BY <1>8 DEF FillPqc
  <2> QED
    BY <1>5, <2>1
<1>9. CASE SetUp
  BY <1>9 DEF SetUp, IssuedInv
<1>10. CASE UNCHANGED vars
  BY <1>10 DEF vars, IssuedInv
<1> QED
  BY <1>1, <1>2, <1>3, <1>4, <1>6, <1>7, <1>8, <1>9, <1>10 DEF Next, Act

\* The payload is made of the other fields.
LEMMA SamePayload ==
  ASSUME NEW m, NEW n, Readable(m), Readable(n), \A f \in Fields \ Signatures : m[f] = n[f]
  PROVE  SignedPayload(m) = SignedPayload(n)
BY DEF SignedPayload, Readable

\* A genuine manifest but for the reserved signature: it is read, it verifies
\* under its identity, and it is one.
LEMMA GenuineVerifies ==
  ASSUME NEW m, NEW n, Genuine(m), Readable(n), Reserved(n),
         \A f \in Fields \ {"pqc_manifest_signature"} : m[f] = n[f]
  PROVE  /\ Fingerprint(m.identity_public_key) # NoValue
         /\ \A f \in Mandatory : n[f] # NoValue
         /\ VerifySignature(n, Fingerprint(m.identity_public_key)) = "none"
         /\ n # NoValue
<1>1. /\ m.schema_version \in {"1"} /\ m.issued_at \in Nat
      /\ m.authorities \in [{Authority} -> AuthorityRecords]
      /\ m.identity_fingerprint \in {Fingerprint(key) : key \in Identities}
      /\ m.identity_public_key \in Identities
      /\ m.manifest_signature \in ManifestSignatures
  BY DEF Genuine, TrustChainManifests
<1>2. Readable(m)
  BY DEF Genuine, TrustChainManifests, Readable, Fields
<1>3. /\ n.schema_version = m.schema_version /\ n.issued_at = m.issued_at
      /\ n.authorities = m.authorities /\ n.identity_fingerprint = m.identity_fingerprint
      /\ n.identity_public_key = m.identity_public_key
      /\ n.manifest_signature = m.manifest_signature
  BY DEF Fields
<1>4. \A f \in Mandatory : n[f] # NoValue
  BY <1>1, <1>3, NoValueAssumption DEF Mandatory
<1>5. Fingerprint(m.identity_public_key) # NoValue
  BY <1>1, NoValueAssumption
<1>6. SignedPayload(n) = SignedPayload(m)
  BY <1>2, SamePayload DEF Signatures
<1>7. VerifySignature(n, Fingerprint(m.identity_public_key)) = "none"
  BY <1>1, <1>3, <1>6 DEF Genuine, VerifySignature
<1>8. n \in TrustChainManifests
  <2>1. n = [schema_version         |-> n.schema_version,
             issued_at              |-> n.issued_at,
             authorities            |-> n.authorities,
             identity_fingerprint   |-> n.identity_fingerprint,
             identity_public_key    |-> n.identity_public_key,
             manifest_signature     |-> n.manifest_signature,
             pqc_manifest_signature |-> n.pqc_manifest_signature]
    BY DEF Readable, Fields
  <2> QED
    BY <1>1, <1>3, <2>1 DEF TrustChainManifests, Reserved
<1> QED
  BY <1>4, <1>5, <1>7, <1>8, NoValueAssumption

\* main goes on with such a manifest.
LEMMA SetUpTrusts ==
  ASSUME Inv, IssuedInv, SetUp
  PROVE  SignedManifestTrusted'
<1>1. option' = option /\ pin' = pin /\ published' = published
  BY DEF SetUp
<1> SUFFICES ASSUME option # NoValue, NEW d \in published, d.future = NoValue,
                    Fingerprint(d.manifest.identity_public_key) = pin,
                    \A f \in DOMAIN d.manifest \ {"pqc_manifest_signature"} :
                      d.manifest[f] = option.manifest[f]
             PROVE  outcome' # NoValue => outcome'.trust_chain # NoValue
  BY <1>1 DEF SignedManifestTrusted, Trusted
<1>2. /\ Genuine(d.manifest) /\ Reserved(option.manifest)
      /\ Readable(d.manifest) /\ Readable(option.manifest)
  BY DEF IssuedInv, Inv, Carries, Sound
<1>3. \A f \in Fields \ {"pqc_manifest_signature"} : d.manifest[f] = option.manifest[f]
  BY <1>2 DEF Readable
<1>4. /\ pin # NoValue /\ \A f \in Mandatory : option.manifest[f] # NoValue
      /\ VerifySignature(option.manifest, pin) = "none" /\ option.manifest # NoValue
  BY <1>2, <1>3, GenuineVerifies
<1>5. Loads(option)
  BY <1>4 DEF Loads
<1>6. outcome'.trust_chain = option.manifest
  BY <1>4, <1>5 DEF SetUp, Refuse, Proceed
<1> QED
  BY <1>4, <1>6

\* Whoever holds the identity that is pinned is believed: a manifest of this
\* build's schema is trusted, with or without the reserved second signature
\* (trust_chain.rs 673-686).
THEOREM PinnedIdentityIsTrusted == Spec => []SignedManifestTrusted
<1>1. Init => IssuedInv /\ SignedManifestTrusted
  BY InitIssued DEF Init, SignedManifestTrusted
<1>2. Inv /\ IssuedInv /\ [Next]_vars => IssuedInv'
  BY NextIssued
<1>3. Inv /\ IssuedInv /\ SignedManifestTrusted /\ [Next]_vars => SignedManifestTrusted'
  <2> SUFFICES ASSUME Inv, IssuedInv, SignedManifestTrusted, [Next]_vars
               PROVE  SignedManifestTrusted'
    OBVIOUS
  <2>1. CASE outcome = NoValue /\ Act /\ ~SetUp
    BY <2>1, ActChangesNoOutcome DEF SignedManifestTrusted
  <2>2. CASE SetUp
    BY <2>2, SetUpTrusts
  <2>3. CASE UNCHANGED vars
    BY <2>3 DEF vars, SignedManifestTrusted, Trusted
  <2> QED
    BY <2>1, <2>2, <2>3 DEF Next
<1> QED
  BY <1>1, <1>2, <1>3, Invariance, PTL DEF Spec

-----------------------------------------------------------------------------
(* Powers of two.                                                          *)

Doubled(f, N) == f = [j \in 0 .. N |-> IF j = 0 THEN 1 ELSE 2 * f[j - 1]]

\* The doubling from one on: up to every number, and the same up to each.
LEMMA DoublingExists == \A N \in Nat : \E f : Doubled(f, N)
<1> DEFINE S == {n \in Nat : \E f : Doubled(f, n)}
<1>1. 0 \in S
  <2> DEFINE f == [j \in 0 .. 0 |-> 1]
  <2>1. Doubled(f, 0)
    BY DEF Doubled
  <2> QED
    BY <2>1, Zenon
<1>2. ASSUME NEW n \in Nat, n \in S PROVE n + 1 \in S
  <2>1. PICK f : Doubled(f, n)
    BY <1>2
  <2>2. \A j \in 0 .. n : f[j] = IF j = 0 THEN 1 ELSE 2 * f[j - 1]
    BY <2>1 DEF Doubled
  <2> DEFINE g == [j \in 0 .. n + 1 |-> IF j = n + 1 THEN 2 * f[n] ELSE f[j]]
  <2>3. \A j \in 0 .. n + 1 : g[j] = IF j = 0 THEN 1 ELSE 2 * g[j - 1]
    <3> TAKE j \in 0 .. n + 1
    <3>1. CASE j = n + 1
      BY <3>1
    <3>2. CASE j \in 0 .. n
      BY <2>2, <3>2
    <3> QED
      BY <3>1, <3>2
  <2>4. Doubled(g, n + 1) /\ n + 1 \in Nat
    BY <2>3 DEF Doubled
  <2> QED
    BY <2>4, Zenon
<1> HIDE DEF S
<1>3. Nat \subseteq S
  BY <1>1, <1>2, SetInduction
<1> QED
  BY <1>3 DEF S

LEMMA DoubledAt ==
  ASSUME NEW N \in Nat, NEW f, Doubled(f, N), NEW j \in 0 .. N
  PROVE  f[j] = IF j = 0 THEN 1 ELSE 2 * f[j - 1]
BY DEF Doubled

LEMMA DoublingAgrees ==
  ASSUME NEW M \in Nat, NEW N \in Nat, NEW f, NEW g, Doubled(f, M), Doubled(g, N)
  PROVE  \A j \in Nat : j <= M /\ j <= N => f[j] = g[j]
<1> DEFINE S == {j \in Nat : j <= M /\ j <= N => f[j] = g[j]}
<1>1. /\ \A j \in 0 .. M : f[j] = IF j = 0 THEN 1 ELSE 2 * f[j - 1]
      /\ \A j \in 0 .. N : g[j] = IF j = 0 THEN 1 ELSE 2 * g[j - 1]
  BY DEF Doubled
<1>2. 0 \in S
  BY <1>1
<1>3. ASSUME NEW j \in Nat, j \in S PROVE j + 1 \in S
  BY <1>1, <1>3
<1> HIDE DEF S
<1>4. Nat \subseteq S
  BY <1>2, <1>3, SetInduction
<1> QED
  BY <1>4 DEF S

\* PowerOfTwo is what its recursion says.
LEMMA PowersUnfold ==
  /\ PowerOfTwo[0] = 1
  /\ \A j \in Nat : PowerOfTwo[j + 1] = 2 * PowerOfTwo[j]
<1> DEFINE Powers(f) == f = [j \in Nat |-> IF j = 0 THEN 1 ELSE 2 * f[j - 1]]
           Up(n) == CHOOSE f : Doubled(f, n)
           h == [n \in Nat |-> Up(n)[n]]
<1>1. \A n \in Nat : Doubled(Up(n), n)
  BY DoublingExists, Zenon
<1>2. \A n \in Nat : h[n] = IF n = 0 THEN 1 ELSE 2 * h[n - 1]
  <2> TAKE n \in Nat
  <2>1. Up(n)[n] = IF n = 0 THEN 1 ELSE 2 * Up(n)[n - 1]
    <3> HIDE DEF Up
    <3> QED
      BY <1>1, DoubledAt
  <2>2. CASE n = 0
    BY <2>1, <2>2
  <2>3. CASE n # 0
    <3>1. n - 1 \in Nat /\ n - 1 <= n
      BY <2>3
    <3>2. Up(n)[n - 1] = Up(n - 1)[n - 1]
      <4> HIDE DEF Up
      <4> QED
        BY <1>1, <3>1, DoublingAgrees
    <3> QED
      BY <2>1, <2>3, <3>1, <3>2
  <2> QED
    BY <2>2, <2>3
<1>3. Powers(h)
  <2> HIDE DEF Up
  <2> QED
    BY <1>2
<1>4. Powers(PowerOfTwo)
  <2>1. PowerOfTwo = CHOOSE f : Powers(f)
    BY DEF PowerOfTwo
  <2> HIDE DEF Powers, h
  <2> QED
    BY <1>3, <2>1
<1>5. \A n \in Nat : PowerOfTwo[n] = IF n = 0 THEN 1 ELSE 2 * PowerOfTwo[n - 1]
  BY <1>4
<1> QED
  BY <1>5

Powers == {PowerOfTwo[j] : j \in Nat}

LEMMA PowerFacts ==
  /\ 1 \in Powers
  /\ \A j \in Nat : PowerOfTwo[j] \in Nat /\ j < PowerOfTwo[j] /\ PowerOfTwo[j] \in Powers
  /\ \A w \in Powers : w \in Nat /\ w >= 1 /\ 2 * w \in Powers
<1> DEFINE S == {j \in Nat : PowerOfTwo[j] \in Nat /\ j < PowerOfTwo[j]}
<1>1. 0 \in S
  BY PowersUnfold
<1>2. ASSUME NEW j \in Nat, j \in S PROVE j + 1 \in S
  BY <1>2, PowersUnfold
<1> HIDE DEF S
<1>3. Nat \subseteq S
  BY <1>1, <1>2, SetInduction
<1>4. \A j \in Nat : PowerOfTwo[j] \in Nat /\ j < PowerOfTwo[j] /\ PowerOfTwo[j] \in Powers
  BY <1>3 DEF S, Powers
<1>5. 1 \in Powers
  BY PowersUnfold DEF Powers
<1>6. ASSUME NEW w \in Powers PROVE w \in Nat /\ w >= 1 /\ 2 * w \in Powers
  <2>1. PICK j \in Nat : w = PowerOfTwo[j]
    BY DEF Powers
  <2>2. 2 * w = PowerOfTwo[j + 1] /\ j + 1 \in Nat
    BY <2>1, PowersUnfold
  <2>3. 2 * w \in Powers
    BY <2>2 DEF Powers
  <2> QED
    BY <1>4, <2>1, <2>3
<1> QED
  BY <1>4, <1>5, <1>6

LEMMA PowersMultiply ==
  ASSUME NEW i \in Nat
  PROVE  \A j \in Nat : PowerOfTwo[i + j] = PowerOfTwo[i] * PowerOfTwo[j]
<1> DEFINE S == {j \in Nat : PowerOfTwo[i + j] = PowerOfTwo[i] * PowerOfTwo[j]}
<1>1. 0 \in S
  BY PowersUnfold, PowerFacts
<1>2. ASSUME NEW j \in Nat, j \in S PROVE j + 1 \in S
  <2>1. PowerOfTwo[i + j] = PowerOfTwo[i] * PowerOfTwo[j]
    BY <1>2
  <2>2. PowerOfTwo[i + j + 1] = 2 * PowerOfTwo[i + j] /\ PowerOfTwo[j + 1] = 2 * PowerOfTwo[j]
    BY PowersUnfold
  <2>3. PowerOfTwo[i] \in Nat /\ PowerOfTwo[j] \in Nat /\ i + (j + 1) = i + j + 1
    BY PowerFacts
  <2>4. PowerOfTwo[i] * (2 * PowerOfTwo[j]) = 2 * (PowerOfTwo[i] * PowerOfTwo[j])
    BY <2>3
  <2>5. PowerOfTwo[i + (j + 1)] = PowerOfTwo[i] * PowerOfTwo[j + 1]
    BY <2>1, <2>2, <2>3, <2>4
  <2> QED
    BY <2>5
<1> HIDE DEF S
<1>3. Nat \subseteq S
  BY <1>1, <1>2, SetInduction
<1> QED
  BY <1>3 DEF S

LEMMA PowersApart ==
  ASSUME NEW i \in Nat, NEW j \in Nat, i < j
  PROVE  2 * PowerOfTwo[i] <= PowerOfTwo[j]
<1> DEFINE S == {d \in Nat : 2 * PowerOfTwo[i] <= PowerOfTwo[i + 1 + d]}
<1>1. 0 \in S
  BY PowersUnfold, PowerFacts
<1>2. ASSUME NEW d \in Nat, d \in S PROVE d + 1 \in S
  <2>1. PowerOfTwo[(i + 1 + d) + 1] = 2 * PowerOfTwo[i + 1 + d] /\ i + 1 + d \in Nat
    BY PowersUnfold
  <2>2. PowerOfTwo[i + 1 + d] \in Nat /\ PowerOfTwo[i] \in Nat
    BY <2>1, PowerFacts
  <2>3. i + 1 + (d + 1) = (i + 1 + d) + 1
    OBVIOUS
  <2> QED
    BY <1>2, <2>1, <2>2, <2>3
<1> HIDE DEF S
<1>3. Nat \subseteq S
  BY <1>1, <1>2, SetInduction
<1>4. j - i - 1 \in Nat /\ i + 1 + (j - i - 1) = j
  OBVIOUS
<1> QED
  BY <1>3, <1>4 DEF S

\* The split point of a number is the power of two it lies above.
LEMMA SplitPointIs ==
  ASSUME NEW n \in Nat, NEW w \in Powers, w < n, n <= 2 * w
  PROVE  SplitPoint(n) = w
<1>1. PICK j \in Nat : w = PowerOfTwo[j]
  BY DEF Powers
<1> DEFINE S == {PowerOfTwo[i] : i \in 0 .. n}
<1>2. w \in S
  <2>1. j < w /\ w \in Nat
    BY <1>1, PowerFacts
  <2> QED
    BY <1>1, <2>1
<1>3. ASSUME NEW k \in S, k < n, n <= 2 * k PROVE k = w
  <2>1. PICK i \in 0 .. n : k = PowerOfTwo[i]
    OBVIOUS
  <2>2. k \in Nat /\ w \in Nat /\ i \in Nat
    BY <1>1, <2>1, PowerFacts
  <2>3. CASE i < j
    BY <1>1, <1>3, <2>1, <2>2, <2>3, PowersApart
  <2>4. CASE j < i
    BY <1>1, <1>3, <2>1, <2>2, <2>4, PowersApart
  <2> QED
    BY <1>1, <2>1, <2>2, <2>3, <2>4
<1> HIDE DEF S
<1> QED
  BY <1>2, <1>3 DEF SplitPoint, S

\* Every number from two on has one.
LEMMA SplitPointSplits ==
  ASSUME NEW n \in Nat, n >= 2
  PROVE  LET k == SplitPoint(n)
         IN  /\ k \in Powers /\ k \in Nat /\ k < n /\ n <= 2 * k /\ k >= 1
             /\ n - k \in Nat /\ n - k >= 1 /\ n - k < n /\ n - k <= k
<1> DEFINE S == {m \in Nat : \E w \in Powers : w < m + 2 /\ m + 2 <= 2 * w}
<1>1. 0 \in S
  BY PowerFacts
<1>2. ASSUME NEW m \in Nat, m \in S PROVE m + 1 \in S
  <2>1. PICK w \in Powers : w < m + 2 /\ m + 2 <= 2 * w
    BY <1>2
  <2>2. w \in Nat /\ w >= 1 /\ 2 * w \in Powers
    BY PowerFacts
  <2>3. CASE m + 3 <= 2 * w
    <3>1. w < m + 1 + 2 /\ m + 1 + 2 <= 2 * w
      BY <2>1, <2>2, <2>3
    <3> QED
      BY <3>1
  <2>4. CASE m + 3 > 2 * w
    <3>1. 2 * w < m + 1 + 2 /\ m + 1 + 2 <= 2 * (2 * w)
      BY <2>1, <2>2, <2>4
    <3> QED
      BY <2>2, <3>1
  <2> QED
    BY <2>2, <2>3, <2>4
<1> HIDE DEF S
<1>3. n - 2 \in S
  BY <1>1, <1>2, SetInduction
<1>4. PICK w \in Powers : w < n /\ n <= 2 * w
  BY <1>3 DEF S
<1>5. SplitPoint(n) = w
  BY <1>4, SplitPointIs
<1> QED
  BY <1>4, <1>5, PowerFacts

-----------------------------------------------------------------------------
(* The recursive definitions, unfolded.                                    *)

\* The loop: a turn for every hash of the proof.
LEMMA ClimbUnfolds ==
  ASSUME NEW start, NEW proof, IsList(proof)
  PROVE  \E c : /\ c[0] = start
                /\ \A i \in 1 .. Len(proof) : c[i] = Rise(c[i - 1], proof[i])
                /\ c[Len(proof)] = Climb(start, proof)
<1> DEFINE N == Len(proof)
           Entry(f, n) == IF n = 0 THEN start ELSE Rise(f[n - 1], proof[n])
           Chain(f, m) == f = [n \in 0 .. m |-> Entry(f, n)]
           S == {m \in 0 .. N : \E f : Chain(f, m)}
           top == CHOOSE f : Chain(f, N)
<1>1. N \in Nat
  BY DEF IsList
<1>2. Climb(start, proof) = top[N]
  BY DEF Climb
<1> HIDE DEF N, Entry
<1>3. ASSUME NEW f, NEW m, Chain(f, m), NEW n \in 0 .. m
      PROVE  f[n] = Entry(f, n)
  BY <1>3
<1>4. 0 \in S
  <2> DEFINE f == [n \in 0 .. 0 |-> start]
  <2>1. Chain(f, 0) /\ 0 \in 0 .. N
    BY <1>1 DEF Entry
  <2> QED
    BY <2>1, Zenon
<1>5. ASSUME NEW m \in 0 .. N - 1, m \in S PROVE m + 1 \in S
  <2>1. PICK f : Chain(f, m)
    BY <1>5
  <2> DEFINE g == [n \in 0 .. m + 1 |-> IF n = m + 1 THEN Rise(f[m], proof[n]) ELSE f[n]]
  <2>2. ASSUME NEW n \in 0 .. m + 1
        PROVE  g[n] = Entry(g, n)
    <3>1. \A l \in 0 .. m : f[l] = Entry(f, l) /\ g[l] = f[l]
      <4> HIDE DEF Chain
      <4>1. \A l \in 0 .. m : f[l] = Entry(f, l)
        BY <1>3, <2>1
      <4> QED
        BY <1>1, <4>1
    <3>2. CASE n = m + 1
      <4>1. g[n] = Rise(f[m], proof[n]) /\ n # 0 /\ n - 1 = m /\ m \in 0 .. m
        BY <1>1, <3>2
      <4> QED
        BY <3>1, <3>2, <4>1 DEF Entry
    <3>3. CASE n \in 0 .. m
      <4>1. n # 0 => n - 1 \in 0 .. m
        BY <1>1, <3>3
      <4> HIDE DEF g
      <4> QED
        BY <3>1, <3>3, <4>1 DEF Entry
    <3> QED
      BY <1>1, <3>2, <3>3
  <2>3. Chain(g, m + 1)
    BY <2>2
  <2>4. m + 1 \in 0 .. N
    BY <1>1
  <2> QED
    BY <2>3, <2>4, Zenon
<1>6. N \in S
  <2> HIDE DEF S
  <2>1. 0 .. N \subseteq S
    BY <1>1, <1>4, <1>5, BoundedInduction
  <2> QED
    BY <1>1, <2>1
<1>7. Chain(top, N)
  BY <1>6
<1> HIDE DEF Chain, top
<1>8. \A n \in 0 .. N : top[n] = Entry(top, n)
  BY <1>3, <1>7
<1>9. 0 \in 0 .. N /\ \A n \in 1 .. N : n \in 0 .. N /\ n # 0
  BY <1>1
<1>10. top[0] = start /\ \A n \in 1 .. N : top[n] = Rise(top[n - 1], proof[n])
  BY <1>8, <1>9 DEF Entry
<1>11. top[N] = Climb(start, proof)
  BY <1>2 DEF top
<1> QED
  BY <1>10, <1>11 DEF N

\* What a parent slice splits into.
LEMMA SliceSplits ==
  ASSUME NEW N \in Nat, NEW width \in 1 .. N, NEW at \in 0 .. N - width, width # 1
  PROVE  LET k == SplitPoint(width)
         IN  /\ k \in Powers /\ k \in 1 .. width - 1 /\ width - k \in 1 .. k
             /\ k \in 1 .. N /\ width - k \in 1 .. N
             /\ at \in 0 .. N - k /\ at + k \in 0 .. N - (width - k)
             /\ at \in Nat /\ width \in Nat /\ k \in Nat
<1> DEFINE k == SplitPoint(width)
<1>1. width \in Nat /\ width >= 2 /\ at \in Nat
  OBVIOUS
<1>2. /\ k \in Powers /\ k \in Nat /\ k < width /\ k >= 1
      /\ width - k \in Nat /\ width - k >= 1 /\ width - k <= k
  BY <1>1, SplitPointSplits
<1> HIDE DEF k
<1>3. /\ k \in 1 .. width - 1 /\ width - k \in 1 .. k
      /\ k \in 1 .. N /\ width - k \in 1 .. N
      /\ at \in 0 .. N - k /\ at + k \in 0 .. N - (width - k)
  BY <1>1, <1>2
<1> QED
  BY <1>1, <1>2, <1>3 DEF k

\* What is computed of a slice depends on what was of its two halves.
LEMMA SmallerRows ==
  ASSUME NEW N \in Nat, NEW width \in 1 .. N, width # 1, NEW f, NEW g,
         \A w \in 1 .. width - 1 : f[w] = g[w]
  PROVE  LET k == SplitPoint(width) IN f[k] = g[k] /\ f[width - k] = g[width - k]
<1> DEFINE k == SplitPoint(width)
<1>1. width \in Nat /\ 0 \in 0 .. N - width
  OBVIOUS
<1>2. k \in 1 .. width - 1 /\ width - k \in 1 .. k /\ k \in Nat
  BY <1>1, SliceSplits
<1> HIDE DEF k
<1>3. k \in 1 .. width - 1 /\ width - k \in 1 .. width - 1
  BY <1>1, <1>2
<1>4. f[k] = g[k] /\ f[width - k] = g[width - k]
  BY <1>3
<1> QED
  BY <1>4 DEF k

RootRow(leaves, f, width) ==
  [at \in Slices(leaves, width) |->
     IF width = 1 THEN leaves[at + 1]
     ELSE LET k == SplitPoint(width) IN NodeHash(f[k][at], f[width - k][at + k])]

LEMMA RootRowsAgree ==
  ASSUME NEW leaves, IsList(leaves), NEW width \in 1 .. Len(leaves), NEW f, NEW g,
         \A w \in 1 .. width - 1 : f[w] = g[w]
  PROVE  RootRow(leaves, f, width) = RootRow(leaves, g, width)
<1>1. ASSUME width # 1
      PROVE  LET k == SplitPoint(width) IN f[k] = g[k] /\ f[width - k] = g[width - k]
  BY <1>1, SmallerRows
<1> QED
  BY <1>1 DEF RootRow

LEMMA RootsUnfold ==
  ASSUME NEW leaves, IsList(leaves)
  PROVE  \A width \in 1 .. Len(leaves) :
           Roots(leaves)[width] = RootRow(leaves, Roots(leaves), width)
<1> DEFINE N == Len(leaves)
           Chain(f, m) == f = [n \in 1 .. m |-> RootRow(leaves, f, n)]
           S == {m \in 0 .. N : \E f : Chain(f, m)}
<1>1. N \in Nat
  BY DEF IsList
<1>2. Roots(leaves) = CHOOSE f : Chain(f, N)
  BY DEF Roots, RootRow
<1> HIDE DEF N
<1>3. 0 \in S
  <2> DEFINE f == [n \in 1 .. 0 |-> 0]
  <2>1. Chain(f, 0) /\ 0 \in 0 .. N
    BY <1>1
  <2> QED
    BY <2>1, Zenon
<1>4. ASSUME NEW m \in 0 .. N - 1, m \in S PROVE m + 1 \in S
  <2>1. PICK f : Chain(f, m)
    BY <1>4
  <2> DEFINE g == [n \in 1 .. m + 1 |-> RootRow(leaves, f, n)]
  <2>2. \A n \in 1 .. m : f[n] = g[n]
    <3>1. \A n \in 1 .. m : f[n] = RootRow(leaves, f, n) /\ n \in 1 .. m + 1
      BY <1>1, <2>1
    <3> QED
      BY <3>1
  <2>3. ASSUME NEW n \in 1 .. m + 1
        PROVE  RootRow(leaves, f, n) = RootRow(leaves, g, n)
    <3>1. \A w \in 1 .. n - 1 : f[w] = g[w]
      <4> HIDE DEF g
      <4> QED
        BY <1>1, <2>2
    <3>2. n \in 1 .. N
      BY <1>1
    <3> HIDE DEF g, Chain
    <3> QED
      BY <3>1, <3>2, RootRowsAgree DEF N
  <2>4. Chain(g, m + 1)
    BY <2>3
  <2>5. m + 1 \in 0 .. N
    BY <1>1
  <2> QED
    BY <2>4, <2>5, Zenon
<1>5. N \in S
  <2> HIDE DEF S
  <2>1. 0 .. N \subseteq S
    BY <1>1, <1>3, <1>4, BoundedInduction
  <2> QED
    BY <1>1, <2>1
<1>6. Chain(Roots(leaves), N)
  BY <1>2, <1>5
<1>7. ASSUME NEW f, NEW m, Chain(f, m), NEW n \in 1 .. m
      PROVE  f[n] = RootRow(leaves, f, n)
  BY <1>7
<1> HIDE DEF Chain
<1> QED
  BY <1>6, <1>7 DEF N

\* The hash of a slice: its leaf, or the node over its two halves.
LEMMA RootOfSlice ==
  ASSUME NEW leaves, IsList(leaves), NEW width \in 1 .. Len(leaves),
         NEW at \in 0 .. Len(leaves) - width
  PROVE  LET root == Roots(leaves)
             k    == SplitPoint(width)
         IN  root[width][at] = IF width = 1 THEN leaves[at + 1]
                               ELSE NodeHash(root[k][at], root[width - k][at + k])
<1> DEFINE root == Roots(leaves)
<1>1. root[width] = RootRow(leaves, root, width)
  BY RootsUnfold
<1>2. at \in Slices(leaves, width)
  BY DEF Slices
<1> HIDE DEF root
<1> QED
  BY <1>1, <1>2 DEF RootRow, root

-----------------------------------------------------------------------------
(* Where the loop stands.                                                  *)

\* The odd factor of a number, and how often it can be halved.
LEMMA OddFactor ==
  ASSUME NEW n \in Nat, n # 0
  PROVE  /\ TrailingZeros(n) \in 0 .. n
         /\ \E q \in Nat : n = (2 * q + 1) * PowerOfTwo[TrailingZeros(n)]
<1> DEFINE Odd(m, z) == \E q \in Nat : m = (2 * q + 1) * PowerOfTwo[z]
           S == {m \in Nat : \A l \in 1 .. m : \E z \in Nat : Odd(l, z)}
<1>1. 0 \in S
  OBVIOUS
<1>2. ASSUME NEW m \in Nat, m \in S PROVE m + 1 \in S
  <2>1. \E z \in Nat : Odd(m + 1, z)
    <3> DEFINE h == (m + 1) \div 2
    <3>1. h \in Nat /\ (m + 1 = 2 * h \/ m + 1 = 2 * h + 1)
      BY Halves
    <3>2. CASE m + 1 = 2 * h + 1
      <4>1. PowerOfTwo[0] = 1
        BY PowersUnfold
      <4> HIDE DEF h
      <4>2. Odd(m + 1, 0)
        BY <3>1, <3>2, <4>1
      <4> QED
        BY <4>2
    <3>3. CASE m + 1 = 2 * h
      <4>1. h \in 1 .. m
        BY <3>1, <3>3
      <4>2. PICK z \in Nat : Odd(h, z)
        BY <1>2, <4>1
      <4>3. PICK q \in Nat : h = (2 * q + 1) * PowerOfTwo[z]
        BY <4>2
      <4>4. PowerOfTwo[z + 1] = 2 * PowerOfTwo[z] /\ PowerOfTwo[z] \in Nat /\ z + 1 \in Nat
        BY PowersUnfold, PowerFacts
      <4> HIDE DEF h
      <4>5. m + 1 = (2 * q + 1) * PowerOfTwo[z + 1]
        BY <3>3, <4>3, <4>4
      <4> QED
        BY <4>4, <4>5
    <3> QED
      BY <3>1, <3>2, <3>3
  <2>2. ASSUME NEW l \in 1 .. m + 1 PROVE \E z \in Nat : Odd(l, z)
    <3> HIDE DEF Odd
    <3>1. l \in 1 .. m \/ l = m + 1
      OBVIOUS
    <3> QED
      BY <1>2, <2>1, <3>1
  <2> HIDE DEF Odd
  <2> QED
    BY <2>2
<1> HIDE DEF S
<1>3. n \in S
  BY <1>1, <1>2, SetInduction
<1>4. PICK z \in Nat : Odd(n, z)
  <2>1. n \in 1 .. n
    OBVIOUS
  <2> HIDE DEF Odd
  <2> QED
    BY <1>3, <2>1 DEF S
<1> DEFINE Is(y) == n % PowerOfTwo[y] = 0 /\ ~Even(n \div PowerOfTwo[y])
<1>5. Is(z) /\ z \in 0 .. n
  <2>1. PICK q \in Nat : n = (2 * q + 1) * PowerOfTwo[z]
    BY <1>4
  <2> DEFINE d == PowerOfTwo[z]
             p == 2 * q + 1
  <2>2. d \in Nat /\ z < d /\ d >= 1 /\ p \in Nat /\ p >= 1 /\ n = p * d
    BY <2>1, PowerFacts
  <2> HIDE DEF d
  <2>3. d <= p * d
    <3> HIDE DEF p
    <3> QED
      BY <2>2
  <2>4. n % d = 0
    <3> HIDE DEF p
    <3> QED
      BY <2>2
  <2>5. n \div d = p
    <3> HIDE DEF p
    <3> QED
      BY <2>2
  <2>6. p % 2 = 1
    OBVIOUS
  <2>7. z \in 0 .. n
    <3> HIDE DEF p
    <3> QED
      BY <2>2, <2>3
  <2> HIDE DEF p
  <2> QED
    BY <2>4, <2>5, <2>6, <2>7 DEF d, Even
<1> DEFINE t == TrailingZeros(n)
<1>6. Is(t) /\ t \in 0 .. n
  <2>1. t = CHOOSE y \in 0 .. n : Is(y)
    BY DEF TrailingZeros
  <2> HIDE DEF Is, t
  <2> QED
    BY <1>5, <2>1
<1>7. t \in Nat
  BY <1>6
<1> DEFINE d == PowerOfTwo[t]
<1>8. d \in Nat /\ d >= 1
  <2> HIDE DEF t
  <2> QED
    BY <1>7, PowerFacts
<1>9. n = (n \div d) * d /\ n \div d \in Nat /\ (n \div d) % 2 # 0
  <2>1. n % d = 0 /\ ~Even(n \div d)
    BY <1>6
  <2> HIDE DEF d
  <2>2. n = (n \div d) * d
    BY <1>8, <2>1
  <2>3. n \div d \in Nat
    BY <1>8
  <2> QED
    BY <2>1, <2>2, <2>3 DEF Even
<1> DEFINE p == n \div d
<1> HIDE DEF p
<1>10. p = 2 * (p \div 2) + 1 /\ p \div 2 \in Nat
  BY <1>9 DEF p
<1>11. n = (2 * (p \div 2) + 1) * d
  <2> HIDE DEF d
  <2> QED
    BY <1>9, <1>10 DEF p
<1> HIDE DEF t
<1> QED
  BY <1>6, <1>10, <1>11 DEF t

\* The climb is at the subtrees of w leaves each: the node of number fnode,
\* and snode, the last one, of which n leaves fill some or all.
At(c, n, w) ==
  /\ c.fnode \in Nat /\ c.snode \in Nat /\ c.fnode <= c.snode
  /\ w \in Powers /\ n \in Nat
  /\ c.snode * w < n /\ n <= c.snode * w + w

LEMMA AtFacts ==
  ASSUME NEW c, NEW n, NEW w, At(c, n, w)
  PROVE  /\ w \in Nat /\ w >= 1 /\ n \in Nat
         /\ c.fnode * w \in Nat /\ c.fnode * w < n
         /\ c.fnode = c.snode => n <= c.fnode * w + w
         /\ c.fnode # c.snode => c.fnode * w + w < n
<1> DEFINE f == c.fnode
           s == c.snode
<1>1. f \in Nat /\ s \in Nat /\ f <= s /\ w \in Nat /\ w >= 1 /\ s * w < n /\ n <= s * w + w /\ n \in Nat
  BY PowerFacts DEF At
<1> HIDE DEF f, s
<1>2. f * w \in Nat /\ s * w \in Nat /\ f * w <= s * w
  BY <1>1
<1>3. f # s => f * w + w <= s * w
  BY <1>1
<1> QED
  BY <1>1, <1>2, <1>3 DEF f, s

\* A turn of the loop goes one level up, and past the levels on which the last
\* node has no sibling: u is the width of the two siblings that it hashes.
LEMMA RiseMoves ==
  ASSUME NEW c, NEW n, NEW w, NEW p, At(c, n, w), c.snode # 0
  PROVE  LET d  == Rise(c, p)
             at == c.fnode * w
         IN  \E u \in Powers :
               /\ u \in Nat /\ u >= w /\ (u = w \/ n <= at + w)
               /\ At(d, n, 2 * u)
               /\ d.overrun = c.overrun
               /\ TakesLeft(c) => /\ at - u \in Nat /\ d.fnode * (2 * u) = at - u
                                  /\ d.fr = NodeHash(p, c.fr) /\ d.sr = NodeHash(p, c.sr)
               /\ ~TakesLeft(c) => /\ u = w /\ at + w < n /\ d.fnode * (2 * u) = at
                                   /\ d.fr = c.fr /\ d.sr = NodeHash(c.sr, p)
<1> DEFINE d  == Rise(c, p)
           at == c.fnode * w
           f  == c.fnode
           s  == c.snode
           down == PowerOfTwo[LevelsUp(c)]
<1>1. /\ f \in Nat /\ s \in Nat /\ f <= s /\ w \in Powers /\ w \in Nat /\ w >= 1 /\ n \in Nat
      /\ s * w < n /\ n <= s * w + w /\ s # 0
  BY PowerFacts DEF At
<1>2. /\ d.fnode = f \div down /\ d.snode = s \div down /\ d.overrun = c.overrun
      /\ TakesLeft(c) => d.fr = NodeHash(p, c.fr) /\ d.sr = NodeHash(p, c.sr)
      /\ ~TakesLeft(c) => d.fr = c.fr /\ d.sr = NodeHash(c.sr, p)
  BY DEF Rise
<1>3. /\ at \in Nat /\ at < n /\ (f = s => n <= at + w) /\ (f # s => at + w < n) /\ at = f * w
  BY AtFacts
<1>4. Even(f) <=> f % 2 = 0
  BY DEF Even
<1>5. TakesLeft(c) <=> ~Even(f) \/ f = s
  BY DEF TakesLeft
<1>6. /\ f \div 2 \in Nat /\ (f % 2 = 0 => f = 2 * (f \div 2)) /\ (f % 2 # 0 => f = 2 * (f \div 2) + 1)
      /\ s \div 2 \in Nat /\ (s = 2 * (s \div 2) \/ s = 2 * (s \div 2) + 1)
      /\ f \div 2 <= s \div 2
  <2> HIDE DEF f, s
  <2> QED
    BY <1>1
<1> DEFINE f2 == f \div 2
           s2 == s \div 2
<1>7. 2 * w \in Nat /\ 2 * w \in Powers /\ 2 * (2 * w) \in Powers
  BY <1>1, PowerFacts
<1>8. s2 * (2 * w) < n /\ n <= s2 * (2 * w) + 2 * w
  <2> HIDE DEF f, s, s2, at
  <2>1. s2 \in Nat /\ (s = 2 * s2 \/ s = 2 * s2 + 1)
    BY <1>6 DEF s2
  <2> QED
    BY <1>1, <2>1
<1>9. ~(TakesLeft(c) /\ Even(f)) => At(d, n, 2 * w) /\ d.fnode = f2
  <2> SUFFICES ASSUME ~(TakesLeft(c) /\ Even(f)) PROVE At(d, n, 2 * w) /\ d.fnode = f2
    OBVIOUS
  <2>1. LevelsUp(c) = 1
    BY DEF LevelsUp
  <2>2. PowerOfTwo[1] = 2
    <3>1. PowerOfTwo[0 + 1] = 2 * PowerOfTwo[0] /\ PowerOfTwo[0] = 1
      BY PowersUnfold
    <3> QED
      BY <3>1
  <2>3. down = 2
    BY <2>1, <2>2
  <2>4. d.fnode = f2 /\ d.snode = s2
    BY <1>2, <2>3
  <2> HIDE DEF d, f2, s2, f, s, down, at
  <2> QED
    BY <1>1, <1>6, <1>7, <1>8, <2>4 DEF At, f2, s2
<1>10. CASE TakesLeft(c) /\ ~Even(f)
  <2>1. f = 2 * f2 + 1 /\ f2 \in Nat
    BY <1>4, <1>6, <1>10
  <2>2. at - w = f2 * (2 * w) /\ at - w \in Nat
    <3> HIDE DEF f2, f, s, d
    <3> QED
      BY <1>1, <1>3, <2>1
  <2>3. d.fnode * (2 * w) = at - w
    BY <1>9, <1>10, <2>2
  <2> HIDE DEF d, f2, s2, f, s, down, at
  <2> QED
    BY <1>1, <1>2, <1>9, <1>10, <2>2, <2>3 DEF d, at, f
<1>11. CASE ~TakesLeft(c)
  <2>1. f = 2 * f2 /\ f2 \in Nat /\ f # s
    BY <1>4, <1>5, <1>6, <1>11
  <2>2. at = f2 * (2 * w)
    <3> HIDE DEF f2, f, s, d
    <3> QED
      BY <1>1, <1>3, <2>1
  <2>3. d.fnode * (2 * w) = at
    BY <1>9, <1>11, <2>2
  <2> HIDE DEF d, f2, s2, f, s, down, at
  <2> QED
    BY <1>1, <1>2, <1>3, <1>9, <1>11, <2>1, <2>3 DEF d, at, f
<1>12. CASE TakesLeft(c) /\ Even(f)
  <2> DEFINE z == TrailingZeros(f)
             e == PowerOfTwo[z]
             u == w * e
  <2>1. f = s /\ f # 0
    BY <1>1, <1>5, <1>12
  <2>2. PICK q \in Nat : f = (2 * q + 1) * e
    <3> HIDE DEF f
    <3> QED
      BY <1>1, <2>1, OddFactor
  <2>3. z \in Nat
    <3>1. z \in 0 .. f
      <4> HIDE DEF f
      <4> QED
        BY <1>1, <2>1, OddFactor
    <3> HIDE DEF z, f
    <3> QED
      BY <3>1
  <2>4. LevelsUp(c) = 1 + z /\ 1 + z = z + 1
    BY <1>12, <2>3 DEF LevelsUp
  <2> HIDE DEF z
  <2>5. e \in Nat /\ e >= 1 /\ down = 2 * e
    <3>1. PowerOfTwo[z + 1] = 2 * e /\ e \in Nat /\ z < e
      BY <2>3, PowersUnfold, PowerFacts
    <3> QED
      BY <2>3, <2>4, <3>1
  <2>6. u \in Powers /\ u \in Nat
    <3>1. PICK i \in Nat : w = PowerOfTwo[i]
      BY <1>1 DEF Powers
    <3>2. u = PowerOfTwo[i + z]
      BY <2>3, <3>1, PowersMultiply
    <3> HIDE DEF u
    <3> QED
      BY <2>3, <3>2, PowerFacts DEF Powers
  <2> HIDE DEF e, down
  <2>7. f \div down = q /\ u >= w
    <3> HIDE DEF f
    <3>1. f = q * down + e /\ e < down
      BY <2>2, <2>5
    <3>2. f \div down = q
      BY <1>1, <2>5, <3>1
    <3>3. u >= w
      BY <1>1, <2>5
    <3> QED
      BY <3>2, <3>3
  <2>8. d.fnode = q /\ d.snode = q
    BY <1>2, <2>1, <2>7
  <2>9. q * (2 * u) = at - u /\ at - u \in Nat
    <3>1. at = (2 * q + 1) * e * w
      <4> HIDE DEF f
      <4> QED
        BY <1>1, <1>3, <2>2, <2>5
    <3> HIDE DEF at, f, d
    <3>2. at = q * (2 * u) + u
      <4>1. (2 * q + 1) * e * w = q * (2 * (w * e)) + w * e
        BY <1>1, <2>5
      <4> QED
        BY <3>1, <4>1
    <3>3. q * (2 * u) \in Nat
      BY <2>6
    <3> HIDE DEF u
    <3> QED
      BY <1>3, <2>6, <3>2, <3>3
  <2>10. At(d, n, 2 * u)
    <3>1. 2 * u \in Powers
      BY <2>6, PowerFacts
    <3>2. q * (2 * u) < n /\ n <= q * (2 * u) + 2 * u
      <4> HIDE DEF u, at, f, s, d
      <4> QED
        BY <1>1, <1>3, <2>1, <2>6, <2>7, <2>9
    <3> HIDE DEF u, at, f, s, d
    <3> QED
      BY <1>1, <2>8, <3>1, <3>2 DEF At
  <2> HIDE DEF u, f, s
  <2>11. /\ u \in Nat /\ u >= w /\ n <= at + w
         /\ d.fnode * (2 * u) = at - u /\ at - u \in Nat
    BY <1>3, <2>1, <2>6, <2>7, <2>8, <2>9
  <2> HIDE DEF d, at
  <2> QED
    BY <1>2, <1>12, <2>6, <2>10, <2>11 DEF d, at
<1> QED
  BY <1>10, <1>11, <1>12

-----------------------------------------------------------------------------
(* What the hash of a range of leaves says of them.                        *)

\* The hash of the w leaves after the first at, or of those of them there are.
Cover(leaves, at, w) ==
  Roots(leaves)[IF at + w <= Len(leaves) THEN w ELSE Len(leaves) - at][at]

\* A range twice as wide is the node over its halves, if the right one has a leaf.
LEMMA CoverSplits ==
  ASSUME NEW leaves, IsList(leaves), NEW w \in Powers, NEW at \in Nat, at + w < Len(leaves)
  PROVE  Cover(leaves, at, 2 * w) = NodeHash(Cover(leaves, at, w), Cover(leaves, at + w, w))
<1> DEFINE n     == Len(leaves)
           width == IF at + 2 * w <= n THEN 2 * w ELSE n - at
           right == IF at + w + w <= n THEN w ELSE n - (at + w)
<1>1. n \in Nat /\ w \in Nat /\ w >= 1 /\ at + w < n
  BY PowerFacts DEF IsList
<1>2. width \in 1 .. n /\ at \in 0 .. n - width /\ w < width /\ width <= 2 * w /\ width # 1
  <2> HIDE DEF n
  <2> QED
    BY <1>1
<1>3. width - w = right
  <2> HIDE DEF n
  <2> QED
    BY <1>1
<1>4. Cover(leaves, at, 2 * w) = Roots(leaves)[width][at]
  BY DEF Cover
<1>5. Cover(leaves, at, w) = Roots(leaves)[w][at]
  <2>1. at + w <= n
    BY <1>1
  <2> QED
    BY <2>1 DEF Cover
<1>6. Cover(leaves, at + w, w) = Roots(leaves)[right][at + w]
  BY DEF Cover
<1> HIDE DEF width, right
<1>7. SplitPoint(width) = w
  BY <1>1, <1>2, SplitPointIs
<1>8. Roots(leaves)[width][at] = NodeHash(Roots(leaves)[w][at], Roots(leaves)[width - w][at + w])
  BY <1>2, <1>7, RootOfSlice
<1> QED
  BY <1>3, <1>4, <1>5, <1>6, <1>8

\* A range past the last leaf may as well be wider.
LEMMA CoverToTheEnd ==
  ASSUME NEW leaves, IsList(leaves), NEW w \in Nat, NEW u \in Nat, NEW at \in Nat,
         u >= w, u = w \/ Len(leaves) <= at + w
  PROVE  Cover(leaves, at, u) = Cover(leaves, at, w)
BY DEF Cover, IsList

\* Equal hashes of two slices of a width, behind as many leaves, have equal leaves.
LEMMA SlicesBind ==
  ASSUME NEW a, NEW b, IsList(a), IsList(b), NEW width \in Nat, NEW at \in Nat, width >= 1,
         at + width <= Len(a), at + width <= Len(b),
         Roots(a)[width][at] = Roots(b)[width][at]
  PROVE  \A j \in at + 1 .. at + width : a[j] = b[j]
<1> DEFINE Fits(v, i) == i + v <= Len(a) /\ i + v <= Len(b) /\ Roots(a)[v][i] = Roots(b)[v][i]
           Binds(v) == \A i \in Nat : Fits(v, i) => \A j \in i + 1 .. i + v : a[j] = b[j]
           S == {m \in Nat : \A v \in 1 .. m : Binds(v)}
<1>1. Len(a) \in Nat /\ Len(b) \in Nat
  BY DEF IsList
<1>2. 0 \in S
  OBVIOUS
<1>3. ASSUME NEW m \in Nat, m \in S PROVE m + 1 \in S
  <2>1. \A v \in 1 .. m : Binds(v)
    BY <1>3
  <2>2. ASSUME NEW i \in Nat, Fits(m + 1, i) PROVE \A j \in i + 1 .. i + (m + 1) : a[j] = b[j]
    <3> DEFINE v == m + 1
               k == SplitPoint(v)
    <3>1. v \in 1 .. Len(a) /\ v \in 1 .. Len(b) /\ i \in 0 .. Len(a) - v /\ i \in 0 .. Len(b) - v
      BY <1>1, <2>2
    <3>2. Roots(a)[v][i] = Roots(b)[v][i]
      BY <2>2
    <3> HIDE DEF k
    <3>3. /\ Roots(a)[v][i] = IF v = 1 THEN a[i + 1]
                              ELSE NodeHash(Roots(a)[k][i], Roots(a)[v - k][i + k])
          /\ Roots(b)[v][i] = IF v = 1 THEN b[i + 1]
                              ELSE NodeHash(Roots(b)[k][i], Roots(b)[v - k][i + k])
      BY <3>1, RootOfSlice DEF k
    <3>4. CASE v = 1
      <4>1. a[i + 1] = b[i + 1]
        <5> HIDE DEF v
        <5> QED
          BY <3>2, <3>3, <3>4
      <4>2. \A j \in i + 1 .. i + (m + 1) : j = i + 1
        BY <3>4
      <4> QED
        BY <4>1, <4>2
    <3>5. CASE v # 1
      <4>1. k \in 1 .. v - 1 /\ v - k \in 1 .. k /\ k \in Nat
        BY <1>1, <3>1, <3>5, SliceSplits DEF k
      <4>2. Roots(a)[k][i] = Roots(b)[k][i] /\ Roots(a)[v - k][i + k] = Roots(b)[v - k][i + k]
        <5> HIDE DEF v
        <5>1. NodeHash(Roots(a)[k][i], Roots(a)[v - k][i + k])
                = NodeHash(Roots(b)[k][i], Roots(b)[v - k][i + k])
          BY <3>2, <3>3, <3>5
        <5> QED
          BY <5>1 DEF NodeHash
      <4>3. Fits(k, i) /\ Fits(v - k, i + k)
        BY <1>1, <3>1, <4>1, <4>2
      <4>4. k \in 1 .. m /\ v - k \in 1 .. m /\ i + k \in Nat
        BY <4>1
      <4> HIDE DEF Fits
      <4>5. /\ \A j \in i + 1 .. i + k : a[j] = b[j]
            /\ \A j \in i + k + 1 .. i + k + (v - k) : a[j] = b[j]
        BY <2>1, <4>3, <4>4
      <4> QED
        BY <4>1, <4>5
    <3> QED
      BY <3>4, <3>5
  <2> HIDE DEF Fits
  <2>3. Binds(m + 1)
    BY <2>2
  <2>4. \A v \in 1 .. m + 1 : v \in 1 .. m \/ v = m + 1
    OBVIOUS
  <2> HIDE DEF Binds
  <2> QED
    BY <2>1, <2>3, <2>4
<1> HIDE DEF S
<1>4. width \in S
  BY <1>2, <1>3, SetInduction
<1>5. width \in 1 .. width /\ Fits(width, at)
  OBVIOUS
<1> HIDE DEF Fits
<1>6. Binds(width)
  <2> HIDE DEF Binds
  <2> QED
    BY <1>4, <1>5 DEF S
<1> QED
  BY <1>5, <1>6

LEMMA SlicesBindOne ==
  ASSUME NEW a, NEW b, IsList(a), IsList(b), NEW width \in Nat, NEW at \in Nat, width >= 1,
         at + width <= Len(a), at + width <= Len(b),
         Roots(a)[width][at] = Roots(b)[width][at], NEW j \in at + 1 .. at + width
  PROVE  a[j] = b[j]
BY SlicesBind

-----------------------------------------------------------------------------
(* The two verifications are sound.                                        *)

\* Once past the root, always past it.
LEMMA RiseOverrun ==
  ASSUME NEW c, NEW p, "overrun" \in DOMAIN c
  PROVE  LET d == Rise(c, p)
         IN  /\ "overrun" \in DOMAIN d
             /\ c.overrun = TRUE => d.overrun = TRUE
             /\ c.snode = 0 => d.overrun = TRUE
BY DEF Rise

\* A leaf that verifies under the head of a tree is the one at its index.
LEMMA InclusionSound ==
  ASSUME NEW leaves, IsList(leaves), NEW proof, IsList(proof), NEW leaf, NEW index \in Nat,
         VerifyInclusion(leaf, index, Len(leaves), proof, TreeHead(leaves))
  PROVE  index < Len(leaves) /\ leaf = leaves[index + 1]
<1> DEFINE n == Len(leaves)
           start == [fnode |-> index, snode |-> n - 1, fr |-> leaf, sr |-> leaf, overrun |-> FALSE]
<1>1. index < n /\ n \in Nat /\ Len(proof) \in Nat
  BY DEF VerifyInclusion, IsList
<1>2. PICK c : /\ c[0] = start
               /\ \A i \in 1 .. Len(proof) : c[i] = Rise(c[i - 1], proof[i])
               /\ c[Len(proof)] = Climb(start, proof)
  BY ClimbUnfolds
<1>3. ReachesTop(c[Len(proof)]) /\ c[Len(proof)].sr = TreeHead(leaves)
  BY <1>2 DEF VerifyInclusion
<1> HIDE DEF n
<1> DEFINE Claim == leaf = leaves[index + 1]
           Stands(d) == \E w \in Powers :
                          /\ At(d, n, w)
                          /\ d.sr = Cover(leaves, d.fnode * w, w) => Claim
           Good(d) == "overrun" \in DOMAIN d /\ (d.overrun = TRUE \/ Stands(d))
           S == {i \in 0 .. Len(proof) : Good(c[i])}
<1>4. Good(start)
  <2>1. At(start, n, 1)
    BY <1>1, PowerFacts DEF At
  <2>2. Cover(leaves, index, 1) = leaves[index + 1]
    <3>1. index + 1 <= n /\ 1 \in 1 .. n /\ index \in 0 .. n - 1
      BY <1>1
    <3>2. Roots(leaves)[1][index] = leaves[index + 1]
      BY <3>1, RootOfSlice DEF n
    <3> QED
      BY <3>1, <3>2 DEF Cover, n
  <2>3. start.sr = leaf /\ start.fnode * 1 = index /\ "overrun" \in DOMAIN start
    OBVIOUS
  <2>4. Stands(start)
    <3> HIDE DEF start
    <3> QED
      BY <2>1, <2>2, <2>3, PowerFacts
  <2> HIDE DEF Stands, start
  <2> QED
    BY <2>3, <2>4
<1>5. ASSUME NEW b, NEW p, Good(b) PROVE Good(Rise(b, p))
  <2> DEFINE d == Rise(b, p)
  <2>1. /\ "overrun" \in DOMAIN d
        /\ b.overrun = TRUE => d.overrun = TRUE
        /\ b.snode = 0 => d.overrun = TRUE
    BY <1>5, RiseOverrun
  <2>2. ASSUME Stands(b), b.snode # 0 PROVE Stands(d)
    <3>1. PICK w \in Powers : At(b, n, w) /\ (b.sr = Cover(leaves, b.fnode * w, w) => Claim)
      BY <2>2
    <3> DEFINE at == b.fnode * w
    <3>2. PICK u \in Powers :
            /\ u \in Nat /\ u >= w /\ (u = w \/ n <= at + w)
            /\ At(d, n, 2 * u)
            /\ d.overrun = b.overrun
            /\ TakesLeft(b) => /\ at - u \in Nat /\ d.fnode * (2 * u) = at - u
                               /\ d.fr = NodeHash(p, b.fr) /\ d.sr = NodeHash(p, b.sr)
            /\ ~TakesLeft(b) => /\ u = w /\ at + w < n /\ d.fnode * (2 * u) = at
                                /\ d.fr = b.fr /\ d.sr = NodeHash(b.sr, p)
      BY <2>2, <3>1, RiseMoves
    <3>3. w \in Nat /\ at \in Nat /\ at < n
      BY <3>1, AtFacts
    <3> HIDE DEF d, at
    <3>4. d.sr = Cover(leaves, d.fnode * (2 * u), 2 * u) => b.sr = Cover(leaves, at, w)
      <4>1. CASE TakesLeft(b)
        <5>1. Cover(leaves, at - u, 2 * u) = NodeHash(Cover(leaves, at - u, u), Cover(leaves, at - u + u, u))
          <6>1. at - u + u < Len(leaves) /\ at - u \in Nat
            BY <3>2, <3>3, <4>1 DEF n
          <6> QED
            BY <6>1, CoverSplits
        <5>2. at - u + u = at
          BY <3>2, <3>3
        <5>3. Cover(leaves, at, u) = Cover(leaves, at, w)
          BY <3>2, <3>3, CoverToTheEnd DEF n
        <5> QED
          BY <3>2, <4>1, <5>1, <5>2, <5>3 DEF NodeHash
      <4>2. CASE ~TakesLeft(b)
        <5>1. Cover(leaves, at, 2 * w) = NodeHash(Cover(leaves, at, w), Cover(leaves, at + w, w))
          BY <3>2, <3>3, <4>2, CoverSplits DEF n
        <5> QED
          BY <3>2, <4>2, <5>1 DEF NodeHash
      <4> QED
        BY <4>1, <4>2
    <3>5. 2 * u \in Powers
      BY PowerFacts
    <3> HIDE DEF Claim
    <3> QED
      BY <3>1, <3>2, <3>4, <3>5 DEF at
  <2> HIDE DEF Stands, d
  <2>3. Good(d)
    BY <1>5, <2>1, <2>2
  <2> QED
    BY <2>3 DEF d
<1>6. 0 \in S
  <2> HIDE DEF Good, start
  <2> QED
    BY <1>1, <1>2, <1>4
<1>7. ASSUME NEW i \in 0 .. Len(proof) - 1, i \in S PROVE i + 1 \in S
  <2>1. i + 1 \in 0 .. Len(proof) /\ i + 1 \in 1 .. Len(proof) /\ i + 1 - 1 = i
    BY <1>1
  <2>2. c[i + 1] = Rise(c[i], proof[i + 1])
    BY <1>2, <2>1
  <2> HIDE DEF Good
  <2>3. Good(c[i + 1])
    BY <1>5, <1>7, <2>2
  <2> QED
    BY <2>1, <2>3
<1> DEFINE top == c[Len(proof)]
<1>8. Good(top)
  <2> HIDE DEF S
  <2>1. Len(proof) \in S
    <3>1. 0 .. Len(proof) \subseteq S
      BY <1>1, <1>6, <1>7, BoundedInduction
    <3> QED
      BY <1>1, <3>1
  <2> HIDE DEF Good
  <2> QED
    BY <2>1 DEF S
<1>9. Stands(top) /\ top.snode = 0
  <2> HIDE DEF Stands
  <2> QED
    BY <1>3, <1>8 DEF ReachesTop
<1>10. PICK w \in Powers : At(top, n, w) /\ (top.sr = Cover(leaves, top.fnode * w, w) => Claim)
  BY <1>9
<1> HIDE DEF top
<1>11. top.fnode = 0 /\ w \in Nat /\ n <= w /\ n >= 1
  <2>1. top.fnode \in Nat /\ top.fnode <= top.snode /\ w \in Nat /\ n <= top.snode * w + w
    BY <1>10, PowerFacts DEF At
  <2> QED
    BY <1>1, <1>9, <2>1
<1>12. Cover(leaves, 0, w) = TreeHead(leaves)
  <2>1. leaves # <<>>
    BY <1>1, EmptyIsList DEF n
  <2>2. Cover(leaves, 0, w) = Roots(leaves)[n][0]
    BY <1>1, <1>11 DEF Cover, n
  <2> QED
    BY <2>1, <2>2 DEF TreeHead, n
<1>13. top.fnode * w = 0
  BY <1>11
<1> QED
  BY <1>1, <1>3, <1>10, <1>12, <1>13 DEF n, top

\* Where the loop of verify_consistency starts: at the largest full subtree that
\* ends with the last of the m leaves of the old tree.
LEMMA AlignedStart ==
  ASSUME NEW m \in Nat, NEW n \in Nat, m >= 1, m < n, NEW c,
         c.fnode = Aligned(m, n).fnode, c.snode = Aligned(m, n).snode
  PROVE  \E w \in Powers : /\ At(c, n, w) /\ w \in Nat /\ w >= 1
                           /\ c.fnode * w = m - w /\ m - w \in Nat
                           /\ w = PowerOfTwo[TrailingZeros(m)]
<1> DEFINE w == PowerOfTwo[TrailingZeros(m)]
<1>1. PICK q \in Nat : m = (2 * q + 1) * w
  BY OddFactor
<1>2. w \in Powers /\ w \in Nat /\ w >= 1
  <2>1. TrailingZeros(m) \in 0 .. m
    BY OddFactor
  <2> QED
    BY <2>1, PowerFacts
<1>3. c.fnode = (m - 1) \div w /\ c.snode = (n - 1) \div w
  BY DEF Aligned
<1> HIDE DEF w
<1> DEFINE f == c.fnode
           s == c.snode
<1>4. m - 1 = (2 * q) * w + (w - 1) /\ m - w = (2 * q) * w
  BY <1>1, <1>2
<1>5. f = 2 * q
  <2>1. 2 * q \in Nat /\ w - 1 < w /\ m - 1 \in Nat
    BY <1>2
  <2> DEFINE t == 2 * q
  <2> HIDE DEF t, f
  <2>2. (m - 1) \div w = t
    BY <1>2, <1>4, <2>1 DEF t
  <2> QED
    BY <1>3, <2>2 DEF t, f
<1>6. s \in Nat /\ s * w <= n - 1 /\ n - 1 < s * w + w
  <2>1. n - 1 \in Nat
    OBVIOUS
  <2> HIDE DEF s
  <2>2. (n - 1) \div w \in Nat /\ ((n - 1) \div w) * w <= n - 1 /\ n - 1 < ((n - 1) \div w) * w + w
    BY <1>2, <2>1
  <2> QED
    BY <1>3, <2>2 DEF s
<1>7. f <= s
  <2> HIDE DEF f, s
  <2>1. f * w < s * w + w
    BY <1>2, <1>4, <1>5, <1>6
  <2>2. f > s => f * w >= s * w + w
    BY <1>2, <1>5, <1>6
  <2> QED
    BY <1>2, <1>5, <1>6, <2>1, <2>2
<1>8. s * w < n /\ n <= s * w + w
  <2>1. s * w \in Nat
    <3> HIDE DEF s
    <3> QED
      BY <1>2, <1>6
  <2> HIDE DEF s
  <2> QED
    BY <1>2, <1>6, <2>1
<1>9. At(c, n, w)
  BY <1>2, <1>5, <1>6, <1>7, <1>8 DEF At
<1>10. m - w \in Nat /\ c.fnode * w = m - w
  <2>1. (2 * q) * w \in Nat
    BY <1>2
  <2> QED
    BY <1>4, <1>5, <2>1
<1> QED
  BY <1>2, <1>9, <1>10 DEF w

LEMMA TailIsList ==
  ASSUME NEW list, IsList(list), list # <<>>
  PROVE  IsList(Tail(list))
BY DEF IsList

\* A head that is followed commits to the leaves of the one before, and to more.
LEMMA ConsistencySound ==
  ASSUME NEW old, IsList(old), NEW new, IsList(new), NEW proof, IsList(proof),
         VerifyConsistency(Len(old), Len(new), TreeHead(old), TreeHead(new), proof)
  PROVE  Len(old) <= Len(new) /\ \A j \in 1 .. Len(old) : old[j] = new[j]
<1> DEFINE m == Len(old)
           n == Len(new)
           Agree(at) == \A j \in at + 1 .. m : old[j] = new[j]
<1>1. m \in Nat /\ n \in Nat /\ m >= 1 /\ m <= n
  <2>1. m \in 1 .. n
    BY DEF VerifyConsistency
  <2>2. m \in Nat /\ n \in Nat
    BY DEF IsList
  <2> HIDE DEF m, n
  <2> QED
    BY <2>1, <2>2
<1>2. old # <<>> /\ new # <<>>
  BY <1>1, EmptyIsList
<1>3. TreeHead(old) = Roots(old)[m][0] /\ TreeHead(new) = Roots(new)[n][0]
  BY <1>2 DEF TreeHead
<1>4. CASE m = n
  <2>1. TreeHead(old) = TreeHead(new)
    BY <1>4 DEF VerifyConsistency
  <2>2. \A j \in 0 + 1 .. 0 + m : old[j] = new[j]
    <3>1. Roots(old)[m][0] = Roots(new)[m][0] /\ 0 + m <= m
      BY <1>1, <1>3, <1>4, <2>1
    <3> QED
      BY <1>1, <1>4, <3>1, SlicesBind
  <2> QED
    BY <1>1, <2>2
<1>5. CASE m < n
  <2> DEFINE seed  == IF IsPowerOfTwo(m) THEN TreeHead(old) ELSE proof[1]
             rest  == IF IsPowerOfTwo(m) THEN proof ELSE Tail(proof)
             where == Aligned(m, n)
             start == [fnode |-> where.fnode, snode |-> where.snode, fr |-> seed, sr |-> seed,
                       overrun |-> FALSE]
             N     == Len(rest)
  <2>1. /\ IsPowerOfTwo(m) \/ proof # <<>>
        /\ ReachesTop(Climb(start, rest))
        /\ Climb(start, rest).fr = TreeHead(old) /\ Climb(start, rest).sr = TreeHead(new)
    BY <1>1, <1>5 DEF VerifyConsistency, ClimbFrom
  <2>2. IsList(rest)
    <3> QED
      BY <2>1, TailIsList
  <2> HIDE DEF rest, seed
  <2>3. N \in Nat
    BY <2>2 DEF IsList
  <2>4. PICK c : /\ c[0] = start
                 /\ \A i \in 1 .. N : c[i] = Rise(c[i - 1], rest[i])
                 /\ c[N] = Climb(start, rest)
    BY <2>2, ClimbUnfolds
  <2> HIDE DEF N
  <2> DEFINE Reached(d, at, w) == d.fr = Cover(old, at, w) /\ d.sr = Cover(new, at, w)
             Stands(d) == \E w \in Powers :
                            /\ At(d, n, w)
                            /\ d.fnode * w < m /\ m <= d.fnode * w + w
                            /\ Reached(d, d.fnode * w, w) => Agree(d.fnode * w)
             Good(d) == "overrun" \in DOMAIN d /\ (d.overrun = TRUE \/ Stands(d))
             S == {i \in 0 .. N : Good(c[i])}
  <2>5. Good(start)
    <3>1. start.fnode = where.fnode /\ start.snode = where.snode /\ start.fr = seed
          /\ start.sr = seed /\ "overrun" \in DOMAIN start
      OBVIOUS
    <3> HIDE DEF start
    <3>2. PICK w \in Powers : /\ At(start, n, w) /\ w \in Nat /\ w >= 1
                              /\ start.fnode * w = m - w /\ m - w \in Nat
      BY <1>1, <1>5, <3>1, AlignedStart
    <3> DEFINE at == start.fnode * w
    <3> HIDE DEF m, n
    <3>3. at < m /\ m <= at + w /\ at + w = m /\ at \in Nat
      BY <1>1, <3>2
    <3> HIDE DEF at
    <3>4. Reached(start, at, w) => Agree(at)
      <4> SUFFICES ASSUME Reached(start, at, w) PROVE Agree(at)
        OBVIOUS
      <4>1. Cover(old, at, w) = Cover(new, at, w)
        BY <3>1
      <4>2. at + w <= m /\ at + w <= n
        BY <1>1, <3>2, <3>3
      <4>3. Cover(old, at, w) = Roots(old)[w][at] /\ Cover(new, at, w) = Roots(new)[w][at]
        BY <4>2 DEF Cover, m, n
      <4>4. \A j \in at + 1 .. at + w : old[j] = new[j]
        <5>1. Roots(old)[w][at] = Roots(new)[w][at]
          BY <4>1, <4>3
        <5>2. at + w <= Len(old) /\ at + w <= Len(new) /\ w \in Nat /\ w >= 1 /\ at \in Nat
          BY <3>2, <3>3, <4>2 DEF m, n
        <5> HIDE DEF Reached, Agree
        <5> QED
          BY <5>1, <5>2, SlicesBind
      <4> QED
        BY <3>3, <4>4
    <3> HIDE DEF Reached, Agree
    <3>5. Stands(start)
      BY <3>2, <3>3, <3>4 DEF at
    <3> QED
      BY <3>1, <3>5
  <2>6. ASSUME NEW b, NEW p, Good(b) PROVE Good(Rise(b, p))
    <3> DEFINE d == Rise(b, p)
    <3>1. /\ "overrun" \in DOMAIN d
          /\ b.overrun = TRUE => d.overrun = TRUE
          /\ b.snode = 0 => d.overrun = TRUE
      BY <2>6, RiseOverrun
    <3>2. ASSUME Stands(b), b.snode # 0 PROVE Stands(d)
      <4>1. PICK w \in Powers : /\ At(b, n, w)
                                /\ b.fnode * w < m /\ m <= b.fnode * w + w
                                /\ Reached(b, b.fnode * w, w) => Agree(b.fnode * w)
        <5> HIDE DEF Reached, Agree
        <5> QED
          BY <3>2
      <4> DEFINE at == b.fnode * w
      <4>2. PICK u \in Powers :
              /\ u \in Nat /\ u >= w /\ (u = w \/ n <= at + w)
              /\ At(d, n, 2 * u)
              /\ d.overrun = b.overrun
              /\ TakesLeft(b) => /\ at - u \in Nat /\ d.fnode * (2 * u) = at - u
                                 /\ d.fr = NodeHash(p, b.fr) /\ d.sr = NodeHash(p, b.sr)
              /\ ~TakesLeft(b) => /\ u = w /\ at + w < n /\ d.fnode * (2 * u) = at
                                  /\ d.fr = b.fr /\ d.sr = NodeHash(b.sr, p)
        <5> HIDE DEF Reached, Agree, m, n
        <5> QED
          BY <3>2, <4>1, RiseMoves
      <4>3. w \in Nat /\ w >= 1 /\ at \in Nat /\ at < n
        BY <4>1, AtFacts
      <4>4. at < m /\ m <= at + w
        BY <4>1
      <4>5. Reached(b, at, w) => Agree(at)
        BY <4>1
      <4> DEFINE at2 == d.fnode * (2 * u)
      <4> HIDE DEF d, at, m, n
      <4>6. at2 \in Nat /\ at2 < m /\ m <= at2 + 2 * u
        <5>1. at2 = at \/ at2 = at - u
          BY <4>2
        <5> QED
          BY <1>1, <4>2, <4>3, <4>4, <5>1
      <4>7. Cover(old, at, u) = Cover(old, at, w) /\ Cover(old, at, 2 * w) = Cover(old, at, w)
        BY <1>1, <4>2, <4>3, <4>4, CoverToTheEnd DEF m
      <4>8. Reached(d, at2, 2 * u) => Agree(at2)
        <5> SUFFICES ASSUME Reached(d, at2, 2 * u) PROVE Agree(at2)
          OBVIOUS
        <5>1. CASE TakesLeft(b)
          <6>1. at2 = at - u /\ at - u \in Nat /\ at - u + u = at
            BY <4>2, <4>3, <5>1
          <6>2. Cover(old, at - u, 2 * u) = NodeHash(Cover(old, at - u, u), Cover(old, at, u))
            BY <1>1, <4>2, <4>4, <6>1, CoverSplits DEF m
          <6>3. Cover(new, at - u, 2 * u) = NodeHash(Cover(new, at - u, u), Cover(new, at, u))
            BY <1>1, <4>2, <4>3, <6>1, CoverSplits DEF n
          <6>4. Cover(new, at, u) = Cover(new, at, w)
            BY <4>2, <4>3, CoverToTheEnd DEF n
          <6>5. NodeHash(p, b.fr) = NodeHash(Cover(old, at - u, u), Cover(old, at, u))
                /\ NodeHash(p, b.sr) = NodeHash(Cover(new, at - u, u), Cover(new, at, u))
            BY <4>2, <5>1, <6>1, <6>2, <6>3
          <6>6. /\ p = Cover(old, at - u, u) /\ p = Cover(new, at - u, u)
                /\ Reached(b, at, w)
            BY <4>7, <6>4, <6>5 DEF NodeHash
          <6>7. Cover(old, at - u, u) = Roots(old)[u][at - u]
                /\ Cover(new, at - u, u) = Roots(new)[u][at - u]
            <7>1. at - u + u <= m /\ at - u + u <= n
              BY <1>1, <4>3, <4>4, <6>1
            <7> QED
              BY <7>1 DEF Cover, m, n
          <6>8. \A j \in at - u + 1 .. at - u + u : old[j] = new[j]
            <7>1. u >= 1 /\ at - u + u <= m /\ at - u + u <= n
              BY <1>1, <4>2, <4>3, <4>4, <6>1
            <7>2. Roots(old)[u][at - u] = Roots(new)[u][at - u]
              BY <6>6, <6>7
            <7>3. at - u + u <= Len(old) /\ at - u + u <= Len(new) /\ at - u \in Nat /\ u \in Nat
              BY <4>2, <6>1, <7>1 DEF m, n
            <7>4. PICK lo \in Nat : lo = at - u
              BY <7>3
            <7>5. lo + u <= Len(old) /\ lo + u <= Len(new) /\ u \in Nat /\ u >= 1
              BY <7>1, <7>3, <7>4
            <7>6. Roots(old)[u][lo] = Roots(new)[u][lo]
              BY ONLY <7>2, <7>4
            <7>7. IsList(old) /\ IsList(new)
              OBVIOUS
            <7>8. \A j \in lo + 1 .. lo + u : old[j] = new[j]
              <8> SUFFICES ASSUME NEW j \in lo + 1 .. lo + u PROVE old[j] = new[j]
                OBVIOUS
              <8>1. lo \in Nat
                BY <7>4
              <8> QED
                BY ONLY <7>5, <7>6, <7>7, <8>1, SMTT(20), SlicesBindOne
            <7> QED
              BY ONLY <7>4, <7>8
          <6>9. Agree(at)
            BY <4>5, <6>6
          <6> QED
            BY <1>1, <4>2, <4>3, <6>1, <6>8, <6>9
        <5>2. CASE ~TakesLeft(b)
          <6>1. at2 = at /\ u = w /\ at + w < n
            BY <4>2, <5>2
          <6>2. Cover(new, at, 2 * w) = NodeHash(Cover(new, at, w), Cover(new, at + w, w))
            BY <4>3, <6>1, CoverSplits DEF n
          <6>3. NodeHash(b.sr, p) = NodeHash(Cover(new, at, w), Cover(new, at + w, w))
                /\ b.fr = Cover(old, at, w)
            BY <4>2, <4>7, <5>2, <6>1, <6>2
          <6>4. Reached(b, at, w)
            BY <6>3 DEF NodeHash
          <6> QED
            BY <4>5, <6>1, <6>4
        <5> QED
          BY <5>1, <5>2
      <4>9. 2 * u \in Powers
        BY PowerFacts
      <4> HIDE DEF Reached, Agree
      <4> QED
        BY <4>2, <4>6, <4>8, <4>9
    <3> HIDE DEF Stands, d
    <3>3. Good(d)
      BY <2>6, <3>1, <3>2
    <3> QED
      BY <3>3 DEF d
  <2>7. 0 \in S
    <3> HIDE DEF Good, start
    <3> QED
      BY <2>3, <2>4, <2>5
  <2>8. ASSUME NEW i \in 0 .. N - 1, i \in S PROVE i + 1 \in S
    <3>1. i + 1 \in 0 .. N /\ i + 1 \in 1 .. N /\ i + 1 - 1 = i
      BY <2>3
    <3>2. c[i + 1] = Rise(c[i], rest[i + 1])
      BY <2>4, <3>1
    <3> HIDE DEF Good
    <3>3. Good(c[i + 1])
      BY <2>6, <2>8, <3>2
    <3> QED
      BY <3>1, <3>3
  <2> DEFINE top == c[N]
  <2>9. Good(top)
    <3> HIDE DEF S
    <3>1. N \in S
      <4>1. 0 .. N \subseteq S
        BY <2>3, <2>7, <2>8, BoundedInduction
      <4> QED
        BY <2>3, <4>1
    <3> HIDE DEF Good
    <3> QED
      BY <3>1 DEF S
  <2>10. Stands(top) /\ top.snode = 0
    <3> HIDE DEF Stands, start
    <3> QED
      BY <2>1, <2>4, <2>9 DEF ReachesTop
  <2>11. PICK w \in Powers : /\ At(top, n, w)
                             /\ top.fnode * w < m /\ m <= top.fnode * w + w
                             /\ Reached(top, top.fnode * w, w) => Agree(top.fnode * w)
    <3> HIDE DEF Reached, Agree, top
    <3> QED
      BY <2>10
  <2>12. top.fr = TreeHead(old) /\ top.sr = TreeHead(new)
    <3> HIDE DEF start
    <3> QED
      BY <2>1, <2>4
  <2> HIDE DEF top, m, n
  <2>13. top.fnode = 0 /\ w \in Nat /\ n <= w /\ top.fnode * w = 0
    <3>1. top.fnode \in Nat /\ top.fnode <= top.snode /\ w \in Nat /\ n <= top.snode * w + w
      BY <2>11, PowerFacts DEF At
    <3> QED
      BY <1>1, <2>10, <3>1
  <2>14. Cover(old, 0, w) = TreeHead(old) /\ Cover(new, 0, w) = TreeHead(new)
    BY <1>1, <1>3, <2>13 DEF Cover, m, n
  <2>15. Agree(0)
    <3> HIDE DEF Agree
    <3> QED
      BY <2>11, <2>12, <2>13, <2>14
  <2> QED
    BY <1>1, <2>15 DEF m, n
<1> QED
  BY <1>1, <1>4, <1>5

-----------------------------------------------------------------------------
(* The proofs, unfolded.                                                   *)

PathRow(leaves, f, width) ==
  [at \in Slices(leaves, width) |-> [m \in 0 .. width - 1 |->
     IF width = 1 THEN <<>>
     ELSE LET k == SplitPoint(width)
          IN  IF m < k THEN Append(f[k][at][m], Roots(leaves)[width - k][at + k])
                       ELSE Append(f[width - k][at + k][m - k], Roots(leaves)[k][at])]]

LEMMA PathRowsAgree ==
  ASSUME NEW leaves, IsList(leaves), NEW width \in 1 .. Len(leaves), NEW f, NEW g,
         \A w \in 1 .. width - 1 : f[w] = g[w]
  PROVE  PathRow(leaves, f, width) = PathRow(leaves, g, width)
<1>1. ASSUME width # 1
      PROVE  LET k == SplitPoint(width) IN f[k] = g[k] /\ f[width - k] = g[width - k]
  BY <1>1, SmallerRows
<1> QED
  BY <1>1 DEF PathRow

LEMMA PathsUnfold ==
  ASSUME NEW leaves, IsList(leaves)
  PROVE  \A width \in 1 .. Len(leaves) :
           Paths(leaves)[width] = PathRow(leaves, Paths(leaves), width)
<1> DEFINE N == Len(leaves)
           Chain(f, m) == f = [n \in 1 .. m |-> PathRow(leaves, f, n)]
           S == {m \in 0 .. N : \E f : Chain(f, m)}
<1>1. N \in Nat
  BY DEF IsList
<1>2. Paths(leaves) = CHOOSE f : Chain(f, N)
  BY DEF Paths, PathRow
<1> HIDE DEF N
<1>3. 0 \in S
  <2> DEFINE f == [n \in 1 .. 0 |-> 0]
  <2>1. Chain(f, 0) /\ 0 \in 0 .. N
    BY <1>1
  <2> QED
    BY <2>1, Zenon
<1>4. ASSUME NEW m \in 0 .. N - 1, m \in S PROVE m + 1 \in S
  <2>1. PICK f : Chain(f, m)
    BY <1>4
  <2> DEFINE g == [n \in 1 .. m + 1 |-> PathRow(leaves, f, n)]
  <2>2. \A n \in 1 .. m : f[n] = g[n]
    <3>1. \A n \in 1 .. m : f[n] = PathRow(leaves, f, n) /\ n \in 1 .. m + 1
      BY <1>1, <2>1
    <3> QED
      BY <3>1
  <2>3. ASSUME NEW n \in 1 .. m + 1
        PROVE  PathRow(leaves, f, n) = PathRow(leaves, g, n)
    <3>1. \A w \in 1 .. n - 1 : f[w] = g[w]
      <4> HIDE DEF g
      <4> QED
        BY <1>1, <2>2
    <3>2. n \in 1 .. N
      BY <1>1
    <3> HIDE DEF g, Chain
    <3> QED
      BY <3>1, <3>2, PathRowsAgree DEF N
  <2>4. Chain(g, m + 1)
    BY <2>3
  <2>5. m + 1 \in 0 .. N
    BY <1>1
  <2> QED
    BY <2>4, <2>5, Zenon
<1>5. N \in S
  <2> HIDE DEF S
  <2>1. 0 .. N \subseteq S
    BY <1>1, <1>3, <1>4, BoundedInduction
  <2> QED
    BY <1>1, <2>1
<1>6. Chain(Paths(leaves), N)
  BY <1>2, <1>5
<1>7. ASSUME NEW f, NEW m, Chain(f, m), NEW n \in 1 .. m
      PROVE  f[n] = PathRow(leaves, f, n)
  BY <1>7
<1> HIDE DEF Chain
<1> QED
  BY <1>6, <1>7 DEF N

SubRow(leaves, f, width) ==
  [at \in Slices(leaves, width) |-> [m \in 1 .. width |-> [complete \in BOOLEAN |->
     IF m = width THEN IF complete THEN <<>> ELSE <<Roots(leaves)[width][at]>>
     ELSE LET k == SplitPoint(width)
          IN  IF m <= k THEN Append(f[k][at][m][complete], Roots(leaves)[width - k][at + k])
              ELSE Append(f[width - k][at + k][m - k][FALSE], Roots(leaves)[k][at])]]]

LEMMA SubRowsAgree ==
  ASSUME NEW leaves, IsList(leaves), NEW width \in 1 .. Len(leaves), NEW f, NEW g,
         \A w \in 1 .. width - 1 : f[w] = g[w]
  PROVE  SubRow(leaves, f, width) = SubRow(leaves, g, width)
<1>1. ASSUME width # 1
      PROVE  LET k == SplitPoint(width) IN f[k] = g[k] /\ f[width - k] = g[width - k]
  BY <1>1, SmallerRows
<1>2. CASE width = 1
  <2>1. \A m \in 1 .. width : m = width
    BY <1>2
  <2> QED
    BY <2>1 DEF SubRow
<1>3. CASE width # 1
  <2> DEFINE k == SplitPoint(width)
             Row(x, y) ==
               [at \in Slices(leaves, width) |-> [m \in 1 .. width |-> [complete \in BOOLEAN |->
                  IF m = width THEN IF complete THEN <<>> ELSE <<Roots(leaves)[width][at]>>
                  ELSE IF m <= k THEN Append(x[at][m][complete], Roots(leaves)[width - k][at + k])
                       ELSE Append(y[at + k][m - k][FALSE], Roots(leaves)[k][at])]]]
  <2>1. SubRow(leaves, f, width) = Row(f[k], f[width - k])
    BY ONLY DEF SubRow
  <2>2. SubRow(leaves, g, width) = Row(g[k], g[width - k])
    BY ONLY DEF SubRow
  <2>3. f[k] = g[k] /\ f[width - k] = g[width - k]
    BY <1>1, <1>3
  <2> HIDE DEF Row, k
  <2> QED
    BY ONLY <2>1, <2>2, <2>3
<1> QED
  BY <1>2, <1>3

LEMMA SubProofsUnfold ==
  ASSUME NEW leaves, IsList(leaves)
  PROVE  \A width \in 1 .. Len(leaves) :
           SubProofs(leaves)[width] = SubRow(leaves, SubProofs(leaves), width)
<1> DEFINE N == Len(leaves)
           Chain(f, m) == f = [n \in 1 .. m |-> SubRow(leaves, f, n)]
           S == {m \in 0 .. N : \E f : Chain(f, m)}
<1>1. N \in Nat
  BY DEF IsList
<1>2. SubProofs(leaves) = CHOOSE f : Chain(f, N)
  BY DEF SubProofs, SubRow
<1> HIDE DEF N
<1>3. 0 \in S
  <2> DEFINE f == [n \in 1 .. 0 |-> 0]
  <2>1. Chain(f, 0) /\ 0 \in 0 .. N
    BY <1>1
  <2> QED
    BY <2>1, Zenon
<1>4. ASSUME NEW m \in 0 .. N - 1, m \in S PROVE m + 1 \in S
  <2>1. PICK f : Chain(f, m)
    BY <1>4
  <2> DEFINE g == [n \in 1 .. m + 1 |-> SubRow(leaves, f, n)]
  <2>2. \A n \in 1 .. m : f[n] = g[n]
    <3>1. \A n \in 1 .. m : f[n] = SubRow(leaves, f, n) /\ n \in 1 .. m + 1
      BY <1>1, <2>1
    <3> QED
      BY <3>1
  <2>3. ASSUME NEW n \in 1 .. m + 1
        PROVE  SubRow(leaves, f, n) = SubRow(leaves, g, n)
    <3>1. \A w \in 1 .. n - 1 : f[w] = g[w]
      <4> HIDE DEF g
      <4> QED
        BY <1>1, <2>2
    <3>2. n \in 1 .. N
      BY <1>1
    <3> HIDE DEF g, Chain
    <3> QED
      BY <3>1, <3>2, SubRowsAgree DEF N
  <2>4. Chain(g, m + 1)
    BY <2>3
  <2>5. m + 1 \in 0 .. N
    BY <1>1
  <2> QED
    BY <2>4, <2>5, Zenon
<1>5. N \in S
  <2> HIDE DEF S
  <2>1. 0 .. N \subseteq S
    BY <1>1, <1>3, <1>4, BoundedInduction
  <2> QED
    BY <1>1, <2>1
<1>6. Chain(SubProofs(leaves), N)
  BY <1>2, <1>5
<1>7. ASSUME NEW f, NEW m, Chain(f, m), NEW n \in 1 .. m
      PROVE  f[n] = SubRow(leaves, f, n)
  BY <1>7
<1> HIDE DEF Chain
<1> QED
  BY <1>6, <1>7 DEF N

LEMMA PathOfSlice ==
  ASSUME NEW leaves, IsList(leaves), NEW width \in 1 .. Len(leaves),
         NEW at \in 0 .. Len(leaves) - width, NEW m \in 0 .. width - 1
  PROVE  LET path == Paths(leaves)
             k    == SplitPoint(width)
         IN  path[width][at][m] =
               IF width = 1 THEN <<>>
               ELSE IF m < k THEN Append(path[k][at][m], Roots(leaves)[width - k][at + k])
                    ELSE Append(path[width - k][at + k][m - k], Roots(leaves)[k][at])
<1> DEFINE path == Paths(leaves)
<1>1. path[width] = PathRow(leaves, path, width)
  BY PathsUnfold
<1>2. at \in Slices(leaves, width)
  BY DEF Slices
<1> HIDE DEF path
<1> QED
  BY <1>1, <1>2 DEF PathRow, path

\* What the proof for the first m leaves of a slice is, when the old tree ends
\* at a right edge of the slice's path from the top, and when it does not.
WholeProof(leaves, width, at, m) == SubProofs(leaves)[width][at][m][TRUE]
PartProof(leaves, width, at, m) == SubProofs(leaves)[width][at][m][FALSE]

LEMMA SubProofOfSlice ==
  ASSUME NEW leaves, IsList(leaves), NEW width \in 1 .. Len(leaves),
         NEW at \in 0 .. Len(leaves) - width, NEW m \in 1 .. width
  PROVE  LET k     == SplitPoint(width)
             whole == WholeProof(leaves, width, at, m)
             part  == PartProof(leaves, width, at, m)
             left  == Roots(leaves)[k][at]
             right == Roots(leaves)[width - k][at + k]
         IN  /\ m = width => whole = <<>> /\ part = <<Roots(leaves)[width][at]>>
             /\ m # width /\ m <= k =>
                  /\ whole = Append(WholeProof(leaves, k, at, m), right)
                  /\ part = Append(PartProof(leaves, k, at, m), right)
             /\ m # width /\ ~(m <= k) =>
                  /\ whole = Append(PartProof(leaves, width - k, at + k, m - k), left)
                  /\ part = whole
<1> DEFINE sub == SubProofs(leaves)
           k   == SplitPoint(width)
           Entry(l, c) ==
             IF l = width THEN IF c THEN <<>> ELSE <<Roots(leaves)[width][at]>>
             ELSE IF l <= k THEN Append(sub[k][at][l][c], Roots(leaves)[width - k][at + k])
                  ELSE Append(sub[width - k][at + k][l - k][FALSE], Roots(leaves)[k][at])
<1>1. sub[width] = SubRow(leaves, sub, width)
  BY SubProofsUnfold
<1>2. at \in Slices(leaves, width)
  BY DEF Slices
<1> HIDE DEF sub
<1>3. sub[width][at] = [l \in 1 .. width |-> [c \in BOOLEAN |-> Entry(l, c)]]
  BY <1>1, <1>2 DEF SubRow
<1> HIDE DEF Entry
<1>4. sub[width][at][m][TRUE] = Entry(m, TRUE) /\ sub[width][at][m][FALSE] = Entry(m, FALSE)
  BY <1>3
<1> HIDE DEF k
<1>5. /\ m = width => Entry(m, TRUE) = <<>> /\ Entry(m, FALSE) = <<Roots(leaves)[width][at]>>
      /\ m # width /\ m <= k =>
           /\ Entry(m, TRUE) = Append(sub[k][at][m][TRUE], Roots(leaves)[width - k][at + k])
           /\ Entry(m, FALSE) = Append(sub[k][at][m][FALSE], Roots(leaves)[width - k][at + k])
      /\ m # width /\ ~(m <= k) =>
           /\ Entry(m, TRUE) = Append(sub[width - k][at + k][m - k][FALSE], Roots(leaves)[k][at])
           /\ Entry(m, FALSE) = Entry(m, TRUE)
  BY DEF Entry
<1> QED
  BY <1>4, <1>5 DEF sub, k, WholeProof, PartProof

LEMMA SingleIsList ==
  ASSUME NEW x
  PROVE  IsList(<<x>>) /\ Len(<<x>>) = 1 /\ <<x>>[1] = x
BY DEF IsList

LEMMA AppendIsList ==
  ASSUME NEW list, IsList(list), NEW x
  PROVE  IsList(Append(list, x))
BY AppendedList, Zenon

\* Both kinds of proof are lists.
LEMMA PathsAreLists ==
  ASSUME NEW leaves, IsList(leaves), NEW width \in 1 .. Len(leaves),
         NEW at \in 0 .. Len(leaves) - width, NEW m \in 0 .. width - 1
  PROVE  IsList(Paths(leaves)[width][at][m])
<1> DEFINE N == Len(leaves)
           path == Paths(leaves)
           Lists(v) == \A i \in 0 .. N - v : \A l \in 0 .. v - 1 : IsList(path[v][i][l])
           S == {n \in 0 .. N : \A v \in 1 .. n : Lists(v)}
<1>1. N \in Nat
  BY DEF IsList
<1>2. 0 \in S
  BY <1>1
<1>3. ASSUME NEW n \in 0 .. N - 1, n \in S PROVE n + 1 \in S
  <2>1. \A v \in 1 .. n : Lists(v)
    BY <1>3
  <2> DEFINE v == n + 1
  <2>2. v \in 1 .. N /\ v \in Nat /\ n = v - 1
    BY <1>1
  <2> HIDE DEF v, N
  <2>3. ASSUME NEW i \in 0 .. N - v, NEW l \in 0 .. v - 1 PROVE IsList(path[v][i][l])
    <3> DEFINE k == SplitPoint(v)
    <3>1. path[v][i][l] = IF v = 1 THEN <<>>
                          ELSE IF l < k THEN Append(path[k][i][l], Roots(leaves)[v - k][i + k])
                               ELSE Append(path[v - k][i + k][l - k], Roots(leaves)[k][i])
      BY <2>2, PathOfSlice DEF N
    <3> HIDE DEF k, path
    <3>2. CASE v = 1
      BY <3>1, <3>2, EmptyIsList
    <3>3. CASE v # 1
      <4>1. k \in 1 .. v - 1 /\ v - k \in 1 .. k /\ k \in Nat /\ i \in 0 .. N - k /\ i + k \in 0 .. N - (v - k)
        BY <1>1, <2>2, <3>3, SliceSplits DEF k
      <4>2. CASE l < k
        <5>1. IsList(path[k][i][l])
          <6>1. k \in 1 .. n /\ l \in 0 .. k - 1
            BY <2>2, <4>1, <4>2
          <6> QED
            BY <2>1, <4>1, <6>1
        <5> QED
          BY <3>1, <3>3, <4>2, <5>1, AppendIsList
      <4>3. CASE ~(l < k)
        <5>1. IsList(path[v - k][i + k][l - k])
          <6>1. v - k \in 1 .. n /\ l - k \in 0 .. (v - k) - 1
            BY <2>2, <4>1, <4>3
          <6> QED
            BY <2>1, <4>1, <6>1
        <5> QED
          BY <3>1, <3>3, <4>3, <5>1, AppendIsList
      <4> QED
        BY <4>2, <4>3
    <3> QED
      BY <3>2, <3>3
  <2>4. \A y \in 1 .. n + 1 : y \in 1 .. n \/ y = v
    BY <1>1 DEF v
  <2>5. Lists(v)
    BY <2>3
  <2>6. n + 1 \in 0 .. N
    BY <1>1
  <2> HIDE DEF Lists
  <2> QED
    BY <2>1, <2>4, <2>5, <2>6
<1> HIDE DEF S, N
<1>4. N \in S
  <2>1. 0 .. N \subseteq S
    BY <1>1, <1>2, <1>3, BoundedInduction
  <2> QED
    BY <1>1, <2>1
<1> QED
  BY <1>4 DEF S, N

LEMMA SubProofsAreLists ==
  ASSUME NEW leaves, IsList(leaves), NEW width \in 1 .. Len(leaves),
         NEW at \in 0 .. Len(leaves) - width, NEW m \in 1 .. width
  PROVE  IsList(WholeProof(leaves, width, at, m)) /\ IsList(PartProof(leaves, width, at, m))
<1> DEFINE N == Len(leaves)
           Whole(v, i, l) == WholeProof(leaves, v, i, l)
           Part(v, i, l) == PartProof(leaves, v, i, l)
           Lists(v) == \A i \in 0 .. N - v : \A l \in 1 .. v :
                        IsList(Whole(v, i, l)) /\ IsList(Part(v, i, l))
           S == {n \in 0 .. N : \A v \in 1 .. n : Lists(v)}
<1>1. N \in Nat
  BY DEF IsList
<1>2. 0 \in S
  BY <1>1
<1>3. ASSUME NEW n \in 0 .. N - 1, n \in S PROVE n + 1 \in S
  <2>1. \A v \in 1 .. n : Lists(v)
    BY <1>3
  <2> DEFINE v == n + 1
  <2>2. v \in 1 .. N /\ v \in Nat /\ n = v - 1
    BY <1>1
  <2> HIDE DEF v, N
  <2>3. ASSUME NEW i \in 0 .. N - v, NEW l \in 1 .. v
        PROVE  IsList(Whole(v, i, l)) /\ IsList(Part(v, i, l))
    <3> DEFINE k     == SplitPoint(v)
               whole == Whole(v, i, l)
               part  == Part(v, i, l)
               right == Roots(leaves)[v - k][i + k]
               left  == Roots(leaves)[k][i]
    <3>1. /\ l = v => whole = <<>> /\ part = <<Roots(leaves)[v][i]>>
          /\ l # v /\ l <= k =>
               whole = Append(Whole(k, i, l), right) /\ part = Append(Part(k, i, l), right)
          /\ l # v /\ ~(l <= k) =>
               whole = Append(Part(v - k, i + k, l - k), left) /\ part = whole
      BY <2>2, SubProofOfSlice DEF N
    <3> HIDE DEF k, Whole, Part, left, right
    <3>2. CASE l = v
      BY <3>1, <3>2, EmptyIsList, SingleIsList
    <3>3. CASE l # v
      <4>1. v # 1
        BY <3>3
      <4>2. /\ k \in 1 .. v - 1 /\ v - k \in 1 .. k /\ k \in Nat
            /\ i \in 0 .. N - k /\ i + k \in 0 .. N - (v - k)
        BY <1>1, <2>2, <4>1, SliceSplits DEF k
      <4>3. CASE l <= k
        <5>1. IsList(Whole(k, i, l)) /\ IsList(Part(k, i, l))
          <6>1. k \in 1 .. n /\ l \in 1 .. k
            BY <2>2, <4>2, <4>3
          <6> QED
            BY <2>1, <4>2, <6>1
        <5> QED
          BY <3>1, <3>3, <4>3, <5>1, AppendIsList
      <4>4. CASE ~(l <= k)
        <5>1. IsList(Part(v - k, i + k, l - k))
          <6>1. v - k \in 1 .. n /\ l - k \in 1 .. v - k
            BY <2>2, <4>2, <4>4
          <6> QED
            BY <2>1, <4>2, <6>1
        <5> QED
          BY <3>1, <3>3, <4>4, <5>1, AppendIsList
      <4> QED
        BY <4>3, <4>4
    <3> QED
      BY <3>2, <3>3
  <2>4. \A y \in 1 .. n + 1 : y \in 1 .. n \/ y = v
    BY <1>1 DEF v
  <2>5. Lists(v)
    BY <2>3
  <2>6. n + 1 \in 0 .. N
    BY <1>1
  <2> HIDE DEF Lists
  <2> QED
    BY <2>1, <2>4, <2>5, <2>6
<1> HIDE DEF S, N
<1>4. N \in S
  <2>1. 0 .. N \subseteq S
    BY <1>1, <1>2, <1>3, BoundedInduction
  <2> QED
    BY <1>1, <2>1
<1> QED
  BY <1>4 DEF S, N

-----------------------------------------------------------------------------
(* The publisher and the auditor.                                          *)

Leaves == {Leaf(n) : n \in AuditProofs}

\* The log and the leaves under the auditor's checkpoint are leaves of AuditProofs,
\* and the checkpoint is one of its leaves.
LogInv ==
  /\ log \in Seq(Leaves)
  /\ proofs \in Nat
  /\ head.leaves \in Seq(Leaves)
  /\ head = Assemble(head.leaves)

LEMMA SeqIsList ==
  ASSUME NEW S, NEW s \in Seq(S)
  PROVE  IsList(s) /\ \A i \in DOMAIN s : s[i] \in S
BY DEF IsList

\* The fields of the auditor's checkpoint.
LEMMA HeadFacts ==
  ASSUME LogInv
  PROVE  head.tree_size = Len(head.leaves) /\ head.root_hash = TreeHead(head.leaves)
<1> DEFINE of == Assemble(head.leaves)
<1>1. of.tree_size = Len(head.leaves) /\ of.root_hash = TreeHead(head.leaves)
  BY DEF Assemble
<1>2. head = of
  BY DEF LogInv
<1> HIDE DEF of
<1> QED
  BY <1>1, <1>2

\* A proof arrives as a list.
LEMMA ArrivesAsList ==
  ASSUME NEW sent, IsList(sent), NEW proof \in Arrives(sent)
  PROVE  IsList(proof)
<1>1. /\ IsList(Append(sent, OtherDigest)) /\ IsList(<<OtherDigest>> \o sent)
      /\ IsList(SubSeq(sent, 1, Len(sent) - 1)) /\ IsList(SubSeq(sent, 2, Len(sent)))
  <2>1. IsList(Append(sent, OtherDigest))
    BY AppendIsList
  <2>2. IsList(<<OtherDigest>> \o sent)
    BY DEF IsList
  <2>3. IsList(SubSeq(sent, 1, Len(sent) - 1))
    BY DEF IsList
  <2>4. IsList(SubSeq(sent, 2, Len(sent)))
    BY DEF IsList
  <2> QED
    BY <2>1, <2>2, <2>3, <2>4
<1> QED
  BY <1>1, Zenon DEF Arrives

LEMMA ConsistencyProofsAreLists ==
  ASSUME LogInv, NEW proof \in ConsistencyProofs
  PROVE  IsList(proof)
<1>1. PICK leaves \in {log, head.leaves} : \E m \in 1 .. Len(leaves) :
             proof \in Arrives(ConsistencyProof(leaves, m))
  BY DEF ConsistencyProofs
<1>2. PICK m \in 1 .. Len(leaves) : proof \in Arrives(ConsistencyProof(leaves, m))
  BY <1>1
<1>3. IsList(leaves) /\ Len(leaves) \in Nat
  BY SeqIsList DEF LogInv, IsList
<1>4. Len(leaves) \in 1 .. Len(leaves) /\ 0 \in 0 .. Len(leaves) - Len(leaves)
  BY <1>3
<1>5. ConsistencyProof(leaves, m) = WholeProof(leaves, Len(leaves), 0, m)
  BY DEF ConsistencyProof, WholeProof
<1>6. IsList(ConsistencyProof(leaves, m))
  BY <1>3, <1>4, <1>5, SubProofsAreLists
<1> QED
  BY <1>2, <1>6, ArrivesAsList

LEMMA InclusionProofsAreLists ==
  ASSUME LogInv, NEW proof \in InclusionProofs
  PROVE  IsList(proof)
<1>1. PICK leaves \in {log, head.leaves} : \E i \in 0 .. Len(leaves) - 1 :
             proof \in Arrives(InclusionProof(leaves, i))
  BY DEF InclusionProofs
<1>2. PICK i \in 0 .. Len(leaves) - 1 : proof \in Arrives(InclusionProof(leaves, i))
  BY <1>1
<1>3. IsList(leaves) /\ Len(leaves) \in Nat
  BY SeqIsList DEF LogInv, IsList
<1>4. Len(leaves) \in 1 .. Len(leaves) /\ 0 \in 0 .. Len(leaves) - Len(leaves) /\ ~(i >= Len(leaves))
  BY <1>3
<1>5. InclusionProof(leaves, i) = Paths(leaves)[Len(leaves)][0][i]
  BY <1>4 DEF InclusionProof
<1>6. IsList(InclusionProof(leaves, i))
  BY <1>3, <1>4, <1>5, PathsAreLists
<1> QED
  BY <1>2, <1>6, ArrivesAsList

LEMMA LogInvInit == LogInit => LogInv /\ AnchorHolds
<1>1. Assemble(<<>>).leaves = <<>> /\ <<>> \in Seq(Leaves) /\ 0 \in Nat
  BY DEF Assemble
<1> QED
  BY <1>1, Zenon DEF LogInit, LogInv, AnchorHolds

LEMMA PublisherStep ==
  ASSUME LogInv, AppendLeaf \/ ReplaceLeaf \/ LoseLeaf
  PROVE  log' \in Seq(Leaves) /\ proofs' \in Nat /\ UNCHANGED <<head, anchored>>
<1>1. log \in Seq(Leaves) /\ proofs \in Nat
  BY DEF LogInv
<1>2. ASSUME AppendLeaf
      PROVE  log' \in Seq(Leaves) /\ proofs' \in Nat /\ UNCHANGED <<head, anchored>>
  <2>1. proofs + 1 \in AuditProofs
    BY <1>1, <1>2, BoundsAssumption DEF AppendLeaf, AuditProofs
  <2>2. Leaf(proofs + 1) \in Leaves
    BY <2>1 DEF Leaves
  <2> QED
    BY <1>1, <1>2, <2>2 DEF AppendLeaf
<1>3. ASSUME ReplaceLeaf
      PROVE  log' \in Seq(Leaves) /\ proofs' \in Nat /\ UNCHANGED <<head, anchored>>
  <2>1. Leaf(MaxSize + 1) \in Leaves
    BY BoundsAssumption DEF Leaves, AuditProofs
  <2>2. PICK i \in DOMAIN log : log' = [log EXCEPT ![i] = Leaf(MaxSize + 1)]
    BY <1>3 DEF ReplaceLeaf, Rewrite
  <2>3. log' \in Seq(Leaves)
    BY <1>1, <2>1, <2>2
  <2> QED
    BY <1>1, <1>3, <2>3 DEF ReplaceLeaf, Rewrite
<1>4. ASSUME LoseLeaf
      PROVE  log' \in Seq(Leaves) /\ proofs' \in Nat /\ UNCHANGED <<head, anchored>>
  <2>1. PICK i \in DOMAIN log : log' = SubSeq(log, 1, i - 1) \o SubSeq(log, i + 1, Len(log))
    BY <1>4 DEF LoseLeaf, Rewrite
  <2>2. log' \in Seq(Leaves)
    BY <1>1, <2>1
  <2> QED
    BY <1>1, <1>4, <2>2 DEF LoseLeaf, Rewrite
<1> QED
  BY <1>2, <1>3, <1>4

\* A checkpoint that is followed has the leaves of the one before, and more.
LEMMA FollowStep ==
  ASSUME LogInv, Follow
  PROVE  /\ head' = Assemble(log)
         /\ Len(head.leaves) <= Len(log)
         /\ \A j \in 1 .. Len(head.leaves) : head.leaves[j] = log[j]
<1> DEFINE next == Assemble(log)
<1>1. PICK proof \in ConsistencyProofs :
        VerifyConsistency(head.tree_size, next.tree_size, head.root_hash, next.root_hash, proof)
  BY DEF Follow
<1>2. head.tree_size = Len(head.leaves) /\ head.root_hash = TreeHead(head.leaves)
  BY HeadFacts
<1>3. next.tree_size = Len(log) /\ next.root_hash = TreeHead(log)
  BY DEF Assemble
<1>4. IsList(log) /\ IsList(head.leaves) /\ IsList(proof)
  BY SeqIsList, ConsistencyProofsAreLists DEF LogInv
<1>5. VerifyConsistency(Len(head.leaves), Len(log), TreeHead(head.leaves), TreeHead(log), proof)
  <2> HIDE DEF next
  <2> QED
    BY <1>1, <1>2, <1>3
<1>6. head' = Assemble(log)
  BY DEF Follow
<1> QED
  BY <1>4, <1>5, <1>6, ConsistencySound

\* What is anchored is the leaf at its index.
LEMMA AnchorStep ==
  ASSUME LogInv, Anchor
  PROVE  /\ UNCHANGED <<log, proofs, head>>
         /\ anchored'.index < head.tree_size
         /\ head.leaves[anchored'.index + 1] = Leaf(anchored'.proof)
         /\ anchored'.envelope = Envelope(anchored'.proof)
         /\ anchored'.index \in Nat
<1> DEFINE Anchors(n, envelope, index) ==
             /\ \E proof \in InclusionProofs :
                  VerifyInclusion(LeafHash(n, envelope), index, head.tree_size, proof, head.root_hash)
             /\ anchored' = [proof |-> n, envelope |-> envelope, index |-> index]
<1>1. \E n \in AuditProofs : \E envelope \in Shown(n) : \E index \in 0 .. MaxSize :
        Anchors(n, envelope, index)
  BY Zenon DEF Anchor
<1> HIDE DEF Anchors
<1>2. PICK n \in AuditProofs : \E envelope \in Shown(n) : \E index \in 0 .. MaxSize :
        Anchors(n, envelope, index)
  BY <1>1
<1>3. PICK envelope \in Shown(n) : \E index \in 0 .. MaxSize : Anchors(n, envelope, index)
  BY <1>2
<1>4. PICK index \in 0 .. MaxSize : Anchors(n, envelope, index)
  BY <1>3
<1>5. /\ \E proof \in InclusionProofs :
           VerifyInclusion(LeafHash(n, envelope), index, head.tree_size, proof, head.root_hash)
      /\ anchored' = [proof |-> n, envelope |-> envelope, index |-> index]
  BY <1>4 DEF Anchors
<1>6. PICK proof \in InclusionProofs :
        VerifyInclusion(LeafHash(n, envelope), index, head.tree_size, proof, head.root_hash)
  BY <1>5
<1>7. head.tree_size = Len(head.leaves) /\ head.root_hash = TreeHead(head.leaves)
  BY HeadFacts
<1>8. IsList(head.leaves) /\ IsList(proof) /\ \A i \in DOMAIN head.leaves : head.leaves[i] \in Leaves
  BY SeqIsList, InclusionProofsAreLists DEF LogInv
<1>9. index \in Nat
  BY BoundsAssumption
<1>10. /\ index < Len(head.leaves)
      /\ LeafHash(n, envelope) = head.leaves[index + 1]
  BY <1>6, <1>7, <1>8, <1>9, InclusionSound
<1>11. PICK k \in AuditProofs : head.leaves[index + 1] = Leaf(k)
  <2>1. index + 1 \in DOMAIN head.leaves
    BY <1>8, <1>9, <1>10 DEF IsList
  <2> QED
    BY <1>8, <2>1 DEF Leaves
<1>12. LeafHash(n, envelope) = LeafHash(k, Envelope(k))
  BY <1>10, <1>11 DEF Leaf
<1>13. /\ n = k /\ envelope.signature = Envelope(k).signature
      /\ envelope.pqc_signature = Envelope(k).pqc_signature
  BY <1>12, Zenon DEF LeafHash, DigestHex
<1>14. PICK s : envelope = [Envelope(n) EXCEPT !.pqc_signature = s]
  BY DEF Shown
<1>15. envelope = Envelope(n)
  <2>1. envelope.pqc_signature = s
    BY <1>14 DEF Envelope
  <2>2. s = Envelope(n).pqc_signature
    BY <1>13, <2>1
  <2> QED
    BY <1>14, <2>2 DEF Envelope
<1>16. anchored'.proof = n /\ anchored'.envelope = envelope /\ anchored'.index = index
  BY <1>5
<1>17. UNCHANGED <<log, proofs, head>>
  BY DEF Anchor
<1> QED
  BY <1>7, <1>9, <1>10, <1>11, <1>13, <1>15, <1>16, <1>17

\* The invariant: what is anchored has an index, and is where it was anchored.
AnchorInv == LogInv /\ AnchorHolds /\ (anchored # NoValue => anchored.index \in Nat)

LEMMA AnchorInvStep == AnchorInv /\ [LogNext]_logVars => AnchorInv' /\ [IsPrefixOf(head.leaves, head'.leaves)]_head
<1> SUFFICES ASSUME AnchorInv, [LogNext]_logVars
             PROVE  AnchorInv' /\ [IsPrefixOf(head.leaves, head'.leaves)]_head
  OBVIOUS
<1> USE DEF AnchorInv
<1>1. CASE AppendLeaf \/ ReplaceLeaf \/ LoseLeaf
  <2>1. log' \in Seq(Leaves) /\ proofs' \in Nat /\ UNCHANGED <<head, anchored>>
    BY <1>1, PublisherStep
  <2> QED
    BY <2>1, Zenon DEF LogInv, AnchorHolds
<1>2. ASSUME head' = Assemble(log), UNCHANGED <<log, proofs, anchored>>,
             Len(head.leaves) <= Len(log),
             \A j \in 1 .. Len(head.leaves) : head.leaves[j] = log[j]
      PROVE  AnchorInv' /\ [IsPrefixOf(head.leaves, head'.leaves)]_head
  <2> DEFINE new == Assemble(log)
  <2>1. new.leaves = log /\ new.tree_size = Len(log)
    BY DEF Assemble
  <2> HIDE DEF new
  <2>2. head'.leaves = log /\ head'.tree_size = Len(log)
    BY <1>2, <2>1 DEF new
  <2>3. LogInv'
    BY <1>2, <2>2 DEF LogInv
  <2>4. IsPrefixOf(head.leaves, log)
    <3>1. head.leaves = SubSeq(log, 1, Len(head.leaves))
      <4> DEFINE old == head.leaves
                 cut == SubSeq(log, 1, Len(old))
      <4>1. old \in Seq(Leaves) /\ log \in Seq(Leaves)
        BY DEF LogInv
      <4>2. \A j \in 1 .. Len(old) : old[j] = log[j]
        BY <1>2
      <4>3. Len(old) <= Len(log)
        BY <1>2
      <4> HIDE DEF old
      <4>4. cut \in Seq(Leaves) /\ Len(cut) = Len(old) /\ \A j \in 1 .. Len(old) : cut[j] = log[j]
        BY <4>1, <4>3
      <4>5. old = cut
        BY <4>1, <4>2, <4>4
      <4> QED
        BY <4>5 DEF old
    <3> QED
      BY <1>2, <3>1 DEF IsPrefixOf
  <2>5. ASSUME anchored # NoValue
        PROVE  /\ anchored.index \in Nat /\ anchored.index < Len(log)
               /\ log[anchored.index + 1] = Leaf(anchored.proof)
               /\ anchored.envelope = Envelope(anchored.proof)
    <3>1. head.tree_size = Len(head.leaves)
      BY HeadFacts
    <3>2. /\ anchored.index \in Nat /\ anchored.index < Len(head.leaves)
          /\ head.leaves[anchored.index + 1] = Leaf(anchored.proof)
          /\ anchored.envelope = Envelope(anchored.proof)
      BY <2>5, <3>1 DEF AnchorHolds
    <3>3. Len(head.leaves) \in Nat /\ Len(log) \in Nat
      BY SeqIsList DEF LogInv, IsList
    <3>4. anchored.index + 1 \in 1 .. Len(head.leaves) /\ anchored.index < Len(log)
      BY <1>2, <3>2, <3>3
    <3> QED
      BY <1>2, <3>2, <3>4
  <2>6. AnchorHolds'
    BY <1>2, <2>2, <2>5 DEF AnchorHolds
  <2>7. (anchored # NoValue => anchored.index \in Nat)'
    BY <1>2, <2>5
  <2> QED
    BY <2>2, <2>3, <2>4, <2>6, <2>7
<1>3. CASE FollowFirst
  <2>1. head' = Assemble(log) /\ UNCHANGED <<log, proofs, anchored>> /\ head.tree_size = 0
    BY <1>3 DEF FollowFirst
  <2>2. Len(head.leaves) = 0
    BY <2>1, HeadFacts
  <2>3. Len(log) \in Nat
    BY SeqIsList DEF LogInv, IsList
  <2> QED
    BY <1>2, <2>1, <2>2, <2>3
<1>4. CASE Follow
  <2>1. UNCHANGED <<log, proofs, anchored>>
    BY <1>4 DEF Follow
  <2> QED
    BY <1>2, <1>4, <2>1, FollowStep
<1>5. CASE Anchor
  <2>1. /\ UNCHANGED <<log, proofs, head>>
        /\ anchored'.index < head.tree_size
        /\ head.leaves[anchored'.index + 1] = Leaf(anchored'.proof)
        /\ anchored'.envelope = Envelope(anchored'.proof)
        /\ anchored'.index \in Nat
    BY <1>5, AnchorStep
  <2>2. LogInv' /\ AnchorHolds'
    BY <2>1, Zenon DEF LogInv, AnchorHolds
  <2> QED
    BY <2>1, <2>2
<1>6. CASE UNCHANGED logVars
  BY <1>6, Zenon DEF logVars, LogInv, AnchorHolds
<1> QED
  BY <1>1, <1>3, <1>4, <1>5, <1>6 DEF LogNext

\* checkpoint.rs, 5-19: what is anchored stays in the log, at its index and with
\* the envelope it was shown with, under every checkpoint that is followed.
THEOREM SpecAnchorHolds == LogSpec => []AnchorHolds
<1>1. LogInit => AnchorInv
  BY LogInvInit DEF AnchorInv, LogInit
<1>2. AnchorInv /\ [LogNext]_logVars => AnchorInv'
  BY AnchorInvStep
<1>3. AnchorInv => AnchorHolds
  BY DEF AnchorInv
<1> QED
  BY <1>1, <1>2, <1>3, PTL DEF LogSpec

\* checkpoint.rs, 3-7: a checkpoint that is followed commits to the history of
\* the one before, whatever proof came with it.
THEOREM SpecHistoryOnlyGrows == LogSpec => HistoryOnlyGrows
<1>1. LogInit => AnchorInv
  BY LogInvInit DEF AnchorInv, LogInit
<1>2. AnchorInv /\ [LogNext]_logVars => AnchorInv' /\ [IsPrefixOf(head.leaves, head'.leaves)]_head
  BY AnchorInvStep
<1> QED
  BY <1>1, <1>2, PTL DEF LogSpec, HistoryOnlyGrows

-----------------------------------------------------------------------------
(* The slices of the recursion are the nodes of the iteration.             *)

LEMMA PowersClose ==
  ASSUME NEW a \in Powers, NEW b \in Powers, a < 2 * b, b < 2 * a
  PROVE  a = b
<1>1. PICK i \in Nat : a = PowerOfTwo[i]
  BY DEF Powers
<1>2. PICK j \in Nat : b = PowerOfTwo[j]
  BY DEF Powers
<1>3. a \in Nat /\ b \in Nat
  BY PowerFacts
<1>4. i < j => 2 * a <= b
  BY <1>1, <1>2, PowersApart
<1>5. j < i => 2 * b <= a
  BY <1>1, <1>2, PowersApart
<1>6. ~(i < j) /\ ~(j < i)
  BY <1>3, <1>4, <1>5
<1> QED
  BY <1>1, <1>2, <1>6

\* A power of two divides the larger ones, by an even number.
LEMMA PowerDivides ==
  ASSUME NEW a \in Powers, NEW b \in Powers, a < b
  PROVE  \E e \in Nat : b = (2 * e) * a
<1>1. PICK i \in Nat : a = PowerOfTwo[i]
  BY DEF Powers
<1>2. PICK j \in Nat : b = PowerOfTwo[j]
  BY DEF Powers
<1>3. a \in Nat /\ b \in Nat
  BY PowerFacts
<1>4. i < j
  <2>1. j < i => 2 * b <= a
    BY <1>1, <1>2, PowersApart
  <2>2. i # j
    BY <1>1, <1>2, <1>3
  <2> QED
    BY <1>3, <2>1, <2>2
<1> DEFINE d == j - i - 1
<1>5. d \in Nat /\ i + (d + 1) = j /\ d + 1 \in Nat
  BY <1>4
<1> HIDE DEF d
<1>6. PowerOfTwo[j] = PowerOfTwo[i] * PowerOfTwo[d + 1] /\ PowerOfTwo[d + 1] = 2 * PowerOfTwo[d]
      /\ PowerOfTwo[d] \in Nat
  <2>1. PowerOfTwo[i + (d + 1)] = PowerOfTwo[i] * PowerOfTwo[d + 1]
    BY <1>5, PowersMultiply
  <2> QED
    BY <1>5, <2>1, PowersUnfold, PowerFacts
<1> DEFINE e == PowerOfTwo[d]
<1>7. b = a * (2 * e) /\ e \in Nat
  BY <1>1, <1>2, <1>6
<1> HIDE DEF e
<1>8. b = (2 * e) * a
  BY <1>3, <1>7
<1> QED
  BY <1>7, <1>8

LEMMA OddUnique ==
  ASSUME NEW a \in Powers, NEW b \in Powers, NEW p \in Nat, NEW q \in Nat,
         (2 * p + 1) * a = (2 * q + 1) * b
  PROVE  a = b
<1>1. a \in Nat /\ b \in Nat /\ a >= 1 /\ b >= 1
  BY PowerFacts
<1>2. ASSUME NEW x \in Powers, NEW y \in Powers, NEW s \in Nat, NEW t \in Nat,
             (2 * s + 1) * x = (2 * t + 1) * y, x < y
      PROVE  FALSE
  <2>1. x \in Nat /\ x >= 1
    BY PowerFacts
  <2>2. PICK e \in Nat : y = (2 * e) * x
    BY <1>2, PowerDivides
  <2>3. (2 * t + 1) * y = ((2 * t + 1) * (2 * e)) * x
    BY <2>1, <2>2
  <2>4. 2 * s + 1 = (2 * t + 1) * (2 * e)
    <3> DEFINE l == 2 * s + 1
               r == (2 * t + 1) * (2 * e)
    <3>1. l * x = r * x /\ l \in Nat /\ r \in Nat
      BY <1>2, <2>3
    <3> HIDE DEF l, r
    <3>2. l = r
      BY <2>1, <3>1
    <3> QED
      BY <3>2 DEF l, r
  <2>5. (2 * t + 1) * (2 * e) = 2 * ((2 * t + 1) * e) /\ (2 * t + 1) * e \in Nat
    OBVIOUS
  <2> QED
    BY <2>4, <2>5
<1>3. ~(a < b) /\ ~(b < a)
  BY <1>2
<1> QED
  BY <1>1, <1>3

\* The slice of width leaves after the first at, of n: a subtree of u leaves, or
\* what there is of the last one.
Node(n, width, at, u) ==
  /\ u \in Powers /\ width \in Nat /\ width >= 1 /\ width <= u
  /\ \E q \in Nat : at = q * u
  /\ at + width <= n
  /\ width = u \/ (at + width = n /\ u < 2 * width)

LEMMA TopNode ==
  ASSUME NEW n \in Nat, n >= 1
  PROVE  \E u \in Powers : Node(n, n, 0, u)
<1>1. CASE n = 1
  <2>1. Node(n, n, 0, 1)
    <3>1. 0 = 0 * 1
      OBVIOUS
    <3> QED
      BY <1>1, <3>1, PowerFacts DEF Node
  <2> QED
    BY <2>1, PowerFacts
<1>2. CASE n # 1
  <2> DEFINE k == SplitPoint(n)
  <2>1. k \in Powers /\ k \in Nat /\ k < n /\ n <= 2 * k
    BY <1>2, SplitPointSplits
  <2> HIDE DEF k
  <2>2. 2 * k \in Powers /\ 0 = 0 * (2 * k)
    BY <2>1, PowerFacts
  <2>3. Node(n, n, 0, 2 * k)
    BY <2>1, <2>2 DEF Node
  <2> QED
    BY <2>2, <2>3
<1> QED
  BY <1>1, <1>2

\* A node's children are nodes: the left one full, the right one full or the last.
LEMMA NodeSplits ==
  ASSUME NEW n \in Nat, NEW width, NEW at, NEW u, Node(n, width, at, u), width # 1
  PROVE  LET k == SplitPoint(width)
         IN  /\ k \in Powers /\ k \in Nat /\ k >= 1 /\ k < width /\ width <= 2 * k /\ u = 2 * k
             /\ width \in Nat /\ at \in Nat /\ u \in Nat
             /\ \E q \in Nat : at = (2 * q) * k
             /\ Node(n, k, at, k)
             /\ \E v \in Powers : /\ Node(n, width - k, at + k, v)
                                  /\ v = k \/ n <= at + k + v
<1> DEFINE k == SplitPoint(width)
<1>1. PICK q \in Nat : at = q * u
  BY DEF Node
<1>2. /\ u \in Powers /\ width \in Nat /\ width >= 2 /\ width <= u /\ u \in Nat
      /\ at + width <= n /\ (width = u \/ (at + width = n /\ u < 2 * width))
  BY PowerFacts DEF Node
<1>3. k \in Powers /\ k \in Nat /\ k < width /\ width <= 2 * k /\ k >= 1
  BY <1>2, SplitPointSplits
<1> HIDE DEF k
<1>4. u = 2 * k
  <2>1. 2 * k \in Powers
    BY <1>3, PowerFacts
  <2>2. u < 2 * (2 * k) /\ 2 * k < 2 * u
    BY <1>2, <1>3
  <2> QED
    BY <1>2, <2>1, <2>2, PowersClose
<1>5. at = (2 * q) * k /\ at \in Nat /\ at + k = (2 * q + 1) * k
  BY <1>1, <1>3, <1>4
<1>6. Node(n, k, at, k)
  <2>1. 2 * q \in Nat /\ at + k <= n
    BY <1>2, <1>3, <1>5
  <2>2. \E r \in Nat : at = r * k
    BY <1>5, <2>1
  <2>3. k <= k
    BY <1>3
  <2> QED
    BY <1>3, <2>1, <2>2, <2>3 DEF Node
<1> DEFINE rest == width - k
<1>7. rest \in Nat /\ rest >= 1 /\ rest <= k /\ at + k + rest = at + width
  BY <1>2, <1>3, <1>5
<1> HIDE DEF rest
<1>8. CASE rest = k
  <2>1. Node(n, rest, at + k, k)
    <3>1. 2 * q + 1 \in Nat /\ at + k + rest <= n
      BY <1>2, <1>7
    <3> QED
      BY <1>3, <1>5, <1>7, <1>8, <3>1 DEF Node
  <2> QED
    BY <1>2, <1>3, <1>4, <1>5, <1>6, <2>1 DEF k, rest
<1>9. CASE rest # k
  <2>1. at + width = n
    BY <1>2, <1>3, <1>4, <1>7, <1>9 DEF rest
  <2>2. PICK v \in Powers : v \in Nat /\ rest <= v /\ v < 2 * rest
    <3>1. CASE rest = 1
      <4>1. rest <= 1 /\ 1 < 2 * rest
        BY <3>1
      <4> QED
        BY <4>1, PowerFacts
    <3>2. CASE rest # 1
      <4> DEFINE h == SplitPoint(rest)
      <4>1. h \in Powers /\ h \in Nat /\ h < rest /\ rest <= 2 * h
        BY <1>7, <3>2, SplitPointSplits
      <4> HIDE DEF h
      <4>2. 2 * h \in Powers /\ 2 * h < 2 * rest
        BY <1>7, <4>1, PowerFacts
      <4> QED
        BY <4>1, <4>2
    <3> QED
      BY <3>1, <3>2
  <2>3. v < k \/ v = k
    <3>1. CASE v > k
      <4>1. PICK e \in Nat : v = (2 * e) * k
        BY <1>3, <3>1, PowerDivides
      <4>2. e >= 1
        BY <1>3, <3>1, <4>1
      <4>3. v >= 2 * k
        BY <1>3, <4>1, <4>2
      <4> QED
        BY <1>3, <1>7, <2>2, <4>3
    <3> QED
      BY <1>3, <2>2, <3>1
  <2>4. \E r \in Nat : at + k = r * v
    <3>1. CASE v = k
      <4>1. 2 * q + 1 \in Nat
        OBVIOUS
      <4> QED
        BY <1>5, <3>1, <4>1
    <3>2. CASE v < k
      <4>1. PICK e \in Nat : k = (2 * e) * v
        BY <1>3, <3>2, PowerDivides
      <4>2. at + k = ((2 * q + 1) * (2 * e)) * v /\ (2 * q + 1) * (2 * e) \in Nat
        BY <1>5, <2>2, <4>1
      <4> QED
        BY <4>2
    <3> QED
      BY <2>3, <3>1, <3>2
  <2>5. Node(n, rest, at + k, v)
    <3>1. at + k + rest = n
      BY <1>7, <2>1
    <3> QED
      BY <1>7, <2>2, <2>4, <3>1 DEF Node
  <2>6. n <= at + k + v
    BY <1>3, <1>5, <1>7, <2>1, <2>2
  <2> QED
    BY <1>2, <1>3, <1>4, <1>5, <1>6, <2>5, <2>6 DEF k, rest
<1> QED
  BY <1>8, <1>9

\* The same, as a fact about the two children.
SplitsAt(n, width, at, u, k) ==
  /\ k \in Powers /\ k \in Nat /\ k >= 1 /\ k < width /\ width <= 2 * k /\ u = 2 * k
  /\ \E q \in Nat : at = (2 * q) * k
  /\ Node(n, k, at, k)
  /\ \E v \in Powers : Node(n, width - k, at + k, v) /\ (v = k \/ n <= at + k + v)

LEMMA NodeSplitsAt ==
  ASSUME NEW n \in Nat, NEW width, NEW at, NEW u, Node(n, width, at, u), width # 1
  PROVE  SplitsAt(n, width, at, u, SplitPoint(width))
BY NodeSplits DEF SplitsAt

-----------------------------------------------------------------------------
(* The two verifications are complete.                                     *)

\* The loop from start takes the proof, without its first skip hashes, to end.
Runs(start, proof, skip, end) ==
  \E c : /\ c[0] = start
         /\ \A i \in 1 .. Len(proof) - skip : c[i] = Rise(c[i - 1], proof[i + skip])
         /\ c[Len(proof) - skip] = end

LEMMA RunsNothing ==
  ASSUME NEW start, NEW proof, NEW skip, Len(proof) - skip = 0
  PROVE  Runs(start, proof, skip, start)
<1> DEFINE c == [i \in {0} |-> start]
<1>1. c[0] = start /\ c[Len(proof) - skip] = start
  OBVIOUS
<1>2. \A i \in 1 .. Len(proof) - skip : c[i] = Rise(c[i - 1], proof[i + skip])
  OBVIOUS
<1> HIDE DEF c
<1> QED
  BY <1>1, <1>2, Zenon DEF Runs

LEMMA RunsOn ==
  ASSUME NEW start, NEW proof, IsList(proof), NEW skip \in Nat, skip <= Len(proof), NEW end,
         Runs(start, proof, skip, end), NEW p
  PROVE  Runs(start, Append(proof, p), skip, Rise(end, p))
<1> DEFINE n == Len(proof) - skip
           longer == Append(proof, p)
<1>1. PICK c : /\ c[0] = start
               /\ \A i \in 1 .. n : c[i] = Rise(c[i - 1], proof[i + skip])
               /\ c[n] = end
  BY Zenon DEF Runs
<1>2. n \in Nat /\ Len(proof) \in Nat /\ DOMAIN proof = 1 .. Len(proof)
  BY DEF IsList
<1>3. /\ Len(longer) - skip = n + 1 /\ longer[n + 1 + skip] = p
      /\ \A i \in 1 .. n : longer[i + skip] = proof[i + skip]
  <2>1. Len(longer) = Len(proof) + 1 /\ longer[Len(proof) + 1] = p
        /\ \A i \in DOMAIN proof : longer[i] = proof[i]
    BY AppendedList
  <2>2. n + 1 + skip = Len(proof) + 1 /\ \A i \in 1 .. n : i + skip \in DOMAIN proof
    BY <1>2
  <2> HIDE DEF longer
  <2> QED
    BY <1>2, <2>1, <2>2
<1> HIDE DEF n, longer
<1> DEFINE d == [i \in 0 .. n + 1 |-> IF i = n + 1 THEN Rise(end, p) ELSE c[i]]
<1>4. d[0] = start /\ d[n + 1] = Rise(end, p) /\ \A i \in 0 .. n : d[i] = c[i]
  BY <1>1, <1>2
<1> HIDE DEF d
<1>5. \A i \in 1 .. n + 1 : d[i] = Rise(d[i - 1], longer[i + skip])
  <2> TAKE i \in 1 .. n + 1
  <2>1. CASE i = n + 1
    <3>1. i - 1 = n /\ d[n] = end /\ n \in 0 .. n
      BY <1>1, <1>2, <1>4, <2>1
    <3> QED
      BY <1>3, <1>4, <2>1, <3>1
  <2>2. CASE i \in 1 .. n
    <3>1. i \in 0 .. n /\ i - 1 \in 0 .. n
      BY <1>2, <2>2
    <3> QED
      BY <1>1, <1>3, <1>4, <2>2, <3>1
  <2> QED
    BY <1>2, <2>1, <2>2
<1>6. Runs(start, longer, skip, Rise(end, p))
  BY <1>3, <1>4, <1>5, Zenon DEF Runs
<1> QED
  BY <1>6 DEF longer

\* It is the loop of the code, over the proof or over its tail.
LEMMA RunsIsClimb ==
  ASSUME NEW start, NEW proof, IsList(proof), NEW end, NEW rest, IsList(rest), NEW skip \in Nat,
         Runs(start, proof, skip, end), Len(rest) = Len(proof) - skip,
         \A i \in 1 .. Len(rest) : rest[i] = proof[i + skip]
  PROVE  Climb(start, rest) = end
<1> DEFINE n == Len(rest)
<1>1. PICK c : /\ c[0] = start
               /\ \A i \in 1 .. n : c[i] = Rise(c[i - 1], proof[i + skip])
               /\ c[n] = end
  BY Zenon DEF Runs
<1>2. PICK d : /\ d[0] = start
               /\ \A i \in 1 .. n : d[i] = Rise(d[i - 1], rest[i])
               /\ d[n] = Climb(start, rest)
  BY ClimbUnfolds
<1>3. n \in Nat
  BY DEF IsList
<1> HIDE DEF n
<1> DEFINE S == {i \in 0 .. n : c[i] = d[i]}
<1>4. 0 \in S
  BY <1>1, <1>2, <1>3
<1>5. ASSUME NEW i \in 0 .. n - 1, i \in S PROVE i + 1 \in S
  <2>1. i + 1 \in 1 .. n /\ i + 1 - 1 = i /\ i + 1 \in 0 .. n
    BY <1>3
  <2>2. c[i + 1] = Rise(c[i], proof[i + 1 + skip]) /\ d[i + 1] = Rise(d[i], rest[i + 1])
    BY <1>1, <1>2, <2>1
  <2>3. rest[i + 1] = proof[i + 1 + skip]
    BY <2>1 DEF n
  <2> QED
    BY <1>5, <2>1, <2>2, <2>3
<1> HIDE DEF S
<1>6. n \in S
  <2>1. 0 .. n \subseteq S
    BY <1>3, <1>4, <1>5, BoundedInduction
  <2> QED
    BY <1>3, <2>1
<1> QED
  BY <1>1, <1>2, <1>6 DEF S

\* After the turns for a node: the loop stands on it.
Stood(c, n, at, u, fr, sr) ==
  /\ At(c, n, u) /\ c.fnode * u = at
  /\ c.fr = fr /\ c.sr = sr /\ c.overrun = FALSE

\* A left child takes the hash of the right one, and the parent is stood on.
LEMMA RiseFromLeft ==
  ASSUME NEW c, NEW n, NEW k \in Powers, NEW fr, NEW sr, NEW p, NEW at, NEW q \in Nat,
         at = (2 * q) * k, at + k < n, Stood(c, n, at, k, fr, sr)
  PROVE  Stood(Rise(c, p), n, at, 2 * k, fr, NodeHash(sr, p))
<1> DEFINE d == Rise(c, p)
           f == c.fnode
<1>1. k \in Nat /\ k >= 1 /\ At(c, n, k) /\ f * k = at /\ f \in Nat /\ c.snode \in Nat
      /\ f <= c.snode /\ c.fr = fr /\ c.sr = sr /\ c.overrun = FALSE
  BY PowerFacts DEF Stood, At
<1>2. f = 2 * q
  <2> DEFINE t == 2 * q
  <2>1. t \in Nat /\ f * k = t * k
    BY <1>1
  <2> HIDE DEF t, f
  <2>2. f = t
    BY <1>1, <2>1
  <2> QED
    BY <2>2 DEF t
<1>3. f # c.snode /\ n \in Nat /\ at \in Nat
  <2>1. f = c.snode => n <= f * k + k
    BY <1>1, AtFacts
  <2>2. n \in Nat /\ f * k \in Nat
    BY <1>1, AtFacts
  <2> QED
    BY <1>1, <2>1, <2>2
<1>4. ~TakesLeft(c)
  <2>1. f % 2 = 0
    BY <1>2
  <2> QED
    BY <1>3, <2>1 DEF TakesLeft, Even
<1>5. c.snode # 0
  BY <1>1, <1>3
<1>6. PICK u \in Powers :
        /\ At(d, n, 2 * u) /\ d.overrun = c.overrun
        /\ ~TakesLeft(c) => /\ u = k /\ d.fnode * (2 * u) = f * k
                            /\ d.fr = c.fr /\ d.sr = NodeHash(c.sr, p)
  <2> HIDE DEF d
  <2>1. At(c, n, k) /\ c.snode # 0
    BY <1>1, <1>5
  <2> QED
    BY <2>1, RiseMoves DEF d
<1> HIDE DEF d, f
<1>7. Stood(d, n, at, 2 * k, fr, NodeHash(sr, p))
  BY <1>1, <1>4, <1>6 DEF Stood
<1> QED
  BY <1>7 DEF d

\* A right child takes the hash of the left one, past the levels it has no other.
LEMMA RiseFromRight ==
  ASSUME NEW c, NEW n, NEW k \in Powers, NEW v \in Powers, NEW fr, NEW sr, NEW p, NEW at,
         NEW q \in Nat, at = (2 * q) * k, v = k \/ n <= at + k + v,
         Stood(c, n, at + k, v, fr, sr)
  PROVE  Stood(Rise(c, p), n, at, 2 * k, NodeHash(p, fr), NodeHash(p, sr))
<1> DEFINE d == Rise(c, p)
           f == c.fnode
           s == c.snode
<1>1. /\ k \in Nat /\ k >= 1 /\ v \in Nat /\ v >= 1 /\ At(c, n, v) /\ f * v = at + k
      /\ f \in Nat /\ s \in Nat /\ f <= s /\ c.fr = fr /\ c.sr = sr /\ c.overrun = FALSE
  BY PowerFacts DEF Stood, At
<1>2. at \in Nat /\ at + k = (2 * q + 1) * k /\ n \in Nat
  <2>1. n \in Nat
    BY <1>1, AtFacts
  <2> QED
    BY <1>1, <2>1
<1>3. s # 0
  <2> HIDE DEF f, s
  <2>1. f # 0
    BY <1>1, <1>2
  <2> QED
    BY <1>1, <2>1
<1>4. TakesLeft(c)
  <2>1. CASE v = k
    <3>1. f = 2 * q + 1
      <4> DEFINE t == 2 * q + 1
      <4>1. t \in Nat /\ f * k = t * k
        BY <1>1, <1>2, <2>1
      <4> HIDE DEF t, f
      <4>2. f = t
        BY <1>1, <4>1
      <4> QED
        BY <4>2 DEF t
    <3>2. f % 2 = 1
      BY <3>1
    <3> QED
      BY <3>2 DEF TakesLeft, Even
  <2>2. CASE n <= at + k + v
    <3>1. f # s => f * v + v < n
      BY <1>1, AtFacts
    <3>2. f = s
      BY <1>1, <1>2, <2>2, <3>1
    <3> QED
      BY <3>2 DEF TakesLeft
  <2> QED
    BY <2>1, <2>2
<1>5. PICK u \in Powers :
        /\ u \in Nat /\ At(d, n, 2 * u) /\ d.overrun = c.overrun
        /\ TakesLeft(c) => /\ f * v - u \in Nat /\ d.fnode * (2 * u) = f * v - u
                           /\ d.fr = NodeHash(p, c.fr) /\ d.sr = NodeHash(p, c.sr)
  <2> HIDE DEF d
  <2>1. At(c, n, v) /\ c.snode # 0
    BY <1>1, <1>3
  <2> QED
    BY <2>1, RiseMoves DEF d
<1> HIDE DEF d, f, s
<1>6. u = k
  <2>1. d.fnode \in Nat
    BY <1>5 DEF At
  <2> DEFINE g == d.fnode
  <2> HIDE DEF g
  <2>2. (2 * g + 1) * u = (2 * q + 1) * k
    <3>1. g * (2 * u) = at + k - u
      BY <1>1, <1>4, <1>5 DEF g
    <3>2. (2 * g + 1) * u = g * (2 * u) + u
      BY <1>5, <2>1 DEF g
    <3> QED
      BY <1>1, <1>2, <1>5, <3>1, <3>2
  <2> QED
    BY <2>1, <2>2, OddUnique DEF g
<1>7. d.fnode * (2 * k) = at
  BY <1>1, <1>2, <1>4, <1>5, <1>6
<1>8. Stood(d, n, at, 2 * k, NodeHash(p, fr), NodeHash(p, sr))
  BY <1>1, <1>4, <1>5, <1>6, <1>7 DEF Stood
<1> QED
  BY <1>8 DEF d

InclusionStart(leaves, index) ==
  [fnode |-> index, snode |-> Len(leaves) - 1, fr |-> leaves[index + 1], sr |-> leaves[index + 1],
   overrun |-> FALSE]

\* A node of one leaf is that leaf.
LEMMA NodeOfOne ==
  ASSUME NEW n \in Nat, NEW at, NEW u, Node(n, 1, at, u)
  PROVE  u = 1 /\ at \in 0 .. n - 1
<1>1. PICK q \in Nat : at = q * u
  BY DEF Node
<1>2. u \in Nat /\ u >= 1 /\ u < 2
  BY PowerFacts DEF Node
<1>3. u = 1
  BY <1>2
<1> QED
  BY <1>1, <1>3 DEF Node

LEMMA NodeFacts ==
  ASSUME NEW n \in Nat, NEW width, NEW at, NEW u, Node(n, width, at, u)
  PROVE  /\ width \in 1 .. n /\ at \in 0 .. n - width /\ at \in Nat /\ width \in Nat
         /\ u \in Nat /\ width <= u
<1>1. PICK q \in Nat : at = q * u
  BY DEF Node
<1>2. u \in Nat /\ u >= 1
  BY PowerFacts DEF Node
<1>3. at \in Nat
  BY <1>1, <1>2
<1> QED
  BY <1>2, <1>3 DEF Node

\* The path of a leaf in a node takes the loop from the leaf to the node.
LEMMA PathRuns ==
  ASSUME NEW leaves, IsList(leaves), NEW width, NEW at, NEW u,
         Node(Len(leaves), width, at, u), NEW m \in 0 .. width - 1
  PROVE  \E end, fr :
           /\ Runs(InclusionStart(leaves, at + m), Paths(leaves)[width][at][m], 0, end)
           /\ Stood(end, Len(leaves), at, u, fr, Roots(leaves)[width][at])
<1> DEFINE N == Len(leaves)
           path == Paths(leaves)
           root == Roots(leaves)
           Reaches(v, i, w, l) ==
             \E end, fr : /\ Runs(InclusionStart(leaves, i + l), path[v][i][l], 0, end)
                          /\ Stood(end, N, i, w, fr, root[v][i])
           Claim(v) == \A i, w : Node(N, v, i, w) => \A l \in 0 .. v - 1 : Reaches(v, i, w, l)
           S == {n \in Nat : \A v \in 1 .. n : Claim(v)}
<1>1. N \in Nat
  BY DEF IsList
<1>2. 0 \in S
  OBVIOUS
<1>3. ASSUME NEW n \in Nat, n \in S PROVE n + 1 \in S
  <2>1. \A v \in 1 .. n : Claim(v)
    BY <1>3
  <2> DEFINE v == n + 1
  <2>2. v \in Nat /\ v >= 1 /\ n = v - 1
    OBVIOUS
  <2> HIDE DEF v
  <2>3. ASSUME NEW i, NEW w, Node(N, v, i, w), NEW l \in 0 .. v - 1
        PROVE  Reaches(v, i, w, l)
    <3>1. /\ v \in 1 .. N /\ i \in 0 .. N - v /\ i \in Nat /\ w \in Nat
      BY <1>1, <2>3, NodeFacts
    <3> DEFINE k     == SplitPoint(v)
               left  == root[k][i]
               right == root[v - k][i + k]
    <3>2. path[v][i][l] = IF v = 1 THEN <<>>
                          ELSE IF l < k THEN Append(path[k][i][l], right)
                               ELSE Append(path[v - k][i + k][l - k], left)
      BY <3>1, PathOfSlice
    <3>3. root[v][i] = IF v = 1 THEN leaves[i + 1] ELSE NodeHash(left, right)
      BY <3>1, RootOfSlice
    <3> HIDE DEF k, path, root, left, right, N
    <3>4. CASE v = 1
      <4> DEFINE start == InclusionStart(leaves, i)
      <4>1. w = 1 /\ i \in 0 .. N - 1 /\ l = 0
        BY <1>1, <2>3, <3>4, NodeOfOne
      <4>2. Runs(start, path[v][i][l], 0, start)
        <5>1. path[v][i][l] = <<>> /\ Len(<<>>) - 0 = 0
          BY <3>2, <3>4
        <5> QED
          BY <5>1, RunsNothing
      <4>3. Stood(start, N, i, 1, leaves[i + 1], leaves[i + 1])
        <5>1. /\ start.fnode = i /\ start.snode = N - 1 /\ start.fr = leaves[i + 1]
              /\ start.sr = leaves[i + 1] /\ start.overrun = FALSE
          BY DEF InclusionStart, N
        <5> HIDE DEF start
        <5>2. At(start, N, 1)
          BY <1>1, <4>1, <5>1, PowerFacts DEF At
        <5> QED
          BY <4>1, <5>1, <5>2 DEF Stood
      <4> HIDE DEF start
      <4>4. start = InclusionStart(leaves, i + l)
        BY <4>1 DEF start
      <4> QED
        BY <3>3, <3>4, <4>1, <4>2, <4>3, <4>4
    <3>5. CASE v # 1
      <4>1. /\ k \in Powers /\ k \in Nat /\ k >= 1 /\ k < v /\ v <= 2 * k /\ w = 2 * k
            /\ \E q \in Nat : i = (2 * q) * k
            /\ Node(N, k, i, k)
            /\ \E x \in Powers : Node(N, v - k, i + k, x) /\ (x = k \/ N <= i + k + x)
        <5> HIDE DEF Reaches, Claim, S
        <5> QED
          <6>1. SplitsAt(N, v, i, w, SplitPoint(v))
            BY <1>1, <2>3, <3>5, NodeSplitsAt
          <6> QED
            BY ONLY <6>1 DEF SplitsAt, k
      <4>2. PICK q \in Nat : i = (2 * q) * k
        BY <4>1
      <4>3. CASE l < k
        <5>1. k \in 1 .. n /\ l \in 0 .. k - 1
          BY <2>2, <4>1, <4>3
        <5>2. PICK end, fr : /\ Runs(InclusionStart(leaves, i + l), path[k][i][l], 0, end)
                             /\ Stood(end, N, i, k, fr, left)
          BY <2>1, <4>1, <5>1 DEF left
        <5>3. IsList(path[k][i][l])
          <6>1. k \in 1 .. N /\ i \in 0 .. N - k
            BY <1>1, <4>1, NodeFacts
          <6> QED
            BY <5>1, <6>1, PathsAreLists DEF path, N
        <5>4. Runs(InclusionStart(leaves, i + l), Append(path[k][i][l], right), 0, Rise(end, right))
          <6>1. 0 <= Len(path[k][i][l])
            BY <5>3 DEF IsList
          <6> QED
            BY <5>2, <5>3, <6>1, RunsOn
        <5>5. i + k < N
          BY <1>1, <3>1, <4>1
        <5>6. Stood(Rise(end, right), N, i, 2 * k, fr, NodeHash(left, right))
          BY <4>1, <4>2, <5>2, <5>5, RiseFromLeft
        <5> QED
          BY <3>2, <3>3, <3>5, <4>1, <4>3, <5>4, <5>6, Zenon
      <4>4. CASE ~(l < k)
        <5>1. PICK x \in Powers : Node(N, v - k, i + k, x) /\ (x = k \/ N <= i + k + x)
          BY <4>1
        <5>2. v - k \in 1 .. n /\ l - k \in 0 .. (v - k) - 1 /\ (i + k) + (l - k) = i + l
          BY <2>2, <3>1, <4>1, <4>4
        <5> DEFINE inner == path[v - k][i + k][l - k]
        <5>3. PICK end, fr : /\ Runs(InclusionStart(leaves, (i + k) + (l - k)), inner, 0, end)
                             /\ Stood(end, N, i + k, x, fr, right)
          BY <2>1, <5>1, <5>2 DEF right
        <5>4. IsList(inner)
          <6>1. v - k \in 1 .. N /\ i + k \in 0 .. N - (v - k)
            BY <1>1, <5>1, NodeFacts
          <6> QED
            BY <5>2, <6>1, PathsAreLists DEF path, N
        <5> HIDE DEF inner
        <5>5. Runs(InclusionStart(leaves, i + l), Append(inner, left), 0, Rise(end, left))
          <6>1. 0 <= Len(inner)
            BY <5>4 DEF IsList
          <6> QED
            BY <5>2, <5>3, <5>4, <6>1, RunsOn
        <5>6. Stood(Rise(end, left), N, i, 2 * k, NodeHash(left, fr), NodeHash(left, right))
          BY <4>1, <4>2, <5>1, <5>3, RiseFromRight
        <5>7. path[v][i][l] = Append(inner, left) /\ root[v][i] = NodeHash(left, right)
          BY <3>2, <3>3, <3>5, <4>4 DEF inner
        <5> QED
          BY <4>1, <5>5, <5>6, <5>7, Zenon
      <4> QED
        BY <4>3, <4>4
    <3> QED
      BY <3>4, <3>5
  <2> HIDE DEF Reaches
  <2>4. Claim(v)
    BY <2>3
  <2>5. \A y \in 1 .. n + 1 : y \in 1 .. n \/ y = v
    BY DEF v
  <2> HIDE DEF Claim
  <2> QED
    BY <2>1, <2>4, <2>5
<1> HIDE DEF S
<1>4. width \in S
  <2>1. width \in Nat
    BY <1>1, NodeFacts
  <2>2. Nat \subseteq S
    BY <1>2, <1>3, SetInduction
  <2> QED
    BY <2>1, <2>2
<1>5. Claim(width)
  <2>1. width \in 1 .. width
    BY <1>1, NodeFacts
  <2> HIDE DEF Claim
  <2> QED
    BY <1>4, <2>1 DEF S
<1> QED
  BY <1>5

\* Every leaf verifies with its path.
LEMMA InclusionComplete ==
  ASSUME NEW leaves, IsList(leaves), NEW index \in 0 .. Len(leaves) - 1
  PROVE  VerifyInclusion(leaves[index + 1], index, Len(leaves),
                         InclusionProof(leaves, index), TreeHead(leaves))
<1> DEFINE N == Len(leaves)
           proof == Paths(leaves)[N][0][index]
<1>1. N \in Nat /\ N >= 1 /\ N \in 1 .. N /\ 0 \in 0 .. N - N /\ index < N /\ ~(index >= N)
      /\ leaves # <<>>
  <2>1. N \in Nat
    BY DEF IsList
  <2>2. leaves # <<>>
    BY <2>1, EmptyIsList
  <2> QED
    BY <2>1, <2>2
<1>2. InclusionProof(leaves, index) = proof /\ TreeHead(leaves) = Roots(leaves)[N][0]
  BY <1>1 DEF InclusionProof, TreeHead
<1>3. IsList(proof)
  BY <1>1, PathsAreLists
<1> HIDE DEF N
<1>4. PICK u \in Powers : Node(N, N, 0, u)
  BY <1>1, TopNode
<1> HIDE DEF proof
<1>5. PICK end, fr : /\ Runs(InclusionStart(leaves, 0 + index), proof, 0, end)
                     /\ Stood(end, N, 0, u, fr, Roots(leaves)[N][0])
  BY <1>4, PathRuns DEF N, proof
<1> DEFINE start == InclusionStart(leaves, index)
<1>6. Climb(start, proof) = end
  <2>1. Len(proof) = Len(proof) - 0 /\ \A i \in 1 .. Len(proof) : proof[i] = proof[i + 0]
    BY <1>3 DEF IsList
  <2>2. Runs(start, proof, 0, end)
    BY <1>5
  <2> HIDE DEF start
  <2> QED
    BY <1>3, <2>1, <2>2, RunsIsClimb
<1>7. ReachesTop(end) /\ end.sr = TreeHead(leaves)
  <2>1. end.snode \in Nat /\ end.snode * u < N /\ N <= u /\ u \in Nat /\ u >= 1
    BY <1>1, <1>4, <1>5, PowerFacts, NodeFacts DEF Stood, At
  <2>2. end.snode = 0
    BY <1>1, <2>1
  <2> QED
    BY <1>2, <1>5, <2>2 DEF ReachesTop, Stood
<1>8. VerifyInclusion(leaves[index + 1], index, N, proof, TreeHead(leaves))
  <2>1. start = [fnode |-> index, snode |-> N - 1, fr |-> leaves[index + 1], sr |-> leaves[index + 1],
                 overrun |-> FALSE]
    BY DEF InclusionStart, N
  <2> HIDE DEF start
  <2> QED
    BY <1>1, <1>6, <1>7, <2>1 DEF VerifyInclusion
<1> QED
  BY <1>2, <1>8 DEF N

ConsistencyStart(leaves, m, seed) ==
  [fnode |-> Aligned(m, Len(leaves)).fnode, snode |-> Aligned(m, Len(leaves)).snode,
   fr |-> seed, sr |-> seed, overrun |-> FALSE]

\* The loop starts at the left sibling with which the old tree ends.
LEMMA StartsAtLeft ==
  ASSUME NEW leaves, NEW k \in Powers, NEW at, NEW q \in Nat, at = (2 * q) * k,
         Len(leaves) \in Nat, at + k < Len(leaves), NEW seed
  PROVE  Stood(ConsistencyStart(leaves, at + k, seed), Len(leaves), at, k, seed, seed)
<1> DEFINE n == Len(leaves)
           m == at + k
           start == ConsistencyStart(leaves, m, seed)
<1>1. /\ start.fnode = Aligned(m, n).fnode /\ start.snode = Aligned(m, n).snode
      /\ start.fr = seed /\ start.sr = seed /\ start.overrun = FALSE
  BY DEF ConsistencyStart
<1>2. k \in Nat /\ k >= 1 /\ at \in Nat /\ m = (2 * q + 1) * k
  <2>1. k \in Nat /\ k >= 1
    BY PowerFacts
  <2> QED
    BY <2>1
<1>3. m \in Nat /\ m >= 1 /\ n \in Nat /\ m < n
  BY <1>2
<1> HIDE DEF start, n, m
<1>4. PICK w \in Powers : /\ At(start, n, w) /\ w \in Nat /\ start.fnode * w = m - w
                          /\ w = PowerOfTwo[TrailingZeros(m)]
  BY <1>1, <1>3, AlignedStart
<1>5. w = k
  <2>1. \E p \in Nat : m = (2 * p + 1) * w
    <3>1. m # 0
      BY <1>3
    <3> QED
      BY <1>3, <1>4, <3>1, OddFactor
  <2> QED
    BY <1>2, <2>1, OddUnique
<1>6. m - k = at
  BY <1>2 DEF m
<1> QED
  BY <1>1, <1>4, <1>5, <1>6 DEF Stood, start, n, m

\* The proof for the first m leaves of a node, behind its seed, takes the loop
\* to the node, with the hashes of these leaves and of all.
LEMMA PartRuns ==
  ASSUME NEW leaves, IsList(leaves), NEW width, NEW at, NEW u,
         Node(Len(leaves), width, at, u), NEW m \in 1 .. width - 1
  PROVE  LET part == PartProof(leaves, width, at, m)
         IN  /\ IsList(part) /\ Len(part) >= 1
             /\ \E end :
                  /\ Runs(ConsistencyStart(leaves, at + m, part[1]), part, 1, end)
                  /\ Stood(end, Len(leaves), at, u, Roots(leaves)[m][at], Roots(leaves)[width][at])
<1> DEFINE N == Len(leaves)
           root == Roots(leaves)
           Part(v, i, l) == PartProof(leaves, v, i, l)
           Start(l, seed) == ConsistencyStart(leaves, l, seed)
           Reaches(v, i, w, l) ==
             /\ IsList(Part(v, i, l)) /\ Len(Part(v, i, l)) >= 1
             /\ \E end : /\ Runs(Start(i + l, Part(v, i, l)[1]), Part(v, i, l), 1, end)
                         /\ Stood(end, N, i, w, root[l][i], root[v][i])
           Claim(v) == \A i, w : Node(N, v, i, w) => \A l \in 1 .. v - 1 : Reaches(v, i, w, l)
           S == {n \in Nat : \A v \in 1 .. n : Claim(v)}
<1>1. N \in Nat
  BY DEF IsList
<1>2. 0 \in S
  OBVIOUS
<1> HIDE DEF Part, Start
\* One hash more, for a proof that takes the loop somewhere.
<1>3. ASSUME NEW sub, NEW start, NEW p, IsList(sub), Len(sub) >= 1, NEW end, Runs(start, sub, 1, end)
      PROVE  /\ IsList(Append(sub, p)) /\ Len(Append(sub, p)) >= 1 /\ Append(sub, p)[1] = sub[1]
             /\ Runs(start, Append(sub, p), 1, Rise(end, p))
  <2>1. Len(sub) \in Nat /\ 1 \in DOMAIN sub
    BY <1>3 DEF IsList
  <2>2. Runs(start, Append(sub, p), 1, Rise(end, p))
    BY <1>3, <2>1, RunsOn
  <2>3. /\ IsList(Append(sub, p)) /\ Len(Append(sub, p)) = Len(sub) + 1
        /\ Append(sub, p)[1] = sub[1]
    BY <1>3, <2>1, AppendedList
  <2> QED
    BY <1>3, <2>1, <2>2, <2>3
<1>4. ASSUME NEW n \in Nat, n \in S PROVE n + 1 \in S
  <2>1. \A v \in 1 .. n : Claim(v)
    BY <1>4
  <2> DEFINE v == n + 1
  <2>2. v \in Nat /\ v >= 1 /\ n = v - 1
    OBVIOUS
  <2> HIDE DEF v
  <2>3. ASSUME NEW i, NEW w, Node(N, v, i, w), NEW l \in 1 .. v - 1
        PROVE  Reaches(v, i, w, l)
    <3>1. v \in 1 .. N /\ i \in 0 .. N - v /\ i \in Nat /\ w \in Nat /\ v # 1
      <4> HIDE DEF N, root, Reaches, Claim, S
      <4>1. v \in 1 .. N /\ i \in 0 .. N - v /\ i \in Nat /\ w \in Nat
        BY <1>1, <2>3, NodeFacts
      <4>2. v # 1
        BY <2>2
      <4> QED
        BY <4>1, <4>2
    <3> DEFINE k     == SplitPoint(v)
               left  == root[k][i]
               right == root[v - k][i + k]
    <3>2. /\ l <= k => Part(v, i, l) = Append(Part(k, i, l), right)
          /\ ~(l <= k) => Part(v, i, l) = Append(Part(v - k, i + k, l - k), left)
      <4> HIDE DEF Reaches, Claim, S
      <4>1. l \in 1 .. v /\ l # v
        BY <2>2
      <4>2. v \in 1 .. Len(leaves) /\ i \in 0 .. Len(leaves) - v
        BY <3>1
      <4>3. /\ l <= k => PartProof(leaves, v, i, l) = Append(PartProof(leaves, k, i, l), right)
            /\ ~(l <= k) => PartProof(leaves, v, i, l) = Append(PartProof(leaves, v - k, i + k, l - k), left)
        <5> HIDE DEF N
        <5>1. ASSUME l <= k PROVE PartProof(leaves, v, i, l) = Append(PartProof(leaves, k, i, l), right)
          BY <4>1, <4>2, <5>1, SubProofOfSlice
        <5>2. ASSUME ~(l <= k)
              PROVE  PartProof(leaves, v, i, l) = Append(PartProof(leaves, v - k, i + k, l - k), left)
          BY <4>1, <4>2, <5>2, SubProofOfSlice
        <5> QED
          BY <5>1, <5>2
      <4> HIDE DEF N, left, right
      <4> QED
        BY <4>3 DEF Part
    <3>3. root[v][i] = NodeHash(left, right)
      BY <3>1, RootOfSlice
    <3>4. /\ k \in Powers /\ k \in Nat /\ k >= 1 /\ k < v /\ v <= 2 * k /\ w = 2 * k
          /\ \E q \in Nat : i = (2 * q) * k
          /\ Node(N, k, i, k)
          /\ \E x \in Powers : Node(N, v - k, i + k, x) /\ (x = k \/ N <= i + k + x)
      <4> HIDE DEF N, root, Reaches, Claim, S, left, right
      <4>1. SplitsAt(N, v, i, w, SplitPoint(v))
        BY <1>1, <2>3, <3>1, NodeSplitsAt
      <4> QED
        BY ONLY <4>1 DEF SplitsAt, k
    <3>5. PICK q \in Nat : i = (2 * q) * k
      BY <3>4
    <3>6. i + k < N
      <4> HIDE DEF k, N, root, Reaches, Claim, S, left, right
      <4>1. k \in Nat /\ k < v /\ i \in Nat /\ N \in Nat
        BY <1>1, <3>1, <3>4
      <4>2. v \in Nat /\ i + v <= N
        BY <1>1, <3>1
      <4> QED
        BY ONLY <4>1, <4>2
    <3> HIDE DEF k
    \* From the left child, which the old tree ends in or with.
    <3>7. ASSUME l <= k, IsList(Part(k, i, l)), Len(Part(k, i, l)) >= 1, NEW end,
                 Runs(Start(i + l, Part(k, i, l)[1]), Part(k, i, l), 1, end),
                 Stood(end, N, i, k, root[l][i], left)
          PROVE  Reaches(v, i, w, l)
      <4> HIDE DEF root, left, right
      <4>1. Stood(Rise(end, right), N, i, 2 * k, root[l][i], NodeHash(left, right))
        BY <3>4, <3>5, <3>6, <3>7, RiseFromLeft
      <4>2. /\ IsList(Append(Part(k, i, l), right)) /\ Len(Append(Part(k, i, l), right)) >= 1
            /\ Append(Part(k, i, l), right)[1] = Part(k, i, l)[1]
            /\ Runs(Start(i + l, Part(k, i, l)[1]), Append(Part(k, i, l), right), 1, Rise(end, right))
        BY <1>3, <3>7
      <4>3. Part(v, i, l) = Append(Part(k, i, l), right)
        BY <3>2, <3>7
      <4> HIDE DEF N
      <4> QED
        BY <3>3, <3>4, <4>1, <4>2, <4>3
    <3>8. CASE l < k
      <4>1. k \in 1 .. n /\ l \in 1 .. k - 1 /\ l <= k
        BY <2>2, <3>4, <3>8
      <4>2. Reaches(k, i, k, l)
        <5> HIDE DEF Reaches
        <5> QED
          BY <2>1, <3>4, <4>1
      <4> QED
        BY <3>7, <4>1, <4>2
    <3>9. CASE l = k
      <4> DEFINE start == Start(i + k, left)
                 seed  == Part(k, i, k)
      <4>1. seed = <<left>>
        <5>1. k \in 1 .. N /\ i \in 0 .. N - k /\ k \in 1 .. k
          BY <1>1, <3>4, NodeFacts
        <5> QED
          BY <5>1, SubProofOfSlice DEF Part
      <4> HIDE DEF root, left, right
      <4>2. IsList(<<left>>) /\ Len(<<left>>) = 1 /\ <<left>>[1] = left
        BY SingleIsList
      <4>3. Runs(start, <<left>>, 1, start)
        <5>1. Len(<<left>>) - 1 = 0
          BY <4>2
        <5> QED
          BY <5>1, RunsNothing, Zenon
      <4>4. Stood(start, N, i, k, left, left)
        BY <1>1, <3>4, <3>5, <3>6, StartsAtLeft DEF Start
      <4>5. root[l][i] = left /\ l <= k
        BY <3>4, <3>9 DEF left
      <4> HIDE DEF start, seed
      <4>6. /\ IsList(seed) /\ Len(seed) >= 1 /\ Runs(Start(i + l, seed[1]), seed, 1, start)
            /\ Stood(start, N, i, k, root[l][i], left)
        BY <3>9, <4>1, <4>2, <4>3, <4>4, <4>5 DEF start
      <4>7. seed = Part(k, i, l)
        BY <3>9 DEF seed
      <4> HIDE DEF Reaches, N
      <4> QED
        BY <3>7, <4>5, <4>6, <4>7
    <3>10. CASE ~(l <= k)
      <4>1. PICK x \in Powers : Node(N, v - k, i + k, x) /\ (x = k \/ N <= i + k + x)
        BY <3>4
      <4>2. v - k \in 1 .. n /\ l - k \in 1 .. (v - k) - 1 /\ (i + k) + (l - k) = i + l
        BY <2>2, <3>1, <3>4, <3>10
      <4> DEFINE inner == Part(v - k, i + k, l - k)
                 old   == root[l - k][i + k]
      <4>3. Reaches(v - k, i + k, x, l - k)
        <5> HIDE DEF Reaches
        <5> QED
          BY <2>1, <4>1, <4>2
      <4>4. PICK end : /\ Runs(Start(i + l, inner[1]), inner, 1, end)
                       /\ Stood(end, N, i + k, x, old, right)
        BY <4>2, <4>3
      <4>5. IsList(inner) /\ Len(inner) >= 1
        BY <4>3
      <4>6. root[l][i] = NodeHash(left, old)
        <5>1. l \in Nat /\ k < l /\ l <= 2 * k /\ l # 1 /\ l \in 1 .. N /\ i \in 0 .. N - l
          BY <1>1, <2>2, <3>1, <3>4, <3>10
        <5>2. SplitPoint(l) = k
          BY <3>4, <5>1, SplitPointIs
        <5> QED
          BY <5>1, <5>2, RootOfSlice
      <4> HIDE DEF inner, old, root, left, right
      <4>7. Stood(Rise(end, left), N, i, 2 * k, NodeHash(left, old), NodeHash(left, right))
        BY <3>4, <3>5, <4>1, <4>4, RiseFromRight
      <4>8. /\ IsList(Append(inner, left)) /\ Len(Append(inner, left)) >= 1
            /\ Append(inner, left)[1] = inner[1]
            /\ Runs(Start(i + l, inner[1]), Append(inner, left), 1, Rise(end, left))
        BY <1>3, <4>4, <4>5
      <4>9. Part(v, i, l) = Append(inner, left)
        BY <3>2, <3>10 DEF inner
      <4> HIDE DEF N
      <4> QED
        BY <3>3, <3>4, <4>6, <4>7, <4>8, <4>9
    <3> QED
      BY <2>2, <3>4, <3>8, <3>9, <3>10
  <2> HIDE DEF Reaches
  <2>4. Claim(v)
    BY <2>3
  <2>5. \A y \in 1 .. n + 1 : y \in 1 .. n \/ y = v
    BY DEF v
  <2> HIDE DEF Claim
  <2> QED
    BY <2>1, <2>4, <2>5
<1> HIDE DEF S
<1>5. width \in S
  <2>1. width \in Nat
    BY <1>1, NodeFacts
  <2>2. Nat \subseteq S
    BY <1>2, <1>4, SetInduction
  <2> QED
    BY <2>1, <2>2
<1>6. Claim(width)
  <2>1. width \in 1 .. width
    BY <1>1, NodeFacts
  <2> HIDE DEF Claim
  <2> QED
    BY <1>5, <2>1 DEF S
<1> QED
  BY <1>6 DEF Part, Start

\* If the old size is no power of two, its proof begins with the seed.
LEMMA WholeIsPart ==
  ASSUME NEW leaves, IsList(leaves), NEW width \in 1 .. Len(leaves), NEW m \in 1 .. width - 1,
         m \notin Powers
  PROVE  WholeProof(leaves, width, 0, m) = PartProof(leaves, width, 0, m)
<1> DEFINE N == Len(leaves)
           Same(v) == \A l \in 1 .. v - 1 : l \notin Powers =>
                        WholeProof(leaves, v, 0, l) = PartProof(leaves, v, 0, l)
           S == {n \in 0 .. N : \A v \in 1 .. n : Same(v)}
<1>1. N \in Nat
  BY DEF IsList
<1>2. 0 \in S
  BY <1>1
<1>3. ASSUME NEW n \in 0 .. N - 1, n \in S PROVE n + 1 \in S
  <2>1. \A v \in 1 .. n : Same(v)
    BY <1>3
  <2> DEFINE v == n + 1
  <2>2. v \in 1 .. N /\ v \in Nat /\ n = v - 1 /\ 0 \in 0 .. N - v
    BY <1>1
  <2> HIDE DEF v
  <2>3. ASSUME NEW l \in 1 .. v - 1, l \notin Powers
        PROVE  WholeProof(leaves, v, 0, l) = PartProof(leaves, v, 0, l)
    <3> DEFINE k     == SplitPoint(v)
               right == Roots(leaves)[v - k][0 + k]
    <3>1. v # 1 /\ l \in 1 .. v /\ l # v
      BY <2>2
    <3>2. k \in 1 .. v - 1 /\ k \in Powers /\ k \in Nat
      BY <1>1, <2>2, <3>1, SliceSplits
    <3>3. /\ l <= k => /\ WholeProof(leaves, v, 0, l) = Append(WholeProof(leaves, k, 0, l), right)
                       /\ PartProof(leaves, v, 0, l) = Append(PartProof(leaves, k, 0, l), right)
          /\ ~(l <= k) => PartProof(leaves, v, 0, l) = WholeProof(leaves, v, 0, l)
      BY <2>2, <3>1, SubProofOfSlice
    <3> HIDE DEF k, right
    <3>4. CASE l <= k
      <4>1. l # k
        BY <2>3, <3>2
      <4>2. k \in 1 .. n /\ l \in 1 .. k - 1
        BY <2>2, <3>2, <3>4, <4>1
      <4>3. WholeProof(leaves, k, 0, l) = PartProof(leaves, k, 0, l)
        BY <2>1, <2>3, <4>2
      <4> QED
        BY <3>3, <3>4, <4>3
    <3> QED
      BY <3>3, <3>4
  <2>4. Same(v)
    BY <2>3
  <2>5. (\A y \in 1 .. n + 1 : y \in 1 .. n \/ y = v) /\ n + 1 \in 0 .. N
    BY <1>1 DEF v
  <2> HIDE DEF Same
  <2> QED
    BY <2>1, <2>4, <2>5
<1> HIDE DEF S, N
<1>4. N \in S
  <2>1. 0 .. N \subseteq S
    BY <1>1, <1>2, <1>3, BoundedInduction
  <2> QED
    BY <1>1, <2>1
<1>5. Same(width)
  <2> HIDE DEF Same
  <2> QED
    BY <1>4 DEF S, N
<1> QED
  BY <1>5

\* If it is one, the old root is the seed.
LEMMA WholeRuns ==
  ASSUME NEW leaves, IsList(leaves), NEW m \in Powers, NEW width, NEW u,
         Node(Len(leaves), width, 0, u), m < width
  PROVE  \E end :
           /\ Runs(ConsistencyStart(leaves, m, Roots(leaves)[m][0]),
                   WholeProof(leaves, width, 0, m), 0, end)
           /\ Stood(end, Len(leaves), 0, u, Roots(leaves)[m][0], Roots(leaves)[width][0])
<1> DEFINE N == Len(leaves)
           root == Roots(leaves)
           Whole(v) == WholeProof(leaves, v, 0, m)
           start == ConsistencyStart(leaves, m, root[m][0])
           Reaches(v, w) == \E end : /\ Runs(start, Whole(v), 0, end)
                                     /\ Stood(end, N, 0, w, root[m][0], root[v][0])
           Claim(v) == \A w : Node(N, v, 0, w) /\ m < v => Reaches(v, w)
           S == {n \in Nat : \A v \in 1 .. n : Claim(v)}
<1>1. N \in Nat /\ m \in Nat /\ m >= 1
  BY PowerFacts DEF IsList
<1>2. 0 \in S
  OBVIOUS
<1> HIDE DEF Whole, start
<1>3. ASSUME NEW n \in Nat, n \in S PROVE n + 1 \in S
  <2>1. \A v \in 1 .. n : Claim(v)
    BY <1>3
  <2> DEFINE v == n + 1
  <2>2. v \in Nat /\ v >= 1 /\ n = v - 1
    OBVIOUS
  <2> HIDE DEF v
  <2>3. ASSUME NEW w, Node(N, v, 0, w), m < v PROVE Reaches(v, w)
    <3>1. v \in 1 .. N /\ 0 \in 0 .. N - v /\ w \in Nat /\ v # 1 /\ m \in 1 .. v /\ m # v
      BY <1>1, <2>2, <2>3, NodeFacts
    <3> DEFINE k     == SplitPoint(v)
               left  == root[k][0]
               right == root[v - k][0 + k]
    <3>2. m <= k => Whole(v) = Append(Whole(k), right)
      BY <3>1, SubProofOfSlice DEF Whole
    <3>3. root[v][0] = NodeHash(left, right)
      BY <3>1, RootOfSlice
    <3>4. /\ k \in Powers /\ k \in Nat /\ k >= 1 /\ k < v /\ v <= 2 * k /\ w = 2 * k
          /\ Node(N, k, 0, k)
      <4> HIDE DEF N, root, Reaches, Claim, S, left, right
      <4>1. SplitsAt(N, v, 0, w, SplitPoint(v))
        BY <1>1, <2>3, <3>1, NodeSplitsAt
      <4> QED
        BY ONLY <4>1 DEF SplitsAt, k
    <3> HIDE DEF k, left, right
    <3>5. m <= k
      <4>1. ASSUME m > k PROVE m = k
        <5>1. m < 2 * k /\ k < 2 * m
          BY <1>1, <2>2, <2>3, <3>4, <4>1
        <5> QED
          BY <3>4, <5>1, PowersClose
      <4> QED
        BY <1>1, <3>4, <4>1
    <3>6. \E end : Runs(start, Whole(k), 0, end) /\ Stood(end, N, 0, k, root[m][0], left)
      <4>1. CASE m = k
        <5>1. Whole(k) = <<>>
          <6>1. k \in 1 .. N /\ 0 \in 0 .. N - k /\ k \in 1 .. k
            BY <1>1, <3>4, NodeFacts
          <6> QED
            BY <4>1, <6>1, SubProofOfSlice DEF Whole
        <5>2. Runs(start, Whole(k), 0, start)
          <6>1. Len(<<>>) - 0 = 0
            OBVIOUS
          <6> QED
            BY <5>1, <6>1, RunsNothing, Zenon
        <5>3. Stood(start, N, 0, k, left, left)
          <6>1. 0 = (2 * 0) * k /\ 0 + k < N /\ 0 + k = m
            BY <1>1, <3>1, <3>4, <4>1
          <6>2. Stood(ConsistencyStart(leaves, 0 + k, root[m][0]), N, 0, k, root[m][0], root[m][0])
            <7> HIDE DEF root
            <7> QED
              BY <1>1, <3>4, <6>1, StartsAtLeft
          <6> QED
            BY <4>1, <6>1, <6>2 DEF start, left
        <5>4. root[m][0] = left
          BY <4>1 DEF left
        <5> HIDE DEF N, root
        <5> QED
          BY <5>2, <5>3, <5>4
      <4>2. CASE m # k
        <5>1. k \in 1 .. n /\ m < k
          BY <1>1, <2>2, <3>4, <3>5, <4>2
        <5>2. Reaches(k, k)
          <6> HIDE DEF Reaches
          <6> QED
            BY <2>1, <3>4, <5>1
        <5> QED
          BY <5>2 DEF left
      <4> QED
        BY <4>1, <4>2
    <3> HIDE DEF root
    <3>7. PICK end : Runs(start, Whole(k), 0, end) /\ Stood(end, N, 0, k, root[m][0], left)
      BY <3>6
    <3>8. Runs(start, Append(Whole(k), right), 0, Rise(end, right))
      <4>1. IsList(Whole(k))
        <5>1. k \in 1 .. N /\ 0 \in 0 .. N - k /\ m \in 1 .. k
          BY <1>1, <3>4, <3>5, NodeFacts
        <5> QED
          BY <5>1, SubProofsAreLists DEF Whole
      <4>2. 0 <= Len(Whole(k))
        BY <4>1 DEF IsList
      <4> QED
        BY <3>7, <4>1, <4>2, RunsOn
    <3>9. Stood(Rise(end, right), N, 0, 2 * k, root[m][0], NodeHash(left, right))
      <4>1. 0 = (2 * 0) * k /\ 0 + k < N /\ 0 \in Nat
        BY <1>1, <3>1, <3>4
      <4> QED
        BY <3>4, <3>7, <4>1, RiseFromLeft
    <3> HIDE DEF N
    <3> QED
      BY <3>2, <3>3, <3>4, <3>5, <3>8, <3>9
  <2> HIDE DEF Reaches
  <2>4. Claim(v)
    BY <2>3
  <2>5. \A y \in 1 .. n + 1 : y \in 1 .. n \/ y = v
    BY DEF v
  <2> HIDE DEF Claim
  <2> QED
    BY <2>1, <2>4, <2>5
<1> HIDE DEF S
<1>4. width \in S
  <2>1. width \in Nat
    BY <1>1, NodeFacts
  <2>2. Nat \subseteq S
    BY <1>2, <1>3, SetInduction
  <2> QED
    BY <2>1, <2>2
<1>5. Claim(width)
  <2>1. width \in 1 .. width
    BY <1>1, NodeFacts
  <2> HIDE DEF Claim
  <2> QED
    BY <1>4, <2>1 DEF S
<1> QED
  BY <1>5 DEF Whole, start

\* A slice of the first leaves has the hash it has among all of them.
LEMMA RootsOfPrefix ==
  ASSUME NEW leaves, IsList(leaves), NEW old, IsList(old), Len(old) <= Len(leaves),
         \A j \in 1 .. Len(old) : old[j] = leaves[j],
         NEW width \in 1 .. Len(old), NEW at \in 0 .. Len(old) - width
  PROVE  Roots(old)[width][at] = Roots(leaves)[width][at]
<1> DEFINE N == Len(old)
           Same(v) == \A i \in 0 .. N - v : Roots(old)[v][i] = Roots(leaves)[v][i]
           S == {n \in 0 .. N : \A v \in 1 .. n : Same(v)}
<1>1. N \in Nat /\ Len(leaves) \in Nat
  BY DEF IsList
<1>2. 0 \in S
  BY <1>1
<1>3. ASSUME NEW n \in 0 .. N - 1, n \in S PROVE n + 1 \in S
  <2>1. \A v \in 1 .. n : Same(v)
    BY <1>3
  <2> DEFINE v == n + 1
  <2>2. v \in 1 .. N /\ v \in Nat /\ n = v - 1 /\ v \in 1 .. Len(leaves)
    BY <1>1
  <2> HIDE DEF v
  <2>3. ASSUME NEW i \in 0 .. N - v PROVE Roots(old)[v][i] = Roots(leaves)[v][i]
    <3> DEFINE k == SplitPoint(v)
    <3>1. i \in 0 .. Len(leaves) - v
      BY <1>1, <2>2
    <3>2. Roots(old)[v][i] = IF v = 1 THEN old[i + 1]
                             ELSE NodeHash(Roots(old)[k][i], Roots(old)[v - k][i + k])
      BY <2>2, RootOfSlice
    <3>3. Roots(leaves)[v][i] = IF v = 1 THEN leaves[i + 1]
                                ELSE NodeHash(Roots(leaves)[k][i], Roots(leaves)[v - k][i + k])
      BY <2>2, <3>1, RootOfSlice
    <3> HIDE DEF k
    <3>4. CASE v = 1
      <4>1. i + 1 \in 1 .. N
        BY <1>1, <3>4
      <4> QED
        BY <3>2, <3>3, <3>4, <4>1
    <3>5. CASE v # 1
      <4>1. /\ k \in 1 .. v - 1 /\ v - k \in 1 .. k /\ k \in Nat
            /\ i \in 0 .. N - k /\ i + k \in 0 .. N - (v - k)
        BY <1>1, <2>2, <3>5, SliceSplits DEF k
      <4>2. k \in 1 .. n /\ v - k \in 1 .. n
        BY <2>2, <4>1
      <4> QED
        BY <2>1, <3>2, <3>3, <3>5, <4>1, <4>2
    <3> QED
      BY <3>4, <3>5
  <2>4. Same(v)
    BY <2>3
  <2>5. (\A y \in 1 .. n + 1 : y \in 1 .. n \/ y = v) /\ n + 1 \in 0 .. N
    BY <1>1 DEF v
  <2> HIDE DEF Same
  <2> QED
    BY <2>1, <2>4, <2>5
<1> HIDE DEF S, N
<1>4. N \in S
  <2>1. 0 .. N \subseteq S
    BY <1>1, <1>2, <1>3, BoundedInduction
  <2> QED
    BY <1>1, <2>1
<1> QED
  BY <1>4 DEF S, N

LEMMA IsPowerOfTwoIs ==
  ASSUME NEW m \in Nat
  PROVE  IsPowerOfTwo(m) <=> m \in Powers
<1>1. ASSUME m \in Powers PROVE IsPowerOfTwo(m)
  <2>1. PICK j \in Nat : m = PowerOfTwo[j]
    BY <1>1 DEF Powers
  <2>2. j \in 0 .. m
    BY <2>1, PowerFacts
  <2> QED
    BY <2>1, <2>2 DEF IsPowerOfTwo
<1>2. ASSUME IsPowerOfTwo(m) PROVE m \in Powers
  BY <1>2 DEF IsPowerOfTwo, Powers
<1> QED
  BY <1>1, <1>2

LEMMA TailOfList ==
  ASSUME NEW list, IsList(list), Len(list) >= 1
  PROVE  /\ list # <<>> /\ IsList(Tail(list)) /\ Len(Tail(list)) = Len(list) - 1
         /\ \A i \in 1 .. Len(list) - 1 : Tail(list)[i] = list[i + 1]
<1>1. list # <<>>
  BY EmptyIsList
<1> QED
  BY <1>1 DEF IsList

\* Every earlier size has a proof that verifies.
LEMMA ConsistencyComplete ==
  ASSUME NEW leaves, IsList(leaves), NEW m \in 1 .. Len(leaves), NEW old, IsList(old),
         Len(old) = m, \A j \in 1 .. m : old[j] = leaves[j]
  PROVE  VerifyConsistency(m, Len(leaves), TreeHead(old), TreeHead(leaves),
                           ConsistencyProof(leaves, m))
<1> DEFINE N == Len(leaves)
           proof == WholeProof(leaves, N, 0, m)
           seed == Roots(leaves)[m][0]
<1>1. N \in Nat /\ m \in Nat /\ m >= 1 /\ m <= N /\ N \in 1 .. N /\ 0 \in 0 .. N - N
      /\ m \in 1 .. N /\ 0 \in 0 .. N - m
  BY DEF IsList
<1>2. leaves # <<>> /\ old # <<>>
  BY <1>1, EmptyIsList
<1>3. ConsistencyProof(leaves, m) = proof
  BY DEF ConsistencyProof, WholeProof
<1>4. TreeHead(leaves) = Roots(leaves)[N][0]
  BY <1>2 DEF TreeHead
<1>5. TreeHead(old) = seed
  <2>1. TreeHead(old) = Roots(old)[m][0]
    BY <1>2 DEF TreeHead
  <2>2. m \in 1 .. Len(old) /\ 0 \in 0 .. Len(old) - m /\ Len(old) <= Len(leaves)
        /\ \A j \in 1 .. Len(old) : old[j] = leaves[j]
    BY <1>1
  <2>3. Roots(old)[m][0] = seed
    BY <2>2, RootsOfPrefix
  <2> QED
    BY <2>1, <2>3
<1>6. CASE m = N
  <2>1. proof = <<>>
    <3>1. m = N => WholeProof(leaves, N, 0, m) = <<>>
      BY <1>1, SubProofOfSlice
    <3> QED
      BY <1>6, <3>1
  <2>2. TreeHead(old) = TreeHead(leaves)
    BY <1>4, <1>5, <1>6
  <2> HIDE DEF proof, N
  <2> QED
    BY <1>1, <1>3, <1>6, <2>1, <2>2 DEF VerifyConsistency, N
<1>7. CASE m # N
  <2>1. m < N /\ m \in 1 .. N - 1
    BY <1>1, <1>7
  <2>2. PICK u \in Powers : Node(N, N, 0, u)
    BY <1>1, TopNode
  <2> DEFINE Start(x) == ConsistencyStart(leaves, m, x)
  <2>3. \A x : Start(x) = [fnode |-> Aligned(m, N).fnode, snode |-> Aligned(m, N).snode,
                           fr |-> x, sr |-> x, overrun |-> FALSE]
    BY DEF ConsistencyStart
  <2>4. IsList(proof)
    BY <1>1, SubProofsAreLists
  <2> HIDE DEF proof, N, seed
  <2>5. \E end : /\ ClimbFrom(m, N, seed, proof) = end
                 /\ IsPowerOfTwo(m) \/ proof # <<>>
                 /\ Stood(end, N, 0, u, seed, Roots(leaves)[N][0])
    <3>1. CASE IsPowerOfTwo(m)
      <4>1. m \in Powers
        BY <1>1, <3>1, IsPowerOfTwoIs
      <4>2. PICK end : Runs(Start(seed), proof, 0, end) /\ Stood(end, N, 0, u, seed, Roots(leaves)[N][0])
        BY <2>1, <2>2, <4>1, WholeRuns DEF proof, seed, N
      <4>3. Len(proof) = Len(proof) - 0 /\ \A i \in 1 .. Len(proof) : proof[i] = proof[i + 0]
        BY <2>4 DEF IsList
      <4> HIDE DEF Start
      <4>4. Climb(Start(seed), proof) = end
        BY <2>4, <4>2, <4>3, RunsIsClimb
      <4>5. ClimbFrom(m, N, seed, proof) = end
        BY <2>3, <3>1, <4>4 DEF ClimbFrom
      <4> QED
        BY <3>1, <4>2, <4>5
    <3>2. CASE ~IsPowerOfTwo(m)
      <4>1. m \notin Powers
        BY <1>1, <3>2, IsPowerOfTwoIs
      <4>2. proof = PartProof(leaves, N, 0, m)
        BY <1>1, <2>1, <4>1, WholeIsPart DEF proof, N
      <4>3. /\ Len(proof) >= 1
            /\ \E end : /\ Runs(ConsistencyStart(leaves, 0 + m, proof[1]), proof, 1, end)
                        /\ Stood(end, N, 0, u, seed, Roots(leaves)[N][0])
        BY <2>1, <2>2, <4>2, PartRuns DEF N, seed
      <4>4. PICK end : /\ Runs(Start(proof[1]), proof, 1, end)
                       /\ Stood(end, N, 0, u, seed, Roots(leaves)[N][0])
        <5>1. 0 + m = m
          BY <1>1
        <5> QED
          BY <4>3, <5>1
      <4>5. /\ proof # <<>> /\ IsList(Tail(proof)) /\ Len(Tail(proof)) = Len(proof) - 1
            /\ \A i \in 1 .. Len(Tail(proof)) : Tail(proof)[i] = proof[i + 1]
        <5>1. /\ proof # <<>> /\ IsList(Tail(proof)) /\ Len(Tail(proof)) = Len(proof) - 1
              /\ \A i \in 1 .. Len(proof) - 1 : Tail(proof)[i] = proof[i + 1]
          BY <2>4, <4>3, TailOfList
        <5> QED
          BY <5>1
      <4> DEFINE tail == Tail(proof)
      <4> HIDE DEF Start, tail
      <4>6. Climb(Start(proof[1]), tail) = end
        <5>1. IsList(tail) /\ Len(tail) = Len(proof) - 1 /\ \A i \in 1 .. Len(tail) : tail[i] = proof[i + 1]
          BY <4>5 DEF tail
        <5> QED
          BY <2>4, <4>4, <5>1, RunsIsClimb
      <4>7. ClimbFrom(m, N, seed, proof) = end
        BY <2>3, <3>2, <4>6 DEF ClimbFrom, tail
      <4> QED
        BY <4>4, <4>5, <4>7
    <3> QED
      BY <3>1, <3>2
  <2>6. PICK end : /\ ClimbFrom(m, N, seed, proof) = end
                   /\ IsPowerOfTwo(m) \/ proof # <<>>
                   /\ Stood(end, N, 0, u, seed, Roots(leaves)[N][0])
    BY <2>5
  <2>7. ReachesTop(end) /\ end.fr = seed /\ end.sr = TreeHead(leaves)
    <3> DEFINE x == end.snode
    <3>1. x \in Nat /\ x * u < N /\ N <= u /\ u \in Nat /\ u >= 1
      <4>1. u \in Nat /\ N <= u
        BY <1>1, <2>2, NodeFacts
      <4>2. Stood(end, N, 0, u, seed, Roots(leaves)[N][0])
        BY <2>6
      <4> HIDE DEF seed, proof, N
      <4>3. x \in Nat /\ x * u < N /\ u >= 1
        BY <1>1, <4>1, <4>2, PowerFacts DEF Stood, At
      <4> QED
        BY <4>1, <4>3
    <3>2. end.snode = 0
      <4> HIDE DEF x
      <4>1. x >= 1 => x * u >= u
        BY ONLY <3>1
      <4>2. x = 0
        BY ONLY <1>1, <3>1, <4>1
      <4> QED
        BY <4>2 DEF x
    <3> QED
      BY <1>4, <2>6, <3>2 DEF ReachesTop, Stood
  <2>8. VerifyConsistency(m, N, seed, TreeHead(leaves), proof)
    BY <1>1, <1>7, <2>6, <2>7 DEF VerifyConsistency
  <2> QED
    BY <1>3, <1>5, <2>8 DEF N
<1> QED
  BY <1>6, <1>7

\* The recursive side of checkpoint.rs and the iterative one agree: every leaf
\* and every earlier size of every log has a proof, as published, that verifies.
THEOREM SpecGenuineProofsVerify == LogSpec => []GenuineProofsVerify
<1>1. LogInit => AnchorInv
  BY LogInvInit DEF AnchorInv, LogInit
<1>2. AnchorInv /\ [LogNext]_logVars => AnchorInv'
  BY AnchorInvStep
<1>3. AnchorInv => GenuineProofsVerify
  <2> SUFFICES ASSUME log \in Seq(Leaves) PROVE GenuineProofsVerify
    BY DEF AnchorInv, LogInv
  <2>1. IsList(log)
    BY SeqIsList
  <2>2. ASSUME NEW i \in 0 .. Len(log) - 1
        PROVE  VerifyInclusion(log[i + 1], i, Len(log), InclusionProof(log, i), TreeHead(log))
    BY <2>1, InclusionComplete
  <2>3. ASSUME NEW m \in 1 .. Len(log)
        PROVE  VerifyConsistency(m, Len(log), TreeHead(SubSeq(log, 1, m)), TreeHead(log),
                                 ConsistencyProof(log, m))
    <3> DEFINE old == SubSeq(log, 1, m)
    <3>1. /\ old \in Seq(Leaves) /\ Len(old) = m /\ \A j \in 1 .. m : old[j] = log[j]
      OBVIOUS
    <3>2. IsList(old)
      BY <3>1, SeqIsList
    <3> HIDE DEF old
    <3>3. VerifyConsistency(m, Len(log), TreeHead(old), TreeHead(log), ConsistencyProof(log, m))
      BY <2>1, <3>1, <3>2, ConsistencyComplete
    <3> QED
      BY <3>3 DEF old
  <2> QED
    BY <2>2, <2>3, Zenon DEF GenuineProofsVerify
<1> QED
  BY <1>1, <1>2, <1>3, PTL DEF LogSpec
=============================================================================
