----------------------------- MODULE TrustRoot ------------------------------
(***************************************************************************)
(* The trust-chain manifest as a signed document (trust_chain.rs) and the  *)
(* setup of the command line that decides whether to trust one (main.rs).  *)
(*                                                                         *)
(* The identity holder signs a manifest whenever its authority changed; an *)
(* auditor is handed one of them, not always the last and not always       *)
(* unaltered, and has the fingerprint of an identity key pinned.           *)
(***************************************************************************)
EXTENDS TrustChain, FiniteSets

CONSTANTS
  Identities,     \* long-term identity keys; the first is the publisher's
  Publisher,      \* the identity that keeps the authority
  Authority,      \* the authority's id
  Versions,       \* its key versions, in the order of rotation
  Future,         \* fields this build does not know: {NoValue}, or more
  Pins,           \* what the auditor may have pinned, NoValue: nothing
  MaxTime,        \* bound: the clock
  MaxChanges      \* bound: alterations of the manifest supplied

ASSUME PublisherAssumption == Publisher \in Identities /\ NoValue \notin Identities
ASSUME VersionsAssumption == Len(Versions) \in Nat \ {0} /\ DOMAIN Versions = 1 .. Len(Versions)
ASSUME MaxAssumption == MaxTime \in Nat /\ MaxChanges \in Nat

VARIABLES
  now,
  record,      \* the authority's record
  revokedAt,   \* history: when it was revoked, NoValue before
  published,   \* the manifests signed and given out, as written
  signed,      \* history: <<identity, payload>> of every manifest signed
  option,      \* --trust-chain: the document supplied, NoValue without one
  pin,         \* --identity-fingerprint, or the one compiled in
  changes,     \* alterations so far
  outcome      \* of the setup, NoValue before it

vars == <<now, record, revokedAt, published, signed, option, pin, changes, outcome>>

\* The authorities of a manifest that has the one.
Of(r) == [id \in {Authority} |-> r]

Fingerprint(key) == <<"sha256", key>>

Signatures == {"manifest_signature", "pqc_manifest_signature"}

\* What a manifest that is built here holds: the records, the payload of a
\* signature, the manifest.
KeyVersionRecords ==
  [signing_key_version : {Versions[i] : i \in DOMAIN Versions},
   public_key : {"key of"} \X ({Versions[i] : i \in DOMAIN Versions} \cup Identities)]

AuthorityRecords ==
  [active_versions : Seq(KeyVersionRecords), archived_versions : Seq(KeyVersionRecords),
   revoked : BOOLEAN]

Payloads ==
  [schema_version : {"1"}, issued_at : Nat, authorities : [{Authority} -> AuthorityRecords],
   identity_fingerprint : {Fingerprint(key) : key \in Identities}, identity_public_key : Identities]

ManifestSignatures == [key : Identities, message : Payloads]

TrustChainManifests ==
  [schema_version : {"1"}, issued_at : Nat, authorities : [{Authority} -> AuthorityRecords],
   identity_fingerprint : {Fingerprint(key) : key \in Identities}, identity_public_key : Identities,
   manifest_signature : ManifestSignatures,
   pqc_manifest_signature : {NoValue, "post-quantum"}]

\* None of it is the null of a field that is missing.
ASSUME NoValueAssumption ==
  NoValue \notin {"1"} \cup Nat \cup [{Authority} -> AuthorityRecords] \cup TrustChainManifests
                  \cup ManifestSignatures \cup {Fingerprint(key) : key \in Identities}

\* Mutants of the payload: the reserved signature is covered; the date is not.
PayloadWithPqc(m) == [f \in DOMAIN m \ {"manifest_signature"} |-> m[f]]
PayloadWithoutDate(m) == [f \in DOMAIN m \ (Signatures \cup {"issued_at"}) |-> m[f]]

\* signed_payload: the manifest's fields without the signatures.
SignedPayload(m) == [f \in DOMAIN m \ Signatures |-> m[f]]

BuildAndSign(issued_at, authorities, identity) ==
  LET m == [schema_version         |-> "1",
            issued_at              |-> issued_at,
            authorities            |-> authorities,
            identity_fingerprint   |-> Fingerprint(identity),
            identity_public_key    |-> identity,
            manifest_signature     |-> NoValue,
            pqc_manifest_signature |-> NoValue]
  IN  [m EXCEPT !.manifest_signature = [key |-> identity, message |-> SignedPayload(m)]]

\* Mutant: the manifest's own claim is taken for the pin.
SelfConsistentOnly(m, pinned) ==
  CASE m.identity_public_key \notin Identities -> "Malformed"
    [] m.identity_public_key \in Identities ->
         IF Fingerprint(m.identity_public_key) # m.identity_fingerprint THEN "FingerprintMismatch"
         ELSE IF \/ m.manifest_signature.key # m.identity_public_key
                 \/ m.manifest_signature.message # SignedPayload(m)
           THEN "SignatureInvalid" ELSE "none"

VerifySignature(m, pinned) ==
  CASE m.identity_public_key \notin Identities -> "Malformed"
    [] m.identity_public_key \in Identities ->
         IF {m.identity_fingerprint, pinned} # {Fingerprint(m.identity_public_key)}
           THEN "FingerprintMismatch"
         ELSE IF \/ m.manifest_signature.key # m.identity_public_key
                 \/ m.manifest_signature.message # SignedPayload(m)
           THEN "SignatureInvalid" ELSE "none"

-----------------------------------------------------------------------------
(* Reading: the fields this build knows, the rest is dropped.              *)

\* A JSON document is the manifest and the fields of a later schema.
Document(m, future) == [manifest |-> m, future |-> future]

Mandatory == {"schema_version", "issued_at", "authorities", "identity_fingerprint",
              "manifest_signature"}

\* load_from_file: a mandatory field that is missing is an error; the others
\* have defaults.
Loads(document) == \A f \in Mandatory : document.manifest[f] # NoValue

-----------------------------------------------------------------------------
(* The identity holder.                                                    *)

Init ==
  /\ now = 0
  /\ record = AuthorityRecord(<<KeyVersionRecord(Versions[1], <<"key of", Versions[1]>>)>>,
                              <<>>, FALSE)
  /\ revokedAt = NoValue
  /\ published = {}
  /\ signed = {}
  /\ option = NoValue
  /\ pin \in Pins
  /\ changes = 0
  /\ outcome = NoValue

\* A later schema signs the fields it has, those this build does not know too.
Signed(m, future) ==
  IF future = NoValue THEN m
  ELSE [m EXCEPT !.manifest_signature.message = [known |-> @, future |-> future]]

Publish ==
  \E future \in Future :
    LET m == Signed(BuildAndSign(now, Of(record), Publisher), future)
    IN  /\ published' = published \cup {Document(m, future)}
        /\ signed' = signed \cup {<<Publisher, SignedPayload(m)>>}
        /\ now < MaxTime
        /\ now' = now + 1
        /\ UNCHANGED <<record, revokedAt, option, pin, changes, outcome>>

Rotate(i) ==
  /\ i \in 1 .. Len(Versions) - 1
  /\ record.active_versions[1].signing_key_version = Versions[i]
  /\ record' = [record EXCEPT
       !.archived_versions = @ \o record.active_versions,
       !.active_versions   = <<KeyVersionRecord(Versions[i + 1], <<"key of", Versions[i + 1]>>)>>]
  /\ UNCHANGED <<now, revokedAt, published, signed, option, pin, changes, outcome>>

Revoke ==
  /\ revokedAt = NoValue
  /\ revokedAt' = now
  /\ record' = [record EXCEPT !.revoked = TRUE]
  /\ UNCHANGED <<now, published, signed, option, pin, changes, outcome>>

\* Another identity signs a manifest of its own for the same authority.
Impersonate(identity) ==
  LET m == BuildAndSign(now, Of(AuthorityRecord(
             <<KeyVersionRecord(Versions[1], <<"key of", identity>>)>>, <<>>, FALSE)), identity)
  IN  /\ identity # Publisher
      /\ published' = published \cup {Document(m, NoValue)}
      /\ signed' = signed \cup {<<identity, SignedPayload(m)>>}
      /\ UNCHANGED <<now, record, revokedAt, option, pin, changes, outcome>>

-----------------------------------------------------------------------------
(* On the way to the auditor.                                              *)

Fetch(document) ==
  /\ option = NoValue
  /\ option' = document
  /\ UNCHANGED <<now, record, revokedAt, published, signed, pin, changes, outcome>>

Alter(manifest) ==
  /\ option # NoValue
  /\ changes < MaxChanges
  /\ option' = [option EXCEPT !.manifest = manifest]
  /\ changes' = changes + 1
  /\ UNCHANGED <<now, record, revokedAt, published, signed, pin, outcome>>

\* A field is taken from another manifest or goes missing; the reserved
\* signature is filled in.
TakeField(f, document) == Alter([option.manifest EXCEPT ![f] = document.manifest[f]])
LoseField(f) == Alter([option.manifest EXCEPT ![f] = NoValue])
FillPqc == Alter([option.manifest EXCEPT !.pqc_manifest_signature = "post-quantum"])

-----------------------------------------------------------------------------
(* main: the trust root is settled before any proof is looked at.          *)

Refuse(exit) == outcome' = [exit |-> exit, trust_chain |-> NoValue, verifies |-> FALSE]
Proceed(manifest) == outcome' = [exit |-> NoValue, trust_chain |-> manifest, verifies |-> TRUE]

\* Mutant: a manifest that does not verify is left aside.
SetUpOrDowngrade ==
  /\ \/ /\ option = NoValue
        /\ Proceed(NoValue)
     \/ /\ option # NoValue
        /\ IF Loads(option) /\ pin # NoValue /\ VerifySignature(option.manifest, pin) = "none"
             THEN Proceed(option.manifest) ELSE Proceed(NoValue)
  /\ UNCHANGED <<now, record, revokedAt, published, signed, option, pin, changes>>

SetUp ==
  /\ \/ /\ option = NoValue
        /\ Proceed(NoValue)
     \/ /\ option # NoValue
        /\ ~Loads(option) \/ pin = NoValue
        /\ Refuse(1)
     \/ /\ option # NoValue
        /\ Loads(option) /\ pin # NoValue
        /\ IF VerifySignature(option.manifest, pin) = "none"
             THEN Proceed(option.manifest) ELSE Refuse(2)
  /\ UNCHANGED <<now, record, revokedAt, published, signed, option, pin, changes>>

\* What is published after the auditor has a manifest is of no interest to it.
Act ==
  \/ option = NoValue /\ (Publish \/ Revoke)
  \/ option = NoValue /\ \E i \in DOMAIN Versions : Rotate(i)
  \/ option = NoValue /\ \E identity \in Identities : Impersonate(identity)
  \/ \E document \in published :
       Fetch(document) \/ \E f \in DOMAIN document.manifest : TakeField(f, document)
  \/ \E f \in Mandatory \cup {"identity_public_key", "pqc_manifest_signature"} : LoseField(f)
  \/ FillPqc
  \/ SetUp

Next ==
  \/ outcome = NoValue /\ Act
  \/ outcome # NoValue /\ UNCHANGED vars

Spec == Init /\ [][Next]_vars

-----------------------------------------------------------------------------
(* Properties.                                                             *)

Trusted == outcome # NoValue /\ outcome.trust_chain # NoValue

\* trust_chain.rs, 233-244: everything trusted reduces to the pin: a manifest
\* that is trusted was signed, as it reads, by the identity that is pinned.
TrustedManifestIsSigned ==
  Trusted => \E s \in signed :
    /\ Fingerprint(s[1]) = pin
    /\ s[2] = SignedPayload(outcome.trust_chain)

\* Nothing keeps an older manifest from being supplied, but it cannot pass for
\* a newer one: its keys and revocation are those of the date it bears.
StaleManifestBearsItsDate ==
  Trusted /\ pin = Fingerprint(Publisher) =>
    (revokedAt # NoValue /\ revokedAt <= outcome.trust_chain.issued_at
      => outcome.trust_chain.authorities[Authority].revoked)

\* main.rs, 274-277: with a manifest supplied, no proof is verified but under
\* that manifest.
NeverDowngraded ==
  outcome # NoValue /\ option # NoValue /\ outcome.verifies
    => outcome.trust_chain = option.manifest

\* trust_chain.rs, 673-686: a manifest of the pinned identity is trusted, with
\* or without the reserved second signature.  Not so one with a field that this
\* build does not know: it was signed with it, and the payload that is built
\* again on reading lacks it.
SignedManifestTrusted ==
  /\ outcome # NoValue
  /\ option # NoValue
  /\ \E d \in published :
       /\ d.future = NoValue
       /\ Fingerprint(d.manifest.identity_public_key) = pin
       /\ \A f \in DOMAIN d.manifest \ {"pqc_manifest_signature"} :
            d.manifest[f] = option.manifest[f]
  => Trusted
=============================================================================
