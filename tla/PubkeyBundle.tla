---------------------------- MODULE PubkeyBundle ----------------------------
(***************************************************************************)
(* The portable public-key bundle (pubkey_bundle.rs): a publisher lists    *)
(* the keys it has signed proofs with and signs the list; a consumer who   *)
(* has the publisher's key verifies a bundle and looks the key of a parent *)
(* proof up in it, at the proof's time or regardless of it.  The bundles   *)
(* in Go, Python and TypeScript (pubkey_bundle.go, .py, .ts) differ from   *)
(* this one in how they read a date.                                       *)
(***************************************************************************)
EXTENDS Optional, Integers, FiniteSets, SequencesExt

CONSTANTS
  Publishers,    \* bundle signing keys
  Pinned,        \* the one the consumer was given out of band
  PublicKeys,    \* proof-signing keys, in the order they are rotated in
  KeyIds,        \* identifiers they go by, which may be used again
  DateForms,     \* whether the dates that are written parse: {TRUE}, or more
  MaxTime,       \* bound: the clock
  MaxProofs,     \* bound: proofs signed
  MaxPublished,  \* bound: bundles given out
  MaxChanges     \* bound: alterations of the bundle on its way

ASSUME PublishersAssumption == Pinned \in Publishers /\ NoValue \notin Publishers
ASSUME KeysAssumption ==
  /\ NoValue \notin KeyIds \cup Range(PublicKeys)
  /\ Len(PublicKeys) \in Nat \ {0} /\ DOMAIN PublicKeys = 1 .. Len(PublicKeys)
ASSUME DateFormsAssumption == DateForms \subseteq BOOLEAN
ASSUME NoVerdictAssumption == NoValue # "none"
ASSUME BoundAssumption == {MaxTime, MaxProofs, MaxPublished, MaxChanges} \subseteq Nat

VARIABLES
  now,
  keys,        \* the pinned publisher's entries, oldest first
  proofs,      \* history: [key_id, key, at] of the proofs signed with them
  published,   \* the bundles signed and given out
  held,        \* the bundle the consumer has, NoValue before
  changes,     \* alterations so far
  verdict      \* of verify_pubkey_bundle, NoValue before

vars == <<now, keys, proofs, published, held, changes, verdict>>

-----------------------------------------------------------------------------
(* Entries and their dates.                                                *)

\* A date is the instant meant by a text that is RFC 3339 or is not.
Date(at, parses) == [at |-> at, parses |-> parses]

PubKeyEntry(key_id, public_key, valid_from) ==
  [key_id |-> key_id, algorithm |-> "Ed25519", public_key |-> public_key,
   valid_from |-> valid_from, valid_until |-> NoValue]

Dates == [at : Nat, parses : BOOLEAN]

\* What the publisher writes.
Entries ==
  [key_id : KeyIds, algorithm : {"Ed25519"}, public_key : Range(PublicKeys),
   valid_from : Dates, valid_until : Dates \cup {NoValue}]

ASSUME NoEntryAssumption == NoValue \notin Entries /\ NoValue \notin Dates

\* validate_entry: the dates are not looked at.
ValidEntry(entry) ==
  /\ entry.algorithm = "Ed25519"
  /\ entry.public_key \in Range(PublicKeys)
  /\ entry.key_id \in KeyIds

-----------------------------------------------------------------------------
(* Building and verifying.                                                 *)

\* Mutant: the whole bundle_signature is cleared, not its signature only.
CanonicalWithoutSignature(bundle) == [bundle EXCEPT !.bundle_signature = NoValue]

CanonicalBytesForSigning(bundle) == [bundle EXCEPT !.bundle_signature.signature = NoValue]

EntriesError(entries) ==
  IF entries = <<>> THEN "EmptyBundle"
  ELSE IF \E i \in DOMAIN entries : ~ValidEntry(entries[i]) THEN "InvalidEntry"
  ELSE "none"

BuildError(entries) == EntriesError(entries)

BuildPubkeyBundle(entries, publisher, at) ==
  LET placeholder ==
        [bundle_version   |-> "1.0",
         bundle_type      |-> "pubkey",
         generated_at     |-> at,
         issuer           |-> publisher,
         pubkeys          |-> entries,
         bundle_signature |-> [signed_by_key_id |-> publisher, signature |-> NoValue]]
  IN  [placeholder EXCEPT !.bundle_signature.signature =
         [key |-> publisher, message |-> CanonicalBytesForSigning(placeholder)]]

\* What is no 64 bytes, a signature of nobody.
Undecodable == [key |-> NoValue, message |-> NoValue]

VerifyPubkeyBundle(bundle, publisher_pubkey) ==
  LET signature == bundle.bundle_signature.signature
  IN  IF bundle.bundle_version # "1.0" THEN "UnsupportedVersion"
      ELSE IF bundle.bundle_type # "pubkey" THEN "WrongBundleType"
      ELSE IF EntriesError(bundle.pubkeys) # "none" THEN EntriesError(bundle.pubkeys)
      ELSE IF signature = Undecodable THEN "InvalidSignature"
      ELSE IF signature = [key |-> publisher_pubkey,
                           message |-> CanonicalBytesForSigning(bundle)] THEN "none"
      ELSE "BundleSignatureFailed"

-----------------------------------------------------------------------------
(* Looking a key up.                                                       *)

\* Mutants of the window: open at its end, or never closed.
HalfOpenWindow(entry, at) ==
  /\ entry.valid_from.parses /\ entry.valid_from.at <= at
  /\ entry.valid_until # NoValue => at < entry.valid_until.at

NeverClosedWindow(entry, at) == entry.valid_from.parses /\ entry.valid_from.at <= at

\* A valid_until that does not parse counts as none, a valid_from never holds.
WindowContains(entry, at) ==
  /\ entry.valid_from.parses /\ entry.valid_from.at <= at
  /\ entry.valid_until # NoValue /\ entry.valid_until.parses => at <= entry.valid_until.at

\* Go, Python and TypeScript: an entry whose valid_until does not parse is
\* passed over.
PortedWindowContains(entry, at) ==
  /\ entry.valid_from.parses /\ entry.valid_from.at <= at
  /\ entry.valid_until # NoValue => entry.valid_until.parses /\ at <= entry.valid_until.at

\* iter().find(): the first of the entries that match.
FirstEntry(bundle, matching) ==
  IF matching = {} THEN NoValue
  ELSE bundle.pubkeys[CHOOSE i \in matching : \A j \in matching : i <= j]

EntriesOf(bundle, key_id) == {i \in DOMAIN bundle.pubkeys : bundle.pubkeys[i].key_id = key_id}

ResolveParentKey(bundle, key_id, at) ==
  FirstEntry(bundle, {i \in EntriesOf(bundle, key_id) : WindowContains(bundle.pubkeys[i], at)})

PortedResolveParentKey(bundle, key_id, at) ==
  FirstEntry(bundle, {i \in EntriesOf(bundle, key_id) : PortedWindowContains(bundle.pubkeys[i], at)})

ResolveParentKeyForever(bundle, key_id) == FirstEntry(bundle, EntriesOf(bundle, key_id))

-----------------------------------------------------------------------------
(* The publisher.                                                          *)

Init ==
  /\ now = 0
  /\ \E id \in KeyIds : keys = <<PubKeyEntry(id, PublicKeys[1], Date(0, TRUE))>>
  /\ proofs = {}
  /\ published = {}
  /\ held = NoValue
  /\ changes = 0
  /\ verdict = NoValue

Tick ==
  /\ now < MaxTime
  /\ now' = now + 1
  /\ UNCHANGED <<keys, proofs, published, held, changes, verdict>>

Current == Last(keys)

\* A proof is signed by the key that is current.
SignProof ==
  /\ Cardinality(proofs) < MaxProofs
  /\ proofs' = proofs \cup {[key_id |-> Current.key_id, key |-> Current.public_key, at |-> now]}
  /\ UNCHANGED <<now, keys, published, held, changes, verdict>>

\* The entry of the current key is closed and the next key's is opened in the
\* same instant, under an id of its own or under an old one.
RotateKey(id, parses) ==
  /\ Len(keys) < Len(PublicKeys)
  /\ keys' = Append([keys EXCEPT ![Len(keys)].valid_until = Date(now, parses)],
                    PubKeyEntry(id, PublicKeys[Len(keys) + 1], Date(now, TRUE)))
  /\ UNCHANGED <<now, proofs, published, held, changes, verdict>>

GiveOut(entries, publisher) ==
  /\ BuildError(entries) = "none"
  /\ Cardinality(published) < MaxPublished
  /\ published' = published \cup {BuildPubkeyBundle(entries, publisher, now)}
  /\ UNCHANGED <<now, keys, proofs, held, changes, verdict>>

\* pubkey_bundle_build: of every key there has been, in either order, or of
\* entries one of which is unusable.
Unusable(entries, i) ==
  { [entries EXCEPT ![i].algorithm = "RSA"], [entries EXCEPT ![i].public_key = NoValue],
    [entries EXCEPT ![i].key_id = NoValue] }

Publish ==
  \E entries \in {keys, Reverse(keys), <<>>} \cup Unusable(keys, 1) : GiveOut(entries, Pinned)

\* Another publisher lists a key under the same id.
PublishForeign(publisher, id) ==
  /\ publisher # Pinned
  /\ GiveOut(<<PubKeyEntry(id, Last(PublicKeys), Date(0, TRUE))>>, publisher)

-----------------------------------------------------------------------------
(* On its way, and the consumer.                                           *)

Fetch(bundle) ==
  /\ held = NoValue
  /\ held' = bundle
  /\ UNCHANGED <<now, keys, proofs, published, changes, verdict>>

Alter(bundle) ==
  /\ held # NoValue
  /\ changes < MaxChanges
  /\ held' = bundle
  /\ changes' = changes + 1
  /\ UNCHANGED <<now, keys, proofs, published, verdict>>

TakeField(f, bundle) == Alter([held EXCEPT ![f] = bundle[f]])
SetVersion == Alter([held EXCEPT !.bundle_version = "2.0"])
SetType == Alter([held EXCEPT !.bundle_type = "receipt"])
SetSigner(publisher) == Alter([held EXCEPT !.bundle_signature.signed_by_key_id = publisher])
SpoilSignature == Alter([held EXCEPT !.bundle_signature.signature = Undecodable])
DropEntry(i) == Alter([held EXCEPT !.pubkeys = RemoveAt(@, i)])
SpoilEntry(i) == \E entries \in Unusable(held.pubkeys, i) : Alter([held EXCEPT !.pubkeys = entries])

\* A key is listed under another's id, or as if it were current still.
MoveEntry(i, id) == Alter([held EXCEPT !.pubkeys[i].key_id = id])
ReopenEntry(i) == Alter([held EXCEPT !.pubkeys[i].valid_until = NoValue])

\* pubkey_bundle_verify.
Verify ==
  /\ held # NoValue
  /\ verdict' = VerifyPubkeyBundle(held, Pinned)
  /\ UNCHANGED <<now, keys, proofs, published, held, changes>>

\* What the publisher does once the consumer has a bundle is not looked at.
BeforeFetch ==
  \/ Tick \/ SignProof \/ Publish
  \/ \E id \in KeyIds, parses \in DateForms : RotateKey(id, parses)
  \/ \E publisher \in Publishers, id \in KeyIds : PublishForeign(publisher, id)
  \/ \E bundle \in published : Fetch(bundle)

AfterFetch ==
  \/ \E bundle \in published : \E f \in DOMAIN bundle : TakeField(f, bundle)
  \/ SetVersion \/ SetType \/ SpoilSignature
  \/ \E publisher \in Publishers : SetSigner(publisher)
  \/ \E i \in DOMAIN held.pubkeys :
       \/ DropEntry(i) \/ SpoilEntry(i) \/ ReopenEntry(i)
       \/ \E id \in KeyIds : MoveEntry(i, id)
  \/ Verify

Next ==
  \/ held = NoValue /\ BeforeFetch
  \/ held # NoValue /\ verdict = NoValue /\ AfterFetch
  \/ verdict # NoValue /\ UNCHANGED vars

Spec == Init /\ [][Next]_vars

-----------------------------------------------------------------------------
(* Properties.                                                             *)

Trusted == verdict = "none"

\* 149-204: under the key delivered out of band those bundles verify, and only
\* those, that its holder built, in every field as it was built.
VerifiesAsPublished ==
  verdict # NoValue => (Trusted <=> held \in published /\ held.issuer = Pinned)

\* The entry is one the publisher keeps for the id, in force at the time.
WasInForce(entry, id, at) ==
  \E i \in DOMAIN keys :
    /\ keys[i].key_id = id /\ keys[i].public_key = entry.public_key
    /\ keys[i].valid_from.at <= at
    /\ keys[i].valid_until # NoValue => at <= keys[i].valid_until.at

\* 208-211: the key a lookup answers with was in force at the time asked for.
\* Rust answers with an entry whose valid_until does not parse as well, as if
\* that had no end; the others pass it over.
ResolvedKeyWasInForce ==
  Trusted => \A id \in KeyIds : \A at \in 0 .. held.generated_at :
    LET entry  == ResolveParentKey(held, id, at)
        ported == PortedResolveParentKey(held, id, at)
    IN  /\ entry # NoValue =>
             \/ WasInForce(entry, id, at)
             \/ entry.valid_until # NoValue /\ ~entry.valid_until.parses
        /\ ported # NoValue => WasInForce(ported, id, at)

\* The proofs signed before the bundle was built.
Covered == {p \in proofs : p.at < held.generated_at}

DatesParse(id) ==
  \A i \in EntriesOf(held, id) : held.pubkeys[i].valid_until # NoValue => held.pubkeys[i].valid_until.parses

\* In the instant in which one key follows another of the same id both are in force.
TwoInForce(p) ==
  Cardinality({i \in EntriesOf(held, p.key_id) : WindowContains(held.pubkeys[i], p.at)}) > 1

\* 28-32, 206-250: a proof outlives the rotation of its key.  A lookup at the
\* proof's time answers with the key that signed it, also where an id is used
\* again, and where it is not, the lookup that takes no time does.
ProofFindsItsKey ==
  Trusted => \A p \in Covered :
    LET Finds(entry) == entry # NoValue /\ entry.public_key = p.key
    IN  /\ DatesParse(p.key_id) /\ ~TwoInForce(p) =>
             /\ Finds(ResolveParentKey(held, p.key_id, p.at))
             /\ Finds(PortedResolveParentKey(held, p.key_id, p.at))
        /\ Cardinality(EntriesOf(held, p.key_id)) = 1 => Finds(ResolveParentKeyForever(held, p.key_id))
=============================================================================
