------------------------ MODULE PubkeyBundle_proofs -------------------------
(***************************************************************************)
(* What a trusted public-key bundle is and what is found in it, for any    *)
(* number of publishers, keys, identifiers used again, proofs, bundles and *)
(* alterations, and for dates that parse and dates that do not.            *)
(*                                                                         *)
(* The argument: the signature in the consumer's bundle is one of those    *)
(* made, or nobody's; the pinned publisher's is over a whole bundle, so a  *)
(* bundle it fits is that bundle.  What a published bundle lists are the   *)
(* publisher's entries as they were, and between then and now only the     *)
(* last of them can have been closed, after the bundle was built.          *)
(***************************************************************************)
EXTENDS PubkeyBundle, Common_proofs, FiniteSetTheorems, TLAPS

Fields ==
  {"bundle_version", "bundle_type", "generated_at", "issuer", "pubkeys", "bundle_signature"}

Shaped(b) ==
  LET s == b.bundle_signature
  IN  /\ b = [f \in Fields |-> b[f]]
      /\ s = [signed_by_key_id |-> s.signed_by_key_id, signature |-> s.signature]

\* A bundle as a publisher builds it.
Built(b) ==
  /\ Shaped(b)
  /\ b.bundle_version = "1.0" /\ b.bundle_type = "pubkey"
  /\ EntriesError(b.pubkeys) = "none"
  /\ b.bundle_signature.signature =
       [key |-> b.issuer, message |-> CanonicalBytesForSigning(b)]

\* The entry of a proof's key, whose window holds the proof.
SignedWith(p, entry) ==
  /\ entry.key_id = p.key_id /\ entry.public_key = p.key
  /\ entry.valid_from.parses /\ entry.valid_from.at <= p.at
  /\ entry.valid_until # NoValue => p.at <= entry.valid_until.at

\* An entry as it was listed at a time, and as it is now.
Lists(entry, current, at) ==
  /\ entry.key_id = current.key_id /\ entry.public_key = current.public_key
  /\ entry.valid_from = current.valid_from
  /\ \/ entry.valid_until = current.valid_until
     \/ /\ entry.valid_until = NoValue
        /\ current.valid_until # NoValue => at <= current.valid_until.at

\* A bundle of the pinned publisher's: it lists its entries, and every key
\* that has signed a proof before.
OfKeys(b) ==
  /\ b.generated_at \in 0 .. now
  /\ IsList(b.pubkeys)
  /\ \A i \in DOMAIN b.pubkeys :
       /\ b.pubkeys[i] \in Entries
       /\ \E k \in DOMAIN keys : Lists(b.pubkeys[i], keys[k], b.generated_at)
  /\ \A p \in proofs : p.at < b.generated_at =>
       \E i \in DOMAIN b.pubkeys : SignedWith(p, b.pubkeys[i])

KeysInv ==
  /\ now \in Nat
  /\ IsList(keys) /\ Len(keys) # 0
  /\ \A k \in DOMAIN keys : /\ keys[k] \in Entries
                            /\ keys[k].valid_from.parses /\ keys[k].valid_from.at <= now
  /\ keys[Len(keys)].valid_until = NoValue

ProofsInv ==
  \A p \in proofs : p.at \in 0 .. now /\ \E k \in DOMAIN keys : SignedWith(p, keys[k])

PublishedInv ==
  \A b \in published : Built(b) /\ (b.issuer = Pinned => OfKeys(b))

HeldInv ==
  /\ held # NoValue =>
       /\ Shaped(held)
       /\ \/ held.bundle_signature.signature = Undecodable
          \/ \E b \in published : held.bundle_signature.signature = b.bundle_signature.signature
  /\ verdict # NoValue => held # NoValue /\ verdict = VerifyPubkeyBundle(held, Pinned)

Inv == KeysInv /\ ProofsInv /\ PublishedInv /\ HeldInv

-----------------------------------------------------------------------------
(* Signed bundles.                                                         *)

\* What is signed determines the bundle but for the signature.
LEMMA CanonicalLemma ==
  ASSUME NEW b, NEW c, Shaped(b), Shaped(c),
         CanonicalBytesForSigning(b) = CanonicalBytesForSigning(c),
         b.bundle_signature.signature = c.bundle_signature.signature
  PROVE  b = c
<1> DEFINE x == CanonicalBytesForSigning(b)
           y == CanonicalBytesForSigning(c)
<1>1. \A f \in Fields \ {"bundle_signature"} : x[f] = b[f] /\ y[f] = c[f]
  BY DEF CanonicalBytesForSigning, Shaped, Fields
<1>2. /\ x.bundle_signature.signed_by_key_id = b.bundle_signature.signed_by_key_id
      /\ y.bundle_signature.signed_by_key_id = c.bundle_signature.signed_by_key_id
  BY DEF CanonicalBytesForSigning, Shaped, Fields
<1> HIDE DEF x, y
<1>3. \A f \in Fields \ {"bundle_signature"} : b[f] = c[f]
  BY <1>1 DEF x, y
<1>4. b.bundle_signature = c.bundle_signature
  BY <1>2 DEF x, y, Shaped
<1> QED
  BY <1>3, <1>4 DEF Shaped

\* A bundle that is built of valid entries is built.
LEMMA BuildLemma ==
  ASSUME NEW entries, NEW publisher, NEW at, BuildError(entries) = "none"
  PROVE  LET b == BuildPubkeyBundle(entries, publisher, at)
         IN  Built(b) /\ b.pubkeys = entries /\ b.issuer = publisher /\ b.generated_at = at
<1> DEFINE With(s) ==
             [bundle_version   |-> "1.0",
              bundle_type      |-> "pubkey",
              generated_at     |-> at,
              issuer           |-> publisher,
              pubkeys          |-> entries,
              bundle_signature |-> [signed_by_key_id |-> publisher, signature |-> s]]
           s == [key |-> publisher, message |-> CanonicalBytesForSigning(With(NoValue))]
           b == BuildPubkeyBundle(entries, publisher, at)
<1>1. b = With(s)
  BY DEF BuildPubkeyBundle
<1> HIDE DEF s
<1>2. CanonicalBytesForSigning(With(s)) = With(NoValue)
  BY DEF CanonicalBytesForSigning
<1>3. CanonicalBytesForSigning(With(NoValue)) = With(NoValue)
  BY DEF CanonicalBytesForSigning
<1>4. b.bundle_signature.signature = [key |-> b.issuer, message |-> CanonicalBytesForSigning(b)]
  BY <1>1, <1>2, <1>3 DEF s
<1> HIDE DEF b
<1>5. Shaped(b)
  BY <1>1 DEF Shaped, Fields
<1> QED
  BY <1>1, <1>4, <1>5 DEF Built, BuildError, b

\* VerifiesAsPublished: a signature of the pinned publisher's fits only the
\* bundle it was made over, and every bundle it was made over passes.
LEMMA AsPublished ==
  ASSUME Inv, verdict # NoValue
  PROVE  Trusted <=> held \in published /\ held.issuer = Pinned
<1> DEFINE signature == held.bundle_signature.signature
<1>1. Shaped(held) /\ verdict = VerifyPubkeyBundle(held, Pinned)
  BY DEF Inv, HeldInv
<1>2. ASSUME Trusted
      PROVE  held \in published /\ held.issuer = Pinned
  <2>1. signature = [key |-> Pinned, message |-> CanonicalBytesForSigning(held)]
    BY <1>1, <1>2 DEF Trusted, VerifyPubkeyBundle, EntriesError
  <2>2. signature # Undecodable
    BY <2>1, PublishersAssumption DEF Undecodable
  <2>3. PICK b \in published : signature = b.bundle_signature.signature
    BY <2>2 DEF Inv, HeldInv
  <2>4. Shaped(b) /\ signature = [key |-> b.issuer, message |-> CanonicalBytesForSigning(b)]
    BY <2>3 DEF Inv, PublishedInv, Built
  <2>5. Pinned = b.issuer /\ CanonicalBytesForSigning(held) = CanonicalBytesForSigning(b)
    BY <2>1, <2>4
  <2>6. held = b
    BY <1>1, <2>3, <2>4, <2>5, CanonicalLemma
  <2> QED
    BY <2>3, <2>5, <2>6
<1>3. ASSUME held \in published, held.issuer = Pinned
      PROVE  Trusted
  <2>1. Built(held)
    BY <1>3 DEF Inv, PublishedInv
  <2>2. held.bundle_signature.signature # Undecodable
    BY <1>3, <2>1, PublishersAssumption DEF Built, Undecodable
  <2> QED
    BY <1>1, <1>3, <2>1, <2>2 DEF Trusted, VerifyPubkeyBundle, Built
<1> QED
  BY <1>2, <1>3

-----------------------------------------------------------------------------
(* Lookups.                                                                *)

\* find() answers with one of the entries that match, or with nothing.
LEMMA FirstEntryLemma ==
  ASSUME NEW b, NEW matching, IsList(b.pubkeys), matching \subseteq DOMAIN b.pubkeys
  PROVE  IF matching = {} THEN FirstEntry(b, matching) = NoValue
                          ELSE \E i \in matching : FirstEntry(b, matching) = b.pubkeys[i]
<1>1. matching \subseteq Nat
  BY DEF IsList
<1>2. CASE matching # {}
  <2>1. (CHOOSE i \in matching : \A j \in matching : i <= j) \in matching
    BY <1>1, <1>2, ChosenLeast
  <2> QED
    BY <1>2, <2>1 DEF FirstEntry
<1>3. CASE matching = {}
  BY <1>3 DEF FirstEntry
<1> QED
  BY <1>2, <1>3

\* A set of at most one entry that holds one holds no other.
LEMMA OnlyOne ==
  ASSUME NEW b, NEW matching, IsList(b.pubkeys), matching \subseteq DOMAIN b.pubkeys,
         NEW i \in matching, ~(Cardinality(matching) > 1)
  PROVE  matching = {i}
<1>1. IsFiniteSet(DOMAIN b.pubkeys)
  BY FS_Interval DEF IsList
<1>2. IsFiniteSet(matching)
  BY <1>1, FS_Subset
<1>3. /\ IsFiniteSet({i}) /\ Cardinality({i}) = 1 /\ {i} \subseteq matching
      /\ Cardinality(matching) \in Nat
  BY <1>2, FS_Singleton, FS_CardinalityType
<1>4. 1 <= Cardinality(matching)
  BY <1>2, <1>3, FS_Subset
<1> QED
  BY <1>2, <1>3, <1>4, FS_Subset

\* An entry that was listed as open, or closed at a date that parses, and whose
\* window holds a time before the bundle, was in force at that time.
LEMMA ListedWasInForce ==
  ASSUME NEW b, OfKeys(b), NEW i \in DOMAIN b.pubkeys, KeysInv,
         NEW at \in 0 .. b.generated_at, b.pubkeys[i].valid_from.at <= at,
         b.pubkeys[i].valid_until # NoValue => at <= b.pubkeys[i].valid_until.at
  PROVE  WasInForce(b.pubkeys[i], b.pubkeys[i].key_id, at)
<1> DEFINE e == b.pubkeys[i]
<1>1. PICK k \in DOMAIN keys : Lists(e, keys[k], b.generated_at)
  BY DEF OfKeys
<1>2. b.generated_at \in Nat
  BY DEF OfKeys, KeysInv
<1>3. ASSUME keys[k].valid_until # NoValue
      PROVE  at <= keys[k].valid_until.at
  <2>1. CASE e.valid_until = keys[k].valid_until
    BY <1>3, <2>1
  <2>2. CASE e.valid_until = NoValue
    <3>1. b.generated_at <= keys[k].valid_until.at
      BY <1>1, <1>3, <2>2 DEF Lists
    <3>2. keys[k].valid_until.at \in Nat
      BY <1>3 DEF KeysInv, Entries, Dates
    <3> QED
      BY <1>2, <3>1, <3>2
  <2> QED
    BY <1>1, <2>1, <2>2 DEF Lists
<1> QED
  BY <1>1, <1>3 DEF WasInForce, Lists

\* ResolvedKeyWasInForce: of both lookups.
LEMMA Resolved ==
  ASSUME Inv, verdict # NoValue, Trusted, NEW id \in KeyIds, NEW at \in 0 .. held.generated_at
  PROVE  LET entry  == ResolveParentKey(held, id, at)
             ported == PortedResolveParentKey(held, id, at)
         IN  /\ entry # NoValue =>
                  \/ WasInForce(entry, id, at)
                  \/ entry.valid_until # NoValue /\ ~entry.valid_until.parses
             /\ ported # NoValue => WasInForce(ported, id, at)
<1>1. OfKeys(held) /\ IsList(held.pubkeys) /\ KeysInv
  BY AsPublished DEF Inv, PublishedInv, OfKeys
<1>2. ASSUME ResolveParentKey(held, id, at) # NoValue
      PROVE  LET entry == ResolveParentKey(held, id, at)
             IN  \/ WasInForce(entry, id, at)
                 \/ entry.valid_until # NoValue /\ ~entry.valid_until.parses
  <2> DEFINE matching == {i \in EntriesOf(held, id) : WindowContains(held.pubkeys[i], at)}
  <2>1. PICK i \in matching : ResolveParentKey(held, id, at) = held.pubkeys[i]
    <3>1. matching \subseteq DOMAIN held.pubkeys
      BY DEF EntriesOf
    <3> QED
      BY <1>1, <1>2, <3>1, FirstEntryLemma DEF ResolveParentKey
  <2>2. i \in DOMAIN held.pubkeys /\ held.pubkeys[i].key_id = id /\ WindowContains(held.pubkeys[i], at)
    BY DEF EntriesOf
  <2>3. CASE held.pubkeys[i].valid_until # NoValue => held.pubkeys[i].valid_until.parses
    BY <1>1, <2>1, <2>2, <2>3, ListedWasInForce DEF WindowContains
  <2> QED
    BY <2>1, <2>3
<1>3. ASSUME PortedResolveParentKey(held, id, at) # NoValue
      PROVE  WasInForce(PortedResolveParentKey(held, id, at), id, at)
  <2> DEFINE matching == {i \in EntriesOf(held, id) : PortedWindowContains(held.pubkeys[i], at)}
  <2>1. PICK i \in matching : PortedResolveParentKey(held, id, at) = held.pubkeys[i]
    <3>1. matching \subseteq DOMAIN held.pubkeys
      BY DEF EntriesOf
    <3> QED
      BY <1>1, <1>3, <3>1, FirstEntryLemma DEF PortedResolveParentKey
  <2>2. /\ i \in DOMAIN held.pubkeys /\ held.pubkeys[i].key_id = id
        /\ PortedWindowContains(held.pubkeys[i], at)
    BY DEF EntriesOf
  <2> QED
    BY <1>1, <2>1, <2>2, ListedWasInForce DEF PortedWindowContains
<1> QED
  BY <1>2, <1>3

\* ProofFindsItsKey: the entry of a proof's key is among those that match, and
\* where only one matches it is the one found.
LEMMA FindsItsKey ==
  ASSUME Inv, verdict # NoValue, Trusted, NEW p \in Covered
  PROVE  LET Finds(entry) == entry # NoValue /\ entry.public_key = p.key
         IN  /\ DatesParse(p.key_id) /\ ~TwoInForce(p) =>
                  /\ Finds(ResolveParentKey(held, p.key_id, p.at))
                  /\ Finds(PortedResolveParentKey(held, p.key_id, p.at))
             /\ Cardinality(EntriesOf(held, p.key_id)) = 1 =>
                  Finds(ResolveParentKeyForever(held, p.key_id))
<1> DEFINE named   == EntriesOf(held, p.key_id)
           inForce == {i \in named : WindowContains(held.pubkeys[i], p.at)}
           Finds(entry) == entry # NoValue /\ entry.public_key = p.key
<1>1. OfKeys(held) /\ IsList(held.pubkeys)
  BY AsPublished DEF Inv, PublishedInv, OfKeys
<1>2. PICK i \in DOMAIN held.pubkeys : SignedWith(p, held.pubkeys[i])
  BY <1>1 DEF OfKeys, Covered
<1>3. i \in named /\ named \subseteq DOMAIN held.pubkeys
  BY <1>2 DEF EntriesOf, SignedWith
<1>4. Finds(held.pubkeys[i])
  BY <1>1, <1>2, NoEntryAssumption DEF OfKeys, SignedWith
<1>5. ASSUME NEW matching, matching = {i}
      PROVE  Finds(FirstEntry(held, matching))
  <2>1. \E j \in matching : FirstEntry(held, matching) = held.pubkeys[j]
    BY <1>1, <1>3, <1>5, FirstEntryLemma
  <2> QED
    BY <1>4, <1>5, <2>1
<1>6. ASSUME DatesParse(p.key_id), ~TwoInForce(p)
      PROVE  Finds(ResolveParentKey(held, p.key_id, p.at))
             /\ Finds(PortedResolveParentKey(held, p.key_id, p.at))
  <2>1. i \in inForce
    BY <1>2, <1>3 DEF WindowContains, SignedWith
  <2>2. inForce = {i}
    <3>1. inForce \subseteq DOMAIN held.pubkeys /\ ~(Cardinality(inForce) > 1)
      BY <1>3, <1>6 DEF TwoInForce
    <3> QED
      BY <1>1, <2>1, <3>1, OnlyOne
  <2>3. {j \in named : PortedWindowContains(held.pubkeys[j], p.at)} = inForce
    BY <1>6 DEF DatesParse, WindowContains, PortedWindowContains
  <2> QED
    BY <1>5, <2>2, <2>3 DEF ResolveParentKey, PortedResolveParentKey
<1>7. ASSUME Cardinality(named) = 1
      PROVE  Finds(ResolveParentKeyForever(held, p.key_id))
  <2>1. named = {i}
    BY <1>1, <1>3, <1>7, OnlyOne
  <2> QED
    BY <1>5, <2>1 DEF ResolveParentKeyForever
<1> QED
  BY <1>6, <1>7

-----------------------------------------------------------------------------
(* The publisher's steps.                                                  *)

\* The publisher has a key at all times, and its bundles list its keys.
LEMMA Publisher ==
  ASSUME Inv
  PROVE  /\ now \in Nat /\ IsList(keys) /\ Len(keys) \in DOMAIN keys
         /\ \A b \in published : b.issuer = Pinned => OfKeys(b)
BY DEF Inv, KeysInv, PublishedInv, IsList

\* Time passes: nothing of the publisher's changes but its clock.
LEMMA TickStep ==
  ASSUME Inv, Tick
  PROVE  KeysInv' /\ ProofsInv' /\ PublishedInv'
<1>1. now \in Nat /\ now' = now + 1 /\ UNCHANGED <<keys, proofs, published>>
  BY Publisher DEF Tick
<1>2. KeysInv'
  <2>1. \A k \in DOMAIN keys : keys[k].valid_from.at \in Nat
    BY DEF Inv, KeysInv, Entries, Dates
  <2> QED
    BY <1>1, <2>1 DEF Inv, KeysInv
<1>3. ProofsInv'
  BY <1>1 DEF Inv, ProofsInv
<1>4. ASSUME NEW b, OfKeys(b) PROVE OfKeys(b)'
  BY <1>1, <1>4 DEF OfKeys
<1> QED
  BY <1>1, <1>2, <1>3, <1>4 DEF Inv, PublishedInv

\* A proof is signed by the key whose entry is the last and open.
LEMMA SignProofStep ==
  ASSUME Inv, SignProof
  PROVE  KeysInv' /\ ProofsInv' /\ PublishedInv'
<1> DEFINE p == [key_id |-> Current.key_id, key |-> Current.public_key, at |-> now]
<1>1. proofs' = proofs \cup {p} /\ UNCHANGED <<now, keys, published>>
  BY DEF SignProof
<1>2. SignedWith(p, keys[Len(keys)]) /\ Len(keys) \in DOMAIN keys /\ p.at = now /\ now \in 0 .. now
  <2>1. Len(keys) \in DOMAIN keys
    BY Publisher
  <2> QED
    BY <2>1 DEF Inv, KeysInv, SignedWith, Current, Last
<1> HIDE DEF p
<1>3. ProofsInv'
  BY <1>1, <1>2 DEF Inv, ProofsInv
<1>4. ASSUME NEW b, OfKeys(b) PROVE OfKeys(b)'
  <2>1. b.generated_at \in Nat /\ ~(p.at < b.generated_at)
    BY <1>2, <1>4, Publisher DEF OfKeys
  <2> QED
    BY <1>1, <1>4, <2>1 DEF OfKeys
<1> QED
  BY <1>1, <1>3, <1>4 DEF Inv, KeysInv, PublishedInv

\* A rotation closes the last entry, at a time no proof of its key and no bundle
\* is after, and appends the next.
LEMMA RotateKeyStep ==
  ASSUME Inv, NEW id \in KeyIds, NEW parses \in DateForms, RotateKey(id, parses)
  PROVE  KeysInv' /\ ProofsInv' /\ PublishedInv'
<1> DEFINE n == Len(keys)
           closed == [keys[n] EXCEPT !.valid_until = Date(now, parses)]
           next == PubKeyEntry(id, PublicKeys[n + 1], Date(now, TRUE))
<1>1. /\ now \in Nat /\ n \in Nat /\ DOMAIN keys = 1 .. n /\ n \in DOMAIN keys /\ n # 0
      /\ n < Len(PublicKeys)
      /\ UNCHANGED <<now, proofs, published>>
  BY Publisher DEF RotateKey, IsList
<1>2. keys' = Append([keys EXCEPT ![n] = closed], next)
  BY DEF RotateKey
<1>3. /\ closed \in Entries /\ closed.valid_until.at = now /\ closed.valid_from = keys[n].valid_from
      /\ closed.key_id = keys[n].key_id /\ closed.public_key = keys[n].public_key
      /\ keys[n].valid_until = NoValue
  <2>1. keys[n] \in Entries /\ keys[n].valid_until = NoValue
    BY <1>1 DEF Inv, KeysInv
  <2>2. Date(now, parses) \in Dates /\ Date(now, parses).at = now
    BY <1>1, DateFormsAssumption DEF Date, Dates
  <2> QED
    BY <2>1, <2>2 DEF Entries
<1>4. next \in Entries /\ next.valid_from = Date(now, TRUE) /\ next.valid_until = NoValue
  <2>1. PublicKeys[n + 1] \in Range(PublicKeys)
    BY <1>1, KeysAssumption DEF Range
  <2>2. Date(now, TRUE) \in Dates
    BY <1>1 DEF Date, Dates
  <2> QED
    BY <2>1, <2>2 DEF PubKeyEntry, Entries
<1> HIDE DEF closed, next
<1>5. /\ IsList(keys') /\ Len(keys') = n + 1 /\ DOMAIN keys' = 1 .. n + 1
      /\ \A k \in 1 .. n - 1 : keys'[k] = keys[k]
      /\ keys'[n] = closed /\ keys'[n + 1] = next
  <2> DEFINE s == [keys EXCEPT ![n] = closed]
  <2>1. IsList(keys)
    BY Publisher
  <2>2. /\ IsList(s) /\ DOMAIN s = 1 .. n /\ Len(s) = n /\ s[n] = closed
        /\ \A k \in 1 .. n - 1 : s[k] = keys[k]
    <3>1. n = Len(keys)
      OBVIOUS
    <3> HIDE DEF n
    <3>2. \A k \in 1 .. n - 1 : k \in 1 .. n /\ k # n
      BY <1>1
    <3>3. DOMAIN keys = 1 .. n /\ n \in DOMAIN keys
      BY <1>1
    <3>4. /\ IsList(s) /\ Len(s) = Len(keys) /\ DOMAIN s = DOMAIN keys /\ s[n] = closed
          /\ \A k \in DOMAIN keys : k # n => s[k] = keys[k]
      BY <2>1, <3>3, ReplacedList
    <3> HIDE DEF s
    <3> QED
      BY <3>1, <3>2, <3>3, <3>4
  <2>3. keys' = Append(s, next)
    BY <1>2
  <2> HIDE DEF s, n
  <2>4. /\ IsList(keys') /\ Len(keys') = n + 1 /\ DOMAIN keys' = 1 .. n + 1
        /\ keys'[n + 1] = next
        /\ \A k \in 1 .. n : keys'[k] = s[k]
    BY <2>2, <2>3, AppendedList
  <2> QED
    BY <1>1, <2>2, <2>4
<1>6. KeysInv'
  <2>1. \A k \in DOMAIN keys' :
          /\ keys'[k] \in Entries /\ keys'[k].valid_from.parses /\ keys'[k].valid_from.at <= now
    <3> TAKE k \in DOMAIN keys'
    <3>1. CASE k \in 1 .. n - 1
      BY <1>1, <1>5, <3>1 DEF Inv, KeysInv
    <3>2. CASE k = n
      BY <1>1, <1>3, <1>5, <3>2 DEF Inv, KeysInv
    <3>3. CASE k = n + 1
      BY <1>1, <1>4, <1>5, <3>3 DEF Date
    <3> QED
      BY <1>1, <1>5, <3>1, <3>2, <3>3
  <2> QED
    BY <1>1, <1>4, <1>5, <2>1 DEF KeysInv
<1>7. ProofsInv'
  <2> SUFFICES ASSUME NEW p \in proofs
               PROVE  p.at \in 0 .. now /\ \E k \in DOMAIN keys' : SignedWith(p, keys'[k])
    BY <1>1 DEF ProofsInv
  <2>1. PICK k \in DOMAIN keys : SignedWith(p, keys[k])
    BY DEF Inv, ProofsInv
  <2>2. p.at \in 0 .. now
    BY DEF Inv, ProofsInv
  <2>3. CASE k = n
    <3>1. p.at <= now
      BY <1>1, <2>2
    <3>2. SignedWith(p, closed)
      BY <1>3, <2>1, <2>3, <3>1 DEF SignedWith
    <3> QED
      BY <1>1, <1>5, <2>2, <3>2
  <2>4. CASE k # n
    BY <1>1, <1>5, <2>1, <2>2, <2>4
  <2> QED
    BY <2>3, <2>4
<1>8. ASSUME NEW b, OfKeys(b) PROVE OfKeys(b)'
  <2>1. b.generated_at \in 0 .. now /\ b.generated_at <= now
    BY <1>1, <1>8 DEF OfKeys
  <2>2. ASSUME NEW i \in DOMAIN b.pubkeys
        PROVE  \E k \in DOMAIN keys' : Lists(b.pubkeys[i], keys'[k], b.generated_at)
    <3>1. PICK k \in DOMAIN keys : Lists(b.pubkeys[i], keys[k], b.generated_at)
      BY <1>8 DEF OfKeys
    <3>2. CASE k = n
      <4>1. Lists(b.pubkeys[i], closed, b.generated_at)
        BY <1>3, <2>1, <3>1, <3>2 DEF Lists
      <4> QED
        BY <1>1, <1>5, <4>1
    <3>3. CASE k # n
      BY <1>1, <1>5, <3>1, <3>3
    <3> QED
      BY <3>2, <3>3
  <2> QED
    BY <1>1, <1>8, <2>1, <2>2 DEF OfKeys
<1> QED
  BY <1>1, <1>6, <1>7, <1>8 DEF Inv, PublishedInv

\* Every order of the publisher's entries that is given out lists them as they are.
LEMMA GiveOutKeys ==
  ASSUME Inv, NEW entries \in {keys, Reverse(keys)}, NEW b, b.pubkeys = entries, b.generated_at = now
  PROVE  OfKeys(b)
<1>1. /\ now \in Nat /\ IsList(keys) /\ Len(keys) \in Nat /\ DOMAIN keys = 1 .. Len(keys)
      /\ \A k \in DOMAIN keys : keys[k] \in Entries
  BY DEF Inv, KeysInv, IsList
<1>2. /\ IsList(entries)
      /\ \A i \in DOMAIN entries : \E k \in DOMAIN keys : entries[i] = keys[k]
      /\ \A k \in DOMAIN keys : \E i \in DOMAIN entries : entries[i] = keys[k]
  <2>1. CASE entries = keys
    BY <1>1, <2>1
  <2>2. CASE entries = Reverse(keys)
    <3>1. /\ DOMAIN entries = DOMAIN keys /\ IsList(entries)
          /\ \A i \in DOMAIN entries : entries[i] = keys[(Len(keys) - i) + 1]
      BY <1>1, <2>2 DEF Reverse, IsList
    <3>2. \A i \in DOMAIN keys : /\ (Len(keys) - i) + 1 \in DOMAIN keys
                                 /\ (Len(keys) - ((Len(keys) - i) + 1)) + 1 = i
      BY <1>1
    <3> HIDE <2>2
    <3> QED
      BY <3>1, <3>2
  <2> QED
    BY <2>1, <2>2
<1>3. \A i \in DOMAIN entries :
        /\ entries[i] \in Entries
        /\ \E k \in DOMAIN keys : Lists(entries[i], keys[k], now)
  BY <1>1, <1>2 DEF Lists
<1>4. \A p \in proofs : \E i \in DOMAIN entries : SignedWith(p, entries[i])
  BY <1>2 DEF Inv, ProofsInv
<1>5. now \in 0 .. now
  BY <1>1
<1> QED
  BY <1>2, <1>3, <1>4, <1>5 DEF OfKeys

\* What is given out was built of the entries as they are, by its publisher.
LEMMA PublishStep ==
  ASSUME Inv, Publish \/ \E publisher \in Publishers, id \in KeyIds : PublishForeign(publisher, id)
  PROVE  KeysInv' /\ ProofsInv' /\ PublishedInv'
<1>1. ASSUME NEW entries, NEW publisher, GiveOut(entries, publisher),
             publisher = Pinned => entries \in {keys, Reverse(keys)}
      PROVE  KeysInv' /\ ProofsInv' /\ PublishedInv'
  <2> DEFINE b == BuildPubkeyBundle(entries, publisher, now)
  <2>1. published' = published \cup {b} /\ UNCHANGED <<now, keys, proofs>>
    BY <1>1 DEF GiveOut
  <2>2. Built(b) /\ b.pubkeys = entries /\ b.issuer = publisher /\ b.generated_at = now
    BY <1>1, BuildLemma DEF GiveOut
  <2> HIDE DEF b
  <2>3. b.issuer = Pinned => OfKeys(b)
    BY <1>1, <2>2, GiveOutKeys
  <2>4. \A c : OfKeys(c) => OfKeys(c)'
    BY <2>1 DEF OfKeys
  <2> QED
    BY <2>1, <2>2, <2>3, <2>4 DEF Inv, KeysInv, ProofsInv, PublishedInv
<1>2. ASSUME NEW entries \in {keys, Reverse(keys), <<>>} \cup Unusable(keys, 1),
             BuildError(entries) = "none"
      PROVE  entries \in {keys, Reverse(keys)}
  <2>1. entries # <<>> /\ \A i \in DOMAIN entries : ValidEntry(entries[i])
    BY <1>2 DEF BuildError, EntriesError
  <2>2. ASSUME entries \in Unusable(keys, 1) PROVE FALSE
    <3>1. 1 \in DOMAIN keys /\ keys[1] \in Entries
      BY Publisher DEF Inv, KeysInv, IsList
    <3>2. 1 \in DOMAIN entries /\ ~ValidEntry(entries[1])
      BY <2>2, <3>1, KeysAssumption DEF Unusable, ValidEntry, Entries
    <3> QED
      BY <2>1, <3>2
  <2> QED
    BY <2>1, <2>2
<1> QED
  BY <1>1, <1>2 DEF Publish, PublishForeign, GiveOut

-----------------------------------------------------------------------------
(* The consumer's steps.                                                   *)

\* The signature of a bundle on its way is one of those made, or nobody's.
Signed(bundle) ==
  \/ bundle.bundle_signature.signature = Undecodable
  \/ \E b \in published : bundle.bundle_signature.signature = b.bundle_signature.signature

\* An alteration of a field other than the signature block.
LEMMA AlterField ==
  ASSUME Shaped(held), Signed(held), NEW f, f # "bundle_signature", NEW x
  PROVE  Shaped([held EXCEPT ![f] = x]) /\ Signed([held EXCEPT ![f] = x])
<1> DEFINE b == [held EXCEPT ![f] = x]
<1>1. DOMAIN held = Fields /\ "bundle_signature" \in Fields
  BY DEF Shaped, Fields
<1>2. b.bundle_signature = held.bundle_signature /\ b = [g \in Fields |-> b[g]]
  BY <1>1
<1> QED
  BY <1>2 DEF Shaped, Signed

\* An alteration of the signature block.
LEMMA AlterSignature ==
  ASSUME Shaped(held), NEW signer, NEW signature,
         signature = Undecodable \/ \E b \in published : signature = b.bundle_signature.signature
  PROVE  LET bundle == [held EXCEPT !.bundle_signature =
                          [signed_by_key_id |-> signer, signature |-> signature]]
         IN  Shaped(bundle) /\ Signed(bundle)
BY DEF Shaped, Signed, Fields

\* On its way a bundle keeps its shape, and a signature somebody made or none.
LEMMA AlterStep ==
  ASSUME Inv, held # NoValue, verdict = NoValue, AfterFetch, ~Verify
  PROVE  /\ Shaped(held') /\ Signed(held')
         /\ UNCHANGED <<now, keys, proofs, published, verdict>>
<1>1. Shaped(held) /\ Signed(held)
  BY DEF Inv, HeldInv, Signed
<1> DEFINE block == held.bundle_signature
<1>2. DOMAIN held = Fields /\ block = [signed_by_key_id |-> block.signed_by_key_id,
                                       signature |-> block.signature]
  BY <1>1 DEF Shaped
<1>3. ASSUME NEW bundle, Alter(bundle), Shaped(bundle), Signed(bundle)
      PROVE  /\ Shaped(held') /\ Signed(held')
             /\ UNCHANGED <<now, keys, proofs, published, verdict>>
  BY <1>3 DEF Alter
<1>4. ASSUME NEW f, NEW x, f # "bundle_signature", Alter([held EXCEPT ![f] = x])
      PROVE  /\ Shaped(held') /\ Signed(held')
             /\ UNCHANGED <<now, keys, proofs, published, verdict>>
  BY <1>1, <1>3, <1>4, AlterField
<1>5. ASSUME NEW b \in published, NEW f \in DOMAIN b, TakeField(f, b)
      PROVE  /\ Shaped(held') /\ Signed(held')
             /\ UNCHANGED <<now, keys, proofs, published, verdict>>
  <2>1. CASE f # "bundle_signature"
    BY <1>4, <1>5, <2>1 DEF TakeField
  <2>2. CASE f = "bundle_signature"
    <3>1. Shaped(b)
      BY DEF Inv, PublishedInv, Built
    <3>2. b[f] = [signed_by_key_id |-> b[f].signed_by_key_id, signature |-> b[f].signature]
      BY <2>2, <3>1 DEF Shaped
    <3> DEFINE bundle == [held EXCEPT !.bundle_signature = b[f]]
    <3>3. Shaped(bundle) /\ Signed(bundle)
      BY <1>1, <2>2, <3>2, AlterSignature
    <3>4. Alter(bundle)
      BY <1>5, <2>2 DEF TakeField
    <3> QED
      BY <1>3, <3>3, <3>4
  <2> QED
    BY <2>1, <2>2
<1>6. ASSUME NEW signer, SetSigner(signer)
      PROVE  /\ Shaped(held') /\ Signed(held')
             /\ UNCHANGED <<now, keys, proofs, published, verdict>>
  <2> DEFINE bundle == [held EXCEPT !.bundle_signature =
                          [signed_by_key_id |-> signer, signature |-> block.signature]]
  <2>1. Shaped(bundle) /\ Signed(bundle)
    BY <1>1, AlterSignature DEF Signed
  <2>2. [held EXCEPT !.bundle_signature.signed_by_key_id = signer] = bundle
    BY <1>2
  <2> QED
    BY <1>3, <1>6, <2>1, <2>2 DEF SetSigner
<1>7. ASSUME SpoilSignature
      PROVE  /\ Shaped(held') /\ Signed(held')
             /\ UNCHANGED <<now, keys, proofs, published, verdict>>
  <2> DEFINE bundle == [held EXCEPT !.bundle_signature =
                          [signed_by_key_id |-> block.signed_by_key_id, signature |-> Undecodable]]
  <2>1. Shaped(bundle) /\ Signed(bundle)
    BY <1>1, AlterSignature
  <2>2. [held EXCEPT !.bundle_signature.signature = Undecodable] = bundle
    BY <1>2
  <2> QED
    BY <1>3, <1>7, <2>1, <2>2 DEF SpoilSignature
<1>8. ASSUME NEW x, Alter([held EXCEPT !.pubkeys = x])
      PROVE  /\ Shaped(held') /\ Signed(held')
             /\ UNCHANGED <<now, keys, proofs, published, verdict>>
  BY <1>4, <1>8
<1>9. ASSUME NEW i, DropEntry(i) \/ SpoilEntry(i) \/ ReopenEntry(i) \/ \E id \in KeyIds : MoveEntry(i, id)
      PROVE  /\ Shaped(held') /\ Signed(held')
             /\ UNCHANGED <<now, keys, proofs, published, verdict>>
  <2>1. \E x : Alter([held EXCEPT !.pubkeys = x])
    BY <1>9 DEF DropEntry, SpoilEntry, ReopenEntry, MoveEntry
  <2> QED
    BY <1>8, <2>1
<1>10. ASSUME SetVersion \/ SetType
       PROVE  /\ Shaped(held') /\ Signed(held')
              /\ UNCHANGED <<now, keys, proofs, published, verdict>>
  BY <1>4, <1>10 DEF SetVersion, SetType
<1> QED
  BY <1>5, <1>6, <1>7, <1>9, <1>10 DEF AfterFetch

\* The consumer's side of the invariant.
LEMMA HeldStep ==
  ASSUME Inv, [Next]_vars
  PROVE  HeldInv'
<1>1. CASE held = NoValue /\ BeforeFetch
  <2>1. verdict = NoValue /\ verdict' = verdict
    BY <1>1 DEF Inv, HeldInv, BeforeFetch, Tick, SignProof, Publish, RotateKey, PublishForeign,
                GiveOut, Fetch
  <2>2. CASE \E bundle \in published : Fetch(bundle)
    BY <2>1, <2>2 DEF Fetch, HeldInv, Inv, PublishedInv, Built
  <2>3. CASE held' = held
    BY <1>1, <2>1, <2>3 DEF HeldInv
  <2> QED
    BY <1>1, <2>2, <2>3 DEF BeforeFetch, Tick, SignProof, Publish, RotateKey, PublishForeign, GiveOut
<1>2. CASE held # NoValue /\ verdict = NoValue /\ AfterFetch /\ ~Verify
  BY <1>2, AlterStep DEF HeldInv, Signed
<1>3. CASE held # NoValue /\ Verify
  BY <1>3 DEF Verify, Inv, HeldInv
<1>4. CASE UNCHANGED vars
  BY <1>4 DEF vars, Inv, HeldInv
<1> QED
  BY <1>1, <1>2, <1>3, <1>4 DEF Next

\* What the publisher has done stays as it was once the consumer has a bundle.
LEMMA PublisherKept ==
  ASSUME Inv, UNCHANGED <<now, keys, proofs, published>>
  PROVE  KeysInv' /\ ProofsInv' /\ PublishedInv'
<1>1. \A b : OfKeys(b) => OfKeys(b)'
  BY DEF OfKeys
<1> QED
  BY <1>1 DEF Inv, KeysInv, ProofsInv, PublishedInv

\* The publisher's side of the invariant.
LEMMA PublisherStep ==
  ASSUME Inv, [Next]_vars
  PROVE  KeysInv' /\ ProofsInv' /\ PublishedInv'
<1>1. CASE Tick
  BY <1>1, TickStep
<1>2. CASE SignProof
  BY <1>2, SignProofStep
<1>3. CASE \E id \in KeyIds, parses \in DateForms : RotateKey(id, parses)
  BY <1>3, RotateKeyStep
<1>4. CASE Publish \/ \E publisher \in Publishers, id \in KeyIds : PublishForeign(publisher, id)
  BY <1>4, PublishStep
<1>5. CASE UNCHANGED <<now, keys, proofs, published>>
  BY <1>5, PublisherKept
<1>6. CASE held # NoValue /\ verdict = NoValue /\ AfterFetch /\ ~Verify
  BY <1>5, <1>6, AlterStep
<1> QED
  BY <1>1, <1>2, <1>3, <1>4, <1>5, <1>6 DEF Next, BeforeFetch, Fetch, Verify, vars

\* The first key is in force from the start, and nothing has been given out.
LEMMA InitInv ==
  ASSUME Init
  PROVE  Inv
<1>1. PICK id \in KeyIds : keys = <<PubKeyEntry(id, PublicKeys[1], Date(0, TRUE))>>
  BY DEF Init
<1> DEFINE e == PubKeyEntry(id, PublicKeys[1], Date(0, TRUE))
<1>2. e \in Entries /\ e.valid_from = Date(0, TRUE) /\ e.valid_until = NoValue
  <2>1. PublicKeys[1] \in Range(PublicKeys)
    <3>1. 1 \in DOMAIN PublicKeys
      BY KeysAssumption
    <3> QED
      BY <3>1 DEF Range
  <2>2. Date(0, TRUE) \in Dates
    BY DEF Date, Dates
  <2> QED
    BY <2>1, <2>2 DEF PubKeyEntry, Entries
<1> HIDE DEF e
<1>3. IsList(keys) /\ Len(keys) = 1 /\ DOMAIN keys = {1} /\ keys[1] = e
  BY <1>1 DEF IsList, e
<1>4. KeysInv
  BY <1>2, <1>3 DEF Init, KeysInv, Date
<1> QED
  BY <1>4 DEF Init, Inv, ProofsInv, PublishedInv, HeldInv

-----------------------------------------------------------------------------
(* The theorems.                                                           *)

\* The invariant is inductive.
THEOREM Invariance == Spec => []Inv
<1>1. Init => Inv
  BY InitInv
<1>2. Inv /\ [Next]_vars => Inv'
  BY PublisherStep, HeldStep DEF Inv
<1> QED
  BY <1>1, <1>2, PTL DEF Spec

\* A bundle verifies under the pinned key exactly if the holder of that key
\* built it, as it is (verify_pubkey_bundle).
THEOREM TrustIsEarned == Spec => []VerifiesAsPublished
<1>1. Inv => VerifiesAsPublished
  BY AsPublished DEF VerifiesAsPublished
<1> QED
  BY <1>1, Invariance, PTL

\* A key that is looked up in a trusted bundle at a time was in force then,
\* but for the entry with a date Rust passes over (resolve_parent_key).
THEOREM ResolvedIsInForce == Spec => []ResolvedKeyWasInForce
<1>1. Inv => ResolvedKeyWasInForce
  <2> SUFFICES ASSUME Inv, Trusted
               PROVE  ResolvedKeyWasInForce
    BY DEF ResolvedKeyWasInForce
  <2>1. verdict # NoValue
    BY NoVerdictAssumption DEF Trusted
  <2> QED
    BY <2>1, Resolved DEF ResolvedKeyWasInForce
<1> QED
  BY <1>1, Invariance, PTL

\* A proof outlives the rotation of its key (resolve_parent_key and
\* resolve_parent_key_forever).
THEOREM KeyIsFound == Spec => []ProofFindsItsKey
<1>1. Inv => ProofFindsItsKey
  <2>1. Trusted => verdict # NoValue
    BY NoVerdictAssumption DEF Trusted
  <2> QED
    BY <2>1, FindsItsKey DEF ProofFindsItsKey
<1> QED
  BY <1>1, Invariance, PTL
=============================================================================
