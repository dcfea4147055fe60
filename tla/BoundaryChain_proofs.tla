------------------------ MODULE BoundaryChain_proofs -------------------------
(***************************************************************************)
(* What an anchored attestation, exit code 0 and a disclosed trail say,    *)
(* for any number of capsules, attestations, rotations, documents and      *)
(* changes.                                                                *)
(*                                                                         *)
(* The argument: a signature in a document is over the hash of an          *)
(* attestation, or foreign, or absent, however the document was edited; a  *)
(* key of the manifest is not foreign, so an anchored document reads as an *)
(* attestation.  Its link is then the hash of the attestation before it,   *)
(* and the linkage makes the document in front of it the one with that     *)
(* hash, and so on back to the first.                                      *)
(***************************************************************************)
EXTENDS BoundaryChain, Common_proofs, FiniteSetTheorems, SequenceTheorems, TLAPS

-----------------------------------------------------------------------------
(* The inductive invariant.                                                *)

Fields ==
  {"kind", "version", "capsule_id", "attestation_index", "cutoff_ts", "activity_commitment",
   "activity_event_count", "prev_attestation_hash", "hash_algorithm", "signature_algorithm",
   "continuation", "boundary_evidence", "authority_id", "signing_key_version",
   "canonical_hash", "signature", "public_key"}

\* A signature in circulation: none, the forger's, or over an attestation.
Made(signature, attested) ==
  \/ signature = NoValue
  \/ signature.key = ForeignKey
  \/ \E c \in Capsules : \E n \in DOMAIN attested[c] :
       signature.message = RecomputeCanonicalHash(attested[c][n])

\* A document, as it may reach the walk.
Sound(d, attested) ==
  /\ DOMAIN d = Fields
  /\ Made(d.signature, attested)
  /\ d.attestation_index \in Nat \cup {NoValue}

\* An attestation as it was issued, number n of capsule c.
Genuine(d, c, n, attested) ==
  /\ DOMAIN d = Fields
  /\ d.signature.message = RecomputeCanonicalHash(d)
  /\ d.attestation_index = n
  /\ d.prev_attestation_hash =
       IF n = 1 THEN GenesisHash ELSE RecomputeCanonicalHash(attested[c][n - 1])
  /\ d.activity_commitment = RecomputeActivityCommitment(Activity[c][n])
  /\ d.activity_event_count = Len(Activity[c][n])

\* Records of keys of the authority's.
OwnKeys(list) ==
  /\ IsList(list)
  /\ \A i \in DOMAIN list : \E v \in DOMAIN Versions : list[i].public_key = <<"key of", Versions[v]>>

\* A manifest of the authority's.
Proper(m) ==
  LET record == m[DefaultAuthority]
  IN  /\ m = [a \in {DefaultAuthority} |-> record]
      /\ record = AuthorityRecord(record.active_versions, record.archived_versions, record.revoked)
      /\ OwnKeys(record.active_versions)
      /\ OwnKeys(record.archived_versions)

IssueInv ==
  /\ DOMAIN issued = Capsules
  /\ \A c \in Capsules :
       /\ Len(issued[c]) \in 0 .. MaxIssued[c]
       /\ DOMAIN issued[c] = 1 .. Len(issued[c])
       /\ \A n \in DOMAIN issued[c] : Genuine(issued[c][n], c, n, issued)
  /\ Proper(manifest)
  /\ held # NoValue => Proper(held)

SupplyInv ==
  /\ IsList(docs)
  /\ \A i \in DOMAIN docs : Sound(docs[i], issued)
  /\ phase = "issue" => docs = <<>>

\* The documents in order, and the verdicts on those the first loop has reached.
OrderInv ==
  /\ IsList(ordered)
  /\ \A k \in DOMAIN ordered : Sound(ordered[k], issued)
  /\ phase \notin {"issue", "supply"} => Len(ordered) = Len(docs)
  /\ IsList(per_document)
  /\ Len(per_document) <= Len(ordered)
  /\ \A k \in DOMAIN per_document :
       per_document[k] = VerifyBoundaryAttestation(ordered[k], held)
  /\ at \in 0 .. Len(ordered)

\* The first n documents are verified.
VerifiedUpTo(n) ==
  /\ Len(per_document) = n
  /\ all_signatures_checked => \A k \in 1 .. n : per_document[k].signature_checked

\* The first n documents are linked: one that reads as an attestation has all
\* the attestations before it in front of it.
LinkedUpTo(n) ==
  /\ \A k \in 1 .. n, c \in Capsules : \A m \in DOMAIN issued[c] :
       IsAttestation(ordered[k], c, m) =>
         /\ k <= m
         /\ \A j \in 1 .. k : IsAttestation(ordered[j], c, m - k + j)
  /\ genesis_anchored <=> n > 0 /\ ordered[1].attestation_index = 1

ResultInv ==
  result.valid =>
    /\ VerifiedUpTo(Len(ordered))
    /\ LinkedUpTo(Len(ordered))
    /\ result.all_signatures_checked = all_signatures_checked
    /\ result.genesis_anchored = genesis_anchored
    /\ result.chain_span = Span

DisclosedInv ==
  /\ Len(ordered) = 1
  /\ disclosed.k \in DOMAIN ordered
  /\ disclosed.events \in Seq(Events)
  /\ disclosed.failure = VerifyDisclosedActivityTrail(ordered[disclosed.k], disclosed.events)

WalkInv ==
  /\ phase \in {"issue", "supply", "documents", "linkage", "done"}
  /\ phase # "done" => result = NoValue /\ disclosed = NoValue
  /\ phase \in {"issue", "supply"} =>
       /\ ordered = <<>> /\ all_signatures_checked /\ ~genesis_anchored
  /\ phase = "documents" => VerifiedUpTo(at) /\ ~genesis_anchored
  /\ phase = "linkage" => VerifiedUpTo(Len(ordered)) /\ LinkedUpTo(at)
  /\ phase = "done" =>
       /\ ordered # <<>> => per_document # <<>>
       /\ ResultInv
       /\ disclosed # NoValue => DisclosedInv

Inv == IssueInv /\ SupplyInv /\ OrderInv /\ WalkInv

-----------------------------------------------------------------------------
(* Documents and their hashes.                                             *)

\* The hash covers every field but itself and the signature, and determines
\* what it covers.
LEMMA ViewLemma ==
  ASSUME NEW d, NEW e, DOMAIN d = Fields, DOMAIN e = Fields
  PROVE  /\ RecomputeCanonicalHash(d) = RecomputeCanonicalHash(e) <=> View(d) = View(e)
         /\ View(d) = View(e) <=> \A f \in Fields \ Outside : d[f] = e[f]
         /\ RecomputeCanonicalHash(d) # GenesisHash
<1>1. /\ DOMAIN View(d) = Fields \ Outside /\ DOMAIN View(e) = Fields \ Outside
      /\ \A f \in Fields \ Outside : View(d)[f] = d[f] /\ View(e)[f] = e[f]
  BY DEF View
<1>2. View(d) = View(e) <=> \A f \in Fields \ Outside : d[f] = e[f]
  BY <1>1 DEF View
<1> QED
  BY <1>2 DEF RecomputeCanonicalHash, GenesisHash

\* Closing a document again does not change what its hash covers.
LEMMA SealLemma ==
  ASSUME NEW d, NEW key, DOMAIN d = Fields
  PROVE  LET s == Seal(d, key)
         IN  /\ DOMAIN s = Fields
             /\ \A f \in Fields \ Outside : s[f] = d[f]
             /\ RecomputeCanonicalHash(s) = RecomputeCanonicalHash(d)
             /\ s.signature.key = key
             /\ s.signature.message = RecomputeCanonicalHash(s)
<1> DEFINE s == Seal(d, key)
<1>1. /\ DOMAIN s = Fields
      /\ \A f \in Fields \ Outside : s[f] = d[f]
      /\ s.signature.key = key
      /\ s.signature.message = RecomputeCanonicalHash(d)
  BY DEF Seal, Sign, Fields, Outside
<1> HIDE DEF s
<1>2. RecomputeCanonicalHash(s) = RecomputeCanonicalHash(d)
  BY <1>1, ViewLemma
<1> QED
  BY <1>1, <1>2 DEF s

\* A document stays sound when a field that is neither its signature nor its
\* index is written over.
LEMMA RewrittenIsSound ==
  ASSUME NEW d, NEW attested, Sound(d, attested), NEW field, NEW value,
         field = "signature" => value = NoValue,
         field = "attestation_index" => value \in Nat \cup {NoValue}
  PROVE  Sound([d EXCEPT ![field] = value], attested)
BY DEF Sound, Made, Fields

\* However a document is closed, no new signature over it is the issuer's.
LEMMA ClosedIsSound ==
  ASSUME NEW d, NEW seal \in Seals, NEW attested, Sound(d, attested)
  PROVE  Sound(Closed(d, seal), attested)
<1> DEFINE r == [d EXCEPT !.canonical_hash = RecomputeCanonicalHash(d)]
           u == [r EXCEPT !.signature = NoValue]
<1>1. Sound(r, attested)
  BY RewrittenIsSound, Zenon
<1>2. Sound(u, attested)
  BY <1>1, RewrittenIsSound, Zenon
<1>3. u = [d EXCEPT !.canonical_hash = RecomputeCanonicalHash(d), !.signature = NoValue]
  OBVIOUS
<1>4. Sound(Seal(d, ForeignKey), attested)
  <2>1. /\ DOMAIN Seal(d, ForeignKey) = Fields
        /\ Seal(d, ForeignKey).signature.key = ForeignKey
        /\ "attestation_index" \in Fields \ Outside
        /\ Seal(d, ForeignKey)["attestation_index"] = d["attestation_index"]
    <3>1. DOMAIN d = Fields /\ "attestation_index" \in Fields \ Outside
      BY DEF Sound, Fields, Outside
    <3> QED
      BY <3>1, SealLemma
  <2> QED
    BY <2>1 DEF Sound, Made
<1> HIDE DEF r, u
<1> QED
  BY <1>1, <1>2, <1>3, <1>4, SealsAssumption DEF Closed, r

-----------------------------------------------------------------------------
(* Ladders of checks.                                                      *)

\* A ladder that ends nowhere has only checks that hold.
LEMMA NoFailure ==
  ASSUME NEW checks, IsList(checks), \A i \in DOMAIN checks : checks[i].failure \in Failures,
         FirstFailure(checks) = NoValue
  PROVE  \A i \in DOMAIN checks : checks[i].holds
<1> DEFINE failing == {i \in DOMAIN checks : ~checks[i].holds}
<1> SUFFICES ASSUME failing # {} PROVE FALSE
  OBVIOUS
<1>1. failing \subseteq Nat
  BY DEF IsList
<1>2. (CHOOSE i \in failing : \A j \in failing : i <= j) \in failing
  BY <1>1, ChosenLeast
<1> QED
  BY <1>2, NoFailureAssumption DEF FirstFailure

\* A document that passes the linkage behind another names its hash.
LEMMA LinkNamesThePrevious ==
  ASSUME NEW k, k # 1, LinkFailure(k) = NoValue
  PROVE  ordered[k].prev_attestation_hash = RecomputeCanonicalHash(ordered[k - 1])
<1> DEFINE checks == SuccessorChecks(k)
<1>1. IsList(checks) /\ DOMAIN checks = 1 .. 5
  BY DEF SuccessorChecks, IsList
<1>2. \A i \in 1 .. 5 : checks[i].failure \in Failures
  BY DEF SuccessorChecks, CapsuleCheck, CutoffCheck, Check, Failures
<1>3. checks[3].holds <=>
        ordered[k].prev_attestation_hash = RecomputeCanonicalHash(ordered[k - 1])
  BY DEF SuccessorChecks, Check
<1>4. FirstFailure(checks) = NoValue
  BY DEF LinkFailure
<1> HIDE DEF checks
<1> QED
  BY <1>1, <1>2, <1>3, <1>4, NoFailure

-----------------------------------------------------------------------------
(* Authenticity.                                                           *)

\* The forger's key is in no manifest of the authority's.
LEMMA KeyIsOwn ==
  ASSUME NEW m, Proper(m), NEW a, NEW version, FindKey(m, a, version) # NoValue
  PROVE  /\ FindKey(m, a, version).record.public_key # ForeignKey
         /\ FindKey(m, a, version).revoked = m[DefaultAuthority].revoked
<1>1. /\ DOMAIN m = {DefaultAuthority}
      /\ OwnKeys(m[DefaultAuthority].active_versions)
      /\ OwnKeys(m[DefaultAuthority].archived_versions)
  BY DEF Proper
<1>2. a \in DOMAIN m => IsList(m[a].active_versions) /\ IsList(m[a].archived_versions)
  BY <1>1 DEF OwnKeys
<1>3. /\ a = DefaultAuthority
      /\ FindKey(m, a, version).revoked = m[a].revoked
      /\ \/ \E i \in DOMAIN m[a].active_versions :
              FindKey(m, a, version).record = m[a].active_versions[i]
         \/ \E i \in DOMAIN m[a].archived_versions :
              FindKey(m, a, version).record = m[a].archived_versions[i]
  BY <1>1, <1>2, FindKeyIsAnEntry
<1> QED
  BY <1>1, <1>3, KeysAssumption DEF OwnKeys

\* With a manifest, a signature counts as checked only if the manifest vouches
\* for it; and then the document reads as an attestation.
LEMMA AnchoredIsAttestation ==
  ASSUME NEW d, Sound(d, issued), IssueInv,
         VerifyBoundaryAttestation(d, held).trust_anchored
  PROVE  /\ \E c \in Capsules : \E n \in DOMAIN issued[c] : IsAttestation(d, c, n)
         /\ ~held[DefaultAuthority].revoked
<1> DEFINE lookup == FindSigningKey(d, held)
<1>1. /\ d.signature # NoValue
      /\ held # NoValue
      /\ VerifyBoundaryAttestation(d, held) = AnchorToManifest(d, held)
  BY DEF VerifyBoundaryAttestation, Failed, Verified, Signed
<1>2. /\ lookup # NoValue
      /\ VerifiesUnder(d, lookup.record.public_key)
      /\ ~lookup.revoked
  BY <1>1 DEF AnchorToManifest, Failed, Verified
<1>3. /\ lookup.record.public_key # ForeignKey
      /\ lookup.revoked = held[DefaultAuthority].revoked
  BY <1>1, <1>2, KeyIsOwn DEF IssueInv, FindSigningKey
<1>4. PICK c \in Capsules : \E n \in DOMAIN issued[c] :
        d.signature.message = RecomputeCanonicalHash(issued[c][n])
  BY <1>1, <1>2, <1>3 DEF Sound, Made, VerifiesUnder
<1>5. PICK n \in DOMAIN issued[c] : d.signature.message = RecomputeCanonicalHash(issued[c][n])
  BY <1>4
<1>6. DOMAIN d = Fields /\ DOMAIN issued[c][n] = Fields
  BY DEF IssueInv, Genuine, Sound
<1>7. View(d) = View(issued[c][n])
  BY <1>2, <1>5, <1>6, ViewLemma DEF VerifiesUnder
<1> QED
  BY <1>2, <1>3, <1>7 DEF IsAttestation

\* Without a manifest nothing is anchored; with one, checked is anchored.
LEMMA CheckedIsAnchored ==
  ASSUME NEW d, held # NoValue, VerifyBoundaryAttestation(d, held).signature_checked
  PROVE  VerifyBoundaryAttestation(d, held).trust_anchored
BY DEF VerifyBoundaryAttestation, AnchorToManifest, Failed, Verified

-----------------------------------------------------------------------------
(* The sort.                                                               *)

Before(i, j) ==
  \/ IndexOf(docs[i]) < IndexOf(docs[j])
  \/ IndexOf(docs[i]) = IndexOf(docs[j]) /\ i <= j

\* Every place in the order is somebody's: ranks are distinct, and as many as
\* the documents.
LEMMA RankIsOnto ==
  ASSUME SupplyInv, NEW k \in DOMAIN docs
  PROVE  \E i \in DOMAIN docs : Rank(i) = k
<1> DEFINE N == Len(docs)
           upTo(i) == {j \in DOMAIN docs : Before(j, i)}
           rank == [i \in 1 .. N |-> Rank(i)]
<1>1. N \in Nat /\ DOMAIN docs = 1 .. N
  BY DEF SupplyInv, IsList
<1>2. \A i \in 1 .. N : IndexOf(docs[i]) \in Nat
  BY <1>1 DEF SupplyInv, Sound, IndexOf
<1> HIDE DEF N
<1>3. IsFiniteSet(1 .. N) /\ Cardinality(1 .. N) = N
  BY <1>1, FS_Interval
<1>4. ASSUME NEW i \in 1 .. N
      PROVE  /\ Rank(i) = Cardinality(upTo(i))
             /\ i \in upTo(i) /\ upTo(i) \subseteq 1 .. N /\ IsFiniteSet(upTo(i))
             /\ Rank(i) \in 1 .. N
  <2>1. Rank(i) = Cardinality(upTo(i))
    BY DEF Rank, Before
  <2>2. i \in upTo(i) /\ upTo(i) \subseteq 1 .. N
    BY <1>1, <1>2 DEF Before
  <2>3. IsFiniteSet(upTo(i)) /\ Cardinality(upTo(i)) \in Nat /\ Cardinality(upTo(i)) <= N
    BY <1>3, <2>2, FS_Subset, FS_CardinalityType
  <2>4. Cardinality(upTo(i)) # 0
    BY <2>2, <2>3, FS_EmptySet
  <2> QED
    BY <1>1, <2>1, <2>2, <2>3, <2>4
<1>5. ASSUME NEW i \in 1 .. N, NEW j \in 1 .. N, Rank(i) = Rank(j)
      PROVE  i = j
  <2>1. upTo(i) \subseteq upTo(j) \/ upTo(j) \subseteq upTo(i)
    BY <1>1, <1>2 DEF Before
  <2>2. upTo(i) = upTo(j)
    BY <1>4, <1>5, <2>1, FS_Subset
  <2>3. Before(i, j) /\ Before(j, i)
    BY <1>4, <2>2
  <2> QED
    BY <1>1, <1>2, <2>3 DEF Before
<1>6. rank \in Injection(1 .. N, 1 .. N)
  BY <1>4, <1>5 DEF Injection, IsInjective
<1>7. rank \in Surjection(1 .. N, 1 .. N)
  BY <1>3, <1>6, FS_Injection
<1> QED
  BY <1>1, <1>7 DEF Surjection

-----------------------------------------------------------------------------
(* The chained commitment.                                                 *)

\* It is computed event by event, from the genesis hash.
LEMMA CommitmentUnfolds ==
  ASSUME NEW events \in Seq(Events)
  PROVE  \E prev :
           /\ RecomputeActivityCommitment(events) = prev[Len(events)]
           /\ prev[0] = GenesisHash
           /\ \A n \in 1 .. Len(events) : prev[n] = <<"link", prev[n - 1], events[n]>>
<1> DEFINE N == Len(events)
           Entry(f, n) == IF n = 0 THEN GenesisHash ELSE <<"link", f[n - 1], events[n]>>
           Chain(f, m) == f = [n \in 0 .. m |-> Entry(f, n)]
           S == {m \in 0 .. N : \E f : Chain(f, m)}
<1>1. N \in Nat
  OBVIOUS
<1>2. RecomputeActivityCommitment(events) = (CHOOSE f : Chain(f, N))[N]
  BY DEF RecomputeActivityCommitment
<1> HIDE DEF N, Entry
<1>8. ASSUME NEW f, NEW m, Chain(f, m), NEW n \in 0 .. m
      PROVE  f[n] = Entry(f, n)
  BY <1>8
<1>3. 0 \in S
  <2> DEFINE f == [n \in 0 .. 0 |-> GenesisHash]
  <2>1. Chain(f, 0) /\ 0 \in 0 .. N
    BY <1>1 DEF Entry
  <2> QED
    BY <2>1, Zenon
<1>4. ASSUME NEW m \in 0 .. N - 1, m \in S PROVE m + 1 \in S
  <2>1. PICK f : Chain(f, m)
    BY <1>4
  <2> DEFINE g == [n \in 0 .. m + 1 |-> IF n = m + 1 THEN <<"link", f[m], events[m + 1]>> ELSE f[n]]
  <2>2. ASSUME NEW n \in 0 .. m + 1
        PROVE  g[n] = Entry(g, n)
    <3>1. \A l \in 0 .. m : f[l] = Entry(f, l) /\ g[l] = f[l]
      <4> HIDE DEF Chain
      <4>1. \A l \in 0 .. m : f[l] = Entry(f, l)
        BY <1>8, <2>1
      <4> QED
        BY <1>1, <4>1
    <3>2. CASE n = m + 1
      <4>1. g[n] = <<"link", f[m], events[m + 1]>> /\ n # 0 /\ n - 1 = m /\ m \in 0 .. m
        BY <1>1, <3>2
      <4> QED
        BY <3>1, <3>2, <4>1 DEF Entry
    <3>3. CASE n \in 0 .. m
      <4>1. n # 0 => n - 1 \in 0 .. m
        BY <1>1, <3>3
      <4> HIDE DEF g
      <4> QED
        BY <3>1, <3>3, <4>1 DEF Entry
    <3> QED
      BY <1>1, <3>2, <3>3
  <2>3. Chain(g, m + 1)
    BY <2>2
  <2>4. m + 1 \in 0 .. N
    BY <1>1
  <2> QED
    BY <2>3, <2>4, Zenon
<1>5. N \in S
  <2> HIDE DEF S
  <2>1. 0 .. N \subseteq S
    BY <1>1, <1>3, <1>4, BoundedInduction
  <2> QED
    BY <1>1, <2>1
<1>6. PICK f : Chain(f, N) /\ RecomputeActivityCommitment(events) = f[N]
  BY <1>2, <1>5
<1>7. /\ f[0] = GenesisHash
      /\ \A n \in 1 .. N : f[n] = <<"link", f[n - 1], events[n]>>
  <2> HIDE DEF Chain
  <2>1. \A n \in 0 .. N : f[n] = Entry(f, n)
    BY <1>6, <1>8
  <2>2. 0 \in 0 .. N /\ \A n \in 1 .. N : n \in 0 .. N /\ n # 0
    BY <1>1
  <2>3. f[0] = Entry(f, 0) /\ \A n \in 1 .. N : f[n] = Entry(f, n)
    BY <2>1, <2>2
  <2> QED
    BY <2>2, <2>3, Zenon DEF Entry
<1> QED
  BY <1>6, <1>7 DEF N

\* Two trails of one length with one commitment are one trail.
LEMMA CommitmentIsInjective ==
  ASSUME NEW s \in Seq(Events), NEW t \in Seq(Events), Len(s) = Len(t),
         RecomputeActivityCommitment(s) = RecomputeActivityCommitment(t)
  PROVE  s = t
<1> DEFINE N == Len(s)
<1>1. PICK p : /\ RecomputeActivityCommitment(s) = p[N]
               /\ \A n \in 1 .. N : p[n] = <<"link", p[n - 1], s[n]>>
  BY CommitmentUnfolds
<1>2. PICK q : /\ RecomputeActivityCommitment(t) = q[N]
               /\ \A n \in 1 .. N : q[n] = <<"link", q[n - 1], t[n]>>
  <2>1. PICK f : /\ RecomputeActivityCommitment(t) = f[Len(t)]
                 /\ \A n \in 1 .. Len(t) : f[n] = <<"link", f[n - 1], t[n]>>
    BY CommitmentUnfolds
  <2> QED
    BY <2>1
<1>3. N \in Nat
  OBVIOUS
<1> DEFINE S == {m \in 0 .. N : p[N - m] = q[N - m]}
<1> HIDE DEF N
<1>4. 0 \in S
  <2>1. N - 0 = N /\ 0 \in 0 .. N
    BY <1>3
  <2> QED
    BY <1>1, <1>2, <2>1
<1>5. ASSUME NEW m \in 0 .. N - 1, m \in S PROVE m + 1 \in S
  <2>1. N - m \in 1 .. N /\ (N - m) - 1 = N - (m + 1) /\ m + 1 \in 0 .. N
    BY <1>3
  <2>2. p[N - m] = q[N - m]
    BY <1>5
  <2>3. p[(N - m) - 1] = q[(N - m) - 1]
    BY <1>1, <1>2, <2>1, <2>2
  <2> QED
    BY <2>1, <2>3
<1>6. \A n \in 1 .. N : p[n] = q[n]
  <2> HIDE DEF S
  <2>1. 0 .. N \subseteq S
    BY <1>3, <1>4, <1>5, BoundedInduction
  <2> QED
    <3> TAKE n \in 1 .. N
    <3>1. N - n \in S /\ N - (N - n) = n
      BY <1>3, <2>1
    <3> QED
      BY <3>1 DEF S
<1>7. \A n \in 1 .. N : s[n] = t[n]
  BY <1>1, <1>2, <1>6
<1> QED
  BY <1>7, SeqEqual DEF N

-----------------------------------------------------------------------------
(* The issuer and its authority.                                           *)

\* What is attested next is genuine.
LEMMA NextIsGenuine ==
  ASSUME IssueInv, NEW c \in Capsules, NEW time, NEW key
  PROVE  Genuine(Seal(Attestation(c, time), key), c, Len(issued[c]) + 1, issued)
<1> DEFINE a == Attestation(c, time)
           n == Len(issued[c])
<1>1. n \in Nat
  BY DEF IssueInv
<1>2. /\ DOMAIN a = Fields
      /\ a["attestation_index"] = n + 1
      /\ a["prev_attestation_hash"] =
           IF n = 0 THEN GenesisHash ELSE RecomputeCanonicalHash(issued[c][n])
      /\ a["activity_commitment"] = RecomputeActivityCommitment(Activity[c][n + 1])
      /\ a["activity_event_count"] = Len(Activity[c][n + 1])
  BY DEF Attestation, Fields
<1>3. {"attestation_index", "prev_attestation_hash", "activity_commitment", "activity_event_count"}
        \subseteq Fields \ Outside
  BY DEF Fields, Outside
<1> HIDE DEF a
<1>4. /\ DOMAIN Seal(a, key) = Fields
      /\ \A f \in Fields \ Outside : Seal(a, key)[f] = a[f]
      /\ Seal(a, key).signature.message = RecomputeCanonicalHash(Seal(a, key))
  BY <1>2, SealLemma
<1>5. (n + 1 = 1 <=> n = 0) /\ (n + 1) - 1 = n
  BY <1>1
<1> QED
  BY <1>2, <1>3, <1>4, <1>5 DEF Genuine, a

\* Attesting appends to what was attested.
LEMMA AttestStep ==
  ASSUME IssueInv, NEW c \in Capsules, Attest(c)
  PROVE  IssueInv'
<1>1. PICK lapse \in Lapses :
        /\ Len(issued[c]) < MaxIssued[c]
        /\ issued' = [issued EXCEPT ![c] =
                       Append(@, Seal(Attestation(c, clock'), <<"key of", CurrentVersion>>))]
        /\ UNCHANGED <<manifest, held>>
  BY DEF Attest, supply
<1> DEFINE d == Seal(Attestation(c, clock'), <<"key of", CurrentVersion>>)
           n == Len(issued[c])
<1>2. /\ DOMAIN issued = Capsules /\ n \in Nat /\ DOMAIN issued[c] = 1 .. n
      /\ MaxIssued[c] \in Nat
  BY ActivityAssumption DEF IssueInv
<1>3. Genuine(d, c, n + 1, issued)
  BY NextIsGenuine
<1> HIDE DEF d
<1>4. /\ DOMAIN issued' = Capsules
      /\ \A b \in Capsules : b # c => issued'[b] = issued[b]
      /\ issued'[c] = Append(issued[c], d)
  BY <1>1, <1>2 DEF d
<1>5. /\ Len(issued'[c]) = n + 1 /\ DOMAIN issued'[c] = 1 .. n + 1
      /\ \A m \in 1 .. n : issued'[c][m] = issued[c][m]
      /\ issued'[c][n + 1] = d
  BY <1>2, <1>4
<1>6. \A b \in Capsules : \A m \in DOMAIN issued[b] : issued'[b][m] = issued[b][m]
  BY <1>2, <1>4, <1>5
<1>7. ASSUME NEW b \in Capsules
      PROVE  /\ Len(issued'[b]) \in 0 .. MaxIssued[b]
             /\ DOMAIN issued'[b] = 1 .. Len(issued'[b])
             /\ \A m \in DOMAIN issued'[b] : Genuine(issued'[b][m], b, m, issued')
  <2>1. ASSUME NEW e, NEW m \in 1 .. Len(issued[b]) + 1, Genuine(e, b, m, issued)
        PROVE  Genuine(e, b, m, issued')
    <3>1. m # 1 => m - 1 \in DOMAIN issued[b]
      BY DEF IssueInv
    <3> QED
      BY <1>6, <2>1, <3>1 DEF Genuine
  <2>2. /\ Len(issued[b]) \in 0 .. MaxIssued[b] /\ DOMAIN issued[b] = 1 .. Len(issued[b])
        /\ \A m \in DOMAIN issued[b] : Genuine(issued[b][m], b, m, issued)
    BY DEF IssueInv
  <2>3. CASE b # c
    <3>1. issued'[b] = issued[b]
      BY <1>4, <2>3
    <3>2. \A m \in DOMAIN issued[b] : m \in 1 .. Len(issued[b]) + 1
      BY <2>2
    <3> QED
      BY <2>1, <2>2, <3>1, <3>2
  <2>4. CASE b = c
    <3>1. \A m \in 1 .. n : Genuine(issued'[c][m], c, m, issued')
      BY <1>2, <1>5, <2>1, <2>2, <2>4
    <3>2. Genuine(issued'[c][n + 1], c, n + 1, issued')
      BY <1>2, <1>3, <1>5, <2>1, <2>4
    <3>3. n + 1 \in 0 .. MaxIssued[c]
      <4>1. n < MaxIssued[c]
        BY <1>1
      <4> QED
        BY <1>2, <4>1
    <3> QED
      BY <1>2, <1>5, <2>4, <3>1, <3>2, <3>3
  <2> QED
    BY <2>3, <2>4
<1> QED
  BY <1>1, <1>4, <1>7 DEF IssueInv

\* Two lists of own keys are one.
LEMMA OwnKeysJoin ==
  ASSUME NEW s, NEW t, OwnKeys(s), OwnKeys(t)
  PROVE  OwnKeys(s \o t)
<1>1. IsList(s) /\ IsList(t)
  BY DEF OwnKeys
<1>2. IsList(s \o t)
  BY <1>1 DEF IsList
<1>3. ASSUME NEW i \in DOMAIN (s \o t)
      PROVE  \E v \in DOMAIN Versions : (s \o t)[i].public_key = <<"key of", Versions[v]>>
  <2>1. CASE i <= Len(s)
    <3>1. i \in DOMAIN s /\ (s \o t)[i] = s[i]
      BY <1>1, <2>1 DEF IsList
    <3> QED
      BY <3>1 DEF OwnKeys
  <2>2. CASE ~(i <= Len(s))
    <3>1. i - Len(s) \in DOMAIN t /\ (s \o t)[i] = t[i - Len(s)]
      BY <1>1, <2>2 DEF IsList
    <3> QED
      BY <3>1 DEF OwnKeys
  <2> QED
    BY <2>1, <2>2
<1> QED
  BY <1>2, <1>3 DEF OwnKeys

\* The one new key is own too.
LEMMA OwnKeysOne ==
  ASSUME NEW v \in DOMAIN Versions
  PROVE  OwnKeys(<<KeyVersionRecord(Versions[v], <<"key of", Versions[v]>>)>>)
<1> DEFINE r == KeyVersionRecord(Versions[v], <<"key of", Versions[v]>>)
<1>1. r.public_key = <<"key of", Versions[v]>>
  BY DEF KeyVersionRecord
<1> HIDE DEF r
<1>2. IsList(<<r>>) /\ DOMAIN <<r>> = {1} /\ <<r>>[1] = r
  BY DEF IsList
<1> QED
  BY <1>1, <1>2, Zenon DEF OwnKeys, r

\* A rotation publishes one more key of the authority's own, and forgets none.
LEMMA RotateStep ==
  ASSUME IssueInv, NEW i \in DOMAIN Versions, Rotate(i)
  PROVE  Proper(manifest')
<1> DEFINE old == manifest[DefaultAuthority]
           one == <<KeyVersionRecord(Versions[i + 1], <<"key of", Versions[i + 1]>>)>>
           all == old.archived_versions \o old.active_versions
           new == AuthorityRecord(one, all, old.revoked)
<1>1. /\ DOMAIN manifest = {DefaultAuthority}
      /\ OwnKeys(old.active_versions) /\ OwnKeys(old.archived_versions)
  BY DEF IssueInv, Proper
<1>2. manifest' = [manifest EXCEPT ![DefaultAuthority] = new]
  BY Zenon DEF Rotate, Authority
<1>3. i + 1 \in DOMAIN Versions
  <2>1. i \in 1 .. Len(Versions) - 1
    BY Zenon DEF Rotate
  <2> HIDE DEF one, all
  <2> QED
    BY <2>1, VersionsAssumption
<1>4. OwnKeys(one) /\ OwnKeys(all)
  BY <1>1, <1>3, OwnKeysOne, OwnKeysJoin, Zenon
<1> HIDE DEF one, all
<1>5. manifest' = [a \in {DefaultAuthority} |-> new]
  BY <1>1, <1>2
<1> QED
  BY <1>4, <1>5 DEF Proper, AuthorityRecord

\* The issuer's side is preserved; the reader only copies the manifest.
LEMMA IssueStep ==
  ASSUME Inv, [Next]_vars
  PROVE  IssueInv'
<1>1. IssueInv
  BY DEF Inv
<1>2. CASE \E c \in Capsules : Attest(c)
  BY <1>1, <1>2, AttestStep
<1>3. CASE \E i \in DOMAIN Versions : Rotate(i)
  <2>1. Proper(manifest')
    BY <1>1, <1>3, RotateStep
  <2>2. UNCHANGED <<issued, held>>
    BY <1>3, Zenon DEF Rotate, supply
  <2> QED
    BY <1>1, <2>1, <2>2 DEF IssueInv
<1>4. CASE Revoke
  <2>1. Proper(manifest')
    BY <1>1, <1>4 DEF Revoke, IssueInv, Proper, AuthorityRecord
  <2> QED
    BY <1>1, <1>4, <2>1 DEF Revoke, IssueInv, supply
<1>5. CASE FetchManifest
  BY <1>1, <1>5 DEF FetchManifest, IssueInv, world
<1>6. CASE UNCHANGED <<issued, manifest, held>>
  BY <1>1, <1>6 DEF IssueInv
<1>7. \/ \E c \in Capsules : Attest(c)
      \/ \E i \in DOMAIN Versions : Rotate(i)
      \/ Revoke
      \/ FetchManifest
      \/ UNCHANGED <<issued, manifest, held>>
  BY DEF Next, Issuing, Supplying, Walking, Collect, Take, Edit, Relink, Change, Submit,
         VerifyDocument, BeginLinkage, Link, Conclude, FailChain, Disclose, vars, world, supply
<1> QED
  BY <1>2, <1>3, <1>4, <1>5, <1>6, <1>7

-----------------------------------------------------------------------------
(* The supply.                                                             *)

\* A document that is altered and sealed again is still of somebody's making.
LEMMA ChangeStep ==
  ASSUME SupplyInv, NEW i \in DOMAIN docs, NEW d, Sound(d, issued), Change(i, d),
         UNCHANGED issued, phase # "issue"
  PROVE  SupplyInv'
<1>1. PICK seal \in Seals : docs' = [docs EXCEPT ![i] = Closed(d, seal)]
  BY Zenon DEF Change
<1>2. Sound(Closed(d, seal), issued)
  BY ClosedIsSound
<1>3. IsList(docs') /\ DOMAIN docs' = DOMAIN docs
  BY <1>1 DEF SupplyInv, IsList
<1>4. \A k \in DOMAIN docs' : Sound(docs'[k], issued')
  BY <1>1, <1>2, <1>3 DEF SupplyInv
<1>5. phase' = phase
  BY DEF Change
<1> QED
  BY <1>3, <1>4, <1>5 DEF SupplyInv

\* A document that is taken is one the authority has issued.
LEMMA TakeStep ==
  ASSUME IssueInv, SupplyInv, NEW c \in Capsules, NEW n \in DOMAIN issued[c], Take(c, n),
         phase # "issue"
  PROVE  SupplyInv'
<1>1. Genuine(issued[c][n], c, n, issued) /\ n \in Nat
  BY DEF IssueInv
<1>2. Sound(issued[c][n], issued)
  BY <1>1 DEF Genuine, Sound, Made
<1>3. docs' = Append(docs, issued[c][n]) /\ UNCHANGED <<phase, issued>>
  BY DEF Take, world
<1>4. /\ IsList(docs')
      /\ \A k \in DOMAIN docs' : (k \in DOMAIN docs /\ docs'[k] = docs[k]) \/ docs'[k] = issued[c][n]
  BY <1>3 DEF SupplyInv, IsList
<1> QED
  BY <1>2, <1>3, <1>4 DEF SupplyInv

\* Whatever is done to the documents on their way, they stay sound.
LEMMA SupplyStep ==
  ASSUME Inv, [Next]_vars
  PROVE  SupplyInv'
<1> USE DEF Inv
<1>1. CASE phase = "issue" /\ Issuing
  <2>1. docs' = docs /\ docs = <<>>
    BY <1>1 DEF SupplyInv, Issuing, Attest, Rotate, Revoke, FetchManifest, Collect, supply
  <2> QED
    BY <2>1 DEF SupplyInv, IsList
<1>2. CASE phase = "supply" /\ \E c \in Capsules : \E n \in DOMAIN issued[c] : Take(c, n)
  BY <1>2, TakeStep
<1>3. ASSUME phase = "supply", NEW i \in DOMAIN docs, NEW e \in Edits, Edit(i, e)
      PROVE  SupplyInv'
  <2>1. Sound([docs[i] EXCEPT ![e.field] = e.value], issued)
    <3>1. /\ e.field = "signature" => e.value = NoValue
          /\ e.field = "attestation_index" => e.value \in Nat \cup {NoValue}
      BY EditsAssumption
    <3>2. Sound(docs[i], issued)
      BY DEF SupplyInv
    <3> QED
      BY <3>1, <3>2, RewrittenIsSound
  <2> QED
    BY <1>3, <2>1, ChangeStep DEF Edit, Change, world
<1>4. ASSUME phase = "supply", NEW i \in DOMAIN docs, NEW j \in DOMAIN docs, Relink(i, j)
      PROVE  SupplyInv'
  <2> DEFINE d == [docs[i] EXCEPT !.prev_attestation_hash = RecomputeCanonicalHash(docs[j])]
  <2>1. Sound(d, issued)
    BY RewrittenIsSound DEF SupplyInv
  <2>2. Change(i, d)
    BY <1>4 DEF Relink
  <2> HIDE DEF d
  <2> QED
    BY <1>4, <2>1, <2>2, ChangeStep DEF Change, world
<1>5. CASE UNCHANGED <<docs, issued>> /\ phase' # "issue"
  BY <1>5 DEF SupplyInv
<1>6. CASE UNCHANGED <<docs, issued, phase>>
  BY <1>6 DEF SupplyInv
<1>7. CASE phase = "supply" /\ Submit
  BY <1>5, <1>7 DEF Submit, world, supply
<1>8. CASE Walking
  BY <1>5, <1>6, <1>8 DEF Walking, VerifyDocument, BeginLinkage, Link, Conclude, FailChain,
                          world, supply
<1>9. CASE \E k \in DOMAIN ordered, events \in Disclosures : Disclose(k, events)
  BY <1>6, <1>9 DEF Disclose, world, supply
<1>10. CASE UNCHANGED vars
  BY <1>6, <1>10 DEF vars, world, supply
<1> QED
  BY <1>1, <1>2, <1>3, <1>4, <1>7, <1>8, <1>9, <1>10 DEF Next, Supplying

-----------------------------------------------------------------------------
(* The walk.                                                               *)

\* Before the walk nothing is in order yet, and while the issuer is at work
\* the walk has not begun.
LEMMA BeforeTheWalk ==
  ASSUME Inv, phase \in {"issue", "supply"},
         UNCHANGED <<walk, disclosed>>, phase' \in {"issue", "supply"}
  PROVE  OrderInv' /\ WalkInv'
BY DEF Inv, OrderInv, WalkInv, walk, IsList

\* The documents in order are the documents supplied.
LEMMA SubmitStep ==
  ASSUME Inv, phase = "supply", Submit
  PROVE  OrderInv' /\ WalkInv'
<1>1. /\ phase' = "documents"
      /\ ordered' = [k \in DOMAIN docs |-> docs[CHOOSE i \in DOMAIN docs : Rank(i) = k]]
      /\ UNCHANGED <<issued, held, docs, at, per_document, all_signatures_checked,
                     genesis_anchored, result, disclosed>>
  BY DEF Submit, world, supply
<1>2. /\ ordered = <<>> /\ per_document = <<>> /\ at = 0
      /\ all_signatures_checked /\ ~genesis_anchored /\ result = NoValue /\ disclosed = NoValue
  BY DEF Inv, OrderInv, WalkInv, IsList
<1>3. IsList(docs)
  BY DEF Inv, SupplyInv
<1>4. IsList(ordered') /\ Len(ordered') = Len(docs) /\ DOMAIN ordered' = DOMAIN docs
  BY <1>1, <1>3 DEF IsList
<1>5. ASSUME NEW k \in DOMAIN docs PROVE Sound(ordered'[k], issued')
  <2>1. (CHOOSE i \in DOMAIN docs : Rank(i) = k) \in DOMAIN docs
    BY RankIsOnto DEF Inv
  <2> QED
    BY <1>1, <2>1 DEF Inv, SupplyInv
<1>6. IsList(per_document') /\ Len(per_document') = 0 /\ DOMAIN per_document' = {} /\ at' = 0
  BY <1>1, <1>2 DEF IsList
<1>7. OrderInv'
  BY <1>1, <1>4, <1>5, <1>6 DEF OrderInv, IsList
<1>8. WalkInv'
  BY <1>1, <1>2, <1>6 DEF WalkInv, VerifiedUpTo
<1> QED
  BY <1>7, <1>8

\* Nothing the walk looks at changes but its own state.
LEMMA WalkReads ==
  ASSUME Inv, Walking \/ \E k \in DOMAIN ordered, events \in Disclosures : Disclose(k, events)
  PROVE  UNCHANGED <<issued, held, docs, ordered>>
BY DEF Walking, VerifyDocument, BeginLinkage, Link, Conclude, FailChain, Disclose, world, supply, walk

\* A document's result is recorded at its place, of the key it names.
LEMMA VerifyDocumentStep ==
  ASSUME Inv, phase = "documents", VerifyDocument
  PROVE  OrderInv' /\ WalkInv'
<1> DEFINE verdict == VerifyBoundaryAttestation(ordered[at + 1], held)
<1>1. UNCHANGED <<issued, held, docs, ordered>>
  BY WalkReads DEF Walking
<1>2. /\ IsList(ordered) /\ IsList(per_document) /\ at \in Nat /\ Len(per_document) = at
      /\ Len(ordered) = Len(docs)
      /\ all_signatures_checked => \A k \in 1 .. at : per_document[k].signature_checked
      /\ ~genesis_anchored /\ result = NoValue /\ disclosed = NoValue
  BY DEF Inv, OrderInv, WalkInv, VerifiedUpTo, IsList
<1>3. /\ at < Len(ordered)
      /\ per_document' = Append(per_document, verdict)
      /\ \/ /\ phase' = "done" /\ ~result'.valid
            /\ UNCHANGED <<at, all_signatures_checked, genesis_anchored, disclosed>>
         \/ /\ at' = at + 1
            /\ all_signatures_checked' = (all_signatures_checked /\ verdict.signature_checked)
            /\ UNCHANGED <<phase, genesis_anchored, result, disclosed>>
  BY DEF VerifyDocument, FailChain
<1> HIDE DEF verdict
<1>4. /\ IsList(per_document') /\ Len(per_document') = at + 1
      /\ \A k \in 1 .. at : per_document'[k] = per_document[k]
      /\ per_document'[at + 1] = verdict
  BY <1>2, <1>3 DEF IsList
<1>5. \A k \in DOMAIN per_document' :
        per_document'[k] = VerifyBoundaryAttestation(ordered'[k], held')
  BY <1>1, <1>2, <1>4 DEF Inv, OrderInv, IsList, verdict
<1>6. OrderInv'
  <2>1. Len(per_document') <= Len(ordered') /\ at' \in 0 .. Len(ordered')
    BY <1>1, <1>2, <1>3, <1>4 DEF IsList
  <2>2. \A k \in DOMAIN ordered' : Sound(ordered'[k], issued')
    BY <1>1 DEF Inv, OrderInv
  <2> QED
    BY <1>1, <1>2, <1>4, <1>5, <2>1, <2>2 DEF OrderInv
<1>7. CASE phase' = "done" /\ ~result'.valid /\ disclosed' = disclosed
  <2>1. per_document' # <<>>
    BY <1>2, <1>4
  <2> QED
    BY <1>2, <1>6, <1>7, <2>1 DEF WalkInv, ResultInv
<1>8. CASE /\ at' = at + 1
           /\ all_signatures_checked' = (all_signatures_checked /\ verdict.signature_checked)
           /\ UNCHANGED <<phase, genesis_anchored, result, disclosed>>
  <2>1. ASSUME all_signatures_checked', NEW k \in 1 .. at + 1
        PROVE  per_document'[k].signature_checked
    <3>1. all_signatures_checked /\ verdict.signature_checked
      BY <1>8, <2>1
    <3>2. CASE k = at + 1
      BY <1>4, <3>1, <3>2
    <3>3. CASE k \in 1 .. at
      BY <1>2, <1>4, <3>1, <3>3
    <3> QED
      BY <1>2, <3>2, <3>3
  <2>2. VerifiedUpTo(at)'
    BY <1>4, <1>8, <2>1 DEF VerifiedUpTo
  <2> QED
    BY <1>2, <1>6, <1>8, <2>2 DEF WalkInv
<1> QED
  BY <1>3, <1>6, <1>7, <1>8

\* The walk starts where nothing has been linked.
LEMMA BeginLinkageStep ==
  ASSUME Inv, phase = "documents", BeginLinkage
  PROVE  OrderInv' /\ WalkInv'
<1>1. /\ at = Len(ordered) /\ at' = 0 /\ phase' = "linkage"
      /\ UNCHANGED <<issued, held, docs, ordered, per_document, all_signatures_checked,
                     genesis_anchored, result, disclosed>>
  BY DEF BeginLinkage, world, supply
<1>2. OrderInv'
  BY <1>1 DEF Inv, OrderInv, IsList
<1>3. WalkInv'
  BY <1>1 DEF Inv, WalkInv, VerifiedUpTo, LinkedUpTo
<1> QED
  BY <1>2, <1>3

\* A document that passes the linkage continues the chain of the attestations
\* before it.
LEMMA LinkContinues ==
  ASSUME Inv, LinkedUpTo(at), at < Len(ordered), LinkFailure(at + 1) = NoValue,
         NEW c \in Capsules, NEW m \in DOMAIN issued[c], IsAttestation(ordered[at + 1], c, m)
  PROVE  /\ at + 1 <= m
         /\ \A j \in 1 .. at + 1 : IsAttestation(ordered[j], c, m - (at + 1) + j)
<1>1. /\ at \in Nat /\ at + 1 \in DOMAIN ordered /\ Len(ordered) \in Nat
      /\ DOMAIN ordered = 1 .. Len(ordered)
      /\ Len(issued[c]) \in Nat /\ DOMAIN issued[c] = 1 .. Len(issued[c]) /\ m \in Nat /\ m >= 1
  <2>1. Len(issued[c]) \in Nat /\ DOMAIN issued[c] = 1 .. Len(issued[c])
    BY ActivityAssumption DEF Inv, IssueInv
  <2> QED
    BY <2>1 DEF Inv, OrderInv, IsList
<1>2. CASE at = 0
  BY <1>1, <1>2
<1>3. CASE at # 0
  <2>1. /\ DOMAIN ordered[at + 1] = Fields /\ DOMAIN ordered[at] = Fields
        /\ Genuine(issued[c][m], c, m, issued)
    BY <1>1, <1>3 DEF Inv, OrderInv, Sound, IssueInv
  <2>2. ordered[at + 1].prev_attestation_hash = RecomputeCanonicalHash(ordered[at])
    BY <1>1, <1>3, LinkNamesThePrevious
  <2>3. ordered[at + 1].prev_attestation_hash = issued[c][m].prev_attestation_hash
    <3>1. View(ordered[at + 1]) = View(issued[c][m]) /\ DOMAIN issued[c][m] = Fields
      BY <2>1 DEF IsAttestation, Genuine
    <3>2. "prev_attestation_hash" \in Fields \ Outside
      BY DEF Fields, Outside
    <3> QED
      BY <2>1, <3>1, <3>2, ViewLemma
  <2>4. m # 1 /\ RecomputeCanonicalHash(ordered[at]) = RecomputeCanonicalHash(issued[c][m - 1])
    <3>1. RecomputeCanonicalHash(ordered[at]) # GenesisHash
      BY <2>1, ViewLemma
    <3>2. RecomputeCanonicalHash(ordered[at]) =
            IF m = 1 THEN GenesisHash ELSE RecomputeCanonicalHash(issued[c][m - 1])
      BY <2>1, <2>2, <2>3, Zenon DEF Genuine
    <3> QED
      BY <3>1, <3>2
  <2>5. m - 1 \in DOMAIN issued[c]
    BY <1>1, <2>4
  <2>6. IsAttestation(ordered[at], c, m - 1)
    <3>1. DOMAIN issued[c][m - 1] = Fields
      BY <2>5 DEF Inv, IssueInv, Genuine
    <3> QED
      BY <2>1, <2>4, <2>5, <3>1, ViewLemma DEF IsAttestation
  <2>7. /\ at <= m - 1
        /\ \A j \in 1 .. at : IsAttestation(ordered[j], c, (m - 1) - at + j)
    <3>1. LinkedUpTo(at) /\ at \in 1 .. at
      BY <1>1, <1>3
    <3> QED
      BY <2>5, <2>6, <3>1 DEF LinkedUpTo
  <2>8. ASSUME NEW j \in 1 .. at + 1
        PROVE  IsAttestation(ordered[j], c, m - (at + 1) + j)
    <3>1. CASE j = at + 1
      <4>1. m - (at + 1) + j = m
        BY <1>1, <3>1
      <4> QED
        BY <3>1, <4>1
    <3>2. CASE j \in 1 .. at
      <4>1. m - (at + 1) + j = (m - 1) - at + j
        BY <1>1, <3>2
      <4> QED
        BY <2>7, <3>2, <4>1
    <3> QED
      BY <1>1, <3>1, <3>2
  <2> QED
    BY <1>1, <2>7, <2>8
<1> QED
  BY <1>2, <1>3

\* What is said of the chain is about the documents, the attestations and what
\* the loops have accumulated.
LEMMA LinkedIsKept ==
  ASSUME LinkedUpTo(Len(ordered)), UNCHANGED <<issued, ordered, genesis_anchored>>
  PROVE  LinkedUpTo(Len(ordered))'
<1>1. PICK n : n = Len(ordered)
  OBVIOUS
<1>2. \A k \in 1 .. n, c \in Capsules : \A m \in DOMAIN issued[c] :
        m \in DOMAIN issued[c] /\ View(ordered[k]) = View(issued[c][m]) =>
          /\ k <= m
          /\ \A j \in 1 .. k : /\ m - k + j \in DOMAIN issued[c]
                               /\ View(ordered[j]) = View(issued[c][m - k + j])
  BY <1>1 DEF LinkedUpTo, IsAttestation
<1>3. genesis_anchored <=> n > 0 /\ ordered[1].attestation_index = 1
  BY <1>1 DEF LinkedUpTo
<1>4. n = Len(ordered')
  BY <1>1
<1> HIDE <1>1
<1> QED
  BY <1>2, <1>3, <1>4 DEF LinkedUpTo, IsAttestation

\* A link that holds extends what is linked by one document.
LEMMA LinkStep ==
  ASSUME Inv, phase = "linkage", Link
  PROVE  OrderInv' /\ WalkInv'
<1>1. UNCHANGED <<issued, held, docs, ordered>>
  BY WalkReads DEF Walking
<1>2. /\ IsList(ordered) /\ at \in Nat /\ VerifiedUpTo(Len(ordered)) /\ LinkedUpTo(at)
      /\ result = NoValue /\ disclosed = NoValue
  BY DEF Inv, OrderInv, WalkInv
<1>3. /\ at < Len(ordered)
      /\ UNCHANGED <<per_document, all_signatures_checked>>
      /\ \/ /\ phase' = "done" /\ ~result'.valid
            /\ UNCHANGED <<at, genesis_anchored, disclosed>>
         \/ /\ LinkFailure(at + 1) = NoValue
            /\ at' = at + 1
            /\ genesis_anchored' = (genesis_anchored \/ (at = 0 /\ ordered[1].attestation_index = 1))
            /\ UNCHANGED <<phase, result, disclosed>>
  BY DEF Link, FailChain
<1>4. OrderInv'
  BY <1>1, <1>2, <1>3 DEF Inv, OrderInv, IsList
<1>5. CASE phase' = "done" /\ ~result'.valid /\ disclosed' = disclosed
  <2>1. per_document' # <<>>
    BY <1>2, <1>3 DEF VerifiedUpTo, IsList
  <2> QED
    BY <1>2, <1>4, <1>5, <2>1 DEF WalkInv, ResultInv
<1>6. CASE /\ LinkFailure(at + 1) = NoValue
           /\ at' = at + 1
           /\ genesis_anchored' = (genesis_anchored \/ (at = 0 /\ ordered[1].attestation_index = 1))
           /\ UNCHANGED <<phase, result, disclosed>>
  <2>1. \A k \in 1 .. at + 1, c \in Capsules : \A m \in DOMAIN issued[c] :
          IsAttestation(ordered[k], c, m) =>
            /\ k <= m
            /\ \A j \in 1 .. k : IsAttestation(ordered[j], c, m - k + j)
    <3> TAKE k \in 1 .. at + 1, c \in Capsules
    <3> TAKE m \in DOMAIN issued[c]
    <3> HAVE IsAttestation(ordered[k], c, m)
    <3>1. CASE k = at + 1
      BY <1>2, <1>3, <1>6, <3>1, LinkContinues
    <3>2. CASE k \in 1 .. at
      BY <1>2, <3>2 DEF LinkedUpTo
    <3> QED
      BY <1>2, <3>1, <3>2
  <2>2. genesis_anchored' <=> at + 1 > 0 /\ ordered[1].attestation_index = 1
    <3>1. at + 1 > 0 /\ (at > 0 <=> at # 0)
      BY <1>2
    <3>2. genesis_anchored <=> at > 0 /\ ordered[1].attestation_index = 1
      BY <1>2 DEF LinkedUpTo
    <3>3. genesis_anchored' = (genesis_anchored \/ (at = 0 /\ ordered[1].attestation_index = 1))
      BY <1>6
    <3> QED
      BY <3>1, <3>2, <3>3, Zenon
  <2>3. LinkedUpTo(at)'
    BY <1>1, <1>6, <2>1, <2>2 DEF LinkedUpTo, IsAttestation
  <2>4. VerifiedUpTo(Len(ordered))'
    BY <1>1, <1>2, <1>3 DEF VerifiedUpTo
  <2> QED
    BY <1>2, <1>4, <1>6, <2>3, <2>4 DEF WalkInv
<1> QED
  BY <1>3, <1>5, <1>6

\* The result of the walk is of the documents as they were linked.
LEMMA ConcludeStep ==
  ASSUME Inv, phase = "linkage", Conclude
  PROVE  OrderInv' /\ WalkInv'
<1>1. /\ at = Len(ordered) /\ phase' = "done"
      /\ result'.all_signatures_checked = all_signatures_checked
      /\ result'.genesis_anchored = genesis_anchored
      /\ result'.chain_span = Span
      /\ UNCHANGED <<issued, held, docs, ordered, at, per_document, all_signatures_checked,
                     genesis_anchored, disclosed>>
  BY DEF Conclude, world, supply
<1>2. OrderInv'
  BY <1>1 DEF Inv, OrderInv, IsList
<1>3. /\ VerifiedUpTo(Len(ordered)) /\ LinkedUpTo(Len(ordered))
      /\ disclosed = NoValue /\ IsList(ordered) /\ IsList(per_document)
  BY <1>1 DEF Inv, WalkInv, OrderInv
<1>4. ResultInv'
  <2>1. VerifiedUpTo(Len(ordered))' /\ LinkedUpTo(Len(ordered))'
    BY <1>1, <1>3, LinkedIsKept DEF VerifiedUpTo
  <2> QED
    BY <1>1, <2>1 DEF ResultInv, Span
<1>5. ordered' # <<>> => per_document' # <<>>
  BY <1>1, <1>3 DEF VerifiedUpTo, IsList
<1> QED
  BY <1>1, <1>2, <1>3, <1>4, <1>5 DEF WalkInv

\* A disclosed trail is judged against the manifest held.
LEMMA DiscloseStep ==
  ASSUME Inv, phase = "done", NEW k \in DOMAIN ordered, NEW events \in Disclosures,
         Disclose(k, events)
  PROVE  OrderInv' /\ WalkInv'
<1>1. /\ Len(ordered) = 1
      /\ disclosed'.k = k /\ disclosed'.events = events
      /\ disclosed'.failure = VerifyDisclosedActivityTrail(ordered[k], events)
      /\ UNCHANGED <<phase, issued, held, docs, ordered, at, per_document,
                     all_signatures_checked, genesis_anchored, result>>
  BY DEF Disclose, world, supply, walk
<1>2. OrderInv'
  BY <1>1 DEF Inv, OrderInv, IsList
<1>3. DisclosedInv'
  BY <1>1, DisclosuresAssumption DEF DisclosedInv
<1>4. ResultInv /\ (ordered # <<>> => per_document # <<>>)
  BY DEF Inv, WalkInv
<1>5. ResultInv'
  BY <1>1, <1>4, LinkedIsKept DEF ResultInv, VerifiedUpTo, Span
<1> QED
  BY <1>1, <1>2, <1>3, <1>4, <1>5 DEF WalkInv

\* A step that changes nothing keeps the invariant.
LEMMA Stutter ==
  ASSUME Inv, UNCHANGED vars
  PROVE  OrderInv' /\ WalkInv'
<1>1. UNCHANGED <<phase, issued, held, docs, ordered, at, per_document, all_signatures_checked,
                  genesis_anchored, result, disclosed>>
  BY DEF vars, world, supply, walk
<1>2. OrderInv'
  BY <1>1 DEF Inv, OrderInv, IsList
<1>3. WalkInv'
  BY <1>1 DEF Inv, WalkInv, ResultInv, DisclosedInv, VerifiedUpTo, LinkedUpTo, IsAttestation, Span
<1> QED
  BY <1>2, <1>3

\* The walk keeps the invariant, step by step.
LEMMA WalkStep ==
  ASSUME Inv, [Next]_vars
  PROVE  OrderInv' /\ WalkInv'
<1>1. CASE phase = "issue" /\ Issuing
  BY <1>1, BeforeTheWalk DEF Issuing, Attest, Rotate, Revoke, FetchManifest, Collect
<1>2. CASE phase = "supply" /\ Supplying /\ ~Submit
  BY <1>2, BeforeTheWalk DEF Supplying, Take, Edit, Relink, Change
<1>3. CASE phase = "supply" /\ Submit
  BY <1>3, SubmitStep
<1>4. CASE Walking
  BY <1>4, VerifyDocumentStep, BeginLinkageStep, LinkStep, ConcludeStep DEF Walking
<1>5. CASE phase = "done" /\ \E k \in DOMAIN ordered, events \in Disclosures : Disclose(k, events)
  BY <1>5, DiscloseStep
<1>6. CASE UNCHANGED vars
  BY <1>6, Stutter
<1> QED
  BY <1>1, <1>2, <1>3, <1>4, <1>5, <1>6 DEF Next

-----------------------------------------------------------------------------
(* What the invariant says.                                                *)

\* A document that reads as attestation m bears its number and its trail.
LEMMA ReadsAsAttestation ==
  ASSUME Inv, NEW k \in DOMAIN ordered, NEW c \in Capsules, NEW m, IsAttestation(ordered[k], c, m)
  PROVE  /\ m \in 1 .. MaxIssued[c] /\ m \in DOMAIN issued[c]
         /\ ordered[k].attestation_index = m
         /\ ordered[k].activity_commitment = RecomputeActivityCommitment(Activity[c][m])
         /\ ordered[k].activity_event_count = Len(Activity[c][m])
<1>1. /\ m \in DOMAIN issued[c] /\ Genuine(issued[c][m], c, m, issued)
      /\ Len(issued[c]) \in 0 .. MaxIssued[c] /\ DOMAIN issued[c] = 1 .. Len(issued[c])
      /\ DOMAIN ordered[k] = Fields
  BY DEF Inv, IssueInv, OrderInv, Sound, IsAttestation
<1>2. \A f \in Fields \ Outside : ordered[k][f] = issued[c][m][f]
  BY <1>1, ViewLemma DEF Genuine, IsAttestation
<1>3. {"attestation_index", "activity_commitment", "activity_event_count"} \subseteq Fields \ Outside
  BY DEF Fields, Outside
<1>4. m \in 1 .. MaxIssued[c]
  BY <1>1, ActivityAssumption
<1> QED
  BY <1>1, <1>2, <1>3, <1>4 DEF Genuine

\* LinkPinsThePast: an anchored document reads as an attestation, and LinkedUpTo
\* tells what is in front of it.
LEMMA PinsThePast ==
  ASSUME Inv
  PROVE  LinkPinsThePast
<1> SUFFICES ASSUME result # NoValue, result.valid,
                    NEW k \in DOMAIN ordered, per_document[k].trust_anchored
             PROVE  LET lo == result.chain_span[1]
                    IN  /\ result.genesis_anchored <=> lo = 1
                        /\ \E c \in Capsules : \A j \in 1 .. k : IsAttestation(ordered[j], c, lo + j - 1)
  BY DEF LinkPinsThePast
<1> DEFINE lo == ordered[1].attestation_index
<1>1. /\ VerifiedUpTo(Len(ordered)) /\ LinkedUpTo(Len(ordered))
      /\ result.genesis_anchored = genesis_anchored
      /\ result.chain_span = Span
  BY DEF Inv, WalkInv, ResultInv
<1>2. /\ Len(ordered) \in Nat /\ DOMAIN ordered = 1 .. Len(ordered)
      /\ DOMAIN per_document = 1 .. Len(ordered)
      /\ k \in Nat /\ 1 <= k /\ k <= Len(ordered) /\ Len(ordered) > 0
  BY <1>1 DEF Inv, OrderInv, VerifiedUpTo, IsList
<1>3. result.chain_span[1] = lo
  <2>1. ordered # <<>>
    BY <1>2, EmptyIsList
  <2> QED
    BY <1>1, <2>1 DEF Span
<1>4. result.genesis_anchored <=> lo = 1
  BY <1>1, <1>2 DEF LinkedUpTo
<1>5. PICK c \in Capsules : \E m \in DOMAIN issued[c] : IsAttestation(ordered[k], c, m)
  BY <1>2, AnchoredIsAttestation DEF Inv, OrderInv
<1>6. PICK m \in DOMAIN issued[c] : IsAttestation(ordered[k], c, m)
  BY <1>5
<1>7. k <= m /\ \A j \in 1 .. k : IsAttestation(ordered[j], c, m - k + j)
  BY <1>1, <1>2, <1>6 DEF LinkedUpTo
<1>8. m \in Nat /\ lo = m - k + 1
  <2>1. 1 \in 1 .. k /\ 1 \in DOMAIN ordered
    BY <1>2
  <2>2. m \in 1 .. MaxIssued[c] /\ lo = m - k + 1
    BY <1>6, <1>7, <2>1, ReadsAsAttestation
  <2> QED
    BY <2>2, ActivityAssumption
<1>9. \A j \in 1 .. k : IsAttestation(ordered[j], c, lo + j - 1)
  <2> TAKE j \in 1 .. k
  <2>1. lo + j - 1 = m - k + j
    BY <1>2, <1>8
  <2> QED
    BY <1>7, <2>1
<1> QED
  BY <1>3, <1>4, <1>9

\* ExitZeroIsEarned: a single document is anchored itself; of several the last
\* one is, and it pins the others.
LEMMA ZeroIsEarned ==
  ASSUME Inv
  PROVE  ExitZeroIsEarned
<1> SUFFICES ASSUME result # NoValue, docs # <<>>, BoundaryVerify = 0, held # NoValue
             PROVE  /\ ~held[DefaultAuthority].revoked
                    /\ \E c \in Capsules : \E lo \in DOMAIN issued[c] :
                         \A j \in DOMAIN ordered : IsAttestation(ordered[j], c, lo + j - 1)
  BY DEF ExitZeroIsEarned
<1> DEFINE N == Len(ordered)
<1>1. phase = "done" /\ ResultInv /\ (ordered # <<>> => per_document # <<>>)
  BY DEF Inv, WalkInv
<1>2. /\ N = Len(docs) /\ N \in Nat /\ N # 0 /\ DOMAIN ordered = 1 .. N /\ N \in DOMAIN ordered
      /\ IsList(per_document)
  <2>1. N = Len(docs) /\ IsList(ordered) /\ IsList(per_document)
    BY <1>1 DEF Inv, OrderInv
  <2>2. Len(docs) # 0
    BY DEF Inv, SupplyInv, IsList
  <2> QED
    BY <2>1, <2>2 DEF IsList
<1>3. ordered # <<>> /\ per_document # <<>> /\ 1 \in DOMAIN per_document
  <2>1. ordered # <<>> /\ per_document # <<>>
    BY <1>1, <1>2, EmptyIsList
  <2> QED
    BY <1>2, <2>1 DEF IsList
<1>4. ASSUME NEW k \in DOMAIN per_document, k \in DOMAIN ordered, per_document[k].signature_checked
      PROVE  /\ ~held[DefaultAuthority].revoked
             /\ \E c \in Capsules : \E m \in DOMAIN issued[c] : IsAttestation(ordered[k], c, m)
  <2>1. per_document[k] = VerifyBoundaryAttestation(ordered[k], held) /\ Sound(ordered[k], issued)
    BY <1>4 DEF Inv, OrderInv
  <2>2. VerifyBoundaryAttestation(ordered[k], held).trust_anchored
    BY <1>4, <2>1, CheckedIsAnchored
  <2> QED
    BY <2>1, <2>2, AnchoredIsAttestation DEF Inv
<1>5. CASE N = 1
  <2>1. per_document[1].signature_checked
    BY <1>2, <1>5 DEF BoundaryVerify, ExitOf
  <2>2. PICK c \in Capsules : \E m \in DOMAIN issued[c] : IsAttestation(ordered[1], c, m)
    BY <1>2, <1>3, <1>4, <1>5, <2>1
  <2>3. PICK m \in DOMAIN issued[c] : IsAttestation(ordered[1], c, m)
    BY <2>2
  <2>4. m \in 1 .. MaxIssued[c] /\ m + 1 - 1 = m
    <3>1. m \in 1 .. MaxIssued[c]
      BY <1>2, <1>5, <2>3, ReadsAsAttestation
    <3> QED
      BY <3>1, ActivityAssumption
  <2>5. \A j \in DOMAIN ordered : IsAttestation(ordered[j], c, m + j - 1)
    BY <1>2, <1>5, <2>3, <2>4
  <2> QED
    BY <1>2, <1>3, <1>4, <1>5, <2>1, <2>5
<1>6. CASE N # 1
  <2>1. result.valid /\ result.all_signatures_checked
    BY <1>2, <1>6 DEF BoundaryVerify, ExitOf
  <2>2. /\ LinkedUpTo(N) /\ N \in DOMAIN per_document /\ per_document[N].signature_checked
    BY <1>1, <1>2, <2>1 DEF ResultInv, VerifiedUpTo, IsList
  <2>3. PICK c \in Capsules : \E m \in DOMAIN issued[c] : IsAttestation(ordered[N], c, m)
    BY <1>2, <1>4, <2>2
  <2>4. PICK m \in DOMAIN issued[c] : IsAttestation(ordered[N], c, m)
    BY <2>3
  <2>5. N <= m /\ \A j \in 1 .. N : IsAttestation(ordered[j], c, m - N + j)
    BY <1>2, <2>2, <2>4 DEF LinkedUpTo
  <2>6. m \in Nat
    <3>1. m \in 1 .. MaxIssued[c]
      BY <1>2, <2>4, ReadsAsAttestation
    <3> QED
      BY <3>1, ActivityAssumption
  <2> DEFINE lo == m - N + 1
  <2>7. \A j \in DOMAIN ordered : IsAttestation(ordered[j], c, lo + j - 1)
    <3> TAKE j \in DOMAIN ordered
    <3>1. lo + j - 1 = m - N + j
      BY <1>2, <2>6
    <3> QED
      BY <1>2, <2>5, <3>1
  <2>8. lo \in DOMAIN issued[c]
    <3>1. IsAttestation(ordered[1], c, lo)
      BY <1>2, <2>5
    <3> QED
      BY <3>1 DEF IsAttestation
  <2> QED
    BY <1>2, <1>4, <2>2, <2>7, <2>8
<1> QED
  BY <1>5, <1>6

\* DisclosedTrailIsIssued: the count and the commitment of an anchored document
\* are those of an attestation, and together they determine the trail.
LEMMA TrailIsIssued ==
  ASSUME Inv
  PROVE  DisclosedTrailIsIssued
<1> SUFFICES ASSUME disclosed # NoValue, disclosed.failure = NoValue,
                    disclosed.k \in DOMAIN per_document,
                    per_document[disclosed.k].trust_anchored
             PROVE  \E c \in Capsules : \E n \in DOMAIN issued[c] :
                      /\ IsAttestation(ordered[disclosed.k], c, n)
                      /\ disclosed.events = Activity[c][n]
  BY DEF DisclosedTrailIsIssued
<1> DEFINE k == disclosed.k
           d == ordered[k]
           events == disclosed.events
<1>1. /\ k \in DOMAIN ordered
      /\ events \in Seq(Events)
      /\ VerifyDisclosedActivityTrail(d, events) = NoValue
  BY DEF Inv, WalkInv, DisclosedInv
<1>2. d.activity_event_count = Len(events)
      /\ d.activity_commitment = RecomputeActivityCommitment(events)
  <2> DEFINE checks ==
        <<Check("ActivityEventCountMismatch", d.activity_event_count = Len(events)),
          Check("ActivityCommitmentMismatch",
                d.activity_commitment = RecomputeActivityCommitment(events))>>
  <2>1. IsList(checks) /\ DOMAIN checks = 1 .. 2
    BY DEF IsList
  <2>2. \A i \in 1 .. 2 : checks[i].failure \in Failures
    BY DEF Check, Failures
  <2>3. FirstFailure(checks) = NoValue
    BY <1>1 DEF VerifyDisclosedActivityTrail
  <2>4. checks[1].holds <=> d.activity_event_count = Len(events)
    BY DEF Check
  <2>5. checks[2].holds <=> d.activity_commitment = RecomputeActivityCommitment(events)
    BY DEF Check
  <2> HIDE DEF checks
  <2> QED
    BY <2>1, <2>2, <2>3, <2>4, <2>5, NoFailure
<1>3. VerifyBoundaryAttestation(d, held).trust_anchored /\ Sound(d, issued)
  BY <1>1 DEF Inv, OrderInv
<1>4. PICK c \in Capsules : \E n \in DOMAIN issued[c] : IsAttestation(d, c, n)
  BY <1>3, AnchoredIsAttestation DEF Inv
<1>5. PICK n \in DOMAIN issued[c] : IsAttestation(d, c, n)
  BY <1>4
<1>6. /\ n \in 1 .. MaxIssued[c]
      /\ d.activity_commitment = RecomputeActivityCommitment(Activity[c][n])
      /\ d.activity_event_count = Len(Activity[c][n])
  BY <1>1, <1>5, ReadsAsAttestation
<1>7. Activity[c][n] \in Seq(Events)
  BY <1>6, ActivityAssumption
<1>8. events = Activity[c][n]
  BY <1>1, <1>2, <1>6, <1>7, CommitmentIsInjective
<1> QED
  BY <1>5, <1>8

-----------------------------------------------------------------------------
(* The theorems.                                                           *)

\* Nothing is taken, verified or disclosed at the start.
LEMMA InitInv ==
  ASSUME Init
  PROVE  Inv
<1>1. IssueInv
  <2>1. 1 \in DOMAIN Versions
    BY VersionsAssumption
  <2>2. OwnKeys(<<KeyVersionRecord(Versions[1], <<"key of", Versions[1]>>)>>)
    BY <2>1, OwnKeysOne
  <2>3. OwnKeys(<<>>)
    BY DEF OwnKeys, IsList
  <2>4. Proper(manifest)
    BY <2>2, <2>3 DEF Init, Proper, AuthorityRecord
  <2>5. /\ DOMAIN issued = Capsules /\ held = NoValue
        /\ \A c \in Capsules : Len(issued[c]) = 0 /\ DOMAIN issued[c] = 1 .. 0
    BY EmptyIsList DEF Init
  <2>6. \A c \in Capsules : 0 \in 0 .. MaxIssued[c] /\ 1 .. 0 = {}
    BY ActivityAssumption
  <2> QED
    BY <2>4, <2>5, <2>6 DEF IssueInv
<1>2. SupplyInv
  <2>1. docs = <<>> /\ IsList(docs) /\ DOMAIN docs = {}
    BY EmptyIsList, Zenon DEF Init
  <2> QED
    BY <2>1 DEF SupplyInv
<1>3. OrderInv
  <2>1. /\ ordered = <<>> /\ IsList(ordered) /\ DOMAIN ordered = {} /\ Len(ordered) = 0
        /\ per_document = <<>> /\ at = 0 /\ phase = "issue"
    BY EmptyIsList, Zenon DEF Init
  <2> QED
    BY <2>1 DEF OrderInv
<1>4. WalkInv
  BY DEF Init, WalkInv
<1> QED
  BY <1>1, <1>2, <1>3, <1>4 DEF Inv

\* The invariant is inductive.
THEOREM Invariance == Spec => []Inv
<1>1. Init => Inv
  BY InitInv
<1>2. Inv /\ [Next]_vars => Inv'
  BY IssueStep, SupplyStep, WalkStep DEF Inv
<1> QED
  BY <1>1, <1>2, PTL DEF Spec


\* In a valid chain, of any length and over any number of rotations and edits,
\* an anchored document vouches for every one before it: they are the
\* attestations of one capsule, in their places (boundary.rs, stage 4).
THEOREM PastIsPinned == Spec => []LinkPinsThePast
BY Invariance, PinsThePast, PTL

\* Exit code 0 with a manifest is earned: no revoked authority, every document
\* an attestation, several of them successive ones (main.rs, boundary_verify).
THEOREM ExitIsEarned == Spec => []ExitZeroIsEarned
BY Invariance, ZeroIsEarned, PTL

\* A disclosed trail that passes against an anchored attestation is the whole
\* activity of its capsule up to then (boundary.rs, stage 5).
THEOREM DisclosureIsIssued == Spec => []DisclosedTrailIsIssued
BY Invariance, TrailIsIssued, PTL

-----------------------------------------------------------------------------
(* Completeness: what is genuine passes.  A second invariant, on top of    *)
(* the first, says of every attestation and every published key all that   *)
(* the ladder and the linkage ask.                                         *)

\* A hash and a signature are something.
Present ==
  /\ \A d : RecomputeCanonicalHash(d) # NoValue
  /\ \A key, message : Sign(key, message) # NoValue

\* Attestation n of capsule c, in the fields that are checked.
Attested(d, c, n) ==
  /\ d.kind = Kind /\ d.version = "1.0" /\ d.capsule_id = c /\ d.attestation_index = n
  /\ d.cutoff_ts \in Nat
  /\ d.hash_algorithm = "sha512" /\ d.signature_algorithm = "Ed25519"
  /\ d.continuation = ContinuationStatement /\ d.boundary_evidence = ObservationMethods
  /\ d.authority_id = AuthorityWritten[c]
  /\ \E v \in DOMAIN Versions :
       d.signing_key_version = Versions[v] /\ d.public_key = <<"key of", Versions[v]>>
  /\ d.canonical_hash = RecomputeCanonicalHash(d)
  /\ d.signature = Sign(d.public_key, RecomputeCanonicalHash(d))

\* Key records, each of the version's own key.
Keyed(list) ==
  /\ IsList(list)
  /\ \A i \in DOMAIN list :
       /\ list[i] \in KeyVersionRecords
       /\ list[i].public_key = <<"key of", list[i].signing_key_version>>

KeyedManifest(m) ==
  /\ DOMAIN m = {DefaultAuthority}
  /\ Keyed(m[DefaultAuthority].active_versions) /\ Keyed(m[DefaultAuthority].archived_versions)
  /\ m[DefaultAuthority].revoked \in BOOLEAN
  /\ 1 \in DOMAIN m[DefaultAuthority].active_versions

IssuedInFull ==
  /\ clock \in Nat
  /\ KeyedManifest(manifest)
  /\ held # NoValue => KeyedManifest(held)
  /\ \A c \in Capsules : \A n \in DOMAIN issued[c] : Attested(issued[c][n], c, n)

\* The supply is a chain that is to be accepted.
Acceptable(c, lo, hi) ==
  /\ lo <= hi
  /\ Contiguous(c, lo, hi)
  /\ \A n \in lo + 1 .. hi : issued[c][n - 1].cutoff_ts < issued[c][n].cutoff_ts
  /\ held # NoValue =>
       /\ ~held[DefaultAuthority].revoked
       /\ \A n \in lo .. hi : issued[c][n].public_key \in PublishedKeys(held)

\* And so far it is.
AcceptedSoFar ==
  phase \notin {"issue", "supply"} =>
    \A c \in Capsules : \A lo, hi \in DOMAIN issued[c] : Acceptable(c, lo, hi) =>
      /\ \A k \in DOMAIN ordered : ordered[k] = issued[c][lo + k - 1]
      /\ all_signatures_checked
      /\ phase = "done" => result.valid

FullInv == Inv /\ IssuedInFull /\ AcceptedSoFar

\* A ladder of checks that all hold ends nowhere.
LEMMA AllHold ==
  ASSUME NEW checks, \A i \in DOMAIN checks : checks[i].holds
  PROVE  FirstFailure(checks) = NoValue
BY DEF FirstFailure

\* A key that is published is found by the version it belongs to.
LEMMA PublishedIsFound ==
  ASSUME NEW m, KeyedManifest(m), NEW version, <<"key of", version>> \in PublishedKeys(m)
  PROVE  LET found == FindKey(m, DefaultAuthority, version)
         IN  /\ found # NoValue
             /\ found.record.public_key = <<"key of", version>>
             /\ found.revoked = m[DefaultAuthority].revoked
<1> DEFINE active == m[DefaultAuthority].active_versions
           archived == m[DefaultAuthority].archived_versions
<1>1. DOMAIN m = {DefaultAuthority} /\ Keyed(active) /\ Keyed(archived)
      /\ m[DefaultAuthority].revoked \in BOOLEAN
  BY DEF KeyedManifest
<1>2. \/ \E i \in DOMAIN active : active[i].public_key = <<"key of", version>>
      \/ \E i \in DOMAIN archived : archived[i].public_key = <<"key of", version>>
  <2> DEFINE key == <<"key of", version>>
  <2>1. key \in PublishedKeys(m)
    OBVIOUS
  <2> HIDE DEF key
  <2>2. \E a \in DOMAIN m : \/ \E i \in DOMAIN m[a].active_versions : m[a].active_versions[i].public_key = key
                           \/ \E i \in DOMAIN m[a].archived_versions : m[a].archived_versions[i].public_key = key
    BY <2>1 DEF PublishedKeys
  <2> QED
    BY <1>1, <2>2 DEF key
<1>3. ASSUME NEW list, Keyed(list), NEW i \in DOMAIN list,
             list[i].public_key = <<"key of", version>>
      PROVE  FirstOf(list, version) # NoValue
  <2>1. list[i].signing_key_version = version /\ IsList(list)
    <3>1. IsList(list) /\ list[i].public_key = <<"key of", list[i].signing_key_version>>
      BY <1>3, Zenon DEF Keyed
    <3>2. <<"key of", list[i].signing_key_version>> = <<"key of", version>>
      BY <1>3, <3>1
    <3>3. \A x, y : <<"key of", x>> = <<"key of", y>> => x = y
      OBVIOUS
    <3>4. list[i].signing_key_version = version
      BY <3>2, <3>3, Zenon
    <3> QED
      BY <3>1, <3>4
  <2>2. \A j \in DOMAIN list : list[j] # NoValue
    BY <1>3, PresenceAssumption DEF Keyed
  <2> QED
    BY <2>1, <2>2, FirstOfFinds
<1>4. ASSUME NEW list, Keyed(list), FirstOf(list, version) # NoValue,
             NEW status \in {"Active", "Archived"}
      PROVE  /\ FirstOf(list, version).public_key = <<"key of", version>>
             /\ Lookup(FirstOf(list, version), m[DefaultAuthority], status) # NoValue
  <2>1. /\ FirstOf(list, version).public_key = <<"key of", version>>
        /\ FirstOf(list, version) \in KeyVersionRecords
    <3>1. PICK i \in DOMAIN list :
            FirstOf(list, version) = list[i] /\ list[i].signing_key_version = version
      <4>1. IsList(list)
        BY <1>4, Zenon DEF Keyed
      <4> QED
        BY <1>4, <4>1, FirstOfIsAnEntry
    <3>2. list[i] \in KeyVersionRecords /\ list[i].public_key = <<"key of", list[i].signing_key_version>>
      BY <1>4, Zenon DEF Keyed
    <3> QED
      BY <3>1, <3>2
  <2>2. Lookup(FirstOf(list, version), m[DefaultAuthority], status) \in KeyLookupResults
    BY <1>1, <2>1 DEF Lookup, KeyLookupResults
  <2> QED
    BY <2>1, <2>2, PresenceAssumption
<1>5. FirstOf(active, version) # NoValue \/ FirstOf(archived, version) # NoValue
  <2>1. CASE \E i \in DOMAIN active : active[i].public_key = <<"key of", version>>
    BY <1>1, <1>3, <2>1
  <2>2. CASE \E i \in DOMAIN archived : archived[i].public_key = <<"key of", version>>
    BY <1>1, <1>3, <2>2
  <2> QED
    BY <1>2, <2>1, <2>2
<1>6. CASE FirstOf(active, version) # NoValue
  <2>1. FindKey(m, DefaultAuthority, version)
          = Lookup(FirstOf(active, version), m[DefaultAuthority], "Active")
    BY <1>1, <1>6 DEF FindKey
  <2>2. /\ FirstOf(active, version).public_key = <<"key of", version>>
        /\ Lookup(FirstOf(active, version), m[DefaultAuthority], "Active") # NoValue
    BY <1>1, <1>4, <1>6
  <2>3. /\ Lookup(FirstOf(active, version), m[DefaultAuthority], "Active").record = FirstOf(active, version)
        /\ Lookup(FirstOf(active, version), m[DefaultAuthority], "Active").revoked = m[DefaultAuthority].revoked
    BY DEF Lookup
  <2> HIDE DEF active, archived
  <2> QED
    BY <2>1, <2>2, <2>3
<1>7. CASE FirstOf(active, version) = NoValue /\ FirstOf(archived, version) # NoValue
  <2>1. FindKey(m, DefaultAuthority, version)
          = Lookup(FirstOf(archived, version), m[DefaultAuthority], "Archived")
    BY <1>1, <1>7 DEF FindKey
  <2>2. /\ FirstOf(archived, version).public_key = <<"key of", version>>
        /\ Lookup(FirstOf(archived, version), m[DefaultAuthority], "Archived") # NoValue
    BY <1>1, <1>4, <1>7
  <2>3. /\ Lookup(FirstOf(archived, version), m[DefaultAuthority], "Archived").record = FirstOf(archived, version)
        /\ Lookup(FirstOf(archived, version), m[DefaultAuthority], "Archived").revoked = m[DefaultAuthority].revoked
    BY DEF Lookup
  <2> HIDE DEF active, archived
  <2> QED
    BY <2>1, <2>2, <2>3
<1> QED
  BY <1>5, <1>6, <1>7

\* An attestation passes the first three stages.
LEMMA AttestationPasses ==
  ASSUME Present, Inv, IssuedInFull, NEW c \in Capsules, NEW n \in DOMAIN issued[c],
         held # NoValue =>
           /\ ~held[DefaultAuthority].revoked
           /\ issued[c][n].public_key \in PublishedKeys(held)
  PROVE  LET verdict == VerifyBoundaryAttestation(issued[c][n], held)
         IN  verdict.valid /\ verdict.signature_checked
<1> DEFINE d == issued[c][n]
           checks == FormChecks(d)
<1>1. Attested(d, c, n) /\ Genuine(d, c, n, issued)
  BY DEF Inv, IssueInv, IssuedInFull
<1>2. n \in 1 .. MaxIssued[c] /\ n \in Nat /\ Activity[c][n] \in Seq(Events)
  BY ActivityAssumption DEF Inv, IssueInv
<1> HIDE DEF d
<1>3. PICK v \in DOMAIN Versions :
        d.signing_key_version = Versions[v] /\ d.public_key = <<"key of", Versions[v]>>
  BY <1>1 DEF Attested
<1>4. d.prev_attestation_hash # NoValue /\ d.canonical_hash # NoValue
  BY <1>1, PresenceAssumption DEF Present, Attested, Genuine
<1>5. d.activity_commitment # NoValue /\ d.activity_event_count # NoValue
  <2>1. Len(Activity[c][n]) \in Nat
    BY <1>2
  <2> QED
    BY <1>1, <1>2, <2>1, PresenceAssumption DEF Genuine
<1>6. /\ d.capsule_id # NoValue /\ d.cutoff_ts # NoValue /\ d.attestation_index # NoValue
      /\ d.version # NoValue /\ d.boundary_evidence # NoValue
  BY <1>1, <1>2, PresenceAssumption DEF Attested
<1>7. \A f \in RequiredFields : d[f] # NoValue
  BY <1>4, <1>5, <1>6 DEF RequiredFields
<1>8. \A i \in DOMAIN checks : checks[i].holds
  <2>1. DOMAIN checks = 1 .. 8
    BY DEF FormChecks
  <2>2. /\ checks[1].holds <=> d.kind = Kind
        /\ checks[2].holds <=> d.version # NoValue
        /\ checks[3].holds <=> d.version \in SupportedVersions
        /\ checks[4].holds <=> \A f \in RequiredFields : d[f] # NoValue
    BY DEF FormChecks, Check
  <2>3. /\ checks[5].holds <=> d.hash_algorithm = "sha512" /\ d.signature_algorithm = "Ed25519"
        /\ checks[6].holds <=> d.continuation = ContinuationStatement
        /\ checks[7].holds <=> d.boundary_evidence # NoValue
        /\ checks[8].holds <=>
             (d.boundary_evidence # NoValue => d.boundary_evidence \subseteq ObservationMethods)
    BY DEF FormChecks, Check
  <2> HIDE DEF checks
  <2>4. checks[1].holds /\ checks[2].holds /\ checks[3].holds /\ checks[4].holds
    BY <1>1, <1>6, <1>7, <2>2 DEF Attested, SupportedVersions
  <2>5. checks[5].holds /\ checks[6].holds /\ checks[7].holds /\ checks[8].holds
    BY <1>1, <1>6, <2>3 DEF Attested
  <2> QED
    BY <2>1, <2>4, <2>5
<1>9. FirstFailure(checks) = NoValue
  <2> HIDE DEF checks
  <2> QED
    BY <1>8, AllHold
<1>10. Signed(d) /\ d.canonical_hash = RecomputeCanonicalHash(d) /\ VerifiesUnder(d, d.public_key)
  <2>1. d.signature = Sign(d.public_key, RecomputeCanonicalHash(d))
        /\ d.canonical_hash = RecomputeCanonicalHash(d)
    BY <1>1 DEF Attested
  <2>2. d.signature # NoValue /\ d.public_key # NoValue
    BY <1>3, <2>1, PresenceAssumption DEF Present
  <2>3. VerifiesUnder(d, d.public_key)
    BY <2>1 DEF VerifiesUnder, Sign
  <2> QED
    BY <2>1, <2>2, <2>3 DEF Signed
<1>11. CASE held = NoValue
  BY <1>9, <1>10, <1>11 DEF VerifyBoundaryAttestation, Verified, d
<1>12. CASE held # NoValue
  <2> DEFINE found == FindKey(held, DefaultAuthority, Versions[v])
  <2>1. /\ found # NoValue /\ found.record.public_key = d.public_key
        /\ ~found.revoked
    BY <1>3, <1>12, PublishedIsFound DEF IssuedInFull, d
  <2>2. FindSigningKey(d, held) = found
    BY <1>1, <1>3, AuthorityAssumption DEF FindSigningKey, Attested
  <2> HIDE DEF found
  <2>3. AnchorToManifest(d, held) = Verified(d, 3, TRUE, TRUE)
    BY <1>10, <2>1, <2>2 DEF AnchorToManifest
  <2>4. VerifyBoundaryAttestation(d, held) = Verified(d, 3, TRUE, TRUE)
    BY <1>9, <1>10, <1>12, <2>3 DEF VerifyBoundaryAttestation
  <2> QED
    BY <2>4 DEF Verified, d
<1> QED
  BY <1>11, <1>12

\* Numbers in a span from lo to hi: the place of the k-th, where k is not the first.
LEMMA SecondOfSpan ==
  ASSUME NEW lo \in Nat, NEW hi \in Nat, NEW k \in Nat, NEW top \in Nat,
         lo >= 1, hi <= top, k >= 2, k <= hi - lo + 1
  PROVE  LET n == lo + k - 1
         IN  /\ lo + (k - 1) - 1 = n - 1 /\ n # 1 /\ (n - 1) + 1 = n
             /\ n - 1 \in lo .. hi /\ n \in lo + 1 .. hi
             /\ n - 1 \in 1 .. top /\ k - 1 \in 1 .. hi - lo + 1
OBVIOUS

\* Successive attestations of one capsule pass the linkage.
LEMMA AttestationsLink ==
  ASSUME Inv, IssuedInFull, NEW c \in Capsules, NEW lo \in DOMAIN issued[c], NEW hi \in DOMAIN issued[c],
         \A n \in lo + 1 .. hi : issued[c][n - 1].cutoff_ts < issued[c][n].cutoff_ts,
         \A k \in DOMAIN ordered : ordered[k] = issued[c][lo + k - 1],
         Len(ordered) = hi - lo + 1, NEW k \in DOMAIN ordered
  PROVE  LinkFailure(k) = NoValue
<1> DEFINE n == lo + k - 1
           d == ordered[k]
<1>1. /\ IsList(ordered) /\ Len(issued[c]) \in Nat /\ DOMAIN issued[c] = 1 .. Len(issued[c])
      /\ Len(issued[c]) <= MaxIssued[c] /\ MaxIssued[c] \in Nat
  BY ActivityAssumption DEF Inv, OrderInv, IssueInv
<1>2. /\ k \in Nat /\ k >= 1 /\ k <= hi - lo + 1 /\ lo \in Nat /\ hi \in Nat /\ lo >= 1
      /\ n \in lo .. hi /\ n \in DOMAIN issued[c] /\ n \in Nat /\ n >= 1
      /\ 1 \in DOMAIN ordered /\ lo + 1 - 1 = lo
  BY <1>1 DEF IsList
<1>3. d = issued[c][n] /\ ordered[1] = issued[c][lo]
  <2>1. ordered[1] = issued[c][lo + 1 - 1]
    BY <1>2
  <2> QED
    BY <1>2, <2>1
<1>4. /\ Attested(issued[c][n], c, n) /\ Attested(issued[c][lo], c, lo)
      /\ Genuine(issued[c][n], c, n, issued)
  BY <1>2 DEF Inv, IssueInv, IssuedInFull
<1>5. d.capsule_id = ordered[1].capsule_id /\ d.cutoff_ts # Unparseable
  BY <1>3, <1>4, PresenceAssumption DEF Attested
<1>6. d.attestation_index = n
      /\ d.prev_attestation_hash =
           IF n = 1 THEN GenesisHash ELSE RecomputeCanonicalHash(issued[c][n - 1])
  BY <1>3, <1>4 DEF Attested, Genuine
<1>7. CASE k = 1
  <2> DEFINE checks == HeadChecks(k)
  <2>1. \A i \in DOMAIN checks : checks[i].holds
    <3>1. DOMAIN checks = 1 .. 3
      BY DEF HeadChecks
    <3>2. checks[1].holds <=> d.capsule_id = ordered[1].capsule_id
      BY DEF HeadChecks, CapsuleCheck, Check
    <3>3. checks[2].holds <=> (d.attestation_index = 1 => d.prev_attestation_hash = GenesisHash)
      BY DEF HeadChecks, Check
    <3>4. checks[3].holds <=> d.cutoff_ts # Unparseable
      BY DEF HeadChecks, CutoffCheck, Check
    <3> HIDE DEF checks, d, n
    <3> QED
      BY <1>5, <1>6, <3>1, <3>2, <3>3, <3>4
  <2> HIDE DEF checks
  <2>2. FirstFailure(checks) = NoValue
    BY <2>1, AllHold
  <2> QED
    BY <1>7, <2>2 DEF LinkFailure, checks
<1>8. CASE k # 1
  <2> DEFINE checks == SuccessorChecks(k)
             prev == ordered[k - 1]
  <2>1. k - 1 \in DOMAIN ordered /\ lo + (k - 1) - 1 = n - 1 /\ n - 1 \in lo .. hi /\ n \in lo + 1 .. hi
        /\ n - 1 \in DOMAIN issued[c] /\ n # 1 /\ (n - 1) + 1 = n
    <3>1. k >= 2 /\ DOMAIN ordered = 1 .. hi - lo + 1 /\ hi <= Len(issued[c])
      BY <1>1, <1>2, <1>8 DEF IsList
    <3>2. /\ lo + (k - 1) - 1 = n - 1 /\ n # 1 /\ (n - 1) + 1 = n
          /\ n - 1 \in lo .. hi /\ n \in lo + 1 .. hi
          /\ n - 1 \in 1 .. Len(issued[c]) /\ k - 1 \in 1 .. hi - lo + 1
      BY <1>1, <1>2, <3>1, SecondOfSpan
    <3> HIDE DEF n
    <3> QED
      BY <1>1, <3>1, <3>2
  <2>2. prev = issued[c][n - 1]
    BY <2>1
  <2>3. prev.attestation_index = n - 1
    <3>1. Attested(issued[c][n - 1], c, n - 1)
      BY <2>1 DEF IssuedInFull
    <3> QED
      BY <2>2, <3>1 DEF Attested
  <2>4. d.cutoff_ts > prev.cutoff_ts
    <3>1. issued[c][n - 1].cutoff_ts < issued[c][n].cutoff_ts
      BY <2>1
    <3>2. d.cutoff_ts \in Nat /\ prev.cutoff_ts \in Nat
      BY <1>3, <1>4, <2>1, <2>2 DEF IssuedInFull, Attested
    <3> HIDE DEF d, prev
    <3> QED
      BY <1>3, <2>2, <3>1, <3>2 DEF d, prev
  <2>5. (prev.attestation_index + 1) % IndexModulus = n
    <3>3. n \in Nat /\ n <= MaxIssued[c]
      <4>1. n \in DOMAIN issued[c] /\ n \in Nat
        BY <1>2
      <4> HIDE DEF n
      <4> QED
        BY <1>1, <4>1
    <3> HIDE DEF n
    <3>1. n < IndexModulus
      BY <1>1, <3>3, MaxIssuedAssumption, IndexModulusAssumption
    <3>2. n % IndexModulus = n
      BY <3>1, <3>3, IndexModulusAssumption
    <3> QED
      BY <2>1, <2>3, <3>2
  <2>6. d.prev_attestation_hash = RecomputeCanonicalHash(prev)
    BY <1>6, <2>1, <2>2
  <2>7. \A i \in DOMAIN checks : checks[i].holds
    <3>1. DOMAIN checks = 1 .. 5
      BY DEF SuccessorChecks
    <3>3. checks[1].holds <=> d.capsule_id = ordered[1].capsule_id
      BY DEF SuccessorChecks, CapsuleCheck, Check
    <3>4. checks[2].holds <=> d.attestation_index = (prev.attestation_index + 1) % IndexModulus
      BY DEF SuccessorChecks, Check
    <3>2. /\ checks[3].holds <=> d.prev_attestation_hash = RecomputeCanonicalHash(prev)
          /\ checks[4].holds <=> d.cutoff_ts # Unparseable
          /\ checks[5].holds <=> (d.cutoff_ts # Unparseable => d.cutoff_ts > prev.cutoff_ts)
      BY DEF SuccessorChecks, CutoffCheck, Check
    <3> HIDE DEF checks, d, n, prev
    <3> QED
      BY <1>5, <1>6, <2>4, <2>5, <2>6, <3>1, <3>2, <3>3, <3>4
  <2> HIDE DEF checks
  <2>8. FirstFailure(checks) = NoValue
    BY <2>7, AllHold
  <2> QED
    BY <1>8, <2>8 DEF LinkFailure, checks
<1> QED
  BY <1>7, <1>8

\* In a supply of successive attestations, each once, a document's rank is its
\* place among them.
LEMMA RankOfAttestation ==
  ASSUME Inv, NEW c \in Capsules, NEW lo \in DOMAIN issued[c], NEW hi \in DOMAIN issued[c],
         lo <= hi, Contiguous(c, lo, hi), NEW k \in DOMAIN docs
  PROVE  docs[CHOOSE i \in DOMAIN docs : Rank(i) = k] = issued[c][lo + k - 1]
<1> DEFINE N == Len(docs)
           f == [i \in 1 .. N |-> IndexOf(docs[i])]
           upTo(i) == {j \in 1 .. N : f[j] <= f[i]}
<1>1. /\ N \in Nat /\ DOMAIN docs = 1 .. N /\ N = hi - lo + 1 /\ lo \in Nat /\ hi \in Nat
      /\ \A n \in lo .. hi : n \in DOMAIN issued[c] /\ n \in Nat
  <2>1. Len(issued[c]) \in Nat /\ DOMAIN issued[c] = 1 .. Len(issued[c])
    BY ActivityAssumption DEF Inv, IssueInv
  <2>2. Len(docs) = hi - lo + 1 /\ IsList(docs)
    BY DEF Contiguous, Inv, SupplyInv
  <2>3. \A n \in lo .. hi : n \in DOMAIN issued[c] /\ n \in Nat
    BY <2>1
  <2> QED
    BY <2>1, <2>2, <2>3 DEF IsList
<1>2. \A n \in lo .. hi : IndexOf(issued[c][n]) = n
  <2> TAKE n \in lo .. hi
  <2>1. n \in DOMAIN issued[c] /\ n \in Nat
    BY <1>1
  <2>2. Genuine(issued[c][n], c, n, issued)
    BY <2>1 DEF Inv, IssueInv
  <2>3. issued[c][n].attestation_index = n
    BY <2>2 DEF Genuine
  <2>4. n # NoValue
    BY <2>1, PresenceAssumption
  <2> QED
    BY <2>3, <2>4 DEF IndexOf
<1>3. {docs[i] : i \in DOMAIN docs} = {issued[c][n] : n \in lo .. hi}
  BY DEF Contiguous
<1>4. \A i \in 1 .. N : f[i] \in lo .. hi /\ docs[i] = issued[c][f[i]]
  <2> TAKE i \in 1 .. N
  <2>1. docs[i] \in {issued[c][n] : n \in lo .. hi}
    BY <1>1, <1>3
  <2>2. PICK n \in lo .. hi : docs[i] = issued[c][n]
    BY <2>1
  <2>3. f[i] = n
    BY <1>2, <2>2
  <2> QED
    BY <2>2, <2>3
<1>5. \A n \in lo .. hi : \E i \in 1 .. N : f[i] = n
  <2> TAKE n \in lo .. hi
  <2>1. issued[c][n] \in {docs[i] : i \in DOMAIN docs}
    BY <1>3
  <2>2. PICK i \in 1 .. N : docs[i] = issued[c][n]
    BY <1>1, <2>1
  <2>3. f[i] = n
    BY <1>2, <2>2
  <2> QED
    BY <2>3
<1>6. DOMAIN f = 1 .. N /\ f = [i \in 1 .. N |-> f[i]]
  OBVIOUS
<1>7. \A i \in 1 .. N : Rank(i) = Cardinality({j \in 1 .. N : f[j] < f[i] \/ (f[j] = f[i] /\ j <= i)})
  <2> TAKE i \in 1 .. N
  <2>1. {j \in DOMAIN docs : \/ IndexOf(docs[j]) < IndexOf(docs[i])
                             \/ IndexOf(docs[j]) = IndexOf(docs[i]) /\ j <= i}
          = {j \in 1 .. N : f[j] < f[i] \/ (f[j] = f[i] /\ j <= i)}
    BY <1>1
  <2> QED
    BY <2>1 DEF Rank
<1> HIDE DEF N, f
<1>8. f \in [1 .. N -> lo .. hi]
  BY <1>4, <1>6
<1>9. f \in Surjection(1 .. N, lo .. hi)
  BY <1>5, <1>8 DEF Surjection
<1>10. /\ IsFiniteSet(1 .. N) /\ Cardinality(1 .. N) = Cardinality(lo .. hi)
       /\ \A m \in lo .. hi : IsFiniteSet(lo .. m) /\ Cardinality(lo .. m) = m - lo + 1
  <2>1. IsFiniteSet(1 .. N) /\ Cardinality(1 .. N) = N
    BY <1>1, FS_Interval
  <2>2. \A m \in lo .. hi : IsFiniteSet(lo .. m) /\ Cardinality(lo .. m) = m - lo + 1
    <3> TAKE m \in lo .. hi
    <3>1. m \in Int /\ lo \in Int /\ ~(lo > m)
      BY <1>1
    <3> QED
      BY <3>1, FS_Interval
  <2>3. hi \in lo .. hi
    BY <1>1
  <2> QED
    BY <1>1, <2>1, <2>2, <2>3
<1>11. \A i, j \in 1 .. N : f[i] = f[j] => i = j
  <2>1. f \in Injection(1 .. N, lo .. hi)
    BY <1>9, <1>10, FS_SurjSameCardinalityImpliesInj
  <2> QED
    BY <2>1 DEF Injection, IsInjective
<1>12. ASSUME NEW i \in 1 .. N PROVE Rank(i) = f[i] - lo + 1
  <2>1. \A j \in 1 .. N : f[j] \in Nat /\ f[j] >= lo /\ f[j] <= hi
    BY <1>1, <1>4
  <2>2. {j \in 1 .. N : f[j] < f[i] \/ (f[j] = f[i] /\ j <= i)} = upTo(i)
    BY <1>1, <1>11, <2>1
  <2>3. Rank(i) = Cardinality(upTo(i))
    BY <1>7, <2>2
  <2> DEFINE S == upTo(i)
             T == lo .. f[i]
             g == [j \in S |-> f[j]]
  <2>4. g \in [S -> T]
    BY <1>1, <2>1
  <2>5. \A a, b \in S : g[a] = g[b] => a = b
    BY <1>11
  <2>6. \A t \in T : \E s \in S : g[s] = t
    <3> TAKE t \in T
    <3>1. t \in lo .. hi /\ t <= f[i]
      BY <1>1, <2>1
    <3>2. PICK s \in 1 .. N : f[s] = t
      BY <1>5, <3>1
    <3>3. s \in S
      BY <3>1, <3>2
    <3> QED
      BY <3>2, <3>3
  <2>7. IsFiniteSet(S)
    BY <1>10, FS_Subset
  <2> HIDE DEF S, T, g
  <2>8. g \in Bijection(S, T)
    BY <2>4, <2>5, <2>6 DEF Bijection, Injection, IsInjective, Surjection
  <2>9. ExistsBijection(S, T)
    BY <2>8 DEF ExistsBijection
  <2>10. Cardinality(T) = Cardinality(S)
    BY <2>7, <2>9, FS_Bijection
  <2>11. Cardinality(T) = f[i] - lo + 1
    BY <1>4, <1>10 DEF T
  <2> QED
    BY <2>3, <2>10, <2>11 DEF S
<1> DEFINE i == CHOOSE x \in DOMAIN docs : Rank(x) = k
<1>13. i \in 1 .. N /\ Rank(i) = k
  <2>1. \E x \in DOMAIN docs : Rank(x) = k
    BY RankIsOnto DEF Inv
  <2> QED
    BY <1>1, <2>1
<1> HIDE DEF i
<1>14. f[i] = lo + k - 1
  <2>1. k = f[i] - lo + 1
    BY <1>12, <1>13
  <2>2. f[i] \in Nat /\ k \in Nat
    BY <1>1, <1>4, <1>13
  <2> QED
    BY <1>1, <2>1, <2>2
<1> QED
  BY <1>4, <1>13, <1>14 DEF i

\* What is attested next is as it is to be.
LEMMA NextIsAttested ==
  ASSUME IssueInv, IssuedInFull, NEW c \in Capsules, NEW time \in Nat
  PROVE  Attested(Seal(Attestation(c, time), <<"key of", CurrentVersion>>), c, Len(issued[c]) + 1)
<1> DEFINE a == Attestation(c, time)
           key == <<"key of", CurrentVersion>>
           n == Len(issued[c])
           h == RecomputeCanonicalHash(a)
<1>1. \E v \in DOMAIN Versions : CurrentVersion = Versions[v]
  <2>1. manifest[DefaultAuthority].active_versions[1] \in KeyVersionRecords
    BY DEF IssuedInFull, KeyedManifest, Keyed
  <2> QED
    BY <2>1 DEF CurrentVersion, Authority, KeyVersionRecords
<1>2. /\ DOMAIN a = Fields
      /\ a["kind"] = Kind /\ a["version"] = "1.0" /\ a["capsule_id"] = c
      /\ a["attestation_index"] = n + 1 /\ a["cutoff_ts"] = time
      /\ a["hash_algorithm"] = "sha512" /\ a["signature_algorithm"] = "Ed25519"
      /\ a["continuation"] = ContinuationStatement /\ a["boundary_evidence"] = ObservationMethods
      /\ a["authority_id"] = AuthorityWritten[c] /\ a["signing_key_version"] = CurrentVersion
  BY DEF Attestation, Fields
<1>3. {"kind", "version", "capsule_id", "attestation_index", "cutoff_ts", "hash_algorithm",
       "signature_algorithm", "continuation", "boundary_evidence", "authority_id",
       "signing_key_version"} \subseteq Fields \ Outside
  BY DEF Fields, Outside
<1> HIDE DEF a, key
<1>4. /\ Seal(a, key).canonical_hash = h /\ Seal(a, key).public_key = key
      /\ Seal(a, key).signature = Sign(key, h)
  <2> HIDE DEF h
  <2>1. {"canonical_hash", "public_key", "signature"} \subseteq DOMAIN a
    BY <1>2 DEF Fields
  <2> QED
    BY <2>1 DEF Seal, h
<1>5. /\ \A f \in Fields \ Outside : Seal(a, key)[f] = a[f]
      /\ RecomputeCanonicalHash(Seal(a, key)) = h
  BY <1>2, SealLemma
<1> DEFINE d == Seal(a, key)
<1> HIDE DEF d, h
<1>6. /\ d.kind = Kind /\ d.version = "1.0" /\ d.capsule_id = c /\ d.attestation_index = n + 1
      /\ d.cutoff_ts = time
      /\ d.hash_algorithm = "sha512" /\ d.signature_algorithm = "Ed25519"
      /\ d.continuation = ContinuationStatement /\ d.boundary_evidence = ObservationMethods
      /\ d.authority_id = AuthorityWritten[c] /\ d.signing_key_version = CurrentVersion
  BY <1>2, <1>3, <1>5 DEF d
<1>7. d.canonical_hash = h /\ d.public_key = key /\ d.signature = Sign(key, h)
      /\ RecomputeCanonicalHash(d) = h
  BY <1>4, <1>5 DEF d
<1>8. Attested(d, c, n + 1)
  BY <1>1, <1>6, <1>7 DEF Attested, key
<1> QED
  BY <1>8 DEF d, a, key

\* One record of a version's own key.
LEMMA KeyedOne ==
  ASSUME NEW v \in DOMAIN Versions
  PROVE  Keyed(<<KeyVersionRecord(Versions[v], <<"key of", Versions[v]>>)>>)
<1> DEFINE r == KeyVersionRecord(Versions[v], <<"key of", Versions[v]>>)
<1>1. r \in KeyVersionRecords /\ r.public_key = <<"key of", r.signing_key_version>>
  BY DEF KeyVersionRecord, KeyVersionRecords
<1> HIDE DEF r
<1>2. IsList(<<r>>) /\ DOMAIN <<r>> = {1} /\ <<r>>[1] = r
  BY DEF IsList
<1> QED
  BY <1>1, <1>2, Zenon DEF Keyed, r

\* Two lists of such records are one.
LEMMA KeyedJoin ==
  ASSUME NEW s, NEW t, Keyed(s), Keyed(t)
  PROVE  Keyed(s \o t)
<1>1. IsList(s) /\ IsList(t)
  BY DEF Keyed
<1>2. IsList(s \o t)
  BY <1>1 DEF IsList
<1>3. ASSUME NEW i \in DOMAIN (s \o t)
      PROVE  /\ (s \o t)[i] \in KeyVersionRecords
             /\ (s \o t)[i].public_key = <<"key of", (s \o t)[i].signing_key_version>>
  <2>1. CASE i <= Len(s)
    <3>1. i \in DOMAIN s /\ (s \o t)[i] = s[i]
      BY <1>1, <2>1 DEF IsList
    <3> QED
      BY <3>1, Zenon DEF Keyed
  <2>2. CASE ~(i <= Len(s))
    <3>1. i - Len(s) \in DOMAIN t /\ (s \o t)[i] = t[i - Len(s)]
      BY <1>1, <2>2 DEF IsList
    <3> QED
      BY <3>1, Zenon DEF Keyed
  <2> QED
    BY <2>1, <2>2
<1> QED
  BY <1>2, <1>3, Zenon DEF Keyed

\* A rotation publishes the new key beside all the earlier ones.
LEMMA RotationIsKeyed ==
  ASSUME KeyedManifest(manifest), NEW i \in DOMAIN Versions, Rotate(i)
  PROVE  KeyedManifest(manifest')
<1> DEFINE old == manifest[DefaultAuthority]
           one == <<KeyVersionRecord(Versions[i + 1], <<"key of", Versions[i + 1]>>)>>
           all == old.archived_versions \o old.active_versions
           new == AuthorityRecord(one, all, old.revoked)
<1>1. /\ DOMAIN manifest = {DefaultAuthority} /\ old.revoked \in BOOLEAN
      /\ Keyed(old.active_versions) /\ Keyed(old.archived_versions)
  BY DEF KeyedManifest
<1>2. manifest' = [manifest EXCEPT ![DefaultAuthority] = new]
  BY Zenon DEF Rotate, Authority
<1>3. i + 1 \in DOMAIN Versions
  <2>1. i \in 1 .. Len(Versions) - 1
    BY Zenon DEF Rotate
  <2> HIDE DEF one, all
  <2> QED
    BY <2>1, VersionsAssumption
<1>4. Keyed(one) /\ Keyed(all) /\ 1 \in DOMAIN one
  <2>1. Keyed(one) /\ Keyed(all)
    BY <1>1, <1>3, KeyedOne, KeyedJoin, Zenon
  <2>2. 1 \in DOMAIN one
    OBVIOUS
  <2> QED
    BY <2>1, <2>2, Zenon
<1> HIDE DEF one, all
<1>5. DOMAIN manifest' = {DefaultAuthority} /\ manifest'[DefaultAuthority] = new
  BY <1>1, <1>2
<1>6. new.active_versions = one /\ new.archived_versions = all /\ new.revoked = old.revoked
  BY DEF AuthorityRecord
<1> HIDE DEF new
<1> QED
  BY <1>1, <1>4, <1>5, <1>6 DEF KeyedManifest

\* The issuer's side is preserved in full.
LEMMA IssueInFullStep ==
  ASSUME Inv, IssuedInFull, [Next]_vars
  PROVE  IssuedInFull'
<1>1. IssueInv
  BY DEF Inv
<1>2. ASSUME NEW c \in Capsules, Attest(c)
      PROVE  IssuedInFull'
  <2> DEFINE d == Seal(Attestation(c, clock'), <<"key of", CurrentVersion>>)
             n == Len(issued[c])
  <2>1. PICK lapse \in Lapses :
          /\ clock' = clock + lapse
          /\ issued' = [issued EXCEPT ![c] =
                         Append(@, Seal(Attestation(c, clock'), <<"key of", CurrentVersion>>))]
    BY <1>2, Zenon DEF Attest
  <2>2. UNCHANGED <<manifest, held>>
    BY <1>2, Zenon DEF Attest, supply
  <2>3. clock' \in Nat
    <3>1. clock \in Nat /\ lapse \in Nat
      BY LapsesAssumption DEF IssuedInFull
    <3>2. clock' = clock + lapse
      BY <2>1, Zenon
    <3> QED
      BY <3>1, <3>2
  <2>4. Attested(d, c, n + 1)
    BY <1>1, <2>3, NextIsAttested
  <2> HIDE DEF d
  <2>5. /\ DOMAIN issued = Capsules /\ n \in Nat /\ DOMAIN issued[c] = 1 .. n
    BY <1>1, ActivityAssumption DEF IssueInv
  <2>6. /\ \A b \in Capsules : b # c => issued'[b] = issued[b]
        /\ issued'[c] = Append(issued[c], d)
    BY <2>1, <2>5 DEF d
  <2>7. /\ DOMAIN issued'[c] = 1 .. n + 1
        /\ \A m \in 1 .. n : issued'[c][m] = issued[c][m]
        /\ issued'[c][n + 1] = d
    BY <2>5, <2>6
  <2>8. ASSUME NEW b \in Capsules, NEW m \in DOMAIN issued'[b]
        PROVE  Attested(issued'[b][m], b, m)
    <3>1. CASE b = c /\ m = n + 1
      BY <2>4, <2>7, <3>1
    <3>2. CASE b # c \/ m \in 1 .. n
      <4>1. m \in DOMAIN issued[b] /\ issued'[b][m] = issued[b][m]
        BY <2>5, <2>6, <2>7, <3>2
      <4> QED
        BY <4>1 DEF IssuedInFull
    <3> QED
      BY <2>5, <2>7, <3>1, <3>2
  <2> QED
    BY <2>2, <2>3, <2>8 DEF IssuedInFull
<1>3. ASSUME NEW i \in DOMAIN Versions, Rotate(i)
      PROVE  IssuedInFull'
  <2>1. KeyedManifest(manifest')
    BY <1>3, RotationIsKeyed DEF IssuedInFull
  <2>2. UNCHANGED <<clock, issued, held>>
    BY <1>3, Zenon DEF Rotate, supply
  <2> QED
    BY <2>1, <2>2 DEF IssuedInFull
<1>4. CASE Revoke
  <2>1. KeyedManifest(manifest')
    <3>1. manifest' = [manifest EXCEPT ![DefaultAuthority].revoked = TRUE]
      BY <1>4, Zenon DEF Revoke
    <3>2. manifest[DefaultAuthority] = AuthorityRecord(manifest[DefaultAuthority].active_versions,
            manifest[DefaultAuthority].archived_versions, manifest[DefaultAuthority].revoked)
      BY <1>1 DEF IssueInv, Proper
    <3> QED
      BY <3>1, <3>2 DEF IssuedInFull, KeyedManifest, AuthorityRecord
  <2>2. UNCHANGED <<clock, issued, held>>
    BY <1>4, Zenon DEF Revoke, supply
  <2> QED
    BY <2>1, <2>2 DEF IssuedInFull
<1>5. CASE FetchManifest
  BY <1>5 DEF FetchManifest, IssuedInFull, world
<1>6. CASE UNCHANGED <<clock, issued, manifest, held>>
  BY <1>6 DEF IssuedInFull
<1>7. \/ \E c \in Capsules : Attest(c)
      \/ \E i \in DOMAIN Versions : Rotate(i)
      \/ Revoke
      \/ FetchManifest
      \/ UNCHANGED <<clock, issued, manifest, held>>
  BY DEF Next, Issuing, Supplying, Walking, Collect, Take, Edit, Relink, Change, Submit,
         VerifyDocument, BeginLinkage, Link, Conclude, FailChain, Disclose, vars, world, supply
<1> QED
  BY <1>2, <1>3, <1>4, <1>5, <1>6, <1>7

-----------------------------------------------------------------------------
(* The walk accepts a genuine chain at every step.                         *)

\* What makes a chain acceptable is settled when the walk begins.
LEMMA AcceptableIsKept ==
  ASSUME UNCHANGED <<issued, held, docs>>, NEW c, NEW lo, NEW hi, Acceptable(c, lo, hi)'
  PROVE  Acceptable(c, lo, hi)
BY DEF Acceptable, Contiguous

\* The sort puts the attestations in their places.
LEMMA SubmitAccepts ==
  ASSUME Inv, phase = "supply", Submit
  PROVE  AcceptedSoFar'
<1>1. /\ phase' = "documents"
      /\ ordered' = [k \in DOMAIN docs |-> docs[CHOOSE i \in DOMAIN docs : Rank(i) = k]]
  BY DEF Submit
<1>2. UNCHANGED <<issued, held, docs, all_signatures_checked>>
  BY Zenon DEF Submit, world, supply
<1>3. all_signatures_checked
  BY DEF Inv, WalkInv
<1>4. ASSUME NEW c \in Capsules, NEW lo \in DOMAIN issued'[c], NEW hi \in DOMAIN issued'[c],
             Acceptable(c, lo, hi)'
      PROVE  \A k \in DOMAIN ordered' : ordered'[k] = issued'[c][lo + k - 1]
  <2>1. Acceptable(c, lo, hi) /\ lo \in DOMAIN issued[c] /\ hi \in DOMAIN issued[c]
    BY <1>2, <1>4, AcceptableIsKept
  <2>2. ASSUME NEW k \in DOMAIN docs PROVE ordered'[k] = issued[c][lo + k - 1]
    <3>1. docs[CHOOSE i \in DOMAIN docs : Rank(i) = k] = issued[c][lo + k - 1]
      BY <2>1, RankOfAttestation DEF Acceptable
    <3> QED
      BY <1>1, <3>1
  <2> QED
    BY <1>1, <1>2, <2>2
<1> QED
  BY <1>1, <1>2, <1>3, <1>4 DEF AcceptedSoFar

\* An attestation's verdict does not end the walk.
LEMMA VerifyDocumentAccepts ==
  ASSUME Present, FullInv, phase = "documents", VerifyDocument
  PROVE  AcceptedSoFar'
<1> DEFINE verdict == VerifyBoundaryAttestation(ordered[at + 1], held)
<1>1. UNCHANGED <<issued, held, docs, ordered>>
  BY WalkReads DEF Walking, FullInv
<1>2. /\ at < Len(ordered)
      /\ \/ ~verdict.valid
         \/ /\ verdict.valid
            /\ all_signatures_checked' = (all_signatures_checked /\ verdict.signature_checked)
            /\ phase' = phase
  BY Zenon DEF VerifyDocument
<1>3. IsList(ordered) /\ at \in Nat /\ at + 1 \in DOMAIN ordered
  BY <1>2 DEF FullInv, Inv, OrderInv, IsList
<1> HIDE DEF verdict
<1>4. ASSUME NEW c \in Capsules, NEW lo \in DOMAIN issued'[c], NEW hi \in DOMAIN issued'[c],
             Acceptable(c, lo, hi)'
      PROVE  /\ \A k \in DOMAIN ordered' : ordered'[k] = issued'[c][lo + k - 1]
             /\ all_signatures_checked'
             /\ phase' = "documents"
  <2>1. Acceptable(c, lo, hi) /\ lo \in DOMAIN issued[c] /\ hi \in DOMAIN issued[c]
    BY <1>1, <1>4, AcceptableIsKept
  <2>2. (\A k \in DOMAIN ordered : ordered[k] = issued[c][lo + k - 1]) /\ all_signatures_checked
    BY <2>1 DEF FullInv, AcceptedSoFar
  <2>3. verdict.valid /\ verdict.signature_checked
    <3> DEFINE n == lo + (at + 1) - 1
    <3>1. ordered[at + 1] = issued[c][n]
      BY <1>3, <2>2
    <3>2. n \in lo .. hi /\ n \in DOMAIN issued[c]
      <4>1. Len(issued[c]) \in Nat /\ DOMAIN issued[c] = 1 .. Len(issued[c])
        BY ActivityAssumption DEF FullInv, Inv, IssueInv
      <4>2. Len(ordered) = hi - lo + 1
        BY <2>1 DEF Acceptable, Contiguous, FullInv, Inv, OrderInv
      <4> QED
        BY <1>2, <1>3, <2>1, <4>1, <4>2
    <3>3. held # NoValue =>
            /\ ~held[DefaultAuthority].revoked
            /\ issued[c][n].public_key \in PublishedKeys(held)
      BY <2>1, <3>2 DEF Acceptable
    <3> HIDE DEF n
    <3>4. /\ VerifyBoundaryAttestation(issued[c][n], held).valid
          /\ VerifyBoundaryAttestation(issued[c][n], held).signature_checked
      BY <3>2, <3>3, AttestationPasses DEF FullInv
    <3> QED
      BY <3>1, <3>4 DEF verdict
  <2> QED
    BY <1>1, <1>2, <2>2, <2>3
<1> QED
  BY <1>4 DEF AcceptedSoFar

\* Nor does its link.
LEMMA LinkAccepts ==
  ASSUME FullInv, phase = "linkage", Link
  PROVE  AcceptedSoFar'
<1>1. UNCHANGED <<issued, held, docs, ordered>>
  BY WalkReads DEF Walking, FullInv
<1>2. /\ at < Len(ordered)
      /\ LinkFailure(at + 1) = NoValue => phase' = phase
      /\ all_signatures_checked' = all_signatures_checked
  BY Zenon DEF Link, FailChain
<1>3. IsList(ordered) /\ at \in Nat /\ at + 1 \in DOMAIN ordered
  BY <1>2 DEF FullInv, Inv, OrderInv, IsList
<1>4. ASSUME NEW c \in Capsules, NEW lo \in DOMAIN issued'[c], NEW hi \in DOMAIN issued'[c],
             Acceptable(c, lo, hi)'
      PROVE  /\ \A k \in DOMAIN ordered' : ordered'[k] = issued'[c][lo + k - 1]
             /\ all_signatures_checked'
             /\ phase' = "linkage"
  <2>1. Acceptable(c, lo, hi) /\ lo \in DOMAIN issued[c] /\ hi \in DOMAIN issued[c]
    BY <1>1, <1>4, AcceptableIsKept
  <2>2. (\A k \in DOMAIN ordered : ordered[k] = issued[c][lo + k - 1]) /\ all_signatures_checked
    BY <2>1 DEF FullInv, AcceptedSoFar
  <2>3. /\ Len(ordered) = hi - lo + 1
        /\ \A n \in lo + 1 .. hi : issued[c][n - 1].cutoff_ts < issued[c][n].cutoff_ts
    BY <2>1 DEF Acceptable, Contiguous, FullInv, Inv, OrderInv
  <2>4. LinkFailure(at + 1) = NoValue
    BY <1>3, <2>1, <2>2, <2>3, AttestationsLink DEF FullInv
  <2> QED
    BY <1>1, <1>2, <2>2, <2>4
<1> QED
  BY <1>4 DEF AcceptedSoFar

\* What does not end the walk, or ends it well, keeps what is accepted.
LEMMA OthersAccept ==
  ASSUME AcceptedSoFar, phase \notin {"issue", "supply"},
         UNCHANGED <<issued, held, docs, ordered, all_signatures_checked>>,
         phase' = "done" => result'.valid \/ (phase = "done" /\ result' = result)
  PROVE  AcceptedSoFar'
<1>1. ASSUME NEW c \in Capsules, NEW lo \in DOMAIN issued'[c], NEW hi \in DOMAIN issued'[c],
             Acceptable(c, lo, hi)'
      PROVE  /\ \A k \in DOMAIN ordered' : ordered'[k] = issued'[c][lo + k - 1]
             /\ all_signatures_checked'
             /\ phase' = "done" => result'.valid
  <2>1. Acceptable(c, lo, hi) /\ lo \in DOMAIN issued[c] /\ hi \in DOMAIN issued[c]
    BY <1>1, AcceptableIsKept
  <2>2. /\ \A k \in DOMAIN ordered : ordered[k] = issued[c][lo + k - 1]
        /\ all_signatures_checked
        /\ phase = "done" => result.valid
    BY <2>1 DEF AcceptedSoFar
  <2> QED
    BY <2>2
<1> QED
  BY <1>1 DEF AcceptedSoFar

\* The walk, step by step.
LEMMA AcceptStep ==
  ASSUME Present, FullInv, [Next]_vars
  PROVE  AcceptedSoFar'
<1>1. AcceptedSoFar /\ Inv
  BY DEF FullInv
<1>2. CASE phase' \in {"issue", "supply"}
  BY <1>2 DEF AcceptedSoFar
<1>3. CASE phase = "supply" /\ Submit
  BY <1>1, <1>3, SubmitAccepts
<1>4. CASE phase = "documents" /\ VerifyDocument
  BY <1>4, VerifyDocumentAccepts
<1>5. CASE phase = "documents" /\ BeginLinkage
  <2>1. /\ phase' = "linkage"
        /\ UNCHANGED <<issued, held, docs, ordered, all_signatures_checked>>
    BY <1>5, Zenon DEF BeginLinkage, world, supply
  <2> QED
    BY <1>1, <1>5, <2>1, OthersAccept
<1>6. CASE phase = "linkage" /\ Link
  BY <1>6, LinkAccepts
<1>7. CASE phase = "linkage" /\ Conclude
  <2>1. result'.valid /\ UNCHANGED <<issued, held, docs, ordered, all_signatures_checked>>
    BY <1>7 DEF Conclude, world, supply
  <2> QED
    BY <1>1, <1>7, <2>1, OthersAccept
<1>8. CASE phase = "done" /\ \E k \in DOMAIN ordered, events \in Disclosures : Disclose(k, events)
  <2>1. UNCHANGED <<result, issued, held, docs, ordered, all_signatures_checked>>
    BY <1>8, Zenon DEF Disclose, world, supply, walk
  <2> QED
    BY <1>1, <1>8, <2>1, OthersAccept
<1>9. CASE UNCHANGED vars
  <2>1. UNCHANGED <<phase, result, issued, held, docs, ordered, all_signatures_checked>>
    BY <1>9, Zenon DEF vars, world, supply, walk
  <2> QED
    BY <1>1, <1>2, <2>1, OthersAccept
<1>10. \/ phase' \in {"issue", "supply"}
       \/ phase = "supply" /\ Submit
       \/ phase = "documents" /\ (VerifyDocument \/ BeginLinkage)
       \/ phase = "linkage" /\ (Link \/ Conclude)
       \/ phase = "done" /\ \E k \in DOMAIN ordered, events \in Disclosures : Disclose(k, events)
       \/ UNCHANGED vars
  BY DEF Next, Issuing, Attest, Rotate, Revoke, FetchManifest, Collect, Supplying, Take, Edit,
         Relink, Change, Walking
<1> QED
  BY <1>2, <1>3, <1>4, <1>5, <1>6, <1>7, <1>8, <1>9, <1>10

\* GenuineChainAccepted: the walk has ended well, with everything checked, and
\* its result is of the chain that was supplied.
LEMMA GenuineChainPasses ==
  ASSUME FullInv
  PROVE  GenuineChainAccepted
<1> SUFFICES ASSUME result # NoValue, NEW c \in Capsules,
                    NEW lo \in DOMAIN issued[c], NEW hi \in DOMAIN issued[c], Acceptable(c, lo, hi)
             PROVE  /\ result.valid
                    /\ result.all_signatures_checked
                    /\ result.chain_span = <<lo, hi>>
                    /\ result.genesis_anchored <=> lo = 1
                    /\ held # NoValue => \A k \in DOMAIN ordered : per_document[k].trust_anchored
  BY DEF GenuineChainAccepted, Acceptable
<1>1. phase = "done" /\ ResultInv
  BY DEF FullInv, Inv, WalkInv
<1>2. /\ \A k \in DOMAIN ordered : ordered[k] = issued[c][lo + k - 1]
      /\ all_signatures_checked /\ result.valid
  BY <1>1 DEF FullInv, AcceptedSoFar
<1>3. /\ VerifiedUpTo(Len(ordered)) /\ LinkedUpTo(Len(ordered))
      /\ result.all_signatures_checked = all_signatures_checked
      /\ result.genesis_anchored = genesis_anchored
      /\ result.chain_span = Span
  BY <1>1, <1>2 DEF ResultInv
<1> DEFINE N == Len(ordered)
<1>4. /\ IsList(ordered) /\ IsList(per_document) /\ N = hi - lo + 1 /\ lo <= hi
      /\ Len(issued[c]) \in Nat /\ DOMAIN issued[c] = 1 .. Len(issued[c])
  BY <1>1, ActivityAssumption DEF FullInv, Inv, OrderInv, IssueInv, Acceptable, Contiguous
<1>5. /\ DOMAIN ordered = 1 .. N /\ N \in Nat /\ 1 \in DOMAIN ordered /\ N \in DOMAIN ordered /\ N > 0
      /\ lo + 1 - 1 = lo /\ lo + N - 1 = hi
  BY <1>4 DEF IsList
<1>6. ordered[1].attestation_index = lo /\ ordered[N].attestation_index = hi
  <2>1. ordered[1] = issued[c][lo] /\ ordered[N] = issued[c][hi]
    <3>1. ordered[1] = issued[c][lo + 1 - 1] /\ ordered[N] = issued[c][lo + N - 1]
      BY <1>2, <1>5
    <3> HIDE DEF N
    <3> QED
      BY <1>5, <3>1
  <2>2. Attested(issued[c][lo], c, lo) /\ Attested(issued[c][hi], c, hi)
    BY DEF FullInv, IssuedInFull
  <2> QED
    BY <2>1, <2>2 DEF Attested
<1>7. result.chain_span = <<lo, hi>>
  <2>1. ordered # <<>>
    BY <1>5, EmptyIsList
  <2> QED
    BY <1>3, <1>6, <2>1 DEF Span
<1>8. result.genesis_anchored <=> lo = 1
  BY <1>3, <1>5, <1>6 DEF LinkedUpTo
<1>9. ASSUME held # NoValue, NEW k \in DOMAIN ordered
      PROVE  per_document[k].trust_anchored
  <2>1. k \in DOMAIN per_document /\ per_document[k].signature_checked
    BY <1>2, <1>3, <1>4, <1>5 DEF VerifiedUpTo, IsList
  <2>2. per_document[k] = VerifyBoundaryAttestation(ordered[k], held)
    BY <2>1 DEF FullInv, Inv, OrderInv
  <2> QED
    BY <1>9, <2>1, <2>2, CheckedIsAnchored
<1> QED
  BY <1>2, <1>3, <1>7, <1>8, <1>9

\* Nothing is attested at the start.
LEMMA InitFull ==
  ASSUME Init
  PROVE  IssuedInFull /\ AcceptedSoFar
<1>1. clock \in Nat /\ held = NoValue /\ phase = "issue"
  BY DEF Init
<1>2. KeyedManifest(manifest)
  <2> DEFINE one == <<KeyVersionRecord(Versions[1], <<"key of", Versions[1]>>)>>
  <2>1. Keyed(one)
    <3>1. 1 \in DOMAIN Versions
      BY VersionsAssumption
    <3> QED
      BY <3>1, KeyedOne, Zenon
  <2>2. Keyed(<<>>)
    BY DEF Keyed, IsList
  <2>3. 1 \in DOMAIN one
    OBVIOUS
  <2>4. manifest = [a \in {DefaultAuthority} |-> AuthorityRecord(one, <<>>, FALSE)]
    BY Zenon DEF Init
  <2> HIDE DEF one
  <2> QED
    BY <2>1, <2>2, <2>3, <2>4 DEF KeyedManifest, AuthorityRecord
<1>3. \A c \in Capsules : DOMAIN issued[c] = {}
  <2>1. issued = [c \in Capsules |-> <<>>]
    BY Zenon DEF Init
  <2> QED
    BY <2>1
<1> QED
  BY <1>1, <1>2, <1>3 DEF IssuedInFull, AcceptedSoFar

\* A reader is never refused what is genuine: successive attestations of one
\* capsule, as issued, with their keys published and unrevoked, pass in
\* whatever order they come, with all their signatures and with their span
\* (boundary.rs, verify_boundary_chain), provided that a hash and a signature
\* are something.
THEOREM GenuineIsAccepted ==
  ASSUME Present
  PROVE  Spec => []GenuineChainAccepted
<1>1. Init => FullInv
  BY InitInv, InitFull DEF FullInv
<1>2. FullInv /\ [Next]_vars => FullInv'
  <2> SUFFICES ASSUME FullInv, [Next]_vars PROVE FullInv'
    OBVIOUS
  <2>1. Inv /\ IssuedInFull
    BY DEF FullInv
  <2>2. Inv'
    BY <2>1, IssueStep, SupplyStep, WalkStep DEF Inv
  <2>3. IssuedInFull'
    BY <2>1, IssueInFullStep
  <2>4. AcceptedSoFar'
    BY AcceptStep
  <2> QED
    BY <2>2, <2>3, <2>4 DEF FullInv
<1>3. FullInv => GenuineChainAccepted
  BY GenuineChainPasses
<1> QED
  BY <1>1, <1>2, <1>3, PTL DEF Spec
=============================================================================
