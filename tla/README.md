# Verification of nanorix-verify

TLA+ modules, TLC configurations and TLAPS proofs kept beside the offline
AuditProof verifier. Section 1 says what the system is and what can go wrong in
it, section 2 what is modelled, section 3 what is checked, section 4 what is
proved, section 5 what is left out.

## 1. The system

An *AuditProof* is a signed JSON document about one capsule: what it did (its
activity trail), that its eight destruction steps ran (a hash chain), what it
processed (record receipts), where it came from (parent proofs), and, possibly,
what its customer says it did (an activity root). An issuer builds and signs it;
anybody may later verify it, offline, with one of four implementations: Rust
(`tools/nanorix-verify`), Go, Python, TypeScript. Hardly anything runs
concurrently in a verifier and nothing is persisted. What makes the program hard
is that a verdict is a *claim about the past*, made by composing a dozen checks
on a document that may have changed in between, over format versions whose
signatures cover different things, under keys that have been rotated since, by
four programs that have to agree.

### Inventory

| Component | State it keeps | Operations | Correct when |
|---|---|---|---|
| AuditProof ladder (`lib.rs`) | stage, disclosed metadata, verdict | `verify_auditproof`, stages 1–8, early returns | a verdict says no more of the issued proof than holds, and no less of an unchanged one |
| Signed message (`canonical_recompute.rs`) | – | message of each version, canonical view, embedded-key and manifest-key check | what the view leaves out is never relied on |
| Merkle trees (`lib.rs`, `streaming_merkle.rs`) | – | two trees, different odd-tail rules | a root pins the set under it |
| Streaming walk (`streaming_merkle.rs`) | one accumulator | started / chunk / completed events | genuine trails pass, truncated ones too; altered leaves do not |
| Customer activity (`customer_activity.rs`) | – | gate, split, root, compare | "checked" means the very lines |
| Trust chain (`trust_chain.rs`) | manifest: active and archived versions, revoked | sign, load, `verify_signature` under a pin, `find_key` | what is trusted was signed by the pinned identity; keys outlive rotation, not revocation |
| Authority walk (`chain_walk.rs`) | – (reads a held manifest) | `walk_authority_chain` | the same, per proof timestamp |
| Parent chain (`verify-types/chain.rs`) | visited, cache, recursion | `verify_chain` with a fetch callback | an accepted chain is whole; the walk ends |
| Receipt bundle (`bundle.rs`) | – | extract, verify | a bundle that verifies holds a receipt of its proof; a genuine one verifies |
| Public-key bundle (`pubkey_bundle.rs`) | – | build, verify, resolve at a time / forever | the key a lookup answers with is the one that signed |
| Boundary attestations (`boundary.rs`) | rolling state of the linkage walk | one document, a chain of them, a disclosed trail | a signed document vouches for all before it; exit code 0 for all |
| Checkpoints (`checkpoint.rs`) | – | RFC 6962 / 9162 root, inclusion, consistency | no rewritten history is followed; genuine proofs verify at every size |
| Command line (`main.rs`) | stack of directories, report | options, one proof, a batch, exit codes | the exit code says no more than was checked; no file is lost; it ends |
| Go, Python, TypeScript ports | – | the same ladder and bundles | one verdict in four languages |
| Output bundle, wire types | – | shape checks, enumerations | – |

### How they interact

`main` settles the trust root first (load, pin, `verify_signature`), then the
customer's record, then dispatches. `verify_auditproof` calls the others in a
fixed order: gates on unsigned fields (customer activity) → authority and
residency pins → the chain and its Merkle roots → streaming walk → the customer's
record → final hash → embedded-key signature → `anchor_to_trust_chain`, which
looks the key up in the manifest and verifies the same signature again under it.
`verify_boundary_chain` uses the same manifest lookup for each attestation before
it walks the links. `verify_chain` is called with a callback that fetches
parents. `walk_authority_chain` reads the manifest for customer-held keys. A
receipt bundle is cut out of an AuditProof and outlives it; a public-key bundle
answers which key a parent proof was signed with. Batch mode walks a directory
that others may change meanwhile. The command line turns verdicts into exit
codes.

### What is hard here

`PROJECT.json`, "hazards", has each at its line. A check that reads at stage 2
what is only signed at stage 7; a list shown without the root that binds it; an
odd tail that repeats; an index that is truncated before it is hashed; one
accumulator for interleaved streams; a callback that answers anything; a cache;
times compared as strings; an auditor whose manifest is old; closed windows that
overlap in one instant; an unsigned document between signed ones; a message that
is decided once at extraction and once at verification; a directory read at one
time and its files at another; a rung that one of four ladders lacks.

## 2. What is modelled

### Modules

| Module | Models | State and actions |
|---|---|---|
| `Optional` | – | `NoValue`: JSON null, absent, `None` |
| `Merkle` | both trees | `MerkleRoot`, `StreamRoot`, level by level as the loops do |
| `StreamingMerkle` | the streaming walk as a definition | `VerifyStreamingMerkleRoots` |
| `EgressStreams` | streams writing a trail, and the walk over it | `StartStream` … `Seal` write, `AlterChunk` … change, `WalkStarted` / `WalkChunk` / `WalkCompleted` / `WalkOther` are the arms of the match in the loop |
| `CustomerActivity` | the activity root | operators |
| `AuditProofDocument` | the document, its hashes, its signed message | operators |
| `AuditProofIssuer` | how genuine proofs are built | `IssueProof` |
| `TrustChain` | manifest and `find_key` | operators |
| `TrustRoot` | the signed manifest and its way to `main` | `Publish`, `Rotate`, `Revoke`, `Impersonate` before; `Fetch`, `TakeField`, `LoseField`, `FillPqc` on the way; `SetUp` is `main`'s settling of the trust root |
| `AuditProof` | the ladder | one action per rung, `CheckVersion` … `AnchorToTrustChain`; before it `EditField`, `SwapSignature`, `SignAnew` |
| `AuditProofProperties` | what a verdict entitles its reader to | properties, refinement mapping |
| `VerifierOutcome` | abstract specification: one final answer of four | `Fail`, `Partial`, `Integrity`, `Authenticity` |
| `PortedLadders` | the ladders of Go, Python and TypeScript | rungs as functions of document and policy, in each port's own order, judged beside the Rust ladder in the same state |
| `ReceiptBundle` | `bundle.rs`: extraction, verification, and what may happen to proof and bundle | `TakeProofField`, `LoseProofField`; `TakeField`, `Forge`, `SpoilBody`, `SpoilReceipt`, `RewriteIndex`, `BlankCanonicalHash`, `Reroot`, `SignAnew`, … |
| `PortedBundles` | the receipt bundle in four languages | `Extract` in any one of them, `Verify` in all |
| `PubkeyBundle` | `pubkey_bundle.rs`, and the ports' lookup | `SignProof`, `RotateKey`, `Publish`; `TakeField`, `MoveEntry`, `ReopenEntry`, …; `Verify` |
| `BoundaryAttestation` | stages 1–3 of one attestation, and its trail | operators; a stage is a list of checks of which the first that fails is the reason |
| `BoundaryChain` | attesting capsules, a rotating authority, and `verify_boundary_chain` | `Attest`, `Rotate`, `Revoke`; `Take`, `Edit`, `Relink`; `Submit` sorts, `VerifyDocument` and `Link` are one round each of the two loops, `Conclude`, `Disclose` |
| `ChainWalk` | `verify_chain` | one action per step and per error of `verify_chain_impl` |
| `AuthorityRotation` | rotation of a customer authority, and `walk_authority_chain` | `AddVersion`, `ArchiveVersion`, `Revoke`, `Issue`, `FetchManifest`, `Walk` |
| `Checkpoint` | leaves, tree, proofs and verification of `checkpoint.rs`; one iteration of a verifying loop is `Rise` | operators |
| `TransparencyLog` | a publisher that may rewrite its log, an auditor that follows it | `AppendLeaf`, `ReplaceLeaf`, `LoseLeaf`; `FollowFirst`, `Follow`, `Anchor` |
| `CommandLine` | `main.rs`: options in order, one proof, a batch | `SettleTrustRoot`, `ReadRecord`, `VerifyPath`, `StartBatch`, `OpenDirectory`, `ReadEntry`, `SortFiles`, `VerifyOneForBatch`, `FinishBatch`; `ChangeNode` is everybody else |
| `MC*` | instances for TLC | constants; `MCAuditor` puts two specifications side by side |
| `Common_proofs` | – | lemmas on lists, lookups, Merkle trees and induction |
| `AuditProof_proofs`, `AuthorityRotation_proofs`, `BoundaryChain_proofs`, `PubkeyBundle_proofs`, `PortedBundles_proofs` | – | the theorems about the module they are named after, and their lemmas |
| `Anchors_proofs` | – | the theorems about what an auditor anchors trust in: `TrustRoot`, and `TransparencyLog` with `Checkpoint` |
| `Walks_proofs` | – | the theorems about the walks: `ChainWalk`, `CommandLine`, and `EgressStreams` with `StreamingMerkle` |

`AuditProofIssuer` and `TrustChain` are extended by `AuditProof`; `TrustChain`
also by `TrustRoot`, `AuthorityRotation` and `BoundaryAttestation`;
`StreamingMerkle` by `AuditProofDocument` and `EgressStreams`, which shows that
the definition the ladder uses is what the mutable walk computes; `AuditProof` by
`PortedLadders`; `AuditProofIssuer` by `ReceiptBundle`, and that by
`PortedBundles`.

### Abstractions

* **Hashes are terms.** A hash is the tuple it was computed from, so equal
  hashes mean equal inputs: SHA-512 without collisions, JCS injective. The
  ambiguities that are the *code's* are kept: step 8 does not say which of the
  two roots a single root is, the odd tail of a level is paired with itself,
  `record_index` is taken modulo `IndexModulus` (2^32 in the code, 4 here; 2^64
  for `attestation_index`).
* **Signatures are ideal.** `Sign(key, message)` can be made only by the key's
  holder; `SignAnew` and the seal `"foreign"` use foreign keys only.
* **Fields are opaque** unless a check looks into them. All signed fields of an
  AuditProof that no check reads are one field, `body`. A receipt is its index and
  its body, and the bundles tell the fields of the body apart: id, hashes, trail
  and tag, each of which a bundle may lack (`NoValue`) or have empty (`NoText`).
* **Conversions that forget are kept.** `signing_key_version` is hashed as the
  number it stands for (`KeyVersionNumber`): `ParseI64` takes `"2"`, `"02"` and
  `"+2"` to one value, and what is absent or no number to 0, as
  `canonical_recompute.rs:88-93` does. The version in the attestation, which no
  signature covers, names the key where it is present; so the text in the document
  may change under an authentic verdict, and `SignedViewIsIssued` promises the
  number only.
* **Proofs that reach the auditor** of the log are those made from the log or
  from the leaves last followed, for any size and index, whole, cut at either
  end or with a digest too many; checkpoint signatures are the publisher's and
  no part of this repository.
* **A step's hash** depends on its index, the time and the roots; subsystem,
  action and method are constants of the index.
* **Manifest.** `ManifestAssumption` says that a manifest `AuditProof` is given
  publishes no foreign key. `TrustRoot` is where that comes from: a manifest
  reaches a proof only through `SetUp`, and `TrustedManifestIsSigned` says that
  it reads as the pinned identity signed it.
* **Times** are instants, except where their text matters: `AuthorityRotation`
  keeps what a string comparison sees of them, `PubkeyBundle` whether a date that
  is written parses, `BoundaryAttestation` has one text that does not.
* **2.0 documents** sign a field, `document_hash`, that the verifier does not
  recompute; the properties about content exclude 2.0 by name
  (`ChainBindingVersions`), as they would not hold.
* **The file system** is a tree of numbered nodes, numbered in the order of their
  paths; a symbolic link is a node of kind `"other"`. Files change between the
  steps of the program, not within the reading of one. The ladder's verdict of a
  file is a function of its kind, taken from the properties above.
* **Ports.** `LaddersAgree` and `LanguagesAgree` are about documents whose
  indices fit 32 bits (`Narrow`, `NarrowIndex`), and about a reader without a
  manifest, which no port knows. How the JSON of one language renders a number
  another one reads, what Go's conversion of an out-of-range float yields, and
  which texts each language's `int()` accepts for a key version are left out: the
  instances have texts that all four read alike. Receipts in bundles are read from
  untyped JSON, and the ways in which the languages differ are in the model where
  they take a missing field, an empty one, or an index written `1.0`, `1.5` or `"1"`.
  Left out of it are negative indices and exponents, an explicit `null` (Python
  hashes the text `None`), path entries that are no strings, base64 that does not
  decode in one language and does in another, and strings empty in the proof
  already, before extraction.
* `signing_authority`, which the authority pin reads, is in no signed message;
  so no property says that the authority pin was met at issue. Residency is read
  from the trail, which is signed, and `ResidencyHonoured` says so.

## 3. What is checked

Every run is checked for deadlock. A run that has ended has an explicit stuttering
step, and so has the log of `renewals`, whose publisher and auditor may stop.

| Run | Question | Bounds and why they suffice |
|---|---|---|
| `ladder` | What does a stage-8 verdict mean, is a genuine proof ever refused, and do four ladders agree? | ten kinds of proof (every version; rotated, archived, revoked, foreign-mode and absent keys; legacy time), eight policies, every field edited to every value of another profile or of a known trap; up to two changes: a list together with its root, or a version with the field it unlocks. Three receipts, parents and lines: the least odd tail that pads |
| `outcome` | Does the ladder implement `VerifierOutcome`, and always answer? | one change; the activity edits are left to `ladder` (TLC evaluates ENABLED here) |
| `streams` | Do the leaves decide where streams do not overlap, and does the walk compute its definition where they do? | two streams of up to two chunks sharing a chunk hash, one other event, two changes of the trail |
| `any_callback` | `verify_chain` against any callback | four capsules, two customers, depths 0, 1, 3, 6: shallower than, equal to and beyond every walk |
| `renewals` | What an auditor renews: do keys outlive rotation and not revocation? Do the iterative verifications agree with the recursive tree, and is a rewritten log ever followed? | two versions over two seconds in half-second steps; written times that sort as the instants do. Six leaves: sizes 1 to 6 have every pair of sizes around the powers of two, and a last leaf that skips two levels (5). `AuthorityRotation` and `TransparencyLog` share no variable and no property, so only one of them leaves its initial state in a behaviour (`MCAuditor`) |
| `mixed_precision` | expected violation: times written in two precisions | the rotation of `renewals`, with whole seconds beside fractions |
| `boundary` | What do exit code 0, an anchored attestation and a disclosed trail say? | two capsules with two and one attestations, one rotation, one revocation; any two documents in any order, so that pairs, duplicates, gaps and mixtures occur; one change of any field or link, closed in four ways; trails of up to two events |
| `trust_root` | What is a trusted manifest, and is it ever left aside? | two identities, two versions, a revocation, two times of issue, two changes of any field; every pin; with and without a later schema |
| `pubkeys` | Does the key found belong to the proof, and is what verifies what was published? | two publishers, two keys under two ids or one used again, three instants: before, at and after the rotation; one change |
| `bundles` | What does a receipt bundle prove without its proof, and do four languages agree? | seven proofs of every version with one to three receipts or none, each receipt and one beyond; two changes before or after extraction, among them every field of a receipt missing or empty and every form of its index |
| `portable` | expected violation: what the comments say of 2.0 bundles and of the ports | the same proofs, nothing altered |
| `command_line` | What do the exit codes say, is a file missed, does it end? | every state of every option; two directories with a file each, so that the stack holds two; nine kinds per node; one change at any moment |

Every property of a passing run has a mutant in `PROJECT.json`: a change of the modelled code
that a plausible mistake would make and that the property refutes.

### Fairness

`WF_vars(Ladder)`, `WF_vars(Walk)` and `WF_programVars(Run)` only: `verify_auditproof`,
`verify_chain` and `main` are functions that run once called, and each of their
steps is enabled until the last. Nothing is assumed of readers, issuers,
rotation, of those who change files, or of what a callback answers, only that it
returns. The other modules assume no fairness and state no liveness.

### The findings

Each is a run of one property that is expected to be violated: a promise that the
repository makes in words and the code does not keep.

* `mixed_precision`: `walk_authority_chain` compares RFC 3339 strings. A proof
  stamped in whole seconds sorts after an `archived_at` of the same second that has
  a fraction (`Z` after `.`), so a proof issued before its key was archived is
  refused when signer and manifest write different precisions.
* `portable`: `PortableBundleVerifies` says that the bundle of an unaltered proof
  verifies in every language, as `bundle.rs:5-7` ("MUST produce byte-identical bundle
  JSON"), `bundle.py:4` and `bundle.ts:4` ("pure port") have it. Python and TypeScript
  know no signature target: they extract bundles without one, and verify every bundle
  over step 8, so that they refuse each 2.1 or 2.2 bundle that Rust extracts; this is
  what the run shows. The bundle of a 2.0 proof verifies nowhere: extraction names step 8
  as what is signed (`bundle.rs:34-36`, 65-66, 277, `bundle.go:335`, and the tests at
  `bundle.rs:743-748` and 1285-1313, which sign a 2.0 proof so), and the generator and
  `signed_message` have a 2.0 proof signed over `document_hash`.
  `GenuineBundleVerifies` is about the bundles that do verify.

### Other places where documents and code part

The properties of the passing runs say what the code does, and leave these out by
name where they touch them:

* An *unsigned* 2.1 or 2.2 document that declares an unimplemented signing mode is valid
  at stage 4, because the missing signature is noticed before the mode is read.
  `docs/signed-containment-evidence.md:154-155` wants every such document rejected,
  and 160-163 the two conditions told apart. `Satisfies` excludes these documents, so
  `GenuineProofAccepted` and `ImplementsVerifierOutcome` ask no acceptance of them.
* Two streams that overlap, each in order and nothing altered, may fail the walk,
  although `streaming_merkle.rs:166-168` says an interleaved trail is walked correctly.
  Read narrowly (only other events interleave) the comment holds: `LeavesDecide` is
  about streams that do not overlap, and `WalkIsItsDefinition` says what the one
  accumulator holds of those that do.
* `bundle.go:3` says it mirrors `bundle.rs` byte for byte. It reads a missing hash as an
  empty one, cuts an index to a whole number, and takes an empty id, hash or
  canonical hash for a missing one. Python takes an index out of a text and an empty tag
  for none; TypeScript hashes a fraction as it is written and answers a missing hash
  with a `TypeError`. These are the cases of `ReadsOtherwise`, which `LanguagesAgree`
  excludes.
* `verifier.go:1-2` says the ladder mirrors the Rust one. Go has no rung for the
  reserved slots, none for streaming roots, and takes a set without a root.
  `LaddersAgree` names the three and shows that there are no others.
* A manifest that was signed with a field this build does not know is refused, since
  the signed payload is rebuilt from the parsed struct; `trust_chain.rs:689-690` says
  such fields are ignored. `SignedManifestTrusted` is about the others.
* A batch of unsigned documents exits with 0 (`main.rs:482`), where each alone exits
  with 3, and `tools/nanorix-verify/README.md:82` says of 0 that the signature was
  checked. `BatchZeroIsEarned`, a part of `ZeroIsEarned`, claims no more than the code
  gives.
* `effective_from`, which `chain_walk.rs:227-229` names as the window's start, is
  never compared.
* `verify_boundary_chain` applies the genesis rule to the head only if its index
  is 1. In a chain that starts at index 0 the document of index 1 carries its
  predecessor's hash, against `boundary.rs:103-104`.
* A `valid_until` that does not parse counts as still current in Rust
  (`pubkey_bundle.rs:222-226`); Go, Python and TypeScript pass the entry over.
  `ResolvedKeyWasInForce` has the disjunct.
* `verify_receipt_bundle` compares the step-8 hash with nothing but the
  signature, although `bundle.rs:31-32` lists the recomputation; so
  `ReceiptIsOfItsProof` speaks of a reader who finds the root in the source proof.
* An I/O error ends in exit code 1, although `README.md:66` reserves 2 for it.
* `record_index` is cut to 32 bits in Rust and Go, and taken as written in Python
  and TypeScript: beyond 2^32 the languages differ.

## 4. What is proved

TLAPS proves the following for every value of the constants: any number of
profiles, policies, keys, rotations, receipts, capsules and changes, where the
runs of section 3 have a few. A theorem that is listed with a property has the
form `Spec => []property`, where `Spec` is the specification of the module it is about
(`LogSpec` of `TransparencyLog`, `ProgramSpec` of `CommandLine`, `StreamsSpec` of
`EgressStreams`); `HistoryOnlyGrows` is an action property and stands there as it is.

### Assumptions

A proof uses the named `ASSUME`s of the module it is about. They say that the
lists among the constants are sequences, that bounds are natural numbers, that
`NoValue` is none of the values it stands for the absence of
(`PresenceAssumption`, `NoValueAssumption`, …), and these facts about the code's
surroundings:

* `ManifestAssumption`: the manifests of `AuditProof` publish no foreign key
  (section 2; `TrustedIsSigned` of `Anchors_proofs` is where it comes from).
* `VersionsAssumption` (`AuditProof`): an authority that lists a key version twice
  lists the same entry, so that `find_key`, which takes the first match, takes the
  right one.
* `IssuerAssumption`: an issuer writes a format version it knows, puts an activity
  root only into versions that bind it, and a trail whose streams are whole.
* `AuthorityAssumption` (`BoundaryChain`): an attestation names the authority that
  publishes the manifest, or none, which `boundary.rs` reads as that one.
* `MaxIssuedAssumption`: a capsule attests fewer than 2^64 times.
* `ActivityAssumption`, `DisclosuresAssumption`: trails are sequences of events.
* `ParentAssumption` (`CommandLine`): the nodes of the file tree are numbered, and
  each after the directory it is in, as paths sort. `ExitAssumption`: `NoValue` is no
  exit code.
* `BodiesAssumption` and `BundlePresenceAssumption` (`ReceiptBundle`): a receipt's
  body has its five fields, and an issued one has an id and hashes, the id and its
  record hash not empty; nor is an issued canonical hash, or a tag, ever empty.
* `KeyVersionAssumption` (`AuditProofDocument`): an absent key version parses as no
  number.
* `ContentAssumption` and `FieldsAssumption` (`EgressStreams`): streams send sequences
  of chunk hashes, an altered hash is none of those sent, and a number, a hash or a
  root is never taken for a field that is absent. `StreamsAssumption`: `NoValue` is no
  stream.

TLC evaluates every one of them on the runs. A few theorems have hypotheses
besides, because their formula quantifies over more than TLC can enumerate:

* `AuthenticMeansIssuedSets` assumes `IssuedLineage` and `ShownLineage`: what a
  parent list holds, issued or altered, are chain hashes, which are no nodes of a
  tree and no record hashes. The tree of the parents is over the chain hashes as
  they are, without a prefix for leaves, so the root alone does not tell a leaf from
  a node; in the ideal model of hashes the hypotheses say what SHA-512 and the
  domain tag `"step"` give.
* `GenuineIsAccepted` (`Present`), `AcceptedMeansOfItsProof` and
  `AcceptedMeansIssued` assume that hashes and signatures are never `NoValue`.
* `ProofsOutliveRotation` assumes `<<"second", "milli">> \notin Precisions`: no
  signer writes whole seconds where the manifest writes fractions. Without it the
  theorem is false, which `mixed_precision` shows.

### `Common_proofs`

Lemmas the others cite: induction over a bounded set of numbers and over finite
sets, in the form the provers can use (for a set, not for an operator); what the
lookup that takes the first match of a list answers, and `find_key` with it; and
Merkle trees: `LevelsUnfold` unfolds the levels of a tree from the recursive
function that defines them, `TreeOf` says what each level is, `SameHeight` and
`RootBindsSet` that equal roots have equal sets of leaves where leaves are not
nodes, and `RootBindsSequence` that they have equal sequences where their numbers of
leaves are equal too.

### `AuditProof_proofs`

| Theorem | Property | Strengthening it needs |
|---|---|---|
| `AuthenticMeansIssued` | `AnchoredMessageIsIssued` | `IInv` |
| `AuthenticMeansUnchanged` | `SignedViewIsIssued` | `IInv` |
| `ManifestIsNeverIgnored` | `ManifestDecides` | `IInv` |
| `AuthenticMeansIssuersTime` | `TimestampIsIssued` | `ChainInv` |
| `AuthenticMeansResident` | `ResidencyHonoured` | `RungInv` |
| `AuthenticMeansIssuedSets` | `SetsAreIssued` | `RungInv`, `ListsInv`, `LineageInv` |
| `AuthenticMeansIssuersRecord` | `CheckedRecordIsIssuers` | `RungInv` |
| `GenuineIsNeverRefused` | `GenuineProofAccepted` | itself inductive, given `IInv` and `RungInv` |
| `OneDocumentOneVerdict` | `LaddersAgree` | `ClimbInv` |
| `LadderKeepsItsPromise` | the safety part of `ImplementsVerifierOutcome` | `IInv`, `GenuineProofAccepted` |

A verdict is about the signature in the document, so the invariant has to speak
of signatures before there is a verdict: every signature a document carries is
an issued one, or was made with a foreign key, or is absent (`IInv`). Stage 8 is
reached only with a key the manifest publishes; by `ManifestAssumption` no foreign
key is among them, so the signature is an issuer's, over the message the last
comparison saw. That the canonical view determines every signed field is then
equality of records; of the key version the view has the number only, and more is
not claimed.

The other claims rest on rungs passed long before the signature is looked at. The
two stages have to be joined: `ChainInv` keeps that the step hashes are those of
the document's own timestamp once the chain was walked, and `RungInv` keeps, for
every position of the ladder, what the rungs behind it established of the region,
the two sets and the record, and that no later rung changes the document. At the
verdict this meets what the signature says of the issued proof. For the sets the
last link is `RootBindsSet`: the roots are equal, so the leaves are, and leaves are
receipts with their indices. The activity root binds a *sequence*, because the
number of lines is hashed into it.

On 1.0 an empty list is the one thing nothing binds: step 8 covers the roots that
are there, and says nothing of one that is not. `SetsAreIssued` is about a list
that is shown (`Shown`), and the proof needs exactly that.

`LadderKeepsItsPromise` is `Spec => Promise!Init /\ [][Promise!Next]_(Promise!vars)`:
each rung either leaves the mapped state or is the one step of `VerifierOutcome`
the facts of the document allow; `Allowed` at the verdict follows from
`GenuineProofAccepted` and `IInv`. The fairness half of the refinement is TLC's
(`outcome`).

`LaddersAgree` compares a state machine with three functions. A port's verdict is
that of its first rung which does not let the document pass (`ClimbsTo`), and the
Rust ladder takes one rung, or two, at a time; `ClimbInv` says that at each of its
positions every port has passed the document so far and has disclosed the same.
Then each rung is compared with its counterpart: `FirstWrongStep` for the walk over
the chain, where Rust asks whether the first fault is a hash and the ports take the
first wrong step, and `SetsAlike` for receipts and parents, where Go's answer may be
another and `OutsideGo` has to hold.

### `Walks_proofs`

Of `ChainWalk`: `TypeCorrect` (`TypeOK`), `AcceptedMeansWholeChain`
(`AcceptedChainIsWhole`), `RefusalHasCause` (`RefusedOnlyForCause`),
`CallbackAskedOnce` (`AsksOncePerCapsule`), and `CacheIsNeverConsulted`, which is why
step 5 of `verify_chain_impl` is no action of the model.

The invariant is a conjunction of named parts: the path is what was walked, every
node that asked was checked first, each answer is linked to the one that asked,
visited is what was walked, the depth is kept, what returned is the tail of the
walk, and the cache is filled only on the way back.

Of `CommandLine`: `ReportIsComplete` (`NothingSteadyIsMissed`) and `ZeroMeansVerified`
(`ZeroIsEarned`), for every tree, every target in it and any number of changes.

The walk is over a tree that changes under it, so the invariant (`ProgramInv`) says of
a file that nobody touched where it stands at every moment: it, or a directory it is
in, is still to be read, on the stack or among the entries of the directory being
read; or it is collected; or it is reported (`SteadyKept`). What is still to be read
is apart, none below another and no collected file below any (`FrontierApart`), so
that no file is collected twice; `touched` is closed downwards (`TouchedBelow`), so
that a steady file's directories are steady too. `ReadingHolds` keeps that what was
read of a node nobody touched is still so, its verdict included. When nothing is left
to be read every steady file is collected; that the sort gives each its place is
`InOrderSorts`.

Of `EgressStreams`: `AccumulatorIsEnough` (`WalkIsItsDefinition`) and
`LeavesAreDecisive` (`LeavesDecide`), for any number of streams of any length and any
faults.

`WalkHolds` says that the one accumulator is, at each event, what the definition
`AccumulatorAt` takes from the trail, and that nothing behind the cursor fails; one
lemma per kind of event shows how the definition changes from one event to the next
(`AccumulatorResets`, `AccumulatorTakes`, `AccumulatorSpoils`, `AccumulatorStays`).
Nothing about the order of streams is needed, so it holds of interleaved trails as
well.

`LeavesDecide` needs the shape of the trail: each stream starts once and first, ends
at most once and last, and numbers its chunks differently, each below the total it ends
with (`InStreamOrder`), which agrees with `sent` (`AsSent`). The four faults keep the
shape for one reason, `RearrangedKeeps`: what they leave is the trail before, with
chunks of a stream exchanged, left out or read differently. Where streams do not
overlap the accumulator closed by a completed event then holds the usable chunks of
its stream and no others (`StreamAlone`); if there are as many as the total says, the
sort puts each where its number says (`SortedLeaves`, `SeqOrderPlaces`). The root of
the sequence that was sent is the root compared with, and a root and a number of leaves
determine the leaves (`StreamRootBinds`), level by level from the root down.

### `Anchors_proofs`

Of `TrustRoot`: `TrustedIsSigned` (`TrustedManifestIsSigned`), `NoDowngrade` (`NeverDowngraded`),
`StaleIsDated` (`StaleManifestBearsItsDate`), `PinnedIdentityIsTrusted`
(`SignedManifestTrusted`).

Again the invariant has to follow signatures through every alteration: whatever
manifest is supplied has a signature that somebody made over a payload that was
published, or none. For the date it also says that what the publisher signed
bears a time before now and, once the authority is revoked, the revocation. The
converse, that a genuine manifest is never refused, needs a second invariant
(`IssuedInv`): each published manifest names its own fingerprint, is signed by its
own key over its own payload, and has at most the filler in the reserved slot.

Of `TransparencyLog`: `SpecHistoryOnlyGrows` (`HistoryOnlyGrows`), `SpecAnchorHolds`
(`AnchorHolds`), `SpecGenuineProofsVerify` (`GenuineProofsVerify`), for logs of any
size, any proof that is a sequence of digests, and any index.

The tree of `checkpoint.rs` splits at powers of two, and the verifications count in
bits; the proofs join the two. `Cover(leaves, at, w)` is the hash of the leaves from
`at` on, `w` of them or as many as there are; where `at` is a multiple of the power `w`
it is a node of the tree, or the last one of a level that promotes it
(`CoverSplits`, `CoverToTheEnd`). One iteration of the loop (`RiseMoves`) takes the
climb from such a place to the one above, past the levels where the last node has no
sibling. *Soundness* (`InclusionSound`, `ConsistencySound`) reads the climb from its
end: if the last hash is the root, each hash before it was the node's on its way, in
both trees for consistency, and the hash of a slice determines its leaves
(`SlicesBind`). *Completeness* goes the other way: along the recursion that writes a
proof, the loop over the part for a slice stands on top of that slice (`Stood`), and
one digest more takes it to the slice above (`PathRuns`; `PartRuns` and `WholeRuns` for
the two kinds of consistency proof).

The invariant, `AnchorInv`, then has little to say: the auditor's head is a tree head
over leaves, and what is anchored is a leaf under it.

### `AuthorityRotation_proofs`

`ResolvedKeyHasStanding` (`ResolvedHasStanding`), `ProofsOutliveRotation`
(`KeysOutliveRotation`).

The auditor's copy is of no particular time, so the invariant says of *any* copy
what it says of the published manifest (`Kept`): a version is listed once, as
active or as archived, with its own key, and an archived entry is dated truly or
not at all. `HeldInv` relates the copy to the proof: one fetched after the proof
still lists its version. That the written times order as the instants do is
`EarlierIsNotLater`, the only place where the precisions matter.

### `BoundaryChain_proofs`

`PastIsPinned` (`LinkPinsThePast`), `ExitIsEarned` (`ExitZeroIsEarned`),
`DisclosureIsIssued` (`DisclosedTrailIsIssued`), `GenuineIsAccepted`
(`GenuineChainAccepted`).

`Inv` says of the issued attestations that each links to the one before (`Genuine`),
of every document that its signature is over an attestation, foreign or absent
(`Made`, `Sound`), and of the linkage loop, at every round, that a document which
reads as an attestation has all the attestations before it in front of it
(`LinkedUpTo`). An anchored document reads as an attestation by the argument of the
ladder; `LinkedUpTo` at the end is the property. `DisclosureIsIssued` also needs
that the chained commitment over a trail is injective, by induction over the events.

`GenuineIsAccepted` is a statement about a loop that must *not* fail, and needs two
more invariants: `IssuedInFull`, that every attestation and every published key has
all that the checks ask, and `AcceptedSoFar`, that both loops have passed what they
saw. The attestations come in any order; that `Submit` puts attestation `lo + k - 1`
at place `k` is `RankOfAttestation`: the rank the sort assigns is a bijection
(`RankIsOnto`), and successive indices leave it no choice.

### `PubkeyBundle_proofs`

`TrustIsEarned` (`VerifiesAsPublished`), `ResolvedIsInForce`
(`ResolvedKeyWasInForce`), `KeyIsFound` (`ProofFindsItsKey`).

Signatures again, and the entries of a published bundle against those of now
(`OfKeys`, `Lists`): an entry of a bundle is the publisher's as it was; since then
it can only have been closed, and not before the bundle was built. A bundle built
after a proof has the entry of its key with a window that holds the proof.

### `PortedBundles_proofs`

`AcceptedMeansOfItsProof` (`ReceiptIsOfItsProof`), `AcceptedMeansIssued`
(`AcceptedAnchorIsIssued`), `OneBundleOneAnswer` (`LanguagesAgree`),
`GenuineMeansAccepted` (`GenuineBundleVerifies`).

A bundle may have any path. `PathStaysInTree` reads it from the root down: a path
that ends in a root of a proof was in its tree all the way, so it began at a node,
and a record hash is no inner node. The converse, `IssuedPathLeadsToRoot`, climbs
the path that extraction wrote, level by level, with the sibling of each place.
Bundles circulate as `Whole`: an index that is a number or missing, a body of five
fields that may be missing or empty, a signature somebody made; and one that nobody
altered is what its extractor made of the proof (`Untouched`), with its receipt
`InOrder`: written in none of the ways that some language reads otherwise.

`OneBundleOneAnswer` goes through the checks of a receipt in their order: outside
`ReadsOtherwise` a language takes the same receipts for misshapen, hashes the same
index and body, and climbs the same path. `ReadsOtherwise` names the ways one by
one, so the theorem also says that there are no others. `GenuineMeansAccepted` says
which genuine bundles verify, and nothing of those that do not: they are what
`portable` shows.

### Only model-checked

* *Liveness*, and with it the fairness half of `ImplementsVerifierOutcome`:
  `WalkEnds`, `RunEnds` and that the ladder always answers need ENABLED.
* The runs that are expected to fail.

## 5. Not modelled

* **Output bundle** (`verify-types/output_bundle.rs`): a stateless shape check of
  five fields that nothing else calls.
* **Wire types** (`verify-types/lib.rs`): enumerations and their serialisation;
  the reasons appear by name in the modules that give them.
* **Build script, schema, corpus**: compile-time constants and recorded data.
* **Of `main.rs`** the argument parser, `print-trust-chain` and all printing;
  the reports are modelled as what they list.
* **Of the issuer** the corpus manifest, the failure fixtures and file writing.
* **Of the ports** the building and verifying of public-key bundles, the second
  ladders (`VerifyFullAuditProofWaveN`, `wave_n.py`, `wave_n.ts`), which repeat
  parts of the first, the corpus sweep and the command lines.
* **Of the checkpoints** `signed_payload`, `prev_root_hash`, `issued_at` and the
  hexadecimal form of digests: nothing in the repository reads them.
* **The panic** of a debug build where `pi + 1` overflows (`boundary.rs:581`).
